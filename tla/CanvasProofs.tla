---------------------------- MODULE CanvasProofs ----------------------------
(***************************************************************************)
(* Theorems about AgentPool, for any set of leases and revisions and any    *)
(* number of generations; about Canvas, for any turns, tabs, elements and   *)
(* bounds; and about CanvasTurns, which keeps the rules of these two parts. *)
(***************************************************************************)
EXTENDS CanvasTurns, FiniteSetTheorems, TLAPS

-----------------------------------------------------------------------------
(* AgentPool: the inductive invariant.                                     *)

\* A generation's users are its leases.
Counted == \A g \in Gens : gen[g].users = Cardinality(Holders(g))

\* Generations are built in order.
Numbered == \A g \in Gens : gen[g].pool = "none" <=> g > built

\* A pool that is ending has no user, and a retired one that has none is ending.
Ended == \A g \in Gens : gen[g].pool \in {"closing", "closed"} => gen[g].users = 0
Retained == \A g \in Gens : gen[g].pool = "open" /\ gen[g].retired => gen[g].users # 0

\* Only the current generation is not retired, and it is open until close().
Live == \A g \in Gens : gen[g].pool = "open" /\ ~gen[g].retired => g = current /\ ~stopped
Fresh == ~stopped /\ current # 0 => gen[current].pool = "open" /\ ~gen[current].retired

IInv == TypeOK /\ Counted /\ Numbered /\ Ended /\ Retained /\ Live /\ Fresh

-----------------------------------------------------------------------------
(* How the leases of a generation change.                                  *)

LeaseType == lease \in [Leases -> Lease]

\* The leases of a generation are finitely many.
LEMMA HoldersFinite ==
  ASSUME NEW g
  PROVE  IsFiniteSet(Holders(g)) /\ Cardinality(Holders(g)) \in Nat
<1>1. Holders(g) \in SUBSET Leases
  BY DEF Holders
<1>2. IsFiniteSet(Holders(g))
  BY <1>1, LeasesAssumption, FS_Subset
<1> QED BY <1>2, FS_CardinalityType

\* A new lease of generation h adds one to the leases of h and of no other.
LEMMA LeaseJoins ==
  ASSUME LeaseType, NEW l \in Leases, NEW h, NEW e,
         e.gen = h, e.pc \in {"acquiring", "using"}, lease[l].pc \in {"idle", "reading"},
         lease' = [lease EXCEPT ![l] = e],
         NEW g
  PROVE  Cardinality(Holders(g)') =
           IF g = h THEN Cardinality(Holders(g)) + 1 ELSE Cardinality(Holders(g))
<1>1. l \notin Holders(g)
  BY DEF Holders
<1>2. CASE g = h
  <2>1. Holders(g)' = Holders(g) \cup {l}
    BY <1>2 DEF Holders, LeaseType
  <2> QED BY <1>1, <1>2, <2>1, HoldersFinite, FS_AddElement
<1>3. CASE g # h
  <2>1. Holders(g)' = Holders(g)
    BY <1>3 DEF Holders, LeaseType
  <2> QED BY <1>3, <2>1
<1> QED BY <1>2, <1>3

\* A release takes one from the leases of its generation and of no other.
LEMMA LeaseLeaves ==
  ASSUME LeaseType, NEW l \in Leases, lease[l].pc \in {"acquiring", "using"},
         lease' = [lease EXCEPT ![l].pc = "released"],
         NEW g
  PROVE  /\ Cardinality(Holders(g)') =
              IF g = lease[l].gen THEN Cardinality(Holders(g)) - 1
              ELSE Cardinality(Holders(g))
         /\ Cardinality(Holders(lease[l].gen)) # 0
<1>1. l \in Holders(lease[l].gen)
  BY DEF Holders
<1>2. Cardinality(Holders(lease[l].gen)) # 0
  BY <1>1, HoldersFinite, FS_EmptySet
<1>3. CASE g = lease[l].gen
  <2>1. Holders(g)' = Holders(g) \ {l}
    BY <1>3 DEF Holders, LeaseType
  <2> QED BY <1>1, <1>2, <1>3, <2>1, HoldersFinite, FS_RemoveElement
<1>4. CASE g # lease[l].gen
  <2>1. Holders(g)' = Holders(g)
    BY <1>4 DEF Holders, LeaseType
  <2> QED BY <1>2, <1>4, <2>1
<1> QED BY <1>3, <1>4

\* Whoever holds a generation finds its pool open.
LEMMA HeldIsOpen ==
  ASSUME IInv, NEW l \in Leases, lease[l].pc \in {"acquiring", "using"}
  PROVE  /\ lease[l].gen \in Gens
         /\ gen[lease[l].gen].pool = "open"
         /\ gen[lease[l].gen].users # 0
<1> DEFINE g == lease[l].gen
<1>1. g \in 1..built /\ g \in Gens
  <2>1. lease[l] \in Lease /\ g <= built /\ g # 0 /\ built \in 0..MaxGens
    BY DEF IInv, TypeOK
  <2>2. g \in 0..MaxGens
    BY <2>1 DEF Lease
  <2> QED BY <2>1, <2>2, GensAssumption DEF Gens
<1>2. l \in Holders(g)
  BY DEF Holders
<1>3. Cardinality(Holders(g)) # 0
  BY <1>2, HoldersFinite, FS_EmptySet
<1>4. gen[g].users # 0
  BY <1>1, <1>3 DEF IInv, Counted
<1>5. gen[g].pool \in {"none", "open", "closing", "closed"}
  BY <1>1 DEF IInv, TypeOK, Generation
<1>6. gen[g].pool # "none"
  BY <1>1, GensAssumption DEF IInv, TypeOK, Numbered, Gens
<1> QED BY <1>1, <1>4, <1>5, <1>6 DEF IInv, Ended

-----------------------------------------------------------------------------
(* The records of generations.                                             *)

\* A generation with another number of users, retired, or with its pool ending, is
\* one still.
LEMMA Recounted ==
  ASSUME NEW x \in Generation, NEW u \in Nat
  PROVE  LET y == [x EXCEPT !.users = u] IN
         /\ y \in Generation
         /\ y.users = u /\ y.pool = x.pool /\ y.retired = x.retired
  BY DEF Generation

LEMMA RetiredIs ==
  ASSUME NEW x \in Generation
  PROVE  LET y == [x EXCEPT !.retired = TRUE] IN
         /\ y \in Generation
         /\ y.users = x.users /\ y.pool = x.pool /\ y.retired
  BY DEF Generation

LEMMA EndingIs ==
  ASSUME NEW x \in Generation, NEW q \in {"closing", "closed"}
  PROVE  LET y == [x EXCEPT !.pool = q] IN
         /\ y \in Generation
         /\ y.users = x.users /\ y.pool = q /\ y.retired = x.retired
  BY DEF Generation

\* Retiring a generation ends its pool or leaves it.
LEMMA RetireIs ==
  ASSUME NEW x \in Generation
  PROVE  /\ Retire(x) \in Generation
         /\ Retire(x).users = x.users /\ Retire(x).retired = x.retired
         /\ Retire(x).pool = IF x.retired /\ x.users = 0 /\ x.pool = "open"
                             THEN "closing" ELSE x.pool
  BY EndingIs DEF Retire

-----------------------------------------------------------------------------
(* The invariant holds initially and every step preserves it.              *)

GenType == gen \in [Gens -> Generation]
CountType == revision \in Revisions /\ built \in 0..MaxGens /\ current \in 0..built
             /\ stopped \in BOOLEAN
HeldType == \A l \in Leases :
  /\ lease[l].gen <= built /\ lease[l].waits <= built
  /\ lease[l].pc \in {"acquiring", "using", "released"} => lease[l].gen # 0

\* The type invariant by its parts.
LEMMA TypeParts ==
  /\ TypeOK <=> GenType /\ CountType /\ LeaseType /\ HeldType
  /\ TypeOK' <=> GenType' /\ CountType' /\ LeaseType' /\ HeldType'
  BY DEF TypeOK, GenType, CountType, LeaseType, HeldType

LEMMA InitIInv == Init => IInv
<1> SUFFICES ASSUME Init PROVE IInv
  OBVIOUS
<1>1. TypeOK
  <2>1. Unbuilt(revision) \in Generation
    BY DEF Init, Unbuilt, Generation
  <2>2. GenType
    BY <2>1 DEF Init, GenType
  <2>3. CountType
    <3>1. stopped \in BOOLEAN
      BY Zenon DEF Init
    <3>2. revision \in Revisions /\ built \in 0..MaxGens /\ current \in 0..built
      BY GensAssumption DEF Init
    <3> QED BY <3>1, <3>2 DEF CountType
  <2>4. LeaseType
    BY GensAssumption DEF Init, LeaseType, Lease
  <2>5. HeldType
    BY DEF Init, HeldType
  <2> QED BY <2>2, <2>3, <2>4, <2>5, TypeParts
<1>2. Counted
  <2>1. \A g : Holders(g) = {}
    BY DEF Init, Holders
  <2> QED BY <2>1, FS_EmptySet DEF Init, Counted, Unbuilt
<1>3. Numbered /\ Ended /\ Retained /\ Live /\ Fresh
  BY DEF Init, Unbuilt, Numbered, Ended, Retained, Live, Fresh, Gens
<1> QED BY <1>1, <1>2, <1>3 DEF IInv

LEMMA EditKeeps == ASSUME IInv, NEW r \in Revisions, Edit(r) PROVE IInv'
<1>1. \A g : Holders(g)' = Holders(g)
  BY DEF Edit, Holders
<1> QED BY <1>1 DEF Edit, IInv, TypeOK, Counted, Numbered, Ended, Retained, Live, Fresh, Gens

\* A step that adds a user to an open generation, as a lease of it.
LEMMA JoinKeeps ==
  ASSUME IInv, NEW l \in Leases, NEW h \in Gens, h <= built, NEW e \in Lease,
         e.gen = h, e.pc \in {"acquiring", "using"}, e.waits = 0,
         gen[h].pool = "open", lease[l].pc \in {"idle", "reading"},
         gen' = [gen EXCEPT ![h].users = @ + 1],
         lease' = [lease EXCEPT ![l] = e],
         UNCHANGED <<revision, current, built, stopped>>
  PROVE  IInv'
<1> GenType /\ CountType /\ LeaseType /\ HeldType
  BY TypeParts DEF IInv
<1> h \in 1..built /\ built \in Nat
  BY GensAssumption DEF Gens, CountType
<1>1. \A g \in Gens : gen[g] \in Generation /\ gen[g].users \in Nat
  BY DEF GenType, Generation
<1>2. \A g \in Gens : gen'[g] = IF g = h THEN [gen[g] EXCEPT !.users = gen[g].users + 1]
                                ELSE gen[g]
  BY DEF GenType
<1>3. \A g \in Gens :
        /\ gen'[g] \in Generation
        /\ gen'[g].users = IF g = h THEN gen[g].users + 1 ELSE gen[g].users
        /\ gen'[g].pool = gen[g].pool /\ gen'[g].retired = gen[g].retired
  <2> SUFFICES ASSUME NEW g \in Gens
               PROVE /\ gen'[g] \in Generation
                     /\ gen'[g].users = IF g = h THEN gen[g].users + 1 ELSE gen[g].users
                     /\ gen'[g].pool = gen[g].pool /\ gen'[g].retired = gen[g].retired
    OBVIOUS
  <2> DEFINE u == gen[g].users + 1
  <2>1. u \in Nat
    BY <1>1
  <2> HIDE DEF u
  <2>2. CASE g = h
    <3>1. gen'[g] = [gen[g] EXCEPT !.users = u]
      BY <1>2, <2>2 DEF u
    <3>2. LET y == [gen[g] EXCEPT !.users = u] IN
          /\ y \in Generation
          /\ y.users = u /\ y.pool = gen[g].pool /\ y.retired = gen[g].retired
      <4>1. gen[g] \in Generation
        BY <1>1
      <4> QED BY <2>1, <4>1, Recounted
    <3> QED BY <2>2, <3>1, <3>2 DEF u
  <2>3. CASE g # h
    BY <1>1, <1>2, <2>3
  <2> QED BY <2>2, <2>3
<1>4. TypeOK'
  <2>1. GenType'
    BY <1>3 DEF GenType
  <2>2. CountType'
    BY DEF CountType
  <2>3. LeaseType'
    BY DEF LeaseType
  <2>4. HeldType'
    BY DEF HeldType, LeaseType, Lease
  <2> QED BY <2>1, <2>2, <2>3, <2>4, TypeParts
<1>5. Counted'
  <2>1. \A g \in Gens : Cardinality(Holders(g)') =
          IF g = h THEN Cardinality(Holders(g)) + 1 ELSE Cardinality(Holders(g))
    BY LeaseJoins
  <2> QED BY <1>3, <2>1 DEF Counted, IInv, Gens
<1>6. current # 0 => current \in Gens
  BY GensAssumption DEF CountType, Gens
<1>7. Numbered' /\ Ended' /\ Retained' /\ Live' /\ Fresh'
  BY <1>1, <1>3, <1>6 DEF IInv, Numbered, Ended, Retained, Live, Fresh, Gens
<1> QED BY <1>4, <1>5, <1>7 DEF IInv

\* A lease that begins to acquire a generation.
LEMMA AcquiringIs ==
  ASSUME NEW l, lease[l] \in Lease, NEW g \in 0..MaxGens, NEW w \in 0..MaxGens
  PROVE  /\ Acquiring(l, g, w) \in Lease
         /\ Acquiring(l, g, w).gen = g /\ Acquiring(l, g, w).waits = w
         /\ Acquiring(l, g, w).pc = "acquiring"
  BY DEF Acquiring, Lease

LEMMA AcquireCurrentKeeps ==
  ASSUME IInv, NEW l \in Leases, AcquireCurrent(l) PROVE IInv'
<1>1. current \in Gens /\ current <= built
  BY GensAssumption DEF IInv, TypeOK, AcquireCurrent, Current, Gens
<1>2. gen[current].pool = "open"
  BY DEF IInv, Fresh, AcquireCurrent, Current
<1>3. lease[l] \in Lease /\ current \in 0..MaxGens
  BY <1>1 DEF IInv, TypeOK, Gens
<1> DEFINE h == current
           e == Acquiring(l, h, 0)
<1>4. e \in Lease /\ e.gen = h /\ e.pc \in {"acquiring", "using"} /\ e.waits = 0
  <2>1. 0 \in 0..MaxGens
    BY GensAssumption
  <2> QED BY <1>3, <2>1, AcquiringIs
<1>5. /\ lease[l].pc \in {"idle", "reading"}
      /\ gen' = [gen EXCEPT ![h].users = @ + 1]
      /\ lease' = [lease EXCEPT ![l] = e]
      /\ UNCHANGED <<revision, current, built, stopped>>
  BY DEF AcquireCurrent
<1>6. h \in Gens /\ h <= built /\ gen[h].pool = "open"
  BY <1>1, <1>2
<1> HIDE DEF e, h
<1> QED BY <1>4, <1>5, <1>6, JoinKeeps

LEMMA RetainForKeeps ==
  ASSUME IInv, NEW l \in Leases, NEW m \in Leases, RetainFor(l, m) PROVE IInv'
<1>1. lease[m].gen \in Gens /\ gen[lease[m].gen].pool = "open"
  BY HeldIsOpen DEF RetainFor
<1>2. lease[m].gen <= built /\ lease[m] \in Lease
  BY GensAssumption DEF IInv, TypeOK
<1> DEFINE e == [lease[m] EXCEPT !.waits = 0]
<1>3. e \in Lease /\ e.gen = lease[m].gen /\ e.pc = lease[m].pc /\ e.waits = 0
  BY <1>2, GensAssumption DEF Lease
<1>4. /\ lease[l].pc \in {"idle", "reading"} /\ lease[m].pc = "using"
      /\ gen' = [gen EXCEPT ![lease[m].gen].users = @ + 1]
      /\ lease' = [lease EXCEPT ![l] = e]
      /\ UNCHANGED <<revision, current, built, stopped>>
  BY DEF RetainFor
<1>5. e.pc \in {"acquiring", "using"}
  BY <1>3, <1>4
<1> HIDE DEF e
<1> QED BY <1>1, <1>2, <1>3, <1>4, <1>5, JoinKeeps

LEMMA AcquireNewKeeps ==
  ASSUME IInv, NEW l \in Leases, AcquireNew(l) PROVE IInv'
<1> DEFINE n == built + 1
           w == IF Unused(current) THEN current ELSE 0
<1>0. w \in {0, current}
  OBVIOUS
<1> GenType /\ CountType /\ LeaseType /\ HeldType
  BY TypeParts DEF IInv
<1>1. n \in Gens /\ n # current /\ n \in Nat /\ built \in Nat /\ current \in 0..built
  BY GensAssumption DEF CountType, AcquireNew, Gens
<1>2. \A g \in Gens : gen[g] \in Generation /\ gen[g].users \in Nat
  BY DEF GenType, Generation
<1>3. \A g \in Gens :
        /\ g = n => gen'[g] = Opened(lease[l].revision)
        /\ g # n /\ g = current => gen'[g] = Retire([gen[g] EXCEPT !.retired = TRUE])
        /\ g # n /\ g # current => gen'[g] = gen[g]
  BY DEF AcquireNew
<1>4. /\ gen'[n] \in Generation
      /\ gen'[n].users = 1 /\ gen'[n].pool = "open" /\ ~gen'[n].retired
  <2> DEFINE x == Opened(lease[l].revision)
  <2>1. x \in Generation
    <3>1. lease[l].revision \in Revisions
      BY DEF LeaseType, Lease
    <3> QED BY <3>1 DEF Generation, Opened
  <2>2. x.users = 1 /\ x.pool = "open" /\ ~x.retired
    BY DEF Opened
  <2>3. gen'[n] = x
    BY <1>1, <1>3
  <2> QED BY <2>1, <2>2, <2>3
<1>5. \A g \in Gens : g # n /\ g = current =>
        /\ gen'[g] \in Generation
        /\ gen'[g].users = gen[g].users /\ gen'[g].retired
        /\ gen'[g].pool = IF gen[g].users = 0 /\ gen[g].pool = "open" THEN "closing" ELSE gen[g].pool
  <2> SUFFICES ASSUME NEW g \in Gens, g # n, g = current
               PROVE  /\ gen'[g] \in Generation
                      /\ gen'[g].users = gen[g].users /\ gen'[g].retired
                      /\ gen'[g].pool = IF gen[g].users = 0 /\ gen[g].pool = "open"
                                        THEN "closing" ELSE gen[g].pool
    OBVIOUS
  <2> DEFINE y == [gen[g] EXCEPT !.retired = TRUE]
  <2>1. y \in Generation /\ y.users = gen[g].users /\ y.pool = gen[g].pool /\ y.retired
    BY <1>2, RetiredIs
  <2>2. gen'[g] = Retire(y)
    BY <1>3
  <2> HIDE DEF y
  <2> QED BY <2>1, <2>2, RetireIs
<1>12. /\ Acquiring(l, n, w) \in Lease
       /\ Acquiring(l, n, w).gen = n /\ Acquiring(l, n, w).waits = w
       /\ Acquiring(l, n, w).pc = "acquiring"
  <2>1. lease[l] \in Lease /\ n \in 0..MaxGens /\ w \in 0..MaxGens
    BY <1>0, <1>1, GensAssumption DEF LeaseType, Gens
  <2> QED BY <2>1, AcquiringIs
<1>6. TypeOK'
  <2>1. GenType'
    <3>1. gen' = [g \in Gens |-> gen'[g]]
      BY DEF AcquireNew
    <3>2. \A g \in Gens : gen'[g] \in Generation
      BY <1>2, <1>3, <1>4, <1>5
    <3> QED BY <3>1, <3>2 DEF GenType
  <2>2. CountType'
    BY <1>1, GensAssumption DEF CountType, AcquireNew, Gens
  <2>3. LeaseType'
    BY <1>12 DEF LeaseType, AcquireNew
  <2>4. HeldType'
    BY <1>0, <1>1, <1>12 DEF HeldType, LeaseType, Lease, AcquireNew
  <2> QED BY <2>1, <2>2, <2>3, <2>4, TypeParts
<1>7. Counted'
  <2>1. \A g \in Gens : Cardinality(Holders(g)') =
          IF g = n THEN Cardinality(Holders(g)) + 1 ELSE Cardinality(Holders(g))
    <3>1. /\ lease' = [lease EXCEPT ![l] = Acquiring(l, n, w)]
          /\ lease[l].pc = "reading"
      BY DEF AcquireNew
    <3> QED BY <1>12, <3>1, LeaseJoins
  <2>2. Cardinality(Holders(n)) = 0
    <3>1. Holders(n) = {}
      BY <1>1 DEF Holders, LeaseType, HeldType, Lease
    <3> QED BY <3>1, FS_EmptySet
  <2>3. \A g \in Gens : gen'[g].users = IF g = n THEN 1 ELSE gen[g].users
    BY <1>3, <1>4, <1>5
  <2> QED BY <2>1, <2>2, <2>3 DEF Counted, IInv, Gens
<1>8. built' = n /\ current' = n /\ stopped' = stopped
  BY DEF AcquireNew
<1>9. Numbered'
  <2> SUFFICES ASSUME NEW g \in Gens PROVE gen'[g].pool = "none" <=> g > n
    BY <1>8 DEF Numbered
  <2>1. gen[g].pool = "none" <=> g > built
    BY DEF IInv, Numbered
  <2>2. g \in Nat
    BY DEF Gens
  <2>3. CASE g = n
    BY <1>1, <1>4, <2>3
  <2>4. CASE g # n /\ g = current
    <3>1. ~(g > built) /\ ~(g > n)
      BY <1>1, <2>4
    <3> QED BY <1>5, <2>1, <2>4, <3>1
  <2>5. CASE g # n /\ g # current
    <3>1. gen'[g] = gen[g]
      BY <1>3, <2>5
    <3>2. g > built <=> g > n
      BY <1>1, <2>2, <2>5
    <3> QED BY <2>1, <3>1, <3>2
  <2> QED BY <2>3, <2>4, <2>5
<1>10. Ended' /\ Retained'
  BY <1>1, <1>3, <1>4, <1>5 DEF IInv, Ended, Retained, Gens
<1>11. Live' /\ Fresh'
  BY <1>1, <1>3, <1>4, <1>5, <1>8 DEF IInv, Live, Fresh, AcquireNew, Gens
<1> QED BY <1>6, <1>7, <1>9, <1>10, <1>11 DEF IInv

LEMMA ReadRevisionKeeps ==
  ASSUME IInv, NEW l \in Leases, ReadRevision(l) PROVE IInv'
<1> GenType /\ CountType /\ LeaseType /\ HeldType
  BY TypeParts DEF IInv
<1>1. \A g : Holders(g)' = Holders(g)
  BY DEF ReadRevision, Holders, LeaseType
<1>2. TypeOK'
  <2>1. LeaseType' /\ HeldType'
    BY GensAssumption DEF ReadRevision, LeaseType, HeldType, Lease, CountType
  <2>2. GenType' /\ CountType'
    BY DEF ReadRevision, GenType, CountType
  <2> QED BY <2>1, <2>2, TypeParts
<1> QED BY <1>1, <1>2
        DEF ReadRevision, IInv, Counted, Numbered, Ended, Retained, Live, Fresh, Gens

LEMMA BuildAgentKeeps ==
  ASSUME IInv, NEW l \in Leases, BuildAgent(l) PROVE IInv'
<1> GenType /\ CountType /\ LeaseType /\ HeldType
  BY TypeParts DEF IInv
<1>1. \A g : Holders(g)' = Holders(g)
  BY DEF BuildAgent, Holders
<1> DEFINE h == lease[l].gen
           y == [gen[h] EXCEPT !.tools = {revision}]
<1>2. h \in Gens
  BY HeldIsOpen DEF BuildAgent
<1>3. y \in Generation /\ y.users = gen[h].users /\ y.pool = gen[h].pool
      /\ y.retired = gen[h].retired
  <2>1. gen[h] \in Generation /\ {revision} \in SUBSET Revisions
    BY <1>2 DEF GenType, CountType
  <2> HIDE DEF h
  <2> QED BY <2>1 DEF Generation
<1>4. gen' = [gen EXCEPT ![h] = y]
  BY DEF BuildAgent
<1> HIDE DEF h, y
<1>5. \A g \in Gens : gen'[g] \in Generation /\ gen'[g].users = gen[g].users
                       /\ gen'[g].pool = gen[g].pool /\ gen'[g].retired = gen[g].retired
  BY <1>2, <1>3, <1>4 DEF GenType
<1>6. TypeOK'
  <2>1. GenType'
    BY <1>3, <1>4 DEF GenType
  <2>2. CountType' /\ LeaseType' /\ HeldType'
    BY DEF BuildAgent, CountType, LeaseType, HeldType
  <2> QED BY <2>1, <2>2, TypeParts
<1>7. current # 0 => current \in Gens
  BY GensAssumption DEF CountType, Gens
<1>8. Counted' /\ Numbered' /\ Ended' /\ Retained' /\ Live' /\ Fresh'
  BY <1>1, <1>5, <1>7
  DEF BuildAgent, IInv, Counted, Numbered, Ended, Retained, Live, Fresh
<1> QED BY <1>6, <1>8 DEF IInv

LEMMA AcquireDoneKeeps ==
  ASSUME IInv, NEW l \in Leases, AcquireDone(l) PROVE IInv'
<1> GenType /\ CountType /\ LeaseType /\ HeldType
  BY TypeParts DEF IInv
<1>1. \A g : Holders(g)' = Holders(g)
  BY DEF AcquireDone, Holders, LeaseType
<1>2. TypeOK'
  <2>1. LeaseType' /\ HeldType'
    BY DEF AcquireDone, LeaseType, HeldType, Lease
  <2>2. GenType' /\ CountType'
    BY DEF AcquireDone, GenType, CountType
  <2> QED BY <2>1, <2>2, TypeParts
<1> QED BY <1>1, <1>2
        DEF AcquireDone, IInv, Counted, Numbered, Ended, Retained, Live, Fresh, Gens

LEMMA ReleaseKeeps ==
  ASSUME IInv, NEW l \in Leases, Release(l) PROVE IInv'
<1> GenType /\ CountType /\ LeaseType /\ HeldType
  BY TypeParts DEF IInv
<1>1. CASE Released(l)
  BY <1>1 DEF Release, IInv, TypeOK, Counted, Holders, Numbered, Ended, Retained, Live, Fresh, Gens
<1>2. CASE ~Released(l)
  <2> DEFINE h == lease[l].gen
  <2>1. lease[l].pc \in {"acquiring", "using"}
    BY <1>2 DEF Release, Released
  <2>2. h \in Gens /\ gen[h].pool = "open" /\ gen[h].users # 0
    BY <2>1, HeldIsOpen
  <2>3. \A g \in Gens : gen[g] \in Generation /\ gen[g].users \in Nat
    BY DEF GenType, Generation
  <2>4. /\ gen' = [gen EXCEPT ![h] = Retire(Left(gen[h]))]
        /\ lease' = [lease EXCEPT ![l].pc = "released"]
        /\ UNCHANGED <<revision, current, built, stopped>>
    BY <1>2 DEF Release
  <2> HIDE DEF h
  <2> DEFINE y == Left(gen[h])
  <2>5. y \in Generation /\ y.users = gen[h].users - 1 /\ y.pool = "open"
        /\ y.retired = gen[h].retired
    <3>1. gen[h].users - 1 \in Nat
      BY <2>2, <2>3
    <3> QED BY <2>2, <2>3, <3>1, Recounted DEF Left
  <2>6. \A g \in Gens : gen'[g] = IF g = h THEN Retire(y) ELSE gen[g]
    BY <2>2, <2>4 DEF GenType
  <2> HIDE DEF y
  <2>7. /\ gen'[h] \in Generation
        /\ gen'[h].users = gen[h].users - 1 /\ gen'[h].retired = gen[h].retired
        /\ gen'[h].pool = IF gen[h].retired /\ gen[h].users - 1 = 0 THEN "closing" ELSE "open"
    <3>1. gen'[h] = Retire(y)
      BY <2>2, <2>6
    <3> QED BY <2>5, <3>1, RetireIs
  <2>8. TypeOK'
    <3>1. GenType'
      <4>1. gen' = [g \in Gens |-> gen'[g]]
        BY <2>4 DEF GenType
      <4>2. \A g \in Gens : gen'[g] \in Generation
        BY <2>3, <2>6, <2>7
      <4> QED BY <4>1, <4>2 DEF GenType
    <3>2. CountType'
      BY <2>4 DEF CountType
    <3>3. LeaseType' /\ HeldType'
      BY <2>1, <2>4 DEF LeaseType, HeldType, Lease
    <3> QED BY <3>1, <3>2, <3>3, TypeParts
  <2>9. Counted'
    <3>1. \A g \in Gens : Cardinality(Holders(g)') =
            IF g = h THEN Cardinality(Holders(g)) - 1 ELSE Cardinality(Holders(g))
      BY <2>1, <2>4, LeaseLeaves DEF h
    <3> QED BY <2>6, <2>7, <3>1 DEF Counted, IInv, Gens
  <2>10. current # 0 => current \in Gens
    BY GensAssumption DEF CountType, Gens
  <2>11. Numbered' /\ Ended' /\ Retained' /\ Live'
    BY <2>2, <2>3, <2>4, <2>6, <2>7 DEF IInv, Numbered, Ended, Retained, Live, Gens
  <2>12. Fresh'
    BY <2>4, <2>6, <2>7, <2>10 DEF IInv, Fresh, Gens
  <2> QED BY <2>8, <2>9, <2>11, <2>12 DEF IInv
<1> QED BY <1>1, <1>2

LEMMA PoolClosedKeeps ==
  ASSUME IInv, NEW p \in Gens, PoolClosed(p) PROVE IInv'
<1> GenType /\ CountType /\ LeaseType /\ HeldType
  BY TypeParts DEF IInv
<1>1. gen[p].pool = "closing" /\ gen[p].users = 0
  BY DEF PoolClosed, IInv, Ended
<1>2. \A g \in Gens : gen[g] \in Generation
  BY DEF GenType
<1>3. \A g \in Gens : gen'[g] = IF g = p THEN [gen[p] EXCEPT !.pool = "closed"] ELSE gen[g]
  BY DEF PoolClosed, GenType
<1>4. /\ gen'[p] \in Generation /\ gen'[p].users = 0 /\ gen'[p].pool = "closed"
      /\ gen'[p].retired = gen[p].retired
  <2> DEFINE y == [gen[p] EXCEPT !.pool = "closed"]
  <2>1. gen[p] \in Generation
    BY <1>2
  <2>2. y \in Generation /\ y.users = gen[p].users /\ y.pool = "closed"
        /\ y.retired = gen[p].retired
    BY <2>1, EndingIs
  <2>3. gen'[p] = y
    BY <1>3
  <2> HIDE DEF y
  <2> QED BY <1>1, <2>2, <2>3
<1>5. TypeOK'
  <2>1. GenType'
    <3>1. gen' = [g \in Gens |-> gen'[g]]
      BY DEF GenType, PoolClosed
    <3>2. \A g \in Gens : gen'[g] \in Generation
      BY <1>2, <1>3, <1>4
    <3> QED BY <3>1, <3>2 DEF GenType
  <2>2. CountType' /\ LeaseType' /\ HeldType'
    BY DEF PoolClosed, CountType, LeaseType, HeldType
  <2> QED BY <2>1, <2>2, TypeParts
<1>6. \A g : Holders(g)' = Holders(g)
  BY DEF PoolClosed, Holders
<1>7. Counted'
  BY <1>1, <1>3, <1>4, <1>6 DEF IInv, Counted
<1>8. Numbered' /\ Ended' /\ Retained' /\ Live'
  BY <1>1, <1>3, <1>4 DEF PoolClosed, IInv, Numbered, Ended, Retained, Live
<1>9. Fresh'
  <2>1. ~stopped /\ current # 0 => gen'[current] = gen[current]
    <3>1. current # 0 => current \in Gens
      BY GensAssumption DEF CountType, Gens
    <3>2. ~stopped /\ current # 0 => current # p
      BY <1>1 DEF IInv, Fresh
    <3> QED BY <1>3, <3>1, <3>2
  <2> QED BY <2>1 DEF PoolClosed, IInv, Fresh
<1> QED BY <1>5, <1>7, <1>8, <1>9 DEF IInv

LEMMA CloseKeeps == ASSUME IInv, Close PROVE IInv'
<1> GenType /\ CountType /\ LeaseType /\ HeldType
  BY TypeParts DEF IInv
<1>1. \A g \in Gens : gen[g] \in Generation
  BY DEF GenType
<1>2. \A g \in Gens : gen[g].pool # "open" => gen'[g] = gen[g]
  BY DEF Close
<1>3. \A g \in Gens : gen[g].pool = "open" =>
        /\ gen'[g] \in Generation
        /\ gen'[g].users = gen[g].users /\ gen'[g].retired
        /\ gen'[g].pool = IF gen[g].users = 0 THEN "closing" ELSE "open"
  <2> SUFFICES ASSUME NEW g \in Gens, gen[g].pool = "open"
               PROVE  /\ gen'[g] \in Generation
                      /\ gen'[g].users = gen[g].users /\ gen'[g].retired
                      /\ gen'[g].pool = IF gen[g].users = 0 THEN "closing" ELSE "open"
    OBVIOUS
  <2> DEFINE y == [gen[g] EXCEPT !.retired = TRUE]
  <2>1. y \in Generation /\ y.users = gen[g].users /\ y.pool = "open" /\ y.retired
    BY <1>1, RetiredIs
  <2>2. gen'[g] = Retire(y)
    BY DEF Close
  <2> HIDE DEF y
  <2> QED BY <2>1, <2>2, RetireIs
<1>4. TypeOK'
  <2>1. GenType'
    <3>1. gen' = [g \in Gens |-> gen'[g]]
      BY DEF Close
    <3>2. \A g \in Gens : gen'[g] \in Generation
      BY <1>1, <1>2, <1>3
    <3> QED BY <3>1, <3>2 DEF GenType
  <2>2. CountType' /\ LeaseType' /\ HeldType'
    BY DEF Close, CountType, LeaseType, HeldType
  <2> QED BY <2>1, <2>2, TypeParts
<1>5. \A g : Holders(g)' = Holders(g)
  BY DEF Close, Holders
<1>6. Counted'
  BY <1>2, <1>3, <1>5 DEF IInv, Counted
<1>7. Numbered'
  BY <1>2, <1>3 DEF Close, IInv, Numbered
<1>8. Ended' /\ Retained'
  BY <1>2, <1>3 DEF IInv, Ended, Retained
<1>9. Live' /\ Fresh'
  BY <1>2, <1>3 DEF Close, IInv, Live, Fresh
<1> QED BY <1>4, <1>6, <1>7, <1>8, <1>9 DEF IInv

\* The invariant is inductive.
LEMMA NextKeeps == IInv /\ [Next]_vars => IInv'
<1> SUFFICES ASSUME IInv, [Next]_vars PROVE IInv'
  OBVIOUS
<1>1. ASSUME NEW r \in Revisions, Edit(r) PROVE IInv'
  BY <1>1, EditKeeps
<1>2. ASSUME NEW l \in Leases, AcquireCurrent(l) PROVE IInv'
  BY <1>2, AcquireCurrentKeeps
<1>3. ASSUME NEW l \in Leases, AcquireNew(l) PROVE IInv'
  BY <1>3, AcquireNewKeeps
<1>4. ASSUME NEW l \in Leases, AcquireDone(l) PROVE IInv'
  BY <1>4, AcquireDoneKeeps
<1>5. ASSUME NEW l \in Leases, Release(l) PROVE IInv'
  BY <1>5, ReleaseKeeps
<1>6. ASSUME NEW l \in Leases, NEW m \in Leases, RetainFor(l, m) PROVE IInv'
  BY <1>6, RetainForKeeps
<1>7. ASSUME NEW g \in Gens, PoolClosed(g) PROVE IInv'
  BY <1>7, PoolClosedKeeps
<1>8. CASE Close
  BY <1>8, CloseKeeps
<1>10. ASSUME NEW l \in Leases, ReadRevision(l) \/ BuildAgent(l) PROVE IInv'
  BY <1>10, ReadRevisionKeeps, BuildAgentKeeps
<1>9. CASE UNCHANGED vars
  <2>1. \A g : Holders(g)' = Holders(g)
    BY <1>9 DEF vars, Holders
  <2> QED BY <1>9, <2>1 DEF vars, IInv, TypeOK, Counted, Numbered, Ended, Retained, Live, Fresh
<1> QED BY <1>1, <1>2, <1>3, <1>4, <1>5, <1>6, <1>7, <1>8, <1>9, <1>10 DEF Next

LEMMA Invariance == Spec => []IInv
BY InitIInv, NextKeeps, PTL DEF Spec

-----------------------------------------------------------------------------
(* The theorems.                                                           *)

\* The type invariant of the pool's generations and leases; a generation's users
\* never fall below zero.
THEOREM TypeCorrect == Spec => []TypeOK
<1>1. IInv => TypeOK
  BY DEF IInv
<1> QED BY <1>1, Invariance, PTL

\* A turn or a background job that has acquired a generation and not released it
\* finds its MCP clients open (reloadable.ts: retire() ends a pool only after the
\* last release).
THEOREM UsersKeepTheirPool == Spec => []UsedIsOpen
<1>1. IInv => UsedIsOpen
  BY HeldIsOpen DEF UsedIsOpen
<1> QED BY <1>1, Invariance, PTL

\* A generation without users that is not the current one has begun to end, and
\* after close() so has the current one: no MCP client outlives its users unseen.
THEOREM NoPoolIsForgotten == Spec => []NoneForgotten
<1>1. IInv => NoneForgotten
  <2> SUFFICES ASSUME IInv, NEW g \in Gens, gen[g].pool = "open", Holders(g) = {}
               PROVE  g = current /\ ~stopped
    BY DEF NoneForgotten
  <2>1. gen[g].users = 0
    BY FS_EmptySet DEF IInv, Counted
  <2>2. ~gen[g].retired
    BY <2>1 DEF IInv, Retained
  <2> QED BY <2>2 DEF IInv, Live
<1> QED BY <1>1, Invariance, PTL

-----------------------------------------------------------------------------
(* Canvas: the inductive invariant, of operators without variables.  sc      *)
(* stands for scenes, md for made.                                           *)

History(sc, md) ==
  /\ sc \in Seq(Picture(Len(md)))
  /\ md \in Seq(Edits(Len(md)))

\* Later histories of the chat.
Extends(sc, md, sc2, md2) ==
  /\ History(sc2, md2)
  /\ Len(sc) <= Len(sc2) /\ \A i \in 1..Len(sc) : sc2[i] = sc[i]
  /\ Len(md) <= Len(md2) /\ \A i \in 1..Len(md) : md2[i] = md[i]

Own(md, w, n) == n \in 1..Len(md) /\ md[n].by = w

\* Edit n of x by w may replace edit m.
May(md, w, n, m, x) ==
  n > m /\ Own(md, w, n) /\ (md[n].seen[x].edit = m \/ Own(md, w, m))

\* Scene s of w is that of revision r with edits of w.
Edited(w, s, r, sc, md) ==
  \A x \in Elements :
    s[x].edit # sc[r + 1][x].edit => May(md, w, s[x].edit, sc[r + 1][x].edit, x)

NoneLost(sc, md) ==
  \A r \in 1..Len(sc) - 1, x \in Elements :
    sc[r + 1][x].edit # sc[r][x].edit =>
      \E w \in Writers : May(md, w, sc[r + 1][x].edit, sc[r][x].edit, x)

\* A writer's request: who writes has the lock, and has found what it has asked for.
RequestOK(w, q, lk, en, sc, md) ==
  /\ q \in Request(Len(sc), Len(md))
  /\ q.pc \in {"writing", "written"} => lk = w
  /\ q.pc = "writing" /\ w # "settings" =>
       /\ IF q.base = None THEN Len(sc) = 0 ELSE q.base = Len(sc) - 1
       /\ w # "fork" => en
  /\ q.pc \in {"asked", "writing"} /\ q.base # None => Edited(w, q.scene, q.base, sc, md)
  /\ w = "fork" /\ q.pc \in {"asked", "writing", "written"} => q.base = None

TurnOK(u, sc) == u \in TurnState(Len(sc)) /\ (u.pc = "changing" => u.conflicts < MaxConflicts)

\* A tab: what it shows is its base with its own edits, which are kept.
TabOK(t, c, sc, md) ==
  /\ c \in TabState(Len(sc), Len(md))
  /\ c.dirty => c.base # None
  /\ c.base # None => Edited(t, c.shown, c.base, sc, md)
  /\ c.base # None /\ ~c.dirty => \A x \in Elements : c.shown[x].edit = sc[c.base + 1][x].edit
  /\ c.base = None => \A x \in Elements : c.mine[x] = 0
  /\ \A x \in Elements : c.mine[x] # 0 =>
       c.shown[x].edit = c.mine[x] \/ \E i \in 1..Len(sc) : sc[i][x].edit = c.mine[x]
  /\ c.reload \in {"asked", "answered"} => c.blocked
  /\ c.reload \in {"answered", "cleared"} => c.answer # None

\* A tab c whose save q is under way: what it shows differs from what it has sent by
\* edits that saw the same base.
SendingOK(t, c, q, sc, md) ==
  q.pc # "none" =>
    /\ c.base # None /\ ~c.blocked
    /\ q.pc \in {"asked", "writing", "written"} => q.base = c.base
    /\ \A x \in Elements :
         /\ q.scene[x].edit # sc[c.base + 1][x].edit => Own(md, t, q.scene[x].edit)
         /\ c.shown[x].edit # q.scene[x].edit =>
              /\ c.shown[x].edit > q.scene[x].edit /\ Own(md, t, c.shown[x].edit)
              /\ md[c.shown[x].edit].seen[x].edit = sc[c.base + 1][x].edit
    /\ q.pc = "written" => Len(sc) > 0 /\ \A x \in Elements : sc[Len(sc)][x].edit = q.scene[x].edit
    /\ q.pc = "saved" => /\ q.base # None
                         /\ \A x \in Elements : sc[q.base + 1][x].edit = q.scene[x].edit

FeedOK(f, sc) == f \in FeedState(Len(sc)) /\ (f.busy => f.read # None)

Requests == /\ write = [w \in Writers |-> write[w]]
            /\ \A w \in Writers : RequestOK(w, write[w], lock, enabled, scenes, made)
TurnStates == /\ turn = [l \in Turns |-> turn[l]]
              /\ \A l \in Turns : TurnOK(turn[l], scenes)
TabStates == /\ tab = [t \in Tabs |-> tab[t]]
             /\ \A t \in Tabs : TabOK(t, tab[t], scenes, made)
Sendings == \A t \in Tabs : SendingOK(t, tab[t], write[t], scenes, made)
Stores0 == enabled \in BOOLEAN /\ lock \in Writers \cup {"free", "dead"}

CanvasInv ==
  /\ Stores0 /\ History(scenes, made) /\ NoneLost(scenes, made)
  /\ Requests /\ TurnStates /\ TabStates /\ Sendings /\ FeedOK(feed, scenes)

-----------------------------------------------------------------------------
(* Later histories keep what was sound.                                     *)

LEMMA PictureGrows ==
  ASSUME NEW j \in Nat, NEW k \in Nat, j <= k, NEW s \in Picture(j)
  PROVE  s \in Picture(k)
BY DEF Picture

LEMMA PictureIs ==
  ASSUME NEW k \in Nat, NEW s \in Picture(k), NEW x \in Elements
  PROVE  s[x].edit \in 0..k /\ s[x].marked \in BOOLEAN
BY DEF Picture

LEMMA SeqIs ==
  ASSUME NEW S, NEW s \in Seq(S)
  PROVE  Len(s) \in Nat /\ \A i \in 1..Len(s) : s[i] \in S
OBVIOUS

LEMMA SeqGrows ==
  ASSUME NEW S, NEW T, \A e \in S : e \in T, NEW s \in Seq(S)
  PROVE  s \in Seq(T)
OBVIOUS

LEMMA MessagesGrow ==
  ASSUME NEW a \in Nat, NEW b \in Nat, a <= b, NEW s \in Seq(Message(a))
  PROVE  s \in Seq(Message(b))
<1>1. \A m \in Message(a) : m \in Message(b)
  BY DEF Message
<1> QED BY <1>1, SeqGrows

LEMMA HistoryIs ==
  ASSUME NEW sc, NEW md, History(sc, md)
  PROVE  /\ Len(sc) \in Nat /\ Len(md) \in Nat
         /\ \A i \in 1..Len(sc) : sc[i] \in Picture(Len(md))
         /\ \A i \in 1..Len(md) : md[i] \in Edits(Len(md))
<1>1. Len(sc) \in Nat /\ \A i \in 1..Len(sc) : sc[i] \in Picture(Len(md))
  BY SeqIs DEF History
<1>2. Len(md) \in Nat /\ \A i \in 1..Len(md) : md[i] \in Edits(Len(md))
  BY SeqIs DEF History
<1> QED BY <1>1, <1>2

\* An edit is recorded.
LEMMA MadeExtends ==
  ASSUME NEW sc, NEW md, History(sc, md), NEW w \in Writers, NEW s \in Picture(Len(md))
  PROVE  LET md2 == Append(md, [by |-> w, seen |-> s]) IN
         /\ Extends(sc, md, sc, md2)
         /\ Len(md2) = Len(md) + 1 /\ md2[Len(md) + 1] = [by |-> w, seen |-> s]
<1> DEFINE n == Len(md) + 1
           e == [by |-> w, seen |-> s]
           md2 == Append(md, e)
<1>1. Len(md) \in Nat /\ n \in Nat /\ Len(md) <= n /\ sc \in Seq(Picture(Len(md))) /\ md \in Seq(Edits(Len(md)))
  BY HistoryIs DEF History
<1>2. \A p \in Picture(Len(md)) : p \in Picture(n)
  BY <1>1, PictureGrows
<1>3. sc \in Seq(Picture(n))
  BY <1>1, <1>2, SeqGrows
<1>4. e \in Edits(n) /\ \A d \in Edits(Len(md)) : d \in Edits(n)
  BY <1>2 DEF Edits
<1> HIDE DEF n, e, md2
<1>5. md \in Seq(Edits(n))
  BY <1>1, <1>4, SeqGrows
<1>6. /\ md2 \in Seq(Edits(n)) /\ Len(md2) = Len(md) + 1 /\ md2[Len(md) + 1] = e
      /\ \A i \in 1..Len(md) : md2[i] = md[i]
  BY <1>4, <1>5 DEF md2
<1>7. Len(md2) = n
  BY <1>6 DEF n
<1>8. History(sc, md2)
  BY <1>3, <1>6, <1>7 DEF History
<1> QED BY <1>1, <1>6, <1>8 DEF Extends, n, e, md2

\* A revision is stored.
LEMMA ScenesExtend ==
  ASSUME NEW sc, NEW md, History(sc, md), NEW s \in Picture(Len(md)),
         NEW sc2, sc2 = Append(sc, s)
  PROVE  /\ Extends(sc, md, sc2, md)
         /\ Len(sc2) = Len(sc) + 1 /\ sc2[Len(sc2)] = s
<1> DEFINE P == Picture(Len(md))
<1>1. Len(md) \in Nat /\ Len(sc) \in Nat /\ sc \in Seq(P) /\ s \in P
  BY HistoryIs DEF History
<1>2. md \in Seq(Edits(Len(md)))
  BY DEF History
<1> HIDE DEF P
<1>3. /\ sc2 \in Seq(P) /\ Len(sc2) = Len(sc) + 1 /\ sc2[Len(sc2)] = s
      /\ \A i \in 1..Len(sc) : sc2[i] = sc[i]
  BY <1>1
<1> QED BY <1>1, <1>2, <1>3 DEF Extends, History, P

LEMMA ExtendsSame ==
  ASSUME NEW sc, NEW md, History(sc, md)
  PROVE  Extends(sc, md, sc, md)
BY HistoryIs DEF Extends

LEMMA EditedGrows ==
  ASSUME NEW sc, NEW md, NEW sc2, NEW md2, History(sc, md), Extends(sc, md, sc2, md2),
         NEW w, NEW s, NEW r \in 0..Len(sc) - 1, Edited(w, s, r, sc, md)
  PROVE  Edited(w, s, r, sc2, md2)
<1>1. sc2[r + 1] = sc[r + 1]
  BY HistoryIs DEF Extends
<1>2. \A n : Own(md, w, n) => Own(md2, w, n) /\ md2[n] = md[n]
  BY HistoryIs DEF Extends, Own
<1> QED BY <1>1, <1>2 DEF Edited, May

LEMMA TabGrows ==
  ASSUME NEW sc, NEW md, NEW sc2, NEW md2, History(sc, md), Extends(sc, md, sc2, md2),
         NEW t, NEW c, TabOK(t, c, sc, md)
  PROVE  TabOK(t, c, sc2, md2)
<1>1. /\ Len(sc) \in Nat /\ Len(md) \in Nat /\ Len(sc2) \in Nat /\ Len(md2) \in Nat
      /\ Len(sc) <= Len(sc2) /\ Len(md) <= Len(md2)
  BY HistoryIs DEF Extends
<1>2. c \in TabState(Len(sc), Len(md))
  BY DEF TabOK
<1>3. c \in TabState(Len(sc2), Len(md2))
  <2>1. /\ c.shown \in Picture(Len(md2))
        /\ c.mine \in [Elements -> 0..Len(md2)]
    BY <1>1, <1>2, PictureGrows DEF TabState
  <2>3. c.inbox \in Seq(Message(Len(sc2)))
    <3>1. c.inbox \in Seq(Message(Len(sc)))
      BY <1>2 DEF TabState
    <3> QED BY <1>1, <3>1, MessagesGrow
  <2>4. -1..Len(sc) - 1 \subseteq -1..Len(sc2) - 1
    BY <1>1
  <2> QED BY <1>2, <2>1, <2>3, <2>4 DEF TabState
<1>4. c.base # None => c.base \in 0..Len(sc) - 1 /\ sc2[c.base + 1] = sc[c.base + 1]
  <2>1. c.base \in -1..Len(sc) - 1
    BY <1>2 DEF TabState
  <2> QED BY <1>1, <2>1 DEF None, Extends
<1>5. c.base # None => Edited(t, c.shown, c.base, sc2, md2)
  BY <1>4, EditedGrows DEF TabOK
<1>6. \A x \in Elements : \A n : (\E i \in 1..Len(sc) : sc[i][x].edit = n) =>
                              \E i \in 1..Len(sc2) : sc2[i][x].edit = n
  BY <1>1 DEF Extends
<1> QED BY <1>3, <1>4, <1>5, <1>6 DEF TabOK

LEMMA SendingGrows ==
  ASSUME NEW sc, NEW md, NEW sc2, NEW md2, History(sc, md), Extends(sc, md, sc2, md2),
         NEW t, NEW c, TabOK(t, c, sc, md),
         NEW q \in Request(Len(sc), Len(md)), SendingOK(t, c, q, sc, md),
         q.pc = "written" => Len(sc2) = Len(sc)
  PROVE  SendingOK(t, c, q, sc2, md2)
<1>1. /\ Len(sc) \in Nat /\ Len(md) \in Nat /\ Len(sc2) \in Nat /\ Len(md2) \in Nat
      /\ Len(sc) <= Len(sc2) /\ Len(md) <= Len(md2)
  BY HistoryIs DEF Extends
<1>2. c.base # None => sc2[c.base + 1] = sc[c.base + 1]
  <2>1. c.base # None => c.base + 1 \in 1..Len(sc)
    BY <1>1 DEF TabOK, TabState, None
  <2> QED BY <2>1 DEF Extends
<1>3. q.base # None => sc2[q.base + 1] = sc[q.base + 1]
  BY <1>1 DEF Request, None, Extends
<1>4. \A n : Own(md, t, n) => Own(md2, t, n) /\ md2[n] = md[n]
  BY <1>1 DEF Extends, Own
<1>5. q.pc = "written" /\ Len(sc) > 0 => sc2[Len(sc2)] = sc[Len(sc)]
  BY <1>1 DEF Extends
<1>6. ASSUME q.pc # "none"
      PROVE  /\ c.base # None /\ ~c.blocked
             /\ q.pc \in {"asked", "writing", "written"} => q.base = c.base
  BY <1>6 DEF SendingOK
<1>7. ASSUME q.pc # "none", NEW x \in Elements
      PROVE  /\ q.scene[x].edit # sc2[c.base + 1][x].edit => Own(md2, t, q.scene[x].edit)
             /\ c.shown[x].edit # q.scene[x].edit =>
                  /\ c.shown[x].edit > q.scene[x].edit /\ Own(md2, t, c.shown[x].edit)
                  /\ md2[c.shown[x].edit].seen[x].edit = sc2[c.base + 1][x].edit
  BY <1>2, <1>4, <1>6, <1>7 DEF SendingOK
<1>8. q.pc = "written" => Len(sc2) > 0 /\ \A x \in Elements : sc2[Len(sc2)][x].edit = q.scene[x].edit
  BY <1>1, <1>5 DEF SendingOK
<1>9. q.pc = "saved" => /\ q.base # None
                        /\ \A x \in Elements : sc2[q.base + 1][x].edit = q.scene[x].edit
  BY <1>3 DEF SendingOK
<1> QED BY <1>6, <1>7, <1>8, <1>9 DEF SendingOK

LEMMA RequestGrows ==
  ASSUME NEW sc, NEW md, NEW sc2, NEW md2, History(sc, md), Extends(sc, md, sc2, md2),
         NEW w, NEW q, NEW lk, NEW en, RequestOK(w, q, lk, en, sc, md),
         NEW lk2, NEW en2, q.pc \in {"writing", "written"} => lk2 = lk,
         q.pc = "writing" => Len(sc2) = Len(sc) /\ en2 = en
  PROVE  RequestOK(w, q, lk2, en2, sc2, md2)
<1>1. /\ Len(sc) \in Nat /\ Len(md) \in Nat /\ Len(sc2) \in Nat /\ Len(md2) \in Nat
      /\ Len(sc) <= Len(sc2) /\ Len(md) <= Len(md2)
  BY HistoryIs DEF Extends
<1>2. q \in Request(Len(sc), Len(md))
  BY DEF RequestOK
<1>3. q \in Request(Len(sc2), Len(md2))
  <2>1. q.scene \in Picture(Len(md2))
    BY <1>1, <1>2, PictureGrows DEF Request
  <2>2. -1..Len(sc) - 1 \subseteq -1..Len(sc2) - 1
    BY <1>1
  <2> QED BY <1>2, <2>1, <2>2 DEF Request
<1>4. q.base # None => q.base \in 0..Len(sc) - 1
  BY <1>1, <1>2 DEF Request, None
<1>5. q.pc \in {"asked", "writing"} /\ q.base # None => Edited(w, q.scene, q.base, sc2, md2)
  BY <1>4, EditedGrows DEF RequestOK
<1> QED BY <1>3, <1>5 DEF RequestOK

LEMMA NoneLostGrows ==
  ASSUME NEW sc, NEW md, NEW md2, History(sc, md), Extends(sc, md, sc, md2), NoneLost(sc, md)
  PROVE  NoneLost(sc, md2)
<1>1. \A w, n : Own(md, w, n) => Own(md2, w, n) /\ md2[n] = md[n]
  BY HistoryIs DEF Extends, Own
<1> QED BY <1>1 DEF NoneLost, May

-----------------------------------------------------------------------------
(* A tab.                                                                   *)

LEMMA BaseIs ==
  ASSUME NEW sc, NEW md, History(sc, md), NEW c \in TabState(Len(sc), Len(md))
  PROVE  /\ c.base \in -1..Len(sc) - 1 /\ c.shown \in Picture(Len(md))
         /\ c.base # None => /\ c.base \in 0..Len(sc) - 1 /\ c.base + 1 \in 1..Len(sc)
                             /\ sc[c.base + 1] \in Picture(Len(md))
<1>1. c.base \in -1..Len(sc) - 1 /\ c.shown \in Picture(Len(md))
  BY DEF TabState
<1> QED BY <1>1, HistoryIs DEF None

LEMMA TabSame ==
  ASSUME NEW sc, NEW md, NEW t, NEW c, TabOK(t, c, sc, md),
         NEW d \in TabState(Len(sc), Len(md)),
         d.base = c.base, d.shown = c.shown, d.mine = c.mine,
         d.dirty = c.dirty \/ (d.dirty /\ c.base # None),
         d.reload \in {"asked", "answered"} => d.blocked,
         d.reload \in {"answered", "cleared"} => d.answer # None
  PROVE  TabOK(t, d, sc, md)
BY DEF TabOK

\* What a tab shows after a merge is the new scene with its own edits.
LEMMA MergeKeeps ==
  ASSUME NEW md, NEW t, NEW b, NEW r, NEW s, NEW k,
         s \in Picture(k), scenes[b + 1] \in Picture(k), scenes[r + 1] \in Picture(k),
         Edited(t, s, b, scenes, md), ~Overlap(Scene(b), s, Scene(r))
  PROVE  /\ Merge(Scene(b), s, Scene(r)) \in Picture(k)
         /\ Edited(t, Merge(Scene(b), s, Scene(r)), r, scenes, md)
<1> DEFINE m == Merge(Scene(b), s, Scene(r))
<1>1. m \in Picture(k)
  BY DEF Merge, Scene, Picture
<1>2. \A x \in Elements : m[x] = IF s[x] = scenes[b + 1][x] THEN scenes[r + 1][x] ELSE s[x]
  BY DEF Merge, Scene
<1>3. ASSUME NEW x \in Elements, m[x].edit # scenes[r + 1][x].edit
      PROVE  May(md, t, m[x].edit, scenes[r + 1][x].edit, x)
  <2>1. s[x] # scenes[b + 1][x] /\ m[x] = s[x] /\ s[x] # scenes[r + 1][x]
    BY <1>2, <1>3
  <2>2. scenes[r + 1][x] = scenes[b + 1][x]
    BY <2>1 DEF Overlap, Scene
  <2>3. s[x].edit # scenes[b + 1][x].edit
    BY <1>3, <2>1, <2>2
  <2> QED BY <2>1, <2>2, <2>3 DEF Edited
<1> HIDE DEF m
<1>4. Edited(t, m, r, scenes, md)
  BY <1>3 DEF Edited
<1> QED BY <1>1, <1>4 DEF m

LEMMA ReceiveKeeps ==
  ASSUME NEW md, History(scenes, md), NEW t, NEW c, TabOK(t, c, scenes, md),
         NEW sending \in BOOLEAN, NEW r \in 0..Stored
  PROVE  /\ TabOK(t, Receive(c, sending, r), scenes, md)
         /\ sending => Receive(c, sending, r) = [c EXCEPT !.latest = r]
<1> DEFINE k == Len(md)
<1>1. /\ Len(scenes) \in Nat /\ r \in Nat /\ r \in -1..Len(scenes) - 1 /\ r + 1 \in 1..Len(scenes)
      /\ scenes[r + 1] \in Picture(k) /\ r # None
  BY HistoryIs DEF Stored, None
<1>2. c \in TabState(Len(scenes), k)
  BY DEF TabOK
<1> HIDE DEF k
<1>3. CASE sending \/ c.blocked
  <2> DEFINE d == [c EXCEPT !.latest = r]
  <2>1. d \in TabState(Len(scenes), k)
    BY <1>1, <1>2 DEF TabState
  <2>2. /\ d.base = c.base /\ d.shown = c.shown /\ d.mine = c.mine /\ d.dirty = c.dirty
        /\ d.blocked = c.blocked /\ d.reload = c.reload /\ d.answer = c.answer
    BY <1>2 DEF TabState
  <2> HIDE DEF d
  <2>3. TabOK(t, d, scenes, md)
    BY <2>1, <2>2, TabSame DEF TabOK, k
  <2> QED BY <1>3, <2>3 DEF Receive, d
<1>4. CASE ~(sending \/ c.blocked) /\ c.base = r
  BY <1>4 DEF Receive
<1>5. CASE ~(sending \/ c.blocked) /\ c.base # r /\ ~c.dirty
  <2> DEFINE d == [c EXCEPT !.base = r, !.shown = Scene(r)]
  <2>1. d \in TabState(Len(scenes), k)
    BY <1>1, <1>2 DEF TabState, Scene
  <2>2. /\ d.base = r /\ d.shown = scenes[r + 1] /\ d.mine = c.mine /\ d.dirty = c.dirty
        /\ d.blocked = c.blocked /\ d.reload = c.reload /\ d.answer = c.answer
    BY <1>2 DEF TabState, Scene
  <2> HIDE DEF d
  <2>3. Edited(t, d.shown, r, scenes, md)
    BY <2>2 DEF Edited
  <2>4. ASSUME NEW x \in Elements, d.mine[x] # 0
        PROVE  \E i \in 1..Len(scenes) : scenes[i][x].edit = d.mine[x]
    <3>1. c.base # None /\ c.base + 1 \in 1..Len(scenes)
      BY <1>2, <2>2, <2>4, BaseIs DEF TabOK, k
    <3>2. c.shown[x].edit = scenes[c.base + 1][x].edit
      BY <1>5, <3>1 DEF TabOK
    <3> QED BY <2>2, <2>4, <3>1, <3>2 DEF TabOK
  <2>5. TabOK(t, d, scenes, md)
    BY <1>1, <1>5, <2>1, <2>2, <2>3, <2>4 DEF TabOK, k
  <2> QED BY <1>5, <2>5 DEF Receive, d
<1>6. CASE ~(sending \/ c.blocked) /\ c.base # r /\ c.dirty /\ Overlap(Scene(c.base), c.shown, Scene(r))
  <2> DEFINE d == [c EXCEPT !.latest = r, !.blocked = TRUE]
  <2>1. d \in TabState(Len(scenes), k)
    BY <1>1, <1>2 DEF TabState
  <2>2. /\ d.base = c.base /\ d.shown = c.shown /\ d.mine = c.mine /\ d.dirty = c.dirty
        /\ d.blocked /\ d.reload = c.reload /\ d.answer = c.answer
    BY <1>2 DEF TabState
  <2> HIDE DEF d
  <2>3. TabOK(t, d, scenes, md)
    BY <2>1, <2>2, TabSame DEF TabOK, k
  <2> QED BY <1>6, <2>3 DEF Receive, d
<1>7. CASE ~(sending \/ c.blocked) /\ c.base # r /\ c.dirty /\ ~Overlap(Scene(c.base), c.shown, Scene(r))
  <2> DEFINE m == Merge(Scene(c.base), c.shown, Scene(r))
             d == [c EXCEPT !.base = r, !.shown = m]
  <2>1. /\ c.base # None /\ c.base \in Nat /\ c.base + 1 \in 1..Len(scenes)
        /\ scenes[c.base + 1] \in Picture(k) /\ c.shown \in Picture(k)
    BY <1>1, <1>2, <1>7, BaseIs DEF TabOK, k
  <2>2. Edited(t, c.shown, c.base, scenes, md)
    BY <2>1 DEF TabOK
  <2>3. /\ m \in Picture(k) /\ Edited(t, m, r, scenes, md)
        /\ \A x \in Elements : m[x] = c.shown[x] \/ c.shown[x] = scenes[c.base + 1][x]
    <3>1. ~Overlap(Scene(c.base), c.shown, Scene(r))
      BY <1>7
    <3>2. r \in Nat /\ scenes[r + 1] \in Picture(k)
      BY <1>1
    <3>3. c.base \in Nat /\ scenes[c.base + 1] \in Picture(k) /\ c.shown \in Picture(k)
      BY <2>1
    <3>4. m \in Picture(k) /\ Edited(t, m, r, scenes, md)
      BY <2>2, <3>1, <3>2, <3>3, MergeKeeps
    <3>5. \A x \in Elements : m[x] = c.shown[x] \/ c.shown[x] = scenes[c.base + 1][x]
      BY DEF Merge, Scene
    <3> QED BY <3>4, <3>5
  <2> HIDE DEF m
  <2>4. d \in TabState(Len(scenes), k)
    BY <1>1, <1>2, <2>3 DEF TabState
  <2>5. /\ d.base = r /\ d.shown = m /\ d.mine = c.mine /\ d.dirty = c.dirty
        /\ d.blocked = c.blocked /\ d.reload = c.reload /\ d.answer = c.answer
    BY <1>2 DEF TabState
  <2> HIDE DEF d
  <2>6. ASSUME NEW x \in Elements, d.mine[x] # 0
        PROVE  d.shown[x].edit = d.mine[x] \/ \E i \in 1..Len(scenes) : scenes[i][x].edit = d.mine[x]
    <3>1. c.shown[x].edit = c.mine[x] \/ \E i \in 1..Len(scenes) : scenes[i][x].edit = c.mine[x]
      BY <2>5, <2>6 DEF TabOK
    <3> QED BY <2>1, <2>3, <2>5, <3>1
  <2>7. TabOK(t, d, scenes, md)
    BY <1>1, <1>7, <2>3, <2>4, <2>5, <2>6 DEF TabOK, k
  <2> QED BY <1>7, <2>7 DEF Receive, d, m
<1> QED BY <1>3, <1>4, <1>5, <1>6, <1>7

-----------------------------------------------------------------------------
(* What a step of one writer, of one turn or of one tab leaves as it was.   *)

LEMMA ExceptIs ==
  ASSUME NEW S, NEW f, f = [v \in S |-> f[v]], NEW w \in S, NEW q,
         NEW g, g = [f EXCEPT ![w] = q]
  PROVE  g = [v \in S |-> g[v]] /\ g[w] = q /\ \A v \in S \ {w} : g[v] = f[v]
<1>1. g = [v \in S |-> IF v = w THEN q ELSE f[v]]
  OBVIOUS
<1> QED BY <1>1

LEMMA WritersAre ==
  /\ \A w \in Writers : w # "free" /\ w # "dead"
  /\ \A t \in Tabs : t \in Writers /\ t \notin Turns /\ t # "settings" /\ t # "fork"
  /\ \A l \in Turns : l \in Writers /\ l # "settings" /\ l # "fork"
  /\ "settings" \in Writers /\ "fork" \in Writers
BY WritersAssumption DEF Writers

LEMMA TurnGrows ==
  ASSUME NEW sc, NEW md, NEW sc2, NEW md2, History(sc, md), Extends(sc, md, sc2, md2),
         NEW u, TurnOK(u, sc)
  PROVE  TurnOK(u, sc2)
<1>1. Len(sc) \in Nat /\ Len(sc2) \in Nat /\ Len(sc) <= Len(sc2)
  BY HistoryIs DEF Extends
<1>2. \A r \in -1..Len(sc) - 1 : r \in -1..Len(sc2) - 1
  BY <1>1
<1> QED BY <1>2 DEF TurnOK, TurnState

LEMMA FeedGrows ==
  ASSUME NEW sc, NEW md, NEW sc2, NEW md2, History(sc, md), Extends(sc, md, sc2, md2),
         NEW f, FeedOK(f, sc)
  PROVE  FeedOK(f, sc2)
<1>1. Len(sc) \in Nat /\ Len(sc2) \in Nat /\ Len(sc) <= Len(sc2)
  BY HistoryIs DEF Extends
<1>2. \A m \in Message(Len(sc)) : m \in Message(Len(sc2))
  BY <1>1 DEF Message
<1> QED BY <1>2 DEF FeedOK, FeedState

LEMMA TurnsKeep ==
  ASSUME CanvasInv, Extends(scenes, made, scenes', made'),
         NEW l \in Turns, NEW u, TurnOK(u, scenes'), turn' = [turn EXCEPT ![l] = u]
  PROVE  TurnStates'
<1>1. turn' = [v \in Turns |-> turn'[v]] /\ turn'[l] = u /\ \A v \in Turns \ {l} : turn'[v] = turn[v]
  BY ExceptIs DEF CanvasInv, TurnStates
<1>2. ASSUME NEW v \in Turns, v # l
      PROVE  TurnOK(turn'[v], scenes')
  BY <1>1, <1>2, TurnGrows DEF CanvasInv, TurnStates
<1> QED BY <1>1, <1>2 DEF TurnStates

LEMMA SameTurns ==
  ASSUME CanvasInv, Extends(scenes, made, scenes', made'), turn' = turn
  PROVE  TurnStates'
BY TurnGrows DEF CanvasInv, TurnStates

LEMMA SameTabs ==
  ASSUME CanvasInv, Extends(scenes, made, scenes', made'), tab' = tab
  PROVE  TabStates'
<1>1. ASSUME NEW t \in Tabs PROVE TabOK(t, tab[t], scenes', made')
  BY TabGrows DEF CanvasInv, TabStates
<1> QED BY <1>1 DEF CanvasInv, TabStates

\* One writer's request changes; nobody else was writing if more than it does.
LEMMA StoreKeeps ==
  ASSUME CanvasInv, NEW w \in Writers, NEW q,
         Stores0', Extends(scenes, made, scenes', made'), NoneLost(scenes', made'),
         write' = [write EXCEPT ![w] = q],
         \/ lock \in {w, "free", "dead"}
         \/ lock' = lock /\ scenes' = scenes /\ enabled' = enabled,
         RequestOK(w, q, lock', enabled', scenes', made'),
         w \in Tabs => SendingOK(w, tab[w], q, scenes', made'),
         TurnStates', tab' = tab, feed' = feed
  PROVE  CanvasInv'
<1>1. write' = [v \in Writers |-> write'[v]] /\ write'[w] = q /\ \A v \in Writers \ {w} : write'[v] = write[v]
  BY ExceptIs DEF CanvasInv, Requests
<1>2. ASSUME NEW v \in Writers, v # w, write[v].pc \in {"writing", "written"}
      PROVE  lock' = lock /\ scenes' = scenes /\ enabled' = enabled
  BY <1>2, WritersAre DEF CanvasInv, Requests, RequestOK
<1>3. ASSUME NEW v \in Writers, v # w
      PROVE  RequestOK(v, write'[v], lock', enabled', scenes', made')
  <2>1. RequestOK(v, write[v], lock, enabled, scenes, made) /\ History(scenes, made)
    BY DEF CanvasInv, Requests
  <2>2. /\ write[v].pc \in {"writing", "written"} => lock' = lock
        /\ write[v].pc = "writing" => Len(scenes') = Len(scenes) /\ enabled' = enabled
    BY <1>2, <1>3
  <2> QED BY <1>1, <1>3, <2>1, <2>2, RequestGrows
<1>4. Requests'
  BY <1>1, <1>3 DEF Requests
<1>5. ASSUME NEW t \in Tabs, t # w
      PROVE  SendingOK(t, tab[t], write'[t], scenes', made')
  <2>1. t \in Writers /\ History(scenes, made) /\ TabOK(t, tab[t], scenes, made)
    BY WritersAre DEF CanvasInv, TabStates
  <2>2. write[t] \in Request(Len(scenes), Len(made)) /\ SendingOK(t, tab[t], write[t], scenes, made)
    BY <2>1 DEF CanvasInv, Requests, RequestOK, Sendings
  <2>3. write[t].pc = "written" => Len(scenes') = Len(scenes)
    BY <1>2, <1>5, <2>1
  <2> QED BY <1>1, <1>5, <2>1, <2>2, <2>3, SendingGrows
<1>6. Sendings'
  BY <1>1, <1>5 DEF Sendings
<1>7. TabStates' /\ FeedOK(feed', scenes')
  BY SameTabs, FeedGrows DEF CanvasInv
<1>8. History(scenes', made')
  BY DEF Extends
<1> QED BY <1>4, <1>6, <1>7, <1>8 DEF CanvasInv

\* One tab changes, and perhaps edits.
LEMMA TabKeeps ==
  ASSUME CanvasInv, NEW t \in Tabs, NEW c,
         lock' = lock, enabled' = enabled, scenes' = scenes, turn' = turn,
         Extends(scenes, made, scenes, made'),
         tab' = [tab EXCEPT ![t] = c], TabOK(t, c, scenes, made'),
         write' = write, SendingOK(t, c, write[t], scenes, made'),
         FeedOK(feed', scenes)
  PROVE  CanvasInv'
<1>1. tab' = [u \in Tabs |-> tab'[u]] /\ tab'[t] = c /\ \A u \in Tabs \ {t} : tab'[u] = tab[u]
  BY ExceptIs DEF CanvasInv, TabStates
<1>2. TabStates'
  <2>1. ASSUME NEW u \in Tabs, u # t PROVE TabOK(u, tab[u], scenes, made')
    BY TabGrows DEF CanvasInv, TabStates
  <2> QED BY <1>1, <2>1 DEF TabStates
<1>3. ASSUME NEW w \in Writers PROVE RequestOK(w, write[w], lock, enabled, scenes, made')
  BY RequestGrows DEF CanvasInv, Requests
<1>4. Requests'
  BY <1>3 DEF CanvasInv, Requests
<1>5. ASSUME NEW u \in Tabs, u # t
      PROVE  SendingOK(u, tab[u], write[u], scenes, made')
  <2>1. u \in Writers /\ History(scenes, made) /\ TabOK(u, tab[u], scenes, made)
    BY WritersAre DEF CanvasInv, TabStates
  <2>2. write[u] \in Request(Len(scenes), Len(made)) /\ SendingOK(u, tab[u], write[u], scenes, made)
    BY <2>1 DEF CanvasInv, Requests, RequestOK, Sendings
  <2> QED BY <2>1, <2>2, SendingGrows
<1>6. Sendings'
  BY <1>1, <1>5 DEF Sendings
<1>7. TurnStates' /\ NoneLost(scenes, made') /\ History(scenes, made') /\ Stores0'
  BY SameTurns, NoneLostGrows DEF CanvasInv, Extends, Stores0
<1> QED BY <1>2, <1>4, <1>6, <1>7 DEF CanvasInv

LEMMA BlankIs ==
  ASSUME NEW k \in Nat
  PROVE  Blank \in Picture(k)
BY DEF Blank, Drawn, Picture

LEMMA IdleIs ==
  ASSUME NEW w, NEW lk, NEW en, NEW sc, NEW md, History(sc, md)
  PROVE  /\ RequestOK(w, Idle, lk, en, sc, md)
         /\ \A t, c : SendingOK(t, c, Idle, sc, md)
<1>1. Len(sc) \in Nat /\ Len(md) \in Nat
  BY HistoryIs
<1>2. Blank \in Picture(Len(md))
  BY <1>1, BlankIs
<1>3. Idle \in Request(Len(sc), Len(md))
  BY <1>1, <1>2 DEF Idle, Request, None
<1> QED BY <1>2, <1>3 DEF RequestOK, SendingOK, Idle

\* One tab changes as its save ends.
LEMMA AnswerKeeps ==
  ASSUME CanvasInv, NEW t \in Tabs, NEW c,
         lock' = lock, enabled' = enabled, scenes' = scenes, turn' = turn, made' = made, feed' = feed,
         tab' = [tab EXCEPT ![t] = c], TabOK(t, c, scenes, made),
         write' = [write EXCEPT ![t] = Idle]
  PROVE  CanvasInv'
<1>1. tab' = [u \in Tabs |-> tab'[u]] /\ tab'[t] = c /\ \A u \in Tabs \ {t} : tab'[u] = tab[u]
  BY ExceptIs DEF CanvasInv, TabStates
<1>2. /\ write' = [v \in Writers |-> write'[v]] /\ write'[t] = Idle
      /\ \A v \in Writers \ {t} : write'[v] = write[v]
  BY ExceptIs, WritersAre DEF CanvasInv, Requests
<1>3. TabStates'
  BY <1>1 DEF CanvasInv, TabStates
<1>4. Requests'
  BY <1>2, IdleIs DEF CanvasInv, Requests
<1>5. Sendings'
  BY <1>1, <1>2, IdleIs, WritersAre DEF CanvasInv, Sendings
<1> QED BY <1>3, <1>4, <1>5 DEF CanvasInv, TurnStates, Stores0

-----------------------------------------------------------------------------
(* The store's steps.                                                       *)

LEMMA InvIs ==
  ASSUME CanvasInv
  PROVE  /\ History(scenes, made) /\ Extends(scenes, made, scenes, made)
         /\ Len(scenes) \in Nat /\ Len(made) \in Nat /\ None \in -1..Len(scenes) - 1
         /\ enabled \in BOOLEAN /\ lock \in Writers \cup {"free", "dead"}
         /\ NoneLost(scenes, made)
         /\ \A w \in Writers : /\ RequestOK(w, write[w], lock, enabled, scenes, made)
                              /\ write[w] \in Request(Len(scenes), Len(made))
         /\ \A t \in Tabs : /\ TabOK(t, tab[t], scenes, made)
                            /\ SendingOK(t, tab[t], write[t], scenes, made)
                            /\ tab[t] \in TabState(Len(scenes), Len(made))
         /\ \A l \in Turns : TurnOK(turn[l], scenes) /\ turn[l] \in TurnState(Len(scenes))
         /\ FeedOK(feed, scenes)
<1>1. History(scenes, made) /\ Len(scenes) \in Nat /\ Len(made) \in Nat
  BY HistoryIs DEF CanvasInv
<1>2. Extends(scenes, made, scenes, made)
  BY <1>1, ExtendsSame
<1>3. None \in -1..Len(scenes) - 1
  BY <1>1 DEF None
<1> QED BY <1>1, <1>2, <1>3 DEF CanvasInv, Stores0, Requests, RequestOK, TabStates, TabOK, Sendings, TurnStates, TurnOK

LEMMA VerdictIs ==
  ASSUME NEW w \in Writers
  PROVE  /\ Verdict(w) \in {"writing", "saved", "conflict", "failed"}
         /\ w \in Tabs => Verdict(w) # "saved"
         /\ Verdict(w) = "writing" =>
              \/ w = "settings"
              \/ w = "fork" /\ ~Exists
              \/ w \in Turns /\ enabled /\ write[w].base = None /\ ~Exists
              \/ w \in Turns /\ enabled /\ write[w].base # None /\ Exists /\ Matches(w)
              \/ w \in Tabs /\ enabled /\ Exists /\ Matches(w)
<1>1. CASE w = "settings"
  BY <1>1, WritersAre DEF Verdict
<1>2. CASE w = "fork"
  BY <1>2, WritersAre DEF Verdict
<1>3. CASE w \in Turns
  BY <1>3, WritersAre DEF Verdict
<1>4. CASE w \in Tabs
  BY <1>4, WritersAre DEF Verdict
<1> QED BY <1>1, <1>2, <1>3, <1>4 DEF Writers

\* A request whose outcome is known, or that was given up.
LEMMA OutcomeOK ==
  ASSUME CanvasInv, NEW w \in Writers, NEW pc \in {"saved", "conflict", "failed"},
         w \in Tabs => pc # "saved", NEW lk, NEW en
  PROVE  LET q == [write[w] EXCEPT !.pc = pc] IN
         /\ RequestOK(w, q, lk, en, scenes, made)
         /\ w \in Tabs /\ write[w].pc # "none" => SendingOK(w, tab[w], q, scenes, made)
<1> DEFINE q == [write[w] EXCEPT !.pc = pc]
<1>1. write[w] \in Request(Len(scenes), Len(made)) /\ RequestOK(w, write[w], lock, enabled, scenes, made)
  BY InvIs
<1>2. q \in Request(Len(scenes), Len(made)) /\ q.pc = pc /\ q.scene = write[w].scene
  BY <1>1 DEF Request
<1> HIDE DEF q
<1>3. RequestOK(w, q, lk, en, scenes, made)
  BY <1>2 DEF RequestOK
<1>4. w \in Tabs /\ write[w].pc # "none" => SendingOK(w, tab[w], q, scenes, made)
  BY <1>2, InvIs DEF SendingOK
<1> QED BY <1>3, <1>4 DEF q

LEMMA EnterKeeps ==
  ASSUME CanvasInv, NEW w \in Writers, Enter(w)
  PROVE  CanvasInv'
<1> DEFINE q == [write[w] EXCEPT !.pc = Verdict(w)]
<1>1. /\ write[w].pc = "asked" /\ lock = "free" /\ write' = [write EXCEPT ![w] = q]
      /\ lock' = IF Verdict(w) = "writing" THEN w ELSE lock
      /\ enabled' = enabled /\ scenes' = scenes /\ made' = made /\ tab' = tab /\ turn' = turn /\ feed' = feed
  BY DEF Enter, MayEnter
<1>2. RequestOK(w, q, lock', enabled, scenes, made) /\ (w \in Tabs => SendingOK(w, tab[w], q, scenes, made))
  <2>1. CASE Verdict(w) # "writing"
    <3>1. Verdict(w) \in {"saved", "conflict", "failed"} /\ (w \in Tabs => Verdict(w) # "saved")
      BY <2>1, VerdictIs
    <3> QED BY <1>1, <3>1, OutcomeOK
  <2>2. CASE Verdict(w) = "writing"
    <3>1. /\ write[w] \in Request(Len(scenes), Len(made))
          /\ RequestOK(w, write[w], lock, enabled, scenes, made)
          /\ w \in Tabs => SendingOK(w, tab[w], write[w], scenes, made)
          /\ Len(scenes) \in Nat
      BY InvIs
    <3>2. /\ q \in Request(Len(scenes), Len(made)) /\ q.pc = "writing"
          /\ q.scene = write[w].scene /\ q.base = write[w].base
      BY <2>2, <3>1 DEF Request
    <3> HIDE DEF q
    <3>3. Exists <=> Len(scenes) > 0
      BY <3>1, InvIs DEF Exists, History
    <3>4. w # "settings" => /\ IF q.base = None THEN Len(scenes) = 0 ELSE q.base = Len(scenes) - 1
                            /\ w # "fork" => enabled
      <4>1. CASE w = "fork" /\ ~Exists
        BY <1>1, <3>1, <3>2, <3>3, <4>1 DEF RequestOK
      <4>2. CASE w \in Turns /\ enabled /\ write[w].base = None /\ ~Exists
        BY <3>1, <3>2, <3>3, <4>2
      <4>3. CASE w \in Turns /\ enabled /\ write[w].base # None /\ Exists /\ Matches(w)
        BY <3>1, <3>2, <4>3 DEF Matches, Stored
      <4>4. CASE w \in Tabs /\ enabled /\ Exists /\ Matches(w)
        <5>1. q.base # None
          BY <1>1, <3>1, <3>2, <4>4 DEF SendingOK
        <5> QED BY <3>1, <3>2, <4>4, <5>1 DEF Matches, Stored
      <4> QED BY <2>2, <4>1, <4>2, <4>3, <4>4, VerdictIs
    <3>5. RequestOK(w, q, lock', enabled, scenes, made)
      BY <1>1, <2>2, <3>1, <3>2, <3>4 DEF RequestOK
    <3>6. w \in Tabs => SendingOK(w, tab[w], q, scenes, made)
      BY <1>1, <3>1, <3>2 DEF SendingOK
    <3> QED BY <3>5, <3>6
  <2> QED BY <2>1, <2>2
<1> HIDE DEF q
<1>3. Stores0' /\ TurnStates'
  BY <1>1, InvIs, SameTurns DEF Stores0
<1> QED BY <1>1, <1>2, <1>3, InvIs, StoreKeeps

LEMMA GiveUpKeeps ==
  ASSUME CanvasInv, NEW w \in Writers, GiveUp(w)
  PROVE  CanvasInv'
<1> DEFINE q == [write[w] EXCEPT !.pc = "failed"]
<1>1. /\ write[w].pc = "asked" /\ write' = [write EXCEPT ![w] = q]
      /\ lock' = lock /\ enabled' = enabled /\ scenes' = scenes /\ made' = made
      /\ tab' = tab /\ turn' = turn /\ feed' = feed
  BY DEF GiveUp
<1>2. RequestOK(w, q, lock, enabled, scenes, made) /\ (w \in Tabs => SendingOK(w, tab[w], q, scenes, made))
  BY <1>1, OutcomeOK
<1> HIDE DEF q
<1>3. Stores0' /\ TurnStates'
  BY <1>1, InvIs, SameTurns DEF Stores0
<1> QED BY <1>1, <1>2, <1>3, InvIs, StoreKeeps

LEMMA CommitFaultKeeps ==
  ASSUME CanvasInv, NEW w \in Writers, CommitFault(w)
  PROVE  CanvasInv'
<1> DEFINE q == [write[w] EXCEPT !.pc = "failed"]
<1>1. /\ write[w].pc = "writing" /\ write' = [write EXCEPT ![w] = q]
      /\ lock' = "free" /\ enabled' = enabled /\ scenes' = scenes /\ made' = made
      /\ tab' = tab /\ turn' = turn /\ feed' = feed
  BY DEF CommitFault
<1>2. lock = w
  BY <1>1, InvIs DEF RequestOK
<1>3. RequestOK(w, q, "free", enabled, scenes, made) /\ (w \in Tabs => SendingOK(w, tab[w], q, scenes, made))
  BY <1>1, OutcomeOK
<1> HIDE DEF q
<1>4. Stores0' /\ TurnStates'
  BY <1>1, InvIs, SameTurns DEF Stores0
<1> QED BY <1>1, <1>2, <1>3, <1>4, InvIs, StoreKeeps

\* The scene that is stored replaces the one its writer has read under the lock.
LEMMA CommitLosesNone ==
  ASSUME NEW sc, NEW md, History(sc, md), NoneLost(sc, md), NEW w \in Writers, NEW s,
         NEW p \in Picture(Len(md)), \A x \in Elements : p[x].edit = s[x].edit,
         Len(sc) = 0 \/ Edited(w, s, Len(sc) - 1, sc, md)
  PROVE  NoneLost(Append(sc, p), md)
<1> DEFINE sc2 == Append(sc, p)
<1>1. /\ Len(sc) \in Nat /\ Len(sc2) = Len(sc) + 1 /\ sc2[Len(sc) + 1] = p
      /\ \A i \in 1..Len(sc) : sc2[i] = sc[i]
  BY HistoryIs, ScenesExtend DEF Extends
<1> HIDE DEF sc2
<1>2. ASSUME NEW r \in 1..Len(sc2) - 1, NEW x \in Elements, sc2[r + 1][x].edit # sc2[r][x].edit
      PROVE  \E v \in Writers : May(md, v, sc2[r + 1][x].edit, sc2[r][x].edit, x)
  <2>1. CASE r < Len(sc)
    <3>1. r \in 1..Len(sc) - 1 /\ sc2[r] = sc[r] /\ sc2[r + 1] = sc[r + 1]
      BY <1>1, <2>1
    <3> QED BY <1>2, <3>1 DEF NoneLost
  <2>2. CASE r = Len(sc)
    <3>1. Len(sc) # 0 /\ sc2[r] = sc[r] /\ sc2[r + 1] = p /\ (Len(sc) - 1) + 1 = r
      BY <1>1, <2>2
    <3>2. s[x].edit # sc[(Len(sc) - 1) + 1][x].edit
      BY <1>2, <3>1
    <3>3. May(md, w, s[x].edit, sc[(Len(sc) - 1) + 1][x].edit, x)
      BY <3>1, <3>2 DEF Edited
    <3> QED BY <3>1, <3>3
  <2> QED BY <1>1, <2>1, <2>2
<1> QED BY <1>2 DEF NoneLost, sc2

LEMMA MarkedIs ==
  ASSUME NEW k \in Nat, NEW s \in Picture(k)
  PROVE  Marked(s) \in Picture(k) /\ \A x \in Elements : Marked(s)[x].edit = s[x].edit
<1>1. \A x \in Elements : s[x] \in [edit : 0..k, marked : BOOLEAN]
  BY DEF Picture
<1>2. \A x \in Elements :
        /\ [s[x] EXCEPT !.marked = @ \/ x \in Arrows] \in [edit : 0..k, marked : BOOLEAN]
        /\ [s[x] EXCEPT !.marked = @ \/ x \in Arrows].edit = s[x].edit
  <2> TAKE x \in Elements
  <2>1. s[x].edit \in 0..k /\ s[x] = [edit |-> s[x].edit, marked |-> s[x].marked]
    BY <1>1
  <2>2. (s[x].marked \/ x \in Arrows) \in BOOLEAN
    OBVIOUS
  <2>3. [s[x] EXCEPT !.marked = @ \/ x \in Arrows] = [edit |-> s[x].edit, marked |-> (s[x].marked \/ x \in Arrows)]
    BY <2>1
  <2> QED BY <2>1, <2>2, <2>3
<1> QED BY <1>2 DEF Marked, Picture

LEMMA CommitKeeps ==
  ASSUME CanvasInv, NEW w \in Writers, Commit(w)
  PROVE  CanvasInv'
<1> DEFINE q == [write[w] EXCEPT !.pc = "written"]
           p == Marked(write[w].scene)
<1>1. /\ write[w].pc = "writing" /\ write' = [write EXCEPT ![w] = q]
      /\ lock' = lock /\ made' = made /\ tab' = tab /\ turn' = turn /\ feed' = feed
      /\ w = "settings" => scenes' = scenes /\ enabled' = ~enabled
      /\ w # "settings" => scenes' = Append(scenes, p) /\ enabled' = enabled
  BY DEF Commit
<1>2. /\ lock = w /\ History(scenes, made) /\ RequestOK(w, write[w], lock, enabled, scenes, made)
      /\ write[w] \in Request(Len(scenes), Len(made))
      /\ w \in Tabs => SendingOK(w, tab[w], write[w], scenes, made) /\ TabOK(w, tab[w], scenes, made)
      /\ Len(scenes) \in Nat /\ Len(made) \in Nat
  BY <1>1, InvIs DEF RequestOK
<1>3. /\ q \in Request(Len(scenes), Len(made)) /\ q.pc = "written"
      /\ q.scene = write[w].scene /\ q.base = write[w].base
  BY <1>2 DEF Request
<1>4. p \in Picture(Len(made)) /\ \A x \in Elements : p[x].edit = write[w].scene[x].edit
  <2>1. write[w].scene \in Picture(Len(made))
    BY <1>2 DEF Request
  <2> QED BY <1>2, <2>1, MarkedIs
<1> HIDE DEF q, p
<1>5. Extends(scenes, made, scenes', made') /\ Len(scenes) <= Len(scenes')
  BY <1>1, <1>2, <1>4, ScenesExtend, InvIs DEF Extends
<1>6. NoneLost(scenes', made')
  <2>1. CASE w = "settings"
    BY <1>1, <2>1, InvIs
  <2>2. CASE w # "settings"
    <3>1. Len(scenes) = 0 \/ Edited(w, write[w].scene, Len(scenes) - 1, scenes, made)
      <4>1. IF write[w].base = None THEN Len(scenes) = 0 ELSE write[w].base = Len(scenes) - 1
        BY <1>1, <1>2, <2>2 DEF RequestOK
      <4> QED BY <1>1, <1>2, <4>1 DEF RequestOK
    <3>2. NoneLost(scenes, made)
      BY InvIs
    <3>3. NoneLost(Append(scenes, p), made)
      BY <1>2, <1>4, <3>1, <3>2, CommitLosesNone
    <3> QED BY <1>1, <2>2, <3>3
  <2> QED BY <2>1, <2>2
<1>7. q \in Request(Len(scenes'), Len(made'))
  <2>1. Len(scenes') \in Nat
    BY <1>5, HistoryIs DEF Extends
  <2> QED BY <1>1, <1>2, <1>3, <1>5, <2>1 DEF Request
<1>8. RequestOK(w, q, lock', enabled', scenes', made')
  BY <1>1, <1>2, <1>3, <1>7 DEF RequestOK
<1>9. w \in Tabs => SendingOK(w, tab[w], q, scenes', made')
  <2> SUFFICES ASSUME w \in Tabs PROVE SendingOK(w, tab[w], q, scenes', made')
    OBVIOUS
  <2>1. w # "settings" /\ scenes' = Append(scenes, p)
    BY <1>1, WritersAre
  <2>2. Len(scenes') = Len(scenes) + 1 /\ scenes'[Len(scenes')] = p
    BY <1>2, <1>4, <2>1, ScenesExtend
  <2>3. SendingOK(w, tab[w], write[w], scenes', made')
    BY <1>1, <1>2, <1>5, SendingGrows
  <2>4. write[w].pc = "writing" /\ q.pc = "written"
        /\ q.base = write[w].base /\ q.scene = write[w].scene
    BY <1>1, <1>2, <1>3
  <2>5. Len(scenes') > 0 /\ \A x \in Elements : scenes'[Len(scenes')][x].edit = q.scene[x].edit
    BY <1>2, <1>4, <2>2, <2>4
  <2>6. /\ tab[w].base # None /\ ~tab[w].blocked /\ write[w].base = tab[w].base
        /\ \A x \in Elements :
             /\ write[w].scene[x].edit # scenes'[tab[w].base + 1][x].edit => Own(made', w, write[w].scene[x].edit)
             /\ tab[w].shown[x].edit # write[w].scene[x].edit =>
                  /\ tab[w].shown[x].edit > write[w].scene[x].edit /\ Own(made', w, tab[w].shown[x].edit)
                  /\ made'[tab[w].shown[x].edit].seen[x].edit = scenes'[tab[w].base + 1][x].edit
    BY <2>3, <2>4 DEF SendingOK
  <2> QED BY <2>4, <2>5, <2>6 DEF SendingOK
<1>10. Stores0'
  BY <1>1, InvIs DEF Stores0
<1>11. TurnStates'
  BY <1>1, <1>5, SameTurns
<1> QED BY <1>1, <1>2, <1>5, <1>6, <1>8, <1>9, <1>10, <1>11, StoreKeeps

LEMMA LeaveKeeps ==
  ASSUME CanvasInv, NEW w \in Writers, Leave(w)
  PROVE  CanvasInv'
<1> DEFINE q == [write[w] EXCEPT !.pc = "saved", !.base = Stored]
<1>1. /\ write[w].pc = "written" /\ write' = [write EXCEPT ![w] = q]
      /\ lock' = "free" /\ enabled' = enabled /\ scenes' = scenes /\ made' = made
      /\ tab' = tab /\ turn' = turn /\ feed' = feed
  BY DEF Leave
<1>2. /\ lock = w /\ write[w] \in Request(Len(scenes), Len(made)) /\ Len(scenes) \in Nat
      /\ w \in Tabs => SendingOK(w, tab[w], write[w], scenes, made)
  BY <1>1, InvIs DEF RequestOK
<1>3. /\ q \in Request(Len(scenes), Len(made)) /\ q.pc = "saved" /\ q.scene = write[w].scene
      /\ q.base = Len(scenes) - 1
  <2>1. Stored = Len(scenes) - 1 /\ Stored \in -1..Len(scenes) - 1
    BY <1>2 DEF Stored
  <2> QED BY <1>2, <2>1 DEF Request
<1> HIDE DEF q
<1>4. RequestOK(w, q, "free", enabled, scenes, made)
  BY <1>3 DEF RequestOK
<1>5. w \in Tabs => SendingOK(w, tab[w], q, scenes, made)
  <2> SUFFICES ASSUME w \in Tabs PROVE SendingOK(w, tab[w], q, scenes, made)
    OBVIOUS
  <2>1. q.base # None /\ q.base + 1 = Len(scenes)
    BY <1>1, <1>2, <1>3, WritersAre DEF SendingOK, None
  <2> QED BY <1>1, <1>2, <1>3, <2>1 DEF SendingOK
<1>6. Stores0' /\ TurnStates'
  BY <1>1, InvIs, SameTurns DEF Stores0
<1> QED BY <1>1, <1>2, <1>4, <1>5, <1>6, InvIs, StoreKeeps

\* A request that is new or over, of one who is no tab.
LEMMA AskKeeps ==
  ASSUME CanvasInv, NEW w \in Writers, w \notin Tabs, NEW q,
         Extends(scenes, made, scenes, made'), RequestOK(w, q, lock, enabled, scenes, made'),
         write' = [write EXCEPT ![w] = q], TurnStates',
         UNCHANGED <<enabled, scenes, lock, tab, feed>>
  PROVE  CanvasInv'
<1>1. Stores0' /\ NoneLost(scenes', made')
  BY InvIs, NoneLostGrows DEF Stores0
<1> QED BY <1>1, StoreKeeps

LEMMA ToggleKeeps ==
  ASSUME CanvasInv, Toggle
  PROVE  CanvasInv'
<1> DEFINE q == [pc |-> "asked", base |-> None, scene |-> Blank]
<1>1. write' = [write EXCEPT !["settings"] = q] /\ UNCHANGED <<enabled, scenes, lock, turn, tab, feed, made>>
  BY DEF Toggle, Ask
<1>2. q \in Request(Len(scenes), Len(made))
  BY InvIs, BlankIs DEF Request, None
<1>3. RequestOK("settings", q, lock, enabled, scenes, made)
  BY <1>2 DEF RequestOK
<1> HIDE DEF q
<1>4. "settings" \in Writers /\ "settings" \notin Tabs /\ TurnStates'
  BY <1>1, InvIs, SameTurns, WritersAre
<1> QED BY <1>1, <1>3, <1>4, InvIs, AskKeeps

LEMMA ForkKeeps ==
  ASSUME CanvasInv, Fork
  PROVE  CanvasInv'
<1> DEFINE s == [x \in Elements |-> Drawn(Len(made) + 1)]
           q == [pc |-> "asked", base |-> None, scene |-> s]
<1>1. /\ write' = [write EXCEPT !["fork"] = q] /\ UNCHANGED <<enabled, scenes, lock, turn, tab, feed>>
      /\ made' = Append(made, [by |-> "fork", seen |-> Blank])
  BY DEF Fork, Ask, Record
<1>2. Extends(scenes, made, scenes, made') /\ Len(made') = Len(made) + 1
  <2>1. History(scenes, made) /\ "fork" \in Writers /\ Blank \in Picture(Len(made))
    BY InvIs, BlankIs, WritersAre
  <2>2. made' = Append(made, [by |-> "fork", seen |-> Blank])
    BY <1>1
  <2> QED BY <2>1, <2>2, MadeExtends
<1>3. s \in Picture(Len(made'))
  <2>1. Drawn(Len(made) + 1) \in [edit : 0..Len(made'), marked : BOOLEAN]
    BY <1>2, InvIs DEF Drawn
  <2> QED BY <2>1 DEF Picture
<1>4. q \in Request(Len(scenes), Len(made'))
  <2> HIDE DEF s
  <2> QED BY <1>3, InvIs DEF Request, None
<1>5. RequestOK("fork", q, lock, enabled, scenes, made')
  BY <1>4 DEF RequestOK
<1> HIDE DEF q
<1>6. "fork" \in Writers /\ "fork" \notin Tabs /\ TurnStates'
  BY <1>1, <1>2, SameTurns, WritersAre
<1> QED BY <1>1, <1>2, <1>5, <1>6, AskKeeps

LEMMA ServedKeeps ==
  ASSUME CanvasInv, NEW w \in Writers, Served(w)
  PROVE  CanvasInv'
<1>1. /\ write' = [write EXCEPT ![w] = Idle] /\ UNCHANGED <<enabled, scenes, lock, turn, tab, feed, made>>
      /\ w \notin Tabs
  BY WritersAre DEF Served, Forget
<1>2. RequestOK(w, Idle, lock, enabled, scenes, made) /\ TurnStates'
  BY <1>1, InvIs, IdleIs, SameTurns
<1> QED BY <1>1, <1>2, InvIs, AskKeeps

LEMMA KillKeeps ==
  ASSUME CanvasInv, NEW l \in Turns, Kill(l)
  PROVE  CanvasInv'
<1> DEFINE u == [pc |-> "out", seen |-> None, conflicts |-> 0]
<1>1. /\ turn' = [turn EXCEPT ![l] = u] /\ write' = [write EXCEPT ![l] = Idle]
      /\ lock' = IF lock = l THEN "dead" ELSE lock
      /\ UNCHANGED <<enabled, scenes, tab, feed, made>>
      /\ l \in Writers /\ l \notin Tabs
  BY WritersAre DEF Kill, Forget
<1>2. TurnOK(u, scenes)
  BY InvIs, DrawingAssumption DEF TurnOK, TurnState, None
<1> HIDE DEF u
<1>3. TurnStates'
  BY <1>1, <1>2, InvIs, TurnsKeep
<1>4. RequestOK(l, Idle, lock', enabled, scenes, made)
  BY InvIs, IdleIs
<1>5. Stores0' /\ NoneLost(scenes', made')
  BY <1>1, InvIs DEF Stores0
<1> QED BY <1>1, <1>3, <1>4, <1>5, InvIs, StoreKeeps

LEMMA RemoveLockKeeps ==
  ASSUME CanvasInv, RemoveLock
  PROVE  CanvasInv'
<1>1. lock = "dead" /\ lock' = "free" /\ UNCHANGED <<enabled, scenes, write, turn, tab, feed, made>>
  BY DEF RemoveLock
<1>2. \A w \in Writers : RequestOK(w, write[w], "free", enabled, scenes, made)
  BY <1>1, InvIs, WritersAre DEF RequestOK
<1> QED BY <1>1, <1>2 DEF CanvasInv, Stores0, Requests, TurnStates, TabStates, Sendings

-----------------------------------------------------------------------------
(* Turns' steps.                                                            *)

LEMMA BeginEndKeep ==
  ASSUME CanvasInv, NEW l \in Turns, Begin(l) \/ End(l)
  PROVE  CanvasInv'
<1> DEFINE u == [pc |-> IF turn[l].pc = "out" THEN "ready" ELSE "out", seen |-> None, conflicts |-> 0]
<1>1. turn' = [turn EXCEPT ![l] = u] /\ UNCHANGED <<enabled, scenes, lock, write, tab, feed, made>>
  BY DEF Begin, End
<1>2. TurnOK(u, scenes)
  BY InvIs, DrawingAssumption DEF TurnOK, TurnState, None
<1> HIDE DEF u
<1>3. TurnStates'
  BY <1>1, <1>2, InvIs, TurnsKeep
<1> QED BY <1>1, <1>3 DEF CanvasInv, Stores0, Requests, TabStates, Sendings

LEMMA GetKeeps ==
  ASSUME CanvasInv, NEW l \in Turns, Get(l)
  PROVE  CanvasInv'
<1> DEFINE q == [pc |-> "asked", base |-> None, scene |-> Blank]
           u == [turn[l] EXCEPT !.pc = "getting"]
<1>1. /\ write' = [write EXCEPT ![l] = q] /\ turn' = [turn EXCEPT ![l] = u]
      /\ UNCHANGED <<enabled, scenes, lock, tab, feed, made>>
  BY DEF Get, Ask, Calls
<1>2. q \in Request(Len(scenes), Len(made))
  BY InvIs, BlankIs DEF Request, None
<1>3. l \in Writers /\ l \notin Tabs /\ l # "fork"
  BY WritersAre
<1>4. RequestOK(l, q, lock, enabled, scenes, made)
  BY <1>2, <1>3 DEF RequestOK
<1>5. TurnOK(u, scenes)
  BY InvIs DEF TurnOK, TurnState
<1> HIDE DEF q, u
<1>6. TurnStates'
  BY <1>1, <1>5, InvIs, TurnsKeep
<1> QED BY <1>1, <1>3, <1>4, <1>6, InvIs, AskKeeps

LEMMA GetReadKeeps ==
  ASSUME CanvasInv, NEW l \in Turns, GetRead(l)
  PROVE  CanvasInv'
<1> DEFINE s == IF write[l].pc = "saved" /\ enabled THEN Stored ELSE turn[l].seen
           u == [turn[l] EXCEPT !.pc = "ready", !.seen = s]
<1>1. /\ write' = [write EXCEPT ![l] = Idle] /\ turn' = [turn EXCEPT ![l] = u]
      /\ UNCHANGED <<enabled, scenes, lock, tab, feed, made>>
  BY DEF GetRead, Forget
<1>2. l \in Writers /\ l \notin Tabs /\ RequestOK(l, Idle, lock, enabled, scenes, made)
  BY WritersAre, InvIs, IdleIs
<1>3. s \in -1..Len(scenes) - 1
  BY InvIs DEF Stored, TurnState
<1> HIDE DEF s
<1>4. TurnOK(u, scenes)
  BY <1>3, InvIs DEF TurnOK, TurnState
<1> HIDE DEF u
<1>5. TurnStates'
  BY <1>1, <1>4, InvIs, TurnsKeep
<1> QED BY <1>1, <1>2, <1>5, InvIs, AskKeeps

\* What a turn asks for is what it has seen with an edit of its own.
LEMMA ChangeIs ==
  ASSUME NEW sc, NEW md, History(sc, md), NEW l \in Writers, NEW r \in 0..Len(sc) - 1, NEW xs
  PROVE  LET md2 == Append(md, [by |-> l, seen |-> sc[r + 1]])
             s == [x \in Elements |-> IF x \in xs THEN Drawn(Len(md) + 1) ELSE sc[r + 1][x]]
         IN /\ Extends(sc, md, sc, md2) /\ s \in Picture(Len(md2))
            /\ Edited(l, s, r, sc, md2)
<1>1. /\ Len(md) \in Nat /\ Len(sc) \in Nat /\ r + 1 \in 1..Len(sc)
      /\ sc[r + 1] \in Picture(Len(md))
  BY HistoryIs
<1> DEFINE e == sc[r + 1]
           n == Len(md) + 1
           md2 == Append(md, [by |-> l, seen |-> e])
           s == [x \in Elements |-> IF x \in xs THEN Drawn(n) ELSE e[x]]
<1>2. /\ Extends(sc, md, sc, md2) /\ Len(md2) = n /\ md2[n] = [by |-> l, seen |-> e]
  BY <1>1, MadeExtends
<1>3. n \in Nat /\ e \in Picture(n) /\ Drawn(n) \in [edit : 0..n, marked : BOOLEAN] /\ Drawn(n).edit = n
  BY <1>1, PictureGrows DEF Drawn
<1>4. \A x \in Elements : e[x].edit \in 0..Len(md)
  BY <1>1, PictureIs
<1>5. s = [x \in Elements |-> IF x \in xs THEN Drawn(n) ELSE e[x]]
  OBVIOUS
<1>6. n \in 1..n /\ \A m \in 0..Len(md) : n > m
  BY <1>1
<1> HIDE DEF e, n, md2, s
<1>7. s \in Picture(n)
  BY <1>3, <1>5 DEF Picture
<1>8. ASSUME NEW x \in Elements, s[x].edit # e[x].edit
      PROVE  May(md2, l, s[x].edit, e[x].edit, x)
  <2>1. s[x].edit = n
    BY <1>3, <1>5, <1>8
  <2> QED BY <1>2, <1>4, <1>6, <2>1 DEF May, Own
<1>9. Edited(l, s, r, sc, md2)
  BY <1>8 DEF Edited, e
<1> QED BY <1>2, <1>7, <1>9 DEF e, n, md2, s

LEMMA ChangeKeeps ==
  ASSUME CanvasInv, NEW l \in Turns, NEW xs, Change(l, xs)
  PROVE  CanvasInv'
<1> DEFINE r == turn[l].seen
           s == [x \in Elements |-> IF x \in xs THEN Drawn(Len(made) + 1) ELSE scenes[r + 1][x]]
           q == [pc |-> "asked", base |-> r, scene |-> s]
           u == [turn[l] EXCEPT !.pc = "changing"]
<1>1. /\ write' = [write EXCEPT ![l] = q] /\ turn' = [turn EXCEPT ![l] = u]
      /\ made' = Append(made, [by |-> l, seen |-> scenes[r + 1]])
      /\ UNCHANGED <<enabled, scenes, lock, tab, feed>>
      /\ r # None /\ turn[l].conflicts < MaxConflicts
  BY DEF Change, Ask, Calls, Record, Scene, MayChange
<1>2. l \in Writers /\ l \notin Tabs /\ l # "fork" /\ History(scenes, made) /\ Len(scenes) \in Nat
  BY WritersAre, InvIs
<1>3. r \in 0..Len(scenes) - 1 /\ r \in -1..Len(scenes) - 1
  BY <1>1, InvIs DEF TurnState, None
<1>4. TurnOK(u, scenes)
  BY <1>1, InvIs DEF TurnOK, TurnState
<1> HIDE DEF r, u
<1>5. Extends(scenes, made, scenes, made') /\ s \in Picture(Len(made')) /\ Edited(l, s, r, scenes, made')
  BY <1>1, <1>2, <1>3, ChangeIs
<1> HIDE DEF s
<1>6. q \in Request(Len(scenes), Len(made'))
  BY <1>3, <1>5 DEF Request
<1>7. RequestOK(l, q, lock, enabled, scenes, made')
  BY <1>2, <1>5, <1>6 DEF RequestOK
<1> HIDE DEF q
<1>8. TurnStates'
  BY <1>1, <1>4, <1>5, TurnsKeep
<1> QED BY <1>1, <1>2, <1>5, <1>7, <1>8, AskKeeps

LEMMA ChangedKeeps ==
  ASSUME CanvasInv, NEW l \in Turns, Changed(l)
  PROVE  CanvasInv'
<1> DEFINE s == IF write[l].pc = "saved" THEN write[l].base ELSE turn[l].seen
           k == IF write[l].pc = "conflict" THEN turn[l].conflicts + 1 ELSE turn[l].conflicts
           u == [pc |-> "ready", seen |-> s, conflicts |-> k]
<1>1. /\ write' = [write EXCEPT ![l] = Idle] /\ turn' = [turn EXCEPT ![l] = u]
      /\ UNCHANGED <<enabled, scenes, lock, tab, feed, made>>
      /\ turn[l].pc = "changing"
  BY DEF Changed, Forget
<1>2. l \in Writers /\ l \notin Tabs /\ RequestOK(l, Idle, lock, enabled, scenes, made)
  BY WritersAre, InvIs, IdleIs
<1>3. s \in -1..Len(scenes) - 1
  BY <1>2, InvIs DEF Request, TurnState
<1>4. k \in 0..MaxConflicts
  <2>1. turn[l].conflicts \in 0..MaxConflicts /\ turn[l].conflicts < MaxConflicts
    BY <1>1, InvIs DEF TurnOK, TurnState
  <2> QED BY <2>1, DrawingAssumption
<1> HIDE DEF s, k
<1>5. TurnOK(u, scenes)
  BY <1>3, <1>4 DEF TurnOK, TurnState
<1> HIDE DEF u
<1>6. TurnStates'
  BY <1>1, <1>5, InvIs, TurnsKeep
<1> QED BY <1>1, <1>2, <1>6, InvIs, AskKeeps

-----------------------------------------------------------------------------
(* The feed's steps and tabs'.                                              *)

LEMMA ReadableIs ==
  ASSUME CanvasInv
  PROVE  /\ Readable \in Message(Len(scenes)) /\ Readable # None
         /\ Exists => Stored \in 0..Len(scenes) - 1
<1>1. Exists <=> Len(scenes) > 0
  BY InvIs DEF Exists, History
<1> QED BY <1>1, InvIs DEF Readable, Message, Stored, None, Unavailable

LEMMA FeedReadKeeps ==
  ASSUME CanvasInv, FeedRead
  PROVE  CanvasInv'
<1>1. /\ feed' = [feed EXCEPT !.busy = TRUE, !.read = Readable]
      /\ UNCHANGED <<enabled, scenes, lock, write, turn, tab, made>>
  BY DEF FeedRead
<1>2. FeedOK(feed', scenes)
  BY <1>1, InvIs, ReadableIs DEF FeedOK, FeedState
<1> QED BY <1>1, <1>2 DEF CanvasInv, Stores0, Requests, TurnStates, TabStates, Sendings

LEMMA SendingSame ==
  ASSUME NEW t, NEW c, NEW q, NEW sc, NEW md, SendingOK(t, c, q, sc, md),
         NEW d, d.base = c.base, d.blocked = c.blocked, d.shown = c.shown
  PROVE  SendingOK(t, d, q, sc, md)
BY DEF SendingOK

\* Events arrive and go.
LEMMA InboxKeeps ==
  ASSUME CanvasInv, NEW t \in Tabs, NEW i \in Seq(Message(Len(scenes))), NEW o \in BOOLEAN
  PROVE  LET d == [tab[t] EXCEPT !.open = o, !.inbox = i] IN
         /\ TabOK(t, d, scenes, made) /\ SendingOK(t, d, write[t], scenes, made)
         /\ d.blocked = tab[t].blocked
<1> DEFINE d == [tab[t] EXCEPT !.open = o, !.inbox = i]
<1>1. d \in TabState(Len(scenes), Len(made))
  BY InvIs DEF TabState
<1>2. /\ d.base = tab[t].base /\ d.shown = tab[t].shown /\ d.mine = tab[t].mine
      /\ d.dirty = tab[t].dirty /\ d.blocked = tab[t].blocked /\ d.reload = tab[t].reload
      /\ d.answer = tab[t].answer
  BY InvIs DEF TabState
<1> HIDE DEF d
<1>3. TabOK(t, tab[t], scenes, made) /\ SendingOK(t, tab[t], write[t], scenes, made)
  BY InvIs
<1>4. TabOK(t, d, scenes, made)
  BY <1>1, <1>2, <1>3, TabSame DEF TabOK
<1>5. SendingOK(t, d, write[t], scenes, made)
  BY <1>2, <1>3, SendingSame
<1> QED BY <1>2, <1>4, <1>5 DEF d

LEMMA OpenIs ==
  ASSUME CanvasInv, NEW t \in Tabs
  PROVE  tab[t].open \in BOOLEAN /\ tab[t].inbox \in Seq(Message(Len(scenes)))
BY InvIs DEF TabState

LEMMA FeedPublishKeeps ==
  ASSUME CanvasInv, FeedPublish
  PROVE  CanvasInv'
<1> DEFINE i(t) == Append(tab[t].inbox, feed.read)
           d(t) == [tab[t] EXCEPT !.open = tab[t].open, !.inbox = i(t)]
<1>1. /\ feed' = [feed EXCEPT !.busy = FALSE, !.read = None, !.wire = feed.read]
      /\ UNCHANGED <<enabled, scenes, lock, write, turn, made>>
      /\ feed.busy
  BY DEF FeedPublish
<1>2. feed.read \in Message(Len(scenes)) /\ FeedOK(feed', scenes)
  BY <1>1, InvIs DEF FeedOK, FeedState
<1>3. /\ tab' = [t \in Tabs |-> tab'[t]]
      /\ \A t \in Tabs : tab'[t] = tab[t] \/ tab'[t] = d(t)
  <2>1. \A t \in Tabs : [tab[t] EXCEPT !.inbox = Append(@, feed.read)] = d(t)
    BY InvIs DEF TabState
  <2> HIDE DEF d
  <2> QED BY <2>1 DEF FeedPublish
<1>4. ASSUME NEW t \in Tabs
      PROVE  TabOK(t, d(t), scenes, made) /\ SendingOK(t, d(t), write[t], scenes, made)
  <2>1. i(t) \in Seq(Message(Len(scenes))) /\ tab[t].open \in BOOLEAN
    BY <1>2, OpenIs
  <2> HIDE DEF i
  <2> QED BY <2>1, InboxKeeps
<1> HIDE DEF d
<1>5. TabStates' /\ Sendings'
  BY <1>1, <1>3, <1>4, InvIs DEF TabStates, Sendings
<1> QED BY <1>1, <1>2, <1>5 DEF CanvasInv, Stores0, Requests, TurnStates

LEMMA ConnectKeeps ==
  ASSUME CanvasInv, NEW t \in Tabs, Connect(t)
  PROVE  CanvasInv'
<1> DEFINE i == IF feed.wire = None THEN <<>> ELSE <<feed.wire>>
           d == [tab[t] EXCEPT !.open = TRUE, !.inbox = i]
<1>1. /\ feed' = [feed EXCEPT !.live = TRUE] /\ tab' = [tab EXCEPT ![t] = d]
      /\ UNCHANGED <<enabled, scenes, lock, write, turn, made>>
  BY DEF Connect
<1>2. FeedOK(feed', scenes) /\ feed.wire \in Message(Len(scenes)) \cup {None}
  BY <1>1, InvIs DEF FeedOK, FeedState
<1>3. i \in Seq(Message(Len(scenes)))
  BY <1>2
<1> HIDE DEF i
<1>4. TabOK(t, d, scenes, made) /\ SendingOK(t, d, write[t], scenes, made)
  BY <1>3, InboxKeeps
<1> HIDE DEF d
<1> QED BY <1>1, <1>2, <1>4, InvIs, TabKeeps

LEMMA RefusedKeeps ==
  ASSUME CanvasInv, NEW t \in Tabs, Refused(t)
  PROVE  CanvasInv'
  BY DEF Refused, canvas, CanvasInv, Stores0, Requests, TurnStates, TabStates, Sendings

LEMMA DisconnectKeeps ==
  ASSUME CanvasInv, NEW t \in Tabs, Disconnect(t)
  PROVE  CanvasInv'
<1> DEFINE d == [tab[t] EXCEPT !.open = FALSE, !.inbox = <<>>]
<1>1. /\ feed' = feed \/ feed' = NewFeed
      /\ tab' = [tab EXCEPT ![t] = d]
      /\ UNCHANGED <<enabled, scenes, lock, write, turn, made>>
  BY DEF Disconnect
<1>2. FeedOK(feed', scenes)
  <2>1. NewFeed \in FeedState(Len(scenes)) /\ ~NewFeed.busy
    BY DEF FeedState, NewFeed
  <2> QED BY <1>1, <2>1, InvIs DEF FeedOK
<1>3. TabOK(t, d, scenes, made) /\ SendingOK(t, d, write[t], scenes, made)
  <2>1. <<>> \in Seq(Message(Len(scenes)))
    OBVIOUS
  <2> QED BY <2>1, InboxKeeps
<1> HIDE DEF d
<1> QED BY <1>1, <1>2, <1>3, InvIs, TabKeeps

LEMMA EventKeeps ==
  ASSUME CanvasInv, NEW t \in Tabs, Event(t)
  PROVE  CanvasInv'
<1> DEFINE i == Tail(tab[t].inbox)
           r == Head(tab[t].inbox)
           d == [tab[t] EXCEPT !.open = tab[t].open, !.inbox = i]
           c == IF r = Unavailable THEN d ELSE Receive(d, Sending(t), r)
<1>1. /\ tab[t].inbox # <<>> /\ tab' = [tab EXCEPT ![t] = c]
      /\ UNCHANGED <<enabled, scenes, lock, write, turn, feed, made>>
  <2>1. [tab[t] EXCEPT !.inbox = Tail(@)] = d
    BY InvIs DEF TabState
  <2> QED BY <2>1 DEF Event
<1>2. i \in Seq(Message(Len(scenes))) /\ r \in Message(Len(scenes)) /\ tab[t].open \in BOOLEAN
  BY <1>1, OpenIs
<1> HIDE DEF i, r
<1>3. TabOK(t, d, scenes, made) /\ SendingOK(t, d, write[t], scenes, made)
  BY <1>2, InboxKeeps
<1>4. d \in TabState(Len(scenes), Len(made))
  BY <1>3 DEF TabOK
<1> HIDE DEF d
<1>5. TabOK(t, c, scenes, made) /\ SendingOK(t, c, write[t], scenes, made)
  <2>1. CASE r = Unavailable
    BY <1>3, <2>1
  <2>2. CASE r # Unavailable
    <3>1. r \in 0..Stored /\ Sending(t) \in BOOLEAN /\ History(scenes, made)
      BY <1>2, <2>2, InvIs DEF Message, Stored, Sending
    <3>2. TabOK(t, c, scenes, made) /\ (Sending(t) => c = [d EXCEPT !.latest = r])
      BY <1>3, <2>2, <3>1, ReceiveKeeps
    <3> HIDE DEF c
    <3>3. CASE Sending(t)
      <4>1. c.base = d.base /\ c.blocked = d.blocked /\ c.shown = d.shown
        BY <1>4, <3>2, <3>3 DEF TabState
      <4> QED BY <1>3, <3>2, <4>1, SendingSame
    <3>4. CASE ~Sending(t)
      BY <3>2, <3>4 DEF Sending, SendingOK
    <3> QED BY <3>3, <3>4
  <2> QED BY <2>1, <2>2
<1> HIDE DEF c
<1> QED BY <1>1, <1>5, InvIs, TabKeeps

LEMMA StageKeeps ==
  ASSUME CanvasInv, NEW t \in Tabs, NEW x \in Elements, Stage(t, x)
  PROVE  CanvasInv'
<1> DEFINE c == tab[t]
           n == Len(made) + 1
           b == scenes[c.base + 1]
           s == [c.shown EXCEPT ![x] = Drawn(n)]
           m == [c.mine EXCEPT ![x] = n]
           d == [c EXCEPT !.shown = s, !.dirty = TRUE, !.mine = m]
<1>1. /\ c.base # None /\ made' = Append(made, [by |-> t, seen |-> b])
      /\ UNCHANGED <<enabled, scenes, lock, write, turn, feed>>
  BY DEF Stage, Record, Scene
<1>2. tab' = [tab EXCEPT ![t] = d]
  <2>1. tab' = [tab EXCEPT ![t].shown[x] = Drawn(Len(made) + 1), ![t].dirty = TRUE,
                           ![t].mine[x] = Len(made) + 1]
    BY DEF Stage
  <2> QED BY <2>1, InvIs DEF CanvasInv, TabStates, TabState
<1>3. c \in TabState(Len(scenes), Len(made)) /\ TabOK(t, c, scenes, made) /\ SendingOK(t, c, write[t], scenes, made)
  BY InvIs
<1>4. /\ c.base \in 0..Len(scenes) - 1 /\ b \in Picture(Len(made))
      /\ c.shown \in Picture(Len(made)) /\ c.mine \in [Elements -> 0..Len(made)]
  BY <1>1, <1>3, BaseIs, InvIs DEF TabState
<1>5. /\ Extends(scenes, made, scenes, made') /\ Len(made') = n /\ made'[n] = [by |-> t, seen |-> b]
      /\ t \in Writers /\ n \in Nat
  <2>1. t \in Writers /\ History(scenes, made)
    BY InvIs, WritersAre
  <2> HIDE DEF b, c
  <2> QED BY <1>1, <1>4, <2>1, InvIs, MadeExtends
<1>6. /\ TabOK(t, c, scenes, made') /\ SendingOK(t, c, write[t], scenes, made')
      /\ c \in TabState(Len(scenes), n)
  <2>1. write[t] \in Request(Len(scenes), Len(made)) /\ History(scenes, made)
    BY <1>5, InvIs
  <2> HIDE DEF c
  <2>2. TabOK(t, c, scenes, made')
    BY <1>3, <1>5, <2>1, TabGrows
  <2>3. SendingOK(t, c, write[t], scenes, made')
    BY <1>3, <1>5, <2>1, SendingGrows
  <2> QED BY <1>5, <2>2, <2>3 DEF TabOK
<1>7. /\ Drawn(n).edit = n /\ Drawn(n) \in [edit : 0..n, marked : BOOLEAN]
      /\ n \in 1..n /\ n # 0 /\ \A k \in 0..Len(made) : n > k
  BY <1>5, InvIs DEF Drawn
<1>8. /\ s \in Picture(n) /\ s[x] = Drawn(n) /\ \A y \in Elements \ {x} : s[y] = c.shown[y]
      /\ m \in [Elements -> 0..n] /\ m[x] = n /\ \A y \in Elements \ {x} : m[y] = c.mine[y]
  <2>1. c.shown \in Picture(n) /\ c.mine \in [Elements -> 0..n]
    BY <1>6 DEF TabState
  <2> HIDE DEF n, c
  <2> QED BY <1>7, <2>1 DEF Picture
<1>9. b[x].edit \in 0..Len(made) /\ write[t].scene[x].edit \in 0..Len(made)
  BY <1>4, <1>5, InvIs, PictureIs DEF Request
<1> HIDE DEF b, s, m, c
<1>10. /\ d \in TabState(Len(scenes), n)
       /\ d.base = c.base /\ d.shown = s /\ d.mine = m /\ d.dirty
       /\ d.blocked = c.blocked /\ d.reload = c.reload /\ d.answer = c.answer
  BY <1>6, <1>8 DEF TabState
<1> HIDE DEF d, n
<1>11. TabOK(t, d, scenes, made')
  <2>1. Edited(t, s, c.base, scenes, made')
    <3>1. Edited(t, c.shown, c.base, scenes, made')
      BY <1>1, <1>6 DEF TabOK
    <3>2. May(made', t, n, b[x].edit, x)
      BY <1>5, <1>7, <1>9 DEF May, Own
    <3>3. b = scenes[c.base + 1]
      BY DEF b, c
    <3> QED BY <1>7, <1>8, <3>1, <3>2, <3>3 DEF Edited
  <2>2. ASSUME NEW y \in Elements, m[y] # 0
        PROVE  s[y].edit = m[y] \/ \E i \in 1..Len(scenes) : scenes[i][y].edit = m[y]
    <3>1. CASE y = x
      BY <1>7, <1>8, <3>1
    <3>2. CASE y # x
      BY <1>6, <1>8, <2>2, <3>2 DEF TabOK
    <3> QED BY <3>1, <3>2
  <2> QED BY <1>1, <1>5, <1>6, <1>10, <2>1, <2>2 DEF TabOK
<1>12. SendingOK(t, d, write[t], scenes, made')
  <2>1. b = scenes[c.base + 1]
    BY DEF b, c
  <2>2. ASSUME NEW y \in Elements, write[t].pc # "none", s[y].edit # write[t].scene[y].edit
        PROVE  /\ s[y].edit > write[t].scene[y].edit /\ Own(made', t, s[y].edit)
               /\ made'[s[y].edit].seen[y].edit = b[y].edit
    <3>1. CASE y = x
      BY <1>5, <1>7, <1>8, <1>9, <3>1 DEF Own
    <3>2. CASE y # x
      BY <1>6, <1>8, <2>1, <2>2, <3>2 DEF SendingOK
    <3> QED BY <3>1, <3>2
  <2> QED BY <1>6, <1>10, <2>1, <2>2 DEF SendingOK
<1> QED BY <1>1, <1>2, <1>5, <1>11, <1>12, InvIs, TabKeeps

LEMMA RedrawKeeps ==
  ASSUME CanvasInv, NEW t \in Tabs, Redraw(t)
  PROVE  CanvasInv'
<1> DEFINE d == [tab[t] EXCEPT !.dirty = TRUE]
<1>1. /\ tab[t].base # None /\ tab' = [tab EXCEPT ![t] = d]
      /\ UNCHANGED <<enabled, scenes, lock, write, turn, feed, made>>
  BY DEF Redraw
<1>2. /\ d \in TabState(Len(scenes), Len(made))
      /\ d.base = tab[t].base /\ d.shown = tab[t].shown /\ d.mine = tab[t].mine
      /\ d.dirty /\ d.blocked = tab[t].blocked /\ d.reload = tab[t].reload
      /\ d.answer = tab[t].answer
  BY InvIs DEF TabState
<1> HIDE DEF d
<1>3. TabOK(t, tab[t], scenes, made) /\ SendingOK(t, tab[t], write[t], scenes, made)
  BY InvIs
<1>4. TabOK(t, d, scenes, made)
  BY <1>1, <1>2, <1>3, TabSame DEF TabOK
<1>5. SendingOK(t, d, write[t], scenes, made)
  BY <1>2, <1>3, SendingSame
<1> QED BY <1>1, <1>4, <1>5, InvIs, TabKeeps

LEMMA SaveKeeps ==
  ASSUME CanvasInv, NEW t \in Tabs, Save(t)
  PROVE  CanvasInv'
<1> DEFINE q == [pc |-> "asked", base |-> tab[t].base, scene |-> tab[t].shown]
<1>1. /\ tab[t].base # None /\ ~tab[t].blocked /\ write' = [write EXCEPT ![t] = q]
      /\ UNCHANGED <<enabled, scenes, lock, turn, tab, feed, made>>
  BY DEF Save, Ask
<1>2. t \in Writers /\ t # "fork" /\ TabOK(t, tab[t], scenes, made) /\ tab[t] \in TabState(Len(scenes), Len(made))
  BY InvIs, WritersAre
<1>3. q \in Request(Len(scenes), Len(made))
  BY <1>2 DEF Request, TabState
<1>4. RequestOK(t, q, lock, enabled, scenes, made)
  BY <1>1, <1>2, <1>3 DEF RequestOK, TabOK
<1>5. SendingOK(t, tab[t], q, scenes, made)
  BY <1>1, <1>2 DEF SendingOK, TabOK, Edited, May
<1> HIDE DEF q
<1>6. Stores0' /\ TurnStates'
  BY <1>1, InvIs, SameTurns DEF Stores0
<1> QED BY <1>1, <1>2, <1>4, <1>5, <1>6, InvIs, StoreKeeps

LEMMA FinishedKeeps ==
  ASSUME CanvasInv, NEW t \in Tabs, NEW c, TabOK(t, c, scenes, made)
  PROVE  TabOK(t, Finished(c), scenes, made)
<1> DEFINE d == [c EXCEPT !.latest = None]
<1>1. c \in TabState(Len(scenes), Len(made)) /\ Len(scenes) \in Nat /\ History(scenes, made)
  BY InvIs DEF TabOK
<1>2. /\ d \in TabState(Len(scenes), Len(made))
      /\ d.base = c.base /\ d.shown = c.shown /\ d.mine = c.mine
      /\ d.dirty = c.dirty /\ d.blocked = c.blocked /\ d.reload = c.reload
      /\ d.answer = c.answer
  BY <1>1, InvIs DEF TabState
<1>3. Pending(c) => c.latest \in 0..Stored
  BY <1>1 DEF Pending, TabState, Stored, None
<1>4. Finished(c) = IF Pending(c) THEN Receive(d, FALSE, c.latest) ELSE d
  BY DEF Finished
<1> HIDE DEF d
<1>5. TabOK(t, d, scenes, made)
  BY <1>2, TabSame DEF TabOK
<1>6. Pending(c) => TabOK(t, Receive(d, FALSE, c.latest), scenes, made)
  BY <1>1, <1>3, <1>5, ReceiveKeeps
<1> QED BY <1>4, <1>5, <1>6

\* What a tab shows when its save is stored is that scene with edits of its own.
LEMMA SavedIs ==
  ASSUME NEW sc, NEW md, NEW t, NEW c, NEW q, SendingOK(t, c, q, sc, md), q.pc = "saved"
  PROVE  /\ q.base # None
         /\ Edited(t, c.shown, q.base, sc, md)
         /\ \A x \in Elements : q.scene[x].edit = sc[q.base + 1][x].edit
<1>1. /\ q.base # None
      /\ \A x \in Elements :
           /\ q.scene[x].edit = sc[q.base + 1][x].edit
           /\ q.scene[x].edit # sc[c.base + 1][x].edit => Own(md, t, q.scene[x].edit)
           /\ c.shown[x].edit # q.scene[x].edit =>
                /\ c.shown[x].edit > q.scene[x].edit /\ Own(md, t, c.shown[x].edit)
                /\ md[c.shown[x].edit].seen[x].edit = sc[c.base + 1][x].edit
  BY DEF SendingOK
<1>2. ASSUME NEW x \in Elements, c.shown[x].edit # sc[q.base + 1][x].edit
      PROVE  May(md, t, c.shown[x].edit, sc[q.base + 1][x].edit, x)
  BY <1>1, <1>2 DEF May
<1> QED BY <1>1, <1>2 DEF Edited

LEMMA SaveDoneKeeps ==
  ASSUME CanvasInv, NEW t \in Tabs, SaveDone(t)
  PROVE  CanvasInv'
<1> DEFINE q == write[t]
           d == [tab[t] EXCEPT !.dirty = Kept(t), !.base = q.base]
<1>1. /\ q.pc = "saved" /\ tab' = [tab EXCEPT ![t] = Finished(d)]
      /\ write' = [write EXCEPT ![t] = Idle]
      /\ UNCHANGED <<enabled, scenes, lock, turn, feed, made>>
  BY DEF SaveDone, Forget
<1>2. /\ tab[t] \in TabState(Len(scenes), Len(made)) /\ TabOK(t, tab[t], scenes, made)
      /\ q \in Request(Len(scenes), Len(made)) /\ SendingOK(t, tab[t], q, scenes, made)
  BY InvIs, WritersAre
<1>3. /\ d \in TabState(Len(scenes), Len(made))
      /\ d.base = q.base /\ d.shown = tab[t].shown /\ d.mine = tab[t].mine
      /\ d.dirty = Kept(t) /\ d.blocked = tab[t].blocked /\ d.reload = tab[t].reload
      /\ d.answer = tab[t].answer
  <2>1. q.base \in -1..Len(scenes) - 1 /\ Kept(t) \in BOOLEAN
    BY <1>2 DEF Request, Kept
  <2> HIDE DEF q
  <2> QED BY <1>2, <2>1 DEF TabState
<1> HIDE DEF d
<1>4. /\ q.base # None /\ Edited(t, d.shown, q.base, scenes, made)
      /\ \A x \in Elements : q.scene[x].edit = scenes[q.base + 1][x].edit
  BY <1>1, <1>2, <1>3, SavedIs
<1>5. ~d.dirty => d.shown = q.scene
  BY <1>3 DEF Kept
<1> HIDE DEF q
<1>6. TabOK(t, d, scenes, made)
  BY <1>2, <1>3, <1>4, <1>5 DEF TabOK
<1>7. TabOK(t, Finished(d), scenes, made)
  BY <1>6, FinishedKeeps
<1> QED BY <1>1, <1>7, AnswerKeeps

LEMMA SaveFailedKeeps ==
  ASSUME CanvasInv, NEW t \in Tabs, SaveFailed(t)
  PROVE  CanvasInv'
<1> DEFINE d == [tab[t] EXCEPT !.blocked = TRUE]
<1>1. /\ tab' = [tab EXCEPT ![t] = Finished(d)] /\ write' = [write EXCEPT ![t] = Idle]
      /\ UNCHANGED <<enabled, scenes, lock, turn, feed, made>>
  BY DEF SaveFailed, Forget
<1>2. /\ d \in TabState(Len(scenes), Len(made))
      /\ d.base = tab[t].base /\ d.shown = tab[t].shown /\ d.mine = tab[t].mine
      /\ d.dirty = tab[t].dirty /\ d.blocked /\ d.reload = tab[t].reload
      /\ d.answer = tab[t].answer
  BY InvIs DEF TabState
<1> HIDE DEF d
<1>3. TabOK(t, tab[t], scenes, made)
  BY InvIs
<1>4. TabOK(t, d, scenes, made)
  BY <1>2, <1>3, TabSame DEF TabOK
<1>5. TabOK(t, Finished(d), scenes, made)
  BY <1>4, FinishedKeeps
<1> QED BY <1>1, <1>5, AnswerKeeps

\* Reloads begin and are answered.
LEMMA ReloadKeeps ==
  ASSUME CanvasInv, NEW t \in Tabs, Reload(t) \/ ReloadRead(t)
  PROVE  CanvasInv'
<1>1. PICK s \in {"asked", "answered", "done"}, a \in -1..Len(scenes) - 1 :
        /\ tab' = [tab EXCEPT ![t] = [tab[t] EXCEPT !.reload = s, !.answer = a]]
        /\ s = "answered" => a # None
        /\ UNCHANGED <<enabled, scenes, lock, write, turn, feed, made>>
        /\ tab[t].blocked
  <2>1. CASE Reload(t)
    <3>1. [tab[t] EXCEPT !.reload = "asked"] = [tab[t] EXCEPT !.reload = "asked", !.answer = tab[t].answer]
      BY InvIs DEF TabState
    <3>2. tab[t].answer \in -1..Len(scenes) - 1
      BY InvIs DEF TabState
    <3>3. /\ tab' = [tab EXCEPT ![t] = [tab[t] EXCEPT !.reload = "asked"]]
          /\ UNCHANGED <<enabled, scenes, lock, write, turn, feed, made>>
          /\ tab[t].blocked
      BY <2>1 DEF Reload
    <3> QED BY <3>1, <3>2, <3>3
  <2>2. CASE ReloadRead(t)
    <3> DEFINE ok == enabled /\ Exists
               s0 == IF ok THEN "answered" ELSE "done"
               a0 == IF ok THEN Stored ELSE None
    <3>1. /\ tab' = [tab EXCEPT ![t] = [tab[t] EXCEPT !.reload = s0, !.answer = a0]]
          /\ UNCHANGED <<enabled, scenes, lock, write, turn, feed, made>>
          /\ tab[t].reload = "asked"
      BY <2>2 DEF ReloadRead
    <3>2. a0 \in -1..Len(scenes) - 1 /\ (s0 = "answered" => a0 # None) /\ s0 \in {"asked", "answered", "done"}
      BY InvIs, ReadableIs DEF Stored, None
    <3>3. tab[t].blocked
      BY <3>1, InvIs DEF TabOK
    <3> HIDE DEF s0, a0
    <3> QED BY <3>1, <3>2, <3>3
  <2> QED BY <2>1, <2>2
<1> DEFINE d == [tab[t] EXCEPT !.reload = s, !.answer = a]
<1>2. /\ d \in TabState(Len(scenes), Len(made))
      /\ d.base = tab[t].base /\ d.shown = tab[t].shown /\ d.mine = tab[t].mine
      /\ d.dirty = tab[t].dirty /\ d.blocked = tab[t].blocked /\ d.reload = s
      /\ d.answer = a
  BY <1>1, InvIs DEF TabState
<1>3. tab' = [tab EXCEPT ![t] = d]
  BY <1>1
<1> HIDE DEF d
<1>4. TabOK(t, tab[t], scenes, made) /\ SendingOK(t, tab[t], write[t], scenes, made)
  BY InvIs
<1>5. TabOK(t, d, scenes, made)
  BY <1>1, <1>2, <1>4, TabSame DEF TabOK
<1>6. SendingOK(t, d, write[t], scenes, made)
  BY <1>2, <1>4, SendingSame
<1> QED BY <1>1, <1>3, <1>5, <1>6, InvIs, TabKeeps

LEMMA ReloadClearKeeps ==
  ASSUME CanvasInv, NEW t \in Tabs, ReloadClear(t)
  PROVE  CanvasInv'
<1> DEFINE z == [x \in Elements |-> 0]
           d == [tab[t] EXCEPT !.reload = "cleared", !.dirty = FALSE, !.base = None,
                               !.blocked = FALSE, !.mine = z]
<1>1. /\ tab[t].reload = "answered" /\ tab' = [tab EXCEPT ![t] = d]
      /\ UNCHANGED <<enabled, scenes, lock, write, turn, feed, made>>
  BY DEF ReloadClear
<1>2. TabOK(t, tab[t], scenes, made) /\ SendingOK(t, tab[t], write[t], scenes, made)
  BY InvIs
<1>3. z \in [Elements -> 0..Len(made)] /\ \A x \in Elements : z[x] = 0
  BY InvIs
<1> HIDE DEF z
<1>4. /\ d \in TabState(Len(scenes), Len(made)) /\ d.base = None /\ ~d.dirty /\ d.mine = z
      /\ d.reload = "cleared" /\ d.answer = tab[t].answer
  BY <1>3, InvIs DEF TabState
<1> HIDE DEF d
<1>5. TabOK(t, d, scenes, made)
  BY <1>1, <1>2, <1>3, <1>4 DEF TabOK
<1>6. write[t].pc = "none"
  BY <1>1, <1>2 DEF TabOK, SendingOK
<1>7. SendingOK(t, d, write[t], scenes, made)
  BY <1>6 DEF SendingOK
<1> QED BY <1>1, <1>5, <1>7, InvIs, TabKeeps

LEMMA ReloadShowKeeps ==
  ASSUME CanvasInv, NEW t \in Tabs, ReloadShow(t)
  PROVE  CanvasInv'
<1> DEFINE r == tab[t].answer
           d == [tab[t] EXCEPT !.reload = "done", !.answer = None]
           c == Receive(d, Sending(t), r)
<1>1. /\ tab[t].reload = "cleared" /\ tab' = [tab EXCEPT ![t] = c]
      /\ UNCHANGED <<enabled, scenes, lock, write, turn, feed, made>>
  BY DEF ReloadShow
<1>2. TabOK(t, tab[t], scenes, made) /\ SendingOK(t, tab[t], write[t], scenes, made)
  BY InvIs
<1>3. r \in 0..Stored /\ Sending(t) \in BOOLEAN /\ History(scenes, made)
  BY <1>1, <1>2, InvIs DEF TabOK, TabState, Stored, None, Sending
<1>4. /\ d \in TabState(Len(scenes), Len(made))
      /\ d.base = tab[t].base /\ d.shown = tab[t].shown /\ d.mine = tab[t].mine
      /\ d.dirty = tab[t].dirty /\ d.blocked = tab[t].blocked /\ d.reload = "done"
  BY InvIs DEF TabState
<1> HIDE DEF r, d
<1>5. TabOK(t, d, scenes, made)
  BY <1>2, <1>4, TabSame DEF TabOK
<1>6. TabOK(t, c, scenes, made) /\ (Sending(t) => c = [d EXCEPT !.latest = r])
  BY <1>3, <1>5, ReceiveKeeps
<1> HIDE DEF c
<1>7. SendingOK(t, c, write[t], scenes, made)
  <2>1. CASE Sending(t)
    <3>1. c.base = d.base /\ c.blocked = d.blocked /\ c.shown = d.shown
      BY <1>4, <1>6, <2>1 DEF TabState
    <3> QED BY <1>2, <1>4, <3>1, SendingSame
  <2>2. CASE ~Sending(t)
    BY <2>2 DEF Sending, SendingOK
  <2> QED BY <2>1, <2>2
<1> QED BY <1>1, <1>6, <1>7, InvIs, TabKeeps

-----------------------------------------------------------------------------
(* The invariant.                                                           *)

LEMMA CanvasInitInv ==
  ASSUME CanvasInit
  PROVE  CanvasInv
<1>1. /\ scenes = <<>> /\ made = <<>> /\ lock = "free" /\ enabled \in BOOLEAN
      /\ write = [w \in Writers |-> Idle] /\ feed = NewFeed
      /\ turn = [l \in Turns |-> [pc |-> "out", seen |-> None, conflicts |-> 0]]
      /\ tab = [t \in Tabs |-> NewTab]
  BY DEF CanvasInit
<1>2. Len(scenes) = 0 /\ Len(made) = 0 /\ History(scenes, made) /\ NoneLost(scenes, made)
  BY <1>1 DEF History, NoneLost
<1>3. Requests
  BY <1>1, <1>2, IdleIs DEF Requests
<1>4. TurnStates
  BY <1>1, <1>2, DrawingAssumption DEF TurnStates, TurnOK, TurnState, None
<1>5. TabStates
  <2>1. NewTab \in TabState(0, 0)
    <3>1. Blank \in Picture(0) /\ <<>> \in Seq(Message(0)) /\ [x \in Elements |-> 0] \in [Elements -> 0..0]
      BY BlankIs
    <3> QED BY <3>1 DEF NewTab, TabState, None
  <2>2. /\ NewTab.base = None /\ ~NewTab.dirty /\ NewTab.reload = "no"
        /\ \A x \in Elements : NewTab.mine[x] = 0
    BY DEF NewTab
  <2>3. \A t : TabOK(t, NewTab, scenes, made)
    <3> HIDE DEF NewTab
    <3> QED BY <1>2, <2>1, <2>2 DEF TabOK
  <2> QED BY <1>1, <2>3 DEF TabStates
<1>6. Sendings
  BY <1>1, <1>2, IdleIs, WritersAre DEF Sendings
<1>7. FeedOK(feed, scenes)
  BY <1>1 DEF FeedOK, FeedState, NewFeed
<1> QED BY <1>1, <1>2, <1>3, <1>4, <1>5, <1>6, <1>7 DEF CanvasInv, Stores0

LEMMA CanvasStep ==
  ASSUME CanvasInv, [CanvasNext]_canvas
  PROVE  CanvasInv'
<1>1. ASSUME NEW w \in Writers, Storing(w) \/ GiveUp(w) \/ CommitFault(w) \/ Served(w)
      PROVE  CanvasInv'
  BY <1>1, EnterKeeps, CommitKeeps, LeaveKeeps, GiveUpKeeps, CommitFaultKeeps, ServedKeeps DEF Storing
<1>2. ASSUME Toggle \/ Fork \/ RemoveLock \/ Feeding
      PROVE  CanvasInv'
  BY <1>2, ToggleKeeps, ForkKeeps, RemoveLockKeeps, FeedReadKeeps, FeedPublishKeeps DEF Feeding
<1>3. ASSUME NEW l \in Turns, Begin(l) \/ End(l) \/ Drawing(l) \/ Kill(l)
      PROVE  CanvasInv'
  BY <1>3, BeginEndKeep, GetKeeps, GetReadKeeps, ChangeKeeps, ChangedKeeps, KillKeeps DEF Drawing
<1>4. ASSUME NEW t \in Tabs, Editing(t)
      PROVE  CanvasInv'
  BY <1>4, ConnectKeeps, RefusedKeeps, DisconnectKeeps, EventKeeps, StageKeeps, RedrawKeeps, SaveKeeps,
     SaveDoneKeeps, SaveFailedKeeps, ReloadKeeps, ReloadClearKeeps, ReloadShowKeeps DEF Editing
<1>5. CASE UNCHANGED canvas
  BY <1>5 DEF canvas, CanvasInv, Stores0, Requests, TurnStates, TabStates, Sendings
<1> QED BY <1>1, <1>2, <1>3, <1>4, <1>5 DEF CanvasNext

LEMMA CanvasInvariance == CanvasSpec => []CanvasInv
<1>1. CanvasInit => CanvasInv
  BY CanvasInitInv
<1>2. CanvasInv /\ [CanvasNext]_canvas => CanvasInv'
  BY CanvasStep
<1> QED BY <1>1, <1>2, PTL DEF CanvasSpec

-----------------------------------------------------------------------------
(* The theorems.                                                            *)

\* Every variable has its type: no tab is at a revision, and no feed publishes one,
\* that is not stored.
THEOREM CanvasTypes == CanvasSpec => []CanvasTypeOK
<1>1. ASSUME CanvasInv PROVE CanvasTypeOK
  <2>1. scenes \in Seq(Picture(Len(made))) /\ made \in Seq(Edits(Len(made)))
    BY <1>1, InvIs DEF History
  <2>2. write \in [Writers -> Request(Len(scenes), Len(made))]
    <3>1. write = [w \in Writers |-> write[w]]
      BY <1>1 DEF CanvasInv, Requests
    <3>2. \A w \in Writers : write[w] \in Request(Len(scenes), Len(made))
      BY <1>1, InvIs
    <3> QED BY <3>1, <3>2
  <2>3. turn \in [Turns -> TurnState(Len(scenes))]
    BY <1>1, InvIs DEF CanvasInv, TurnStates
  <2>4. tab \in [Tabs -> TabState(Len(scenes), Len(made))]
    BY <1>1, InvIs DEF CanvasInv, TabStates
  <2>5. feed \in FeedState(Len(scenes)) /\ enabled \in BOOLEAN /\ lock \in Writers \cup {"free", "dead"}
    BY <1>1, InvIs DEF FeedOK
  <2> QED BY <2>1, <2>2, <2>3, <2>4, <2>5 DEF CanvasTypeOK
<1> QED BY <1>1, CanvasInvariance, PTL

\* Two edits of an element by different authors: the later one has seen the earlier
\* one (store.ts: commit() under the lock, after checkRevision()).
THEOREM EditsAreSeen == CanvasSpec => []NoLostEdit
<1>1. ASSUME CanvasInv, NEW r \in 1..Stored, NEW x \in Elements,
             Scene(r)[x].edit # Scene(r - 1)[x].edit
      PROVE  LET n == Scene(r)[x].edit
                 m == Scene(r - 1)[x].edit
             IN n > m /\ (made[n].seen[x].edit = m \/ (m # 0 /\ made[m].by = made[n].by))
  <2>1. r \in 1..Len(scenes) - 1 /\ Scene(r) = scenes[r + 1] /\ Scene(r - 1) = scenes[r]
    BY InvIs DEF Stored, Scene
  <2>2. PICK w \in Writers : May(made, w, scenes[r + 1][x].edit, scenes[r][x].edit, x)
    BY <1>1, <2>1, InvIs DEF NoneLost
  <2> QED BY <2>1, <2>2, InvIs DEF May, Own
<1>2. CanvasInv => NoLostEdit
  BY <1>1 DEF NoLostEdit
<1> QED BY <1>2, CanvasInvariance, PTL

\* A tab's last edit of an element is shown or stored until the user gives it up
\* (sync.ts: receive(), save() and their merges).
THEOREM TabsKeepEdits == CanvasSpec => []EditsAreKept
<1>1. ASSUME CanvasInv, NEW t \in Tabs, NEW x \in Elements, tab[t].mine[x] # 0
      PROVE  \/ tab[t].shown[x].edit = tab[t].mine[x]
             \/ \E r \in 0..Stored : Scene(r)[x].edit = tab[t].mine[x]
  <2>1. CASE \E i \in 1..Len(scenes) : scenes[i][x].edit = tab[t].mine[x]
    <3>1. PICK i \in 1..Len(scenes) : scenes[i][x].edit = tab[t].mine[x]
      BY <2>1
    <3>2. i - 1 \in 0..Stored /\ (i - 1) + 1 = i
      BY InvIs DEF Stored
    <3> QED BY <3>1, <3>2 DEF Scene
  <2> QED BY <1>1, <2>1, InvIs DEF TabOK
<1>2. CanvasInv => EditsAreKept
  BY <1>1 DEF EditsAreKept
<1> QED BY <1>2, CanvasInvariance, PTL

\* While the canvas is off nothing is stored but the copy of a branch: who has found
\* it on under the lock writes before it can be switched off (store.ts: configure()).
THEOREM OffIsKept == CanvasSpec => DisabledIsKept
<1>1. ASSUME CanvasInv, NEW w \in Writers, Commit(w), scenes' # scenes
      PROVE  enabled \/ write["fork"].pc = "writing"
  BY <1>1, InvIs DEF Commit, RequestOK
<1>2. ASSUME CanvasInv, [CanvasNext]_canvas
      PROVE  [scenes' # scenes => enabled \/ write["fork"].pc = "writing"]_canvas
  <2>1. (\E w \in Writers : Commit(w)) \/ scenes' = scenes
    <3>1. ASSUME NEW w \in Writers, Storing(w) \/ GiveUp(w) \/ CommitFault(w) \/ Served(w)
          PROVE  Commit(w) \/ scenes' = scenes
      BY <3>1 DEF Storing, Enter, Leave, GiveUp, CommitFault, Served
    <3>2. ASSUME Toggle \/ Fork \/ RemoveLock \/ Feeding
          PROVE  scenes' = scenes
      BY <3>2 DEF Toggle, Fork, RemoveLock, Feeding, FeedRead, FeedPublish
    <3>3. ASSUME NEW l \in Turns, Begin(l) \/ End(l) \/ Drawing(l) \/ Kill(l)
          PROVE  scenes' = scenes
      BY <3>3 DEF Begin, End, Drawing, Kill, Get, GetRead, Change, Changed
    <3>4. ASSUME NEW t \in Tabs, Editing(t)
          PROVE  scenes' = scenes
      BY <3>4 DEF Editing, Connect, Refused, canvas, Disconnect, Event, Stage, Redraw, Save, SaveDone, SaveFailed,
                  Reload, ReloadRead, ReloadClear, ReloadShow
    <3>5. CASE UNCHANGED canvas
      BY <3>5 DEF canvas
    <3> QED BY <1>2, <3>1, <3>2, <3>3, <3>4, <3>5 DEF CanvasNext
  <2> QED BY <1>1, <1>2, <2>1
<1> QED BY <1>2, CanvasInvariance, PTL DEF CanvasSpec, DisabledIsKept

\* The turns of a server keep the rules of the pool and of the canvas: a canvas tool
\* runs, settings are saved and a turn ends as both allow.
THEOREM TurnsKeepRules == TurnsSpec => Spec /\ CanvasSpec
<1>1. TurnsInit => Init /\ CanvasInit
  BY DEF TurnsInit
<1>2. ASSUME [TurnsNext]_turnsVars
      PROVE  [Next]_vars /\ [CanvasNext]_canvas
  <2>1. ASSUME NEW l \in Leases, Starts(l) \/ Acquires(l) \/ Runs(l) \/ Ends(l)
        PROVE  [Next]_vars /\ [CanvasNext]_canvas
    <3>1. l \in Turns
      BY TurnsAssumption
    <3>2. CASE Starts(l)
      BY <3>2 DEF Starts, Bounded, Next
    <3>3. CASE Acquires(l)
      BY <3>3 DEF Acquires, Pooled, Next, canvasVars
    <3>4. CASE Runs(l)
      BY <3>1, <3>4 DEF Runs, Next, CanvasNext
    <3>5. CASE Ends(l)
      BY <3>1, <3>5 DEF Ends, Next, CanvasNext, canvasVars
    <3> QED BY <2>1, <3>2, <3>3, <3>4, <3>5
  <2>2. ASSUME NEW l \in Leases, NEW m \in Leases, Keeps(l, m)
        PROVE  [Next]_vars /\ [CanvasNext]_canvas
    BY <2>2 DEF Keeps, Bounded, Next
  <2>3. ASSUME NEW g \in Gens, Pooled(PoolClosed(g))
        PROVE  [Next]_vars /\ [CanvasNext]_canvas
    BY <2>3 DEF Pooled, Next, canvasVars
  <2>4. CASE Closes
    BY <2>4 DEF Closes, Bounded, Next
  <2>5. CASE SettingsSaved
    <3>1. enabled' \in Revisions
      BY <2>5, TurnsAssumption DEF SettingsSaved, Commit
    <3> QED BY <2>5, <3>1, WritersAre DEF SettingsSaved, Next, CanvasNext, Storing
  <2>6. ASSUME NEW w \in Writers, Stores(w)
        PROVE  [Next]_vars /\ [CanvasNext]_canvas
    BY <2>6 DEF Stores, Draws, CanvasNext, Storing
  <2>7. ASSUME NEW l \in Turns, CallsTool(l)
        PROVE  [Next]_vars /\ [CanvasNext]_canvas
    BY <2>7 DEF CallsTool, Draws, CanvasNext
  <2>8. ASSUME NEW l \in Outside, RunsCli(l)
        PROVE  [Next]_vars /\ [CanvasNext]_canvas
    BY <2>8, DrawingAssumption DEF RunsCli, Draws, CanvasNext
  <2>9. ASSUME NEW t \in Tabs, Draws(Editing(t))
        PROVE  [Next]_vars /\ [CanvasNext]_canvas
    BY <2>9 DEF Draws, CanvasNext
  <2>10. CASE Draws(Toggle \/ Fork \/ RemoveLock \/ Feeding)
    BY <2>10 DEF Draws, CanvasNext
  <2>11. CASE UNCHANGED turnsVars
    BY <2>11 DEF turnsVars, canvasVars
  <2> QED BY <1>2, <2>1, <2>2, <2>3, <2>4, <2>5, <2>6, <2>7, <2>8, <2>9, <2>10, <2>11 DEF TurnsNext
<1> QED BY <1>1, <1>2, PTL DEF TurnsSpec, Spec, CanvasSpec
=============================================================================
