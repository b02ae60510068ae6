--------------------------- MODULE JobQueueProofs ---------------------------
(***************************************************************************)
(* Theorems about JobQueue: its state is well typed, and a request that    *)
(* was recorded is lost by the overlaps only that `overlap' notes.         *)
(***************************************************************************)
EXTENDS JobQueue, TLAPS

-----------------------------------------------------------------------------
(* The order of the records: what a write and an unlink make of it.         *)

\* An unlink takes one status out of the order and leaves the others.
LEMMA WithoutOne ==
  ASSUME recent \in Seq(Statuses), IsInjective(recent), NEW s
  PROVE  /\ Without(s) \in Seq(Statuses) /\ IsInjective(Without(s))
         /\ ToSet(Without(s)) = ToSet(recent) \ {s}
<1>1. CASE ~Exists(s)
  BY <1>1 DEF Without, Exists
<1>2. CASE Exists(s)
  <2>1. PICK i \in DOMAIN recent : i = CHOOSE j \in DOMAIN recent : recent[j] = s
    BY <1>2 DEF Exists, ToSet
  <2>2. recent[i] = s
    BY <1>2, <2>1 DEF Exists, ToSet
  <2> DEFINE w == SubSeq(recent, 1, i - 1) \o SubSeq(recent, i + 1, Len(recent))
  <2>3. Without(s) = w
    BY <1>2, <2>1 DEF Without, RemoveAt
  <2>4. i \in 1..Len(recent) /\ DOMAIN recent = 1..Len(recent) /\ Len(recent) \in Nat
    OBVIOUS
  <2> DEFINE a == SubSeq(recent, 1, i - 1)
             b == SubSeq(recent, i + 1, Len(recent))
  <2>5. a \in Seq(Statuses) /\ b \in Seq(Statuses) /\ Len(a) = i - 1 /\ Len(b) = Len(recent) - i
    BY <2>4
  <2>6. /\ \A k \in 1..(i - 1) : a[k] = recent[k]
        /\ \A k \in 1..(Len(recent) - i) : b[k] = recent[k + i]
    BY <2>4
  <2>7. /\ w \in Seq(Statuses) /\ Len(w) = Len(recent) - 1
        /\ DOMAIN w = 1..(Len(recent) - 1)
        /\ \A k \in 1..(i - 1) : w[k] = recent[k]
        /\ \A k \in i..(Len(recent) - 1) : w[k] = recent[k + 1]
    <3>1. w = a \o b
      OBVIOUS
    <3> HIDE DEF w, a, b
    <3>2. w \in Seq(Statuses) /\ Len(w) = Len(recent) - 1 /\ DOMAIN w = 1..(Len(recent) - 1)
      <4>1. w \in Seq(Statuses) /\ Len(w) = Len(a) + Len(b)
        BY <3>1, <2>5
      <4>2. Len(w) = Len(recent) - 1
        BY <4>1, <2>4, <2>5
      <4> QED BY <4>1, <4>2
    <3>3. \A k \in 1..(i - 1) : w[k] = a[k]
      BY <3>1, <2>4, <2>5
    <3>4. \A k \in i..(Len(recent) - 1) : w[k] = b[k - (i - 1)]
      BY <3>1, <2>4, <2>5
    <3>5. \A k \in i..(Len(recent) - 1) : w[k] = recent[k + 1]
      <4> TAKE k \in i..(Len(recent) - 1)
      <4>1. k - (i - 1) \in 1..(Len(recent) - i) /\ k - (i - 1) + i = k + 1
        BY <2>4
      <4> QED BY <3>4, <4>1, <2>6
    <3> QED BY <3>2, <3>3, <3>5, <2>6
  <2> HIDE DEF w, a, b
  <2> DEFINE g == [k \in 1..(Len(recent) - 1) |-> IF k < i THEN k ELSE k + 1]
  <2>8. \A k \in DOMAIN w : g[k] \in DOMAIN recent /\ g[k] # i /\ w[k] = recent[g[k]]
    BY <2>4, <2>7
  <2>9. \A k, l \in DOMAIN w : g[k] = g[l] => k = l
    BY <2>4, <2>7
  <2>10. \A j \in DOMAIN recent : j # i => \E k \in DOMAIN w : g[k] = j
    <3> TAKE j \in DOMAIN recent
    <3> HAVE j # i
    <3>1. CASE j < i
      <4>1. j \in DOMAIN w /\ g[j] = j
        BY <3>1, <2>4, <2>7
      <4> QED BY <4>1
    <3>2. CASE j > i
      <4>1. j - 1 \in DOMAIN w /\ g[j - 1] = j
        BY <3>2, <2>4, <2>7
      <4> QED BY <4>1
    <3> QED BY <3>1, <3>2, <2>4
  <2> HIDE DEF g
  <2>11. IsInjective(w)
    BY <2>8, <2>9 DEF IsInjective
  <2>12. \A k \in DOMAIN w : w[k] # s
    BY <2>8, <2>2 DEF IsInjective
  <2>13. ToSet(w) = ToSet(recent) \ {s}
    <3>1. ToSet(w) \subseteq ToSet(recent) \ {s}
      BY <2>8, <2>12 DEF ToSet
    <3>2. ASSUME NEW t \in ToSet(recent), t # s PROVE t \in ToSet(w)
      <4>1. PICK j \in DOMAIN recent : recent[j] = t
        BY DEF ToSet
      <4>2. j # i
        BY <4>1, <3>2, <2>2
      <4>3. PICK k \in DOMAIN w : g[k] = j
        BY <4>2, <2>10
      <4> QED BY <4>1, <4>3, <2>8 DEF ToSet
    <3> QED BY <3>1, <3>2
  <2> QED BY <2>3, <2>7, <2>11, <2>13
<1> QED BY <1>1, <1>2

\* A write puts its status first.
LEMMA LatestFirst ==
  ASSUME recent \in Seq(Statuses), IsInjective(recent), NEW s \in Statuses
  PROVE  /\ Latest(s) \in Seq(Statuses) /\ IsInjective(Latest(s))
         /\ ToSet(Latest(s)) = ToSet(recent) \cup {s}
<1> DEFINE w == Without(s)
<1>1. w \in Seq(Statuses) /\ IsInjective(w) /\ ToSet(w) = ToSet(recent) \ {s}
  BY WithoutOne
<1>2. Latest(s) = <<s>> \o w
  BY DEF Latest
<1> HIDE DEF w
<1>3. Len(w) \in Nat /\ DOMAIN w = 1..Len(w)
  BY <1>1
<1>4. /\ Latest(s) \in Seq(Statuses) /\ DOMAIN Latest(s) = 1..(Len(w) + 1)
      /\ Latest(s)[1] = s
      /\ \A k \in 1..Len(w) : Latest(s)[k + 1] = w[k]
  BY <1>1, <1>2, <1>3
<1>5. \A k \in 2..(Len(w) + 1) : k - 1 \in DOMAIN w /\ Latest(s)[k] = w[k - 1]
  <2> TAKE k \in 2..(Len(w) + 1)
  <2>1. k - 1 \in 1..Len(w) /\ (k - 1) + 1 = k
    BY <1>3
  <2> QED BY <2>1, <1>3, <1>4
<1>6. \A k \in DOMAIN w : w[k] # s
  BY <1>1 DEF ToSet
<1>7. IsInjective(Latest(s))
  <2> SUFFICES ASSUME NEW k \in DOMAIN Latest(s), NEW l \in DOMAIN Latest(s),
                      Latest(s)[k] = Latest(s)[l]
               PROVE  k = l
    BY DEF IsInjective
  <2>1. CASE k = 1 /\ l # 1
    <3>1. l \in 2..(Len(w) + 1)
      BY <2>1, <1>3, <1>4
    <3>2. l - 1 \in DOMAIN w /\ w[l - 1] = s
      BY <3>1, <2>1, <1>4, <1>5
    <3> QED BY <3>2, <1>6
  <2>2. CASE k # 1 /\ l = 1
    <3>1. k \in 2..(Len(w) + 1)
      BY <2>2, <1>3, <1>4
    <3>2. k - 1 \in DOMAIN w /\ w[k - 1] = s
      BY <3>1, <2>2, <1>4, <1>5
    <3> QED BY <3>2, <1>6
  <2>3. CASE k # 1 /\ l # 1
    <3>1. k \in 2..(Len(w) + 1) /\ l \in 2..(Len(w) + 1)
      BY <2>3, <1>3, <1>4
    <3>2. w[k - 1] = w[l - 1] /\ k - 1 \in DOMAIN w /\ l - 1 \in DOMAIN w
      BY <3>1, <1>5
    <3>3. k - 1 = l - 1
      BY <3>2, <1>1 DEF IsInjective
    <3> QED BY <3>1, <3>3, <1>3
  <2> QED BY <2>1, <2>2, <2>3
<1>8. ToSet(Latest(s)) = {s} \cup ToSet(w)
  <2>1. ASSUME NEW t \in ToSet(Latest(s)) PROVE t \in {s} \cup ToSet(w)
    <3>1. PICK k \in DOMAIN Latest(s) : Latest(s)[k] = t
      BY DEF ToSet
    <3>2. CASE k = 1
      BY <3>1, <3>2, <1>4
    <3>3. CASE k # 1
      <4>1. k \in 2..(Len(w) + 1)
        BY <3>3, <1>3, <1>4
      <4> QED BY <4>1, <3>1, <1>5 DEF ToSet
    <3> QED BY <3>2, <3>3
  <2>2. s \in ToSet(Latest(s))
    <3>1. 1 \in DOMAIN Latest(s)
      BY <1>3, <1>4
    <3> QED BY <3>1, <1>4 DEF ToSet
  <2>3. ASSUME NEW t \in ToSet(w) PROVE t \in ToSet(Latest(s))
    <3>1. PICK k \in DOMAIN w : w[k] = t
      BY DEF ToSet
    <3>2. k + 1 \in DOMAIN Latest(s) /\ Latest(s)[k + 1] = t
      BY <3>1, <1>3, <1>4
    <3> QED BY <3>2 DEF ToSet
  <2> QED BY <2>1, <2>2, <2>3
<1> QED BY <1>1, <1>4, <1>7, <1>8

\* A write that keeps updated_at puts a status that was not there last.
LEMMA AppendedLast ==
  ASSUME recent \in Seq(Statuses), IsInjective(recent), NEW s \in Statuses, ~Exists(s)
  PROVE  /\ Append(recent, s) \in Seq(Statuses) /\ IsInjective(Append(recent, s))
         /\ ToSet(Append(recent, s)) = ToSet(recent) \cup {s}
<1>1. \A k \in DOMAIN recent : recent[k] # s
  BY DEF Exists, ToSet
<1>2. /\ Append(recent, s) \in Seq(Statuses) /\ Len(recent) \in Nat
      /\ DOMAIN recent = 1..Len(recent)
      /\ DOMAIN Append(recent, s) = 1..(Len(recent) + 1)
      /\ \A k \in 1..Len(recent) : Append(recent, s)[k] = recent[k]
      /\ Append(recent, s)[Len(recent) + 1] = s
  OBVIOUS
<1>3. IsInjective(Append(recent, s))
  BY <1>1, <1>2 DEF IsInjective
<1>4. ToSet(Append(recent, s)) = ToSet(recent) \cup {s}
  <2>1. ASSUME NEW t \in ToSet(Append(recent, s)) PROVE t \in ToSet(recent) \cup {s}
    BY <1>2 DEF ToSet
  <2>2. ASSUME NEW t \in ToSet(recent) PROVE t \in ToSet(Append(recent, s))
    <3>1. PICK k \in DOMAIN recent : recent[k] = t
      BY DEF ToSet
    <3>2. k \in DOMAIN Append(recent, s) /\ Append(recent, s)[k] = t
      BY <3>1, <1>2
    <3> QED BY <3>2 DEF ToSet
  <2>3. s \in ToSet(Append(recent, s))
    <3>1. Len(recent) + 1 \in DOMAIN Append(recent, s)
      BY <1>2
    <3> QED BY <3>1, <1>2 DEF ToSet
  <2> QED BY <2>1, <2>2, <2>3
<1> QED BY <1>2, <1>3, <1>4

\* What ClaimRename makes of the order.
Renamed == [i \in 1..Len(Without("processing")) |->
              IF Without("processing")[i] = "pending" THEN "processing"
              ELSE Without("processing")[i]]

\* A rename moves a job from one status to the other, over what was there.
LEMMA RenamedOver ==
  ASSUME recent \in Seq(Statuses), IsInjective(recent), Exists("pending")
  PROVE  /\ Renamed \in Seq(Statuses) /\ IsInjective(Renamed)
         /\ ToSet(Renamed) = (ToSet(recent) \ {"pending"}) \cup {"processing"}
<1> DEFINE w == Without("processing")
<1>1. w \in Seq(Statuses) /\ IsInjective(w) /\ ToSet(w) = ToSet(recent) \ {"processing"}
  BY WithoutOne
<1>2. Renamed = [i \in 1..Len(w) |-> IF w[i] = "pending" THEN "processing" ELSE w[i]]
  BY DEF Renamed
<1> HIDE DEF w
<1>3. Len(w) \in Nat /\ DOMAIN w = 1..Len(w) /\ \A k \in 1..Len(w) : w[k] \in Statuses
  BY <1>1
<1>4. Renamed \in Seq(Statuses)
  BY <1>2, <1>3 DEF Statuses
<1>5. DOMAIN Renamed = DOMAIN w
  BY <1>2, <1>3
<1>6. \A k \in DOMAIN w : w[k] # "processing"
  BY <1>1 DEF ToSet
<1>7. \A k \in DOMAIN w : Renamed[k] = IF w[k] = "pending" THEN "processing" ELSE w[k]
  BY <1>2, <1>3
<1>8. IsInjective(Renamed)
  BY <1>1, <1>5, <1>6, <1>7 DEF IsInjective
<1>9. PICK p \in DOMAIN w : w[p] = "pending"
  BY <1>1 DEF Exists, ToSet
<1>10. ToSet(Renamed) = (ToSet(w) \ {"pending"}) \cup {"processing"}
  <2>1. ASSUME NEW t \in ToSet(Renamed) PROVE t \in (ToSet(w) \ {"pending"}) \cup {"processing"}
    BY <1>5, <1>7 DEF ToSet
  <2>2. "processing" \in ToSet(Renamed)
    BY <1>5, <1>7, <1>9 DEF ToSet
  <2>3. ASSUME NEW t \in ToSet(w) \ {"pending"} PROVE t \in ToSet(Renamed)
    BY <1>5, <1>7 DEF ToSet
  <2> QED BY <2>1, <2>2, <2>3
<1> QED BY <1>1, <1>4, <1>8, <1>10

\* The part of the type invariant that is about the disk.
DiskOK ==
  /\ file \in [Statuses -> Job]
  /\ recent \in Seq(Statuses) /\ IsInjective(recent)

\* writeJsonAtomic()
LEMMA PutKeeps ==
  ASSUME DiskOK, NEW s \in Statuses, NEW job \in Job, Put(s, job)
  PROVE  DiskOK' /\ file' = [file EXCEPT ![s] = job] /\ ToSet(recent') = ToSet(recent) \cup {s}
<1>1. file' = [file EXCEPT ![s] = job] /\ recent' = Latest(s)
  BY DEF Put, Stored
<1>2. /\ Latest(s) \in Seq(Statuses) /\ IsInjective(Latest(s))
      /\ ToSet(Latest(s)) = ToSet(recent) \cup {s}
  BY LatestFirst DEF DiskOK
<1>3. file' \in [Statuses -> Job]
  BY <1>1 DEF DiskOK
<1>4. recent' \in Seq(Statuses) /\ IsInjective(recent') /\ ToSet(recent') = ToSet(recent) \cup {s}
  BY ONLY <1>1, <1>2
<1> QED BY <1>1, <1>3, <1>4 DEF DiskOK

\* unlink()
LEMMA UnlinkKeeps ==
  ASSUME DiskOK, NEW s, Unlink(s)
  PROVE  DiskOK' /\ file' = [file EXCEPT ![s] = NoJob] /\ ToSet(recent') = ToSet(recent) \ {s}
<1>1. file' = [file EXCEPT ![s] = NoJob] /\ recent' = Without(s)
  BY DEF Unlink, Stored
<1>2. /\ Without(s) \in Seq(Statuses) /\ IsInjective(Without(s))
      /\ ToSet(Without(s)) = ToSet(recent) \ {s}
  BY WithoutOne DEF DiskOK
<1>3. file' \in [Statuses -> Job]
  BY <1>1 DEF DiskOK, Job, NoJob
<1>4. recent' \in Seq(Statuses) /\ IsInjective(recent') /\ ToSet(recent') = ToSet(recent) \ {s}
  BY ONLY <1>1, <1>2
<1> QED BY <1>1, <1>3, <1>4 DEF DiskOK

\* A write that keeps updated_at.
LEMMA AmendKeeps ==
  ASSUME DiskOK, NEW s \in Statuses, NEW job \in Job, Amend(s, job)
  PROVE  DiskOK' /\ file' = [file EXCEPT ![s] = job] /\ ToSet(recent') = ToSet(recent) \cup {s}
<1>1. /\ file' = [file EXCEPT ![s] = job]
      /\ recent' = IF Exists(s) THEN recent ELSE Append(recent, s)
  BY DEF Amend, Stored
<1>2. file' \in [Statuses -> Job]
  BY <1>1 DEF DiskOK
<1>3. recent' \in Seq(Statuses) /\ IsInjective(recent') /\ ToSet(recent') = ToSet(recent) \cup {s}
  <2>1. CASE Exists(s)
    BY <2>1, <1>1 DEF DiskOK, Exists
  <2>2. CASE ~Exists(s)
    <3>1. recent' = Append(recent, s)
      BY <2>2, <1>1
    <3>2. /\ Append(recent, s) \in Seq(Statuses) /\ IsInjective(Append(recent, s))
          /\ ToSet(Append(recent, s)) = ToSet(recent) \cup {s}
      BY <2>2, AppendedLast DEF DiskOK
    <3> QED BY ONLY <3>1, <3>2
  <2> QED BY <2>1, <2>2
<1> QED BY <1>1, <1>2, <1>3 DEF DiskOK

\* rename()
LEMMA RenameKeeps ==
  ASSUME DiskOK, ClaimRename, Exists("pending")
  PROVE  /\ DiskOK'
         /\ file' = [file EXCEPT !["processing"] = file["pending"], !["pending"] = NoJob]
         /\ ToSet(recent') = (ToSet(recent) \ {"pending"}) \cup {"processing"}
<1>1. /\ file' = [file EXCEPT !["processing"] = file["pending"], !["pending"] = NoJob]
      /\ recent' = Renamed
  BY DEF ClaimRename, Renamed
<1>2. /\ Renamed \in Seq(Statuses) /\ IsInjective(Renamed)
      /\ ToSet(Renamed) = (ToSet(recent) \ {"pending"}) \cup {"processing"}
  BY RenamedOver DEF DiskOK
<1>3. file' \in [Statuses -> Job]
  BY <1>1 DEF DiskOK, Job, NoJob, Statuses
<1>4. /\ recent' \in Seq(Statuses) /\ IsInjective(recent')
      /\ ToSet(recent') = (ToSet(recent) \ {"pending"}) \cup {"processing"}
  BY ONLY <1>1, <1>2
<1> QED BY <1>1, <1>3, <1>4 DEF DiskOK

\* find() answers with a status that has the job, the first of them.
LEMMA FoundIs ==
  ASSUME DiskOK
  PROVE  /\ Found \in Statuses \cup {"none"}
         /\ Found # "none" => Exists(Found)
         /\ Found = "pending" <=> Exists("pending")
         /\ Found = "processing" <=> ~Exists("pending") /\ Exists("processing")
         /\ Found = "none" => \A s \in Statuses : ~Exists(s)
  BY DEF Found, Statuses

-----------------------------------------------------------------------------
(* The inductive invariant.                                                *)

\* An event that is recorded and is still on its way to the queue.
Waiting == \E a \in Asks : ask[a].pc \in {"finding", "marking", "writing"}

\* No job, on disk or in memory, has taken in more than was recorded, and none that has
\* ended more than what is counted as done.
Revisions ==
  /\ \A s \in Statuses : file[s].seen \in 0..rev
  /\ \A a \in Asks : ask[a].job.seen \in 0..rev
  /\ worker.job.seen \in 0..rev /\ timer.job.seen \in 0..rev
  /\ \A s \in {"completed", "failed"} : file[s].seen <= done

\* An enqueue unlinks only records of jobs that ended, and marks only a leased job.
Asked ==
  \A a \in Asks :
    /\ ask[a].pc = "marking" => ask[a].job.lease # "none"
    /\ ask[a].pc = "writing" => ask[a].at \in {"none", "completed", "failed"}
    /\ ask[a].pc = "unlinking" => ask[a].at \in {"completed", "failed"}

\* A job that was claimed counts as an attempt; the end of a run knows where to.
Claims ==
  /\ worker.pc \in {"claimed", "running"} => worker.job.tries > 0
  /\ worker.pc = "settling" => worker.to # "none"

\* What may be in the memory of the process.
Memory ==
  /\ rev \in Nat /\ done \in 0..rev
  /\ ask \in [Asks -> [pc : {"idle", "finding", "marking", "writing", "unlinking",
                             "queued", "lost"},
                       job : Job, at : Statuses \cup {"none"}]]
  /\ worker \in [pc : {"idle", "listed", "renamed", "claimed", "running", "settling", "moving"},
                 job : Job, to : {"none", "pending", "completed", "failed"}]
  /\ timer \in [pc : {"idle", "listed", "moving"}, job : Job, to : {"none"}]
  /\ boot \in {"states", "jobs", "unlinking", "leases", "ready"}
  /\ mishaps \in 0..MaxMishaps

StateOK == DiskOK /\ Memory

TInv == StateOK /\ Revisions /\ Asked /\ Claims

\* While the worker runs a job, or settles it, the job is leased, if it is still there.
Leased ==
  worker.pc \in {"claimed", "running", "settling", "moving"} =>
    (Exists("processing") => file["processing"].lease # "none")

\* No mark is on its way while a run ends, and only a process that has started works on
\* jobs.
Apart ==
  /\ Settling => ~Marking
  /\ boot # "ready" => worker.pc = "idle" /\ \A a \in Asks : ask[a].pc \in {"idle", "queued", "lost"}
  /\ timer.pc # "idle" => boot \in {"leases", "ready"}

\* A pending file stays where the worker or the timer goes on from it.
Pending ==
  /\ worker.pc = "listed" => Exists("pending")
  /\ timer.pc = "moving" => Exists("pending")
  /\ boot = "unlinking" => Exists("pending") /\ (Exists("completed") \/ Exists("failed"))

\* What was recorded after a run has read its inputs is queued, on its way, or marked on
\* the job, and the end of the run carries it over.
Carried ==
  /\ worker.pc = "running" /\ worker.job.seen < rev =>
       \/ Exists("pending") \/ Waiting
       \/ Exists("processing") /\ file["processing"].lease # "none" /\ file["processing"].rerun
  /\ worker.pc = "settling" /\ worker.to # "pending" /\ worker.job.seen < rev =>
       Exists("pending") \/ Waiting
  /\ worker.pc = "moving" /\ done < rev => Exists("pending") \/ Waiting
  /\ boot \in {"unlinking", "leases", "ready"} /\ worker.pc = "idle" /\ done < rev =>
       Exists("pending") \/ Exists("processing") \/ Waiting

QInv == TInv /\ Leased /\ Apart /\ Pending /\ Carried

\* All of it holds until two activities overlap, and again from the next crash on.
IInv == TInv /\ (~overlap => QInv)

\* The type invariant is these two, and the type of `overlap'.
LEMMA TypesSplit == /\ StateOK <=> DiskOK /\ Memory
                    /\ TypeOK <=> StateOK /\ overlap \in BOOLEAN
  BY DEF StateOK, TypeOK, DiskOK, Memory

\* Nothing is on disk or in memory at first.
LEMMA InitTypes == Init => TInv
<1> SUFFICES ASSUME Init PROVE TInv
  OBVIOUS
<1>1. recent \in Seq(Statuses) /\ IsInjective(recent)
  BY DEF Init, IsInjective
<1>2. NoJob \in Job /\ NoJob.seen = 0
  BY DEF NoJob, Job
<1>3. StateOK
  BY <1>1, <1>2, AttemptsAssumption DEF Init, StateOK, DiskOK, Memory, NoAsk, Idle
<1>4. Revisions /\ Asked /\ Claims
  BY <1>2 DEF Init, Revisions, Asked, Claims, Settling, NoAsk, Idle, Statuses
<1> QED BY <1>3, <1>4 DEF TInv

\* A job as it is changed by a step is still one.
LEMMA ChangedJobs ==
  ASSUME NEW job \in Job
  PROVE  /\ \A l \in {"none", "held", "expired"}, n \in Nat : 
              [job EXCEPT !.lease = l, !.tries = n] \in Job
         /\ \A l \in {"none", "held", "expired"}, d \in BOOLEAN :
              /\ [job EXCEPT !.lease = l] \in Job
              /\ [job EXCEPT !.lease = l, !.due = d] \in Job
              /\ [job EXCEPT !.lease = l, !.rerun = FALSE, !.due = TRUE] \in Job
         /\ \A l \in {"none", "held", "expired"}, n \in Nat : 
              [job EXCEPT !.lease = l, !.rerun = FALSE, !.due = TRUE, !.tries = n] \in Job
         /\ job.tries \in Nat /\ job.seen \in Nat
  BY DEF Job

\* A job that is queued anew.
LEMMA NewJobs ==
  ASSUME NEW n \in Nat
  PROVE  [NoJob EXCEPT !.seen = n] \in Job /\ [NoJob EXCEPT !.seen = n].seen = n
  BY DEF NoJob, Job

\* Record keeps the state well typed.
LEMMA RecordTypes ==
  ASSUME TInv, NEW a \in Asks, Record(a)
  PROVE  TInv'
<1>0. DiskOK /\ Memory
  BY TypesSplit DEF TInv
<1>1. \A s \in Statuses : file[s] \in Job
  BY <1>0 DEF DiskOK
<1>2. DiskOK' /\ file' = file
  BY <1>0 DEF Record, DiskOK, diskVars
<1>6. Memory'
  BY <1>0, <1>1, <1>2 DEF Record, TInv, Revisions, Claims, Settling, Memory, Job, Idle, NoAsk, NoJob, Statuses
<1>7. Revisions'
  BY <1>0, <1>1, <1>2 DEF Record, TInv, Revisions, Memory, Job, Idle, NoAsk, NoJob, Statuses
<1>8. Asked'
  BY <1>0, <1>1, <1>2 DEF Record, TInv, Asked, Memory, Idle, NoAsk, NoJob
<1>9. Claims'
  BY <1>0, <1>1, <1>2 DEF Record, TInv, Claims, Settling, Memory, Idle, Job
<1>10. StateOK'
  BY <1>2, <1>6 DEF StateOK, DiskOK, Memory
<1> QED BY <1>7, <1>8, <1>9, <1>10 DEF TInv

\* AskFind keeps the state well typed.
LEMMA AskFindTypes ==
  ASSUME TInv, NEW a \in Asks, AskFind(a)
  PROVE  TInv'
<1>0. DiskOK /\ Memory
  BY TypesSplit DEF TInv
<1>1. \A s \in Statuses : file[s] \in Job
  BY <1>0 DEF DiskOK
<1>2. DiskOK' /\ file' = file
  BY <1>0 DEF AskFind, DiskOK, diskVars
<1>3. Found \in Statuses \cup {"none"}
  BY <1>0, FoundIs
<1> DEFINE job == IF Found = "none" THEN NoJob ELSE file[Found]
           x == CASE Found = "processing" /\ job.lease # "none" ->
                       [pc |-> "marking", job |-> job, at |-> "none"]
                  [] Found \in {"none", "completed", "failed"} ->
                       [pc |-> "writing", job |-> job, at |-> Found]
                  [] OTHER -> [NoAsk EXCEPT !.pc = "queued"]
<1>4. ask' = [ask EXCEPT ![a] = x]
  BY DEF AskFind
<1>5. job \in Job
  BY <1>1, <1>3 DEF NoJob, Job
<1>11. \/ x = [pc |-> "marking", job |-> job, at |-> "none"]
       \/ x = [pc |-> "writing", job |-> job, at |-> Found]
       \/ x = [pc |-> "queued", job |-> NoJob, at |-> "none"]
  BY DEF NoAsk
<1>12. /\ x \in [pc : {"marking", "writing", "queued"}, job : Job, at : Statuses \cup {"none"}]
       /\ x.job = job \/ x.job = NoJob
  <2>1. NoJob \in Job
    BY DEF NoJob, Job
  <2> HIDE DEF job, x
  <2> QED BY <1>3, <1>5, <1>11, <2>1
<1>6. Memory'
  <2> HIDE DEF job, x
  <2>1. ask' \in [Asks -> [pc : {"idle", "finding", "marking", "writing", "unlinking", "queued", "lost"},
                        job : Job, at : Statuses \cup {"none"}]]
    BY <1>0, <1>4, <1>12 DEF Memory
  <2> QED BY <1>0, <2>1 DEF AskFind, Memory
<1>7. Revisions'
  <2>1. ask'[a].job.seen \in 0..rev /\ UNCHANGED <<rev, worker, timer, done>>
    <3>1. ask'[a].job = (IF Found = "none" THEN NoJob ELSE file[Found]) \/ ask'[a].job = NoJob
      <4> HIDE DEF x
      <4> QED BY <1>0, <1>4, <1>12 DEF Memory
    <3>2. NoJob.seen = 0 /\ rev \in Nat
      BY <1>0 DEF NoJob, Memory
    <3> QED BY <1>3, <3>1, <3>2 DEF AskFind, TInv, Revisions
  <2>2. \A b \in Asks : b # a => ask'[b] = ask[b]
    BY <1>0 DEF AskFind, Memory
  <2> QED BY <1>2, <2>1, <2>2 DEF TInv, Revisions
<1>8. Asked'
  BY <1>0, <1>1, <1>2, <1>3 DEF AskFind, TInv, Asked, Memory, Idle, NoAsk, NoJob, Statuses
<1>9. Claims'
  BY <1>0, <1>1, <1>2, <1>3 DEF AskFind, TInv, Claims, Settling, Memory, Idle, Job
<1>10. StateOK'
  BY <1>2, <1>6 DEF StateOK, DiskOK, Memory
<1> QED BY <1>7, <1>8, <1>9, <1>10 DEF TInv

\* AskMark keeps the state well typed.
LEMMA AskMarkTypes ==
  ASSUME TInv, NEW a \in Asks, AskMark(a)
  PROVE  /\ TInv'
         /\ file' = [file EXCEPT !["processing"] = [ask[a].job EXCEPT !.rerun = TRUE]]
         /\ ToSet(recent') = ToSet(recent) \cup {"processing"}
<1>0. DiskOK /\ Memory
  BY TypesSplit DEF TInv
<1>1. \A s \in Statuses : file[s] \in Job
  BY <1>0 DEF DiskOK
<1>3. "processing" \in Statuses /\ [ask[a].job EXCEPT !.rerun = TRUE] \in Job
  <2>1. ask[a].job \in Job
    BY <1>0 DEF Memory
  <2> QED BY <2>1 DEF Statuses, Job
<1>4. Amend("processing", [ask[a].job EXCEPT !.rerun = TRUE])
  BY DEF AskMark
<1>2. /\ DiskOK' /\ file' = [file EXCEPT !["processing"] = [ask[a].job EXCEPT !.rerun = TRUE]]
      /\ ToSet(recent') = ToSet(recent) \cup {"processing"}
  BY ONLY <1>0, <1>3, <1>4, AmendKeeps
<1>6. Memory'
  <2>1. ask' \in [Asks -> [pc : {"idle", "finding", "marking", "writing", "unlinking", "queued", "lost"},
                        job : Job, at : Statuses \cup {"none"}]]
    BY <1>0, <1>1, <1>2, <1>3 DEF AskMark, Memory, NoAsk, Job, NoJob
  <2>2. worker' \in [pc : {"idle", "listed", "renamed", "claimed", "running", "settling", "moving"},
                  job : Job, to : {"none", "pending", "completed", "failed"}]
    BY <1>0, <1>1, <1>2, <1>3 DEF AskMark, Memory
  <2>3. timer' \in [pc : {"idle", "listed", "moving"}, job : Job, to : {"none"}]
    BY <1>0, <1>1, <1>2, <1>3 DEF AskMark, Memory
  <2>4. rev' \in Nat /\ done' \in 0..rev' /\ mishaps' \in 0..MaxMishaps
    BY <1>0, <1>1, <1>2, <1>3, AttemptsAssumption DEF AskMark, Memory
  <2>5. boot' \in {"states", "jobs", "unlinking", "leases", "ready"}
    BY <1>0, <1>1, <1>2, <1>3 DEF AskMark, Memory
  <2> QED BY <2>1, <2>2, <2>3, <2>4, <2>5 DEF Memory
<1>7. Revisions'
  BY <1>0, <1>1, <1>2, <1>3 DEF AskMark, TInv, Revisions, Memory, Job, Idle, NoAsk, NoJob, Statuses
<1>8. Asked'
  BY <1>0, <1>1, <1>2, <1>3 DEF AskMark, TInv, Asked, Memory, Idle, NoAsk, NoJob
<1>9. Claims'
  BY <1>0, <1>1, <1>2, <1>3 DEF AskMark, TInv, Claims, Settling, Memory, Idle, Job
<1>10. StateOK'
  BY <1>2, <1>6 DEF StateOK, DiskOK, Memory
<1> QED BY <1>2, <1>7, <1>8, <1>9, <1>10 DEF TInv

\* AskWrite keeps the state well typed.
LEMMA AskWriteTypes ==
  ASSUME TInv, NEW a \in Asks, AskWrite(a)
  PROVE  /\ TInv'
         /\ file' = [file EXCEPT !["pending"] = [NoJob EXCEPT !.seen = ask[a].job.seen]]
         /\ ToSet(recent') = ToSet(recent) \cup {"pending"}
<1>0. DiskOK /\ Memory
  BY TypesSplit DEF TInv
<1>1. \A s \in Statuses : file[s] \in Job
  BY <1>0 DEF DiskOK
<1>3. "pending" \in Statuses /\ [NoJob EXCEPT !.seen = ask[a].job.seen] \in Job
  BY <1>0 DEF AskWrite, TInv, Memory, NoJob, Statuses, Job
<1>4. Put("pending", [NoJob EXCEPT !.seen = ask[a].job.seen])
  BY DEF AskWrite
<1>2. /\ DiskOK' /\ file' = [file EXCEPT !["pending"] = [NoJob EXCEPT !.seen = ask[a].job.seen]]
      /\ ToSet(recent') = ToSet(recent) \cup {"pending"}
  BY ONLY <1>0, <1>3, <1>4, PutKeeps
<1>6. Memory'
  <2>1. ask' \in [Asks -> [pc : {"idle", "finding", "marking", "writing", "unlinking", "queued", "lost"},
                        job : Job, at : Statuses \cup {"none"}]]
    <3> DEFINE y == [ask[a] EXCEPT !.pc = IF ask[a].at = "none" THEN "queued" ELSE "unlinking",
                                   !.job = NoJob]
    <3>1. ask' = [ask EXCEPT ![a] = y]
      BY <1>0 DEF AskWrite, Memory
    <3>2. y \in [pc : {"idle", "finding", "marking", "writing", "unlinking", "queued", "lost"},
                  job : Job, at : Statuses \cup {"none"}]
      <4>1. ask[a] \in [pc : {"idle", "finding", "marking", "writing", "unlinking", "queued", "lost"},
                  job : Job, at : Statuses \cup {"none"}]
        BY <1>0 DEF Memory
      <4>2. NoJob \in Job
        BY DEF NoJob, Job
      <4> QED BY <4>1, <4>2
    <3> HIDE DEF y
    <3> QED BY <3>1, <3>2, <1>0 DEF Memory
  <2>2. worker' \in [pc : {"idle", "listed", "renamed", "claimed", "running", "settling", "moving"},
                  job : Job, to : {"none", "pending", "completed", "failed"}]
    BY <1>0, <1>1, <1>2, <1>3 DEF AskWrite, Memory
  <2>3. timer' \in [pc : {"idle", "listed", "moving"}, job : Job, to : {"none"}]
    BY <1>0, <1>1, <1>2, <1>3 DEF AskWrite, Memory
  <2>4. rev' \in Nat /\ done' \in 0..rev' /\ mishaps' \in 0..MaxMishaps
    BY <1>0, <1>1, <1>2, <1>3, AttemptsAssumption DEF AskWrite, Memory
  <2>5. boot' \in {"states", "jobs", "unlinking", "leases", "ready"}
    BY <1>0, <1>1, <1>2, <1>3 DEF AskWrite, Memory
  <2> QED BY <2>1, <2>2, <2>3, <2>4, <2>5 DEF Memory
<1>7. Revisions'
  BY <1>0, <1>1, <1>2, <1>3 DEF AskWrite, TInv, Revisions, Memory, Job, Idle, NoAsk, NoJob, Statuses
<1>8. Asked'
  BY <1>0, <1>1, <1>2, <1>3 DEF AskWrite, TInv, Asked, Memory, Idle, NoAsk, NoJob
<1>9. Claims'
  BY <1>0, <1>1, <1>2, <1>3 DEF AskWrite, TInv, Claims, Settling, Memory, Idle, Job
<1>10. StateOK'
  BY <1>2, <1>6 DEF StateOK, DiskOK, Memory
<1> QED BY <1>2, <1>7, <1>8, <1>9, <1>10 DEF TInv

\* AskUnlink keeps the state well typed.
LEMMA AskUnlinkTypes ==
  ASSUME TInv, NEW a \in Asks, AskUnlink(a)
  PROVE  /\ TInv'
         /\ file' = [file EXCEPT ![ask[a].at] = NoJob]
         /\ ToSet(recent') = ToSet(recent) \ {ask[a].at}
<1>0. DiskOK /\ Memory
  BY TypesSplit DEF TInv
<1>1. \A s \in Statuses : file[s] \in Job
  BY <1>0 DEF DiskOK
<1>4. Unlink(ask[a].at)
  BY DEF AskUnlink
<1>2. /\ DiskOK' /\ file' = [file EXCEPT ![ask[a].at] = NoJob]
      /\ ToSet(recent') = ToSet(recent) \ {ask[a].at}
  BY ONLY <1>0, <1>4, UnlinkKeeps
<1>6. Memory'
  <2>1. ask' \in [Asks -> [pc : {"idle", "finding", "marking", "writing", "unlinking", "queued", "lost"},
                        job : Job, at : Statuses \cup {"none"}]]
    BY <1>0, <1>1, <1>2 DEF AskUnlink, Memory, NoAsk, Job, NoJob
  <2>2. worker' \in [pc : {"idle", "listed", "renamed", "claimed", "running", "settling", "moving"},
                  job : Job, to : {"none", "pending", "completed", "failed"}]
    BY <1>0, <1>1, <1>2 DEF AskUnlink, Memory
  <2>3. timer' \in [pc : {"idle", "listed", "moving"}, job : Job, to : {"none"}]
    BY <1>0, <1>1, <1>2 DEF AskUnlink, Memory
  <2>4. rev' \in Nat /\ done' \in 0..rev' /\ mishaps' \in 0..MaxMishaps
    BY <1>0, <1>1, <1>2, AttemptsAssumption DEF AskUnlink, Memory
  <2>5. boot' \in {"states", "jobs", "unlinking", "leases", "ready"}
    BY <1>0, <1>1, <1>2 DEF AskUnlink, Memory
  <2> QED BY <2>1, <2>2, <2>3, <2>4, <2>5 DEF Memory
<1>7. Revisions'
  BY <1>0, <1>1, <1>2 DEF AskUnlink, TInv, Revisions, Memory, Job, Idle, NoAsk, NoJob, Statuses
<1>8. Asked'
  BY <1>0, <1>1, <1>2 DEF AskUnlink, TInv, Asked, Memory, Idle, NoAsk, NoJob
<1>9. Claims'
  BY <1>0, <1>1, <1>2 DEF AskUnlink, TInv, Claims, Settling, Memory, Idle, Job
<1>10. StateOK'
  BY <1>2, <1>6 DEF StateOK, DiskOK, Memory
<1> QED BY <1>2, <1>7, <1>8, <1>9, <1>10 DEF TInv

\* ClaimList keeps the state well typed.
LEMMA ClaimListTypes ==
  ASSUME TInv, ClaimList
  PROVE  TInv'
<1>0. DiskOK /\ Memory
  BY TypesSplit DEF TInv
<1>1. \A s \in Statuses : file[s] \in Job
  BY <1>0 DEF DiskOK
<1>2. DiskOK' /\ file' = file
  BY <1>0 DEF ClaimList, DiskOK, diskVars
<1>6. Memory'
  BY <1>0, <1>1, <1>2 DEF ClaimList, TInv, Revisions, Claims, Settling, Memory, Job, Idle, NoAsk, NoJob, Statuses
<1>7. Revisions'
  BY <1>0, <1>1, <1>2 DEF ClaimList, TInv, Revisions, Memory, Job, Idle, NoAsk, NoJob, Statuses
<1>8. Asked'
  BY <1>0, <1>1, <1>2 DEF ClaimList, TInv, Asked, Memory, Idle, NoAsk, NoJob
<1>9. Claims'
  BY <1>0, <1>1, <1>2 DEF ClaimList, TInv, Claims, Settling, Memory, Idle, Job
<1>10. StateOK'
  BY <1>2, <1>6 DEF StateOK, DiskOK, Memory
<1> QED BY <1>7, <1>8, <1>9, <1>10 DEF TInv

\* ClaimRename keeps the state well typed.
LEMMA ClaimRenameTypes ==
  ASSUME TInv, ClaimRename
  PROVE  TInv'
<1>0. DiskOK /\ Memory
  BY TypesSplit DEF TInv
<1>1. \A s \in Statuses : file[s] \in Job
  BY <1>0 DEF DiskOK
<1>2. /\ DiskOK'
      /\ \/ file' = file
         \/ file' = [file EXCEPT !["processing"] = file["pending"], !["pending"] = NoJob]
  <2>1. CASE Exists("pending")
    BY <2>1, <1>0, RenameKeeps
  <2>2. CASE ~Exists("pending")
    BY <2>2, <1>0 DEF ClaimRename, DiskOK, diskVars
  <2> QED BY <2>1, <2>2
<1>6. Memory'
  <2>1. ask' \in [Asks -> [pc : {"idle", "finding", "marking", "writing", "unlinking", "queued", "lost"},
                        job : Job, at : Statuses \cup {"none"}]]
    BY <1>0, <1>1, <1>2 DEF ClaimRename, Memory
  <2>2. worker' \in [pc : {"idle", "listed", "renamed", "claimed", "running", "settling", "moving"},
                  job : Job, to : {"none", "pending", "completed", "failed"}]
    <3>1. worker' \in {Idle, [worker EXCEPT !.pc = "renamed"]}
      BY DEF ClaimRename
    <3>2. NoJob \in Job
      BY DEF NoJob, Job
    <3> QED BY <1>0, <3>1, <3>2 DEF Memory, Idle
  <2>3. timer' \in [pc : {"idle", "listed", "moving"}, job : Job, to : {"none"}]
    BY <1>0, <1>1, <1>2 DEF ClaimRename, Memory
  <2>4. rev' \in Nat /\ done' \in 0..rev' /\ mishaps' \in 0..MaxMishaps
    BY <1>0, <1>1, <1>2, AttemptsAssumption DEF ClaimRename, Memory
  <2>5. boot' \in {"states", "jobs", "unlinking", "leases", "ready"}
    BY <1>0, <1>1, <1>2 DEF ClaimRename, Memory
  <2> QED BY <2>1, <2>2, <2>3, <2>4, <2>5 DEF Memory
<1>7. Revisions'
  <2>1. UNCHANGED <<rev, done, ask, timer>> /\ worker'.job \in {worker.job, NoJob}
    BY <1>0 DEF ClaimRename, Memory, Idle
  <2>2. \A s \in Statuses : file'[s] \in {file[s], file["pending"], NoJob}
    BY <1>0, <1>2 DEF DiskOK
  <2>3. \A s \in {"completed", "failed"} : file'[s] = file[s]
    BY <1>0, <1>2 DEF DiskOK, Statuses
  <2>4. NoJob.seen = 0 /\ "pending" \in Statuses
    BY DEF NoJob, Statuses
  <2> QED BY <1>0, <2>1, <2>2, <2>3, <2>4 DEF TInv, Revisions, Memory
<1>8. Asked'
  BY <1>0, <1>1, <1>2 DEF ClaimRename, TInv, Asked, Memory, Idle, NoAsk, NoJob
<1>9. Claims'
  BY <1>0, <1>1, <1>2 DEF ClaimRename, TInv, Claims, Settling, Memory, Idle, Job
<1>10. StateOK'
  BY <1>2, <1>6 DEF StateOK, DiskOK, Memory
<1> QED BY <1>7, <1>8, <1>9, <1>10 DEF TInv

\* ClaimLease keeps the state well typed.
LEMMA ClaimLeaseTypes ==
  ASSUME TInv, ClaimLease
  PROVE  /\ TInv'
         /\ file' = [file EXCEPT !["processing"] = [worker.job EXCEPT !.lease = "held", !.tries = @ + 1]]
         /\ ToSet(recent') = ToSet(recent) \cup {"processing"}
<1>0. DiskOK /\ Memory
  BY TypesSplit DEF TInv
<1>1. \A s \in Statuses : file[s] \in Job
  BY <1>0 DEF DiskOK
<1>3. "processing" \in Statuses /\ [worker.job EXCEPT !.lease = "held", !.tries = @ + 1] \in Job
  <2>1. worker.job \in Job
    BY <1>0 DEF Memory
  <2>2. worker.job.tries \in Nat
    BY <2>1 DEF Job
  <2>3. worker.job.tries + 1 \in Nat
    BY <2>2
  <2> QED BY <2>1, <2>3 DEF Statuses, Job
<1>4. Put("processing", [worker.job EXCEPT !.lease = "held", !.tries = @ + 1])
  BY DEF ClaimLease
<1>2. /\ DiskOK' /\ file' = [file EXCEPT !["processing"] = [worker.job EXCEPT !.lease = "held", !.tries = @ + 1]]
      /\ ToSet(recent') = ToSet(recent) \cup {"processing"}
  BY ONLY <1>0, <1>3, <1>4, PutKeeps
<1>6. Memory'
  <2>1. ask' \in [Asks -> [pc : {"idle", "finding", "marking", "writing", "unlinking", "queued", "lost"},
                        job : Job, at : Statuses \cup {"none"}]]
    BY <1>0, <1>1, <1>2, <1>3 DEF ClaimLease, Memory
  <2>2. worker' \in [pc : {"idle", "listed", "renamed", "claimed", "running", "settling", "moving"},
                  job : Job, to : {"none", "pending", "completed", "failed"}]
    BY <1>0, <1>1, <1>2, <1>3 DEF ClaimLease, Memory
  <2>3. timer' \in [pc : {"idle", "listed", "moving"}, job : Job, to : {"none"}]
    BY <1>0, <1>1, <1>2, <1>3 DEF ClaimLease, Memory
  <2>4. rev' \in Nat /\ done' \in 0..rev' /\ mishaps' \in 0..MaxMishaps
    BY <1>0, <1>1, <1>2, <1>3, AttemptsAssumption DEF ClaimLease, Memory
  <2>5. boot' \in {"states", "jobs", "unlinking", "leases", "ready"}
    BY <1>0, <1>1, <1>2, <1>3 DEF ClaimLease, Memory
  <2> QED BY <2>1, <2>2, <2>3, <2>4, <2>5 DEF Memory
<1>5. /\ UNCHANGED <<rev, done, ask, timer>>
      /\ worker' = [worker EXCEPT !.pc = "claimed",
                       !.job = [worker.job EXCEPT !.lease = "held", !.tries = @ + 1]]
  BY DEF ClaimLease
<1>11. worker'.job.seen = worker.job.seen /\ worker'.job.tries = worker.job.tries + 1
  <2> DEFINE y == [worker.job EXCEPT !.lease = "held", !.tries = @ + 1]
  <2>1. y.seen = worker.job.seen /\ y.tries = worker.job.tries + 1
    BY <1>0 DEF Memory, Job
  <2>2. worker'.job = y
    BY <1>0, <1>5 DEF Memory
  <2> QED BY <2>1, <2>2
<1>7. Revisions'
  <2>1. \A s \in Statuses : file'[s].seen \in {file[s].seen, worker.job.seen}
    <3> DEFINE y == [worker.job EXCEPT !.lease = "held", !.tries = @ + 1]
    <3>1. y.seen = worker.job.seen
      BY <1>0 DEF Memory, Job
    <3> HIDE DEF y
    <3> QED BY <3>1, <1>0, <1>2 DEF DiskOK
  <2>2. \A s \in {"completed", "failed"} : file'[s] = file[s]
    BY <1>0, <1>2 DEF DiskOK, Statuses
  <2> QED BY <1>0, <1>5, <1>11, <2>1, <2>2 DEF TInv, Revisions, Memory
<1>8. Asked'
  BY <1>0, <1>1, <1>2, <1>3 DEF ClaimLease, TInv, Asked, Memory, Idle, NoAsk, NoJob
<1>9. Claims'
  <2>1. worker.job.tries \in Nat
    BY <1>0, ChangedJobs DEF Memory
  <2>2. worker'.pc = "claimed"
    BY <1>0, <1>5 DEF Memory
  <2> QED BY <2>1, <2>2, <1>11 DEF Claims, Settling
<1>10. StateOK'
  BY <1>2, <1>6 DEF StateOK, DiskOK, Memory
<1> QED BY <1>2, <1>7, <1>8, <1>9, <1>10 DEF TInv

\* RunRead keeps the state well typed.
LEMMA RunReadTypes ==
  ASSUME TInv, RunRead
  PROVE  TInv'
<1>0. DiskOK /\ Memory
  BY TypesSplit DEF TInv
<1>1. \A s \in Statuses : file[s] \in Job
  BY <1>0 DEF DiskOK
<1>2. DiskOK' /\ file' = file
  BY <1>0 DEF RunRead, DiskOK, diskVars
<1>6. Memory'
  BY <1>0, <1>1, <1>2 DEF RunRead, TInv, Revisions, Claims, Settling, Memory, Job, Idle, NoAsk, NoJob, Statuses
<1>7. Revisions'
  BY <1>0, <1>1, <1>2 DEF RunRead, TInv, Revisions, Memory, Job, Idle, NoAsk, NoJob, Statuses
<1>8. Asked'
  BY <1>0, <1>1, <1>2 DEF RunRead, TInv, Asked, Memory, Idle, NoAsk, NoJob
<1>9. Claims'
  BY <1>0, <1>1, <1>2 DEF RunRead, TInv, Claims, Settling, Memory, Idle, Job
<1>10. StateOK'
  BY <1>2, <1>6 DEF StateOK, DiskOK, Memory
<1> QED BY <1>7, <1>8, <1>9, <1>10 DEF TInv

\* Complete keeps the state well typed.
LEMMA CompleteTypes ==
  ASSUME TInv, Complete
  PROVE  TInv'
<1>0. DiskOK /\ Memory
  BY TypesSplit DEF TInv
<1>1. \A s \in Statuses : file[s] \in Job
  BY <1>0 DEF DiskOK
<1>2. DiskOK' /\ file' = file
  BY <1>0 DEF Complete, DiskOK, diskVars, Settle
<1>3. /\ Requeued \in Job /\ Requeued.seen = file["processing"].seen
      /\ \A d \in BOOLEAN : /\ [worker.job EXCEPT !.lease = "none", !.due = d] \in Job
                            /\ [worker.job EXCEPT !.lease = "none", !.due = d].seen = worker.job.seen
      /\ [worker.job EXCEPT !.lease = "none"] \in Job
      /\ [worker.job EXCEPT !.lease = "none"].seen = worker.job.seen
  <2>1. file["processing"] \in Job /\ worker.job \in Job
    BY <1>0, <1>1 DEF Memory, Statuses
  <2> QED BY <2>1 DEF Requeued, Job
<1>4. \E job \in Job, to \in {"pending", "completed", "failed"} :
         worker' = [pc |-> "settling", job |-> job, to |-> to]
           /\ job.seen \in {file["processing"].seen, worker.job.seen}
  BY <1>3 DEF Complete, Settle
<1>5. UNCHANGED <<rev, done, ask, timer, boot>> /\ mishaps' \in 0..MaxMishaps
  BY <1>0 DEF Complete, Settle, Requeued, Memory
<1>6. Memory'
  <2>1. worker' \in [pc : {"idle", "listed", "renamed", "claimed", "running", "settling", "moving"},
                    job : Job, to : {"none", "pending", "completed", "failed"}]
    BY <1>4
  <2> QED BY <1>0, <1>5, <2>1 DEF Memory
<1>7. Revisions'
  <2>1. worker'.job.seen \in 0..rev
    <3>1. "processing" \in Statuses
      BY DEF Statuses
    <3> QED BY <1>4, <3>1 DEF TInv, Revisions
  <2> QED BY <1>2, <1>5, <2>1 DEF TInv, Revisions
<1>8. Asked'
  BY <1>5 DEF TInv, Asked
<1>9. Claims'
  <2>1. worker'.pc = "settling" /\ worker'.to # "none"
    BY <1>4
  <2> QED BY <2>1 DEF Claims, Settling
<1>10. StateOK'
  BY <1>2, <1>6 DEF StateOK, DiskOK, Memory
<1> QED BY <1>7, <1>8, <1>9, <1>10 DEF TInv

\* Fail keeps the state well typed.
LEMMA FailTypes ==
  ASSUME TInv, NEW permanent \in BOOLEAN, Fail(permanent)
  PROVE  TInv'
<1>0. DiskOK /\ Memory
  BY TypesSplit DEF TInv
<1>1. \A s \in Statuses : file[s] \in Job
  BY <1>0 DEF DiskOK
<1>2. DiskOK' /\ file' = file
  BY <1>0 DEF Fail, DiskOK, diskVars, Settle
<1>3. /\ Requeued \in Job /\ Requeued.seen = file["processing"].seen
      /\ \A d \in BOOLEAN : /\ [worker.job EXCEPT !.lease = "none", !.due = d] \in Job
                            /\ [worker.job EXCEPT !.lease = "none", !.due = d].seen = worker.job.seen
      /\ [worker.job EXCEPT !.lease = "none"] \in Job
      /\ [worker.job EXCEPT !.lease = "none"].seen = worker.job.seen
  <2>1. file["processing"] \in Job /\ worker.job \in Job
    BY <1>0, <1>1 DEF Memory, Statuses
  <2> QED BY <2>1 DEF Requeued, Job
<1>4. \E job \in Job, to \in {"pending", "completed", "failed"} :
         worker' = [pc |-> "settling", job |-> job, to |-> to]
           /\ job.seen \in {file["processing"].seen, worker.job.seen}
  <2>1. CASE RerunAsked
    BY <2>1, <1>3 DEF Fail, Settle
  <2>2. CASE ~RerunAsked /\ (permanent \/ GivesUp(worker.job))
    BY <2>2, <1>3 DEF Fail, Settle
  <2>3. CASE ~RerunAsked /\ ~(permanent \/ GivesUp(worker.job))
    <3> DEFINE y == [worker.job EXCEPT !.lease = "none", !.due = FALSE]
    <3>1. worker' = [pc |-> "settling", job |-> y, to |-> "pending"]
      BY <2>3 DEF Fail, Settle
    <3>2. y \in Job /\ y.seen = worker.job.seen
      BY <1>3
    <3> HIDE DEF y
    <3> QED BY <3>1, <3>2
  <2> QED BY <2>1, <2>2, <2>3
<1>5. UNCHANGED <<rev, done, ask, timer, boot>> /\ mishaps' \in 0..MaxMishaps
  BY <1>0 DEF Fail, Settle, Requeued, Memory
<1>6. Memory'
  <2>1. worker' \in [pc : {"idle", "listed", "renamed", "claimed", "running", "settling", "moving"},
                    job : Job, to : {"none", "pending", "completed", "failed"}]
    BY <1>4
  <2> QED BY <1>0, <1>5, <2>1 DEF Memory
<1>7. Revisions'
  <2>1. worker'.job.seen \in 0..rev
    <3>1. "processing" \in Statuses
      BY DEF Statuses
    <3> QED BY <1>4, <3>1 DEF TInv, Revisions
  <2> QED BY <1>2, <1>5, <2>1 DEF TInv, Revisions
<1>8. Asked'
  BY <1>5 DEF TInv, Asked
<1>9. Claims'
  <2>1. worker'.pc = "settling" /\ worker'.to # "none"
    BY <1>4
  <2> QED BY <2>1 DEF Claims, Settling
<1>10. StateOK'
  BY <1>2, <1>6 DEF StateOK, DiskOK, Memory
<1> QED BY <1>7, <1>8, <1>9, <1>10 DEF TInv

\* Release keeps the state well typed.
LEMMA ReleaseTypes ==
  ASSUME TInv, Release
  PROVE  TInv'
<1>0. DiskOK /\ Memory
  BY TypesSplit DEF TInv
<1>1. \A s \in Statuses : file[s] \in Job
  BY <1>0 DEF DiskOK
<1>2. DiskOK' /\ file' = file
  BY <1>0 DEF Release, DiskOK, diskVars, Settle
<1>3. Found \in Statuses \cup {"none"}
  BY <1>0, FoundIs
<1>4. \E job \in Job, to \in {"pending", "completed", "failed"} :
         worker' = [pc |-> "settling", job |-> job, to |-> to]
           /\ job.seen \in {file[s].seen : s \in Statuses} \cup {worker.job.seen}
  <2> DEFINE current == IF Found = "none" THEN worker.job ELSE file[Found]
             y == [current EXCEPT !.lease = "none", !.rerun = FALSE, !.due = TRUE,
                                  !.tries = worker.job.tries - 1]
  <2>1. worker' = [pc |-> "settling", job |-> y, to |-> "pending"]
    BY DEF Release, Settle
  <2>2. /\ current \in Job
        /\ current.seen \in {file[s].seen : s \in Statuses} \cup {worker.job.seen}
    BY <1>0, <1>1, <1>3 DEF Memory
  <2>3. worker.job.tries - 1 \in Nat
    <3>1. worker.job.tries \in Nat
      BY <1>0, ChangedJobs DEF Memory
    <3>2. worker.job.tries > 0
      BY DEF TInv, Claims, Release
    <3> QED BY <3>1, <3>2
  <2> HIDE DEF current
  <2>4. y \in Job /\ y.seen = current.seen
    BY <2>2, <2>3 DEF Job
  <2> HIDE DEF y
  <2> QED BY <2>1, <2>2, <2>4
<1>5. UNCHANGED <<rev, done, ask, timer, boot>> /\ mishaps' \in 0..MaxMishaps
  BY <1>0, AttemptsAssumption DEF Release, Settle, Memory
<1>6. Memory'
  <2>1. worker' \in [pc : {"idle", "listed", "renamed", "claimed", "running", "settling", "moving"},
                    job : Job, to : {"none", "pending", "completed", "failed"}]
    BY <1>4
  <2> QED BY <1>0, <1>5, <2>1 DEF Memory
<1>7. Revisions'
  <2>1. worker'.job.seen \in 0..rev
    <3>1. "processing" \in Statuses
      BY DEF Statuses
    <3> QED BY <1>4, <3>1 DEF TInv, Revisions
  <2> QED BY <1>2, <1>5, <2>1 DEF TInv, Revisions
<1>8. Asked'
  BY <1>5 DEF TInv, Asked
<1>9. Claims'
  <2>1. worker'.pc = "settling" /\ worker'.to # "none"
    BY <1>4
  <2> QED BY <2>1 DEF Claims, Settling
<1>10. StateOK'
  BY <1>2, <1>6 DEF StateOK, DiskOK, Memory
<1> QED BY <1>7, <1>8, <1>9, <1>10 DEF TInv

\* SettleWrite keeps the state well typed.
LEMMA SettleWriteTypes ==
  ASSUME TInv, SettleWrite
  PROVE  /\ TInv'
         /\ file' = [file EXCEPT ![worker.to] = worker.job]
         /\ ToSet(recent') = ToSet(recent) \cup {worker.to}
<1>0. DiskOK /\ Memory
  BY TypesSplit DEF TInv
<1>1. \A s \in Statuses : file[s] \in Job
  BY <1>0 DEF DiskOK
<1>3. worker.to \in Statuses /\ worker.job \in Job
  BY <1>0 DEF SettleWrite, TInv, Memory, Claims, Settling, Statuses, Job
<1>4. Put(worker.to, worker.job)
  BY DEF SettleWrite
<1>2. /\ DiskOK' /\ file' = [file EXCEPT ![worker.to] = worker.job]
      /\ ToSet(recent') = ToSet(recent) \cup {worker.to}
  BY ONLY <1>0, <1>3, <1>4, PutKeeps
<1>6. Memory'
  BY <1>0, <1>1, <1>2, <1>3 DEF SettleWrite, TInv, Revisions, Claims, Settling, Memory, Job, Idle, NoAsk, NoJob, Statuses
<1>7. Revisions'
  BY <1>0, <1>1, <1>2, <1>3 DEF SettleWrite, TInv, Revisions, Memory, Job, Idle, NoAsk, NoJob, Statuses
<1>8. Asked'
  BY <1>0, <1>1, <1>2, <1>3 DEF SettleWrite, TInv, Asked, Memory, Idle, NoAsk, NoJob
<1>9. Claims'
  BY <1>0, <1>1, <1>2, <1>3 DEF SettleWrite, TInv, Claims, Settling, Memory, Idle, Job
<1>10. StateOK'
  BY <1>2, <1>6 DEF StateOK, DiskOK, Memory
<1> QED BY <1>2, <1>7, <1>8, <1>9, <1>10 DEF TInv

\* SettleUnlink keeps the state well typed.
LEMMA SettleUnlinkTypes ==
  ASSUME TInv, SettleUnlink
  PROVE  /\ TInv'
         /\ file' = [file EXCEPT !["processing"] = NoJob]
         /\ ToSet(recent') = ToSet(recent) \ {"processing"}
<1>0. DiskOK /\ Memory
  BY TypesSplit DEF TInv
<1>1. \A s \in Statuses : file[s] \in Job
  BY <1>0 DEF DiskOK
<1>4. Unlink("processing")
  BY DEF SettleUnlink
<1>2. /\ DiskOK' /\ file' = [file EXCEPT !["processing"] = NoJob]
      /\ ToSet(recent') = ToSet(recent) \ {"processing"}
  BY ONLY <1>0, <1>4, UnlinkKeeps
<1>6. Memory'
  BY <1>0, <1>1, <1>2 DEF SettleUnlink, TInv, Revisions, Claims, Settling, Memory, Job, Idle, NoAsk, NoJob, Statuses
<1>7. Revisions'
  BY <1>0, <1>1, <1>2 DEF SettleUnlink, TInv, Revisions, Memory, Job, Idle, NoAsk, NoJob, Statuses
<1>8. Asked'
  BY <1>0, <1>1, <1>2 DEF SettleUnlink, TInv, Asked, Memory, Idle, NoAsk, NoJob
<1>9. Claims'
  BY <1>0, <1>1, <1>2 DEF SettleUnlink, TInv, Claims, Settling, Memory, Idle, Job
<1>10. StateOK'
  BY <1>2, <1>6 DEF StateOK, DiskOK, Memory
<1> QED BY <1>2, <1>7, <1>8, <1>9, <1>10 DEF TInv

\* Expire keeps the state well typed.
LEMMA ExpireTypes ==
  ASSUME TInv, Expire
  PROVE  TInv'
<1>0. DiskOK /\ Memory
  BY TypesSplit DEF TInv
<1>1. \A s \in Statuses : file[s] \in Job
  BY <1>0 DEF DiskOK
<1>2. DiskOK' /\ file' = [file EXCEPT !["processing"].lease = "expired"]
  BY <1>0, <1>1 DEF Expire, DiskOK, Job, Statuses
<1>6. Memory'
  BY <1>0, <1>1, <1>2 DEF Expire, TInv, Revisions, Claims, Settling, Memory, Job, Idle, NoAsk, NoJob, Statuses
<1>7. Revisions'
  BY <1>0, <1>1, <1>2 DEF Expire, TInv, Revisions, Memory, Job, Idle, NoAsk, NoJob, Statuses
<1>8. Asked'
  BY <1>0, <1>1, <1>2 DEF Expire, TInv, Asked, Memory, Idle, NoAsk, NoJob
<1>9. Claims'
  BY <1>0, <1>1, <1>2 DEF Expire, TInv, Claims, Settling, Memory, Idle, Job
<1>10. StateOK'
  BY <1>2, <1>6 DEF StateOK, DiskOK, Memory
<1> QED BY <1>7, <1>8, <1>9, <1>10 DEF TInv

\* Due keeps the state well typed.
LEMMA DueTypes ==
  ASSUME TInv, Due
  PROVE  TInv'
<1>0. DiskOK /\ Memory
  BY TypesSplit DEF TInv
<1>1. \A s \in Statuses : file[s] \in Job
  BY <1>0 DEF DiskOK
<1>2. DiskOK' /\ file' = [file EXCEPT !["pending"].due = TRUE]
  BY <1>0, <1>1 DEF Due, DiskOK, Job, Statuses
<1>6. Memory'
  BY <1>0, <1>1, <1>2 DEF Due, TInv, Revisions, Claims, Settling, Memory, Job, Idle, NoAsk, NoJob, Statuses
<1>7. Revisions'
  BY <1>0, <1>1, <1>2 DEF Due, TInv, Revisions, Memory, Job, Idle, NoAsk, NoJob, Statuses
<1>8. Asked'
  BY <1>0, <1>1, <1>2 DEF Due, TInv, Asked, Memory, Idle, NoAsk, NoJob
<1>9. Claims'
  BY <1>0, <1>1, <1>2 DEF Due, TInv, Claims, Settling, Memory, Idle, Job
<1>10. StateOK'
  BY <1>2, <1>6 DEF StateOK, DiskOK, Memory
<1> QED BY <1>7, <1>8, <1>9, <1>10 DEF TInv

\* RecoverList keeps the state well typed.
LEMMA RecoverListTypes ==
  ASSUME TInv, RecoverList
  PROVE  TInv'
<1>0. DiskOK /\ Memory
  BY TypesSplit DEF TInv
<1>1. \A s \in Statuses : file[s] \in Job
  BY <1>0 DEF DiskOK
<1>2. DiskOK' /\ file' = file
  BY <1>0 DEF RecoverList, DiskOK, diskVars
<1>6. Memory'
  <2>1. ask' \in [Asks -> [pc : {"idle", "finding", "marking", "writing", "unlinking", "queued", "lost"},
                        job : Job, at : Statuses \cup {"none"}]]
    BY <1>0, <1>1, <1>2 DEF RecoverList, Memory
  <2>2. worker' \in [pc : {"idle", "listed", "renamed", "claimed", "running", "settling", "moving"},
                  job : Job, to : {"none", "pending", "completed", "failed"}]
    BY <1>0, <1>1, <1>2 DEF RecoverList, Memory
  <2>3. timer' \in [pc : {"idle", "listed", "moving"}, job : Job, to : {"none"}]
    BY <1>0, <1>1, <1>2 DEF RecoverList, Memory, Idle, Statuses, Job
  <2>4. rev' \in Nat /\ done' \in 0..rev' /\ mishaps' \in 0..MaxMishaps
    BY <1>0, <1>1, <1>2, AttemptsAssumption DEF RecoverList, Memory
  <2>5. boot' \in {"states", "jobs", "unlinking", "leases", "ready"}
    BY <1>0, <1>1, <1>2 DEF RecoverList, Memory
  <2> QED BY <2>1, <2>2, <2>3, <2>4, <2>5 DEF Memory
<1>7. Revisions'
  BY <1>0, <1>1, <1>2 DEF RecoverList, TInv, Revisions, Memory, Job, Idle, NoAsk, NoJob, Statuses
<1>8. Asked'
  BY <1>0, <1>1, <1>2 DEF RecoverList, TInv, Asked, Memory, Idle, NoAsk, NoJob
<1>9. Claims'
  BY <1>0, <1>1, <1>2 DEF RecoverList, TInv, Claims, Settling, Memory, Idle, Job
<1>10. StateOK'
  BY <1>2, <1>6 DEF StateOK, DiskOK, Memory
<1> QED BY <1>7, <1>8, <1>9, <1>10 DEF TInv

\* RecoverWrite keeps the state well typed.
LEMMA RecoverWriteTypes ==
  ASSUME TInv, RecoverWrite
  PROVE  /\ TInv'
         /\ file' = [file EXCEPT !["pending"] = timer.job]
         /\ ToSet(recent') = ToSet(recent) \cup {"pending"}
<1>0. DiskOK /\ Memory
  BY TypesSplit DEF TInv
<1>1. \A s \in Statuses : file[s] \in Job
  BY <1>0 DEF DiskOK
<1>3. "pending" \in Statuses /\ timer.job \in Job
  BY <1>0 DEF RecoverWrite, TInv, Memory, Statuses, Job
<1>4. Put("pending", timer.job)
  BY DEF RecoverWrite
<1>2. /\ DiskOK' /\ file' = [file EXCEPT !["pending"] = timer.job]
      /\ ToSet(recent') = ToSet(recent) \cup {"pending"}
  BY ONLY <1>0, <1>3, <1>4, PutKeeps
<1>6. Memory'
  BY <1>0, <1>1, <1>2, <1>3 DEF RecoverWrite, TInv, Revisions, Claims, Settling, Memory, Job, Idle, NoAsk, NoJob, Statuses
<1>7. Revisions'
  BY <1>0, <1>1, <1>2, <1>3 DEF RecoverWrite, TInv, Revisions, Memory, Job, Idle, NoAsk, NoJob, Statuses
<1>8. Asked'
  BY <1>0, <1>1, <1>2, <1>3 DEF RecoverWrite, TInv, Asked, Memory, Idle, NoAsk, NoJob
<1>9. Claims'
  BY <1>0, <1>1, <1>2, <1>3 DEF RecoverWrite, TInv, Claims, Settling, Memory, Idle, Job
<1>10. StateOK'
  BY <1>2, <1>6 DEF StateOK, DiskOK, Memory
<1> QED BY <1>2, <1>7, <1>8, <1>9, <1>10 DEF TInv

\* RecoverUnlink keeps the state well typed.
LEMMA RecoverUnlinkTypes ==
  ASSUME TInv, RecoverUnlink
  PROVE  /\ TInv'
         /\ file' = [file EXCEPT !["processing"] = NoJob]
         /\ ToSet(recent') = ToSet(recent) \ {"processing"}
<1>0. DiskOK /\ Memory
  BY TypesSplit DEF TInv
<1>1. \A s \in Statuses : file[s] \in Job
  BY <1>0 DEF DiskOK
<1>4. Unlink("processing")
  BY DEF RecoverUnlink
<1>2. /\ DiskOK' /\ file' = [file EXCEPT !["processing"] = NoJob]
      /\ ToSet(recent') = ToSet(recent) \ {"processing"}
  BY ONLY <1>0, <1>4, UnlinkKeeps
<1>6. Memory'
  BY <1>0, <1>1, <1>2 DEF RecoverUnlink, TInv, Revisions, Claims, Settling, Memory, Job, Idle, NoAsk, NoJob, Statuses
<1>7. Revisions'
  BY <1>0, <1>1, <1>2 DEF RecoverUnlink, TInv, Revisions, Memory, Job, Idle, NoAsk, NoJob, Statuses
<1>8. Asked'
  BY <1>0, <1>1, <1>2 DEF RecoverUnlink, TInv, Asked, Memory, Idle, NoAsk, NoJob
<1>9. Claims'
  BY <1>0, <1>1, <1>2 DEF RecoverUnlink, TInv, Claims, Settling, Memory, Idle, Job
<1>10. StateOK'
  BY <1>2, <1>6 DEF StateOK, DiskOK, Memory
<1> QED BY <1>2, <1>7, <1>8, <1>9, <1>10 DEF TInv

\* Crash keeps the state well typed.
LEMMA CrashTypes ==
  ASSUME TInv, Crash
  PROVE  TInv'
<1>0. DiskOK /\ Memory
  BY TypesSplit DEF TInv
<1>1. \A s \in Statuses : file[s] \in Job
  BY <1>0 DEF DiskOK
<1>2. DiskOK' /\ file' = file
  BY <1>0 DEF Crash, DiskOK, diskVars
<1>6. Memory'
  <2>1. ask' \in [Asks -> [pc : {"idle", "finding", "marking", "writing", "unlinking", "queued", "lost"},
                        job : Job, at : Statuses \cup {"none"}]]
    BY <1>0, <1>1, <1>2 DEF Crash, Memory, NoAsk, Job, NoJob
  <2>2. worker' \in [pc : {"idle", "listed", "renamed", "claimed", "running", "settling", "moving"},
                  job : Job, to : {"none", "pending", "completed", "failed"}]
    BY <1>0, <1>1, <1>2 DEF Crash, Memory, Idle, Job, NoJob
  <2>3. timer' \in [pc : {"idle", "listed", "moving"}, job : Job, to : {"none"}]
    BY <1>0, <1>1, <1>2 DEF Crash, Memory, Idle, Job, NoJob
  <2>4. rev' \in Nat /\ done' \in 0..rev' /\ mishaps' \in 0..MaxMishaps
    BY <1>0, <1>1, <1>2, AttemptsAssumption DEF Crash, Memory
  <2>5. boot' \in {"states", "jobs", "unlinking", "leases", "ready"}
    BY <1>0, <1>1, <1>2 DEF Crash, Memory
  <2> QED BY <2>1, <2>2, <2>3, <2>4, <2>5 DEF Memory
<1>7. Revisions'
  BY <1>0, <1>1, <1>2 DEF Crash, TInv, Revisions, Memory, Job, Idle, NoAsk, NoJob, Statuses
<1>8. Asked'
  BY <1>0, <1>1, <1>2 DEF Crash, TInv, Asked, Memory, Idle, NoAsk, NoJob
<1>9. Claims'
  BY <1>0, <1>1, <1>2 DEF Crash, TInv, Claims, Settling, Memory, Idle, Job
<1>10. StateOK'
  BY <1>2, <1>6 DEF StateOK, DiskOK, Memory
<1> QED BY <1>7, <1>8, <1>9, <1>10 DEF TInv

\* BootStates keeps the state well typed.
LEMMA BootStatesTypes ==
  ASSUME TInv, BootStates
  PROVE  TInv'
<1>0. DiskOK /\ Memory
  BY TypesSplit DEF TInv
<1>1. \A s \in Statuses : file[s] \in Job
  BY <1>0 DEF DiskOK
<1>2. DiskOK' /\ (file' = file \/ \E s : file' = [file EXCEPT ![s] = NoJob])
  <2>1. CASE Len(recent) > 1
    BY <2>1, <1>0, UnlinkKeeps DEF BootStates
  <2>2. CASE ~(Len(recent) > 1)
    BY <2>2, <1>0 DEF BootStates, DiskOK, diskVars
  <2> QED BY <2>1, <2>2
<1>6. Memory'
  BY <1>0, <1>1, <1>2 DEF BootStates, TInv, Revisions, Claims, Settling, Memory, Job, Idle, NoAsk, NoJob, Statuses
<1>7. Revisions'
  <2>1. UNCHANGED <<rev, done, ask, timer, worker>>
    BY DEF BootStates
  <2>2. NoJob.seen = 0
    BY DEF NoJob
  <2>3. \A s \in Statuses : file'[s] \in {file[s], NoJob}
    BY <1>0, <1>2 DEF DiskOK
  <2>4. {"completed", "failed"} \subseteq Statuses
    BY DEF Statuses
  <2> QED BY <1>0, <2>1, <2>2, <2>3, <2>4 DEF TInv, Revisions, Memory
<1>8. Asked'
  BY <1>0, <1>1, <1>2 DEF BootStates, TInv, Asked, Memory, Idle, NoAsk, NoJob
<1>9. Claims'
  BY <1>0, <1>1, <1>2 DEF BootStates, TInv, Claims, Settling, Memory, Idle, Job
<1>10. StateOK'
  BY <1>2, <1>6 DEF StateOK, DiskOK, Memory
<1> QED BY <1>7, <1>8, <1>9, <1>10 DEF TInv

\* BootJobs keeps the state well typed.
LEMMA BootJobsTypes ==
  ASSUME TInv, BootJobs
  PROVE  /\ TInv'
         /\ rev > 0 /\ (Found = "none" \/ Stale(Found)) =>
              ToSet(recent') = ToSet(recent) \cup {"pending"}
<1>0. DiskOK /\ Memory
  BY TypesSplit DEF TInv
<1>1. \A s \in Statuses : file[s] \in Job
  BY <1>0 DEF DiskOK
<1>3. Found \in Statuses \cup {"none"}
  BY <1>0, FoundIs
<1>2. /\ DiskOK'
      /\ \/ file' = file
         \/ \E n \in 0..rev : file' = [file EXCEPT !["pending"] = [NoJob EXCEPT !.seen = n]]
      /\ rev > 0 /\ (Found = "none" \/ Stale(Found)) =>
           ToSet(recent') = ToSet(recent) \cup {"pending"}
  <2>1. CASE rev > 0 /\ (Found = "none" \/ Stale(Found))
    <3> DEFINE n == IF Found = "none" THEN 0 ELSE file[Found].seen
    <3>1. n \in 0..rev
      BY <1>0, <1>3 DEF TInv, Revisions, Memory
    <3>2. Put("pending", [NoJob EXCEPT !.seen = n])
      BY <2>1 DEF BootJobs
    <3> HIDE DEF n
    <3>3. [NoJob EXCEPT !.seen = n] \in Job
      BY <3>1, <1>0, NewJobs DEF Memory
    <3>4. "pending" \in Statuses
      BY DEF Statuses
    <3> QED BY <3>1, <3>2, <3>3, <3>4, <1>0, PutKeeps
  <2>2. CASE ~(rev > 0 /\ (Found = "none" \/ Stale(Found)))
    BY <2>2, <1>0 DEF BootJobs, DiskOK, diskVars
  <2> QED BY <2>1, <2>2
<1>6. Memory'
  BY <1>0, <1>1, <1>2, <1>3 DEF BootJobs, TInv, Revisions, Claims, Settling, Memory, Job, Idle, NoAsk, NoJob, Statuses
<1>7. Revisions'
  <2>1. UNCHANGED <<rev, done, ask, timer, worker>>
    BY DEF BootJobs
  <2>2. \A s \in Statuses : file'[s].seen \in 0..rev
    <3>1. CASE file' = file
      BY <3>1, <2>1 DEF TInv, Revisions
    <3>2. CASE file' # file
      <4>1. PICK n \in 0..rev : file' = [file EXCEPT !["pending"] = [NoJob EXCEPT !.seen = n]]
        BY <3>2, <1>2
      <4>2. [NoJob EXCEPT !.seen = n].seen = n
        BY <4>1, <1>0, NewJobs DEF Memory
      <4> QED BY <4>1, <4>2, <1>0 DEF TInv, Revisions, DiskOK
    <3> QED BY <3>1, <3>2
  <2>3. \A s \in {"completed", "failed"} : file'[s] = file[s]
    BY <1>0, <1>2 DEF DiskOK, Statuses
  <2> QED BY <1>0, <2>1, <2>2, <2>3 DEF TInv, Revisions, Memory
<1>8. Asked'
  BY <1>0, <1>1, <1>2, <1>3 DEF BootJobs, TInv, Asked, Memory, Idle, NoAsk, NoJob
<1>9. Claims'
  BY <1>0, <1>1, <1>2, <1>3 DEF BootJobs, TInv, Claims, Settling, Memory, Idle, Job
<1>10. StateOK'
  BY <1>2, <1>6 DEF StateOK, DiskOK, Memory
<1> QED BY <1>2, <1>7, <1>8, <1>9, <1>10 DEF TInv

\* BootUnlink keeps the state well typed.
LEMMA BootUnlinkTypes ==
  ASSUME TInv, BootUnlink
  PROVE  /\ TInv'
         /\ file' = [file EXCEPT ![(CHOOSE s \in {"completed", "failed"} : Exists(s))] = NoJob]
         /\ ToSet(recent') = ToSet(recent) \ {(CHOOSE s \in {"completed", "failed"} : Exists(s))}
<1>0. DiskOK /\ Memory
  BY TypesSplit DEF TInv
<1>1. \A s \in Statuses : file[s] \in Job
  BY <1>0 DEF DiskOK
<1>4. Unlink((CHOOSE s \in {"completed", "failed"} : Exists(s)))
  BY DEF BootUnlink
<1>2. /\ DiskOK' /\ file' = [file EXCEPT ![(CHOOSE s \in {"completed", "failed"} : Exists(s))] = NoJob]
      /\ ToSet(recent') = ToSet(recent) \ {(CHOOSE s \in {"completed", "failed"} : Exists(s))}
  BY ONLY <1>0, <1>4, UnlinkKeeps
<1>5. PICK s : file' = [file EXCEPT ![s] = NoJob]
  BY <1>2
<1>6. Memory'
  BY <1>0, <1>1, <1>2, <1>5 DEF BootUnlink, TInv, Revisions, Claims, Settling, Memory, Job, Idle, NoAsk, NoJob, Statuses
<1>7. Revisions'
  BY <1>0, <1>1, <1>2, <1>5 DEF BootUnlink, TInv, Revisions, Memory, Job, Idle, NoAsk, NoJob, Statuses
<1>8. Asked'
  BY <1>0, <1>1, <1>2, <1>5 DEF BootUnlink, TInv, Asked, Memory, Idle, NoAsk, NoJob
<1>9. Claims'
  BY <1>0, <1>1, <1>2, <1>5 DEF BootUnlink, TInv, Claims, Settling, Memory, Idle, Job
<1>10. StateOK'
  BY <1>2, <1>6 DEF StateOK, DiskOK, Memory
<1> QED BY <1>2, <1>7, <1>8, <1>9, <1>10 DEF TInv

\* BootReady keeps the state well typed.
LEMMA BootReadyTypes ==
  ASSUME TInv, BootReady
  PROVE  TInv'
<1>0. DiskOK /\ Memory
  BY TypesSplit DEF TInv
<1>1. \A s \in Statuses : file[s] \in Job
  BY <1>0 DEF DiskOK
<1>2. DiskOK' /\ file' = file
  BY <1>0 DEF BootReady, DiskOK, diskVars
<1>6. Memory'
  BY <1>0, <1>1, <1>2 DEF BootReady, TInv, Revisions, Claims, Settling, Memory, Job, Idle, NoAsk, NoJob, Statuses
<1>7. Revisions'
  BY <1>0, <1>1, <1>2 DEF BootReady, TInv, Revisions, Memory, Job, Idle, NoAsk, NoJob, Statuses
<1>8. Asked'
  BY <1>0, <1>1, <1>2 DEF BootReady, TInv, Asked, Memory, Idle, NoAsk, NoJob
<1>9. Claims'
  BY <1>0, <1>1, <1>2 DEF BootReady, TInv, Claims, Settling, Memory, Idle, Job
<1>10. StateOK'
  BY <1>2, <1>6 DEF StateOK, DiskOK, Memory
<1> QED BY <1>7, <1>8, <1>9, <1>10 DEF TInv

\* Every step keeps the state well typed, whatever overlaps.
LEMMA NextTypes == TInv /\ [Next]_vars => TInv'
<1> SUFFICES ASSUME TInv, [Next]_vars PROVE TInv'
  OBVIOUS
<1>1. CASE UNCHANGED vars
  BY <1>1 DEF vars, TInv, StateOK, DiskOK, Memory, Revisions, Asked, Claims, Settling
<1>2. ASSUME NEW a \in Asks, Record(a) \/ Asking(a) PROVE TInv'
  BY <1>2, RecordTypes, AskFindTypes, AskMarkTypes, AskWriteTypes, AskUnlinkTypes DEF Asking
<1>3. CASE Claiming
  BY <1>3, ClaimListTypes, ClaimRenameTypes, ClaimLeaseTypes, RunReadTypes DEF Claiming
<1>4. CASE Running
  BY <1>4, CompleteTypes, FailTypes DEF Running
<1>5. CASE SettleWrite \/ SettleUnlink \/ Release \/ Expire \/ Due
  BY <1>5, SettleWriteTypes, SettleUnlinkTypes, ReleaseTypes, ExpireTypes, DueTypes
<1>6. CASE Timing
  BY <1>6, RecoverListTypes, RecoverWriteTypes, RecoverUnlinkTypes DEF Timing
<1>7. CASE Crash \/ Booting
  BY <1>7, CrashTypes, BootStatesTypes, BootJobsTypes, BootUnlinkTypes, BootReadyTypes DEF Booting
<1> QED BY <1>1, <1>2, <1>3, <1>4, <1>5, <1>6, <1>7 DEF Next, Working

\* The queue's state is well typed, on disk and in memory: the order of a job's records names
\* each directory once, and nothing has taken in events that were not recorded.
THEOREM TypeCorrect == Spec => []TypeOK
<1> DEFINE I == TInv /\ overlap \in BOOLEAN
<1>1. Init => I
  BY InitTypes DEF Init
<1>2. I /\ [Next]_vars => I'
  <2> SUFFICES ASSUME I, [Next]_vars PROVE overlap' \in BOOLEAN
    BY NextTypes
  <2>1. CASE UNCHANGED vars
    BY <2>1 DEF vars
  <2>2. CASE Next
    BY <2>2 DEF Next, Record, Asking, AskFind, AskMark, AskWrite, AskUnlink, Working, Claiming,
                ClaimList, ClaimRename, ClaimLease, RunRead, Running, Complete, Fail, Settle,
                SettleWrite, SettleUnlink, Release, Timing, RecoverList, RecoverWrite,
                RecoverUnlink, Expire, Due, Crash, Booting, BootStates, BootJobs, BootUnlink,
                BootReady
  <2> QED BY <2>1, <2>2
<1>3. I => TypeOK
  BY TypesSplit DEF TInv
<1> QED BY <1>1, <1>2, <1>3, PTL DEF Spec

-----------------------------------------------------------------------------
(* No request is lost.                                                      *)

\* Record keeps the queue's invariant.
LEMMA RecordKeeps ==
  ASSUME QInv, NEW a \in Asks, Record(a), ~overlap'
  PROVE  QInv'
<1>0. TInv /\ DiskOK /\ Memory
  BY TypesSplit DEF QInv, TInv
<1>1. TInv'
  BY <1>0, RecordTypes
<1>2. UNCHANGED <<file, recent>>
  BY DEF Record, diskVars
<1>3. Leased'
  BY <1>0, <1>1, <1>2 DEF Record, QInv, TInv, Asked, Apart, Leased, Exists, Memory, DiskOK, Idle, Job, Statuses
<1>4. Apart'
  BY <1>0, <1>1, <1>2 DEF Record, QInv, TInv, Asked, Apart, Settling, Marking, Memory, Idle, NoAsk
<1>5. Pending'
  BY <1>0, <1>1, <1>2 DEF Record, QInv, TInv, Asked, Apart, Pending, Exists, Unlinking, Memory, Idle
<1>6. Carried'
  <2>1. Waiting'
    BY <1>0 DEF Record, Waiting, Memory
  <2> QED BY <2>1 DEF Carried
<1> QED BY <1>1, <1>3, <1>4, <1>5, <1>6 DEF QInv

\* AskFind keeps the queue's invariant.
LEMMA AskFindKeeps ==
  ASSUME QInv, NEW a \in Asks, AskFind(a), ~overlap'
  PROVE  QInv'
<1>0. TInv /\ DiskOK /\ Memory
  BY TypesSplit DEF QInv, TInv
<1>1. TInv'
  BY <1>0, AskFindTypes
<1>2. UNCHANGED <<file, recent>>
  BY DEF AskFind, diskVars
<1>3. Leased'
  BY <1>0, <1>1, <1>2 DEF AskFind, QInv, TInv, Asked, Apart, Leased, Exists, Memory, DiskOK, Idle, Job, Statuses
<1>4. Apart'
  BY <1>0, <1>1, <1>2 DEF AskFind, QInv, TInv, Asked, Apart, Settling, Marking, Memory, Idle, NoAsk
<1>5. Pending'
  BY <1>0, <1>1, <1>2 DEF AskFind, QInv, TInv, Asked, Apart, Pending, Exists, Unlinking, Memory, Idle
<1>6. Carried'
  <2>1. /\ \/ ask'[a].pc \in {"marking", "writing"}
           \/ Found = "pending"
           \/ Found = "processing" /\ file["processing"].lease = "none"
        /\ UNCHANGED <<rev, worker, boot, done>>
    BY <1>0 DEF AskFind, Memory, Found, Statuses
  <2>2. CASE ask'[a].pc \in {"marking", "writing"}
    <3>1. Waiting'
      BY <2>2 DEF Waiting
    <3> QED BY <3>1 DEF Carried
  <2>3. CASE Found = "pending"
    <3>1. Exists("pending")'
      BY <1>0, <1>2, <2>3, FoundIs DEF Exists
    <3> QED BY <3>1 DEF Carried
  <2>4. CASE Found = "processing" /\ file["processing"].lease = "none"
    <3>1. Exists("processing") /\ Exists("processing")'
      BY <1>0, <1>2, <2>4, FoundIs DEF Exists
    <3>2. worker.pc # "running" /\ worker.pc \notin {"settling", "moving"}
      BY <3>1, <2>4 DEF QInv, Leased
    <3> QED BY <3>1, <3>2, <2>1 DEF Carried
  <2> QED BY <2>1, <2>2, <2>3, <2>4
<1> QED BY <1>1, <1>3, <1>4, <1>5, <1>6 DEF QInv

\* AskMark keeps the queue's invariant.
LEMMA AskMarkKeeps ==
  ASSUME QInv, NEW a \in Asks, AskMark(a), ~overlap'
  PROVE  QInv'
<1>0. TInv /\ DiskOK /\ Memory
  BY TypesSplit DEF QInv, TInv
<1>1. /\ TInv'
      /\ file' = [file EXCEPT !["processing"] = [ask[a].job EXCEPT !.rerun = TRUE]]
      /\ ToSet(recent') = ToSet(recent) \cup {"processing"}
  BY <1>0, AskMarkTypes
<1>3. Leased'
  BY <1>0, <1>1 DEF AskMark, QInv, TInv, Asked, Apart, Leased, Exists, Memory, DiskOK, Idle, Job, Statuses
<1>4. Apart'
  BY <1>0, <1>1 DEF AskMark, QInv, TInv, Asked, Apart, Settling, Marking, Memory, Idle, NoAsk
<1>5. Pending'
  BY <1>0, <1>1 DEF AskMark, QInv, TInv, Asked, Apart, Pending, Exists, Unlinking, Memory, Idle
<1>6. Carried'
  <2>1. "processing" \in ToSet(recent') /\ "processing" \in Statuses
    BY <1>1 DEF Statuses
  <2>2. file'["processing"].rerun /\ file'["processing"].lease # "none"
    <3>1. ask[a].job \in Job /\ ask[a].job.lease # "none"
      BY <1>0 DEF AskMark, Memory, TInv, Asked
    <3>2. file'["processing"] = [ask[a].job EXCEPT !.rerun = TRUE]
      BY <1>0, <1>1, <2>1 DEF DiskOK
    <3> QED BY <3>1, <3>2 DEF Job
  <2>3. ~Settling /\ UNCHANGED <<worker, boot, rev, done>>
    BY DEF AskMark, QInv, Apart, Marking
  <2> QED BY <2>1, <2>2, <2>3 DEF Carried, Settling, Exists
<1> QED BY <1>1, <1>3, <1>4, <1>5, <1>6 DEF QInv

\* AskWrite keeps the queue's invariant.
LEMMA AskWriteKeeps ==
  ASSUME QInv, NEW a \in Asks, AskWrite(a), ~overlap'
  PROVE  QInv'
<1>0. TInv /\ DiskOK /\ Memory
  BY TypesSplit DEF QInv, TInv
<1>1. /\ TInv'
      /\ file' = [file EXCEPT !["pending"] = [NoJob EXCEPT !.seen = ask[a].job.seen]]
      /\ ToSet(recent') = ToSet(recent) \cup {"pending"}
  BY <1>0, AskWriteTypes
<1>3. Leased'
  BY <1>0, <1>1 DEF AskWrite, QInv, TInv, Asked, Apart, Leased, Exists, Memory, DiskOK, Idle, Job, Statuses
<1>4. Apart'
  BY <1>0, <1>1 DEF AskWrite, QInv, TInv, Asked, Apart, Settling, Marking, Memory, Idle, NoAsk
<1>5. Pending'
  BY <1>0, <1>1 DEF AskWrite, QInv, TInv, Asked, Apart, Pending, Exists, Unlinking, Memory, Idle
<1>6. Carried'
  BY <1>0, <1>1 DEF AskWrite, QInv, TInv, Revisions, Claims, Settling, Asked, Apart, Pending, Leased, Carried, Waiting, Exists, Memory, DiskOK, Idle, NoAsk, Job, Statuses
<1> QED BY <1>1, <1>3, <1>4, <1>5, <1>6 DEF QInv

\* AskUnlink keeps the queue's invariant.
LEMMA AskUnlinkKeeps ==
  ASSUME QInv, NEW a \in Asks, AskUnlink(a), ~overlap'
  PROVE  QInv'
<1>0. TInv /\ DiskOK /\ Memory
  BY TypesSplit DEF QInv, TInv
<1>1. /\ TInv'
      /\ file' = [file EXCEPT ![ask[a].at] = NoJob]
      /\ ToSet(recent') = ToSet(recent) \ {ask[a].at}
  BY <1>0, AskUnlinkTypes
<1>3. Leased'
  BY <1>0, <1>1 DEF AskUnlink, QInv, TInv, Asked, Apart, Leased, Exists, Memory, DiskOK, Idle, Job, Statuses
<1>4. Apart'
  BY <1>0, <1>1 DEF AskUnlink, QInv, TInv, Asked, Apart, Settling, Marking, Memory, Idle, NoAsk
<1>5. Pending'
  BY <1>0, <1>1 DEF AskUnlink, QInv, TInv, Asked, Apart, Pending, Exists, Unlinking, Memory, Idle
<1>6. Carried'
  <2>1. ask[a].at \in {"completed", "failed"} /\ UNCHANGED <<rev, worker, boot, done>>
    BY DEF AskUnlink, QInv, TInv, Asked
  <2>2. Waiting => Waiting'
    BY <1>0 DEF AskUnlink, Waiting, Memory
  <2>3. /\ Exists("pending") => Exists("pending")'
        /\ Exists("processing") => Exists("processing")'
        /\ file'["processing"] = file["processing"]
    BY <1>0, <1>1, <2>1 DEF Exists, DiskOK, Statuses
  <2> QED BY <2>1, <2>2, <2>3 DEF QInv, Carried
<1> QED BY <1>1, <1>3, <1>4, <1>5, <1>6 DEF QInv

\* ClaimList keeps the queue's invariant.
LEMMA ClaimListKeeps ==
  ASSUME QInv, ClaimList, ~overlap'
  PROVE  QInv'
<1>0. TInv /\ DiskOK /\ Memory
  BY TypesSplit DEF QInv, TInv
<1>1. TInv'
  BY <1>0, ClaimListTypes
<1>2. UNCHANGED <<file, recent>>
  BY DEF ClaimList, diskVars
<1>3. Leased'
  BY <1>0, <1>1, <1>2 DEF ClaimList, QInv, TInv, Asked, Apart, Leased, Exists, Memory, DiskOK, Idle, Job, Statuses
<1>4. Apart'
  BY <1>0, <1>1, <1>2 DEF ClaimList, QInv, TInv, Asked, Apart, Settling, Marking, Memory, Idle, NoAsk
<1>5. Pending'
  BY <1>0, <1>1, <1>2 DEF ClaimList, QInv, TInv, Asked, Apart, Pending, Exists, Unlinking, Memory, Idle
<1>6. Carried'
  BY <1>0, <1>1, <1>2 DEF ClaimList, QInv, TInv, Revisions, Claims, Settling, Asked, Apart, Pending, Leased, Carried, Waiting, Exists, Memory, DiskOK, Idle, NoAsk, Job, Statuses
<1> QED BY <1>1, <1>3, <1>4, <1>5, <1>6 DEF QInv

\* ClaimRename keeps the queue's invariant.
LEMMA ClaimRenameKeeps ==
  ASSUME QInv, ClaimRename, ~overlap'
  PROVE  QInv'
<1>0. TInv /\ DiskOK /\ Memory
  BY TypesSplit DEF QInv, TInv
<1>1. TInv' /\ Exists("pending")
  BY <1>0, ClaimRenameTypes DEF QInv, Pending, ClaimRename
<1>2. /\ file' = [file EXCEPT !["processing"] = file["pending"], !["pending"] = NoJob]
      /\ ToSet(recent') = (ToSet(recent) \ {"pending"}) \cup {"processing"}
  BY <1>0, <1>1, RenameKeeps
<1>3. Leased'
  BY <1>0, <1>1, <1>2 DEF ClaimRename, QInv, TInv, Asked, Apart, Leased, Exists, Memory, DiskOK, Idle, Job, Statuses
<1>4. Apart'
  BY <1>0, <1>1, <1>2 DEF ClaimRename, QInv, TInv, Asked, Apart, Settling, Marking, Memory, Idle, NoAsk
<1>5. Pending'
  BY <1>0, <1>1, <1>2 DEF ClaimRename, QInv, TInv, Asked, Apart, Pending, Exists, Unlinking, Memory, Idle
<1>6. Carried'
  <2>1. worker'.pc = "renamed"
    BY <1>0, <1>1 DEF ClaimRename, Memory
  <2> QED BY <2>1 DEF Carried
<1> QED BY <1>1, <1>3, <1>4, <1>5, <1>6 DEF QInv

\* ClaimLease keeps the queue's invariant.
LEMMA ClaimLeaseKeeps ==
  ASSUME QInv, ClaimLease, ~overlap'
  PROVE  QInv'
<1>0. TInv /\ DiskOK /\ Memory
  BY TypesSplit DEF QInv, TInv
<1>1. /\ TInv'
      /\ file' = [file EXCEPT !["processing"] = [worker.job EXCEPT !.lease = "held", !.tries = @ + 1]]
      /\ ToSet(recent') = ToSet(recent) \cup {"processing"}
  BY <1>0, ClaimLeaseTypes
<1>3. Leased'
  BY <1>0, <1>1 DEF ClaimLease, QInv, TInv, Asked, Apart, Leased, Exists, Memory, DiskOK, Idle, Job, Statuses
<1>4. Apart'
  BY <1>0, <1>1 DEF ClaimLease, QInv, TInv, Asked, Apart, Settling, Marking, Memory, Idle, NoAsk
<1>5. Pending'
  BY <1>0, <1>1 DEF ClaimLease, QInv, TInv, Asked, Apart, Pending, Exists, Unlinking, Memory, Idle
<1>6. Carried'
  BY <1>0, <1>1 DEF ClaimLease, QInv, TInv, Revisions, Claims, Settling, Asked, Apart, Pending, Leased, Carried, Waiting, Exists, Memory, DiskOK, Idle, NoAsk, Job, Statuses
<1> QED BY <1>1, <1>3, <1>4, <1>5, <1>6 DEF QInv

\* RunRead keeps the queue's invariant.
LEMMA RunReadKeeps ==
  ASSUME QInv, RunRead, ~overlap'
  PROVE  QInv'
<1>0. TInv /\ DiskOK /\ Memory
  BY TypesSplit DEF QInv, TInv
<1>1. TInv'
  BY <1>0, RunReadTypes
<1>2. UNCHANGED <<file, recent>>
  BY DEF RunRead, diskVars
<1>3. Leased'
  BY <1>0, <1>1, <1>2 DEF RunRead, QInv, TInv, Asked, Apart, Leased, Exists, Memory, DiskOK, Idle, Job, Statuses
<1>4. Apart'
  BY <1>0, <1>1, <1>2 DEF RunRead, QInv, TInv, Asked, Apart, Settling, Marking, Memory, Idle, NoAsk
<1>5. Pending'
  BY <1>0, <1>1, <1>2 DEF RunRead, QInv, TInv, Asked, Apart, Pending, Exists, Unlinking, Memory, Idle
<1>6. Carried'
  <2>1. worker'.pc = "running" /\ worker'.job.seen = rev /\ rev' = rev /\ rev \in Nat
    BY <1>0 DEF RunRead, Memory, Job
  <2> QED BY <2>1 DEF Carried
<1> QED BY <1>1, <1>3, <1>4, <1>5, <1>6 DEF QInv

\* Complete keeps the queue's invariant.
LEMMA CompleteKeeps ==
  ASSUME QInv, Complete, ~overlap'
  PROVE  QInv'
<1>0. TInv /\ DiskOK /\ Memory
  BY TypesSplit DEF QInv, TInv
<1>1. TInv'
  BY <1>0, CompleteTypes
<1>2. UNCHANGED <<file, recent>>
  BY DEF Complete, diskVars, Settle
<1>3. Leased'
  BY <1>0, <1>1, <1>2 DEF Complete, Settle, Requeued, QInv, TInv, Asked, Apart, Leased, Exists, Memory, DiskOK, Idle, Job, Statuses
<1>4. Apart'
  BY <1>0, <1>1, <1>2 DEF Complete, Settle, Requeued, QInv, TInv, Asked, Apart, Settling, Marking, Memory, Idle, NoAsk
<1>5. Pending'
  BY <1>0, <1>1, <1>2 DEF Complete, Settle, Requeued, QInv, TInv, Asked, Apart, Pending, Exists, Unlinking, Memory, Idle
<1>6. Carried'
  <2>1. UNCHANGED <<ask, rev, boot>> /\ worker'.pc = "settling"
    BY DEF Complete, Settle
  <2>2. ASSUME worker'.to # "pending", worker'.job.seen < rev PROVE Exists("pending") \/ Waiting
    <3>1. ~RerunAsked
      BY <2>2 DEF Complete, Settle
    <3>2. worker'.job.seen = worker.job.seen
      <4>1. worker.job \in Job
        BY <1>0 DEF Memory
      <4>2. worker'.job = [worker.job EXCEPT !.lease = "none"]
        BY <2>2, <3>1 DEF Complete, Settle
      <4> QED BY <4>1, <4>2 DEF Job
    <3>3. \/ Exists("pending") \/ Waiting
          \/ Exists("processing") /\ file["processing"].lease # "none" /\ file["processing"].rerun
      BY <2>2, <3>2 DEF Complete, QInv, Carried
    <3> QED BY <3>1, <3>3, <1>0, FoundIs DEF RerunAsked
  <2> QED BY <2>1, <2>2, <1>2 DEF Carried, Exists, Waiting
<1> QED BY <1>1, <1>3, <1>4, <1>5, <1>6 DEF QInv

\* Fail keeps the queue's invariant.
LEMMA FailKeeps ==
  ASSUME QInv, NEW permanent \in BOOLEAN, Fail(permanent), ~overlap'
  PROVE  QInv'
<1>0. TInv /\ DiskOK /\ Memory
  BY TypesSplit DEF QInv, TInv
<1>1. TInv'
  BY <1>0, FailTypes
<1>2. UNCHANGED <<file, recent>>
  BY DEF Fail, diskVars, Settle
<1>3. Leased'
  BY <1>0, <1>1, <1>2 DEF Fail, Settle, Requeued, QInv, TInv, Asked, Apart, Leased, Exists, Memory, DiskOK, Idle, Job, Statuses
<1>4. Apart'
  BY <1>0, <1>1, <1>2 DEF Fail, Settle, Requeued, QInv, TInv, Asked, Apart, Settling, Marking, Memory, Idle, NoAsk
<1>5. Pending'
  BY <1>0, <1>1, <1>2 DEF Fail, Settle, Requeued, QInv, TInv, Asked, Apart, Pending, Exists, Unlinking, Memory, Idle
<1>6. Carried'
  <2>1. UNCHANGED <<ask, rev, boot>> /\ worker'.pc = "settling"
    BY DEF Fail, Settle
  <2>2. ASSUME worker'.to # "pending", worker'.job.seen < rev PROVE Exists("pending") \/ Waiting
    <3>1. ~RerunAsked
      BY <2>2 DEF Fail, Settle
    <3>2. worker'.job.seen = worker.job.seen
      <4>1. worker.job \in Job
        BY <1>0 DEF Memory
      <4>2. worker'.job = [worker.job EXCEPT !.lease = "none"]
        BY <2>2, <3>1 DEF Fail, Settle
      <4> QED BY <4>1, <4>2 DEF Job
    <3>3. \/ Exists("pending") \/ Waiting
          \/ Exists("processing") /\ file["processing"].lease # "none" /\ file["processing"].rerun
      BY <2>2, <3>2 DEF Fail, QInv, Carried
    <3> QED BY <3>1, <3>3, <1>0, FoundIs DEF RerunAsked
  <2> QED BY <2>1, <2>2, <1>2 DEF Carried, Exists, Waiting
<1> QED BY <1>1, <1>3, <1>4, <1>5, <1>6 DEF QInv

\* Release keeps the queue's invariant.
LEMMA ReleaseKeeps ==
  ASSUME QInv, Release, ~overlap'
  PROVE  QInv'
<1>0. TInv /\ DiskOK /\ Memory
  BY TypesSplit DEF QInv, TInv
<1>1. TInv'
  BY <1>0, ReleaseTypes
<1>2. UNCHANGED <<file, recent>>
  BY DEF Release, diskVars, Settle
<1>3. Leased'
  BY <1>0, <1>1, <1>2 DEF Release, Settle, QInv, TInv, Asked, Apart, Leased, Exists, Memory, DiskOK, Idle, Job, Statuses
<1>4. Apart'
  BY <1>0, <1>1, <1>2 DEF Release, Settle, QInv, TInv, Asked, Apart, Settling, Marking, Memory, Idle, NoAsk
<1>5. Pending'
  BY <1>0, <1>1, <1>2 DEF Release, Settle, QInv, TInv, Asked, Apart, Pending, Exists, Unlinking, Memory, Idle
<1>6. Carried'
  BY <1>0, <1>1, <1>2 DEF Release, Settle, QInv, TInv, Revisions, Claims, Settling, Asked, Apart, Pending, Leased, Carried, Waiting, Exists, Memory, DiskOK, Idle, NoAsk, Job, Statuses
<1> QED BY <1>1, <1>3, <1>4, <1>5, <1>6 DEF QInv

\* SettleWrite keeps the queue's invariant.
LEMMA SettleWriteKeeps ==
  ASSUME QInv, SettleWrite, ~overlap'
  PROVE  QInv'
<1>0. TInv /\ DiskOK /\ Memory
  BY TypesSplit DEF QInv, TInv
<1>1. /\ TInv'
      /\ file' = [file EXCEPT ![worker.to] = worker.job]
      /\ ToSet(recent') = ToSet(recent) \cup {worker.to}
  BY <1>0, SettleWriteTypes
<1>3. Leased'
  BY <1>0, <1>1 DEF SettleWrite, QInv, TInv, Asked, Apart, Leased, Exists, Memory, DiskOK, Idle, Job, Statuses
<1>4. Apart'
  BY <1>0, <1>1 DEF SettleWrite, QInv, TInv, Asked, Apart, Settling, Marking, Memory, Idle, NoAsk
<1>5. Pending'
  BY <1>0, <1>1 DEF SettleWrite, QInv, TInv, Asked, Apart, Pending, Exists, Unlinking, Memory, Idle
<1>6. Carried'
  <2>1. /\ worker.pc = "settling" /\ worker'.pc = "moving" /\ UNCHANGED <<rev, ask>>
        /\ worker.to \in {"pending", "completed", "failed"}
    BY <1>0 DEF SettleWrite, Memory, QInv, TInv, Claims, Settling
  <2>2. CASE worker.to = "pending"
    <3>1. Exists("pending")'
      BY <1>1, <2>2 DEF Exists
    <3> QED BY <2>1, <3>1 DEF Carried
  <2>3. CASE worker.to \in {"completed", "failed"}
    <3>1. done' >= worker.job.seen /\ done' \in Nat /\ worker.job.seen \in Nat /\ rev \in Nat
      BY <1>0, <2>3 DEF SettleWrite, Memory, Job
    <3>2. worker.job.seen < rev => Exists("pending")' \/ Waiting'
      BY <1>1, <2>1, <2>3 DEF QInv, Carried, Exists, Waiting
    <3>3. done' < rev => Exists("pending")' \/ Waiting'
      BY <3>1, <3>2
    <3> QED BY <2>1, <3>3 DEF Carried
  <2> QED BY <2>1, <2>2, <2>3
<1> QED BY <1>1, <1>3, <1>4, <1>5, <1>6 DEF QInv

\* SettleUnlink keeps the queue's invariant.
LEMMA SettleUnlinkKeeps ==
  ASSUME QInv, SettleUnlink, ~overlap'
  PROVE  QInv'
<1>0. TInv /\ DiskOK /\ Memory
  BY TypesSplit DEF QInv, TInv
<1>1. /\ TInv'
      /\ file' = [file EXCEPT !["processing"] = NoJob]
      /\ ToSet(recent') = ToSet(recent) \ {"processing"}
  BY <1>0, SettleUnlinkTypes
<1>3. Leased'
  BY <1>0, <1>1 DEF SettleUnlink, QInv, TInv, Asked, Apart, Leased, Exists, Memory, DiskOK, Idle, Job, Statuses
<1>4. Apart'
  BY <1>0, <1>1 DEF SettleUnlink, QInv, TInv, Asked, Apart, Settling, Marking, Memory, Idle, NoAsk
<1>5. Pending'
  BY <1>0, <1>1 DEF SettleUnlink, QInv, TInv, Asked, Apart, Pending, Exists, Unlinking, Memory, Idle
<1>6. Carried'
  BY <1>0, <1>1 DEF SettleUnlink, QInv, TInv, Revisions, Claims, Settling, Asked, Apart, Pending, Leased, Carried, Waiting, Exists, Memory, DiskOK, Idle, NoAsk, Job, Statuses
<1> QED BY <1>1, <1>3, <1>4, <1>5, <1>6 DEF QInv

\* Expire keeps the queue's invariant.
LEMMA ExpireKeeps ==
  ASSUME QInv, Expire, ~overlap'
  PROVE  QInv'
<1>0. TInv /\ DiskOK /\ Memory
  BY TypesSplit DEF QInv, TInv
<1>1. TInv'
  BY <1>0, ExpireTypes
<1>2. recent' = recent /\ file' = [file EXCEPT !["processing"].lease = "expired"]
  BY DEF Expire
<1>3. Leased'
  BY <1>0, <1>1, <1>2 DEF Expire, QInv, TInv, Asked, Apart, Leased, Exists, Memory, DiskOK, Idle, Job, Statuses
<1>4. Apart'
  BY <1>0, <1>1, <1>2 DEF Expire, QInv, TInv, Asked, Apart, Settling, Marking, Memory, Idle, NoAsk
<1>5. Pending'
  BY <1>0, <1>1, <1>2 DEF Expire, QInv, TInv, Asked, Apart, Pending, Exists, Unlinking, Memory, Idle
<1>6. Carried'
  BY <1>0, <1>1, <1>2 DEF Expire, QInv, TInv, Revisions, Claims, Settling, Asked, Apart, Pending, Leased, Carried, Waiting, Exists, Memory, DiskOK, Idle, NoAsk, Job, Statuses
<1> QED BY <1>1, <1>3, <1>4, <1>5, <1>6 DEF QInv

\* Due keeps the queue's invariant.
LEMMA DueKeeps ==
  ASSUME QInv, Due, ~overlap'
  PROVE  QInv'
<1>0. TInv /\ DiskOK /\ Memory
  BY TypesSplit DEF QInv, TInv
<1>1. TInv'
  BY <1>0, DueTypes
<1>2. recent' = recent /\ file' = [file EXCEPT !["pending"].due = TRUE]
  BY DEF Due
<1>3. Leased'
  BY <1>0, <1>1, <1>2 DEF Due, QInv, TInv, Asked, Apart, Leased, Exists, Memory, DiskOK, Idle, Job, Statuses
<1>4. Apart'
  BY <1>0, <1>1, <1>2 DEF Due, QInv, TInv, Asked, Apart, Settling, Marking, Memory, Idle, NoAsk
<1>5. Pending'
  BY <1>0, <1>1, <1>2 DEF Due, QInv, TInv, Asked, Apart, Pending, Exists, Unlinking, Memory, Idle
<1>6. Carried'
  BY <1>0, <1>1, <1>2 DEF Due, QInv, TInv, Revisions, Claims, Settling, Asked, Apart, Pending, Leased, Carried, Waiting, Exists, Memory, DiskOK, Idle, NoAsk, Job, Statuses
<1> QED BY <1>1, <1>3, <1>4, <1>5, <1>6 DEF QInv

\* RecoverList keeps the queue's invariant.
LEMMA RecoverListKeeps ==
  ASSUME QInv, RecoverList, ~overlap'
  PROVE  QInv'
<1>0. TInv /\ DiskOK /\ Memory
  BY TypesSplit DEF QInv, TInv
<1>1. TInv'
  BY <1>0, RecoverListTypes
<1>2. UNCHANGED <<file, recent>>
  BY DEF RecoverList, diskVars
<1>3. Leased'
  BY <1>0, <1>1, <1>2 DEF RecoverList, QInv, TInv, Asked, Apart, Leased, Exists, Memory, DiskOK, Idle, Job, Statuses
<1>4. Apart'
  BY <1>0, <1>1, <1>2 DEF RecoverList, QInv, TInv, Asked, Apart, Settling, Marking, Memory, Idle, NoAsk
<1>5. Pending'
  BY <1>0, <1>1, <1>2 DEF RecoverList, QInv, TInv, Asked, Apart, Pending, Exists, Unlinking, Memory, Idle
<1>6. Carried'
  BY <1>0, <1>1, <1>2 DEF RecoverList, QInv, TInv, Revisions, Claims, Settling, Asked, Apart, Pending, Leased, Carried, Waiting, Exists, Memory, DiskOK, Idle, NoAsk, Job, Statuses
<1> QED BY <1>1, <1>3, <1>4, <1>5, <1>6 DEF QInv

\* RecoverWrite keeps the queue's invariant.
LEMMA RecoverWriteKeeps ==
  ASSUME QInv, RecoverWrite, ~overlap'
  PROVE  QInv'
<1>0. TInv /\ DiskOK /\ Memory
  BY TypesSplit DEF QInv, TInv
<1>1. /\ TInv'
      /\ file' = [file EXCEPT !["pending"] = timer.job]
      /\ ToSet(recent') = ToSet(recent) \cup {"pending"}
  BY <1>0, RecoverWriteTypes
<1>3. Leased'
  BY <1>0, <1>1 DEF RecoverWrite, QInv, TInv, Asked, Apart, Leased, Exists, Memory, DiskOK, Idle, Job, Statuses
<1>4. Apart'
  BY <1>0, <1>1 DEF RecoverWrite, QInv, TInv, Asked, Apart, Settling, Marking, Memory, Idle, NoAsk
<1>5. Pending'
  BY <1>0, <1>1 DEF RecoverWrite, QInv, TInv, Asked, Apart, Pending, Exists, Unlinking, Memory, Idle
<1>6. Carried'
  BY <1>0, <1>1 DEF RecoverWrite, QInv, TInv, Revisions, Claims, Settling, Asked, Apart, Pending, Leased, Carried, Waiting, Exists, Memory, DiskOK, Idle, NoAsk, Job, Statuses
<1> QED BY <1>1, <1>3, <1>4, <1>5, <1>6 DEF QInv

\* RecoverUnlink keeps the queue's invariant.
LEMMA RecoverUnlinkKeeps ==
  ASSUME QInv, RecoverUnlink, ~overlap'
  PROVE  QInv'
<1>0. TInv /\ DiskOK /\ Memory
  BY TypesSplit DEF QInv, TInv
<1>1. /\ TInv'
      /\ file' = [file EXCEPT !["processing"] = NoJob]
      /\ ToSet(recent') = ToSet(recent) \ {"processing"}
  BY <1>0, RecoverUnlinkTypes
<1>3. Leased'
  BY <1>0, <1>1 DEF RecoverUnlink, QInv, TInv, Asked, Apart, Leased, Exists, Memory, DiskOK, Idle, Job, Statuses
<1>4. Apart'
  BY <1>0, <1>1 DEF RecoverUnlink, QInv, TInv, Asked, Apart, Settling, Marking, Memory, Idle, NoAsk
<1>5. Pending'
  BY <1>0, <1>1 DEF RecoverUnlink, QInv, TInv, Asked, Apart, Pending, Exists, Unlinking, Memory, Idle
<1>6. Carried'
  BY <1>0, <1>1 DEF RecoverUnlink, QInv, TInv, Revisions, Claims, Settling, Asked, Apart, Pending, Leased, Carried, Waiting, Exists, Memory, DiskOK, Idle, NoAsk, Job, Statuses
<1> QED BY <1>1, <1>3, <1>4, <1>5, <1>6 DEF QInv

\* Crash keeps the queue's invariant.
LEMMA CrashKeeps ==
  ASSUME TInv, Crash
  PROVE  QInv'
<1>0. TInv /\ DiskOK /\ Memory
  BY TypesSplit DEF QInv, TInv
<1>1. TInv'
  BY <1>0, CrashTypes
<1>2. UNCHANGED <<file, recent>>
  BY DEF Crash, diskVars
<1>3. Leased'
  BY <1>0, <1>1, <1>2 DEF Crash, QInv, TInv, Asked, Apart, Leased, Exists, Memory, DiskOK, Idle, Job, Statuses
<1>4. Apart'
  BY <1>0, <1>1, <1>2 DEF Crash, QInv, TInv, Asked, Apart, Settling, Marking, Memory, Idle, NoAsk
<1>5. Pending'
  BY <1>0, <1>1, <1>2 DEF Crash, QInv, TInv, Asked, Apart, Pending, Exists, Unlinking, Memory, Idle
<1>6. Carried'
  BY <1>0, <1>1, <1>2 DEF Crash, QInv, TInv, Revisions, Claims, Settling, Asked, Apart, Pending, Leased, Carried, Waiting, Exists, Memory, DiskOK, Idle, NoAsk, Job, Statuses
<1> QED BY <1>1, <1>3, <1>4, <1>5, <1>6 DEF QInv

\* BootStates keeps the queue's invariant.
LEMMA BootStatesKeeps ==
  ASSUME QInv, BootStates, ~overlap'
  PROVE  QInv'
<1>0. TInv /\ DiskOK /\ Memory
  BY TypesSplit DEF QInv, TInv
<1>1. TInv'
  BY <1>0, BootStatesTypes
<1>3. Leased'
  BY <1>0, <1>1 DEF BootStates, QInv, TInv, Asked, Apart, Leased, Exists, Memory, DiskOK, Idle, Job, Statuses
<1>4. Apart'
  BY <1>0, <1>1 DEF BootStates, QInv, TInv, Asked, Apart, Settling, Marking, Memory, Idle, NoAsk
<1>5. Pending'
  BY <1>0, <1>1 DEF BootStates, QInv, TInv, Asked, Apart, Pending, Exists, Unlinking, Memory, Idle
<1>6. Carried'
  BY <1>0, <1>1 DEF BootStates, QInv, TInv, Revisions, Claims, Settling, Asked, Apart, Pending, Leased, Carried, Waiting, Exists, Memory, DiskOK, Idle, NoAsk, Job, Statuses
<1> QED BY <1>1, <1>3, <1>4, <1>5, <1>6 DEF QInv

\* BootJobs keeps the queue's invariant.
LEMMA BootJobsKeeps ==
  ASSUME QInv, BootJobs, ~overlap'
  PROVE  QInv'
<1>0. TInv /\ DiskOK /\ Memory
  BY TypesSplit DEF QInv, TInv
<1>1. /\ TInv'
      /\ rev > 0 /\ (Found = "none" \/ Stale(Found)) =>
           ToSet(recent') = ToSet(recent) \cup {"pending"}
  BY <1>0, BootJobsTypes
<1>2. /\ Found \in Statuses \cup {"none"}
      /\ Found # "none" => Exists(Found)
  BY <1>0, FoundIs
<1>3. Leased'
  BY <1>0, <1>1, <1>2 DEF BootJobs, QInv, TInv, Asked, Apart, Leased, Exists, Memory, DiskOK, Idle, Job, Statuses
<1>4. Apart'
  BY <1>0, <1>1, <1>2 DEF BootJobs, QInv, TInv, Asked, Apart, Settling, Marking, Memory, Idle, NoAsk
<1>5. Pending'
  <2>1. worker.pc = "idle" /\ timer.pc = "idle" /\ UNCHANGED <<worker, timer>>
    BY <1>0 DEF BootJobs, QInv, Apart, Memory
  <2>2. ASSUME boot' = "unlinking"
        PROVE  /\ "pending" \in ToSet(recent')
               /\ "completed" \in ToSet(recent') \/ "failed" \in ToSet(recent')
    <3>1. rev > 0 /\ Stale(Found) /\ Found # "none"
      BY <2>2 DEF BootJobs
    <3>2. Found \in {"completed", "failed"} /\ Found \in ToSet(recent)
      BY <3>1, <1>2 DEF Stale, Exists
    <3> QED BY <3>1, <3>2, <1>1
  <2> QED BY <2>1, <2>2 DEF Pending, Exists
<1>6. Carried'
  <2>1. worker.pc = "idle" /\ UNCHANGED <<worker, rev, done>>
    BY <1>0 DEF BootJobs, QInv, Apart
  <2>2. CASE rev > 0 /\ (Found = "none" \/ Stale(Found))
    BY <2>2, <2>1, <1>1 DEF Carried, Exists
  <2>3. CASE ~(rev > 0 /\ (Found = "none" \/ Stale(Found)))
    <3>1. recent' = recent
      BY <2>3 DEF BootJobs, diskVars
    <3>2. ASSUME done < rev PROVE Exists("pending") \/ Exists("processing")
      <4>1. rev > 0 /\ Found # "none" /\ ~Stale(Found)
        BY <3>2, <2>3, <1>0 DEF Memory
      <4>2. ASSUME Found \in {"completed", "failed"} PROVE FALSE
        BY <4>1, <4>2, <3>2, <1>0 DEF Stale, TInv, Revisions, Memory
      <4> QED BY <4>1, <4>2, <1>2 DEF Statuses
    <3> QED BY <3>1, <3>2, <2>1 DEF Carried, Exists
  <2> QED BY <2>2, <2>3
<1> QED BY <1>1, <1>3, <1>4, <1>5, <1>6 DEF QInv

\* BootUnlink keeps the queue's invariant.
LEMMA BootUnlinkKeeps ==
  ASSUME QInv, BootUnlink, ~overlap'
  PROVE  QInv'
<1>0. TInv /\ DiskOK /\ Memory
  BY TypesSplit DEF QInv, TInv
<1>1. /\ TInv'
      /\ file' = [file EXCEPT ![(CHOOSE s \in {"completed", "failed"} : Exists(s))] = NoJob]
      /\ ToSet(recent') = ToSet(recent) \ {(CHOOSE s \in {"completed", "failed"} : Exists(s))}
  BY <1>0, BootUnlinkTypes
<1>3. Leased'
  BY <1>0, <1>1 DEF BootUnlink, QInv, TInv, Asked, Apart, Leased, Exists, Memory, DiskOK, Idle, Job, Statuses
<1>4. Apart'
  BY <1>0, <1>1 DEF BootUnlink, QInv, TInv, Asked, Apart, Settling, Marking, Memory, Idle, NoAsk
<1>5. Pending'
  BY <1>0, <1>1 DEF BootUnlink, QInv, TInv, Asked, Apart, Pending, Exists, Unlinking, Memory, Idle
<1>6. Carried'
  BY <1>0, <1>1 DEF BootUnlink, QInv, TInv, Revisions, Claims, Settling, Asked, Apart, Pending, Leased, Carried, Waiting, Exists, Memory, DiskOK, Idle, NoAsk, Job, Statuses
<1> QED BY <1>1, <1>3, <1>4, <1>5, <1>6 DEF QInv

\* BootReady keeps the queue's invariant.
LEMMA BootReadyKeeps ==
  ASSUME QInv, BootReady, ~overlap'
  PROVE  QInv'
<1>0. TInv /\ DiskOK /\ Memory
  BY TypesSplit DEF QInv, TInv
<1>1. TInv'
  BY <1>0, BootReadyTypes
<1>2. UNCHANGED <<file, recent>>
  BY DEF BootReady, diskVars
<1>3. Leased'
  BY <1>0, <1>1, <1>2 DEF BootReady, QInv, TInv, Asked, Apart, Leased, Exists, Memory, DiskOK, Idle, Job, Statuses
<1>4. Apart'
  BY <1>0, <1>1, <1>2 DEF BootReady, QInv, TInv, Asked, Apart, Settling, Marking, Memory, Idle, NoAsk
<1>5. Pending'
  BY <1>0, <1>1, <1>2 DEF BootReady, QInv, TInv, Asked, Apart, Pending, Exists, Unlinking, Memory, Idle
<1>6. Carried'
  BY <1>0, <1>1, <1>2 DEF BootReady, QInv, TInv, Revisions, Claims, Settling, Asked, Apart, Pending, Leased, Carried, Waiting, Exists, Memory, DiskOK, Idle, NoAsk, Job, Statuses
<1> QED BY <1>1, <1>3, <1>4, <1>5, <1>6 DEF QInv

\* Every step that leaves no overlap behind keeps the queue's invariant, and a crash
\* brings it back.
LEMMA NextKeeps ==
  ASSUME IInv, [Next]_vars, ~overlap'
  PROVE  QInv'
<1>1. CASE UNCHANGED vars
  BY <1>1, NextTypes
     DEF vars, diskVars, IInv, QInv, Leased, Apart, Pending, Carried, Settling, Marking, Waiting,
         Exists
<1>2. CASE Crash
  BY <1>2, CrashKeeps DEF IInv
<1>3. CASE Next /\ ~Crash
  <2>1. overlap => overlap'
    BY <1>3 DEF Next, Record, Asking, AskFind, AskMark, AskWrite, AskUnlink, Working, Claiming,
                ClaimList, ClaimRename, ClaimLease, RunRead, Running, Complete, Fail, Settle,
                SettleWrite, SettleUnlink, Release, Timing, RecoverList, RecoverWrite,
                RecoverUnlink, Expire, Due, Booting, BootStates, BootJobs, BootUnlink, BootReady
  <2>2. QInv
    BY <2>1 DEF IInv
  <2>3. ASSUME NEW a \in Asks, Record(a) \/ Asking(a) PROVE QInv'
    BY <2>2, <2>3, RecordKeeps, AskFindKeeps, AskMarkKeeps, AskWriteKeeps, AskUnlinkKeeps DEF Asking
  <2>4. CASE Claiming
    BY <2>2, <2>4, ClaimListKeeps, ClaimRenameKeeps, ClaimLeaseKeeps, RunReadKeeps DEF Claiming
  <2>5. CASE Running
    BY <2>2, <2>5, CompleteKeeps, FailKeeps DEF Running
  <2>6. CASE SettleWrite \/ SettleUnlink \/ Release \/ Expire \/ Due
    BY <2>2, <2>6, SettleWriteKeeps, SettleUnlinkKeeps, ReleaseKeeps, ExpireKeeps, DueKeeps
  <2>7. CASE Timing
    BY <2>2, <2>7, RecoverListKeeps, RecoverWriteKeeps, RecoverUnlinkKeeps DEF Timing
  <2>8. CASE Booting
    BY <2>2, <2>8, BootStatesKeeps, BootJobsKeeps, BootUnlinkKeeps, BootReadyKeeps DEF Booting
  <2> QED BY <1>3, <2>3, <2>4, <2>5, <2>6, <2>7, <2>8 DEF Next, Working
<1> QED BY <1>1, <1>2, <1>3

\* A request that was recorded is not lost with the end of a run, for any number of requests,
\* attempts, crashes, pauses and recoveries that overlap a run, but for a mark that meets
\* complete(), fail() or release() at work or a recovery that is about to unlink; and what
\* these lost the next start makes good.
THEOREM RequestsAreKept == Spec => []NoLostRequest
<1>1. Init => IInv
  <2>1. Init => TInv
    BY InitTypes
  <2> QED BY <2>1 DEF Init, IInv, QInv, Leased, Apart, Pending, Carried, Settling, Marking, Idle, NoAsk
<1>2. IInv /\ [Next]_vars => IInv'
  BY NextTypes, NextKeeps DEF IInv
<1>3. IInv => NoLostRequest
  BY DEF IInv, QInv, Carried, NoLostRequest, Waiting
<1> QED BY <1>1, <1>2, <1>3, PTL DEF Spec
=============================================================================
