-------------------------- MODULE SummaryJobsProofs --------------------------
(***************************************************************************)
(* Proofs about SummaryJobs, for any number of summaries and workers and   *)
(* any chunk settings that chunk_text accepts.                             *)
(*                                                                         *)
(* chunk_text is a recursive function: that it is well defined and that    *)
(* its windows cover the text follows from the least number principle,     *)
(* applied to the set of the lengths of text for which it would fail.      *)
(***************************************************************************)
EXTENDS SummaryJobs, WellFoundedInduction, SequenceTheorems, TLAPS

LEMMA LeastNumber ==
  ASSUME NEW S \in SUBSET Nat, S # {}
  PROVE  \E m \in S : \A k \in S : m <= k
<1> DEFINE R == OpToRel(<, Nat)
<1>1. IsWellFoundedOn(R, Nat)
  BY NatLessThanWellFounded
<1> HIDE DEF R
<1>2. PICK m \in S : \A k \in S : <<k, m>> \notin R
  BY <1>1, WFMin
<1>3. \A k, n \in Nat : <<k, n>> \in R <=> k < n
  BY DEF R, OpToRel
<1>4. \A k \in S : k \in Nat /\ m \in Nat
  OBVIOUS
<1>5. \A k \in S : ~(k < m)
  BY <1>2, <1>3, <1>4, Zenon
<1>6. \A k \in S : m <= k
  BY <1>4, <1>5
<1> QED
  BY <1>6

-----------------------------------------------------------------------------
(* The chunks of a text.                                                   *)

End(start, length) == IF start + ChunkSize <= length THEN start + ChunkSize ELSE length

After(start, length) == IF End(start, length) < length
                        THEN End(start, length) - Overlap ELSE length

(* What chunk_text appends from start on, the rest being known.            *)
Step(rest, start, length) ==
  IF start = length THEN << >>
  ELSE <<<<start, End(start, length)>>>> \o rest[After(start, length)]

LEMMA MinOfTwo ==
  ASSUME NEW a \in Nat, NEW b \in Nat
  PROVE  Min({a, b}) = IF a <= b THEN a ELSE b
BY DEF Min

LEMMA AfterIsLater ==
  ASSUME NEW length \in Nat, NEW start \in 0..(length - 1)
  PROVE  /\ End(start, length) \in (start + 1)..length
         /\ End(start, length) - start <= ChunkSize
         /\ After(start, length) \in (start + 1)..length
         /\ End(start, length) < length =>
              /\ After(start, length) + Overlap = End(start, length)
              /\ After(start, length) < length
         /\ End(start, length) = length => After(start, length) = length
BY SummaryAssumption DEF End, After

LEMMA ChunksStep ==
  ASSUME NEW length \in Nat
  PROVE  Chunks(length) = (CHOOSE from : from = [start \in 0..length |-> Step(from, start, length)])[0]
<1>1. \A start \in 0..length : Min({start + ChunkSize, length}) = End(start, length)
  BY MinOfTwo, SummaryAssumption DEF End
<1>2. \A from : [start \in 0..length |->
        IF start = length THEN << >>
        ELSE LET end == Min({start + ChunkSize, length}) IN
             <<<<start, end>>>> \o from[IF end < length THEN end - Overlap ELSE length]]
      = [start \in 0..length |-> Step(from, start, length)]
  BY <1>1 DEF Step, After
<1> QED
  BY <1>2 DEF Chunks

(* The recursion of chunk_text ends: some function has its equation.       *)
LEMMA ChunksDefined ==
  ASSUME NEW length \in Nat
  PROVE  \E from : from = [start \in 0..length |-> Step(from, start, length)]
<1> DEFINE Solves(g, k) == \A start \in (length - k)..length : g[start] = Step(g, start, length)
           Bad == {k \in 0..length : ~\E g : Solves(g, k)}
<1>1. Bad = {}
  <2> SUFFICES ASSUME Bad # {} PROVE FALSE
    OBVIOUS
  <2>1. Bad \in SUBSET Nat
    OBVIOUS
  <2>2. PICK k \in Bad : \A j \in Bad : k <= j
    BY <2>1, LeastNumber
  <2>3. k \in 0..length /\ ~\E g : Solves(g, k)
    OBVIOUS
  <2>4. CASE k = 0
    <3> DEFINE g == [start \in 0..length |-> << >>]
    <3>1. Solves(g, 0)
      BY DEF Step
    <3> QED
      BY <2>3, <2>4, <3>1
  <2>5. CASE k # 0
    <3>1. k - 1 \in 0..length /\ k - 1 \notin Bad
      BY <2>2, <2>3, <2>5
    <3>2. PICK g : Solves(g, k - 1)
      BY <3>1
    <3> DEFINE first == length - k
               h == [start \in 0..length |->
                       IF start = first THEN Step(g, start, length) ELSE g[start]]
    <3>3. first \in 0..(length - 1)
      BY <2>3, <2>5
    <3>4. \A start \in first..length : Step(h, start, length) = Step(g, start, length)
      <4> SUFFICES ASSUME NEW start \in first..length
                   PROVE  Step(h, start, length) = Step(g, start, length)
        OBVIOUS
      <4>1. CASE start = length
        BY <4>1 DEF Step
      <4>2. CASE start # length
        <5>1. start \in 0..(length - 1)
          BY <3>3, <4>2
        <5>2. After(start, length) \in (start + 1)..length
          BY <5>1, AfterIsLater
        <5>3. h[After(start, length)] = g[After(start, length)]
          BY <3>3, <5>2
        <5> HIDE DEF h
        <5> QED
          BY <5>3 DEF Step
      <4> QED
        BY <4>1, <4>2
    <3>5. Solves(h, k)
      <4> SUFFICES ASSUME NEW start \in first..length
                   PROVE  h[start] = Step(h, start, length)
        OBVIOUS
      <4>1. CASE start = first
        BY <3>3, <3>4, <4>1
      <4>2. CASE start # first
        <5>1. start \in (length - (k - 1))..length
          BY <2>3, <4>2
        <5>2. g[start] = Step(g, start, length)
          BY <3>2, <5>1
        <5>3. start \in 0..length
          BY <3>3
        <5>4. h[start] = g[start]
          BY <4>2, <5>3
        <5>5. Step(h, start, length) = Step(g, start, length)
          BY <3>4
        <5> HIDE DEF h
        <5> QED
          BY <5>2, <5>4, <5>5
      <4> QED
        BY <4>1, <4>2
    <3> QED
      BY <2>3, <3>5
  <2> QED
    BY <2>4, <2>5
<1>2. length \in 0..length /\ length \notin Bad
  BY <1>1
<1>3. PICK g : Solves(g, length)
  BY <1>2
<1> DEFINE f == [start \in 0..length |-> g[start]]
<1>4. \A start \in 0..length : f[start] = Step(f, start, length)
  <2> SUFFICES ASSUME NEW start \in 0..length
               PROVE  f[start] = Step(f, start, length)
    OBVIOUS
  <2>1. g[start] = Step(g, start, length)
    BY <1>3
  <2>2. CASE start = length
    BY <2>1, <2>2 DEF Step
  <2>3. CASE start # length
    <3>1. start \in 0..(length - 1)
      BY <2>3
    <3>2. After(start, length) \in 0..length
      BY <3>1, AfterIsLater
    <3> QED
      BY <2>1, <3>2 DEF Step
  <2> QED
    BY <2>2, <2>3
<1>5. f = [start \in 0..length |-> Step(f, start, length)]
  BY <1>4
<1> QED
  BY <1>5

(* What the property below says of the chunks from start on.               *)
Covers(parts, start, length) ==
  /\ parts \in Seq((0..length) \X (0..length))
  /\ Len(parts) \in 1..(length - start)
  /\ parts[1][1] = start /\ parts[Len(parts)][2] = length
  /\ \A i \in 1..Len(parts) : parts[i][2] - parts[i][1] \in 1..ChunkSize
  /\ \A i \in 1..(Len(parts) - 1) :
       /\ parts[i][1] < parts[i + 1][1]
       /\ parts[i + 1][1] + Overlap = parts[i][2]

LEMMA LastChunkCovers ==
  ASSUME NEW length \in Nat, NEW start \in 0..(length - 1),
         End(start, length) = length
  PROVE  Covers(<<<<start, length>>>>, start, length)
<1>1. length - start \in 1..ChunkSize
  BY AfterIsLater, SummaryAssumption
<1> DEFINE w == <<start, length>>
<1>2. w \in (0..length) \X (0..length) /\ w[1] = start /\ w[2] = length
  OBVIOUS
<1>3. <<w>> \in Seq((0..length) \X (0..length)) /\ Len(<<w>>) = 1 /\ <<w>>[1] = w
  BY <1>2
<1> HIDE DEF w
<1>4. Covers(<<w>>, start, length)
  BY <1>1, <1>2, <1>3 DEF Covers
<1> QED
  BY <1>4 DEF w

LEMMA ChunkBeforeCovers ==
  ASSUME NEW length \in Nat, NEW start \in 0..(length - 1),
         End(start, length) < length,
         NEW parts, Covers(parts, After(start, length), length)
  PROVE  Covers(<<<<start, End(start, length)>>>> \o parts, start, length)
<1> DEFINE w == <<start, End(start, length)>>
           S == (0..length) \X (0..length)
           all == <<w>> \o parts
           n == Len(parts)
<1>1. /\ End(start, length) \in (start + 1)..length
      /\ End(start, length) - start <= ChunkSize
      /\ After(start, length) \in (start + 1)..length
      /\ After(start, length) + Overlap = End(start, length)
  BY AfterIsLater
<1>2. w \in S /\ w[1] = start /\ w[2] = End(start, length)
  BY <1>1
<1>3. <<w>> \in Seq(S) /\ Len(<<w>>) = 1 /\ <<w>>[1] = w
  BY <1>2
<1>4. /\ parts \in Seq(S) /\ n \in 1..(length - After(start, length))
      /\ parts[1][1] = After(start, length) /\ parts[n][2] = length
      /\ \A i \in 1..n : parts[i][2] - parts[i][1] \in 1..ChunkSize
      /\ \A i \in 1..(n - 1) : /\ parts[i][1] < parts[i + 1][1]
                               /\ parts[i + 1][1] + Overlap = parts[i][2]
  BY DEF Covers
<1> HIDE DEF w, S
<1>5. /\ all \in Seq(S) /\ Len(all) = n + 1
      /\ \A i \in 1..(n + 1) : all[i] = IF i <= 1 THEN <<w>>[i] ELSE parts[i - 1]
  BY <1>3, <1>4, ConcatProperties
<1>6. all[1] = w /\ \A i \in 1..n : all[i + 1] = parts[i]
  BY <1>3, <1>4, <1>5
<1>7. w[2] - w[1] \in 1..ChunkSize
  BY <1>1, <1>2, SummaryAssumption
<1>8. \A i \in 2..(n + 1) : i - 1 \in 1..n /\ all[i] = parts[i - 1]
  BY <1>4, <1>6
<1> HIDE DEF all, n
<1>9. Len(all) \in 1..(length - start) /\ all[1][1] = start /\ all[Len(all)][2] = length
  BY <1>1, <1>2, <1>4, <1>5, <1>6
<1>10. \A i \in 1..Len(all) : all[i][2] - all[i][1] \in 1..ChunkSize
  <2> SUFFICES ASSUME NEW i \in 1..(n + 1)
               PROVE  all[i][2] - all[i][1] \in 1..ChunkSize
    BY <1>5
  <2>1. CASE i = 1
    BY <1>6, <1>7, <2>1
  <2>2. CASE i # 1
    <3>1. i - 1 \in 1..n /\ all[i] = parts[i - 1]
      BY <1>4, <1>8, <2>2
    <3> QED
      BY <1>4, <3>1
  <2> QED
    BY <2>1, <2>2
<1>11. \A i \in 1..(Len(all) - 1) : /\ all[i][1] < all[i + 1][1]
                                   /\ all[i + 1][1] + Overlap = all[i][2]
  <2> SUFFICES ASSUME NEW i \in 1..n
               PROVE  all[i][1] < all[i + 1][1] /\ all[i + 1][1] + Overlap = all[i][2]
    BY <1>4, <1>5
  <2>1. CASE i = 1
    BY <1>1, <1>2, <1>4, <1>6, <2>1
  <2>2. CASE i # 1
    <3>1. i - 1 \in 1..(n - 1) /\ all[i] = parts[i - 1] /\ all[i + 1] = parts[(i - 1) + 1]
      BY <1>4, <1>6, <1>8, <2>2
    <3> QED
      BY <1>4, <3>1
  <2> QED
    BY <2>1, <2>2
<1>12. Covers(all, start, length)
  BY <1>5, <1>9, <1>10, <1>11 DEF Covers, S
<1> QED
  BY <1>12 DEF all, w

(* The chunks of a text cover it, in the sense of the property.            *)
LEMMA ChunksCover ==
  ASSUME NEW length \in Nat \ {0}
  PROVE  Covers(Chunks(length), 0, length)
<1> DEFINE from == CHOOSE f : f = [start \in 0..length |-> Step(f, start, length)]
<1>1. from = [start \in 0..length |-> Step(from, start, length)]
  BY ChunksDefined
<1>2. Chunks(length) = from[0]
  BY ChunksStep
<1> HIDE DEF from
<1>3. \A start \in 0..length : from[start] = Step(from, start, length)
  BY <1>1
<1> DEFINE Bad == {k \in 1..length : ~Covers(from[length - k], length - k, length)}
<1>4. Bad = {}
  <2> SUFFICES ASSUME Bad # {} PROVE FALSE
    OBVIOUS
  <2>1. Bad \in SUBSET Nat
    OBVIOUS
  <2>2. PICK k \in Bad : \A j \in Bad : k <= j
    BY <2>1, LeastNumber
  <2> DEFINE start == length - k
             next == After(start, length)
  <2>3. start \in 0..(length - 1) /\ ~Covers(from[start], start, length)
    OBVIOUS
  <2>4. from[start] = <<<<start, End(start, length)>>>> \o from[next]
    <3>1. start \in 0..length /\ start # length
      BY <2>3
    <3> HIDE DEF start
    <3>2. from[start] = Step(from, start, length)
      BY <1>3, <3>1
    <3> QED
      BY <3>1, <3>2, Zenon DEF Step
  <2> HIDE DEF start
  <2>5. CASE End(start, length) < length
    <3>1. next \in (start + 1)..(length - 1)
      BY <2>3, <2>5, AfterIsLater
    <3>2. length - next \in 1..(k - 1) /\ length - (length - next) = next
      BY <3>1 DEF start
    <3> HIDE DEF next
    <3>3. length - next \in 1..length /\ length - next \notin Bad
      BY <2>2, <3>2
    <3>4. Covers(from[next], next, length)
      BY <3>2, <3>3
    <3> QED
      BY <2>3, <2>4, <2>5, <3>4, ChunkBeforeCovers DEF next
  <2>6. CASE End(start, length) = length
    <3>1. next = length
      BY <2>3, <2>6, AfterIsLater
    <3>2. from[next] = << >>
      <4>1. length \in 0..length
        OBVIOUS
      <4>2. from[length] = Step(from, length, length)
        BY <1>3, <4>1
      <4> QED
        BY <3>1, <4>2, Zenon DEF Step
    <3>3. from[start] = <<<<start, length>>>>
      BY <2>4, <2>6, <3>2
    <3> QED
      BY <2>3, <2>6, <3>3, LastChunkCovers
  <2>7. End(start, length) \in (start + 1)..length
    BY <2>3, AfterIsLater
  <2> QED
    BY <2>3, <2>5, <2>6, <2>7
<1>5. \A k \in 1..length : Covers(from[length - k], length - k, length)
  BY <1>4
<1>6. length \in 1..length /\ length - length = 0
  OBVIOUS
<1>7. Covers(from[length - length], length - length, length)
  BY <1>5, <1>6, Zenon
<1> QED
  BY <1>2, <1>6, <1>7

LEMMA LongestLength ==
  /\ Max(Lengths) \in Lengths /\ Max(Lengths) \in Nat \ {0}
  /\ \A length \in Lengths : length \in Nat \ {0} /\ length <= Max(Lengths)
<1>1. PICK longest \in Lengths : \A length \in Lengths : length <= longest
  BY SummaryAssumption
<1>2. \A length \in Lengths : length \in Nat \ {0}
  BY SummaryAssumption
<1>3. \A length \in Lengths : longest >= length
  BY <1>1, <1>2
<1>4. Max(Lengths) \in Lengths /\ \A length \in Lengths : Max(Lengths) >= length
  BY <1>3, Zenon DEF Max
<1> QED
  BY <1>2, <1>4

LEMMA ChunksFit ==
  ASSUME NEW length \in Lengths
  PROVE  /\ Chunks(length) \in Seq(Windows)
         /\ Len(Chunks(length)) \in 1..Max(Lengths)
         /\ DOMAIN Chunks(length) = 1..Len(Chunks(length))
<1> DEFINE longest == Max(Lengths)
           S == (0..length) \X (0..length)
           parts == Chunks(length)
<1>1. length \in Nat \ {0} /\ longest \in Nat /\ length <= longest
  BY LongestLength
<1>2. Covers(parts, 0, length)
  BY <1>1, ChunksCover
<1>3. S \subseteq Windows
  BY <1>1 DEF Windows
<1> HIDE DEF longest, parts, S
<1>4. parts \in Seq(S) /\ Len(parts) \in 1..length
  BY <1>1, <1>2 DEF Covers, S
<1>5. parts \in Seq(Windows) /\ DOMAIN parts = 1..Len(parts)
  BY <1>3, <1>4, SeqMonotonic, LenProperties
<1>6. Len(parts) \in 1..longest
  BY <1>1, <1>4
<1> QED
  BY <1>5, <1>6 DEF longest, parts

-----------------------------------------------------------------------------
(***************************************************************************)
(* The inductive invariant.  A row's length is written once, before any    *)
(* task can load it, so what a task made of the chunks it loaded are the   *)
(* chunks of the row it writes, whatever other deliveries wrote meanwhile; *)
(* and only an upload that has not started its row has none.               *)
(***************************************************************************)

Begun == {"queueing", "undoing", "accepted", "errored", "lost"}

UploadsFirst ==
  \A s \in Summaries :
    /\ upload[s] \in {"none", "uploading"} => summary[s].status = "absent"
    /\ upload[s] = "refused" => ~Kept(s)
    /\ upload[s] \in Begun => summary[s].status # "absent"

RowsHold ==
  \A s \in Summaries :
    /\ Kept(s) => summary[s].length \in Lengths
    /\ summary[s].status = "completed" => summary[s].content = Chunks(summary[s].length)
    /\ s \in queue => summary[s].status # "absent"

AtWork == {"mark", "map", "reduce", "complete", "fail"}

(* What a task's record is, given the row it works on.                     *)
TaskFits(task, row) ==
  /\ task.pc = "idle" => task.summary = "none"
  /\ task.pc # "idle" => task.summary \in Summaries /\ row.status # "absent"
  /\ task.pc \in AtWork =>
       /\ task.length \in Lengths
       /\ row.status \notin {"absent", "deleted"} => row.length = task.length
  /\ task.pc = "map" => Len(task.answered) < Len(Chunks(task.length))
  /\ task.pc # "map" => task.answered = << >>
  /\ task.pc \in {"reduce", "complete"} => task.text = Chunks(task.length)

TasksFit == \A w \in Workers : TaskFits(worker[w], summary[worker[w].summary])

SummaryInv ==
  /\ SummaryTypeOK
  /\ UploadsFirst
  /\ RowsHold
  /\ TasksFit
  /\ NoStrandedSummary

LEMMA InitSummaryInv == Init => SummaryInv
<1> SUFFICES ASSUME Init PROVE SummaryInv
  OBVIOUS
<1> USE DEF Init
<1>1. NoRow \in Summary /\ NoRow.status = "absent"
  BY DEF NoRow, Summary
<1>2. Idle \in Job /\ Idle.pc = "idle" /\ Idle.answered = << >>
  BY DEF Idle, Job
<1>3. Idle.summary = "none"
  BY DEF Idle
<1>4. SummaryTypeOK
  BY <1>1, <1>2, SummaryAssumption DEF SummaryTypeOK
<1>5. UploadsFirst
  BY <1>1 DEF UploadsFirst, Kept, Begun
<1>6. RowsHold
  BY <1>1 DEF RowsHold, Kept
<1>7. TasksFit
  BY <1>2, <1>3 DEF TasksFit, TaskFits, AtWork
<1>8. NoStrandedSummary
  BY <1>1 DEF NoStrandedSummary, Unfinished
<1> QED
  BY <1>4, <1>5, <1>6, <1>7, <1>8 DEF SummaryInv

-----------------------------------------------------------------------------
(* Requests.                                                               *)

(* A row that has begun may change while tasks hold what they read of it.  *)
RowFollows(row, new) ==
  row.status # "absent" =>
    /\ new.status # "absent"
    /\ new.status # "deleted" => row.status # "deleted" /\ new.length = row.length

LEMMA TaskKeepsFitting ==
  ASSUME NEW task, NEW row, NEW new, TaskFits(task, row), RowFollows(row, new)
  PROVE  TaskFits(task, new)
<1>1. CASE task.pc = "idle"
  BY <1>1 DEF TaskFits, AtWork
<1>2. CASE task.pc # "idle"
  BY <1>2 DEF TaskFits, RowFollows
<1> QED
  BY <1>1, <1>2

(* A step of a request that leaves the rows and the tasks alone.           *)
LEMMA RequestInv ==
  ASSUME SummaryInv, NEW s \in Summaries,
         \/ CheckQuota(s) \/ RefuseUpload(s) \/ Enqueue(s) \/ EnqueueFails(s)
         \/ EnqueueErrs(s) \/ BeginDelete(s) \/ RequestLost(s)
  PROVE  SummaryInv'
<1>1. UNCHANGED <<summary, worker>>
  BY DEF CheckQuota, RefuseUpload, Enqueue, EnqueueFails, EnqueueErrs, BeginDelete,
     RequestLost
<1>2. PICK now : upload' = [upload EXCEPT ![s] = now]
  <2>1. upload = [upload EXCEPT ![s] = upload[s]]
    BY DEF SummaryInv, SummaryTypeOK
  <2> QED
    BY <2>1 DEF CheckQuota, RefuseUpload, Enqueue, EnqueueFails, EnqueueErrs, BeginDelete,
       RequestLost
<1>3. upload'[s] = now /\ \A r \in Summaries \ {s} : upload'[r] = upload[r]
  BY <1>2 DEF SummaryInv, SummaryTypeOK
<1>4. SummaryTypeOK'
  BY <1>1, SummaryAssumption DEF SummaryInv, SummaryTypeOK, CheckQuota, RefuseUpload,
     Enqueue, EnqueueFails, EnqueueErrs, BeginDelete, RequestLost, Fault
<1>5. UploadsFirst'
  <2>1. \/ upload[s] = "none" /\ now = "uploading"
        \/ upload[s] = "uploading" /\ now = "refused"
        \/ upload[s] \in Begun /\ now \in Begun
        \/ now = upload[s]
    <3>1. upload \in [Summaries -> {"none", "uploading", "queueing", "undoing",
                                    "accepted", "refused", "errored", "lost"}]
      BY DEF SummaryInv, SummaryTypeOK
    <3> QED
      BY <1>3, <3>1 DEF CheckQuota, RefuseUpload, Enqueue, EnqueueFails, EnqueueErrs,
         BeginDelete, RequestLost, Begun
  <2> QED
    BY <1>1, <1>3, <2>1 DEF SummaryInv, UploadsFirst, Kept, Begun
<1>6. RowsHold'
  <2>1. \A r \in queue' : r \in queue \/ (r = s /\ upload[s] \in Begun)
    BY DEF CheckQuota, RefuseUpload, Enqueue, EnqueueFails, EnqueueErrs, BeginDelete,
       RequestLost, Begun
  <2> QED
    BY <1>1, <2>1 DEF SummaryInv, UploadsFirst, RowsHold, Kept
<1>7. TasksFit'
  BY <1>1 DEF SummaryInv, TasksFit
<1>8. NoStrandedSummary'
  <2>1. /\ queue \subseteq queue' /\ abandoned \subseteq abandoned'
        /\ \/ now \in {"queueing", "undoing"}
           \/ upload[s] \notin {"queueing", "undoing"}
           \/ s \in queue' \/ s \in abandoned'
    <3>1. upload \in [Summaries -> {"none", "uploading", "queueing", "undoing",
                                    "accepted", "refused", "errored", "lost"}]
      BY DEF SummaryInv, SummaryTypeOK
    <3> QED
      BY <1>3, <3>1 DEF CheckQuota, RefuseUpload, Enqueue, EnqueueFails, EnqueueErrs,
         BeginDelete, RequestLost, Fault
  <2> QED
    BY <1>1, <1>3, <2>1 DEF SummaryInv, NoStrandedSummary, Unfinished
<1> QED
  BY <1>4, <1>5, <1>6, <1>7, <1>8 DEF SummaryInv

LEMMA StartSummaryInv ==
  ASSUME SummaryInv, NEW s \in Summaries, StartSummary(s)
  PROVE  SummaryInv'
<1>1. PICK length \in Lengths :
        summary' = [summary EXCEPT ![s].status = "pending", ![s].length = length]
  BY DEF StartSummary
<1>2. /\ upload[s] = "uploading" /\ upload' = [upload EXCEPT ![s] = "queueing"]
      /\ UNCHANGED <<deleting, queue, worker, faults, abandoned>>
  BY DEF StartSummary
<1>3. /\ summary \in [Summaries -> Summary] /\ summary' \in [Summaries -> Summary]
      /\ summary'[s].status = "pending" /\ summary'[s].length = length
      /\ \A r \in Summaries \ {s} : summary'[r] = summary[r]
  BY <1>1 DEF SummaryInv, SummaryTypeOK, Summary
<1>4. upload'[s] = "queueing" /\ \A r \in Summaries \ {s} : upload'[r] = upload[r]
  BY <1>2 DEF SummaryInv, SummaryTypeOK
<1>5. summary[s].status = "absent"
  BY <1>2 DEF SummaryInv, UploadsFirst
<1>6. SummaryTypeOK'
  BY <1>2, <1>3 DEF SummaryInv, SummaryTypeOK
<1>7. UploadsFirst'
  BY <1>3, <1>4 DEF SummaryInv, UploadsFirst, Kept, Begun
<1>8. RowsHold'
  BY <1>2, <1>3 DEF SummaryInv, RowsHold, Kept
<1>9. TasksFit'
  <2> SUFFICES ASSUME NEW w \in Workers
               PROVE  TaskFits(worker[w], summary'[worker[w].summary])
    BY <1>2 DEF TasksFit
  <2>1. TaskFits(worker[w], summary[worker[w].summary])
    BY DEF SummaryInv, TasksFit
  <2>2. CASE worker[w].pc = "idle"
    BY <2>1, <2>2 DEF TaskFits, AtWork
  <2>3. CASE worker[w].pc # "idle"
    <3>1. worker[w].summary \in Summaries \ {s}
      BY <1>5, <2>1, <2>3 DEF TaskFits
    <3> QED
      BY <1>3, <2>1, <3>1
  <2> QED
    BY <2>2, <2>3
<1>10. NoStrandedSummary'
  BY <1>2, <1>3, <1>4 DEF SummaryInv, NoStrandedSummary, Unfinished
<1> QED
  BY <1>6, <1>7, <1>8, <1>9, <1>10 DEF SummaryInv

(* Deletion, by the user or by the request that could not queue its task.  *)
LEMMA DeletionInv ==
  ASSUME SummaryInv, NEW s \in Summaries, UndoUpload(s) \/ FinishDelete(s)
  PROVE  SummaryInv'
<1>1. /\ IF Kept(s) THEN DeleteRow(s) ELSE UNCHANGED summary
      /\ UNCHANGED <<queue, worker, faults, abandoned>>
      /\ \/ upload' = upload
         \/ upload[s] = "undoing" /\ upload' = [upload EXCEPT ![s] = "refused"]
      /\ deleting' \subseteq Summaries
  BY DEF UndoUpload, FinishDelete, SummaryInv, SummaryTypeOK
<1> DEFINE gone == [NoRow EXCEPT !.status = "deleted"]
<1>2. gone \in Summary /\ gone.status = "deleted"
  <2>1. NoRow \in Summary
    BY DEF NoRow, Summary
  <2> QED
    BY <2>1 DEF Summary
<1>3. CASE ~Kept(s)
  <2>1. UNCHANGED summary
    BY <1>1, <1>3
  <2>2. SummaryTypeOK'
    BY <1>1, <2>1 DEF SummaryInv, SummaryTypeOK
  <2>3. UploadsFirst'
    BY <1>1, <1>3, <2>1 DEF SummaryInv, SummaryTypeOK, UploadsFirst, Kept, Begun
  <2>4. RowsHold' /\ TasksFit'
    BY <1>1, <2>1 DEF SummaryInv, RowsHold, TasksFit, Kept
  <2>5. NoStrandedSummary'
    BY <1>1, <1>3, <2>1 DEF SummaryInv, SummaryTypeOK, NoStrandedSummary, Unfinished, Kept
  <2> QED
    BY <2>2, <2>3, <2>4, <2>5 DEF SummaryInv
<1>4. CASE Kept(s)
  <2>1. summary' = [summary EXCEPT ![s] = gone]
    BY <1>1, <1>4 DEF DeleteRow
  <2>2. /\ summary \in [Summaries -> Summary] /\ summary' \in [Summaries -> Summary]
        /\ summary'[s].status = "deleted" /\ summary[s].status # "absent"
        /\ \A r \in Summaries \ {s} : summary'[r] = summary[r]
    BY <1>2, <1>4, <2>1 DEF SummaryInv, SummaryTypeOK, Kept
  <2>3. SummaryTypeOK'
    BY <1>1, <2>2 DEF SummaryInv, SummaryTypeOK
  <2>4. UploadsFirst'
    BY <1>1, <2>2 DEF SummaryInv, SummaryTypeOK, UploadsFirst, Kept, Begun
  <2>5. RowsHold'
    BY <1>1, <2>2 DEF SummaryInv, RowsHold, Kept
  <2>6. TasksFit'
    <3> SUFFICES ASSUME NEW w \in Workers
                 PROVE  TaskFits(worker[w], summary'[worker[w].summary])
      BY <1>1 DEF TasksFit
    <3>1. TaskFits(worker[w], summary[worker[w].summary])
      BY DEF SummaryInv, TasksFit
    <3>2. CASE worker[w].pc = "idle"
      BY <3>1, <3>2 DEF TaskFits, AtWork
    <3>3. CASE worker[w].pc # "idle"
      <4>1. worker[w].summary \in Summaries
        BY <3>1, <3>3 DEF TaskFits
      <4>2. RowFollows(summary[worker[w].summary], summary'[worker[w].summary])
        BY <2>2, <4>1 DEF RowFollows
      <4> QED
        BY <3>1, <4>2, TaskKeepsFitting
    <3> QED
      BY <3>2, <3>3
  <2>7. NoStrandedSummary'
    BY <1>1, <2>2 DEF SummaryInv, SummaryTypeOK, NoStrandedSummary, Unfinished
  <2> QED
    BY <2>3, <2>4, <2>5, <2>6, <2>7 DEF SummaryInv
<1> QED
  BY <1>3, <1>4

-----------------------------------------------------------------------------
(* Tasks.                                                                  *)

(* A task moves, with the rows as they are: what was its business, or in   *)
(* the queue, still is, unless it is given up or finished.                 *)
LEMMA TaskMovesInv ==
  ASSUME SummaryInv, NEW w \in Workers, NEW t \in Job,
         worker' = [worker EXCEPT ![w] = t],
         UNCHANGED <<summary, upload, deleting>>,
         TaskFits(t, summary[t.summary]),
         queue' \subseteq Summaries, \A r \in queue' : summary[r].status # "absent",
         faults' \in 0..MaxFaults,
         abandoned \subseteq abandoned', abandoned' \subseteq Summaries,
         \A r \in Summaries \ abandoned' :
           /\ Unfinished(r)
           /\ r \in queue \/ (worker[w].summary = r /\ worker[w].pc # "ack")
           => r \in queue' \/ (t.summary = r /\ t.pc # "ack")
  PROVE  SummaryInv'
<1>1. worker'[w] = t /\ \A v \in Workers \ {w} : worker'[v] = worker[v]
  BY DEF SummaryInv, SummaryTypeOK
<1>2. SummaryTypeOK'
  BY DEF SummaryInv, SummaryTypeOK
<1>3. UploadsFirst' /\ RowsHold'
  BY DEF SummaryInv, UploadsFirst, RowsHold, Kept
<1>4. TasksFit'
  <2> SUFFICES ASSUME NEW v \in Workers
               PROVE  TaskFits(worker'[v], summary[worker'[v].summary])
    BY DEF TasksFit
  <2>1. CASE v = w
    BY <1>1, <2>1
  <2>2. CASE v # w
    BY <1>1, <2>2 DEF SummaryInv, TasksFit
  <2> QED
    BY <2>1, <2>2
<1>5. NoStrandedSummary'
  <2> SUFFICES ASSUME NEW r \in Summaries \ abandoned', Unfinished(r),
                      upload[r] \notin {"queueing", "undoing"}, r \notin queue'
               PROVE  \E v \in Workers : worker'[v].summary = r /\ worker'[v].pc # "ack"
    BY DEF NoStrandedSummary, Unfinished
  <2>1. CASE r \in queue
    BY <1>1, <2>1
  <2>2. CASE r \notin queue
    <3>1. PICK v \in Workers : worker[v].summary = r /\ worker[v].pc # "ack"
      BY <2>2 DEF SummaryInv, NoStrandedSummary
    <3>2. CASE v = w
      BY <1>1, <3>1, <3>2
    <3>3. CASE v # w
      BY <1>1, <3>1, <3>3
    <3> QED
      BY <3>2, <3>3
  <2> QED
    BY <2>1, <2>2
<1> QED
  BY <1>2, <1>3, <1>4, <1>5 DEF SummaryInv

LEMMA TaskFacts ==
  ASSUME SummaryInv, NEW w \in Workers
  PROVE  /\ worker[w] \in Job /\ TaskFits(worker[w], summary[worker[w].summary])
         /\ worker[w].pc # "idle" =>
              /\ worker[w].summary \in Summaries
              /\ summary[worker[w].summary] \in Summary
              /\ summary[worker[w].summary].status # "absent"
         /\ queue \subseteq Summaries /\ faults \in 0..MaxFaults /\ abandoned \subseteq Summaries
         /\ \A r \in queue : summary[r].status # "absent"
BY DEF SummaryInv, SummaryTypeOK, TasksFit, TaskFits, RowsHold

LEMMA DeliverInv ==
  ASSUME SummaryInv, NEW w \in Workers, NEW s \in Summaries, Deliver(w, s)
  PROVE  SummaryInv'
<1> DEFINE t == [Idle EXCEPT !.pc = "load", !.summary = s]
<1>1. Idle \in Job /\ Idle.answered = << >>
  BY DEF Idle, Job
<1>2. /\ t \in Job /\ t.pc = "load" /\ t.summary = s /\ t.answered = << >>
  BY <1>1 DEF Job
<1>3. /\ worker[w].pc = "idle" /\ s \in queue /\ queue' = queue \ {s}
      /\ worker' = [worker EXCEPT ![w] = t]
      /\ UNCHANGED <<summary, upload, deleting, faults, abandoned>>
  BY DEF Deliver
<1> HIDE DEF t
<1>4. TaskFits(t, summary[t.summary])
  BY <1>2, <1>3, TaskFacts DEF TaskFits, AtWork
<1>5. worker[w].summary \notin Summaries
  BY <1>3, TaskFacts, SummaryAssumption DEF TaskFits
<1>6. \A r \in Summaries :
        r \in queue \/ (worker[w].summary = r /\ worker[w].pc # "ack")
          => r \in queue' \/ (t.summary = r /\ t.pc # "ack")
  BY <1>2, <1>3, <1>5
<1> QED
  BY <1>2, <1>3, <1>4, <1>6, TaskFacts, TaskMovesInv

LEMMA LoadSummaryInv ==
  ASSUME SummaryInv, NEW w \in Workers, LoadSummary(w)
  PROVE  SummaryInv'
<1> DEFINE s == worker[w].summary
           t == [worker[w] EXCEPT !.pc = IF Kept(s) THEN "mark" ELSE "ack",
                                  !.seen = IF Kept(s) THEN summary[s].status ELSE "none",
                                  !.length = summary[s].length]
<1>1. worker[w].pc = "load" /\ UNCHANGED <<summary, upload, deleting, queue, faults, abandoned>>
  BY DEF LoadSummary
<1>2. worker' = [worker EXCEPT ![w] = t]
  BY DEF LoadSummary, SummaryInv, SummaryTypeOK
<1>3. /\ worker[w] \in Job /\ TaskFits(worker[w], summary[s])
      /\ s \in Summaries /\ summary[s] \in Summary /\ summary[s].status # "absent"
  BY <1>1, TaskFacts
<1>4. /\ t \in Job /\ t.summary = s /\ t.answered = worker[w].answered
      /\ t.length = summary[s].length
      /\ t.pc = IF Kept(s) THEN "mark" ELSE "ack"
  BY <1>3 DEF Job, Summary, Kept
<1> HIDE DEF t
<1>5. TaskFits(t, summary[t.summary])
  BY <1>1, <1>3, <1>4 DEF TaskFits, AtWork, Kept, SummaryInv, RowsHold
<1>6. ~Kept(s) => ~Unfinished(s)
  BY <1>3 DEF Kept, Unfinished
<1> QED
  BY <1>1, <1>2, <1>4, <1>5, <1>6, TaskFacts, TaskMovesInv

(* When every chunk has been answered, the text is made of all of them.    *)
LEMMA AllChunksCombined ==
  ASSUME NEW length \in Lengths, NEW answered \in Seq(Nat), NEW i \in Nat,
         Len(answered) < Len(Chunks(length)),
         ~(Len(Append(answered, i)) < Len(Chunks(length)))
  PROVE  Combine(Append(answered, i), Chunks(length)) = Chunks(length)
<1> DEFINE chunks == Chunks(length)
           now == Append(answered, i)
<1>1. chunks \in Seq(Windows) /\ Len(chunks) \in Nat /\ DOMAIN chunks = 1..Len(chunks)
  BY ChunksFit, LenProperties
<1>2. now \in Seq(Nat) /\ Len(now) = Len(answered) + 1 /\ DOMAIN now = 1..Len(now)
  BY AppendProperties, LenProperties
<1>3. /\ Len(answered) \in Nat
      /\ Len(answered) < Len(chunks) /\ ~(Len(now) < Len(chunks))
  BY LenProperties
<1> HIDE DEF chunks, now
<1>4. Len(now) = Len(chunks)
  <2>1. \A a, m, n \in Nat : m = a + 1 /\ a < n /\ ~(m < n) => m = n
    OBVIOUS
  <2>2. Len(now) \in Nat
    BY <1>2, LenProperties
  <2> QED
    BY <1>1, <1>2, <1>3, <2>1, <2>2, Zenon
<1>5. chunks = [k \in DOMAIN now |-> chunks[k]]
  <2>1. DOMAIN now = DOMAIN chunks
    BY <1>1, <1>2, <1>4, Zenon
  <2>2. chunks = [k \in DOMAIN chunks |-> chunks[k]]
    BY <1>1, LenProperties
  <2> QED
    BY <2>1, <2>2, Zenon
<1> QED
  BY <1>5 DEF Combine, chunks, now

LEMMA SummarizeChunkInv ==
  ASSUME SummaryInv, NEW w \in Workers, SummarizeChunk(w)
  PROVE  SummaryInv'
<1> DEFINE s == worker[w].summary
           task == worker[w]
           length == task.length
           chunks == Chunks(length)
<1>1. task.pc = "map" /\ UNCHANGED <<summary, upload, deleting, queue, faults, abandoned>>
  BY DEF SummarizeChunk
<1>2. /\ task \in Job /\ TaskFits(task, summary[s]) /\ s \in Summaries
      /\ summary[s].status # "absent"
  BY <1>1, TaskFacts
<1>3. length \in Lengths /\ Len(task.answered) < Len(chunks)
  BY <1>1, <1>2 DEF TaskFits, AtWork
<1>4. chunks \in Seq(Windows) /\ DOMAIN chunks = 1..Len(chunks) /\ Len(chunks) \in 1..Max(Lengths)
  BY <1>3, ChunksFit
<1>5. PICK i \in DOMAIN chunks :
        LET now == Append(task.answered, i) IN
        worker' = [worker EXCEPT ![w] =
          IF Len(now) < Len(chunks) THEN [task EXCEPT !.answered = now]
          ELSE [task EXCEPT !.pc = "reduce", !.answered = << >>, !.text = Combine(now, chunks)]]
  BY DEF SummarizeChunk, Running
<1> DEFINE now == Append(task.answered, i)
           t == IF Len(now) < Len(chunks) THEN [task EXCEPT !.answered = now]
                ELSE [task EXCEPT !.pc = "reduce", !.answered = << >>, !.text = chunks]
<1>6. /\ i \in 1..Max(Lengths) /\ i \in Nat /\ Max(Lengths) \in Nat
      /\ task.answered \in Seq(1..Max(Lengths)) /\ task.answered \in Seq(Nat)
  <2>1. i \in 1..Max(Lengths) /\ Max(Lengths) \in Nat
    BY <1>4, LongestLength
  <2>2. task.answered \in Seq(1..Max(Lengths))
    BY <1>2 DEF Job
  <2>3. 1..Max(Lengths) \subseteq Nat
    BY <2>1
  <2>4. task.answered \in Seq(Nat)
    BY <2>2, <2>3, SeqMonotonic
  <2> QED
    BY <2>1, <2>2, <2>4
<1>7. now \in Seq(1..Max(Lengths))
  BY <1>6, AppendProperties
<1>8. worker' = [worker EXCEPT ![w] = t]
  <2>1. ~(Len(now) < Len(chunks)) => Combine(now, chunks) = chunks
    BY <1>3, <1>6, AllChunksCombined
  <2> HIDE DEF chunks, now
  <2> QED
    BY <1>5, <2>1 DEF now
<1>9. << >> \in Seq(1..Max(Lengths))
  BY EmptySeq
<1>10. /\ t \in Job /\ t.summary = s /\ t.length = length
       /\ \/ t.pc = "map" /\ t.answered = now /\ Len(now) < Len(chunks)
          \/ t.pc = "reduce" /\ t.answered = << >> /\ t.text = chunks
  <2> HIDE DEF now, chunks
  <2> QED
    BY <1>1, <1>2, <1>4, <1>7, <1>9 DEF Job
<1> HIDE DEF t, now
<1>11. TaskFits(t, summary[t.summary])
  BY <1>1, <1>2, <1>3, <1>10 DEF TaskFits, AtWork
<1> QED
  BY <1>1, <1>2, <1>8, <1>10, <1>11, TaskFacts, TaskMovesInv

LEMMA ModelDoneInv ==
  ASSUME SummaryInv, NEW w \in Workers, SummarizeCombined(w) \/ ModelFails(w)
  PROVE  SummaryInv'
<1> DEFINE task == worker[w]
<1>1. /\ task.pc \in {"map", "reduce"}
      /\ UNCHANGED <<summary, upload, deleting, queue, faults, abandoned>>
  BY DEF SummarizeCombined, ModelFails
<1>2. /\ task \in Job /\ TaskFits(task, summary[task.summary]) /\ task.summary \in Summaries
  BY <1>1, TaskFacts
<1>3. << >> \in Seq(1..Max(Lengths)) /\ << >> \in Seq(Windows)
  BY EmptySeq
<1>4. PICK t \in Job :
        /\ worker' = [worker EXCEPT ![w] = t]
        /\ t.summary = task.summary /\ t.length = task.length /\ t.answered = << >>
        /\ t.pc = "fail" \/ (task.pc = "reduce" /\ t.pc = "complete" /\ t.text = task.text)
  <2>1. CASE SummarizeCombined(w)
    <3> DEFINE t == [task EXCEPT !.pc = "complete"]
    <3>1. worker' = [worker EXCEPT ![w] = t] /\ task.pc = "reduce"
      BY <2>1 DEF SummarizeCombined, Goto
    <3>2. task.answered = << >>
      BY <1>2, <3>1 DEF TaskFits
    <3> HIDE DEF task
    <3>3. /\ t \in Job /\ t.summary = task.summary /\ t.length = task.length
          /\ t.answered = << >> /\ t.text = task.text /\ t.pc = "complete"
      BY <1>2, <3>2 DEF Job
    <3> HIDE DEF t
    <3> QED
      BY <3>1, <3>3
  <2>2. CASE ModelFails(w)
    <3> DEFINE t == [task EXCEPT !.pc = "fail", !.answered = << >>, !.text = << >>]
    <3>1. worker' = [worker EXCEPT ![w] = t]
      BY <2>2 DEF ModelFails, SummaryInv, SummaryTypeOK
    <3> HIDE DEF task
    <3>2. /\ t \in Job /\ t.summary = task.summary /\ t.length = task.length
          /\ t.answered = << >> /\ t.pc = "fail"
      BY <1>2, <1>3 DEF Job
    <3> HIDE DEF t
    <3> QED
      BY <3>1, <3>2
  <2> QED
    BY <2>1, <2>2
<1>5. TaskFits(t, summary[t.summary])
  BY <1>1, <1>2, <1>4 DEF TaskFits, AtWork
<1>6. \A r \in Summaries : task.summary = r => t.summary = r /\ t.pc # "ack"
  BY <1>4
<1> QED
  BY <1>1, <1>4, <1>5, <1>6, TaskFacts, TaskMovesInv

(* A task ends, for whatever reason.                                       *)
LEMMA TaskEndsInv ==
  ASSUME SummaryInv, NEW w \in Workers,
         Acknowledge(w) \/ WorkerCrashes(w) \/ TaskLost(w)
  PROVE  SummaryInv'
<1> DEFINE s == worker[w].summary
<1>1. /\ worker[w].pc # "idle" /\ worker' = [worker EXCEPT ![w] = Idle]
      /\ UNCHANGED <<summary, upload, deleting>>
  BY DEF Acknowledge, WorkerCrashes, TaskLost
<1>2. /\ s \in Summaries /\ summary[s].status # "absent"
  BY <1>1, TaskFacts
<1>3. /\ \/ worker[w].pc = "ack" \/ s \in queue' \/ s \in abandoned'
      /\ queue' = queue \/ queue' = queue \cup {s}
      /\ abandoned' = abandoned \/ abandoned' = abandoned \cup {s}
      /\ faults' = faults \/ (faults < MaxFaults /\ faults' = faults + 1)
  BY DEF Acknowledge, WorkerCrashes, TaskLost, Fault
<1>4. faults' \in 0..MaxFaults
  BY <1>3, TaskFacts, SummaryAssumption
<1>5. Idle \in Job /\ Idle.pc = "idle" /\ Idle.answered = << >> /\ Idle.summary = "none"
  BY DEF Idle, Job
<1>6. TaskFits(Idle, summary[Idle.summary])
  BY <1>5 DEF TaskFits, AtWork
<1>7. \A r \in Summaries \ abandoned' :
        r \in queue \/ (s = r /\ worker[w].pc # "ack") => r \in queue'
  BY <1>3
<1>8. queue' \subseteq Summaries /\ \A r \in queue' : summary[r].status # "absent"
  BY <1>2, <1>3, TaskFacts
<1>9. abandoned \subseteq abandoned' /\ abandoned' \subseteq Summaries
  BY <1>2, <1>3, TaskFacts
<1> QED
  BY <1>1, <1>4, <1>5, <1>6, <1>7, <1>8, <1>9, TaskMovesInv

LEMMA RedeliverInv ==
  ASSUME SummaryInv, NEW w \in Workers, Redeliver(w)
  PROVE  SummaryInv'
<1> DEFINE s == worker[w].summary
<1>1. /\ worker[w].pc # "idle" /\ queue' = queue \cup {s}
      /\ UNCHANGED <<summary, upload, deleting, worker, faults, abandoned>>
  BY DEF Redeliver
<1>2. s \in Summaries /\ summary[s].status # "absent"
  BY <1>1, TaskFacts
<1>3. worker' = [worker EXCEPT ![w] = worker[w]]
  BY <1>1 DEF SummaryInv, SummaryTypeOK
<1> QED
  BY <1>1, <1>2, <1>3, TaskFacts, TaskMovesInv

(* A task writes the row it works on and moves.                            *)
LEMMA TaskWritesInv ==
  ASSUME SummaryInv, NEW w \in Workers, NEW t \in Job, NEW s \in Summaries,
         NEW row \in Summary,
         worker[w].summary = s, Kept(s),
         summary' = [summary EXCEPT ![s] = row],
         worker' = [worker EXCEPT ![w] = t],
         UNCHANGED <<upload, deleting, queue, faults, abandoned>>,
         row.length = summary[s].length,
         row.status \in {"processing", "completed", "failed"},
         row.status = "completed" => row.content = Chunks(row.length),
         t.summary = s, TaskFits(t, row),
         row.status = "processing" => t.pc # "ack"
  PROVE  SummaryInv'
<1>1. worker'[w] = t /\ \A v \in Workers \ {w} : worker'[v] = worker[v]
  BY DEF SummaryInv, SummaryTypeOK
<1>2. summary'[s] = row /\ \A r \in Summaries \ {s} : summary'[r] = summary[r]
  BY DEF SummaryInv, SummaryTypeOK
<1>3. SummaryTypeOK'
  BY DEF SummaryInv, SummaryTypeOK
<1>4. UploadsFirst'
  BY <1>2 DEF SummaryInv, UploadsFirst, Kept
<1>5. RowsHold'
  BY <1>2 DEF SummaryInv, RowsHold, Kept
<1>6. TasksFit'
  <2> SUFFICES ASSUME NEW v \in Workers
               PROVE  TaskFits(worker'[v], summary'[worker'[v].summary])
    BY DEF TasksFit
  <2>1. CASE v = w
    BY <1>1, <1>2, <2>1
  <2>2. CASE v # w
    <3>1. worker'[v] = worker[v] /\ TaskFits(worker[v], summary[worker[v].summary])
      BY <1>1, <2>2 DEF SummaryInv, TasksFit
    <3>2. CASE worker[v].pc = "idle"
      BY <3>1, <3>2 DEF TaskFits, AtWork
    <3>3. CASE worker[v].pc # "idle"
      <4>1. worker[v].summary \in Summaries
        BY <3>1, <3>3 DEF TaskFits
      <4>2. RowFollows(summary[worker[v].summary], summary'[worker[v].summary])
        BY <1>2, <4>1 DEF RowFollows, Kept
      <4> QED
        BY <3>1, <4>2, TaskKeepsFitting
    <3> QED
      BY <3>2, <3>3
  <2> QED
    BY <2>1, <2>2
<1>7. NoStrandedSummary'
  <2> SUFFICES ASSUME NEW r \in Summaries \ abandoned,
                      summary'[r].status \in {"pending", "processing"},
                      upload[r] \notin {"queueing", "undoing"}, r \notin queue
               PROVE  \E v \in Workers : worker'[v].summary = r /\ worker'[v].pc # "ack"
    BY DEF NoStrandedSummary, Unfinished
  <2>1. CASE r = s
    BY <1>1, <1>2, <2>1
  <2>2. CASE r # s
    <3>1. PICK v \in Workers : worker[v].summary = r /\ worker[v].pc # "ack"
      BY <1>2, <2>2 DEF SummaryInv, NoStrandedSummary, Unfinished
    <3> QED
      BY <1>1, <2>2, <3>1
  <2> QED
    BY <2>1, <2>2
<1> QED
  BY <1>3, <1>4, <1>5, <1>6, <1>7 DEF SummaryInv

LEMMA GotoFacts ==
  ASSUME SummaryInv, NEW w \in Workers, NEW pc \in {"map", "ack"}, Goto(w, pc)
  PROVE  \E t \in Job :
           /\ worker' = [worker EXCEPT ![w] = t] /\ t.pc = pc
           /\ t.summary = worker[w].summary /\ t.length = worker[w].length
           /\ t.answered = worker[w].answered
<1> DEFINE t == [worker[w] EXCEPT !.pc = pc]
<1>1. worker[w] \in Job
  BY TaskFacts
<1>2. /\ t \in Job /\ t.pc = pc /\ t.summary = worker[w].summary
      /\ t.length = worker[w].length /\ t.answered = worker[w].answered
  BY <1>1 DEF Job
<1>3. worker' = [worker EXCEPT ![w] = t]
  BY DEF Goto
<1> HIDE DEF t
<1> QED
  BY <1>2, <1>3

(* A task whose summary is gone writes nothing, and a redelivered one that *)
(* finds its row processing has nothing to write yet.                      *)
LEMMA NothingWrittenInv ==
  ASSUME SummaryInv, NEW w \in Workers, NEW pc \in {"map", "ack"}, Goto(w, pc),
         worker[w].pc \in {"mark", "complete", "fail"},
         IF pc = "map" THEN worker[w].pc = "mark" ELSE ~Kept(worker[w].summary),
         UNCHANGED <<summary, upload, deleting, queue, faults, abandoned>>
  PROVE  SummaryInv'
<1> DEFINE s == worker[w].summary
<1>1. /\ TaskFits(worker[w], summary[s]) /\ s \in Summaries
      /\ summary[s].status # "absent"
  BY TaskFacts
<1>2. PICK t \in Job :
        /\ worker' = [worker EXCEPT ![w] = t] /\ t.pc = pc
        /\ t.summary = worker[w].summary /\ t.length = worker[w].length
        /\ t.answered = worker[w].answered
  BY GotoFacts
<1>3. worker[w].length \in Lengths /\ t.answered = << >>
  BY <1>1, <1>2 DEF TaskFits, AtWork
<1>4. Len(t.answered) < Len(Chunks(t.length))
  <2>1. Len(Chunks(t.length)) \in 1..Max(Lengths) /\ Max(Lengths) \in Nat
    BY <1>2, <1>3, ChunksFit, LongestLength
  <2> QED
    BY <1>3, <2>1
<1>5. TaskFits(t, summary[t.summary])
  BY <1>1, <1>2, <1>3, <1>4 DEF TaskFits, AtWork
<1>6. pc = "ack" => ~Unfinished(s)
  BY DEF Kept, Unfinished
<1> QED
  BY <1>2, <1>5, <1>6, TaskFacts, TaskMovesInv

LEMMA MarkProcessingInv ==
  ASSUME SummaryInv, NEW w \in Workers, MarkProcessing(w)
  PROVE  SummaryInv'
<1> DEFINE s == worker[w].summary
<1>1. worker[w].pc = "mark" /\ UNCHANGED <<upload, deleting, queue, faults, abandoned>>
  BY DEF MarkProcessing
<1>2. CASE Goto(w, "map") /\ UNCHANGED summary
  BY <1>1, <1>2, NothingWrittenInv
<1>3. CASE Goto(w, "ack") /\ ~Kept(s) /\ UNCHANGED summary
  BY <1>1, <1>3, NothingWrittenInv
<1>4. CASE Kept(s) /\ Goto(w, "map") /\ SetStatus(s, "processing")
  <2>1. /\ TaskFits(worker[w], summary[s]) /\ s \in Summaries /\ summary[s] \in Summary
    BY <1>1, TaskFacts
  <2>2. PICK t \in Job :
          /\ worker' = [worker EXCEPT ![w] = t] /\ t.pc = "map"
          /\ t.summary = worker[w].summary /\ t.length = worker[w].length
          /\ t.answered = worker[w].answered
    BY <1>4, GotoFacts
  <2>3. /\ worker[w].length \in Lengths /\ t.answered = << >>
        /\ summary[s].length = worker[w].length
    BY <1>1, <1>4, <2>1, <2>2 DEF TaskFits, AtWork, Kept
  <2>4. Len(t.answered) < Len(Chunks(t.length))
    <3>1. Len(Chunks(t.length)) \in 1..Max(Lengths) /\ Max(Lengths) \in Nat
      BY <2>2, <2>3, ChunksFit, LongestLength
    <3> QED
      BY <2>3, <3>1
  <2> DEFINE row == [summary[s] EXCEPT !.status = "processing"]
  <2>5. row \in Summary /\ row.status = "processing" /\ row.length = summary[s].length
    BY <2>1 DEF Summary
  <2>6. summary' = [summary EXCEPT ![s] = row]
    BY <1>4 DEF SetStatus
  <2> HIDE DEF row
  <2>7. TaskFits(t, row)
    BY <2>1, <2>2, <2>3, <2>4, <2>5 DEF TaskFits, AtWork
  <2> QED
    BY <1>1, <1>4, <2>1, <2>2, <2>5, <2>6, <2>7, TaskWritesInv
<1> QED
  BY <1>2, <1>3, <1>4 DEF MarkProcessing

LEMMA SavingInv ==
  ASSUME SummaryInv, NEW w \in Workers, SaveCompleted(w) \/ SaveFailed(w)
  PROVE  SummaryInv'
<1> DEFINE s == worker[w].summary
<1>1. /\ worker[w].pc \in {"complete", "fail"} /\ Goto(w, "ack")
      /\ UNCHANGED <<upload, deleting, queue, faults, abandoned>>
  BY DEF SaveCompleted, SaveFailed
<1>2. CASE ~Kept(s)
  <2>1. UNCHANGED summary
    BY <1>2 DEF SaveCompleted, SaveFailed
  <2> QED
    BY <1>1, <1>2, <2>1, NothingWrittenInv
<1>3. CASE Kept(s)
  <2>1. /\ worker[w] \in Job /\ TaskFits(worker[w], summary[s])
        /\ s \in Summaries /\ summary[s] \in Summary
    BY <1>1, TaskFacts
  <2>2. PICK t \in Job :
          /\ worker' = [worker EXCEPT ![w] = t] /\ t.pc = "ack"
          /\ t.summary = worker[w].summary /\ t.length = worker[w].length
          /\ t.answered = worker[w].answered
    BY <1>1, GotoFacts
  <2>3. /\ t.answered = << >> /\ summary[s].length = worker[w].length
        /\ worker[w].pc = "complete" => worker[w].text = Chunks(summary[s].length)
    BY <1>1, <1>3, <2>1, <2>2 DEF TaskFits, AtWork, Kept
  <2>4. PICK row \in Summary :
          /\ summary' = [summary EXCEPT ![s] = row]
          /\ row.length = summary[s].length /\ row.status \in {"completed", "failed"}
          /\ row.status = "completed" => row.content = Chunks(row.length)
    <3>1. CASE SaveCompleted(w)
      <4> DEFINE row == [summary[s] EXCEPT !.status = "completed", !.content = worker[w].text]
      <4>1. /\ worker[w].text \in Seq(Windows) /\ worker[w].pc = "complete"
        BY <2>1, <3>1 DEF Job, SaveCompleted
      <4>2. /\ row \in Summary /\ row.status = "completed"
            /\ row.length = summary[s].length /\ row.content = worker[w].text
        BY <2>1, <4>1 DEF Summary
      <4>3. summary' = [summary EXCEPT ![s] = row]
        BY <1>3, <3>1 DEF SaveCompleted, SummaryInv, SummaryTypeOK
      <4> HIDE DEF row
      <4> QED
        BY <2>3, <4>1, <4>2, <4>3
    <3>2. CASE SaveFailed(w)
      <4> DEFINE row == [summary[s] EXCEPT !.status = "failed"]
      <4>1. row \in Summary /\ row.status = "failed" /\ row.length = summary[s].length
        BY <2>1 DEF Summary
      <4>2. summary' = [summary EXCEPT ![s] = row]
        BY <1>3, <3>2 DEF SaveFailed, SetStatus
      <4> HIDE DEF row
      <4> QED
        BY <4>1, <4>2
    <3> QED
      BY <3>1, <3>2
  <2>5. TaskFits(t, row)
    BY <2>1, <2>2, <2>3, <2>4 DEF TaskFits, AtWork
  <2> QED
    BY <1>1, <1>3, <2>1, <2>2, <2>4, <2>5, TaskWritesInv
<1> QED
  BY <1>2, <1>3

-----------------------------------------------------------------------------
(* The whole next-state relation, and what follows from the invariant.     *)

LEMMA NextSummaryInv ==
  ASSUME SummaryInv, [Next]_summaryVars
  PROVE  SummaryInv'
<1>1. CASE UNCHANGED summaryVars
  BY <1>1 DEF summaryVars, SummaryInv, SummaryTypeOK, UploadsFirst, RowsHold, TasksFit,
     NoStrandedSummary, Kept, Unfinished
<1>2. ASSUME NEW s \in Summaries,
             \/ CheckQuota(s) \/ RefuseUpload(s) \/ StartSummary(s)
             \/ UploadStep(s)
             \/ BeginDelete(s) \/ FinishDelete(s)
             \/ RequestLost(s)
      PROVE  SummaryInv'
  BY <1>2, RequestInv, StartSummaryInv, DeletionInv DEF UploadStep
<1>3. ASSUME NEW w \in Workers, NEW s \in Summaries, Deliver(w, s)
      PROVE  SummaryInv'
  BY <1>3, DeliverInv
<1>4. ASSUME NEW w \in Workers,
             WorkerStep(w) \/ WorkerCrashes(w) \/ TaskLost(w) \/ Redeliver(w)
      PROVE  SummaryInv'
  BY <1>4, LoadSummaryInv, MarkProcessingInv, SummarizeChunkInv, ModelDoneInv, SavingInv,
     TaskEndsInv, RedeliverInv DEF WorkerStep
<1> QED
  BY <1>1, <1>2, <1>3, <1>4 DEF Next

(* In every reachable state each task fits its summary and its upload.     *)
THEOREM SummaryInvariance == SummarySpec => []SummaryInv
<1>1. Init => SummaryInv
  BY InitSummaryInv
<1>2. SummaryInv /\ [Next]_summaryVars => SummaryInv'
  BY NextSummaryInv
<1> QED
  BY <1>1, <1>2, PTL DEF SummarySpec

(* Every variable of the summaries has its type.                           *)
THEOREM SummaryTypeCorrect == SummarySpec => []SummaryTypeOK
<1>1. SummaryInv => SummaryTypeOK
  BY DEF SummaryInv
<1> QED
  BY <1>1, SummaryInvariance, PTL

(* An upload that was refused is not in the library, though its message    *)
(* may have reached a worker.                                              *)
THEOREM RefusedUploadLeavesNothingHolds == SummarySpec => []RefusedUploadLeavesNothing
<1>1. SummaryInv => RefusedUploadLeavesNothing
  BY DEF SummaryInv, UploadsFirst, RefusedUploadLeavesNothing
<1> QED
  BY <1>1, SummaryInvariance, PTL

(* A summary shown as waiting or in progress is a request's, a message's   *)
(* or a task's business, or was given up by an error nobody handles.       *)
THEOREM NoStrandedSummaryHolds == SummarySpec => []NoStrandedSummary
<1>1. SummaryInv => NoStrandedSummary
  BY DEF SummaryInv
<1> QED
  BY <1>1, SummaryInvariance, PTL

(* A completed summary covers its book from beginning to end in reading    *)
(* order, for any text length and any accepted chunk size and overlap.     *)
THEOREM CompletedCoversBookHolds == SummarySpec => []CompletedCoversBook
<1>1. SummaryInv => CompletedCoversBook
  <2> SUFFICES ASSUME SummaryInv, NEW s \in Summaries, summary[s].status = "completed"
               PROVE  LET parts == summary[s].content IN
                      /\ parts # << >>
                      /\ Head(parts)[1] = 0 /\ Last(parts)[2] = summary[s].length
                      /\ \A i \in DOMAIN parts : parts[i][2] - parts[i][1] \in 1..ChunkSize
                      /\ \A i \in 1..(Len(parts) - 1) :
                           /\ parts[i][1] < parts[i + 1][1]
                           /\ parts[i + 1][1] + Overlap = parts[i][2]
    BY DEF CompletedCoversBook
  <2> DEFINE parts == summary[s].content
             length == summary[s].length
  <2>1. length \in Lengths /\ parts = Chunks(length)
    BY DEF SummaryInv, RowsHold, Kept
  <2>2. length \in Nat \ {0} /\ Covers(parts, 0, length)
    BY <2>1, LongestLength, ChunksCover
  <2> HIDE DEF parts, length
  <2>3. /\ Len(parts) \in Nat \ {0} /\ DOMAIN parts = 1..Len(parts)
        /\ parts \in Seq((0..length) \X (0..length))
    BY <2>2, LenProperties DEF Covers
  <2>4. parts # << >> /\ Head(parts) = parts[1] /\ Last(parts) = parts[Len(parts)]
    BY <2>3 DEF Last
  <2>5. /\ parts # << >>
        /\ Head(parts)[1] = 0 /\ Last(parts)[2] = length
        /\ \A i \in DOMAIN parts : parts[i][2] - parts[i][1] \in 1..ChunkSize
        /\ \A i \in 1..(Len(parts) - 1) :
             /\ parts[i][1] < parts[i + 1][1]
             /\ parts[i + 1][1] + Overlap = parts[i][2]
    BY <2>2, <2>3, <2>4 DEF Covers
  <2> QED
    BY <2>5 DEF parts, length
<1> QED
  BY <1>1, SummaryInvariance, PTL

(* No step brings a deleted summary back: not a task that still works on   *)
(* it, and not an upload that is being undone.                             *)
THEOREM DeletedStaysDeletedHolds == SummarySpec => DeletedStaysDeleted
<1>1. SummaryInv /\ [Next]_summaryVars =>
        [\A s \in Summaries : summary[s].status = "deleted" =>
           summary'[s].status = "deleted"]_summaryVars
  <2> SUFFICES ASSUME SummaryInv, Next, NEW s \in Summaries, summary[s].status = "deleted"
               PROVE  summary'[s].status = "deleted"
    OBVIOUS
  <2>1. summary \in [Summaries -> Summary]
    BY DEF SummaryInv, SummaryTypeOK
  <2>2. ASSUME NEW r \in Summaries, NEW row, summary' = [summary EXCEPT ![r] = row],
               summary[r].status # "deleted"
        PROVE  summary'[s].status = "deleted"
    BY <2>1, <2>2
  <2>3. CASE UNCHANGED summary
    BY <2>3
  <2>4. ASSUME NEW r \in Summaries, StartSummary(r)
        PROVE  summary'[s].status = "deleted"
    <3>1. summary[r].status = "absent"
      BY <2>4 DEF SummaryInv, UploadsFirst, StartSummary
    <3>2. r # s
      BY <3>1
    <3> QED
      BY <2>1, <2>4, <3>2 DEF StartSummary
  <2>5. ASSUME NEW r \in Summaries, UndoUpload(r) \/ FinishDelete(r)
        PROVE  summary'[s].status = "deleted"
    BY <2>2, <2>3, <2>5 DEF UndoUpload, FinishDelete, DeleteRow, Kept
  <2>6. ASSUME NEW w \in Workers, MarkProcessing(w) \/ SaveCompleted(w) \/ SaveFailed(w)
        PROVE  summary'[s].status = "deleted"
    <3>1. worker[w].summary \in Summaries
      BY <2>6, TaskFacts DEF MarkProcessing, SaveCompleted, SaveFailed
    <3>2. Kept(worker[w].summary) \/ UNCHANGED summary
      BY <2>6 DEF MarkProcessing, SaveCompleted, SaveFailed
    <3>3. CASE Kept(worker[w].summary)
      <4>1. worker[w].summary # s
        BY <3>3 DEF Kept
      <4> QED
        BY <2>1, <2>6, <3>1, <4>1 DEF MarkProcessing, SaveCompleted, SaveFailed, SetStatus
    <3> QED
      BY <2>3, <3>2, <3>3
  <2>7. ASSUME NEW r \in Summaries,
               \/ CheckQuota(r) \/ RefuseUpload(r) \/ Enqueue(r) \/ EnqueueFails(r)
               \/ EnqueueErrs(r) \/ BeginDelete(r) \/ RequestLost(r)
        PROVE  summary'[s].status = "deleted"
    BY <2>3, <2>7 DEF CheckQuota, RefuseUpload, Enqueue, EnqueueFails, EnqueueErrs,
       BeginDelete, RequestLost
  <2>8. ASSUME NEW w \in Workers,
               \/ \E r \in Summaries : Deliver(w, r)
               \/ LoadSummary(w) \/ SummarizeChunk(w) \/ SummarizeCombined(w)
               \/ ModelFails(w) \/ Acknowledge(w) \/ WorkerCrashes(w) \/ TaskLost(w)
               \/ Redeliver(w)
        PROVE  summary'[s].status = "deleted"
    BY <2>3, <2>8 DEF Deliver, LoadSummary, SummarizeChunk, SummarizeCombined, ModelFails,
       Acknowledge, WorkerCrashes, TaskLost, Redeliver
  <2> QED
    BY <2>4, <2>5, <2>6, <2>7, <2>8 DEF Next, UploadStep, WorkerStep
<1> QED
  BY <1>1, SummaryInvariance, PTL DEF SummarySpec, DeletedStaysDeleted
=============================================================================
