--------------------- MODULE ConversationServiceProofs ---------------------
(***************************************************************************)
(* Proofs about ConversationService, for any number of runs, requests and  *)
(* answers.                                                                *)
(***************************************************************************)
EXTENDS ConversationService, TLAPS

(* What the suffix operator returns is part of what it was given.          *)
LEMMA SuffixesAreSubsets ==
  ASSUME NEW pairs, NEW h \in RecentSuffixes(pairs)
  PROVE  h \subseteq pairs
BY DEF RecentSuffixes

LEMMA PairsArePositions ==
  ASSUME TypeOK, NEW before
  PROVE  CompletedPairs(before) \subseteq Nat
BY DEF CompletedPairs, Present, TypeOK, Row

LEMMA NoRowType == NoRow \in Row /\ EmptySnapshot \in Snapshot
BY DEF NoRow, Row, EmptySnapshot, Snapshot, Statuses, Stages

LEMMA NewRowType ==
  ASSUME NEW u \in Nat, NEW a \in Nat, NEW n \in Nat
  PROVE  /\ NewRow(u, a, n) \in Row
         /\ NewRow(u, a, n).status = "pending"
         /\ NewRow(u, a, n).user = u
         /\ NewRow(u, a, n).assistant = a
         /\ NewRow(u, a, n).attempt = n
         /\ NewRow(u, a, n).response = None
BY NoRowType DEF NewRow, NoRow, Row, EmptySnapshot, Snapshot, Statuses, Stages,
                 ActiveStatuses

-----------------------------------------------------------------------------
(* What the operations do to a row, in three kinds.  A running attempt may *)
(* record progress; it may be terminated; it may publish.                  *)

(* The row at r stays an attempt at the same slot under the same number.   *)
SameAttempt(r) ==
  /\ runs' \in [RunIds -> Row]
  /\ \A s \in RunIds \ {r} : runs'[s] = runs[s]
  /\ runs'[r].user = runs[r].user
  /\ runs'[r].assistant = runs[r].assistant
  /\ runs'[r].attempt = runs[r].attempt

Progress(r) ==
  /\ UNCHANGED <<exists, messages>>
  /\ SameAttempt(r)
  /\ r \in Active
  /\ runs'[r].status \in ActiveStatuses

(* Same slot, same number.                                                 *)
SameKeys(row, old) ==
  row.user = old.user /\ row.assistant = old.assistant /\ row.attempt = old.attempt

LEMMA WriteRowSame ==
  ASSUME TypeOK, NEW r \in RunIds, NEW row \in Row, WriteRow(r, row),
         SameKeys(row, runs[r])
  PROVE  SameAttempt(r) /\ runs'[r] = row
BY DEF WriteRow, SameAttempt, SameKeys, TypeOK

LEMMA StartRunProgress ==
  ASSUME TypeOK, NEW r \in RunIds, StartRun(r)
  PROVE  Progress(r)
<1> DEFINE row == [runs[r] EXCEPT !.status = "running", !.stage = "starting",
                                  !.started = TRUE]
<1>1. runs[r] \in Row
  BY DEF TypeOK
<1>2. row \in Row /\ row.status = "running" /\ SameKeys(row, runs[r])
  BY <1>1 DEF Row, Stages, Statuses, ActiveStatuses, SameKeys
<1>3. WriteRow(r, row) /\ r \in Active /\ UNCHANGED <<exists, messages>>
  BY DEF StartRun, Active, ActiveStatuses
<1> HIDE DEF row
<1> QED
  BY <1>2, <1>3, WriteRowSame DEF Progress, ActiveStatuses

LEMMA CheckpointProgress ==
  ASSUME TypeOK, NEW r \in RunIds, NEW row \in Row, Checkpoint(r, row),
         row.status = runs[r].status, SameKeys(row, runs[r])
  PROVE  Progress(r)
BY WriteRowSame DEF Checkpoint, MayCheckpoint, Progress, Active, ActiveStatuses

LEMMA ClaimGenerationProgress ==
  ASSUME TypeOK, NEW r \in RunIds, ClaimGeneration(r)
  PROVE  Progress(r)
<1> DEFINE row == [runs[r] EXCEPT !.stage = "generating"]
<1>1. runs[r] \in Row
  BY DEF TypeOK
<1>2. row \in Row /\ row.status = runs[r].status /\ SameKeys(row, runs[r])
  BY <1>1 DEF Row, Stages, SameKeys
<1>3. /\ WriteRow(r, row) /\ UNCHANGED <<exists, messages>>
      /\ r \in Active /\ runs[r].status \in ActiveStatuses
  BY DEF ClaimGeneration, MayClaimGeneration, Active, ActiveStatuses
<1> HIDE DEF row
<1> QED
  BY <1>2, <1>3, WriteRowSame DEF Progress

LEMMA SaveRewriteProgress ==
  ASSUME TypeOK, NEW r \in RunIds, NEW h \in SUBSET Nat, SaveRewrite(r, h)
  PROVE  Progress(r)
<1> DEFINE row == [runs[r] EXCEPT !.stage = "rewritten", !.rewritten = TRUE,
                                  !.snapshot.history = h]
<1>1. runs[r] \in Row
  BY DEF TypeOK
<1>2. row \in Row /\ row.status = runs[r].status /\ SameKeys(row, runs[r])
  BY <1>1 DEF Row, Snapshot, Stages, SameKeys
<1>3. Checkpoint(r, row)
  BY DEF SaveRewrite
<1> HIDE DEF row
<1> QED
  BY <1>2, <1>3, CheckpointProgress

LEMMA StartRetrievalProgress ==
  ASSUME TypeOK, NEW r \in RunIds, StartRetrieval(r)
  PROVE  Progress(r)
<1> DEFINE row == [runs[r] EXCEPT !.stage = "retrieving"]
<1>1. runs[r] \in Row
  BY DEF TypeOK
<1>2. row \in Row /\ row.status = runs[r].status /\ SameKeys(row, runs[r])
  BY <1>1 DEF Row, Stages, SameKeys
<1>3. Checkpoint(r, row)
  BY DEF StartRetrieval
<1> HIDE DEF row
<1> QED
  BY <1>2, <1>3, CheckpointProgress

LEMMA SaveRetrievalProgress ==
  ASSUME TypeOK, NEW r \in RunIds, NEW snapshot \in Snapshot,
         SaveRetrieval(r, snapshot)
  PROVE  Progress(r)
<1> DEFINE row == [runs[r] EXCEPT !.stage = "retrieved", !.snapshot = snapshot]
<1>1. runs[r] \in Row
  BY DEF TypeOK
<1>2. row \in Row /\ row.status = runs[r].status /\ SameKeys(row, runs[r])
  BY <1>1 DEF Row, Stages, SameKeys
<1>3. Checkpoint(r, row)
  BY DEF SaveRetrieval
<1> HIDE DEF row
<1> QED
  BY <1>2, <1>3, CheckpointProgress

LEMMA SaveContextProgress ==
  ASSUME TypeOK, NEW r \in RunIds, NEW p \in SUBSET Nat, SaveContext(r, p)
  PROVE  Progress(r)
<1> DEFINE row == [runs[r] EXCEPT !.stage = "context_ready", !.snapshot.prompt = p]
<1>1. runs[r] \in Row
  BY DEF TypeOK
<1>2. row \in Row /\ row.status = runs[r].status /\ SameKeys(row, runs[r])
  BY <1>1 DEF Row, Snapshot, Stages, SameKeys
<1>3. Checkpoint(r, row)
  BY DEF SaveContext
<1> HIDE DEF row
<1> QED
  BY <1>2, <1>3, CheckpointProgress

-----------------------------------------------------------------------------

Ended(r) ==
  /\ UNCHANGED <<exists, messages>>
  /\ SameAttempt(r)
  /\ r \in Active
  /\ runs'[r].status \in RetryableStatuses

Published(r) ==
  /\ UNCHANGED exists
  /\ SameAttempt(r)
  /\ r \in Active
  /\ runs'[r].status = "completed"
  /\ runs'[r].response \in Answers
  /\ messages' = [messages EXCEPT ![runs[r].assistant].content = runs'[r].response]

LEMMA TerminateEnds ==
  ASSUME TypeOK, NEW r \in RunIds, NEW status \in RetryableStatuses,
         NEW error \in {None} \cup ErrorCodes, Terminate(r, status, error)
  PROVE  Ended(r)
<1> DEFINE row == [runs[r] EXCEPT !.status = status, !.stage = status,
                                  !.error = error]
<1>1. runs[r] \in Row
  BY DEF TypeOK
<1>2. status \in Statuses /\ status \in Stages
  BY DEF RetryableStatuses, Statuses, TerminalStatuses, Stages
<1>3. row \in Row /\ row.status = status /\ SameKeys(row, runs[r])
  BY <1>1, <1>2 DEF Row, SameKeys
<1>4. WriteRow(r, row) /\ r \in Active /\ UNCHANGED <<exists, messages>>
  BY DEF Terminate
<1> HIDE DEF row
<1> QED
  BY <1>3, <1>4, WriteRowSame DEF Ended

LEMMA CompletePublishes ==
  ASSUME TypeOK, NEW r \in RunIds, NEW a \in Answers, Complete(r, a)
  PROVE  Published(r)
<1> DEFINE row == [runs[r] EXCEPT !.status = "completed", !.stage = "completed",
                                  !.response = a]
<1>1. runs[r] \in Row
  BY DEF TypeOK
<1>2. /\ row \in Row /\ row.status = "completed" /\ row.response = a
      /\ SameKeys(row, runs[r])
  BY <1>1 DEF Row, Stages, Statuses, TerminalStatuses, SameKeys
<1>3. /\ WriteRow(r, row) /\ r \in Active /\ UNCHANGED exists
      /\ messages' = [messages EXCEPT ![runs[r].assistant].content = a]
  BY DEF Complete, Active, ActiveStatuses
<1> HIDE DEF row
<1> QED
  BY <1>2, <1>3, WriteRowSame DEF Published

(* Every operation on one run is of one of the three kinds.                *)
LEMMA RunStepKinds ==
  ASSUME TypeOK, NEW r \in RunIds, RunStep(r)
  PROVE  Progress(r) \/ Ended(r) \/ Published(r)
<1>1. runs[r] \in Row /\ runs[r].snapshot \in Snapshot
      /\ runs[r].snapshot.history \in SUBSET Nat
  BY DEF TypeOK, Row, Snapshot
<1>2. CASE StartRun(r)
  BY <1>2, StartRunProgress
<1>3. CASE \E h \in RecentSuffixes(CompletedPairs(runs[r].user)) : SaveRewrite(r, h)
  <2>1. PICK h \in RecentSuffixes(CompletedPairs(runs[r].user)) : SaveRewrite(r, h)
    BY <1>3
  <2>2. CompletedPairs(runs[r].user) \subseteq Nat
    BY PairsArePositions
  <2>3. h \in SUBSET Nat
    BY <2>2, SuffixesAreSubsets
  <2> QED
    BY <2>1, <2>3, SaveRewriteProgress
<1>4. CASE StartRetrieval(r)
  BY <1>4, StartRetrievalProgress
<1>5. CASE SaveRetrieval(r, runs[r].snapshot)
  BY <1>1, <1>5, SaveRetrievalProgress
<1>6. CASE \E p \in RecentSuffixes(runs[r].snapshot.history) : SaveContext(r, p)
  <2>1. PICK p \in RecentSuffixes(runs[r].snapshot.history) : SaveContext(r, p)
    BY <1>6
  <2>2. p \in SUBSET Nat
    BY <1>1, SuffixesAreSubsets
  <2> QED
    BY <2>1, <2>2, SaveContextProgress
<1>7. CASE ClaimGeneration(r)
  BY <1>7, ClaimGenerationProgress
<1>8. CASE \E a \in Answers : Complete(r, a)
  BY <1>8, CompletePublishes
<1>9. CASE \E e \in ErrorCodes : Fail(r, e)
  <2>1. PICK e \in ErrorCodes : Fail(r, e)
    BY <1>9
  <2>2. Terminate(r, "failed", e) /\ "failed" \in RetryableStatuses
    BY <2>1 DEF Fail, RetryableStatuses
  <2> QED
    BY <2>2, TerminateEnds
<1>10. CASE Cancel(r)
  <2>1. Terminate(r, "cancelled", None) /\ "cancelled" \in RetryableStatuses
    BY <1>10 DEF Cancel, RetryableStatuses
  <2> QED
    BY <2>1, TerminateEnds
<1> QED
  BY <1>2, <1>3, <1>4, <1>5, <1>6, <1>7, <1>8, <1>9, <1>10 DEF RunStep
-----------------------------------------------------------------------------
(***************************************************************************)
(* The inductive invariant.  What makes it close: a row's positions lie in *)
(* the message table (so a new turn cannot meet an old run), attempts at a *)
(* slot are numbered apart (so the retried attempt is the only one with    *)
(* the greatest number), and an attempt that is active or has completed    *)
(* has the greatest number (so a slot whose latest attempt failed has no   *)
(* completed one, and a retry cannot publish a second time).               *)
(***************************************************************************)

RunsAreWired ==
  \A r \in Present :
    /\ exists
    /\ runs[r].assistant \in DOMAIN messages
    /\ messages[runs[r].assistant].role = "assistant"

AttemptsAreNumberedApart ==
  \A r, s \in Present :
    /\ runs[r].assistant = runs[s].assistant
    /\ runs[r].attempt = runs[s].attempt
    => r = s

CompletedArePublished ==
  \A r \in Present :
    runs[r].status = "completed" =>
      /\ runs[r].response \in Answers
      /\ messages[runs[r].assistant].content = runs[r].response

TextComesFromCompleted ==
  \A p \in AssistantPositions :
    messages[p].content # None =>
      \E r \in Present : runs[r].status = "completed" /\ runs[r].assistant = p

IndInv ==
  /\ TypeOK
  /\ RunsAreWired
  /\ AttemptsAreNumberedApart
  /\ OneActiveRun
  /\ LatestAttemptDecides
  /\ ActiveRunIsLastTurn
  /\ CompletedArePublished
  /\ TextComesFromCompleted

LEMMA InitIndInv == Init => IndInv
<1> SUFFICES ASSUME Init PROVE IndInv
  OBVIOUS
<1>1. TypeOK
  BY NoRowType DEF Init, TypeOK
<1>2. Present = {} /\ Active = {}
  BY DEF Init, Present, Active, NoRow, ActiveStatuses
<1>3. AssistantPositions = {}
  BY DEF Init, AssistantPositions
<1> QED
  BY <1>1, <1>2, <1>3 DEF IndInv, RunsAreWired, AttemptsAreNumberedApart,
     OneActiveRun, LatestAttemptDecides, ActiveRunIsLastTurn,
     CompletedArePublished, TextComesFromCompleted

(* Where the kinds of steps leave the set of rows and of active rows.      *)
LEMMA SameAttemptRows ==
  ASSUME TypeOK, NEW r \in Active, SameAttempt(r), runs'[r].status \in Statuses
  PROVE  /\ Active \subseteq Present /\ Present' = Present
         /\ r \in Present
         /\ Active' \subseteq Active
         /\ \A s \in Present :
              /\ s \in RunIds
              /\ runs'[s].assistant = runs[s].assistant
              /\ runs'[s].attempt = runs[s].attempt
              /\ s # r => runs'[s] = runs[s]
         /\ runs[r].status \in ActiveStatuses
<1>1. r \in RunIds /\ runs[r].status \in ActiveStatuses
  BY DEF Active
<1>2. "absent" \notin Statuses /\ "absent" \notin ActiveStatuses
  BY DEF Statuses, ActiveStatuses, TerminalStatuses, RetryableStatuses
<1> QED
  BY <1>1, <1>2 DEF SameAttempt, Present, Active

LEMMA ProgressIndInv ==
  ASSUME IndInv, NEW r \in RunIds, Progress(r)
  PROVE  IndInv'
<1> USE DEF IndInv
<1>1. /\ r \in Active /\ SameAttempt(r) /\ runs'[r].status \in ActiveStatuses
      /\ messages' = messages /\ exists' = exists
  BY DEF Progress
<1>2. runs'[r].status \in Statuses /\ runs'[r].status # "completed"
  BY <1>1 DEF Statuses, ActiveStatuses
<1>3. /\ Active \subseteq Present /\ Present' = Present
      /\ r \in Present /\ Active' \subseteq Active
      /\ runs[r].status \in ActiveStatuses
      /\ \A s \in Present :
           /\ s \in RunIds
           /\ runs'[s].assistant = runs[s].assistant
           /\ runs'[s].attempt = runs[s].attempt
           /\ s # r => runs'[s] = runs[s]
  BY <1>1, <1>2, SameAttemptRows
<1>4. TypeOK'
  BY <1>1 DEF TypeOK, SameAttempt
<1>5. RunsAreWired'
  BY <1>1, <1>3 DEF RunsAreWired
<1>6. AttemptsAreNumberedApart'
  BY <1>3 DEF AttemptsAreNumberedApart
<1>7. OneActiveRun'
  BY <1>3 DEF OneActiveRun
<1>8. LatestAttemptDecides'
  BY <1>1, <1>3 DEF LatestAttemptDecides, RunsFor
<1>9. ActiveRunIsLastTurn'
  BY <1>1, <1>3 DEF ActiveRunIsLastTurn
<1>10. CompletedArePublished'
  BY <1>1, <1>2, <1>3 DEF CompletedArePublished
<1>11. TextComesFromCompleted'
  <2>1. runs[r].status # "completed"
    BY <1>3 DEF ActiveStatuses
  <2> QED
    BY <1>1, <1>3, <2>1 DEF TextComesFromCompleted, AssistantPositions
<1> QED
  BY <1>4, <1>5, <1>6, <1>7, <1>8, <1>9, <1>10, <1>11

LEMMA EndedIndInv ==
  ASSUME IndInv, NEW r \in RunIds, Ended(r)
  PROVE  IndInv'
<1> USE DEF IndInv
<1>1. /\ r \in Active /\ SameAttempt(r) /\ runs'[r].status \in RetryableStatuses
      /\ messages' = messages /\ exists' = exists
  BY DEF Ended
<1>2. /\ runs'[r].status \in Statuses /\ runs'[r].status # "completed"
      /\ runs'[r].status \notin ActiveStatuses
  BY <1>1 DEF Statuses, TerminalStatuses, RetryableStatuses, ActiveStatuses
<1>3. /\ Active \subseteq Present /\ Present' = Present
      /\ r \in Present /\ Active' \subseteq Active
      /\ runs[r].status \in ActiveStatuses
      /\ \A s \in Present :
           /\ s \in RunIds
           /\ runs'[s].assistant = runs[s].assistant
           /\ runs'[s].attempt = runs[s].attempt
           /\ s # r => runs'[s] = runs[s]
  BY <1>1, <1>2, SameAttemptRows
<1>4. TypeOK'
  BY <1>1 DEF TypeOK, SameAttempt
<1>5. RunsAreWired'
  BY <1>1, <1>3 DEF RunsAreWired
<1>6. AttemptsAreNumberedApart'
  BY <1>3 DEF AttemptsAreNumberedApart
<1>7. OneActiveRun'
  BY <1>3 DEF OneActiveRun
<1>8. LatestAttemptDecides'
  BY <1>1, <1>2, <1>3 DEF LatestAttemptDecides, RunsFor
<1>9. ActiveRunIsLastTurn'
  BY <1>1, <1>3 DEF ActiveRunIsLastTurn
<1>10. CompletedArePublished'
  BY <1>1, <1>2, <1>3 DEF CompletedArePublished
<1>11. TextComesFromCompleted'
  <2>1. runs[r].status # "completed"
    BY <1>3 DEF ActiveStatuses
  <2> QED
    BY <1>1, <1>3, <2>1 DEF TextComesFromCompleted, AssistantPositions
<1> QED
  BY <1>4, <1>5, <1>6, <1>7, <1>8, <1>9, <1>10, <1>11

(* Publishing writes one message's text and nothing else of the table.     *)
LEMMA PublishedMessages ==
  ASSUME TypeOK, NEW r \in RunIds, Published(r), runs[r].assistant \in DOMAIN messages
  PROVE  /\ messages' \in Seq(Message)
         /\ Len(messages') = Len(messages)
         /\ DOMAIN messages' = DOMAIN messages
         /\ \A p \in DOMAIN messages :
              /\ messages'[p].role = messages[p].role
              /\ messages'[p].request = messages[p].request
              /\ p # runs[r].assistant => messages'[p] = messages[p]
         /\ messages'[runs[r].assistant].content = runs'[r].response
<1> DEFINE i == runs[r].assistant
           message == [messages[i] EXCEPT !.content = runs'[r].response]
<1>1. /\ messages \in Seq(Message) /\ i \in DOMAIN messages
      /\ runs'[r].response \in Answers
  BY DEF TypeOK, Published
<1>2. messages[i] \in Message /\ DOMAIN messages = 1..Len(messages)
  BY <1>1
<1>3. /\ message \in Message /\ message.role = messages[i].role
      /\ message.request = messages[i].request
      /\ message.content = runs'[r].response
  BY <1>1, <1>2 DEF Message
<1>4. messages' = [messages EXCEPT ![i] = message]
  BY DEF Published
<1> HIDE DEF message, i
<1>5. messages' \in Seq(Message) /\ Len(messages') = Len(messages)
  BY <1>1, <1>3, <1>4
<1>6. /\ DOMAIN messages' = DOMAIN messages
      /\ messages'[i] = message
      /\ \A p \in DOMAIN messages : p # i => messages'[p] = messages[p]
  BY <1>1, <1>4
<1> QED
  BY <1>3, <1>5, <1>6 DEF i

LEMMA PublishedIndInv ==
  ASSUME IndInv, NEW r \in RunIds, Published(r)
  PROVE  IndInv'
<1> USE DEF IndInv
<1>1. /\ r \in Active /\ SameAttempt(r) /\ runs'[r].status = "completed"
      /\ runs'[r].response \in Answers /\ exists' = exists
  BY DEF Published
<1>2. runs'[r].status \in Statuses /\ runs'[r].status \notin ActiveStatuses
  BY <1>1 DEF Statuses, TerminalStatuses, ActiveStatuses
<1>3. /\ Active \subseteq Present /\ Present' = Present
      /\ r \in Present /\ Active' \subseteq Active
      /\ runs[r].status \in ActiveStatuses
      /\ \A s \in Present :
           /\ s \in RunIds
           /\ runs'[s].assistant = runs[s].assistant
           /\ runs'[s].attempt = runs[s].attempt
           /\ s # r => runs'[s] = runs[s]
  BY <1>1, <1>2, SameAttemptRows
<1>4. runs[r].assistant \in DOMAIN messages
  BY <1>3 DEF RunsAreWired
<1>5. /\ messages' \in Seq(Message)
      /\ Len(messages') = Len(messages)
      /\ DOMAIN messages' = DOMAIN messages
      /\ \A p \in DOMAIN messages :
           /\ messages'[p].role = messages[p].role
           /\ messages'[p].request = messages[p].request
           /\ p # runs[r].assistant => messages'[p] = messages[p]
      /\ messages'[runs[r].assistant].content = runs'[r].response
  BY <1>4, PublishedMessages
<1>6. TypeOK'
  BY <1>1, <1>5 DEF TypeOK, SameAttempt
<1>7. RunsAreWired'
  BY <1>1, <1>3, <1>5 DEF RunsAreWired
<1>8. AttemptsAreNumberedApart'
  BY <1>3 DEF AttemptsAreNumberedApart
<1>9. OneActiveRun'
  BY <1>3 DEF OneActiveRun
<1>10. LatestAttemptDecides'
  BY <1>1, <1>3 DEF LatestAttemptDecides, RunsFor
<1>11. ActiveRunIsLastTurn'
  BY <1>1, <1>3, <1>5 DEF ActiveRunIsLastTurn
(* No other attempt at this slot has completed: r has the greatest number. *)
<1>12. \A s \in Present \ {r} :
         runs[s].status = "completed" => runs[s].assistant # runs[r].assistant
  <2>1. \A s \in Present : runs[s].attempt \in Nat
    BY <1>3 DEF TypeOK, Row
  <2> QED
    BY <1>3, <2>1 DEF LatestAttemptDecides, RunsFor
<1>13. CompletedArePublished'
  BY <1>1, <1>3, <1>5, <1>12 DEF CompletedArePublished, RunsAreWired
<1>14. TextComesFromCompleted'
  <2>1. AssistantPositions' = AssistantPositions
    BY <1>5 DEF AssistantPositions
  <2>2. runs[r].status # "completed"
    BY <1>3 DEF ActiveStatuses
  <2> QED
    BY <1>1, <1>3, <1>5, <2>1, <2>2 DEF TextComesFromCompleted, AssistantPositions
<1> QED
  BY <1>6, <1>7, <1>8, <1>9, <1>10, <1>11, <1>13, <1>14

-----------------------------------------------------------------------------
(* A fresh key gets a pending row; no other row changes.                   *)
LEMMA NewRunRows ==
  ASSUME TypeOK, NEW r \in RunIds, runs[r].status = "absent",
         NEW u \in Nat, NEW a \in Nat, NEW n \in Nat,
         WriteRow(r, NewRow(u, a, n))
  PROVE  /\ runs' \in [RunIds -> Row]
         /\ Present' = Present \cup {r}
         /\ r \notin Present
         /\ \A s \in Present : s \in RunIds /\ s # r /\ runs'[s] = runs[s]
         /\ Active' = Active \cup {r}
         /\ runs'[r].status = "pending"
         /\ runs'[r].user = u
         /\ runs'[r].assistant = a
         /\ runs'[r].attempt = n
<1>1. /\ NewRow(u, a, n) \in Row
      /\ NewRow(u, a, n).status = "pending"
      /\ NewRow(u, a, n).user = u
      /\ NewRow(u, a, n).assistant = a
      /\ NewRow(u, a, n).attempt = n
  BY NewRowType
<1>2. /\ runs' \in [RunIds -> Row]
      /\ runs'[r] = NewRow(u, a, n)
      /\ \A s \in RunIds \ {r} : runs'[s] = runs[s]
  BY <1>1 DEF WriteRow, TypeOK
<1> QED
  BY <1>1, <1>2 DEF Present, Active, ActiveStatuses

LEMMA ReserveTurnMessages ==
  ASSUME TypeOK, NEW q \in Requests, NEW r \in RunIds, ReserveTurn(q, r)
  PROVE  /\ messages' \in Seq(Message)
         /\ Len(messages') = Len(messages) + 2
         /\ DOMAIN messages' = DOMAIN messages
                                \cup {Len(messages) + 1, Len(messages) + 2}
         /\ \A p \in DOMAIN messages :
              p \in 1..Len(messages) /\ messages'[p] = messages[p]
         /\ messages'[Len(messages) + 1] =
              [role |-> "user", request |-> q, content |-> q]
         /\ messages'[Len(messages) + 2] =
              [role |-> "assistant", request |-> None, content |-> None]
<1> DEFINE question == [role |-> "user", request |-> q, content |-> q]
           slot == [role |-> "assistant", request |-> None, content |-> None]
           asked == Append(messages, question)
<1>1. messages \in Seq(Message) /\ question \in Message /\ slot \in Message
  BY DEF TypeOK, Message
<1>2. messages' = Append(asked, slot)
  BY DEF ReserveTurn
<1> HIDE DEF question, slot
<1>3. /\ asked \in Seq(Message)
      /\ Len(asked) = Len(messages) + 1
      /\ asked[Len(messages) + 1] = question
      /\ \A p \in 1..Len(messages) : asked[p] = messages[p]
  BY <1>1
<1> HIDE DEF asked
<1>4. /\ messages' \in Seq(Message)
      /\ Len(messages') = Len(messages) + 2
      /\ messages'[Len(messages) + 2] = slot
      /\ \A p \in 1..(Len(messages) + 1) : messages'[p] = asked[p]
  BY <1>1, <1>2, <1>3
<1>5. /\ DOMAIN messages = 1..Len(messages)
      /\ DOMAIN messages' = 1..(Len(messages) + 2)
      /\ Len(messages) \in Nat
  BY <1>1, <1>4
<1> QED
  BY <1>3, <1>4, <1>5 DEF question, slot

LEMMA ReserveTurnIndInv ==
  ASSUME IndInv, NEW q \in Requests, NEW r \in RunIds, ReserveTurn(q, r)
  PROVE  IndInv'
<1> USE DEF IndInv
<1> DEFINE n == Len(messages)
<1>1. /\ exists /\ exists' = exists /\ Active = {} /\ runs[r].status = "absent"
      /\ WriteRow(r, NewRow(n + 1, n + 1 + 1, 1))
  BY DEF ReserveTurn
<1>2. n \in Nat
  BY DEF TypeOK
<1>3. /\ messages' \in Seq(Message)
      /\ Len(messages') = n + 2
      /\ DOMAIN messages' = DOMAIN messages \cup {n + 1, n + 2}
      /\ \A p \in DOMAIN messages : p \in 1..n /\ messages'[p] = messages[p]
      /\ messages'[n + 1].role = "user"
      /\ messages'[n + 2].role = "assistant" /\ messages'[n + 2].content = None
  <2>1. /\ messages' \in Seq(Message)
        /\ Len(messages') = n + 2
        /\ DOMAIN messages' = DOMAIN messages \cup {n + 1, n + 2}
        /\ \A p \in DOMAIN messages : p \in 1..n /\ messages'[p] = messages[p]
    BY ReserveTurnMessages
  <2>2. /\ messages'[n + 1] = [role |-> "user", request |-> q, content |-> q]
        /\ messages'[n + 2] = [role |-> "assistant", request |-> None, content |-> None]
    BY ReserveTurnMessages, Zenon
  <2> QED
    BY <2>1, <2>2
<1>4. /\ runs' \in [RunIds -> Row]
      /\ Present' = Present \cup {r} /\ r \notin Present
      /\ \A s \in Present : s \in RunIds /\ s # r /\ runs'[s] = runs[s]
      /\ Active' = {r}
      /\ runs'[r].status = "pending"
      /\ runs'[r].assistant = n + 2
      /\ runs'[r].attempt = 1
  BY <1>1, <1>2, NewRunRows
<1> HIDE DEF n
<1>5. \A s \in Present : /\ runs[s].assistant \in DOMAIN messages
                         /\ runs[s].assistant \in 1..n
                         /\ messages[runs[s].assistant].role = "assistant"
  BY <1>3 DEF RunsAreWired
<1>6. TypeOK'
  BY <1>1, <1>3, <1>4 DEF TypeOK
<1>7. RunsAreWired'
  BY <1>1, <1>3, <1>4, <1>5 DEF RunsAreWired
<1>8. AttemptsAreNumberedApart'
  BY <1>2, <1>4, <1>5 DEF AttemptsAreNumberedApart
<1>9. OneActiveRun'
  BY <1>4 DEF OneActiveRun
<1>10. LatestAttemptDecides'
  BY <1>2, <1>4, <1>5 DEF LatestAttemptDecides, RunsFor
<1>11. ActiveRunIsLastTurn'
  BY <1>3, <1>4 DEF ActiveRunIsLastTurn
<1>12. CompletedArePublished'
  BY <1>3, <1>4, <1>5 DEF CompletedArePublished
<1>13. TextComesFromCompleted'
  BY <1>2, <1>3, <1>4 DEF TextComesFromCompleted, AssistantPositions
<1> QED
  BY <1>6, <1>7, <1>8, <1>9, <1>10, <1>11, <1>12, <1>13

LEMMA RetryIndInv ==
  ASSUME IndInv, NEW p \in RunIds, NEW r \in RunIds, Retry(p, r)
  PROVE  IndInv'
<1> USE DEF IndInv
<1> DEFINE slot == runs[p].assistant
<1>1. /\ runs[p].status \in RetryableStatuses /\ Active = {}
      /\ \A s \in RunsFor(slot) : runs[s].attempt <= runs[p].attempt
      /\ slot = Len(messages) /\ runs[r].status = "absent"
      /\ WriteRow(r, NewRow(runs[p].user, slot, runs[p].attempt + 1))
      /\ messages' = messages /\ exists' = exists
  BY DEF Retry
<1>2. /\ p \in Present /\ runs[p].status # "completed"
      /\ runs[p].user \in Nat /\ slot \in Nat /\ runs[p].attempt \in Nat
  BY <1>1 DEF Present, RetryableStatuses, TypeOK, Row
<1>3. /\ runs' \in [RunIds -> Row]
      /\ Present' = Present \cup {r} /\ r \notin Present
      /\ \A s \in Present : s \in RunIds /\ s # r /\ runs'[s] = runs[s]
      /\ Active' = {r}
      /\ runs'[r].status = "pending"
      /\ runs'[r].assistant = slot
      /\ runs'[r].attempt = runs[p].attempt + 1
  BY <1>1, <1>2, NewRunRows
<1> HIDE DEF slot
(* The retried attempt has the greatest number at its slot, so none there  *)
(* has completed.                                                          *)
<1>4. \A s \in Present : runs[s].assistant = slot =>
        /\ runs[s].attempt \in Nat
        /\ runs[s].attempt < runs[p].attempt + 1
        /\ runs[s].status # "completed"
  <2> SUFFICES ASSUME NEW s \in Present, runs[s].assistant = slot
               PROVE  /\ runs[s].attempt \in Nat
                      /\ runs[s].attempt < runs[p].attempt + 1
                      /\ runs[s].status # "completed"
    OBVIOUS
  <2>1. runs[s].attempt \in Nat
    BY <1>3 DEF TypeOK, Row
  <2>2. runs[s].attempt <= runs[p].attempt
    BY <1>1 DEF RunsFor
  <2>3. CASE runs[s].status = "completed"
    <3>1. p \in RunsFor(runs[s].assistant) \ {s}
      BY <1>2, <2>3 DEF RunsFor, slot
    <3>2. runs[p].attempt < runs[s].attempt
      BY <2>3, <3>1 DEF LatestAttemptDecides
    <3> QED
      BY <1>2, <2>1, <2>2, <3>2
  <2> QED
    BY <1>2, <2>1, <2>2, <2>3
<1>5. \A s \in Present : runs[s].status \notin ActiveStatuses
  BY <1>1, <1>3 DEF Active
<1>6. TypeOK'
  BY <1>1, <1>3 DEF TypeOK
<1>7. RunsAreWired'
  BY <1>1, <1>2, <1>3 DEF RunsAreWired, slot
<1>8. AttemptsAreNumberedApart'
  BY <1>2, <1>3, <1>4 DEF AttemptsAreNumberedApart
<1>9. OneActiveRun'
  BY <1>3 DEF OneActiveRun
<1>10. LatestAttemptDecides'
  BY <1>2, <1>3, <1>4, <1>5 DEF LatestAttemptDecides, RunsFor
<1>11. ActiveRunIsLastTurn'
  BY <1>1, <1>3 DEF ActiveRunIsLastTurn
<1>12. CompletedArePublished'
  BY <1>1, <1>3 DEF CompletedArePublished
<1>13. TextComesFromCompleted'
  BY <1>1, <1>3 DEF TextComesFromCompleted, AssistantPositions
<1> QED
  BY <1>6, <1>7, <1>8, <1>9, <1>10, <1>11, <1>12, <1>13

LEMMA DeleteIndInv ==
  ASSUME IndInv, DeleteConversation
  PROVE  IndInv'
<1>1. /\ exists' = FALSE /\ messages' = << >>
      /\ runs' = [r \in RunIds |-> NoRow]
  BY DEF DeleteConversation
<1>2. TypeOK'
  <2>1. runs' \in [RunIds -> Row]
    BY <1>1, NoRowType
  <2>2. messages' \in Seq(Message)
    BY <1>1
  <2>3. exists' \in BOOLEAN
    BY <1>1
  <2> QED
    BY <2>1, <2>2, <2>3 DEF TypeOK
<1>3. Present' = {} /\ Active' = {}
  BY <1>1 DEF Present, Active, NoRow, ActiveStatuses
<1>4. AssistantPositions' = {}
  BY <1>1 DEF AssistantPositions
<1> QED
  BY <1>2, <1>3, <1>4 DEF IndInv, RunsAreWired, AttemptsAreNumberedApart,
     OneActiveRun, LatestAttemptDecides, ActiveRunIsLastTurn,
     CompletedArePublished, TextComesFromCompleted

-----------------------------------------------------------------------------

LEMMA NextIndInv ==
  ASSUME IndInv, [Next]_serviceVars
  PROVE  IndInv'
<1>1. CASE \E q \in Requests, r \in RunIds : ReserveTurn(q, r)
  BY <1>1, ReserveTurnIndInv
<1>2. CASE \E r \in RunIds : RunStep(r)
  <2>1. PICK r \in RunIds : RunStep(r)
    BY <1>2
  <2>2. Progress(r) \/ Ended(r) \/ Published(r)
    BY <2>1, RunStepKinds DEF IndInv
  <2> QED
    BY <2>2, ProgressIndInv, EndedIndInv, PublishedIndInv
<1>3. CASE \E p, r \in RunIds : Retry(p, r)
  BY <1>3, RetryIndInv
<1>4. CASE DeleteConversation
  BY <1>4, DeleteIndInv
<1>5. CASE UNCHANGED serviceVars
  BY <1>5 DEF serviceVars, IndInv, TypeOK, RunsAreWired, AttemptsAreNumberedApart,
     OneActiveRun, LatestAttemptDecides, ActiveRunIsLastTurn,
     CompletedArePublished, TextComesFromCompleted, Present, Active, RunsFor,
     AssistantPositions
<1> QED
  BY <1>1, <1>2, <1>3, <1>4, <1>5 DEF Next

(* In every reachable state of the tables the inductive invariant holds.   *)
THEOREM Invariance == Spec => []IndInv
<1>1. Init => IndInv
  BY InitIndInv
<1>2. IndInv /\ [Next]_serviceVars => IndInv'
  BY NextIndInv
<1> QED
  BY <1>1, <1>2, PTL DEF Spec

(* Rows and messages keep their shape whatever the callers do.             *)
THEOREM TypeCorrect == Spec => []TypeOK
<1>1. IndInv => TypeOK
  BY DEF IndInv
<1> QED
  BY <1>1, Invariance, PTL

(* A conversation never has two pending or running attempts.               *)
THEOREM OneActiveRunHolds == Spec => []OneActiveRun
<1>1. IndInv => OneActiveRun
  BY DEF IndInv
<1> QED
  BY <1>1, Invariance, PTL

(* The attempt with the greatest number is the live or the completed one.  *)
THEOREM LatestAttemptDecidesHolds == Spec => []LatestAttemptDecides
<1>1. IndInv => LatestAttemptDecides
  BY DEF IndInv
<1> QED
  BY <1>1, Invariance, PTL

(* Work only goes on for the newest turn.                                  *)
THEOREM ActiveRunIsLastTurnHolds == Spec => []ActiveRunIsLastTurn
<1>1. IndInv => ActiveRunIsLastTurn
  BY DEF IndInv
<1> QED
  BY <1>1, Invariance, PTL

(* At most one attempt at a slot completes: both would have the greatest   *)
(* number there.                                                           *)
LEMMA OneCompletedAttempt ==
  ASSUME IndInv, NEW r \in Present, NEW s \in Present,
         runs[r].status = "completed", runs[s].status = "completed",
         runs[r].assistant = runs[s].assistant
  PROVE  r = s
<1> SUFFICES ASSUME r # s PROVE FALSE
  OBVIOUS
<1>1. runs[r].attempt \in Nat /\ runs[s].attempt \in Nat
  BY DEF IndInv, TypeOK, Row, Present
<1>2. runs[s].attempt < runs[r].attempt
  BY DEF IndInv, LatestAttemptDecides, RunsFor
<1>3. runs[r].attempt < runs[s].attempt
  BY DEF IndInv, LatestAttemptDecides, RunsFor
<1> QED
  BY <1>1, <1>2, <1>3

(* An assistant message shows the text of its completed attempt, and text  *)
(* only when there is one.                                                 *)
THEOREM PublishedByCompletedRunHolds == Spec => []PublishedByCompletedRun
<1>1. IndInv => PublishedByCompletedRun
  <2> SUFFICES ASSUME IndInv, NEW p \in AssistantPositions
               PROVE  LET completed == {r \in RunsFor(p) : runs[r].status = "completed"}
                      IN  IF messages[p].content = None
                          THEN completed = {}
                          ELSE \E r \in completed :
                                 /\ completed = {r}
                                 /\ runs[r].response = messages[p].content
    BY DEF PublishedByCompletedRun
  <2> DEFINE completed == {r \in RunsFor(p) : runs[r].status = "completed"}
  <2>1. \A r \in completed : /\ r \in Present /\ runs[r].assistant = p
                             /\ runs[r].status = "completed"
    BY DEF RunsFor
  <2>2. \A r \in completed : /\ runs[r].response = messages[p].content
                             /\ messages[p].content # None
    BY <2>1, NoneAssumption DEF IndInv, CompletedArePublished
  <2>3. CASE messages[p].content = None
    BY <2>2, <2>3
  <2>4. CASE messages[p].content # None
    <3>1. PICK r \in completed : TRUE
      BY <2>4 DEF IndInv, TextComesFromCompleted, RunsFor
    <3>2. completed = {r}
      BY <2>1, <3>1, OneCompletedAttempt
    <3> QED
      BY <2>2, <2>4, <3>1, <3>2
  <2> QED
    BY <2>3, <2>4
<1> QED
  BY <1>1, Invariance, PTL

(* A finished attempt stays as it is until its conversation is deleted:    *)
(* every operation on a run needs the run active, and new rows only take   *)
(* keys no run has.                                                        *)
THEOREM FinishedRunsStayHolds == Spec => FinishedRunsStay
<1> DEFINE Stay == \A r \in RunIds :
                     runs[r].status \in TerminalStatuses => runs'[r] = runs[r] \/ ~exists'
<1>1. IndInv /\ [Next]_serviceVars => Stay
  <2> SUFFICES ASSUME IndInv, [Next]_serviceVars, NEW f \in RunIds,
                      runs[f].status \in TerminalStatuses
               PROVE  runs'[f] = runs[f] \/ ~exists'
    OBVIOUS
  <2>1. /\ f \in Present
        /\ f \notin Active
        /\ TypeOK
    BY DEF Present, Active, IndInv, TerminalStatuses, RetryableStatuses, ActiveStatuses
  <2>2. CASE \E q \in Requests, r \in RunIds : ReserveTurn(q, r)
    <3>1. PICK q \in Requests, r \in RunIds : ReserveTurn(q, r)
      BY <2>2
    <3>2. runs[r].status = "absent"
          /\ WriteRow(r, NewRow(Len(messages) + 1, Len(messages) + 1 + 1, 1))
      BY <3>1 DEF ReserveTurn
    <3> QED
      BY <2>1, <3>2 DEF WriteRow, TypeOK, Present
  <2>3. CASE \E r \in RunIds : RunStep(r)
    <3>1. PICK r \in RunIds : RunStep(r)
      BY <2>3
    <3>2. r \in Active /\ SameAttempt(r)
      BY <2>1, <3>1, RunStepKinds DEF Progress, Ended, Published
    <3> QED
      BY <2>1, <3>2 DEF SameAttempt
  <2>4. CASE \E p, r \in RunIds : Retry(p, r)
    <3>1. PICK p \in RunIds, r \in RunIds : Retry(p, r)
      BY <2>4
    <3>2. runs[r].status = "absent"
          /\ WriteRow(r, NewRow(runs[p].user, runs[p].assistant, runs[p].attempt + 1))
      BY <3>1 DEF Retry
    <3> QED
      BY <2>1, <3>2 DEF WriteRow, TypeOK, Present
  <2>5. CASE DeleteConversation
    BY <2>5 DEF DeleteConversation
  <2>6. CASE UNCHANGED serviceVars
    BY <2>6 DEF serviceVars
  <2> QED
    BY <2>2, <2>3, <2>4, <2>5, <2>6 DEF Next
<1>2. IndInv /\ [Next]_serviceVars => [Stay]_serviceVars
  BY <1>1
<1> QED
  BY <1>2, Invariance, PTL DEF Spec, FinishedRunsStay

-----------------------------------------------------------------------------
(***************************************************************************)
(* ConversationService implements ChatLog: each step of the tables is a    *)
(* step of the log of questions and answers or leaves it as it is.         *)
(***************************************************************************)

Shown == [p \in AssistantPositions |-> messages[p].content]

OpenSlots == {runs[r].assistant : r \in Active}

(* With one active run there is one open slot, and it shows nothing: its   *)
(* attempt is the latest there, so none has completed.                     *)
LEMMA OpenSlotIsEmpty ==
  ASSUME IndInv, NEW r \in Active
  PROVE  /\ Active = {r}
         /\ runs[r].assistant \in AssistantPositions
         /\ messages[runs[r].assistant].content = None
<1>1. r \in Present /\ Active = {r} /\ runs[r].status \in ActiveStatuses
  BY DEF Active, Present, ActiveStatuses, IndInv, OneActiveRun
<1>2. runs[r].assistant \in AssistantPositions
  BY <1>1 DEF IndInv, RunsAreWired, AssistantPositions
<1>3. ASSUME NEW s \in Present, runs[s].status = "completed",
             runs[s].assistant = runs[r].assistant
      PROVE  FALSE
  <2>1. s # r /\ runs[r].attempt \in Nat /\ runs[s].attempt \in Nat
    BY <1>1, <1>3 DEF ActiveStatuses, IndInv, TypeOK, Row, Present
  <2>2. runs[s].attempt < runs[r].attempt
    BY <1>1, <1>3, <2>1 DEF IndInv, LatestAttemptDecides, RunsFor
  <2>3. runs[r].attempt < runs[s].attempt
    BY <1>1, <1>3, <2>1 DEF IndInv, LatestAttemptDecides, RunsFor
  <2> QED
    BY <2>1, <2>2, <2>3
<1> QED
  BY <1>1, <1>2, <1>3 DEF IndInv, TextComesFromCompleted

LEMMA ProgressIsStutter ==
  ASSUME IndInv, NEW r \in RunIds, Progress(r)
  PROVE  Shown' = Shown /\ OpenSlots' = OpenSlots /\ exists' = exists
<1>1. Active' = Active /\ \A s \in Active : runs'[s].assistant = runs[s].assistant
  BY DEF Progress, SameAttempt, Active
<1>2. OpenSlots' = OpenSlots
  BY <1>1 DEF OpenSlots
<1> QED
  BY <1>2 DEF Progress, Shown, AssistantPositions

LEMMA EndedGivesUp ==
  ASSUME IndInv, NEW r \in RunIds, Ended(r)
  PROVE  Chat!GiveUp
<1>1. r \in Active /\ Active = {r}
  BY OpenSlotIsEmpty DEF Ended
<1>2. Active' = {}
  BY <1>1 DEF Ended, SameAttempt, Active, RetryableStatuses, ActiveStatuses
<1>3. OpenSlots # {} /\ OpenSlots' = {}
  BY <1>1, <1>2 DEF OpenSlots
<1>4. Shown' = Shown /\ exists' = exists
  BY DEF Ended, Shown, AssistantPositions
<1> QED
  BY <1>3, <1>4 DEF Chat!GiveUp, Shown, OpenSlots

LEMMA PublishedPublishes ==
  ASSUME IndInv, NEW r \in RunIds, Published(r)
  PROVE  Chat!Publish
<1> DEFINE slot == runs[r].assistant
           a == runs'[r].response
<1>1. /\ r \in Active /\ Active = {r} /\ slot \in AssistantPositions
      /\ messages[slot].content = None
  BY OpenSlotIsEmpty DEF Published
<1>2. Active' = {}
  BY <1>1 DEF Published, SameAttempt, Active, ActiveStatuses
<1>3. slot \in OpenSlots /\ OpenSlots' = {}
  BY <1>1, <1>2 DEF OpenSlots
<1>4. /\ DOMAIN messages' = DOMAIN messages
      /\ \A p \in DOMAIN messages :
           /\ messages'[p].role = messages[p].role
           /\ p # slot => messages'[p] = messages[p]
      /\ messages'[slot].content = a
  BY <1>1, PublishedMessages DEF AssistantPositions, IndInv
<1>5. AssistantPositions' = AssistantPositions
  BY <1>4 DEF AssistantPositions
<1>6. a \in Answers /\ exists' = exists
  BY DEF Published
<1> HIDE DEF slot, a
<1>7. Shown' = [Shown EXCEPT ![slot] = a]
  BY <1>1, <1>4, <1>5 DEF Shown, AssistantPositions
<1>8. slot \in DOMAIN Shown /\ Shown[slot] = None
  BY <1>1 DEF Shown
<1> QED
  BY <1>3, <1>6, <1>7, <1>8 DEF Chat!Publish, Chat!Slots, Shown, OpenSlots

LEMMA ReserveTurnAsks ==
  ASSUME IndInv, NEW q \in Requests, NEW r \in RunIds, ReserveTurn(q, r)
  PROVE  Chat!Ask
<1> DEFINE n == Len(messages)
<1>1. /\ exists /\ exists' = exists /\ Active = {} /\ runs[r].status = "absent"
      /\ WriteRow(r, NewRow(n + 1, n + 1 + 1, 1)) /\ TypeOK
  BY DEF ReserveTurn, IndInv
<1>2. n \in Nat /\ n + 1 \in Nat /\ n + 1 + 1 \in Nat /\ 1 \in Nat /\ n + 1 + 1 = n + 2
  BY <1>1 DEF TypeOK
<1>3. /\ DOMAIN messages' = DOMAIN messages \cup {n + 1, n + 2}
      /\ \A p \in DOMAIN messages : p \in 1..n /\ messages'[p] = messages[p]
  BY <1>1, ReserveTurnMessages
<1>4. /\ messages'[n + 1] = [role |-> "user", request |-> q, content |-> q]
      /\ messages'[n + 2] = [role |-> "assistant", request |-> None, content |-> None]
  BY <1>1, ReserveTurnMessages, Zenon
<1>5. /\ messages'[n + 1].role = "user"
      /\ messages'[n + 2].role = "assistant" /\ messages'[n + 2].content = None
  BY <1>4
<1> HIDE DEF n
<1>6. Active' = {r} /\ runs'[r].assistant = n + 2
  BY <1>1, <1>2, NewRunRows
<1>7. AssistantPositions' = AssistantPositions \cup {n + 2}
  BY <1>2, <1>3, <1>5 DEF AssistantPositions
<1>8. OpenSlots = {} /\ OpenSlots' = {n + 2}
  BY <1>1, <1>6 DEF OpenSlots
<1>9. /\ DOMAIN Shown = AssistantPositions
      /\ \A t \in AssistantPositions : t < n + 2
  BY <1>2, <1>3 DEF Shown, AssistantPositions
<1>10. Shown' = [t \in AssistantPositions \cup {n + 2} |->
                   IF t = n + 2 THEN None ELSE Shown[t]]
  <2>1. \A t \in AssistantPositions : messages'[t].content = Shown[t] /\ t # n + 2
    BY <1>2, <1>3 DEF Shown, AssistantPositions
  <2> QED
    BY <1>5, <1>7, <2>1 DEF Shown
<1>11. n + 2 \in DOMAIN Shown'
  BY <1>10
<1> QED
  BY <1>1, <1>8, <1>9, <1>10, <1>11 DEF Chat!Ask, Chat!Slots, Shown, OpenSlots

LEMMA RetryReopens ==
  ASSUME IndInv, NEW p \in RunIds, NEW r \in RunIds, Retry(p, r)
  PROVE  Chat!Reopen
<1> DEFINE slot == runs[p].assistant
<1>1. /\ Active = {} /\ slot = Len(messages) /\ runs[r].status = "absent"
      /\ WriteRow(r, NewRow(runs[p].user, slot, runs[p].attempt + 1))
      /\ messages' = messages /\ exists' = exists /\ TypeOK
  BY DEF Retry, IndInv
<1>2. /\ p \in Present /\ runs[p].user \in Nat /\ slot \in Nat
      /\ runs[p].attempt + 1 \in Nat
  BY <1>1 DEF Retry, Present, RetryableStatuses, TypeOK, Row
<1>3. Active' = {r} /\ runs'[r].assistant = slot
  BY <1>1, <1>2, NewRunRows
<1>4. slot \in AssistantPositions
  BY <1>2 DEF IndInv, RunsAreWired, AssistantPositions
(* The retried attempt is the latest there, so none has completed.         *)
<1>5. messages[slot].content = None
  <2> SUFFICES ASSUME NEW s \in Present, runs[s].status = "completed",
                      runs[s].assistant = slot
               PROVE  FALSE
    BY <1>4 DEF IndInv, TextComesFromCompleted
  <2>1. p \in RunsFor(slot) /\ p # s
    BY <1>2 DEF Retry, RetryableStatuses, RunsFor
  <2>2. runs[p].attempt < runs[s].attempt
    BY <2>1 DEF IndInv, LatestAttemptDecides
  <2>3. runs[s].attempt <= runs[p].attempt
    BY DEF Retry, RunsFor
  <2>4. runs[p].attempt \in Nat /\ runs[s].attempt \in Nat
    BY <1>1 DEF TypeOK, Row, Present
  <2> QED
    BY <2>2, <2>3, <2>4
<1> HIDE DEF slot
<1>6. OpenSlots = {} /\ OpenSlots' = {slot} /\ Shown' = Shown
  BY <1>1, <1>3 DEF OpenSlots, Shown, AssistantPositions
<1>7. DOMAIN Shown = AssistantPositions /\ Shown[slot] = None
  BY <1>1, <1>4, <1>5 DEF Shown
<1>8. \A t \in AssistantPositions : t <= slot
  BY <1>1 DEF AssistantPositions, TypeOK
<1> QED
  BY <1>1, <1>4, <1>6, <1>7, <1>8 DEF Chat!Reopen, Chat!Newest, Chat!Slots, Shown, OpenSlots

LEMMA DeleteDeletes ==
  ASSUME DeleteConversation
  PROVE  Chat!Delete
<1>1. /\ exists /\ ~exists' /\ messages' = << >>
      /\ runs' = [r \in RunIds |-> NoRow]
  BY DEF DeleteConversation
<1>2. Active' = {} /\ AssistantPositions' = {}
  BY <1>1 DEF Active, ActiveStatuses, NoRow, AssistantPositions
<1>3. OpenSlots' = {} /\ Shown' = [s \in {} |-> None]
  BY <1>2 DEF OpenSlots, Shown
<1> QED
  BY <1>1, <1>3 DEF Chat!Delete, Shown, OpenSlots

(* What the reader of a conversation sees follows the log of questions and *)
(* answers.                                                                *)
THEOREM ImplementsChatHolds == Spec => ImplementsChat
<1>1. Init => Chat!Init
  <2> SUFFICES ASSUME Init PROVE Chat!Init
    OBVIOUS
  <2>1. Active = {} /\ AssistantPositions = {} /\ exists
    BY DEF Init, Active, ActiveStatuses, NoRow, AssistantPositions
  <2> QED
    BY <2>1 DEF Chat!Init
<1>2. IndInv /\ [Next]_serviceVars => [Chat!Next]_(Chat!chatVars)
  <2> SUFFICES ASSUME IndInv, [Next]_serviceVars
               PROVE  Chat!Next \/ UNCHANGED Chat!chatVars
    OBVIOUS
  <2>1. CASE \E q \in Requests, r \in RunIds : ReserveTurn(q, r)
    BY <2>1, ReserveTurnAsks DEF Chat!Next
  <2>2. CASE \E r \in RunIds : RunStep(r)
    <3>1. PICK r \in RunIds : Progress(r) \/ Ended(r) \/ Published(r)
      BY <2>2, RunStepKinds DEF IndInv
    <3>2. CASE Progress(r)
      <4>1. Shown' = Shown /\ OpenSlots' = OpenSlots /\ exists' = exists
        BY <3>2, ProgressIsStutter
      <4> QED
        BY <4>1 DEF Chat!chatVars, Shown, OpenSlots
    <3> QED
      BY <3>1, <3>2, EndedGivesUp, PublishedPublishes DEF Chat!Next
  <2>3. CASE \E p, r \in RunIds : Retry(p, r)
    BY <2>3, RetryReopens DEF Chat!Next
  <2>4. CASE DeleteConversation
    BY <2>4, DeleteDeletes DEF Chat!Next
  <2>5. CASE UNCHANGED serviceVars
    BY <2>5 DEF serviceVars, Chat!chatVars, AssistantPositions, Active
  <2> QED
    BY <2>1, <2>2, <2>3, <2>4, <2>5 DEF Next
<1> QED
  BY <1>1, <1>2, Invariance, PTL DEF Spec, ImplementsChat, Chat!Spec
=============================================================================
