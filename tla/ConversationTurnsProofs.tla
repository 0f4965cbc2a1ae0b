---------------------- MODULE ConversationTurnsProofs ----------------------
(***************************************************************************)
(* Which question each slot and each attempt answers, and the history each *)
(* attempt was given: the proofs that need more than the invariant of      *)
(* ConversationServiceProofs.                                              *)
(***************************************************************************)
EXTENDS ConversationServiceProofs

-----------------------------------------------------------------------------
(***************************************************************************)
(* The second invariant, on top of the first: which question each slot and *)
(* each attempt answers.  The database's constraints and the answer to a   *)
(* resent request id both follow from it.                                  *)
(***************************************************************************)

(* An attempt answers the question right before its slot.                  *)
RunsAnswerTheirQuestion ==
  \A r \in Present :
    /\ runs[r].user \in DOMAIN messages
    /\ messages[runs[r].user].role = "user"
    /\ runs[r].assistant = runs[r].user + 1
    /\ runs[r].attempt > 0

RequestsAreUnique ==
  \A p, t \in DOMAIN messages :
    messages[p].request = messages[t].request => p = t \/ messages[p].request = None

QuestionsHaveSlots ==
  \A p \in UserPositions :
    /\ messages[p].request # None
    /\ p + 1 \in AssistantPositions
    /\ \E r \in Present : runs[r].assistant = p + 1

TurnsInv ==
  /\ messages # << >> => exists
  /\ RunsAnswerTheirQuestion
  /\ RequestsAreUnique
  /\ QuestionsHaveSlots

LEMMA InitTurnsInv == Init => TurnsInv
<1> SUFFICES ASSUME Init PROVE TurnsInv
  OBVIOUS
<1>1. Present = {} /\ UserPositions = {} /\ DOMAIN messages = {} /\ exists
  BY DEF Init, Present, UserPositions, NoRow
<1> QED
  BY <1>1 DEF TurnsInv, RunsAnswerTheirQuestion, RequestsAreUnique,
     QuestionsHaveSlots

(* The invariant looks at no status, no stage and no text.                 *)
LEMMA KeptTurnsInv ==
  ASSUME TurnsInv, exists' = exists, Present' = Present,
         messages # << >> \/ messages' = messages,
         DOMAIN messages' = DOMAIN messages,
         \A p \in DOMAIN messages : /\ messages'[p].role = messages[p].role
                                    /\ messages'[p].request = messages[p].request,
         \A s \in Present : /\ runs'[s].user = runs[s].user
                            /\ runs'[s].assistant = runs[s].assistant
                            /\ runs'[s].attempt = runs[s].attempt
  PROVE  TurnsInv'
<1>1. UserPositions' = UserPositions /\ AssistantPositions' = AssistantPositions
  BY DEF UserPositions, AssistantPositions
<1>2. messages' # << >> => exists'
  BY DEF TurnsInv
<1>3. RunsAnswerTheirQuestion'
  BY DEF TurnsInv, RunsAnswerTheirQuestion
<1>4. RequestsAreUnique'
  BY DEF TurnsInv, RequestsAreUnique
<1>5. QuestionsHaveSlots'
  <2> SUFFICES ASSUME NEW p \in UserPositions
               PROVE  /\ messages'[p].request # None
                      /\ p + 1 \in AssistantPositions
                      /\ \E r \in Present : runs'[r].assistant = p + 1
    BY <1>1 DEF QuestionsHaveSlots
  <2> QED
    BY DEF TurnsInv, QuestionsHaveSlots, UserPositions
<1> QED
  BY <1>2, <1>3, <1>4, <1>5 DEF TurnsInv

LEMMA RunStepTurnsInv ==
  ASSUME IndInv, TurnsInv, NEW r \in RunIds, RunStep(r)
  PROVE  TurnsInv'
<1>1. Progress(r) \/ Ended(r) \/ Published(r)
  BY RunStepKinds DEF IndInv
<1>2. /\ r \in Active /\ SameAttempt(r) /\ exists' = exists
      /\ runs'[r].status \in Statuses /\ TypeOK
  BY <1>1 DEF Progress, Ended, Published, Statuses, TerminalStatuses, IndInv
<1>3. /\ Present' = Present /\ r \in Present
      /\ \A s \in Present : /\ runs'[s].assistant = runs[s].assistant
                            /\ runs'[s].attempt = runs[s].attempt
                            /\ s # r => runs'[s] = runs[s]
  BY <1>2, SameAttemptRows
<1>4. \A s \in Present : runs'[s].user = runs[s].user
  BY <1>2, <1>3 DEF SameAttempt
<1>5. CASE Progress(r) \/ Ended(r)
  BY <1>2, <1>3, <1>4, <1>5, KeptTurnsInv DEF Progress, Ended
<1>6. CASE Published(r)
  <2>1. runs[r].assistant \in DOMAIN messages
    BY <1>3 DEF IndInv, RunsAreWired
  <2>2. /\ DOMAIN messages' = DOMAIN messages
        /\ \A p \in DOMAIN messages : /\ messages'[p].role = messages[p].role
                                      /\ messages'[p].request = messages[p].request
    BY <1>2, <1>6, <2>1, PublishedMessages
  <2>3. messages # << >>
    BY <2>1
  <2> QED
    BY <1>2, <1>3, <1>4, <2>2, <2>3, KeptTurnsInv
<1> QED
  BY <1>1, <1>5, <1>6

LEMMA ReserveTurnTurnsInv ==
  ASSUME IndInv, TurnsInv, NEW q \in Requests, NEW r \in RunIds, ReserveTurn(q, r)
  PROVE  TurnsInv'
<1> DEFINE n == Len(messages)
<1>1. /\ exists /\ exists' = exists /\ runs[r].status = "absent"
      /\ WriteRow(r, NewRow(n + 1, n + 1 + 1, 1))
      /\ \A p \in DOMAIN messages : messages[p].request # q
  BY DEF ReserveTurn
<1>2. TypeOK /\ n \in Nat /\ q # None
  BY NoneAssumption DEF IndInv, TypeOK
<1>3. /\ DOMAIN messages' = DOMAIN messages \cup {n + 1, n + 2}
      /\ \A p \in DOMAIN messages : p \in 1..n /\ messages'[p] = messages[p]
  BY <1>2, ReserveTurnMessages
<1>4. /\ messages'[n + 1] = [role |-> "user", request |-> q, content |-> q]
      /\ messages'[n + 2] = [role |-> "assistant", request |-> None, content |-> None]
  BY <1>2, ReserveTurnMessages, Zenon
<1>5. /\ messages'[n + 1].role = "user" /\ messages'[n + 1].request = q
      /\ messages'[n + 2].role = "assistant" /\ messages'[n + 2].request = None
  BY <1>4
<1>6. /\ Present' = Present \cup {r} /\ r \notin Present
      /\ \A s \in Present : s # r /\ runs'[s] = runs[s]
      /\ runs'[r].user = n + 1
      /\ runs'[r].assistant = n + 2
      /\ runs'[r].attempt = 1
  <2>1. n + 1 \in Nat /\ n + 1 + 1 \in Nat /\ 1 \in Nat /\ n + 1 + 1 = n + 2
    BY <1>2
  <2> HIDE DEF n
  <2> QED
    BY <1>1, <1>2, <2>1, NewRunRows
<1> HIDE DEF n
<1>7. /\ UserPositions' = UserPositions \cup {n + 1}
      /\ AssistantPositions' = AssistantPositions \cup {n + 2}
  BY <1>2, <1>3, <1>5 DEF UserPositions, AssistantPositions
<1>8. RunsAnswerTheirQuestion'
  BY <1>2, <1>3, <1>5, <1>6 DEF TurnsInv, RunsAnswerTheirQuestion
<1>9. RequestsAreUnique'
  BY <1>1, <1>2, <1>3, <1>5 DEF TurnsInv, RequestsAreUnique
<1>10. QuestionsHaveSlots'
  <2> SUFFICES ASSUME NEW p \in UserPositions'
               PROVE  /\ messages'[p].request # None
                      /\ p + 1 \in AssistantPositions'
                      /\ \E s \in Present' : runs'[s].assistant = p + 1
    BY DEF QuestionsHaveSlots
  <2>1. CASE p \in UserPositions
    <3>1. messages'[p] = messages[p]
      BY <1>3, <2>1 DEF UserPositions
    <3> QED
      BY <1>6, <1>7, <2>1, <3>1 DEF TurnsInv, QuestionsHaveSlots
  <2>2. CASE p = n + 1
    <3>1. p + 1 = n + 2 /\ messages'[p].request # None
      BY <1>2, <1>5, <2>2
    <3> QED
      BY <1>6, <1>7, <3>1
  <2> QED
    BY <1>7, <2>1, <2>2
<1> QED
  BY <1>1, <1>8, <1>9, <1>10 DEF TurnsInv

LEMMA RetryTurnsInv ==
  ASSUME IndInv, TurnsInv, NEW p \in RunIds, NEW r \in RunIds, Retry(p, r)
  PROVE  TurnsInv'
<1>1. /\ runs[r].status = "absent" /\ messages' = messages /\ exists' = exists
      /\ WriteRow(r, NewRow(runs[p].user, runs[p].assistant, runs[p].attempt + 1))
  BY DEF Retry
<1>2. /\ p \in Present /\ TypeOK
      /\ runs[p].user \in Nat /\ runs[p].assistant \in Nat /\ runs[p].attempt \in Nat
  BY DEF Retry, Present, RetryableStatuses, IndInv, TypeOK, Row
<1>3. /\ Present' = Present \cup {r} /\ r \notin Present
      /\ \A s \in Present : s # r /\ runs'[s] = runs[s]
      /\ runs'[r].user = runs[p].user
      /\ runs'[r].assistant = runs[p].assistant
      /\ runs'[r].attempt = runs[p].attempt + 1
  BY <1>1, <1>2, NewRunRows
<1>4. RunsAnswerTheirQuestion'
  BY <1>1, <1>2, <1>3 DEF TurnsInv, RunsAnswerTheirQuestion
<1>5. RequestsAreUnique'
  BY <1>1 DEF TurnsInv, RequestsAreUnique
<1>6. QuestionsHaveSlots'
  BY <1>1, <1>3 DEF TurnsInv, QuestionsHaveSlots, UserPositions, AssistantPositions
<1> QED
  BY <1>1, <1>4, <1>5, <1>6 DEF TurnsInv

LEMMA DeleteTurnsInv ==
  ASSUME DeleteConversation
  PROVE  TurnsInv'
<1>1. messages' = << >> /\ runs' = [r \in RunIds |-> NoRow]
  BY DEF DeleteConversation
<1>2. Present' = {} /\ UserPositions' = {} /\ DOMAIN messages' = {}
  BY <1>1 DEF Present, UserPositions, NoRow
<1> QED
  BY <1>1, <1>2 DEF TurnsInv, RunsAnswerTheirQuestion, RequestsAreUnique,
     QuestionsHaveSlots

(* Each slot belongs to the question before it, and each attempt to both.  *)
THEOREM TurnsInvariance == Spec => []TurnsInv
<1>1. Init => TurnsInv
  BY InitTurnsInv
<1>2. IndInv /\ TurnsInv /\ [Next]_serviceVars => TurnsInv'
  <2> SUFFICES ASSUME IndInv, TurnsInv, [Next]_serviceVars
               PROVE  TurnsInv'
    OBVIOUS
  <2>1. CASE \E q \in Requests, r \in RunIds : ReserveTurn(q, r)
    BY <2>1, ReserveTurnTurnsInv
  <2>2. CASE \E r \in RunIds : RunStep(r)
    BY <2>2, RunStepTurnsInv
  <2>3. CASE \E p, r \in RunIds : Retry(p, r)
    BY <2>3, RetryTurnsInv
  <2>4. CASE DeleteConversation
    BY <2>4, DeleteTurnsInv
  <2>5. CASE UNCHANGED serviceVars
    BY <2>5, KeptTurnsInv DEF serviceVars, Present
  <2> QED
    BY <2>1, <2>2, <2>3, <2>4, <2>5 DEF Next
<1> QED
  BY <1>1, <1>2, Invariance, PTL DEF Spec

(* No operation runs into a constraint of the database.                    *)
THEOREM ConstraintsNeverFireHolds == Spec => []ConstraintsNeverFire
<1>1. IndInv /\ TurnsInv => ConstraintsNeverFire
  <2> SUFFICES ASSUME IndInv, TurnsInv PROVE ConstraintsNeverFire
    OBVIOUS
  <2>1. MessagesTable
    BY DEF TurnsInv, RequestsAreUnique, MessagesTable
  <2>2. \A r \in Present : /\ {runs[r].user, runs[r].assistant} \subseteq DOMAIN messages
                           /\ runs[r].user # runs[r].assistant
                           /\ runs[r].attempt > 0
    <3> SUFFICES ASSUME NEW r \in Present
                 PROVE  /\ runs[r].user \in DOMAIN messages
                        /\ runs[r].assistant \in DOMAIN messages
                        /\ runs[r].user # runs[r].assistant
                        /\ runs[r].attempt > 0
      OBVIOUS
    <3>1. runs[r].user \in Nat
      BY DEF IndInv, TypeOK, Row, Present
    <3> QED
      BY <3>1 DEF IndInv, RunsAreWired, TurnsInv, RunsAnswerTheirQuestion
  <2> QED
    BY <2>1, <2>2 DEF ConstraintsNeverFire, RunsTable, IndInv,
       AttemptsAreNumberedApart, OneActiveRun
<1> QED
  BY <1>1, Invariance, TurnsInvariance, PTL

(* A resent request id finds one message, its slot and a run to report.    *)
THEOREM ResendFindsItsTurnHolds == Spec => []ResendFindsItsTurn
<1>1. IndInv /\ TurnsInv => ResendFindsItsTurn
  <2> SUFFICES ASSUME IndInv, TurnsInv, NEW p \in UserPositions
               PROVE  /\ \A t \in UserPositions :
                           messages[t].request = messages[p].request => t = p
                      /\ p + 1 \in AssistantPositions
                      /\ RunsFor(p + 1) # {}
                      /\ \A r \in Present :
                           runs[r].user = p <=> runs[r].assistant = p + 1
    BY DEF ResendFindsItsTurn
  <2>1. \A t \in UserPositions : messages[t].request = messages[p].request => t = p
    BY DEF TurnsInv, RequestsAreUnique, QuestionsHaveSlots, UserPositions
  <2>2. p + 1 \in AssistantPositions /\ RunsFor(p + 1) # {}
    BY DEF TurnsInv, QuestionsHaveSlots, RunsFor
  <2>3. p \in Nat /\ \A r \in Present : runs[r].user \in Nat
    BY DEF IndInv, TypeOK, Row, Present, UserPositions
  <2>4. \A r \in Present : runs[r].user = p <=> runs[r].assistant = p + 1
    BY <2>3 DEF TurnsInv, RunsAnswerTheirQuestion
  <2> QED
    BY <2>1, <2>2, <2>4
<1> QED
  BY <1>1, Invariance, TurnsInvariance, PTL
-----------------------------------------------------------------------------
(***************************************************************************)
(* The recorded histories.  A history is written from the exchanges        *)
(* answered at that moment; it stays right because the answered exchanges  *)
(* before a question no longer change once the question is asked.          *)
(***************************************************************************)

Answered(before) ==
  {p \in UserPositions : p < before /\ messages[p + 1].content # None}

RecentPart(history, before) ==
  /\ history \subseteq Answered(before)
  /\ \A p \in history, q \in Answered(before) : p < q => q \in history

HistoryInv ==
  \A r \in Present : RecentPart(runs[r].snapshot.history, runs[r].user)

(* The join on completed runs finds the exchanges whose slot shows text.   *)
LEMMA PairsAreAnswered ==
  ASSUME IndInv, TurnsInv, NEW r \in Present
  PROVE  CompletedPairs(runs[r].user) = Answered(runs[r].user)
<1> DEFINE u == runs[r].user
<1>1. u \in DOMAIN messages /\ messages[u].role = "user" /\ u \in Nat
  BY DEF TurnsInv, RunsAnswerTheirQuestion, IndInv, TypeOK, Row, Present
<1> HIDE DEF u
<1>2. ASSUME NEW s \in Present, runs[s].status = "completed", runs[s].user < u
      PROVE  runs[s].user \in Answered(u)
  <2>1. /\ runs[s].user \in UserPositions
        /\ runs[s].assistant = runs[s].user + 1
    BY DEF TurnsInv, RunsAnswerTheirQuestion, UserPositions
  <2>2. messages[runs[s].assistant].content # None
    BY <1>2, NoneAssumption DEF IndInv, CompletedArePublished
  <2> QED
    BY <1>2, <2>1, <2>2 DEF Answered
<1>3. ASSUME NEW p \in Answered(u)
      PROVE  \E s \in Present : /\ runs[s].status = "completed" /\ runs[s].user = p
                                /\ runs[s].user < u /\ runs[s].assistant < u
  <2>1. /\ p \in UserPositions /\ p < u /\ p \in Nat
        /\ p + 1 \in AssistantPositions /\ messages[p + 1].content # None
    BY DEF Answered, UserPositions, TurnsInv, QuestionsHaveSlots, IndInv, TypeOK
  <2>2. PICK s \in Present : runs[s].status = "completed" /\ runs[s].assistant = p + 1
    BY <2>1 DEF IndInv, TextComesFromCompleted
  <2>3. runs[s].user = p
    <3>1. runs[s].user \in Nat
      BY DEF IndInv, TypeOK, Row, Present
    <3> QED
      BY <2>1, <2>2, <3>1 DEF TurnsInv, RunsAnswerTheirQuestion
  <2>4. p + 1 # u
    BY <1>1, <2>1 DEF AssistantPositions
  <2> QED
    BY <1>1, <2>1, <2>2, <2>3, <2>4
<1>4. CompletedPairs(u) = Answered(u)
  BY <1>2, <1>3 DEF CompletedPairs
<1> QED
  BY <1>4 DEF u

(* A suffix from some exchange on leaves out none that is newer.           *)
LEMMA SuffixIsRecent ==
  ASSUME NEW u, Answered(u) \subseteq Nat, NEW h \in RecentSuffixes(Answered(u))
  PROVE  RecentPart(h, u)
<1>1. CASE h = {}
  BY <1>1 DEF RecentPart
<1>2. CASE \E cut \in Answered(u) : h = {q \in Answered(u) : q >= cut}
  <2>1. PICK cut \in Answered(u) : h = {q \in Answered(u) : q >= cut}
    BY <1>2
  <2>2. ASSUME NEW p \in h, NEW q \in Answered(u), p < q
        PROVE  q >= cut
    <3>1. p \in Nat /\ q \in Nat /\ cut \in Nat /\ p >= cut
      BY <2>1
    <3> QED
      BY <2>2, <3>1
  <2> QED
    BY <2>1, <2>2 DEF RecentPart
<1> QED
  BY <1>1, <1>2 DEF RecentSuffixes

(* Only the rewrite writes a run's history.                                *)
LEMMA RunStepHistory ==
  ASSUME TypeOK, NEW r \in RunIds, RunStep(r)
  PROVE  \/ runs'[r].snapshot.history = runs[r].snapshot.history
         \/ \E h \in RecentSuffixes(CompletedPairs(runs[r].user)) : SaveRewrite(r, h)
<1>1. runs \in [RunIds -> Row] /\ runs[r] \in Row /\ runs[r].snapshot \in Snapshot
  BY DEF TypeOK, Row
<1>2. CASE StartRun(r) \/ StartRetrieval(r) \/ ClaimGeneration(r)
  BY <1>1, <1>2 DEF StartRun, StartRetrieval, ClaimGeneration, Checkpoint,
     WriteRow, Row
<1>3. CASE SaveRetrieval(r, runs[r].snapshot)
  BY <1>1, <1>3 DEF SaveRetrieval, Checkpoint, WriteRow, Row
<1>4. CASE \E p \in RecentSuffixes(runs[r].snapshot.history) : SaveContext(r, p)
  BY <1>1, <1>4 DEF SaveContext, Checkpoint, WriteRow, Row, Snapshot
<1>5. CASE \E a \in Answers : Complete(r, a)
  BY <1>1, <1>5 DEF Complete, WriteRow, Row
<1>6. CASE (\E e \in ErrorCodes : Fail(r, e)) \/ Cancel(r)
  BY <1>1, <1>6 DEF Fail, Cancel, Terminate, WriteRow, Row
<1> QED
  BY <1>2, <1>3, <1>4, <1>5, <1>6 DEF RunStep

(* What was answered before a run's question stays as it was.              *)
LEMMA RunStepAnswered ==
  ASSUME IndInv, TurnsInv, NEW r \in RunIds, RunStep(r), NEW s \in Present
  PROVE  Answered(runs[s].user)' = Answered(runs[s].user) /\ runs'[s].user = runs[s].user
<1>1. Progress(r) \/ Ended(r) \/ Published(r)
  BY RunStepKinds DEF IndInv
<1>2. runs'[s].user = runs[s].user
  BY <1>1 DEF Progress, Ended, Published, SameAttempt, Present
<1>3. CASE Progress(r) \/ Ended(r)
  BY <1>2, <1>3 DEF Progress, Ended, Answered, UserPositions
<1>4. CASE Published(r)
  <2> DEFINE u == runs[s].user
             slot == runs[r].assistant
  <2>1. /\ r \in Active /\ r \in Present
        /\ slot \in DOMAIN messages /\ messages[slot].role = "assistant"
        /\ slot = Len(messages)
    BY <1>4 DEF Published, Active, Present, ActiveStatuses, IndInv, RunsAreWired,
       ActiveRunIsLastTurn
  <2>2. /\ DOMAIN messages' = DOMAIN messages
        /\ \A p \in DOMAIN messages :
             /\ messages'[p].role = messages[p].role
             /\ p # slot => messages'[p] = messages[p]
    BY <1>4, <2>1, PublishedMessages DEF IndInv
  <2>3. /\ u \in DOMAIN messages /\ messages[u].role = "user"
        /\ u \in 1..Len(messages) /\ Len(messages) \in Nat
    BY DEF TurnsInv, RunsAnswerTheirQuestion, IndInv, TypeOK
  <2>4. u # slot
    BY <2>1, <2>3
  <2>5. UserPositions' = UserPositions
    BY <2>2 DEF UserPositions
  <2> HIDE DEF u, slot
  <2>6. ASSUME NEW p \in UserPositions, p < u
        PROVE  messages'[p + 1] = messages[p + 1]
    <3>1. p \in 1..Len(messages) /\ p + 1 \in DOMAIN messages
      BY DEF TurnsInv, QuestionsHaveSlots, AssistantPositions, UserPositions,
         IndInv, TypeOK
    <3>2. p + 1 # slot
      BY <2>1, <2>3, <2>4, <2>6, <3>1
    <3> QED
      BY <2>2, <3>1, <3>2
  <2>7. {p \in UserPositions : p < u /\ messages'[p + 1].content # None} = Answered(u)
    BY <2>6 DEF Answered
  <2> QED
    BY <1>2, <2>5, <2>7 DEF Answered, u
<1> QED
  BY <1>1, <1>3, <1>4

LEMMA RunStepHistoryInv ==
  ASSUME IndInv, TurnsInv, HistoryInv, NEW r \in RunIds, RunStep(r)
  PROVE  HistoryInv'
<1>1. Progress(r) \/ Ended(r) \/ Published(r)
  BY RunStepKinds DEF IndInv
<1>2. /\ r \in Active /\ SameAttempt(r) /\ runs'[r].status \in Statuses /\ TypeOK
  BY <1>1 DEF Progress, Ended, Published, Statuses, TerminalStatuses, IndInv
<1>3. /\ Present' = Present /\ r \in Present
      /\ \A s \in Present : s # r => runs'[s] = runs[s]
  BY <1>2, SameAttemptRows
<1>4. SUFFICES ASSUME NEW s \in Present
               PROVE  RecentPart(runs'[s].snapshot.history, runs[s].user)
  <2>1. ASSUME NEW s \in Present
        PROVE  /\ Answered(runs[s].user)' = Answered(runs[s].user)
               /\ runs'[s].user = runs[s].user
    BY RunStepAnswered
  <2>2. ASSUME NEW s \in Present,
               RecentPart(runs'[s].snapshot.history, runs[s].user)
        PROVE  RecentPart(runs[s].snapshot.history, runs[s].user)'
    BY <2>1, <2>2 DEF RecentPart
  <2> QED
    BY <1>3, <1>4, <2>2 DEF HistoryInv
<1>5. CASE runs'[s].snapshot.history = runs[s].snapshot.history
  BY <1>5 DEF HistoryInv
<1>6. CASE runs'[s].snapshot.history # runs[s].snapshot.history
  <2>1. s = r
    BY <1>3, <1>6
  <2>2. PICK h \in RecentSuffixes(CompletedPairs(runs[r].user)) : SaveRewrite(r, h)
    BY <1>2, <1>6, <2>1, RunStepHistory
  <2>3. runs'[r].snapshot.history = h
    BY <1>2, <2>2 DEF SaveRewrite, Checkpoint, WriteRow, TypeOK, Row, Snapshot
  <2>4. CompletedPairs(runs[r].user) = Answered(runs[r].user)
    BY <1>3, PairsAreAnswered
  <2>5. Answered(runs[r].user) \subseteq Nat
    BY <1>2 DEF Answered, UserPositions, TypeOK
  <2> QED
    BY <2>1, <2>2, <2>3, <2>4, <2>5, SuffixIsRecent
<1> QED
  BY <1>5, <1>6

(* A new attempt starts without a history, and new messages come after all *)
(* the questions there are.                                                *)
LEMMA NewRunHistory ==
  ASSUME TypeOK, NEW r \in RunIds, NEW u \in Nat, NEW a \in Nat, NEW n \in Nat,
         WriteRow(r, NewRow(u, a, n))
  PROVE  runs'[r].snapshot.history = {}
BY DEF WriteRow, TypeOK, NewRow, NoRow, EmptySnapshot

LEMMA NewRunHistoryInv ==
  ASSUME HistoryInv, NEW r \in RunIds,
         Present' = Present \cup {r},
         \A s \in Present : runs'[s] = runs[s],
         \A s \in Present : Answered(runs[s].user)' = Answered(runs[s].user),
         runs'[r].snapshot.history = {}
  PROVE  HistoryInv'
<1>1. ASSUME NEW s \in Present
      PROVE  RecentPart(runs[s].snapshot.history, runs[s].user)'
  BY DEF HistoryInv, RecentPart
<1>2. RecentPart(runs[r].snapshot.history, runs[r].user)'
  BY DEF RecentPart
<1> QED
  BY <1>1, <1>2 DEF HistoryInv

LEMMA ReserveTurnHistoryInv ==
  ASSUME IndInv, TurnsInv, HistoryInv, NEW q \in Requests, NEW r \in RunIds,
         ReserveTurn(q, r)
  PROVE  HistoryInv'
<1> DEFINE n == Len(messages)
<1>1. /\ WriteRow(r, NewRow(n + 1, n + 1 + 1, 1)) /\ runs[r].status = "absent"
      /\ TypeOK
  BY DEF ReserveTurn, IndInv
<1>2. n \in Nat /\ n + 1 \in Nat /\ n + 1 + 1 \in Nat /\ 1 \in Nat
  BY <1>1 DEF TypeOK
<1>3. /\ DOMAIN messages' = DOMAIN messages \cup {n + 1, n + 2}
      /\ \A p \in DOMAIN messages : p \in 1..n /\ messages'[p] = messages[p]
  BY <1>1, ReserveTurnMessages
<1> HIDE DEF n
<1>4. /\ Present' = Present \cup {r}
      /\ \A s \in Present : runs'[s] = runs[s]
      /\ runs'[r].snapshot.history = {}
  BY <1>1, <1>2, NewRunRows, NewRunHistory
<1>5. ASSUME NEW s \in Present
      PROVE  Answered(runs[s].user)' = Answered(runs[s].user)
  <2> DEFINE u == runs[s].user
  <2>1. u \in 1..n
    BY <1>3 DEF TurnsInv, RunsAnswerTheirQuestion
  <2> HIDE DEF u
  <2>2. ASSUME NEW p \in UserPositions'
        PROVE  p < u => p \in UserPositions
    BY <1>2, <1>3, <2>1 DEF UserPositions
  <2>3. ASSUME NEW p \in UserPositions
        PROVE  p \in UserPositions' /\ messages'[p + 1] = messages[p + 1]
    BY <1>3 DEF UserPositions, TurnsInv, QuestionsHaveSlots, AssistantPositions
  <2>4. {p \in UserPositions' : p < u /\ messages'[p + 1].content # None} = Answered(u)
    BY <2>2, <2>3 DEF Answered
  <2> QED
    BY <1>4, <2>4 DEF Answered, u
<1> QED
  BY <1>4, <1>5, NewRunHistoryInv

LEMMA RetryHistoryInv ==
  ASSUME IndInv, HistoryInv, NEW p \in RunIds, NEW r \in RunIds, Retry(p, r)
  PROVE  HistoryInv'
<1>1. /\ runs[r].status = "absent" /\ messages' = messages /\ TypeOK
      /\ WriteRow(r, NewRow(runs[p].user, runs[p].assistant, runs[p].attempt + 1))
  BY DEF Retry, IndInv
<1>2. /\ runs[p].user \in Nat /\ runs[p].assistant \in Nat
      /\ runs[p].attempt + 1 \in Nat
  BY <1>1 DEF TypeOK, Row
<1>3. /\ Present' = Present \cup {r}
      /\ \A s \in Present : runs'[s] = runs[s]
      /\ runs'[r].snapshot.history = {}
  BY <1>1, <1>2, NewRunRows, NewRunHistory
<1>4. \A s \in Present : Answered(runs[s].user)' = Answered(runs[s].user)
  BY <1>1, <1>3 DEF Answered, UserPositions
<1> QED
  BY <1>3, <1>4, NewRunHistoryInv

LEMMA HistoryStep ==
  ASSUME IndInv, TurnsInv, HistoryInv, [Next]_serviceVars
  PROVE  HistoryInv'
<1>1. CASE \E q \in Requests, r \in RunIds : ReserveTurn(q, r)
  BY <1>1, ReserveTurnHistoryInv
<1>2. CASE \E r \in RunIds : RunStep(r)
  BY <1>2, RunStepHistoryInv
<1>3. CASE \E p, r \in RunIds : Retry(p, r)
  BY <1>3, RetryHistoryInv
<1>4. CASE DeleteConversation
  BY <1>4 DEF DeleteConversation, HistoryInv, Present, NoRow
<1>5. CASE UNCHANGED serviceVars
  BY <1>5 DEF serviceVars, HistoryInv, RecentPart, Answered, UserPositions, Present
<1> QED
  BY <1>1, <1>2, <1>3, <1>4, <1>5 DEF Next

(* A run's history stays a contiguous recent part of what was answered     *)
(* before its question.                                                    *)
THEOREM HistoryIsRecentSuffixHolds == Spec => []HistoryIsRecentSuffix
<1>1. Init => HistoryInv
  <2>1. Init => Present = {}
    BY DEF Init, Present, NoRow
  <2> QED
    BY <2>1 DEF HistoryInv
<1>2. IndInv /\ TurnsInv /\ HistoryInv /\ [Next]_serviceVars => HistoryInv'
  BY HistoryStep
<1>3. HistoryInv => HistoryIsRecentSuffix
  BY DEF HistoryInv, RecentPart, Answered, HistoryIsRecentSuffix
<1> QED
  BY <1>1, <1>2, <1>3, Invariance, TurnsInvariance, PTL DEF Spec
=============================================================================
