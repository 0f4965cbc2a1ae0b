--------------------- MODULE ConversationPipelineProofs ---------------------
(***************************************************************************)
(* Proofs about ConversationPipeline, for any number of runs, workers,     *)
(* requests and faults.  ConversationServiceProofs has the invariant of    *)
(* the tables, IndInv; what is added here relates each task to the row of  *)
(* its run, from the unlocked read to the save.                            *)
(***************************************************************************)
EXTENDS ConversationPipeline, ConversationServiceProofs

(* The task has claimed its run: other deliveries find the run taken.      *)
Claimed(w) == worker[w].pc \in Stepping \cup Handling

(* A claimed run never waits again.  One that is gone went with its        *)
(* conversation, so its key is not given to another run.                   *)
Begun(r) ==
  /\ runs[r].status # "pending"
  /\ runs[r].status = "absent" => ~exists

Retrieving == {"retrieving", "retrieve", "retrieved", "assemble", "context"}
Generating == {"generation", "model", "publish", "terminate", "withdraw"}

(* The row has a prompt, kept from the history it records.                 *)
Assembled(row) == row.snapshot.prompt \in RecentSuffixes(row.snapshot.history)

(* What the row of a run holds when an error of a stage is recorded on it; *)
(* of a doubted run it may hold what that stage saved, too.                *)
NamesStage(r, error, row, doubted) ==
  /\ error = "rewrite_failed" =>
       (row.rewritten => r \in doubted) /\ row.snapshot.prompt = None
  /\ error = "retrieval_failed" => row.rewritten /\ row.snapshot.prompt = None
  /\ error = "context_failed" =>
       row.rewritten /\ (row.snapshot.prompt # None => r \in doubted)
  /\ error \in AnswerErrors => Assembled(row)

RowFits(r, row, doubted) ==
  /\ row.status \in {"absent", "pending"} =>
       ~row.started /\ ~row.rewritten /\ row.snapshot.prompt = None
  /\ row.status = "running" => row.started
  /\ row.status = "completed" => row.snapshot.prompt # None
  /\ row.status = "failed" => (row.error = "queue_unavailable" <=> ~row.started)
  /\ row.status # "failed" => row.error = None
  /\ row.snapshot.prompt # None => Assembled(row)
  /\ NamesStage(r, row.error, row, doubted)

(* What the row of a running run holds, by where its task stands, and what *)
(* the task has read of it.                                                *)
RowAwaits(task, row, doubted) ==
  /\ task.pc \in {"load", "rewrite"} => ~row.rewritten /\ row.snapshot.prompt = None
  /\ task.pc \in Retrieving => row.rewritten /\ row.snapshot.prompt = None
  /\ task.pc \in Generating => Assembled(row)
  /\ task.pc \in {"model", "publish"} => row.snapshot.prompt # None
  /\ task.pc = "retrieved" => task.snapshot = row.snapshot
  /\ task.pc = "context" => task.prompt \in RecentSuffixes(row.snapshot.history)
  /\ task.pc \in {"model", "publish"} => task.prompt = row.snapshot.prompt
  /\ task.pc = "failing" => NamesStage(task.run, task.error, row, doubted)

TaskFits(task, row, doubted) ==
  /\ task.pc = "terminate" => task.error \in AnswerErrors
  /\ task.pc = "failing" => task.error \in StageErrors
  /\ row.status = "running" => RowAwaits(task, row, doubted)

RowsFit == \A r \in RunIds : RowFits(r, runs[r], unsure)

TasksFit ==
  \A w \in Workers :
    /\ worker[w].pc # "idle" => worker[w].run \in RunIds
    /\ Claimed(w) => /\ Begun(worker[w].run)
                     /\ TaskFits(worker[w], runs[worker[w].run], unsure)

(* The history a task has read is still what a rewrite would read now.     *)
HeldHistory ==
  \A w \in Workers :
    At(w, "rewrite") /\ runs[worker[w].run].status = "running" =>
      worker[w].history \in RecentSuffixes(CompletedPairs(runs[worker[w].run].user))

PipelineInv ==
  /\ PipelineTypeOK
  /\ RowsFit
  /\ TasksFit
  /\ HeldHistory
  /\ OneWorkerPerRun
  /\ NoOrphanedRun

-----------------------------------------------------------------------------
(* What any operation leaves of a run that was claimed, and of the         *)
(* exchanges a running one was asked after.                                *)

(* Nothing brings an attempt back to waiting.                              *)
LEMMA RunStepStatus ==
  ASSUME TypeOK, NEW r \in RunIds, runs[r].status = "running", RunStep(r)
  PROVE  runs'[r].status # "pending"
<1>1. runs \in [RunIds -> Row] /\ runs[r] \in Row
  BY DEF TypeOK
<1>2. CASE StartRun(r)
  BY <1>2 DEF StartRun
<1>3. CASE \E h \in RecentSuffixes(CompletedPairs(runs[r].user)) : SaveRewrite(r, h)
  BY <1>1, <1>3 DEF SaveRewrite, Checkpoint, WriteRow, Row
<1>4. CASE StartRetrieval(r) \/ ClaimGeneration(r)
  BY <1>1, <1>4 DEF StartRetrieval, ClaimGeneration, Checkpoint, WriteRow, Row
<1>5. CASE SaveRetrieval(r, runs[r].snapshot)
  BY <1>1, <1>5 DEF SaveRetrieval, Checkpoint, WriteRow, Row
<1>6. CASE \E p \in RecentSuffixes(runs[r].snapshot.history) : SaveContext(r, p)
  BY <1>1, <1>6 DEF SaveContext, Checkpoint, WriteRow, Row
<1>7. CASE \E a \in Answers : Complete(r, a)
  BY <1>1, <1>7 DEF Complete, WriteRow, Row
<1>8. CASE (\E e \in ErrorCodes : Fail(r, e)) \/ Cancel(r)
  BY <1>1, <1>8 DEF Fail, Cancel, Terminate, WriteRow, Row
<1> QED
  BY <1>2, <1>3, <1>4, <1>5, <1>6, <1>7, <1>8 DEF RunStep

LEMMA BegunStays ==
  ASSUME IndInv, [Next]_serviceVars, NEW r \in RunIds, Begun(r)
  PROVE  /\ Begun(r)'
         /\ runs'[r].status = "running" => runs[r].status = "running"
<1>0. TypeOK
  BY DEF IndInv
<1>1. CASE \E q \in Requests, s \in RunIds : ReserveTurn(q, s)
  <2>1. PICK q \in Requests, s \in RunIds : ReserveTurn(q, s)
    BY <1>1
  <2>2. /\ exists /\ exists' = exists /\ runs[s].status = "absent"
        /\ WriteRow(s, NewRow(Len(messages) + 1, Len(messages) + 1 + 1, 1))
    BY <2>1 DEF ReserveTurn
  <2> QED
    BY <1>0, <2>2 DEF WriteRow, TypeOK, Begun
<1>2. CASE \E s \in RunIds : RunStep(s)
  <2>1. PICK s \in RunIds : RunStep(s)
    BY <1>2
  <2>2. /\ s \in Active /\ SameAttempt(s) /\ exists' = exists
        /\ runs'[s].status \in Statuses
    BY <1>0, <2>1, RunStepKinds DEF Progress, Ended, Published, Statuses, TerminalStatuses
  <2>3. \A t \in RunIds \ {s} : runs'[t] = runs[t]
    BY <2>2 DEF SameAttempt
  <2>4. s = r => runs[r].status = "running" /\ runs'[r].status # "absent"
    BY <2>2 DEF Active, ActiveStatuses, Begun, Statuses, TerminalStatuses,
       RetryableStatuses
  <2>5. s = r => runs'[r].status # "pending"
    <3> SUFFICES ASSUME s = r PROVE runs'[r].status # "pending"
      OBVIOUS
    <3>1. runs[r].status = "running" /\ RunStep(r)
      BY <2>1, <2>4
    <3> QED
      BY <1>0, <3>1, RunStepStatus
  <2> QED
    BY <2>2, <2>3, <2>4, <2>5 DEF Begun
<1>3. CASE \E p, s \in RunIds : Retry(p, s)
  <2>1. PICK p \in RunIds, s \in RunIds : Retry(p, s)
    BY <1>3
  <2>2. /\ runs[s].status = "absent" /\ p \in Present /\ exists' = exists
        /\ WriteRow(s, NewRow(runs[p].user, runs[p].assistant, runs[p].attempt + 1))
    BY <2>1 DEF Retry, Present, RetryableStatuses
  <2>3. exists
    BY <2>2 DEF IndInv, RunsAreWired
  <2> QED
    BY <1>0, <2>2, <2>3 DEF WriteRow, TypeOK, Begun
<1>4. CASE DeleteConversation
  BY <1>4 DEF DeleteConversation, Begun, NoRow
<1>5. CASE UNCHANGED serviceVars
  BY <1>5 DEF serviceVars, Begun
<1> QED
  BY <1>1, <1>2, <1>3, <1>4, <1>5 DEF Next

(* CompletedPairs after the step.                                          *)
PairsNext(before) ==
  {runs'[r].user : r \in {s \in Present' :
      /\ runs'[s].status = "completed"
      /\ runs'[s].user < before
      /\ runs'[s].assistant < before}}

LEMMA PairsStay ==
  ASSUME IndInv, [Next]_serviceVars, NEW r \in RunIds,
         runs[r].status = "running", runs'[r].status = "running"
  PROVE  /\ runs'[r].user = runs[r].user
         /\ PairsNext(runs[r].user) = CompletedPairs(runs[r].user)
<1>0. TypeOK /\ r \in Active
  BY DEF IndInv, Active, ActiveStatuses
<1>1. CASE \E q \in Requests, s \in RunIds : ReserveTurn(q, s)
  BY <1>0, <1>1 DEF ReserveTurn
<1>2. CASE \E s \in RunIds : RunStep(s)
  <2>1. PICK s \in RunIds : RunStep(s)
    BY <1>2
  <2>2. s \in Active /\ SameAttempt(s) /\ runs'[s].status \in Statuses
    BY <1>0, <2>1, RunStepKinds DEF Progress, Ended, Published, Statuses, TerminalStatuses
  <2>3. s = r
    BY <1>0, <2>2 DEF IndInv, OneActiveRun
  <2>4. /\ Present' = Present
        /\ \A t \in Present : t \in RunIds /\ (t # r => runs'[t] = runs[t])
    BY <1>0, <2>2, <2>3, SameAttemptRows
  <2> QED
    BY <2>2, <2>3, <2>4 DEF SameAttempt, CompletedPairs, PairsNext
<1>3. CASE \E p, s \in RunIds : Retry(p, s)
  BY <1>0, <1>3 DEF Retry
<1>4. CASE DeleteConversation
  BY <1>4 DEF DeleteConversation, NoRow
<1>5. CASE UNCHANGED serviceVars
  BY <1>5 DEF serviceVars, CompletedPairs, PairsNext, Present
<1> QED
  BY <1>1, <1>2, <1>3, <1>4, <1>5 DEF Next
-----------------------------------------------------------------------------
(***************************************************************************)
(* What the worker's saves leave on the row.                               *)
(***************************************************************************)

OnlyRow(r) == \A s \in RunIds \ {r} : runs'[s] = runs[s]

(* The columns the worker's place depends on stay as they were.            *)
SameFields(row, old) ==
  /\ row.started = old.started
  /\ row.rewritten = old.rewritten
  /\ row.snapshot = old.snapshot
  /\ row.error = old.error

LEMMA StartRunRow ==
  ASSUME TypeOK, NEW r \in RunIds, StartRun(r)
  PROVE  /\ OnlyRow(r)
         /\ runs'[r].status = "running" /\ runs'[r].started
         /\ runs'[r].rewritten = runs[r].rewritten
         /\ runs'[r].snapshot = runs[r].snapshot
         /\ runs'[r].error = runs[r].error
<1>1. runs \in [RunIds -> Row] /\ runs[r] \in Row
  BY DEF TypeOK
<1> QED
  BY <1>1 DEF StartRun, WriteRow, Row, OnlyRow

LEMMA SaveRewriteRow ==
  ASSUME TypeOK, NEW r \in RunIds, NEW h, SaveRewrite(r, h)
  PROVE  /\ OnlyRow(r)
         /\ runs'[r].status = "running" /\ runs[r].status = "running"
         /\ runs'[r].started = runs[r].started
         /\ runs'[r].rewritten
         /\ runs'[r].snapshot.prompt = runs[r].snapshot.prompt
         /\ runs'[r].error = runs[r].error
<1>1. runs \in [RunIds -> Row] /\ runs[r] \in Row
  BY DEF TypeOK
<1> QED
  BY <1>1 DEF SaveRewrite, Checkpoint, MayCheckpoint, WriteRow, Row, Snapshot, OnlyRow

LEMMA StartRetrievalRow ==
  ASSUME TypeOK, NEW r \in RunIds, StartRetrieval(r)
  PROVE  /\ OnlyRow(r)
         /\ runs'[r].status = "running" /\ runs[r].status = "running"
         /\ SameFields(runs'[r], runs[r])
<1>1. runs \in [RunIds -> Row] /\ runs[r] \in Row
  BY DEF TypeOK
<1> QED
  BY <1>1 DEF StartRetrieval, Checkpoint, MayCheckpoint, WriteRow, Row, OnlyRow, SameFields

LEMMA SaveRetrievalRow ==
  ASSUME TypeOK, NEW r \in RunIds, SaveRetrieval(r, runs[r].snapshot)
  PROVE  /\ OnlyRow(r)
         /\ runs'[r].status = "running" /\ runs[r].status = "running"
         /\ SameFields(runs'[r], runs[r])
<1>1. runs \in [RunIds -> Row] /\ runs[r] \in Row
  BY DEF TypeOK
<1> QED
  BY <1>1 DEF SaveRetrieval, Checkpoint, MayCheckpoint, WriteRow, Row, OnlyRow, SameFields

LEMMA SaveContextRow ==
  ASSUME TypeOK, NEW r \in RunIds, NEW p, SaveContext(r, p)
  PROVE  /\ OnlyRow(r)
         /\ runs'[r].status = "running" /\ runs[r].status = "running"
         /\ runs'[r].started = runs[r].started
         /\ runs'[r].rewritten = runs[r].rewritten
         /\ runs'[r].snapshot.history = runs[r].snapshot.history
         /\ runs'[r].snapshot.prompt = p
         /\ runs'[r].error = runs[r].error
<1>1. runs \in [RunIds -> Row] /\ runs[r] \in Row
  BY DEF TypeOK
<1> QED
  BY <1>1 DEF SaveContext, Checkpoint, MayCheckpoint, WriteRow, Row, Snapshot, OnlyRow

LEMMA ClaimGenerationRow ==
  ASSUME TypeOK, NEW r \in RunIds, ClaimGeneration(r)
  PROVE  /\ OnlyRow(r)
         /\ runs'[r].status = "running" /\ runs[r].status = "running"
         /\ runs[r].snapshot.prompt # None
         /\ SameFields(runs'[r], runs[r])
<1>1. runs \in [RunIds -> Row] /\ runs[r] \in Row
  BY DEF TypeOK
<1> QED
  BY <1>1 DEF ClaimGeneration, MayClaimGeneration, WriteRow, Row, OnlyRow, SameFields

LEMMA CompleteRow ==
  ASSUME TypeOK, NEW r \in RunIds, NEW a, Complete(r, a)
  PROVE  /\ OnlyRow(r)
         /\ runs'[r].status = "completed" /\ runs[r].status = "running"
         /\ SameFields(runs'[r], runs[r])
<1>1. runs \in [RunIds -> Row] /\ runs[r] \in Row
  BY DEF TypeOK
<1> QED
  BY <1>1 DEF Complete, WriteRow, Row, OnlyRow, SameFields

LEMMA FailRow ==
  ASSUME TypeOK, NEW r \in RunIds, NEW e, Fail(r, e)
  PROVE  /\ OnlyRow(r)
         /\ runs'[r].status = "failed" /\ r \in Active
         /\ runs'[r].started = runs[r].started
         /\ runs'[r].rewritten = runs[r].rewritten
         /\ runs'[r].snapshot = runs[r].snapshot
         /\ runs'[r].error = e
<1>1. runs \in [RunIds -> Row] /\ runs[r] \in Row
  BY DEF TypeOK
<1> QED
  BY <1>1 DEF Fail, Terminate, WriteRow, Row, OnlyRow

LEMMA CancelRow ==
  ASSUME TypeOK, NEW r \in RunIds, Cancel(r)
  PROVE  /\ OnlyRow(r)
         /\ runs'[r].status = "cancelled" /\ r \in Active
         /\ runs'[r].started = runs[r].started
         /\ runs'[r].rewritten = runs[r].rewritten
         /\ runs'[r].snapshot = runs[r].snapshot
         /\ runs'[r].error = None
<1>1. runs \in [RunIds -> Row] /\ runs[r] \in Row
  BY DEF TypeOK
<1> QED
  BY <1>1 DEF Cancel, Terminate, WriteRow, Row, OnlyRow

(* A code is not NULL and no code stands for another's cause.              *)
LEMMA Codes ==
  /\ None \notin AnswerErrors /\ None \notin StageErrors
  /\ None \notin {"rewrite_failed", "retrieval_failed", "context_failed",
                  "queue_unavailable"}
  /\ AnswerErrors \subseteq ErrorCodes /\ StageErrors \subseteq ErrorCodes
  /\ "queue_unavailable" \in ErrorCodes
  /\ "queue_unavailable" \notin AnswerErrors \cup StageErrors
  /\ AnswerErrors \cap {"rewrite_failed", "retrieval_failed", "context_failed"} = {}
  /\ "answer_generation_failed" \in AnswerErrors
  /\ \A e \in StageErrors :
       e \in AnswerErrors \/ e \in {"rewrite_failed", "retrieval_failed", "context_failed"}
BY PipelineAssumption, NoneAssumption DEF StageErrors

(* A row that ends without an error keeps fitting, whatever it holds.      *)
LEMMA CancelledFits ==
  ASSUME NEW r, NEW row, NEW old, NEW doubted, RowFits(r, old, doubted),
         old.status \in ActiveStatuses, row.status = "cancelled",
         SameFields(row, old)
  PROVE  RowFits(r, row, doubted)
BY Codes DEF RowFits, SameFields, NamesStage, Assembled, ActiveStatuses

(* What fits a row keeps fitting it when more saves are doubted.           *)
LEMMA DoubtGrows ==
  ASSUME NEW doubted, NEW more, doubted \subseteq more
  PROVE  /\ \A r, row : RowFits(r, row, doubted) => RowFits(r, row, more)
         /\ \A task, row : TaskFits(task, row, doubted) => TaskFits(task, row, more)
<1>1. \A r, error, row :
        NamesStage(r, error, row, doubted) => NamesStage(r, error, row, more)
  BY DEF NamesStage
<1> QED
  BY <1>1 DEF RowFits, TaskFits, RowAwaits
-----------------------------------------------------------------------------
(***************************************************************************)
(* A worker's step touches its own task and the row of its run.  Either    *)
(* the task goes on with the run, or it ends and leaves nothing to do.     *)
(***************************************************************************)

OnlyTask(w) ==
  /\ worker' \in [Workers -> Task]
  /\ \A v \in Workers \ {w} : worker'[v] = worker[v]
  /\ UNCHANGED <<dispatch, queue, abandoned>>
  /\ faults' \in 0..MaxFaults
  /\ unsure \subseteq unsure' /\ unsure' \subseteq RunIds

Advances(w) ==
  LET r == worker[w].run IN
    /\ OnlyTask(w)
    /\ worker'[w].run = r
    /\ worker'[w].pc \in Stepping \cup Handling
    /\ OnlyRow(r)
    /\ RowFits(r, runs'[r], unsure')
    /\ TaskFits(worker'[w], runs'[r], unsure')
    /\ \/ Claimed(w)
       \/ runs[r].status = "pending" /\ runs'[r].status = "running"
    /\ worker'[w].pc = "rewrite" =>
         /\ runs' = runs
         /\ worker'[w].history \in RecentSuffixes(CompletedPairs(runs[r].user))

Ends(w) ==
  LET r == worker[w].run IN
    /\ OnlyTask(w)
    /\ worker'[w] = Idle
    /\ OnlyRow(r)
    /\ RowFits(r, runs'[r], unsure')
    /\ runs'[r].status # "pending"
    /\ IF Claimed(w) THEN runs'[r].status # "running" ELSE runs' = runs

TaskStep(w) ==
  /\ RunStep(worker[w].run) \/ UNCHANGED serviceVars
  /\ Advances(w) \/ Ends(w)

LEMMA TaskTypes ==
  ASSUME PipelineTypeOK, NEW w \in Workers,
         NEW pc \in Stepping \cup Handling
  PROVE  /\ Idle \in Task
         /\ Moved(w, pc) \in Task
         /\ Moved(w, pc).pc = pc
         /\ Moved(w, pc).run = worker[w].run
<1>1. Idle \in Task
  BY NoRowType DEF Idle, Task
<1>2. worker[w] \in Task
  BY DEF PipelineTypeOK
<1> QED
  BY <1>1, <1>2 DEF Moved, Idle, Task

LEMMA TaskWith ==
  ASSUME PipelineTypeOK, NEW w \in Workers, NEW pc \in Stepping \cup Handling
  PROVE  /\ \A h \in SUBSET Nat :
              LET task == [Moved(w, pc) EXCEPT !.history = h] IN
                /\ task \in Task /\ task.pc = pc /\ task.run = worker[w].run
                /\ task.history = h
         /\ \A s \in Snapshot :
              LET task == [Moved(w, pc) EXCEPT !.snapshot = s] IN
                /\ task \in Task /\ task.pc = pc /\ task.run = worker[w].run
                /\ task.snapshot = s
         /\ \A p \in {None} \cup SUBSET Nat :
              LET task == [Moved(w, pc) EXCEPT !.prompt = p] IN
                /\ task \in Task /\ task.pc = pc /\ task.run = worker[w].run
                /\ task.prompt = p
         /\ \A e \in ErrorCodes :
              LET task == [Moved(w, pc) EXCEPT !.error = e] IN
                /\ task \in Task /\ task.pc = pc /\ task.run = worker[w].run
                /\ task.error = e
<1>1. /\ Moved(w, pc) \in Task /\ Moved(w, pc).pc = pc
      /\ Moved(w, pc).run = worker[w].run
  BY TaskTypes
<1> QED
  BY <1>1 DEF Task

LEMMA BecomeTask ==
  ASSUME PipelineTypeOK, NEW w \in Workers, NEW task \in Task, Become(w, task)
  PROVE  OnlyTask(w) /\ worker'[w] = task /\ unsure' = unsure
BY DEF Become, OnlyTask, PipelineTypeOK

(* The facts about a claimed task that each of its steps starts from.      *)
LEMMA ClaimedTask ==
  ASSUME PipelineInv, NEW w \in Workers, worker[w].pc \in Stepping \cup Handling
  PROVE  /\ Claimed(w)
         /\ worker[w].run \in RunIds
         /\ Begun(worker[w].run)
         /\ TaskFits(worker[w], runs[worker[w].run], unsure)
         /\ RowFits(worker[w].run, runs[worker[w].run], unsure)
         /\ PipelineTypeOK /\ TypeOK
<1>1. worker[w].pc # "idle"
  BY DEF Stepping, Handling
<1> QED
  BY <1>1 DEF Claimed, PipelineInv, TasksFit, RowsFit, PipelineTypeOK

(* The task of a step that fails, which holds the code of its stage.       *)
LEMMA FailingTask ==
  ASSUME PipelineInv, NEW w \in Workers, worker[w].pc \in Stepping
  PROVE  LET task == Failing(w) IN
           /\ task \in Task /\ task.pc = "failing" /\ task.run = worker[w].run
           /\ task.error = StageError(worker[w].pc) /\ task.error \in StageErrors
<1>1. StageError(worker[w].pc) \in StageErrors
  BY DEF Stepping, StageError, StageErrors
<1>2. PipelineTypeOK
  BY DEF PipelineInv
<1> QED
  BY <1>1, <1>2, TaskWith, Codes DEF Failing, Handling

(* An error on the way, with nothing of the step saved: the task holds a   *)
(* code that fits the row.                                                 *)
LEMMA StepFails ==
  ASSUME PipelineInv, NEW w \in Workers, worker[w].pc \in Stepping,
         Become(w, Failing(w)), UNCHANGED serviceVars
  PROVE  TaskStep(w)
<1> DEFINE r == worker[w].run
           e == StageError(worker[w].pc)
           task == Failing(w)
<1>1. /\ Claimed(w) /\ r \in RunIds
      /\ TaskFits(worker[w], runs[r], unsure) /\ RowFits(r, runs[r], unsure) /\ PipelineTypeOK
  BY ClaimedTask
<1>2. /\ task \in Task /\ task.pc = "failing" /\ task.run = r /\ task.error = e
      /\ e \in StageErrors
  BY FailingTask
<1>3. OnlyTask(w) /\ worker'[w] = task /\ unsure' = unsure
  BY <1>1, <1>2, BecomeTask
<1> HIDE DEF task
<1>4. runs' = runs
  BY DEF serviceVars
<1>5. runs[r].status = "running" => NamesStage(r, e, runs[r], unsure)
  <2> SUFFICES ASSUME runs[r].status = "running"
               PROVE  NamesStage(r, e, runs[r], unsure)
    OBVIOUS
  <2>1. RowAwaits(worker[w], runs[r], unsure)
    BY <1>1 DEF TaskFits
  <2>2. CASE worker[w].pc \in {"load", "rewrite"}
    BY <2>1, <2>2, Codes DEF RowAwaits, StageError, NamesStage
  <2>3. CASE worker[w].pc \in {"retrieving", "retrieve", "retrieved"}
    BY <2>1, <2>3, Codes DEF RowAwaits, StageError, NamesStage, Retrieving
  <2>4. CASE worker[w].pc \in {"assemble", "context"}
    BY <2>1, <2>4, Codes DEF RowAwaits, StageError, NamesStage, Retrieving
  <2>5. CASE worker[w].pc \in Generating
    BY <2>1, <2>5, Codes DEF RowAwaits, StageError, NamesStage, Generating
  <2> QED
    BY <2>2, <2>3, <2>4, <2>5 DEF Stepping, Generating
<1>6. TaskFits(task, runs[r], unsure)
  BY <1>2, <1>5 DEF TaskFits, RowAwaits, Retrieving, Generating
<1> QED
  BY <1>1, <1>2, <1>3, <1>4, <1>6 DEF TaskStep, Advances, OnlyRow, Handling

(* A save that is there but was taken for a failure: the code still fits   *)
(* the row, whose run is doubted from now on.                              *)
LEMMA SaveUnsure ==
  ASSUME PipelineInv, NEW w \in Workers, worker[w].pc \in Stepping,
         CommitUnsure(w), RunStep(worker[w].run), OnlyRow(worker[w].run),
         RowFits(worker[w].run, runs'[worker[w].run], unsure),
         runs'[worker[w].run].status = "running" =>
           NamesStage(worker[w].run, StageError(worker[w].pc),
                      runs'[worker[w].run], unsure \cup {worker[w].run})
  PROVE  TaskStep(w)
<1> DEFINE r == worker[w].run
           task == Failing(w)
<1>1. Claimed(w) /\ r \in RunIds /\ PipelineTypeOK
  BY ClaimedTask
<1>2. /\ task \in Task /\ task.pc = "failing" /\ task.run = r
      /\ task.error = StageError(worker[w].pc) /\ task.error \in StageErrors
  BY FailingTask
<1>3. /\ worker' = [worker EXCEPT ![w] = task] /\ unsure' = unsure \cup {r}
      /\ UNCHANGED <<dispatch, queue, abandoned>> /\ faults' \in 0..MaxFaults
  BY <1>1, PipelineAssumption DEF CommitUnsure, Fault, PipelineTypeOK
<1> HIDE DEF task
<1>4. OnlyTask(w) /\ worker'[w] = task
  BY <1>1, <1>2, <1>3 DEF OnlyTask, PipelineTypeOK
<1>5. RowFits(r, runs'[r], unsure')
  BY <1>3, DoubtGrows
<1>6. TaskFits(task, runs'[r], unsure')
  BY <1>2, <1>3 DEF TaskFits, RowAwaits, Retrieving, Generating
<1> QED
  BY <1>1, <1>2, <1>4, <1>5, <1>6 DEF TaskStep, Advances, Handling

(* A task that ends without touching its row, which is not its to finish.  *)
LEMMA FinishQuietly ==
  ASSUME PipelineInv, NEW w \in Workers, worker[w].run \in RunIds,
         runs[worker[w].run].status # "pending",
         Claimed(w) => runs[worker[w].run].status # "running",
         Finish(w), UNCHANGED serviceVars
  PROVE  TaskStep(w)
<1>1. PipelineTypeOK /\ RowFits(worker[w].run, runs[worker[w].run], unsure)
  BY DEF PipelineInv, RowsFit
<1>2. Idle \in Task
  BY NoRowType DEF Idle, Task
<1>3. OnlyTask(w) /\ worker'[w] = Idle /\ unsure' = unsure
  BY <1>1, <1>2, BecomeTask DEF Finish
<1> QED
  BY <1>1, <1>3 DEF TaskStep, Ends, OnlyRow, serviceVars, ActiveStatuses

LEMMA ClaimRunStep ==
  ASSUME PipelineInv, NEW w \in Workers, ClaimRun(w)
  PROVE  TaskStep(w)
<1> DEFINE r == worker[w].run
<1>1. /\ At(w, "claim") /\ r \in RunIds /\ PipelineTypeOK /\ TypeOK
      /\ RowFits(r, runs[r], unsure)
  BY DEF ClaimRun, At, PipelineInv, TasksFit, RowsFit, PipelineTypeOK
<1>2. CASE StartRun(r) /\ Goto(w, "load")
  <2>1. /\ OnlyRow(r)
        /\ runs'[r].status = "running" /\ runs'[r].started
        /\ runs'[r].rewritten = runs[r].rewritten
        /\ runs'[r].snapshot = runs[r].snapshot
        /\ runs'[r].error = runs[r].error
    BY <1>1, <1>2, StartRunRow
  <2>2. runs[r].status = "pending" /\ RunStep(r)
    BY <1>2 DEF StartRun, RunStep
  <2>3. /\ Moved(w, "load") \in Task /\ Moved(w, "load").pc = "load"
        /\ Moved(w, "load").run = r
    BY <1>1, TaskTypes DEF Stepping
  <2>4. OnlyTask(w) /\ worker'[w] = Moved(w, "load") /\ unsure' = unsure
    BY <1>1, <1>2, <2>3, BecomeTask DEF Goto
  <2>5. RowFits(r, runs'[r], unsure)
    BY <1>1, <2>1, <2>2, Codes DEF RowFits, NamesStage
  <2>6. TaskFits(worker'[w], runs'[r], unsure)
    BY <1>1, <2>1, <2>2, <2>3, <2>4
       DEF TaskFits, RowAwaits, RowFits, Retrieving, Generating
  <2> QED
    BY <2>1, <2>2, <2>3, <2>4, <2>5, <2>6 DEF TaskStep, Advances, Stepping
<1>3. CASE runs[r].status # "pending" /\ Finish(w) /\ UNCHANGED serviceVars
  BY <1>1, <1>3, FinishQuietly DEF Claimed, At, Stepping, Handling
<1> QED
  BY <1>2, <1>3 DEF ClaimRun

LEMMA LoadHistoryStep ==
  ASSUME PipelineInv, NEW w \in Workers, LoadHistory(w)
  PROVE  TaskStep(w)
<1> DEFINE r == worker[w].run
<1>1. /\ worker[w].pc = "load" /\ UNCHANGED serviceVars
      /\ worker[w].pc \in Stepping
  BY DEF LoadHistory, At, Stepping
<1>2. /\ Claimed(w) /\ r \in RunIds /\ PipelineTypeOK /\ TypeOK
      /\ TaskFits(worker[w], runs[r], unsure) /\ RowFits(r, runs[r], unsure)
  BY <1>1, ClaimedTask
<1>3. CASE \E h \in RecentSuffixes(CompletedPairs(runs[r].user)) :
             Become(w, [Moved(w, "rewrite") EXCEPT !.history = h])
  <2>1. PICK h \in RecentSuffixes(CompletedPairs(runs[r].user)) :
               Become(w, [Moved(w, "rewrite") EXCEPT !.history = h])
    BY <1>3
  <2> DEFINE task == [Moved(w, "rewrite") EXCEPT !.history = h]
  <2>2. CompletedPairs(runs[r].user) \subseteq Nat
    BY <1>2, PairsArePositions
  <2>3. h \in SUBSET Nat
    BY <2>2, SuffixesAreSubsets
  <2>4. task \in Task /\ task.pc = "rewrite" /\ task.run = r /\ task.history = h
    BY <1>2, <2>3, TaskWith DEF Stepping
  <2>5. OnlyTask(w) /\ worker'[w] = task /\ unsure' = unsure
    BY <1>2, <2>1, <2>4, BecomeTask
  <2> HIDE DEF task
  <2>6. TaskFits(task, runs[r], unsure)
    BY <1>1, <1>2, <2>4 DEF TaskFits, RowAwaits, Retrieving, Generating
  <2> QED
    BY <1>1, <1>2, <2>4, <2>5, <2>6 DEF TaskStep, Advances, OnlyRow, Stepping, serviceVars
<1>4. CASE Become(w, Failing(w))
  BY <1>1, <1>4, StepFails
<1> QED
  BY <1>3, <1>4 DEF LoadHistory

(* A save that is accepted, by what it leaves on the row.                  *)
LEMMA SaveAccepted ==
  ASSUME PipelineInv, NEW w \in Workers, worker[w].pc \in Stepping,
         NEW task \in Task, task.pc \in Stepping \ {"rewrite"},
         task.run = worker[w].run, Become(w, task),
         RunStep(worker[w].run), OnlyRow(worker[w].run),
         RowFits(worker[w].run, runs'[worker[w].run], unsure),
         TaskFits(task, runs'[worker[w].run], unsure)
  PROVE  TaskStep(w)
<1>1. Claimed(w) /\ PipelineTypeOK
  BY ClaimedTask
<1>2. OnlyTask(w) /\ worker'[w] = task /\ unsure' = unsure
  BY <1>1, BecomeTask
<1> QED
  BY <1>1, <1>2 DEF TaskStep, Advances

LEMMA RewriteQueryStep ==
  ASSUME PipelineInv, NEW w \in Workers, RewriteQuery(w)
  PROVE  TaskStep(w)
<1> DEFINE r == worker[w].run
           h == worker[w].history
<1>1. At(w, "rewrite") /\ worker[w].pc = "rewrite" /\ worker[w].pc \in Stepping
  BY DEF RewriteQuery, At, Stepping
<1>2. /\ Claimed(w) /\ r \in RunIds /\ PipelineTypeOK /\ TypeOK
      /\ TaskFits(worker[w], runs[r], unsure) /\ RowFits(r, runs[r], unsure)
  BY <1>1, ClaimedTask
<1>3. CASE /\ SaveRewrite(r, h)
           /\ Become(w, Moved(w, "retrieving")) \/ CommitUnsure(w)
  <2>1. /\ OnlyRow(r)
        /\ runs'[r].status = "running" /\ runs[r].status = "running"
        /\ runs'[r].started = runs[r].started
        /\ runs'[r].rewritten
        /\ runs'[r].snapshot.prompt = runs[r].snapshot.prompt
        /\ runs'[r].error = runs[r].error
    BY <1>2, <1>3, SaveRewriteRow
  <2>2. h \in RecentSuffixes(CompletedPairs(runs[r].user))
    BY <1>1, <2>1 DEF PipelineInv, HeldHistory
  <2>3. RunStep(r)
    BY <1>3, <2>2 DEF RunStep
  <2>4. /\ Moved(w, "retrieving") \in Task /\ Moved(w, "retrieving").pc = "retrieving"
        /\ Moved(w, "retrieving").run = r
    BY <1>2, TaskTypes DEF Stepping
  <2>5. ~runs[r].rewritten /\ runs[r].snapshot.prompt = None
    BY <1>1, <1>2, <2>1 DEF TaskFits, RowAwaits
  <2>6. RowFits(r, runs'[r], unsure)
    BY <1>2, <2>1, <2>5, Codes DEF RowFits, NamesStage
  <2>7. TaskFits(Moved(w, "retrieving"), runs'[r], unsure)
    BY <2>1, <2>4, <2>5 DEF TaskFits, RowAwaits, Retrieving, Generating
  <2>8. NamesStage(r, StageError(worker[w].pc), runs'[r], unsure \cup {r})
    BY <1>1, <2>1, <2>5, Codes DEF NamesStage, StageError
  <2> QED
    BY <1>1, <1>3, <2>1, <2>3, <2>4, <2>6, <2>7, <2>8, SaveAccepted, SaveUnsure
       DEF Stepping
<1>4. CASE Become(w, Failing(w)) /\ UNCHANGED serviceVars
  BY <1>1, <1>4, StepFails
<1> QED
  BY <1>3, <1>4 DEF RewriteQuery, SaveOr

(* A running row whose stage alone moves on fits as before.                *)
LEMMA SameFieldsFit ==
  ASSUME NEW r, NEW row, NEW old, NEW doubted, RowFits(r, old, doubted),
         SameFields(row, old), old.status = "running", row.status = "running"
  PROVE  RowFits(r, row, doubted)
BY DEF RowFits, SameFields, NamesStage, Assembled

LEMMA BeginRetrievalStep ==
  ASSUME PipelineInv, NEW w \in Workers, BeginRetrieval(w)
  PROVE  TaskStep(w)
<1> DEFINE r == worker[w].run
           task == Moved(w, "retrieve")
<1>1. At(w, "retrieving") /\ worker[w].pc = "retrieving" /\ worker[w].pc \in Stepping
  BY DEF BeginRetrieval, At, Stepping
<1>2. /\ Claimed(w) /\ r \in RunIds /\ PipelineTypeOK /\ TypeOK
      /\ TaskFits(worker[w], runs[r], unsure) /\ RowFits(r, runs[r], unsure)
  BY <1>1, ClaimedTask
<1>3. CASE StartRetrieval(r) /\ (Become(w, task) \/ CommitUnsure(w))
  <2>1. /\ OnlyRow(r)
        /\ runs'[r].status = "running" /\ runs[r].status = "running"
        /\ SameFields(runs'[r], runs[r])
    BY <1>2, <1>3, StartRetrievalRow
  <2>2. RunStep(r)
    BY <1>3 DEF RunStep
  <2>3. task \in Task /\ task.pc = "retrieve" /\ task.run = r
    BY <1>2, TaskTypes DEF Stepping
  <2> HIDE DEF task
  <2>4. RowFits(r, runs'[r], unsure)
    BY <1>2, <2>1, SameFieldsFit
  <2>5. TaskFits(task, runs'[r], unsure)
    BY <1>1, <1>2, <2>1, <2>3
       DEF TaskFits, RowAwaits, Retrieving, Generating, SameFields
  <2>6. NamesStage(r, StageError(worker[w].pc), runs'[r], unsure \cup {r})
    BY <1>1, <1>2, <2>1, Codes
       DEF TaskFits, RowAwaits, Retrieving, SameFields, NamesStage, StageError
  <2> QED
    BY <1>1, <1>3, <2>1, <2>2, <2>3, <2>4, <2>5, <2>6, SaveAccepted, SaveUnsure
       DEF Stepping
<1>4. CASE Become(w, Failing(w)) /\ UNCHANGED serviceVars
  BY <1>1, <1>4, StepFails
<1> QED
  BY <1>3, <1>4 DEF BeginRetrieval, SaveOr

(* A step that only reads: the row stays, and the task fits it at pc.      *)
LEMMA ReadStep ==
  ASSUME PipelineInv, NEW w \in Workers, worker[w].pc \in Stepping,
         NEW task \in Task, task.pc \in (Stepping \cup Handling) \ {"rewrite"},
         task.run = worker[w].run, Become(w, task), UNCHANGED serviceVars,
         TaskFits(task, runs[worker[w].run], unsure)
  PROVE  TaskStep(w)
<1>1. Claimed(w) /\ PipelineTypeOK /\ RowFits(worker[w].run, runs[worker[w].run], unsure)
  BY ClaimedTask
<1>2. OnlyTask(w) /\ worker'[w] = task /\ unsure' = unsure
  BY <1>1, BecomeTask
<1> QED
  BY <1>1, <1>2 DEF TaskStep, Advances, OnlyRow, serviceVars

LEMMA RetrieveStep ==
  ASSUME PipelineInv, NEW w \in Workers, Retrieve(w)
  PROVE  TaskStep(w)
<1> DEFINE r == worker[w].run
           task == [Moved(w, "retrieved") EXCEPT !.snapshot = runs[r].snapshot]
<1>1. /\ worker[w].pc = "retrieve" /\ worker[w].pc \in Stepping
      /\ UNCHANGED serviceVars
  BY DEF Retrieve, At, Stepping
<1>2. /\ Claimed(w) /\ r \in RunIds /\ PipelineTypeOK /\ TypeOK
      /\ TaskFits(worker[w], runs[r], unsure)
  BY <1>1, ClaimedTask
<1>3. CASE Become(w, Failing(w))
  BY <1>1, <1>3, StepFails
<1>4. CASE Become(w, task)
  <2>1. runs[r].snapshot \in Snapshot
    BY <1>2 DEF TypeOK, Row
  <2>2. /\ task \in Task /\ task.pc = "retrieved" /\ task.run = r
        /\ task.snapshot = runs[r].snapshot
    BY <1>2, <2>1, TaskWith DEF Stepping
  <2> HIDE DEF task
  <2>3. TaskFits(task, runs[r], unsure)
    BY <1>1, <1>2, <2>2 DEF TaskFits, RowAwaits, Retrieving, Generating
  <2> QED
    BY <1>1, <1>4, <2>2, <2>3, ReadStep DEF Stepping
<1> QED
  BY <1>3, <1>4 DEF Retrieve

LEMMA FinishRetrievalStep ==
  ASSUME PipelineInv, NEW w \in Workers, FinishRetrieval(w)
  PROVE  TaskStep(w)
<1> DEFINE r == worker[w].run
           task == Moved(w, "assemble")
<1>1. worker[w].pc = "retrieved" /\ worker[w].pc \in Stepping
  BY DEF FinishRetrieval, At, Stepping
<1>2. /\ Claimed(w) /\ r \in RunIds /\ PipelineTypeOK /\ TypeOK
      /\ TaskFits(worker[w], runs[r], unsure) /\ RowFits(r, runs[r], unsure)
  BY <1>1, ClaimedTask
<1>3. CASE /\ SaveRetrieval(r, worker[w].snapshot)
           /\ Become(w, task) \/ CommitUnsure(w)
  <2>1. runs[r].status = "running"
    BY <1>3 DEF SaveRetrieval, Checkpoint, MayCheckpoint
  <2>2. worker[w].snapshot = runs[r].snapshot
    BY <1>1, <1>2, <2>1 DEF TaskFits, RowAwaits
  <2>3. SaveRetrieval(r, runs[r].snapshot)
    BY <1>3, <2>2
  <2>4. RunStep(r)
    BY <2>3 DEF RunStep
  <2>5. /\ OnlyRow(r) /\ runs'[r].status = "running"
        /\ SameFields(runs'[r], runs[r])
    BY <1>2, <2>3, SaveRetrievalRow
  <2>6. task \in Task /\ task.pc = "assemble" /\ task.run = r
    BY <1>2, TaskTypes DEF Stepping
  <2> HIDE DEF task
  <2>7. RowFits(r, runs'[r], unsure)
    BY <1>2, <2>1, <2>5, SameFieldsFit
  <2>8. TaskFits(task, runs'[r], unsure)
    BY <1>1, <1>2, <2>1, <2>5, <2>6
       DEF TaskFits, RowAwaits, Retrieving, Generating, SameFields
  <2>9. NamesStage(r, StageError(worker[w].pc), runs'[r], unsure \cup {r})
    BY <1>1, <1>2, <2>1, <2>5, Codes
       DEF TaskFits, RowAwaits, Retrieving, SameFields, NamesStage, StageError
  <2> QED
    BY <1>1, <1>3, <2>4, <2>5, <2>6, <2>7, <2>8, <2>9, SaveAccepted, SaveUnsure
       DEF Stepping
<1>4. CASE Become(w, Failing(w)) /\ UNCHANGED serviceVars
  BY <1>1, <1>4, StepFails
<1> QED
  BY <1>3, <1>4 DEF FinishRetrieval, SaveOr

LEMMA AssembleContextStep ==
  ASSUME PipelineInv, NEW w \in Workers, AssembleContext(w)
  PROVE  TaskStep(w)
<1> DEFINE r == worker[w].run
<1>1. /\ worker[w].pc = "assemble" /\ worker[w].pc \in Stepping
      /\ UNCHANGED serviceVars
  BY DEF AssembleContext, At, Stepping
<1>2. /\ Claimed(w) /\ r \in RunIds /\ PipelineTypeOK /\ TypeOK
      /\ TaskFits(worker[w], runs[r], unsure)
  BY <1>1, ClaimedTask
<1>3. CASE \E p \in RecentSuffixes(runs[r].snapshot.history) :
             Become(w, [Moved(w, "context") EXCEPT !.prompt = p])
  <2>1. PICK p \in RecentSuffixes(runs[r].snapshot.history) :
               Become(w, [Moved(w, "context") EXCEPT !.prompt = p])
    BY <1>3
  <2> DEFINE task == [Moved(w, "context") EXCEPT !.prompt = p]
  <2>2. p \in SUBSET Nat
    BY <1>2, SuffixesAreSubsets DEF TypeOK, Row, Snapshot
  <2>3. task \in Task /\ task.pc = "context" /\ task.run = r /\ task.prompt = p
    BY <1>2, <2>2, TaskWith DEF Stepping
  <2>4. Become(w, task)
    BY <2>1
  <2> HIDE DEF task
  <2>5. TaskFits(task, runs[r], unsure)
    BY <1>1, <1>2, <2>3 DEF TaskFits, RowAwaits, Retrieving, Generating
  <2> QED
    BY <1>1, <2>3, <2>4, <2>5, ReadStep DEF Stepping
<1>4. CASE Become(w, Failing(w))
  BY <1>1, <1>4, StepFails
<1> QED
  BY <1>3, <1>4 DEF AssembleContext

LEMMA FinishContextStep ==
  ASSUME PipelineInv, NEW w \in Workers, FinishContext(w)
  PROVE  TaskStep(w)
<1> DEFINE r == worker[w].run
           p == worker[w].prompt
           task == Moved(w, "generation")
<1>1. worker[w].pc = "context" /\ worker[w].pc \in Stepping
  BY DEF FinishContext, At, Stepping
<1>2. /\ Claimed(w) /\ r \in RunIds /\ PipelineTypeOK /\ TypeOK
      /\ TaskFits(worker[w], runs[r], unsure) /\ RowFits(r, runs[r], unsure)
  BY <1>1, ClaimedTask
<1>3. CASE SaveContext(r, p) /\ (Become(w, task) \/ CommitUnsure(w))
  <2>1. /\ OnlyRow(r)
        /\ runs'[r].status = "running" /\ runs[r].status = "running"
        /\ runs'[r].started = runs[r].started
        /\ runs'[r].rewritten = runs[r].rewritten
        /\ runs'[r].snapshot.history = runs[r].snapshot.history
        /\ runs'[r].snapshot.prompt = p
        /\ runs'[r].error = runs[r].error
    BY <1>2, <1>3, SaveContextRow
  <2>2. p \in RecentSuffixes(runs[r].snapshot.history)
    BY <1>1, <1>2, <2>1 DEF TaskFits, RowAwaits
  <2>3. RunStep(r)
    BY <1>3, <2>2 DEF RunStep
  <2>4. task \in Task /\ task.pc = "generation" /\ task.run = r
    BY <1>2, TaskTypes DEF Stepping
  <2> HIDE DEF task
  <2>5. Assembled(runs'[r])
    BY <2>1, <2>2 DEF Assembled
  <2>6. RowFits(r, runs'[r], unsure)
    BY <1>2, <2>1, <2>5, Codes DEF RowFits, NamesStage
  <2>7. TaskFits(task, runs'[r], unsure)
    BY <2>4, <2>5 DEF TaskFits, RowAwaits, Retrieving, Generating
  <2>8. NamesStage(r, StageError(worker[w].pc), runs'[r], unsure \cup {r})
    BY <1>1, <1>2, <2>1, Codes
       DEF TaskFits, RowAwaits, Retrieving, NamesStage, StageError
  <2> QED
    BY <1>1, <1>3, <2>1, <2>3, <2>4, <2>6, <2>7, <2>8, SaveAccepted, SaveUnsure
       DEF Stepping
<1>4. CASE Become(w, Failing(w)) /\ UNCHANGED serviceVars
  BY <1>1, <1>4, StepFails
<1> QED
  BY <1>3, <1>4 DEF FinishContext, SaveOr

LEMMA BeginGenerationStep ==
  ASSUME PipelineInv, NEW w \in Workers, BeginGeneration(w)
  PROVE  TaskStep(w)
<1> DEFINE r == worker[w].run
           task == [Moved(w, "model") EXCEPT !.prompt = runs[r].snapshot.prompt]
<1>1. worker[w].pc = "generation" /\ worker[w].pc \in Stepping
  BY DEF BeginGeneration, At, Stepping
<1>2. /\ Claimed(w) /\ r \in RunIds /\ PipelineTypeOK /\ TypeOK
      /\ TaskFits(worker[w], runs[r], unsure) /\ RowFits(r, runs[r], unsure)
  BY <1>1, ClaimedTask
<1>3. CASE ClaimGeneration(r) /\ (Become(w, task) \/ CommitUnsure(w))
  <2>1. /\ OnlyRow(r)
        /\ runs'[r].status = "running" /\ runs[r].status = "running"
        /\ runs[r].snapshot.prompt # None
        /\ SameFields(runs'[r], runs[r])
    BY <1>2, <1>3, ClaimGenerationRow
  <2>2. RunStep(r)
    BY <1>3 DEF RunStep
  <2>3. runs[r].snapshot.prompt \in {None} \cup SUBSET Nat
    BY <1>2 DEF TypeOK, Row, Snapshot
  <2>4. /\ task \in Task /\ task.pc = "model" /\ task.run = r
        /\ task.prompt = runs[r].snapshot.prompt
    <3>1. "model" \in Stepping
      BY DEF Stepping
    <3>2. \A p \in {None} \cup SUBSET Nat :
            LET moved == [Moved(w, "model") EXCEPT !.prompt = p] IN
              /\ moved \in Task /\ moved.pc = "model" /\ moved.run = r
              /\ moved.prompt = p
      BY <1>2, <3>1, TaskWith
    <3> QED
      BY <2>3, <3>2, Zenon
  <2> HIDE DEF task
  <2>5. RowFits(r, runs'[r], unsure)
    BY <1>2, <2>1, SameFieldsFit
  <2>6. TaskFits(task, runs'[r], unsure)
    BY <1>1, <1>2, <2>1, <2>4
       DEF TaskFits, RowAwaits, Retrieving, Generating, SameFields, Assembled
  <2>7. NamesStage(r, StageError(worker[w].pc), runs'[r], unsure \cup {r})
    BY <1>1, <1>2, <2>1, Codes
       DEF TaskFits, RowAwaits, Generating, SameFields, Assembled, NamesStage, StageError
  <2> QED
    BY <1>1, <1>3, <2>1, <2>2, <2>4, <2>5, <2>6, <2>7, SaveAccepted, SaveUnsure
       DEF Stepping
<1>4. CASE Become(w, Failing(w)) /\ UNCHANGED serviceVars
  BY <1>1, <1>4, StepFails
<1> QED
  BY <1>3, <1>4 DEF BeginGeneration, SaveOr

LEMMA ModelStep ==
  ASSUME PipelineInv, NEW w \in Workers, ModelAnswers(w) \/ AnswerRefused(w)
  PROVE  TaskStep(w)
<1> DEFINE r == worker[w].run
<1>1. /\ worker[w].pc = "model" /\ worker[w].pc \in Stepping
      /\ UNCHANGED serviceVars
  BY DEF ModelAnswers, AnswerRefused, At, Stepping
<1>2. /\ Claimed(w) /\ r \in RunIds /\ PipelineTypeOK /\ TypeOK
      /\ TaskFits(worker[w], runs[r], unsure) /\ worker[w] \in Task
  BY <1>1, ClaimedTask DEF PipelineTypeOK
<1>3. CASE ModelAnswers(w)
  <2> DEFINE task == [worker[w] EXCEPT !.pc = "publish"]
  <2>1. /\ task \in Task /\ task.pc = "publish" /\ task.run = r
        /\ task.prompt = worker[w].prompt
    BY <1>2 DEF Task, Stepping
  <2>2. Become(w, task)
    BY <1>3 DEF ModelAnswers
  <2> HIDE DEF task
  <2>3. TaskFits(task, runs[r], unsure)
    BY <1>1, <1>2, <2>1 DEF TaskFits, RowAwaits, Retrieving, Generating
  <2> QED
    BY <1>1, <2>1, <2>2, <2>3, ReadStep DEF Stepping
<1>4. CASE AnswerRefused(w)
  <2>1. PICK e \in AnswerErrors :
               Become(w, [Moved(w, "terminate") EXCEPT !.error = e])
    BY <1>4 DEF AnswerRefused
  <2> DEFINE task == [Moved(w, "terminate") EXCEPT !.error = e]
  <2>2. task \in Task /\ task.pc = "terminate" /\ task.run = r /\ task.error = e
    BY <1>2, TaskWith, Codes DEF Stepping
  <2>3. Become(w, task)
    BY <2>1
  <2> HIDE DEF task
  <2>4. TaskFits(task, runs[r], unsure)
    BY <1>1, <1>2, <2>2 DEF TaskFits, RowAwaits, Retrieving, Generating
  <2> QED
    BY <1>1, <2>2, <2>3, <2>4, ReadStep DEF Stepping
<1> QED
  BY <1>3, <1>4

(* The step that finishes the run and, unless its commit is doubted, the   *)
(* task with it.                                                           *)
LEMMA TaskEnds ==
  ASSUME PipelineInv, NEW w \in Workers, worker[w].pc \in Stepping \cup Handling,
         \/ Become(w, Idle)
         \/ worker[w].pc \in Stepping /\ CommitUnsure(w),
         RunStep(worker[w].run), OnlyRow(worker[w].run),
         RowFits(worker[w].run, runs'[worker[w].run], unsure),
         runs'[worker[w].run].status \notin ActiveStatuses
  PROVE  TaskStep(w)
<1>1. PipelineTypeOK /\ Claimed(w)
  BY ClaimedTask
<1>2. CASE Become(w, Idle)
  <2>1. OnlyTask(w) /\ worker'[w] = Idle /\ unsure' = unsure
    BY <1>1, <1>2, TaskTypes, BecomeTask DEF Handling
  <2> QED
    BY <1>1, <2>1 DEF TaskStep, Ends, ActiveStatuses
<1>3. CASE worker[w].pc \in Stepping /\ CommitUnsure(w)
  BY <1>3, SaveUnsure DEF ActiveStatuses
<1> QED
  BY <1>2, <1>3

(* A run of a claimed task that fails tells the truth about its cause.     *)
LEMMA FailedFits ==
  ASSUME TypeOK, NEW r \in RunIds, RowFits(r, runs[r], unsure), runs[r].status = "running",
         NEW e \in AnswerErrors \cup StageErrors, NamesStage(r, e, runs[r], unsure), Fail(r, e)
  PROVE  /\ OnlyRow(r)
         /\ RowFits(r, runs'[r], unsure)
         /\ runs'[r].status \notin ActiveStatuses
<1>1. /\ OnlyRow(r)
      /\ runs'[r].status = "failed"
      /\ runs'[r].started = runs[r].started
      /\ runs'[r].rewritten = runs[r].rewritten
      /\ runs'[r].snapshot = runs[r].snapshot
      /\ runs'[r].error = e
  BY FailRow
<1>2. RowFits(r, runs'[r], unsure)
  BY <1>1, Codes DEF RowFits, NamesStage, Assembled
<1> QED
  BY <1>1, <1>2 DEF ActiveStatuses

LEMMA PublishStep ==
  ASSUME PipelineInv, NEW w \in Workers, Publish(w)
  PROVE  TaskStep(w)
<1> DEFINE r == worker[w].run
<1>1. worker[w].pc = "publish" /\ worker[w].pc \in Stepping
  BY DEF Publish, At, Stepping
<1>2. /\ Claimed(w) /\ r \in RunIds /\ PipelineTypeOK /\ TypeOK
      /\ TaskFits(worker[w], runs[r], unsure) /\ RowFits(r, runs[r], unsure)
  BY <1>1, ClaimedTask
<1>3. PICK a \in Answers :
             SaveOr(w, runs[r].status = "running", Complete(r, a), Idle)
  BY DEF Publish
<1>4. CASE Complete(r, a) /\ (Become(w, Idle) \/ CommitUnsure(w))
  <2>1. /\ OnlyRow(r)
        /\ runs'[r].status = "completed" /\ runs[r].status = "running"
        /\ SameFields(runs'[r], runs[r])
    BY <1>2, <1>4, CompleteRow
  <2>2. runs[r].snapshot.prompt # None
    BY <1>1, <1>2, <2>1 DEF TaskFits, RowAwaits
  <2>3. RowFits(r, runs'[r], unsure)
    BY <1>2, <2>1, <2>2 DEF RowFits, SameFields, NamesStage, Assembled
  <2>4. RunStep(r)
    BY <1>4 DEF RunStep
  <2> QED
    BY <1>1, <1>4, <2>1, <2>3, <2>4, TaskEnds DEF ActiveStatuses
<1>5. CASE Become(w, Failing(w)) /\ UNCHANGED serviceVars
  BY <1>1, <1>5, StepFails
<1> QED
  BY <1>3, <1>4, <1>5 DEF SaveOr

LEMMA TerminateRunStep ==
  ASSUME PipelineInv, NEW w \in Workers, TerminateRun(w)
  PROVE  TaskStep(w)
<1> DEFINE r == worker[w].run
           e == worker[w].error
<1>1. worker[w].pc = "terminate" /\ worker[w].pc \in Stepping
  BY DEF TerminateRun, At, Stepping
<1>2. /\ Claimed(w) /\ r \in RunIds /\ PipelineTypeOK /\ TypeOK /\ Begun(r)
      /\ TaskFits(worker[w], runs[r], unsure) /\ RowFits(r, runs[r], unsure)
  BY <1>1, ClaimedTask
<1>3. CASE /\ runs[r].status = "running" /\ Fail(r, e)
           /\ Finish(w) \/ CommitUnsure(w)
  <2>1. e \in AnswerErrors /\ Assembled(runs[r])
    BY <1>1, <1>2, <1>3 DEF TaskFits, RowAwaits, Generating
  <2>2. NamesStage(r, e, runs[r], unsure)
    BY <2>1, Codes DEF NamesStage
  <2>3. e \in ErrorCodes
    BY <2>1, Codes
  <2>4. RunStep(r)
    BY <1>3, <2>3 DEF RunStep
  <2>5. /\ OnlyRow(r) /\ RowFits(r, runs'[r], unsure)
        /\ runs'[r].status \notin ActiveStatuses
    BY <1>2, <1>3, <2>1, <2>2, FailedFits
  <2> QED
    BY <1>1, <1>3, <2>4, <2>5, TaskEnds DEF Finish
<1>4. CASE runs[r].status # "running" /\ Finish(w) /\ UNCHANGED serviceVars
  BY <1>1, <1>2, <1>4, FinishQuietly DEF Begun
<1> QED
  BY <1>3, <1>4 DEF TerminateRun

LEMMA StepRaisesStep ==
  ASSUME PipelineInv, NEW w \in Workers, StepRaises(w)
  PROVE  TaskStep(w)
BY StepFails DEF StepRaises

LEMMA RecordFailureStep ==
  ASSUME PipelineInv, NEW w \in Workers, RecordFailure(w)
  PROVE  TaskStep(w)
<1> DEFINE r == worker[w].run
           e == worker[w].error
<1>1. worker[w].pc = "failing" /\ worker[w].pc \in Handling /\ Finish(w)
  BY DEF RecordFailure, At, Handling
<1>2. /\ Claimed(w) /\ r \in RunIds /\ PipelineTypeOK /\ TypeOK /\ Begun(r)
      /\ TaskFits(worker[w], runs[r], unsure) /\ RowFits(r, runs[r], unsure)
  BY <1>1, ClaimedTask
<1>3. CASE r \in Active /\ Fail(r, e)
  <2>1. runs[r].status = "running"
    BY <1>2, <1>3 DEF Active, ActiveStatuses, Begun
  <2>2. e \in StageErrors /\ NamesStage(r, e, runs[r], unsure)
    BY <1>1, <1>2, <2>1 DEF TaskFits, RowAwaits
  <2>3. e \in ErrorCodes
    BY <2>2, Codes
  <2>4. RunStep(r)
    BY <1>3, <2>3 DEF RunStep
  <2>5. /\ OnlyRow(r) /\ RowFits(r, runs'[r], unsure)
        /\ runs'[r].status \notin ActiveStatuses
    BY <1>2, <1>3, <2>1, <2>2, FailedFits
  <2> QED
    BY <1>1, <2>4, <2>5, TaskEnds DEF Finish
<1>4. CASE r \notin Active /\ UNCHANGED serviceVars
  BY <1>1, <1>2, <1>4, FinishQuietly DEF Active, ActiveStatuses
<1> QED
  BY <1>3, <1>4 DEF RecordFailure

(* A cancelled task goes on to record it, whatever row it leaves.          *)
LEMMA CancelledTask ==
  ASSUME PipelineInv, NEW w \in Workers, worker[w].pc \in Stepping,
         Goto(w, "cancelling"), UNCHANGED serviceVars
  PROVE  TaskStep(w)
<1> DEFINE task == Moved(w, "cancelling")
<1>1. PipelineTypeOK
  BY ClaimedTask
<1>2. task \in Task /\ task.pc = "cancelling" /\ task.run = worker[w].run
  BY <1>1, TaskTypes DEF Handling
<1>3. Become(w, task)
  BY DEF Goto
<1> HIDE DEF task
<1>4. TaskFits(task, runs[worker[w].run], unsure)
  BY <1>2 DEF TaskFits, RowAwaits, Retrieving, Generating
<1> QED
  BY <1>2, <1>3, <1>4, ReadStep DEF Handling

LEMMA TaskCancelledStep ==
  ASSUME PipelineInv, NEW w \in Workers, TaskCancelled(w)
  PROVE  TaskStep(w)
<1> DEFINE r == worker[w].run
           task == Moved(w, "withdraw")
<1>1. worker[w].pc \in Stepping /\ UNCHANGED serviceVars
  BY DEF TaskCancelled
<1>2. PipelineTypeOK /\ TaskFits(worker[w], runs[r], unsure)
  BY <1>1, ClaimedTask
<1>3. CASE worker[w].pc \in {"model", "publish", "terminate"}
  <2>1. Become(w, task)
    BY <1>3 DEF TaskCancelled, Goto
  <2>2. task \in Task /\ task.pc = "withdraw" /\ task.run = r
    BY <1>2, TaskTypes DEF Stepping
  <2> HIDE DEF task
  <2>3. TaskFits(task, runs[r], unsure)
    BY <1>2, <1>3, <2>2 DEF TaskFits, RowAwaits, Retrieving, Generating
  <2> QED
    BY <1>1, <2>1, <2>2, <2>3, ReadStep DEF Stepping
<1>4. CASE worker[w].pc \notin {"model", "publish", "terminate"}
  BY <1>1, <1>4, CancelledTask DEF TaskCancelled
<1> QED
  BY <1>3, <1>4

(* A cancelled run fits as before, and is nobody's to finish.              *)
LEMMA CancelFits ==
  ASSUME TypeOK, NEW r \in RunIds, RowFits(r, runs[r], unsure), Cancel(r)
  PROVE  /\ OnlyRow(r) /\ RunStep(r)
         /\ RowFits(r, runs'[r], unsure)
         /\ runs'[r].status = "cancelled"
<1>1. /\ OnlyRow(r) /\ r \in Active
      /\ runs'[r].status = "cancelled"
      /\ runs'[r].started = runs[r].started
      /\ runs'[r].rewritten = runs[r].rewritten
      /\ runs'[r].snapshot = runs[r].snapshot
      /\ runs'[r].error = None
  BY CancelRow
<1>2. runs[r].error = None
  BY <1>1 DEF RowFits, Active, ActiveStatuses
<1>3. RowFits(r, runs'[r], unsure)
  BY <1>1, <1>2, CancelledFits DEF SameFields, Active
<1> QED
  BY <1>1, <1>3 DEF RunStep

LEMMA WithdrawRunStep ==
  ASSUME PipelineInv, NEW w \in Workers, WithdrawRun(w)
  PROVE  TaskStep(w)
<1> DEFINE r == worker[w].run
           task == Moved(w, "cancelling")
<1>1. worker[w].pc = "withdraw" /\ worker[w].pc \in Stepping
  BY DEF WithdrawRun, At, Stepping
<1>2. /\ Claimed(w) /\ r \in RunIds /\ PipelineTypeOK /\ TypeOK
      /\ RowFits(r, runs[r], unsure)
  BY <1>1, ClaimedTask
<1>3. CASE Cancel(r) /\ (Goto(w, "cancelling") \/ CommitUnsure(w))
  <2>1. /\ OnlyRow(r) /\ RunStep(r) /\ RowFits(r, runs'[r], unsure)
        /\ runs'[r].status = "cancelled"
    BY <1>2, <1>3, CancelFits
  <2>2. CASE Goto(w, "cancelling")
    <3>1. task \in Task /\ task.pc = "cancelling" /\ task.run = r
      BY <1>2, TaskTypes DEF Handling
    <3>2. Become(w, task)
      BY <2>2 DEF Goto
    <3> HIDE DEF task
    <3>3. OnlyTask(w) /\ worker'[w] = task /\ unsure' = unsure
      BY <1>2, <3>1, <3>2, BecomeTask
    <3>4. TaskFits(task, runs'[r], unsure)
      BY <2>1, <3>1 DEF TaskFits
    <3> QED
      BY <1>2, <2>1, <3>1, <3>3, <3>4 DEF TaskStep, Advances, Handling
  <2>3. CASE CommitUnsure(w)
    BY <1>1, <2>1, <2>3, SaveUnsure
  <2> QED
    BY <1>3, <2>2, <2>3
<1>4. CASE Goto(w, "cancelling") /\ UNCHANGED serviceVars
  BY <1>1, <1>4, CancelledTask
<1> QED
  BY <1>3, <1>4 DEF WithdrawRun

LEMMA RecordCancellationStep ==
  ASSUME PipelineInv, NEW w \in Workers, RecordCancellation(w)
  PROVE  TaskStep(w)
<1> DEFINE r == worker[w].run
<1>1. worker[w].pc = "cancelling" /\ worker[w].pc \in Handling /\ Finish(w)
  BY DEF RecordCancellation, At, Handling
<1>2. /\ Claimed(w) /\ r \in RunIds /\ PipelineTypeOK /\ TypeOK /\ Begun(r)
      /\ RowFits(r, runs[r], unsure)
  BY <1>1, ClaimedTask
<1>3. CASE r \in Active /\ Cancel(r)
  <2>1. /\ OnlyRow(r) /\ RunStep(r) /\ RowFits(r, runs'[r], unsure)
        /\ runs'[r].status = "cancelled"
    BY <1>2, <1>3, CancelFits
  <2> QED
    BY <1>1, <2>1, TaskEnds DEF Finish, ActiveStatuses
<1>4. CASE r \notin Active /\ UNCHANGED serviceVars
  BY <1>1, <1>2, <1>4, FinishQuietly DEF Active, ActiveStatuses
<1> QED
  BY <1>3, <1>4 DEF RecordCancellation

LEMMA WorkerSteps ==
  ASSUME PipelineInv, NEW w \in Workers,
         WorkerStep(w) \/ StepRaises(w) \/ TaskCancelled(w)
  PROVE  TaskStep(w)
BY ClaimRunStep, LoadHistoryStep, RewriteQueryStep, BeginRetrievalStep,
   RetrieveStep, FinishRetrievalStep, AssembleContextStep, FinishContextStep,
   BeginGenerationStep, ModelStep, PublishStep, TerminateRunStep,
   WithdrawRunStep, StepRaisesStep, RecordFailureStep, TaskCancelledStep,
   RecordCancellationStep
   DEF WorkerStep

-----------------------------------------------------------------------------
(***************************************************************************)
(* Every step is an operation of the tables, or leaves them alone.         *)
(***************************************************************************)

LEMMA BusyTask ==
  ASSUME PipelineInv, NEW w \in Workers,
         WorkerStep(w) \/ StepRaises(w) \/ TaskCancelled(w)
  PROVE  worker[w].run \in RunIds
<1>1. worker[w].pc # "idle"
  BY DEF WorkerStep, StepRaises, TaskCancelled, ClaimRun, LoadHistory,
     RewriteQuery, BeginRetrieval, Retrieve, FinishRetrieval, AssembleContext,
     FinishContext, BeginGeneration, ModelAnswers, AnswerRefused, Publish,
     TerminateRun, WithdrawRun, RecordFailure, RecordCancellation, At, Stepping
<1> QED
  BY <1>1 DEF PipelineInv, TasksFit

LEMMA PipelineServes ==
  ASSUME PipelineInv, [PipelineNext]_vars
  PROVE  [Next]_serviceVars
<1>1. CASE \E q \in Requests, r \in RunIds : SendMessage(q, r)
  BY <1>1 DEF SendMessage, Next
<1>2. CASE \E p, r \in RunIds : RetryRun(p, r)
  BY <1>2 DEF RetryRun, Next
<1>3. CASE \E r \in RunIds : CancelRun(r)
  BY <1>3 DEF CancelRun, Next, RunStep
<1>4. CASE DeleteRequest
  BY <1>4 DEF DeleteRequest, Next
<1>5. CASE \E r \in RunIds : Dispatch(r)
  <2>1. PICK r \in RunIds : Dispatch(r)
    BY <1>5
  <2>2. CASE Enqueue(r) \/ EnqueueFails(r)
    BY <2>2 DEF Enqueue, EnqueueFails
  <2>3. CASE FailUnsent(r)
    <3>1. Fail(r, "queue_unavailable") \/ UNCHANGED serviceVars
      BY <2>3 DEF FailUnsent
    <3>2. RunStep(r) \/ UNCHANGED serviceVars
      BY <3>1, Codes DEF RunStep
    <3> QED
      BY <3>2 DEF Next
  <2> QED
    BY <2>1, <2>2, <2>3 DEF Dispatch
<1>6. CASE \E w \in Workers : WorkerStep(w) \/ StepRaises(w) \/ TaskCancelled(w)
  <2>1. PICK w \in Workers : WorkerStep(w) \/ StepRaises(w) \/ TaskCancelled(w)
    BY <1>6
  <2>2. worker[w].run \in RunIds
    BY <2>1, BusyTask
  <2>3. RunStep(worker[w].run) \/ UNCHANGED serviceVars
    BY <2>1, WorkerSteps DEF TaskStep
  <2> QED
    BY <2>2, <2>3 DEF Next
<1>7. CASE \/ \E r \in RunIds : RequestLost(r)
           \/ \E w \in Workers, r \in RunIds : Deliver(w, r)
           \/ \E w \in Workers : TaskLost(w) \/ WorkerCrashes(w) \/ Redeliver(w)
           \/ UNCHANGED vars
  BY <1>7 DEF RequestLost, Deliver, TaskLost, WorkerCrashes, Redeliver, vars, serviceVars
<1> QED
  BY <1>1, <1>2, <1>3, <1>4, <1>5, <1>6, <1>7 DEF PipelineNext

-----------------------------------------------------------------------------
(***************************************************************************)
(* What a task needs of its row survives what others do.                   *)
(***************************************************************************)

(* What TasksFit and HeldHistory say of one task, after the step.          *)
TaskHolds(w) ==
  LET task == worker'[w] IN
    /\ task.pc # "idle" => task.run \in RunIds
    /\ task.pc \in Stepping \cup Handling =>
         /\ runs'[task.run].status # "pending"
         /\ runs'[task.run].status = "absent" => ~exists'
         /\ TaskFits(task, runs'[task.run], unsure')
    /\ task.pc = "rewrite" /\ runs'[task.run].status = "running" =>
         task.history \in RecentSuffixes(PairsNext(runs'[task.run].user))

LEMMA TasksHold ==
  ASSUME \A w \in Workers : TaskHolds(w)
  PROVE  TasksFit' /\ HeldHistory'
<1>1. TasksFit'
  BY DEF TaskHolds, TasksFit, Claimed, Begun
<1>2. HeldHistory'
  BY DEF TaskHolds, HeldHistory, At, PairsNext, CompletedPairs
<1> QED
  BY <1>1, <1>2

(* A task that does not move, whose row stays or stops running.            *)
LEMMA OtherTask ==
  ASSUME IndInv, PipelineInv, [Next]_serviceVars, NEW v \in Workers,
         worker'[v] = worker[v], unsure \subseteq unsure',
         Claimed(v) => \/ runs'[worker[v].run] = runs[worker[v].run]
                       \/ runs'[worker[v].run].status # "running"
  PROVE  TaskHolds(v)
<1> DEFINE r == worker[v].run
<1>1. worker[v].pc # "idle" => worker[v].run \in RunIds
  BY DEF PipelineInv, TasksFit
<1>2. CASE ~Claimed(v)
  BY <1>1, <1>2 DEF Claimed, TaskHolds, Stepping
<1>3. CASE Claimed(v)
  <2>1. r \in RunIds /\ Begun(r) /\ TaskFits(worker[v], runs[r], unsure)
    BY <1>3, ClaimedTask DEF Claimed
  <2>2. /\ Begun(r)'
        /\ runs'[r].status = "running" => runs[r].status = "running"
    BY <2>1, BegunStays
  <2>3. TaskFits(worker'[v], runs'[r], unsure')
    <3>1. TaskFits(worker'[v], runs'[r], unsure)
      BY <1>3, <2>1 DEF TaskFits
    <3> QED
      BY <3>1, DoubtGrows
  <2>4. ASSUME worker[v].pc = "rewrite", runs'[r].status = "running"
        PROVE  worker[v].history \in RecentSuffixes(PairsNext(runs'[r].user))
    <3>1. /\ runs'[r].user = runs[r].user
          /\ PairsNext(runs[r].user) = CompletedPairs(runs[r].user)
      BY <2>1, <2>2, <2>4, PairsStay
    <3>2. worker[v].history \in RecentSuffixes(CompletedPairs(runs[r].user))
      BY <2>2, <2>4 DEF PipelineInv, HeldHistory, At
    <3> QED
      BY <3>1, <3>2
  <2>5. runs'[r].status # "pending" /\ (runs'[r].status = "absent" => ~exists')
    BY <2>2 DEF Begun
  <2> QED
    BY <1>1, <2>3, <2>4, <2>5 DEF TaskHolds
<1> QED
  BY <1>2, <1>3

(* The other tasks keep away from the row of a worker that steps.          *)
LEMMA OthersKeepAway ==
  ASSUME PipelineInv, NEW w \in Workers,
         \/ Claimed(w)
         \/ runs[worker[w].run].status = "pending",
         NEW v \in Workers \ {w}, Claimed(v)
  PROVE  worker[v].run # worker[w].run
<1>1. Begun(worker[v].run)
  BY ClaimedTask DEF Claimed
<1> QED
  BY <1>1 DEF Begun, Claimed, PipelineInv, OneWorkerPerRun

LEMMA AdvancesInv ==
  ASSUME IndInv, PipelineInv, [Next]_serviceVars, TypeOK', NEW w \in Workers,
         worker[w].run \in RunIds, Advances(w)
  PROVE  PipelineInv'
<1> DEFINE r == worker[w].run
<1>1. /\ OnlyTask(w) /\ worker'[w].run = r
      /\ worker'[w].pc \in Stepping \cup Handling
      /\ OnlyRow(r) /\ RowFits(r, runs'[r], unsure') /\ TaskFits(worker'[w], runs'[r], unsure')
      /\ Claimed(w) \/ (runs[r].status = "pending" /\ runs'[r].status = "running")
      /\ worker'[w].pc = "rewrite" =>
           /\ runs' = runs
           /\ worker'[w].history \in RecentSuffixes(CompletedPairs(runs[r].user))
  BY DEF Advances
<1>2. /\ \A v \in Workers \ {w} : worker'[v] = worker[v]
      /\ dispatch' = dispatch /\ queue' = queue /\ abandoned' = abandoned
      /\ worker' \in [Workers -> Task] /\ unsure \subseteq unsure'
  BY <1>1 DEF OnlyTask
<1>3. \A v \in Workers \ {w} : Claimed(v) => worker[v].run # r
  BY <1>1, OthersKeepAway
<1>4. runs'[r].status # "pending" /\ (runs'[r].status = "absent" => ~exists')
  <2>1. CASE Claimed(w)
    BY <2>1, ClaimedTask, BegunStays DEF Claimed, Begun
  <2> QED
    BY <1>1, <2>1
<1>5. PipelineTypeOK'
  BY <1>1 DEF PipelineInv, PipelineTypeOK, OnlyTask
<1>6. RowsFit'
  BY <1>1, <1>2, DoubtGrows DEF PipelineInv, RowsFit, OnlyRow
<1>7. ASSUME NEW v \in Workers
      PROVE  TaskHolds(v)
  <2>1. CASE v = w
    <3>1. worker'[w].pc = "rewrite" =>
            worker'[w].history \in RecentSuffixes(PairsNext(runs'[r].user))
      BY <1>1 DEF PairsNext, CompletedPairs, Present
    <3> QED
      BY <1>1, <1>4, <2>1, <3>1 DEF TaskHolds
  <2>2. CASE v # w
    <3>1. Claimed(v) => runs'[worker[v].run] = runs[worker[v].run]
      <4> SUFFICES ASSUME Claimed(v)
                   PROVE  runs'[worker[v].run] = runs[worker[v].run]
        OBVIOUS
      <4>1. worker[v].run \in RunIds
        BY ClaimedTask DEF Claimed
      <4> QED
        BY <1>1, <1>3, <2>2, <4>1 DEF OnlyRow
    <3> QED
      BY <1>2, <2>2, <3>1, OtherTask
  <2> QED
    BY <2>1, <2>2
<1>8. TasksFit' /\ HeldHistory'
  BY <1>7, TasksHold
<1>9. OneWorkerPerRun'
  BY <1>1, <1>2, <1>3 DEF PipelineInv, OneWorkerPerRun, Claimed
<1>10. NoOrphanedRun'
  <2> SUFFICES ASSUME NEW s \in RunIds, runs'[s].status \in ActiveStatuses,
                      s \notin abandoned
               PROVE  \/ /\ runs'[s].status = "pending"
                         /\ \/ dispatch[s] # "done"
                            \/ s \in queue
                            \/ \E v \in Workers :
                                 worker'[v].pc = "claim" /\ worker'[v].run = s
                      \/ /\ runs'[s].status = "running"
                         /\ \E v \in Workers :
                              /\ worker'[v].pc \in Stepping \cup Handling
                              /\ worker'[v].run = s
    BY <1>2 DEF NoOrphanedRun, Active, At
  <2>1. CASE s = r
    BY <1>1, <1>4, <2>1 DEF ActiveStatuses
  <2>2. CASE s # r
    BY <1>1, <1>2, <2>2 DEF OnlyRow, PipelineInv, NoOrphanedRun, Active, At
  <2> QED
    BY <2>1, <2>2
<1> QED
  BY <1>5, <1>6, <1>8, <1>9, <1>10 DEF PipelineInv

LEMMA EndsInv ==
  ASSUME IndInv, PipelineInv, [Next]_serviceVars, TypeOK', NEW w \in Workers,
         worker[w].run \in RunIds, Ends(w)
  PROVE  PipelineInv'
<1> DEFINE r == worker[w].run
<1>1. /\ OnlyTask(w) /\ worker'[w] = Idle
      /\ OnlyRow(r) /\ RowFits(r, runs'[r], unsure') /\ runs'[r].status # "pending"
      /\ IF Claimed(w) THEN runs'[r].status # "running" ELSE runs' = runs
  BY DEF Ends
<1>2. /\ \A v \in Workers \ {w} : worker'[v] = worker[v]
      /\ dispatch' = dispatch /\ queue' = queue /\ abandoned' = abandoned
      /\ worker' \in [Workers -> Task] /\ worker'[w].pc = "idle"
      /\ unsure \subseteq unsure'
  BY <1>1 DEF OnlyTask, Idle
<1>3. PipelineTypeOK'
  BY <1>1 DEF PipelineInv, PipelineTypeOK, OnlyTask
<1>4. RowsFit'
  BY <1>1, <1>2, DoubtGrows DEF PipelineInv, RowsFit, OnlyRow
<1>5. ASSUME NEW v \in Workers
      PROVE  TaskHolds(v)
  <2>1. CASE v = w
    BY <1>2, <2>1 DEF TaskHolds, Stepping, Handling
  <2>2. CASE v # w
    <3>1. Claimed(v) => runs'[worker[v].run] = runs[worker[v].run]
      <4> SUFFICES ASSUME Claimed(v)
                   PROVE  runs'[worker[v].run] = runs[worker[v].run]
        OBVIOUS
      <4>1. worker[v].run \in RunIds
        BY ClaimedTask DEF Claimed
      <4>2. CASE Claimed(w)
        <5>1. worker[v].run # r
          BY <2>2, <4>2, OthersKeepAway
        <5> QED
          BY <1>1, <4>1, <5>1 DEF OnlyRow
      <4> QED
        BY <1>1, <4>2
    <3> QED
      BY <1>2, <2>2, <3>1, OtherTask
  <2> QED
    BY <2>1, <2>2
<1>6. TasksFit' /\ HeldHistory'
  BY <1>5, TasksHold
<1>7. OneWorkerPerRun'
  BY <1>2 DEF PipelineInv, OneWorkerPerRun, Stepping, Handling
<1>8. NoOrphanedRun'
  <2> SUFFICES ASSUME NEW s \in RunIds, runs'[s].status \in ActiveStatuses,
                      s \notin abandoned
               PROVE  \/ /\ runs'[s].status = "pending"
                         /\ \/ dispatch[s] # "done"
                            \/ s \in queue
                            \/ \E v \in Workers :
                                 worker'[v].pc = "claim" /\ worker'[v].run = s
                      \/ /\ runs'[s].status = "running"
                         /\ \E v \in Workers :
                              /\ worker'[v].pc \in Stepping \cup Handling
                              /\ worker'[v].run = s
    BY <1>2 DEF NoOrphanedRun, Active, At
  <2>1. CASE s = r
    <3>1. runs'[r].status = "running" /\ ~Claimed(w) /\ runs' = runs
      BY <1>1, <2>1 DEF ActiveStatuses
    <3> QED
      BY <1>2, <2>1, <3>1 DEF PipelineInv, NoOrphanedRun, Active, Claimed
  <2>2. CASE s # r
    BY <1>1, <1>2, <2>2 DEF OnlyRow, PipelineInv, NoOrphanedRun, Active, At
  <2> QED
    BY <2>1, <2>2
<1> QED
  BY <1>3, <1>4, <1>6, <1>7, <1>8 DEF PipelineInv

-----------------------------------------------------------------------------
(***************************************************************************)
(* The steps of the requests, the dispatcher, the queue and the faults.    *)
(***************************************************************************)

(* A request that writes one row, which no task is left to work on.        *)
LEMMA RequestInv ==
  ASSUME IndInv, PipelineInv, [Next]_serviceVars, TypeOK', NEW r \in RunIds,
         UNCHANGED <<queue, worker, faults, abandoned, unsure>>,
         dispatch' \in [RunIds -> {"done", "queueing", "failing"}],
         \A s \in RunIds \ {r} : dispatch'[s] = dispatch[s],
         OnlyRow(r), RowFits(r, runs'[r], unsure), runs'[r].status # "running",
         runs'[r].status = "pending" => dispatch'[r] # "done"
  PROVE  PipelineInv'
<1>1. PipelineTypeOK'
  BY DEF PipelineInv, PipelineTypeOK
<1>2. RowsFit'
  BY DEF PipelineInv, RowsFit, OnlyRow
<1>3. ASSUME NEW v \in Workers
      PROVE  TaskHolds(v)
  <2>1. Claimed(v) => \/ runs'[worker[v].run] = runs[worker[v].run]
                      \/ runs'[worker[v].run].status # "running"
    <3>1. Claimed(v) => worker[v].run \in RunIds
      BY ClaimedTask DEF Claimed
    <3> QED
      BY <3>1 DEF OnlyRow
  <2> QED
    BY <2>1, OtherTask
<1>4. TasksFit' /\ HeldHistory'
  BY <1>3, TasksHold
<1>5. OneWorkerPerRun'
  BY DEF PipelineInv, OneWorkerPerRun
<1>6. NoOrphanedRun'
  <2> SUFFICES ASSUME NEW s \in RunIds, runs'[s].status \in ActiveStatuses,
                      s \notin abandoned
               PROVE  \/ /\ runs'[s].status = "pending"
                         /\ \/ dispatch'[s] # "done"
                            \/ s \in queue
                            \/ \E v \in Workers :
                                 worker[v].pc = "claim" /\ worker[v].run = s
                      \/ /\ runs'[s].status = "running"
                         /\ \E v \in Workers :
                              /\ worker[v].pc \in Stepping \cup Handling
                              /\ worker[v].run = s
    BY DEF NoOrphanedRun, Active, At
  <2>1. CASE s = r
    BY <2>1 DEF ActiveStatuses
  <2>2. CASE s # r
    BY <2>2 DEF OnlyRow, PipelineInv, NoOrphanedRun, Active, At
  <2> QED
    BY <2>1, <2>2
<1> QED
  BY <1>1, <1>2, <1>4, <1>5, <1>6 DEF PipelineInv

(* The row of a new attempt.                                               *)
LEMMA NewRowFits ==
  ASSUME TypeOK, NEW r \in RunIds, NEW u, NEW a, NEW n,
         WriteRow(r, NewRow(u, a, n))
  PROVE  /\ OnlyRow(r) /\ RowFits(r, runs'[r], unsure)
         /\ runs'[r].status = "pending"
<1>1. /\ NewRow(u, a, n).status = "pending"
      /\ ~NewRow(u, a, n).started /\ ~NewRow(u, a, n).rewritten
      /\ NewRow(u, a, n).snapshot.prompt = None
      /\ NewRow(u, a, n).error = None
  BY DEF NewRow, NoRow, EmptySnapshot
<1>2. RowFits(r, NewRow(u, a, n), unsure)
  BY <1>1, Codes DEF RowFits, NamesStage
<1> QED
  BY <1>1, <1>2 DEF WriteRow, OnlyRow, TypeOK

LEMMA SendMessageInv ==
  ASSUME IndInv, PipelineInv, [Next]_serviceVars, TypeOK',
         NEW q \in Requests, NEW r \in RunIds, SendMessage(q, r)
  PROVE  PipelineInv'
<1>1. WriteRow(r, NewRow(Len(messages) + 1, Len(messages) + 1 + 1, 1))
  BY DEF SendMessage, ReserveTurn
<1>2. OnlyRow(r) /\ RowFits(r, runs'[r], unsure) /\ runs'[r].status = "pending"
  BY <1>1, NewRowFits DEF IndInv
<1>3. /\ dispatch \in [RunIds -> {"done", "queueing", "failing"}]
      /\ dispatch' = [dispatch EXCEPT ![r] = "queueing"]
      /\ UNCHANGED <<queue, worker, faults, abandoned, unsure>>
  BY DEF SendMessage, PipelineInv, PipelineTypeOK
<1> QED
  BY <1>2, <1>3, RequestInv

LEMMA RetryRunInv ==
  ASSUME IndInv, PipelineInv, [Next]_serviceVars, TypeOK',
         NEW p \in RunIds, NEW r \in RunIds, RetryRun(p, r)
  PROVE  PipelineInv'
<1>1. WriteRow(r, NewRow(runs[p].user, runs[p].assistant, runs[p].attempt + 1))
  BY DEF RetryRun, Retry
<1>2. OnlyRow(r) /\ RowFits(r, runs'[r], unsure) /\ runs'[r].status = "pending"
  BY <1>1, NewRowFits DEF IndInv
<1>3. /\ dispatch \in [RunIds -> {"done", "queueing", "failing"}]
      /\ dispatch' = [dispatch EXCEPT ![r] = "queueing"]
      /\ UNCHANGED <<queue, worker, faults, abandoned, unsure>>
  BY DEF RetryRun, PipelineInv, PipelineTypeOK
<1> QED
  BY <1>2, <1>3, RequestInv

LEMMA CancelRunInv ==
  ASSUME IndInv, PipelineInv, [Next]_serviceVars, TypeOK',
         NEW r \in RunIds, CancelRun(r)
  PROVE  PipelineInv'
<1>1. /\ OnlyRow(r) /\ runs'[r].status = "cancelled" /\ r \in Active
      /\ runs'[r].started = runs[r].started
      /\ runs'[r].rewritten = runs[r].rewritten
      /\ runs'[r].snapshot = runs[r].snapshot
      /\ runs'[r].error = None
  BY CancelRow DEF CancelRun, IndInv
<1>2. RowFits(r, runs[r], unsure) /\ runs[r].status \in ActiveStatuses
  BY <1>1 DEF PipelineInv, RowsFit, Active
<1>3. runs[r].error = None
  BY <1>2 DEF RowFits, ActiveStatuses
<1>4. RowFits(r, runs'[r], unsure)
  BY <1>1, <1>2, <1>3, CancelledFits DEF SameFields
<1>5. /\ dispatch \in [RunIds -> {"done", "queueing", "failing"}]
      /\ dispatch' = dispatch /\ UNCHANGED <<queue, worker, faults, abandoned, unsure>>
  BY DEF CancelRun, pipelineVars, PipelineInv, PipelineTypeOK
<1> QED
  BY <1>1, <1>4, <1>5, RequestInv

LEMMA DeleteRequestInv ==
  ASSUME IndInv, PipelineInv, [Next]_serviceVars, TypeOK', DeleteRequest
  PROVE  PipelineInv'
<1>1. /\ \A r \in RunIds : runs'[r] = NoRow
      /\ UNCHANGED <<dispatch, queue, worker, faults, abandoned, unsure>>
  BY DEF DeleteRequest, DeleteConversation, pipelineVars
<1>2. NoRow.status = "absent" /\ \A r : RowFits(r, NoRow, unsure)
  BY Codes DEF NoRow, RowFits, NamesStage, EmptySnapshot
<1>3. PipelineTypeOK'
  BY <1>1 DEF PipelineInv, PipelineTypeOK
<1>4. RowsFit'
  BY <1>1, <1>2 DEF RowsFit
<1>5. ASSUME NEW v \in Workers
      PROVE  TaskHolds(v)
  <2>1. Claimed(v) => runs'[worker[v].run].status # "running"
    <3>1. Claimed(v) => worker[v].run \in RunIds
      BY ClaimedTask DEF Claimed
    <3> QED
      BY <1>1, <1>2, <3>1
  <2> QED
    BY <1>1, <2>1, OtherTask
<1>6. TasksFit' /\ HeldHistory'
  BY <1>5, TasksHold
<1>7. OneWorkerPerRun'
  BY <1>1 DEF PipelineInv, OneWorkerPerRun
<1>8. NoOrphanedRun'
  BY <1>1, <1>2 DEF NoOrphanedRun, Active, ActiveStatuses
<1> QED
  BY <1>3, <1>4, <1>6, <1>7, <1>8 DEF PipelineInv

(* A step that leaves the tables alone and starts no work: each task stays *)
(* as it is, ends, or has a run it has not looked at yet.                  *)
LEMMA QuietStep ==
  ASSUME IndInv, PipelineInv, UNCHANGED serviceVars, UNCHANGED unsure,
         \A v \in Workers :
           \/ worker'[v] = worker[v]
           \/ worker'[v] = Idle
           \/ worker'[v].pc = "claim" /\ worker'[v].run \in RunIds
  PROVE  RowsFit' /\ TasksFit' /\ HeldHistory' /\ OneWorkerPerRun'
<1>1. RowsFit'
  BY DEF PipelineInv, RowsFit, serviceVars
<1>2. ASSUME NEW v \in Workers
      PROVE  TaskHolds(v)
  <2>1. CASE worker'[v] = worker[v]
    BY <2>1, OtherTask DEF serviceVars
  <2>2. CASE worker'[v] = Idle
    BY <2>2 DEF TaskHolds, Idle, Stepping, Handling
  <2>3. CASE worker'[v].pc = "claim" /\ worker'[v].run \in RunIds
    BY <2>3 DEF TaskHolds, Stepping, Handling
  <2> QED
    BY <2>1, <2>2, <2>3
<1>3. TasksFit' /\ HeldHistory'
  BY <1>2, TasksHold
<1>4. Idle.pc = "idle"
  BY DEF Idle
<1>5. OneWorkerPerRun'
  BY <1>4 DEF PipelineInv, OneWorkerPerRun, Stepping, Handling
<1> QED
  BY <1>1, <1>3, <1>5

LEMMA DispatchInv ==
  ASSUME IndInv, PipelineInv, [Next]_serviceVars, TypeOK',
         NEW r \in RunIds, Dispatch(r)
  PROVE  PipelineInv'
<1>1. CASE Enqueue(r) \/ EnqueueFails(r)
  <2>1. /\ UNCHANGED serviceVars /\ UNCHANGED <<worker, faults, abandoned, unsure>>
        /\ queue \subseteq queue' /\ queue' \subseteq RunIds
        /\ \A s \in RunIds \ {r} : dispatch'[s] = dispatch[s]
        /\ dispatch'[r] # "done" \/ r \in queue'
        /\ dispatch' \in [RunIds -> {"done", "queueing", "failing"}]
    BY <1>1 DEF Enqueue, EnqueueFails, PipelineInv, PipelineTypeOK
  <2>2. PipelineTypeOK'
    BY <2>1 DEF PipelineInv, PipelineTypeOK
  <2>3. RowsFit' /\ TasksFit' /\ HeldHistory' /\ OneWorkerPerRun'
    BY <2>1, QuietStep
  <2>4. NoOrphanedRun'
    BY <2>1 DEF PipelineInv, NoOrphanedRun, Active, At, serviceVars
  <2> QED
    BY <2>2, <2>3, <2>4 DEF PipelineInv
<1>2. CASE FailUnsent(r) /\ runs[r].status = "pending"
  <2>1. /\ Fail(r, "queue_unavailable")
        /\ dispatch' = [dispatch EXCEPT ![r] = "done"]
        /\ UNCHANGED <<queue, worker, faults, abandoned, unsure>>
        /\ dispatch \in [RunIds -> {"done", "queueing", "failing"}]
    BY <1>2 DEF FailUnsent, PipelineInv, PipelineTypeOK
  <2>2. /\ OnlyRow(r)
        /\ runs'[r].status = "failed"
        /\ runs'[r].started = runs[r].started
        /\ runs'[r].rewritten = runs[r].rewritten
        /\ runs'[r].snapshot = runs[r].snapshot
        /\ runs'[r].error = "queue_unavailable"
    BY <2>1, FailRow DEF IndInv
  <2>3. RowFits(r, runs[r], unsure)
    BY DEF PipelineInv, RowsFit
  <2>4. RowFits(r, runs'[r], unsure)
    BY <1>2, <2>2, <2>3, Codes DEF RowFits, NamesStage
  <2> QED
    BY <2>1, <2>2, <2>4, RequestInv
<1>3. CASE FailUnsent(r) /\ runs[r].status # "pending"
  <2>1. /\ UNCHANGED serviceVars /\ UNCHANGED <<queue, worker, faults, abandoned, unsure>>
        /\ \A s \in RunIds \ {r} : dispatch'[s] = dispatch[s]
        /\ dispatch' \in [RunIds -> {"done", "queueing", "failing"}]
    BY <1>3 DEF FailUnsent, PipelineInv, PipelineTypeOK
  <2>2. PipelineTypeOK'
    BY <2>1 DEF PipelineInv, PipelineTypeOK
  <2>3. RowsFit' /\ TasksFit' /\ HeldHistory' /\ OneWorkerPerRun'
    BY <2>1, QuietStep
  <2>4. NoOrphanedRun'
    BY <1>3, <2>1 DEF PipelineInv, NoOrphanedRun, Active, At, serviceVars
  <2> QED
    BY <2>2, <2>3, <2>4 DEF PipelineInv
<1> QED
  BY <1>1, <1>2, <1>3 DEF Dispatch

LEMMA RequestLostInv ==
  ASSUME IndInv, PipelineInv, TypeOK', NEW r \in RunIds, RequestLost(r)
  PROVE  PipelineInv'
<1>1. /\ UNCHANGED serviceVars /\ UNCHANGED <<queue, worker, unsure>>
      /\ \A s \in RunIds \ {r} : dispatch'[s] = dispatch[s]
      /\ dispatch' \in [RunIds -> {"done", "queueing", "failing"}]
      /\ faults' \in 0..MaxFaults /\ abandoned' = abandoned \cup {r}
  BY PipelineAssumption DEF RequestLost, Fault, PipelineInv, PipelineTypeOK
<1>2. PipelineTypeOK'
  BY <1>1 DEF PipelineInv, PipelineTypeOK
<1>3. RowsFit' /\ TasksFit' /\ HeldHistory' /\ OneWorkerPerRun'
  BY <1>1, QuietStep
<1>4. NoOrphanedRun'
  BY <1>1 DEF PipelineInv, NoOrphanedRun, Active, At, serviceVars
<1> QED
  BY <1>2, <1>3, <1>4 DEF PipelineInv

LEMMA DeliverInv ==
  ASSUME IndInv, PipelineInv, TypeOK', NEW w \in Workers, NEW r \in RunIds,
         Deliver(w, r)
  PROVE  PipelineInv'
<1> DEFINE task == [Idle EXCEPT !.pc = "claim", !.run = r]
<1>1. task \in Task /\ task.pc = "claim" /\ task.run = r
  BY NoRowType DEF Idle, Task
<1>2. /\ worker[w].pc = "idle" /\ UNCHANGED serviceVars
      /\ queue' = queue \ {r} /\ worker' = [worker EXCEPT ![w] = task]
      /\ UNCHANGED <<dispatch, faults, abandoned, unsure>>
  BY DEF Deliver, At
<1> HIDE DEF task
<1>3. /\ worker' \in [Workers -> Task] /\ worker'[w] = task
      /\ \A v \in Workers \ {w} : worker'[v] = worker[v]
  BY <1>1, <1>2 DEF PipelineInv, PipelineTypeOK
<1>4. PipelineTypeOK'
  BY <1>2, <1>3 DEF PipelineInv, PipelineTypeOK
<1>5. RowsFit' /\ TasksFit' /\ HeldHistory' /\ OneWorkerPerRun'
  BY <1>1, <1>2, <1>3, QuietStep
<1>6. NoOrphanedRun'
  <2> SUFFICES ASSUME NEW s \in Active \ abandoned
               PROVE  \/ /\ runs[s].status = "pending"
                         /\ \/ dispatch[s] # "done"
                            \/ s \in queue \ {r}
                            \/ \E v \in Workers :
                                 worker'[v].pc = "claim" /\ worker'[v].run = s
                      \/ /\ runs[s].status = "running"
                         /\ \E v \in Workers :
                              /\ worker'[v].pc \in Stepping \cup Handling
                              /\ worker'[v].run = s
    BY <1>2 DEF NoOrphanedRun, Active, At, serviceVars
  <2>1. \A v \in Workers :
          worker[v].pc \in {"claim"} \cup Stepping \cup Handling =>
            worker'[v] = worker[v]
    BY <1>2, <1>3 DEF Stepping, Handling
  <2> QED
    BY <1>1, <1>3, <2>1 DEF PipelineInv, NoOrphanedRun, At
<1> QED
  BY <1>4, <1>5, <1>6 DEF PipelineInv

(* A task that is gone leaves its run abandoned, waiting in the queue, or  *)
(* to the task that claimed it.                                            *)
LEMMA TaskGoneInv ==
  ASSUME IndInv, PipelineInv, TypeOK', NEW w \in Workers,
         TaskLost(w) \/ WorkerCrashes(w)
  PROVE  PipelineInv'
<1>1. worker[w].pc # "idle"
  BY DEF TaskLost, WorkerCrashes, At, Handling
<1>2. worker[w].run \in RunIds
  BY <1>1 DEF PipelineInv, TasksFit
<1>3. Idle \in Task /\ Idle.pc = "idle"
  BY NoRowType DEF Idle, Task
<1>4. /\ UNCHANGED serviceVars /\ UNCHANGED <<dispatch, unsure>>
      /\ worker' = [worker EXCEPT ![w] = Idle]
      /\ queue \subseteq queue' /\ queue' \subseteq RunIds
      /\ faults' \in 0..MaxFaults
      /\ abandoned \subseteq abandoned' /\ abandoned' \subseteq RunIds
  BY <1>2, PipelineAssumption
     DEF TaskLost, WorkerCrashes, Fault, PipelineInv, PipelineTypeOK
<1>5. \/ worker[w].run \in abandoned'
      \/ worker[w].pc = "claim" /\ worker[w].run \in queue'
  BY DEF TaskLost, WorkerCrashes, Fault, At
<1>6. /\ worker' \in [Workers -> Task] /\ worker'[w] = Idle
      /\ \A v \in Workers \ {w} : worker'[v] = worker[v]
  BY <1>3, <1>4 DEF PipelineInv, PipelineTypeOK
<1>7. PipelineTypeOK'
  BY <1>4, <1>6 DEF PipelineInv, PipelineTypeOK
<1>8. RowsFit' /\ TasksFit' /\ HeldHistory' /\ OneWorkerPerRun'
  BY <1>4, <1>6, QuietStep
<1>9. NoOrphanedRun'
  <2> SUFFICES ASSUME NEW s \in Active \ abandoned'
               PROVE  \/ /\ runs[s].status = "pending"
                         /\ \/ dispatch[s] # "done"
                            \/ s \in queue'
                            \/ \E v \in Workers :
                                 worker'[v].pc = "claim" /\ worker'[v].run = s
                      \/ /\ runs[s].status = "running"
                         /\ \E v \in Workers :
                              /\ worker'[v].pc \in Stepping \cup Handling
                              /\ worker'[v].run = s
    BY <1>4 DEF NoOrphanedRun, Active, At, serviceVars
  <2>1. s \in Active \ abandoned
    BY <1>4
  <2>2. CASE s = worker[w].run
    <3>1. worker[w].pc = "claim" /\ s \in queue'
      BY <1>5, <2>2
    <3>2. "claim" \notin Stepping \cup Handling
      BY DEF Stepping, Handling
    <3> QED
      BY <1>6, <2>1, <3>1, <3>2 DEF PipelineInv, NoOrphanedRun, At
  <2>3. CASE s # worker[w].run
    BY <1>4, <1>6, <2>1, <2>3 DEF PipelineInv, NoOrphanedRun, At
  <2> QED
    BY <2>2, <2>3
<1> QED
  BY <1>7, <1>8, <1>9 DEF PipelineInv

LEMMA RedeliverInv ==
  ASSUME IndInv, PipelineInv, TypeOK', NEW w \in Workers, Redeliver(w)
  PROVE  PipelineInv'
<1>1. worker[w].run \in RunIds
  BY DEF Redeliver, At, PipelineInv, TasksFit
<1>2. /\ UNCHANGED serviceVars
      /\ UNCHANGED <<dispatch, worker, faults, abandoned, unsure>>
      /\ queue \subseteq queue' /\ queue' \subseteq RunIds
  BY <1>1 DEF Redeliver, PipelineInv, PipelineTypeOK
<1>3. PipelineTypeOK'
  BY <1>2 DEF PipelineInv, PipelineTypeOK
<1>4. RowsFit' /\ TasksFit' /\ HeldHistory' /\ OneWorkerPerRun'
  BY <1>2, QuietStep
<1>5. NoOrphanedRun'
  BY <1>2 DEF PipelineInv, NoOrphanedRun, Active, At, serviceVars
<1> QED
  BY <1>3, <1>4, <1>5 DEF PipelineInv

-----------------------------------------------------------------------------

LEMMA NextPipelineInv ==
  ASSUME IndInv, PipelineInv, [PipelineNext]_vars
  PROVE  IndInv' /\ PipelineInv'
<1>1. [Next]_serviceVars
  BY PipelineServes
<1>2. IndInv' /\ TypeOK'
  BY <1>1, NextIndInv DEF IndInv
<1>3. CASE \E q \in Requests, r \in RunIds : SendMessage(q, r)
  BY <1>1, <1>2, <1>3, SendMessageInv
<1>4. CASE \E p, r \in RunIds : RetryRun(p, r)
  BY <1>1, <1>2, <1>4, RetryRunInv
<1>5. CASE \E r \in RunIds : CancelRun(r)
  BY <1>1, <1>2, <1>5, CancelRunInv
<1>6. CASE DeleteRequest
  BY <1>1, <1>2, <1>6, DeleteRequestInv
<1>7. CASE \E r \in RunIds : Dispatch(r)
  BY <1>1, <1>2, <1>7, DispatchInv
<1>8. CASE \E r \in RunIds : RequestLost(r)
  BY <1>2, <1>8, RequestLostInv
<1>9. CASE \E w \in Workers, r \in RunIds : Deliver(w, r)
  BY <1>2, <1>9, DeliverInv
<1>10. CASE \E w \in Workers : WorkerStep(w) \/ StepRaises(w) \/ TaskCancelled(w)
  <2>1. PICK w \in Workers : WorkerStep(w) \/ StepRaises(w) \/ TaskCancelled(w)
    BY <1>10
  <2>2. Advances(w) \/ Ends(w)
    BY <2>1, WorkerSteps DEF TaskStep
  <2>3. worker[w].run \in RunIds
    BY <2>1, BusyTask
  <2> QED
    BY <1>1, <1>2, <2>2, <2>3, AdvancesInv, EndsInv
<1>11. CASE \E w \in Workers : TaskLost(w) \/ WorkerCrashes(w)
  BY <1>2, <1>11, TaskGoneInv
<1>12. CASE \E w \in Workers : Redeliver(w)
  BY <1>2, <1>12, RedeliverInv
<1>13. CASE UNCHANGED vars
  <2>1. /\ UNCHANGED serviceVars
        /\ UNCHANGED <<dispatch, queue, worker, faults, abandoned, unsure>>
    BY <1>13 DEF vars, serviceVars
  <2>2. RowsFit' /\ TasksFit' /\ HeldHistory' /\ OneWorkerPerRun'
    BY <2>1, QuietStep
  <2>3. PipelineTypeOK' /\ NoOrphanedRun'
    BY <1>2, <2>1 DEF PipelineInv, PipelineTypeOK, NoOrphanedRun, Active, At,
       serviceVars
  <2> QED
    BY <1>2, <2>2, <2>3 DEF PipelineInv
<1> QED
  BY <1>2, <1>3, <1>4, <1>5, <1>6, <1>7, <1>8, <1>9, <1>10, <1>11, <1>12, <1>13
     DEF PipelineNext

LEMMA InitPipelineInv ==
  ASSUME PipelineInit
  PROVE  IndInv /\ PipelineInv
<1>1. IndInv /\ TypeOK
  BY InitIndInv DEF PipelineInit, IndInv
<1>2. /\ \A w \in Workers : worker[w] = Idle
      /\ dispatch = [r \in RunIds |-> "done"] /\ queue = {}
      /\ worker = [w \in Workers |-> Idle] /\ faults = 0 /\ abandoned = {}
      /\ unsure = {} /\ \A r \in RunIds : runs[r] = NoRow
  BY DEF PipelineInit, Init
<1>3. Idle \in Task /\ Idle.pc = "idle"
  BY NoRowType DEF Idle, Task
<1>4. NoRow.status = "absent" /\ \A r : RowFits(r, NoRow, unsure)
  BY Codes DEF NoRow, RowFits, NamesStage, EmptySnapshot
<1>5. PipelineTypeOK
  BY <1>1, <1>2, <1>3, PipelineAssumption DEF PipelineTypeOK
<1>6. RowsFit
  BY <1>2, <1>4 DEF RowsFit
<1>7. TasksFit /\ HeldHistory /\ OneWorkerPerRun
  BY <1>2, <1>3 DEF TasksFit, HeldHistory, OneWorkerPerRun, Claimed, At,
     Stepping, Handling
<1>8. NoOrphanedRun
  BY <1>2, <1>4 DEF NoOrphanedRun, Active, ActiveStatuses
<1> QED
  BY <1>1, <1>5, <1>6, <1>7, <1>8 DEF PipelineInv

(* In every reachable state each task fits the row of its run.             *)
THEOREM PipelineInvariance == PipelineSpec => [](IndInv /\ PipelineInv)
<1>1. PipelineInit => IndInv /\ PipelineInv
  BY InitPipelineInv
<1>2. IndInv /\ PipelineInv /\ [PipelineNext]_vars => (IndInv /\ PipelineInv)'
  BY NextPipelineInv
<1> QED
  BY <1>1, <1>2, PTL DEF PipelineSpec

(* Tasks, queue and requests keep their shape.                             *)
THEOREM PipelineTypeCorrect == PipelineSpec => []PipelineTypeOK
<1>1. IndInv /\ PipelineInv => PipelineTypeOK
  BY DEF PipelineInv
<1> QED
  BY <1>1, PipelineInvariance, PTL

(* However often its message is delivered, one task at most works on a run.*)
THEOREM OneWorkerPerRunHolds == PipelineSpec => []OneWorkerPerRun
<1>1. IndInv /\ PipelineInv => OneWorkerPerRun
  BY DEF PipelineInv
<1> QED
  BY <1>1, PipelineInvariance, PTL

(* Without a fault, an active run is always somebody's business.           *)
THEOREM NoOrphanedRunHolds == PipelineSpec => []NoOrphanedRun
<1>1. IndInv /\ PipelineInv => NoOrphanedRun
  BY DEF PipelineInv
<1> QED
  BY <1>1, PipelineInvariance, PTL

(* The pipeline implements the operations it calls: what a task saves from *)
(* an earlier unlocked read is what one transaction could have read and    *)
(* saved at once.                                                          *)
THEOREM PipelineImplementsService == PipelineSpec => ImplementsService
<1>1. PipelineInit => Init
  BY DEF PipelineInit
<1>2. PipelineInv /\ [PipelineNext]_vars => [Next]_serviceVars
  BY PipelineServes
<1> QED
  BY <1>1, <1>2, PipelineInvariance, PTL DEF PipelineSpec, ImplementsService, Spec

(* A worker holds the prompt of the row it publishes to, and a completed   *)
(* run has its prompt on record.                                           *)
THEOREM AnswerFromSavedPromptHolds == PipelineSpec => []AnswerFromSavedPrompt
<1>1. IndInv /\ PipelineInv => AnswerFromSavedPrompt
  <2> SUFFICES ASSUME IndInv, PipelineInv PROVE AnswerFromSavedPrompt
    OBVIOUS
  <2>1. ASSUME NEW w \in Workers, worker[w].pc \in {"model", "publish"},
               runs[worker[w].run].status = "running"
        PROVE  worker[w].prompt = runs[worker[w].run].snapshot.prompt
    <3>1. worker[w].pc \in Stepping
      BY <2>1 DEF Stepping
    <3>2. TaskFits(worker[w], runs[worker[w].run], unsure)
      BY <3>1, ClaimedTask
    <3> QED
      BY <2>1, <3>2 DEF TaskFits, RowAwaits
  <2>2. ASSUME NEW r \in Present
        PROVE  IF runs[r].snapshot.prompt = None
               THEN runs[r].status # "completed"
               ELSE runs[r].snapshot.prompt \in
                      RecentSuffixes(runs[r].snapshot.history)
    <3>1. RowFits(r, runs[r], unsure)
      BY DEF PipelineInv, RowsFit, Present
    <3> QED
      BY <3>1 DEF RowFits, Assembled
  <2> QED
    BY <2>1, <2>2 DEF AnswerFromSavedPrompt, At
<1> QED
  BY <1>1, PipelineInvariance, PTL

(* NULL in the prompt's column is not a list of exchanges.  TLC takes this *)
(* from None being a model value and cannot evaluate it.                   *)
NullIsNoPrompt == None \notin SUBSET Nat

(* The code of a failed run names the queue or the stage that failed,      *)
(* whoever recorded it.                                                    *)
THEOREM FailuresNameTheirCauseHolds ==
  ASSUME NullIsNoPrompt
  PROVE  PipelineSpec => []FailuresNameTheirCause
<1>1. IndInv /\ PipelineInv => FailuresNameTheirCause
  <2> SUFFICES ASSUME IndInv, PipelineInv, NEW r \in Present
               PROVE  /\ runs[r].status = "failed" =>
                           (runs[r].error = "queue_unavailable" <=> ~runs[r].started)
                      /\ runs[r].error = "rewrite_failed" =>
                           /\ runs[r].rewritten => r \in unsure
                           /\ runs[r].snapshot.prompt = None
                      /\ runs[r].error = "retrieval_failed" =>
                           runs[r].rewritten /\ runs[r].snapshot.prompt = None
                      /\ runs[r].error = "context_failed" =>
                           /\ runs[r].rewritten
                           /\ runs[r].snapshot.prompt # None => r \in unsure
                      /\ runs[r].error \in AnswerErrors =>
                           runs[r].snapshot.prompt # None
    BY DEF FailuresNameTheirCause, QueueUnavailableNeverStarted, FailureCodeNamesStage
  <2>1. RowFits(r, runs[r], unsure) /\ runs[r].snapshot \in Snapshot
    BY DEF PipelineInv, RowsFit, Present, IndInv, TypeOK, Row
  <2>2. ASSUME Assembled(runs[r])
        PROVE  runs[r].snapshot.prompt # None
    <3>1. runs[r].snapshot.prompt \subseteq runs[r].snapshot.history
      BY <2>2, SuffixesAreSubsets DEF Assembled
    <3>2. runs[r].snapshot.history \subseteq Nat
      BY <2>1 DEF Snapshot
    <3> QED
      BY <3>1, <3>2 DEF NullIsNoPrompt
  <2> QED
    BY <2>1, <2>2 DEF RowFits, NamesStage
<1> QED
  BY <1>1, PipelineInvariance, PTL
=============================================================================
