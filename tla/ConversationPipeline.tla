------------------------ MODULE ConversationPipeline ------------------------
(***************************************************************************)
(* How a question gets its answer: the HTTP routes that reserve, retry,    *)
(* cancel and delete, the dispatcher that queues a committed run, the task *)
(* queue, and the worker that runs ConversationPipeline.process.  Each     *)
(* worker step below is the code between two points where another process  *)
(* can act: a commit, or the end of an unlocked read or of a model call.   *)
(*                                                                         *)
(* The queue is a Redis stream that acknowledges a message after its task  *)
(* has ended: a message whose worker dies is delivered again, and one      *)
(* whose task takes too long may be delivered again beside it.             *)
(***************************************************************************)
EXTENDS ConversationService

CONSTANTS Workers,        \* task slots of the worker processes
          AnswerErrors,   \* codes generate_run records itself
          MaxFaults       \* bound on crashes and database failures

StageErrors == {"rewrite_failed", "retrieval_failed", "context_failed",
                "answer_generation_failed"}

ASSUME PipelineAssumption ==
  /\ MaxFaults \in Nat
  /\ AnswerErrors \cup StageErrors \cup {"queue_unavailable"} \subseteq ErrorCodes
  /\ "answer_generation_failed" \in AnswerErrors
  /\ AnswerErrors \cap (StageErrors \ {"answer_generation_failed"}) = {}
  /\ "queue_unavailable" \notin AnswerErrors

VARIABLES dispatch,   \* what the request that committed a run has left to do
          queue,      \* runs with a message to be delivered
          worker,     \* what each task slot is doing
          faults,     \* crashes and database failures so far
          abandoned,  \* runs a fault took out of every process's hands
          unsure      \* runs with a save that was taken for a failure

pipelineVars == <<dispatch, queue, worker, faults, abandoned, unsure>>
vars == <<exists, messages, runs, dispatch, queue, worker, faults, abandoned, unsure>>

-----------------------------------------------------------------------------
(* Where process stands.  The steps from "load" to "terminate" are inside  *)
(* its try block.                                                          *)
Stepping == {"load", "rewrite", "retrieving", "retrieve", "retrieved",
             "assemble", "context", "generation", "model", "publish", "terminate",
             "withdraw"}
Handling == {"failing", "cancelling"}

(* history, snapshot and prompt are what the task read and has yet to use. *)
Task == [pc : {"idle", "claim"} \cup Stepping \cup Handling,
         run : {None} \cup RunIds,
         history : SUBSET Nat,
         snapshot : Snapshot,
         prompt : {None} \cup SUBSET Nat,
         error : {None} \cup ErrorCodes]

Idle == [pc |-> "idle", run |-> None, history |-> {}, snapshot |-> EmptySnapshot,
         prompt |-> None, error |-> None]

(* Mutant: error_code is not updated between rewriting and retrieving.     *)
StageErrorNotUpdated(pc) ==
  IF pc \in {"assemble", "context"} THEN "context_failed"
  ELSE IF pc \in {"generation", "model", "publish", "terminate", "withdraw"}
       THEN "answer_generation_failed"
       ELSE "rewrite_failed"

(* The error_code process would record if the step it is at raised.        *)
StageError(pc) ==
  CASE pc \in {"load", "rewrite"} -> "rewrite_failed"
    [] pc \in {"retrieving", "retrieve", "retrieved"} -> "retrieval_failed"
    [] pc \in {"assemble", "context"} -> "context_failed"
    [] pc \in {"generation", "model", "publish", "terminate", "withdraw"} ->
         "answer_generation_failed"

At(w, pc) == worker[w].pc = pc

(* The task at pc, with nothing held from before.                          *)
Moved(w, pc) == [Idle EXCEPT !.pc = pc, !.run = worker[w].run]

Become(w, task) ==
  /\ worker' = [worker EXCEPT ![w] = task]
  /\ UNCHANGED <<dispatch, queue, faults, abandoned, unsure>>

Goto(w, pc) == Become(w, Moved(w, pc))

(* process returns and its message is acknowledged.                        *)
Finish(w) == Become(w, Idle)

(* An exception takes the step to process's handler, and its error_code.   *)
Failing(w) == [Moved(w, "failing") EXCEPT !.error = StageError(worker[w].pc)]

Fault(lost) ==
  /\ faults < MaxFaults
  /\ faults' = faults + 1
  /\ abandoned' = abandoned \cup lost

(* The connection is lost while a commit is answered: what the step saved  *)
(* is there, and the step fails all the same.                              *)
CommitUnsure(w) ==
  /\ Fault({})
  /\ unsure' = unsure \cup {worker[w].run}
  /\ worker' = [worker EXCEPT ![w] = Failing(w)]
  /\ UNCHANGED <<dispatch, queue>>

(***************************************************************************)
(* Mutants: plausible mistakes in the routes, the dispatcher and the       *)
(* worker, which the properties must notice.  No part of the specification.*)
(***************************************************************************)

(* The dispatcher records the provider's words instead of a code.          *)
FailUnsentUnsafely(r) ==
  /\ dispatch[r] = "failing"
  /\ IF runs[r].status = "pending"
     THEN Fail(r, "Connection refused.")
     ELSE UNCHANGED serviceVars
  /\ dispatch' = [dispatch EXCEPT ![r] = "done"]
  /\ UNCHANGED <<queue, worker, faults, abandoned, unsure>>

(* The dispatcher answers 503 and leaves the run as it is.                 *)
FailUnsentForgotten(r) ==
  /\ dispatch[r] = "failing"
  /\ dispatch' = [dispatch EXCEPT ![r] = "done"]
  /\ UNCHANGED <<serviceVars, queue, worker, faults, abandoned, unsure>>

(* A task takes up a run another task has started.                         *)
ClaimAnyActive(w) ==
  /\ At(w, "claim")
  /\ LET r == worker[w].run IN
       IF r \in Active
       THEN /\ runs' = [runs EXCEPT ![r].status = "running",
                                    ![r].stage = "starting", ![r].started = TRUE]
            /\ UNCHANGED <<exists, messages>>
            /\ Goto(w, "load")
       ELSE Finish(w) /\ UNCHANGED serviceVars

(* The retrieval is saved into a fresh snapshot.                           *)
FinishRetrievalAfresh(w) ==
  /\ At(w, "retrieved")
  /\ LET r == worker[w].run IN
       IF MayCheckpoint(r)
       THEN SaveRetrieval(r, EmptySnapshot) /\ Goto(w, "assemble")
       ELSE /\ Become(w, Failing(w))
            /\ UNCHANGED serviceVars

(* The prompt is rebuilt from the history instead of read from the row.    *)
BeginGenerationRebuilt(w) ==
  /\ At(w, "generation")
  /\ LET r == worker[w].run IN
       IF MayClaimGeneration(r)
       THEN /\ ClaimGeneration(r)
            /\ Become(w, [Moved(w, "model") EXCEPT
                             !.prompt = runs[r].snapshot.history])
       ELSE /\ Become(w, Failing(w))
            /\ UNCHANGED serviceVars

(* The handler fails pending runs only, as the dispatcher does.            *)
RecordFailurePendingOnly(w) ==
  /\ At(w, "failing")
  /\ LET r == worker[w].run IN
       IF runs[r].status = "pending"
       THEN Fail(r, worker[w].error)
       ELSE UNCHANGED serviceVars
  /\ Finish(w)

-----------------------------------------------------------------------------

PipelineInit ==
  /\ Init
  /\ dispatch = [r \in RunIds |-> "done"]
  /\ queue = {}
  /\ worker = [w \in Workers |-> Idle]
  /\ faults = 0
  /\ abandoned = {} /\ unsure = {}

-----------------------------------------------------------------------------
(* The HTTP routes.  A resent request id reads the existing turn and       *)
(* queues nothing, so it is not a step.                                    *)

SendMessage(q, r) ==
  /\ ReserveTurn(q, r)
  /\ dispatch' = [dispatch EXCEPT ![r] = "queueing"]
  /\ UNCHANGED <<queue, worker, faults, abandoned, unsure>>

RetryRun(p, r) ==
  /\ Retry(p, r)
  /\ dispatch' = [dispatch EXCEPT ![r] = "queueing"]
  /\ UNCHANGED <<queue, worker, faults, abandoned, unsure>>

CancelRun(r) == Cancel(r) /\ UNCHANGED pipelineVars

DeleteRequest == DeleteConversation /\ UNCHANGED pipelineVars

Enqueue(r) ==
  /\ dispatch[r] = "queueing"
  /\ dispatch' = [dispatch EXCEPT ![r] = "done"]
  /\ queue' = queue \cup {r}
  /\ UNCHANGED <<serviceVars, worker, faults, abandoned, unsure>>

(* kiq raises; the broker may have taken the message all the same.         *)
EnqueueFails(r) ==
  /\ dispatch[r] = "queueing"
  /\ dispatch' = [dispatch EXCEPT ![r] = "failing"]
  /\ queue' \in {queue, queue \cup {r}}
  /\ UNCHANGED <<serviceVars, worker, faults, abandoned, unsure>>

(* fail_if_active(..., pending_only=True)                                  *)
FailUnsent(r) ==
  /\ dispatch[r] = "failing"
  /\ IF runs[r].status = "pending"
     THEN Fail(r, "queue_unavailable")
     ELSE UNCHANGED serviceVars
  /\ dispatch' = [dispatch EXCEPT ![r] = "done"]
  /\ UNCHANGED <<queue, worker, faults, abandoned, unsure>>

(* The API process dies between the commit and the end of the dispatch, or *)
(* does not learn that the commit took effect, or the dispatcher's own     *)
(* transaction fails.                                                      *)
RequestLost(r) ==
  /\ dispatch[r] # "done"
  /\ Fault({r})
  /\ dispatch' = [dispatch EXCEPT ![r] = "done"]
  /\ UNCHANGED <<serviceVars, queue, worker, unsure>>

-----------------------------------------------------------------------------
(* The worker.                                                             *)

Deliver(w, r) ==
  /\ At(w, "idle")
  /\ r \in queue
  /\ queue' = queue \ {r}
  /\ worker' = [worker EXCEPT ![w] = [Idle EXCEPT !.pc = "claim", !.run = r]]
  /\ UNCHANGED <<serviceVars, dispatch, faults, abandoned, unsure>>

(* start_run; a run that is gone or not pending ends the task quietly.     *)
ClaimRun(w) ==
  /\ At(w, "claim")
  /\ LET r == worker[w].run IN
       \/ StartRun(r) /\ Goto(w, "load")
       \/ runs[r].status # "pending" /\ Finish(w) /\ UNCHANGED serviceVars

(* rewrite_run up to the model call: an unlocked read.                     *)
LoadHistory(w) ==
  /\ At(w, "load")
  /\ LET r == worker[w].run IN
       \/ /\ runs[r].status = "running"
          /\ \E h \in RecentSuffixes(CompletedPairs(runs[r].user)) :
               Become(w, [Moved(w, "rewrite") EXCEPT !.history = h])
       \/ /\ runs[r].status # "running"
          /\ Become(w, Failing(w))
  /\ UNCHANGED serviceVars

(* A step that saves: it moves on when the service accepts, and otherwise  *)
(* the ConflictError or NotFoundError lands in process's handler.          *)
SaveOr(w, accepted, save, next) ==
  \/ save /\ (Become(w, next) \/ CommitUnsure(w))
  \/ ~accepted /\ Become(w, Failing(w)) /\ UNCHANGED serviceVars

RewriteQuery(w) ==
  /\ At(w, "rewrite")
  /\ LET r == worker[w].run IN
       SaveOr(w, MayCheckpoint(r), SaveRewrite(r, worker[w].history),
              Moved(w, "retrieving"))

BeginRetrieval(w) ==
  /\ At(w, "retrieving")
  /\ LET r == worker[w].run IN
       SaveOr(w, MayCheckpoint(r), StartRetrieval(r), Moved(w, "retrieve"))

(* The search, then get_run without a lock: the snapshot is read here and  *)
(* written back, with the sources, once the lock is held.                  *)
Retrieve(w) ==
  /\ At(w, "retrieve")
  /\ LET r == worker[w].run IN
       IF runs[r].status = "absent"
       THEN Become(w, Failing(w))
       ELSE Become(w, [Moved(w, "retrieved") EXCEPT !.snapshot = runs[r].snapshot])
  /\ UNCHANGED serviceVars

FinishRetrieval(w) ==
  /\ At(w, "retrieved")
  /\ LET r == worker[w].run IN
       SaveOr(w, MayCheckpoint(r), SaveRetrieval(r, worker[w].snapshot),
              Moved(w, "assemble"))

(* assemble_run up to its checkpoint: history that does not fit beside the *)
(* passages is dropped from the oldest exchange on.                        *)
AssembleContext(w) ==
  /\ At(w, "assemble")
  /\ LET r == worker[w].run IN
       \/ /\ runs[r].status = "running"
          /\ \E p \in RecentSuffixes(runs[r].snapshot.history) :
               Become(w, [Moved(w, "context") EXCEPT !.prompt = p])
       \/ /\ runs[r].status # "running"
          /\ Become(w, Failing(w))
  /\ UNCHANGED serviceVars

FinishContext(w) ==
  /\ At(w, "context")
  /\ LET r == worker[w].run IN
       SaveOr(w, MayCheckpoint(r), SaveContext(r, worker[w].prompt),
              Moved(w, "generation"))

BeginGeneration(w) ==
  /\ At(w, "generation")
  /\ LET r == worker[w].run IN
       SaveOr(w, MayClaimGeneration(r), ClaimGeneration(r),
              [Moved(w, "model") EXCEPT !.prompt = runs[r].snapshot.prompt])

(* The model gives a whole answer that answer_text accepts.                *)
ModelAnswers(w) ==
  /\ At(w, "model")
  /\ Become(w, [worker[w] EXCEPT !.pc = "publish"])
  /\ UNCHANGED serviceVars

(* The model fails, or its answer is cut off, filtered, refused or empty:  *)
(* an error with a code of its own.                                        *)
AnswerRefused(w) ==
  /\ At(w, "model")
  /\ \E e \in AnswerErrors :
       Become(w, [Moved(w, "terminate") EXCEPT !.error = e])
  /\ UNCHANGED serviceVars

Publish(w) ==
  /\ At(w, "publish")
  /\ LET r == worker[w].run IN
       \E a \in Answers :
         SaveOr(w, runs[r].status = "running", Complete(r, a), Idle)

(* _terminate_run with a code; whoever finished the run first wins.        *)
TerminateRun(w) ==
  /\ At(w, "terminate")
  /\ LET r == worker[w].run IN
       \/ /\ runs[r].status = "running"
          /\ Fail(r, worker[w].error)
          /\ Finish(w) \/ CommitUnsure(w)
       \/ runs[r].status # "running" /\ Finish(w) /\ UNCHANGED serviceVars

(* _terminate_run without a code, when the task is cancelled while it      *)
(* generates; the cancellation goes on to process.                         *)
WithdrawRun(w) ==
  /\ At(w, "withdraw")
  /\ LET r == worker[w].run IN
       \/ /\ runs[r].status = "running"
          /\ Cancel(r)
          /\ Goto(w, "cancelling") \/ CommitUnsure(w)
       \/ /\ runs[r].status # "running"
          /\ Goto(w, "cancelling")
          /\ UNCHANGED serviceVars

(* Any other exception of a step, such as a database error, with nothing   *)
(* of the step saved.  Inside the model call it becomes an answer error.   *)
StepRaises(w) ==
  /\ worker[w].pc \in Stepping \ {"model"}
  /\ Become(w, Failing(w))
  /\ UNCHANGED serviceVars

(* The handler's fail_if_active.                                           *)
RecordFailure(w) ==
  /\ At(w, "failing")
  /\ LET r == worker[w].run IN
       IF r \in Active THEN Fail(r, worker[w].error) ELSE UNCHANGED serviceVars
  /\ Finish(w)

(* asyncio cancels the task, as when a worker shuts down; generate_run     *)
(* handles it first from its model call on.                                *)
TaskCancelled(w) ==
  /\ worker[w].pc \in Stepping
  /\ Goto(w, IF worker[w].pc \in {"model", "publish", "terminate"}
             THEN "withdraw" ELSE "cancelling")
  /\ UNCHANGED serviceVars

RecordCancellation(w) ==
  /\ At(w, "cancelling")
  /\ LET r == worker[w].run IN
       IF r \in Active THEN Cancel(r) ELSE UNCHANGED serviceVars
  /\ Finish(w)

(* A failure where process has no handler: in start_run's transaction, or  *)
(* in a handler's own.  The task ends in error and is acknowledged.  (Had  *)
(* the transaction been saved, a handler's is over, and a claim is like    *)
(* that of a worker that dies, with its message delivered in vain.)        *)
TaskLost(w) ==
  /\ worker[w].pc \in {"claim"} \cup Handling
  /\ At(w, "claim") => runs[worker[w].run].status = "pending"
  /\ Fault({worker[w].run})
  /\ worker' = [worker EXCEPT ![w] = Idle]
  /\ UNCHANGED <<serviceVars, dispatch, queue, unsure>>

(* The worker process dies; its message was not acknowledged.              *)
WorkerCrashes(w) ==
  /\ ~At(w, "idle")
  /\ Fault(IF At(w, "claim") THEN {} ELSE {worker[w].run})
  /\ worker' = [worker EXCEPT ![w] = Idle]
  /\ queue' = queue \cup {worker[w].run}
  /\ UNCHANGED <<serviceVars, dispatch, unsure>>

(* The stream claims back a message that has been out for too long.        *)
Redeliver(w) ==
  /\ ~At(w, "idle")
  /\ worker[w].run \notin queue
  /\ queue' = queue \cup {worker[w].run}
  /\ UNCHANGED <<serviceVars, dispatch, worker, faults, abandoned, unsure>>

-----------------------------------------------------------------------------

Dispatch(r) == Enqueue(r) \/ EnqueueFails(r) \/ FailUnsent(r)

WorkerStep(w) ==
  \/ ClaimRun(w)
  \/ LoadHistory(w)
  \/ RewriteQuery(w)
  \/ BeginRetrieval(w)
  \/ Retrieve(w)
  \/ FinishRetrieval(w)
  \/ AssembleContext(w)
  \/ FinishContext(w)
  \/ BeginGeneration(w)
  \/ ModelAnswers(w)
  \/ AnswerRefused(w)
  \/ Publish(w)
  \/ TerminateRun(w)
  \/ WithdrawRun(w)
  \/ RecordFailure(w)
  \/ RecordCancellation(w)

PipelineNext ==
  \/ \E q \in Requests, r \in RunIds : SendMessage(q, r)
  \/ \E p, r \in RunIds : RetryRun(p, r)
  \/ \E r \in RunIds : CancelRun(r)
  \/ DeleteRequest
  \/ \E r \in RunIds : Dispatch(r)
  \/ \E r \in RunIds : RequestLost(r)
  \/ \E w \in Workers, r \in RunIds : Deliver(w, r)
  \/ \E w \in Workers : WorkerStep(w)
  \/ \E w \in Workers : StepRaises(w)
  \/ \E w \in Workers : TaskCancelled(w)
  \/ \E w \in Workers : TaskLost(w)
  \/ \E w \in Workers : WorkerCrashes(w)
  \/ \E w \in Workers : Redeliver(w)

PipelineSpec == PipelineInit /\ [][PipelineNext]_vars

(* The API process finishes the request it is serving, a worker process    *)
(* finishes the task it is running (model and database calls time out),    *)
(* and a waiting message is eventually handed to a free slot.  Nothing     *)
(* makes a client act or a fault happen.                                   *)
Fairness ==
  /\ \A r \in RunIds : WF_vars(Dispatch(r))
  /\ \A w \in Workers : WF_vars(WorkerStep(w))
  /\ \A r \in RunIds : SF_vars(\E w \in Workers : Deliver(w, r))

FairPipelineSpec == PipelineSpec /\ Fairness
-----------------------------------------------------------------------------

PipelineTypeOK ==
  /\ TypeOK
  /\ dispatch \in [RunIds -> {"done", "queueing", "failing"}]
  /\ queue \subseteq RunIds
  /\ worker \in [Workers -> Task]
  /\ faults \in 0..MaxFaults
  /\ abandoned \subseteq RunIds /\ unsure \subseteq RunIds

(* However often a message is delivered, one task at most works on a run:  *)
(* "duplicate task delivery cannot restart a claimed attempt".             *)
OneWorkerPerRun ==
  \A v, w \in Workers :
    /\ worker[v].pc \in Stepping \cup Handling
    /\ worker[w].pc \in Stepping \cup Handling
    /\ worker[v].run = worker[w].run
    => v = w

(* An active run is always somebody's business: the request that is still  *)
(* dispatching it, a message that will be delivered, or the task that      *)
(* claimed it.  Only a fault can leave one that nobody will finish, and a  *)
(* worker that dies before its claim is not such a fault.                  *)
NoOrphanedRun ==
  \A r \in Active \ abandoned :
    \/ /\ runs[r].status = "pending"
       /\ \/ dispatch[r] # "done"
          \/ r \in queue
          \/ \E w \in Workers : At(w, "claim") /\ worker[w].run = r
    \/ /\ runs[r].status = "running"
       /\ \E w \in Workers : /\ worker[w].pc \in Stepping \cup Handling
                             /\ worker[w].run = r

(* The prompt a worker holds during the model call is the one on the row   *)
(* it will publish to, the history in a recorded prompt is a recent part   *)
(* of the recorded history, and whatever was completed has its prompt on   *)
(* record: the debug view explains every answer.                           *)
AnswerFromSavedPrompt ==
  /\ \A w \in Workers :
       At(w, "model") \/ At(w, "publish") =>
         \/ runs[worker[w].run].status # "running"
         \/ worker[w].prompt = runs[worker[w].run].snapshot.prompt
  /\ \A r \in Present :
       LET snapshot == runs[r].snapshot IN
         IF snapshot.prompt = None
         THEN runs[r].status # "completed"
         ELSE snapshot.prompt \in RecentSuffixes(snapshot.history)

(* queue_unavailable is recorded for runs no worker ever started, whatever *)
(* the race between the dispatcher's error path and a worker that got the  *)
(* message after all.                                                      *)
QueueUnavailableNeverStarted ==
  \A r \in Present :
    runs[r].status = "failed" =>
      (runs[r].error = "queue_unavailable" <=> ~runs[r].started)

(* The recorded code names the stage the run was in when it failed: what   *)
(* had been saved by then, and what had not.  Only a commit that was taken *)
(* for a failure can leave the result of the very stage that is named.     *)
FailureCodeNamesStage ==
  \A r \in Present :
    LET run == runs[r] IN
      /\ run.error = "rewrite_failed" =>
           (run.rewritten => r \in unsure) /\ run.snapshot.prompt = None
      /\ run.error = "retrieval_failed" =>
           run.rewritten /\ run.snapshot.prompt = None
      /\ run.error = "context_failed" =>
           run.rewritten /\ (run.snapshot.prompt # None => r \in unsure)
      /\ run.error \in AnswerErrors => run.snapshot.prompt # None

(* A failed run tells its user truthfully what went wrong: the code speaks *)
(* of the queue or of the stage that failed, whoever recorded it, however  *)
(* late the message, the error or the handler came, and whether or not the *)
(* save that failed is there.                                              *)
FailuresNameTheirCause == QueueUnavailableNeverStarted /\ FailureCodeNamesStage

(* The pipeline keeps the promises of the operations it calls: what its    *)
(* steps save from earlier unlocked reads is what one transaction reading  *)
(* and saving at once could have saved.                                    *)
ImplementsService == Spec

(* A run that is pending or running gets finished, by whatever outcome,    *)
(* unless a fault left it behind.                                          *)
ActiveRunsFinish ==
  \A r \in RunIds : r \in Active \ abandoned ~> r \notin Active \/ r \in abandoned

(* "Runs stuck in PENDING or RUNNING after a crash are failed by a         *)
(* periodic sweep" (models/conversation.py): the code has no sweep.        *)
CrashedRunsAreSwept ==
  \A r \in RunIds : r \in Active \cap abandoned ~> r \notin Active
=============================================================================
