# Formal models of the AI book summarizer backend

TLA+ specifications of the parts of this repository in which several requests,
tasks and users act on the same rows: conversations and the pipeline that
answers them, what goes into a prompt, what a reader of a conversation sees,
sign-in sessions and refresh tokens, standalone summaries, and the background
jobs of a project's document. TLC checks them on small instances, and TLAPS
proves every safety property of every module, and the three refinements, for every
instance; liveness is model-checked only.

## The system and its inventory

The backend is a FastAPI process over PostgreSQL, with background work sent
through a Redis stream (taskiq) to worker processes.

| Component | State it keeps | Operations | Hard behaviour | What makes it correct |
|---|---|---|---|---|
| Conversation tables (`conversation_service.py`, `models/conversation.py`) | conversation row, messages by position, runs (status, stage, attempt, snapshot, answer, error) | create, reserve_turn, start_run, checkpoint, claim_generation, complete, fail, cancel, retry, delete, lists | every caller may call at any time, late, twice, or after deletion | one active run; text exactly from the completed attempt; finished attempts immutable; retries only of the newest turn; a resend finds its turn |
| Answer pipeline (`conversation_pipeline.py` and the query rewriting, retrieval, context and generation services) | what a task has read and not yet used | one `process` per delivered message: rewrite, retrieve, assemble, generate, publish, and its two handlers | model calls outside transactions, unlocked reads, cancellation that does not stop the task, failure at any step | one task per run; nothing stale is written; recorded prompt is the prompt used; codes say what failed; every run ends |
| Dispatch and queue (`conversation_dispatcher.py`, `api/v1/conversations.py`, `taskiq_broker.py`) | the request's unfinished dispatch; messages in the stream | send, retry, cancel, delete routes; `kiq`; `fail_if_active(pending_only)` | `kiq` raising after the message was taken; death between commit and `kiq`; redelivery | no run is forgotten without a fault; `queue_unavailable` only for runs never started |
| History, retrieval, context (`history_service.py`, `retrieval_service.py`, `answer_context_service.py`) | none of their own | load, budget, retrieve, build | read long before it is saved; budgets at their boundaries, passages fitted before history | the prompt fits; history is the longest recent part that fits; no passage is given up that would fit |
| Sign-in sessions (`auth_service.py`, `api/v1/auth.py`) | sessions, refresh tokens | register, login with pruning, refresh, logout, revoke, list, authenticate a request | refreshes that overlap each other, a login's pruning, or the end of the session; a request let in before its session ends | ended sessions stay ended and stop issuing; a client that lost no answer can go on; pruning spares the living |
| Standalone summaries (`summary_service.py`, `api/v1/summary.py`, `processor_service.py`) | summary rows, uploaded files | quota check, upload, undo, delete, rename, background task (split, map, combine, reduce) | no lock and no claim; check-then-act on quota and deletion; overlapping deliveries; concurrent calls answered in any order | a completed summary covers its book in order; a refused upload leaves no row; crashes strand nothing |
| Projects, documents and jobs (`project_service.py`, `document_service.py`, `workers/document_*.py`, `vector_store.py`) | document statuses, summaries, embedding generations, files | create_project; summary job; embedding job; get_project | row lock held over a slow call; redelivery; two queue messages per request; a commit whose outcome is lost; a view read in several statements | one task per job; statuses tell what is there; files go with rows; views mislead nobody; jobs finish |
| Read views (`list_messages`, `list_runs`, other reads) | none | paging, latest run per message | a page read in two statements; pages read while rows are added | no page misleads; a walk over the pages misses nothing |
| LLM client, prompts, PDF loaders, token splitters, accounts, configuration, HTTP shell | none that matters here | library calls | | not modelled |

The components meet in the tables and in the queue: a route commits a row and
then sends its id; a worker receives the id, claims (or, for summaries, does not
claim) the row, works outside any transaction, and writes back under a row lock
or without one. Users cancel, retry and delete meanwhile.

## Modules

| Module | Models | State |
|---|---|---|
| `ChatLog` | what one conversation promises its reader (abstract) | `answer`, `open`, `deleted` |
| `ConversationService` | the tables of a conversation and each operation on them as one transaction | `exists`, `messages`, `runs` |
| `ConversationPipeline` | extends it with routes, dispatcher, queue, worker slots, faults | `dispatch`, `queue`, `worker`, `faults`, `abandoned`, `unsure` |
| `ConversationServiceProofs` | the inductive invariant of `ConversationService`, its first theorems, and that it implements `ChatLog` | |
| `ConversationTurnsProofs` | which question each slot and attempt answers: constraints, resends, histories | |
| `ConversationPipelineProofs` | the invariant that ties each task to its run's row; `ConversationPipeline` implements `ConversationService` | |
| `MessageListProofs` | what a page and a walk show a reader | |
| `PromptBudgetProofs` | what the loops over turns and passages compute, for texts of any size | |
| `AuthSessionsProofs` | the two inductive invariants of `AuthSessions` and its theorems | |
| `SummaryJobsProofs` | what `chunk_text` computes, and the invariant of `SummaryJobs` | |
| `DocumentJobsProofs` | the invariant of `DocumentJobs`, and that it implements `JobLedger` | |
| `MessageList` | extends `ConversationService` with a client that pages through messages and attempts | `newest`, `reader` |
| `PromptBudget` | history, query, retrieval and context of one attempt, with sizes | `at`, `question`, `earlier`, `memory`, `chunks`, `history`, `query`, `found`, `context` |
| `AuthSessions` | sessions and refresh tokens of a user | `sessions`, `lapsed`, `tokens`, `calls`, `held`, `dropped` |
| `SummaryJobs` | standalone summaries of a user on one UTC day | `summary`, `upload`, `deleting`, `queue`, `worker`, `faults`, `abandoned` |
| `JobLedger` | what the statuses of a document's two jobs promise (abstract) | `status`, `results`, `doubted` |
| `DocumentJobs` | a project's document and its two jobs | `request`, `file`, `status`, `summaries`, `generations`, `active`, `lock`, `queue`, `worker`, `view`, `faults`, `retries`, `abandoned`, `unsure` |
| `MC*` | symmetry and values for TLC | |

`ConversationPipeline` composes: each of its steps is a step of
`ConversationService` joined with a move of the process that takes it, and
`ImplementsService` checks that this is so. `ConversationService` is in turn
shown to implement `ChatLog` (`ImplementsChat`) under the mapping
`answer` = contents of the assistant messages, `open` = assistant messages with
an active run, `deleted` = no conversation row. `MessageList` puts a reader beside
the same tables. `PromptBudget` stands alone: it is the sizes that
`ConversationService` leaves out, for one attempt, whose conversation below its
question cannot change while it is active (`ActiveRunIsLastTurn`).

### ConversationService

Every mutating operation of `ConversationService` takes the conversation's row
lock (`get(lock=True)` or `_locked_run`) and its caller commits right after it,
so each is one action; an operation that raises changes nothing, so its error
paths are the negated guard. `messages` is a sequence because positions start
at 1 and are never reused. A row of `runs` holds status, stage, the two message
positions, attempt number, whether it was started and rewritten, the snapshot,
the answer and the error code. The snapshot keeps two things: which exchanges
were given to the rewriter (`history`) and which of them the prompt kept
(`prompt`), each as the set of positions of their questions. Sizes are
abstracted, so `budget_history` and `fit_history` become "any recent suffix", which
is what `PromptBudget` shows them to return.
Callers may call in any order here: the properties of this module do not depend
on the pipeline.

`Checkpoint` is split by what its callers save (`SaveRewrite`,
`StartRetrieval`, `SaveRetrieval`, `SaveContext`); all share `MayCheckpoint`, the
guard on status and claimed generation. `_terminate_run`'s checkpoint of metrics
changes nothing modelled and is part of `TerminateRun`.

### ConversationPipeline

A worker slot's `pc` names the point in `process` between two places where
another process can act:

    claim -> load -> rewrite -> retrieving -> retrieve -> retrieved -> assemble
          -> context -> generation -> model -> publish
    any of them after the claim -> failing | cancelling;  model -> terminate
    model, publish, terminate -> withdraw -> cancelling

`load`, `retrieve` and `assemble` read without a lock and keep what they read in
the task; the step after each saves it. Exceptions of a step (`ConflictError`,
`NotFoundError`, a database error) go to `failing` with the `error_code` in
force, `AnswerGenerationError` to `terminate` with its own code, `CancelledError`
to `cancelling`, by way of `withdraw` when it meets `generate_run`, which runs a
transaction of its own first (`WithdrawRun`). A step that raises may have saved
nothing (`StepRaises`), or all of it, when the connection is lost while its commit
is answered (`CommitUnsure`): the handler is the same, so the row of a failed run
can hold the result of the very stage its code names. `unsure` is a history
variable of the runs to which that happened. The queue is at-least-once: `WorkerCrashes` puts the message
back, `Redeliver` puts it there again while a task is working on it, and
`EnqueueFails` may or may not have delivered it. `abandoned` is a history
variable: the runs that a fault (a crash, or a database failure where the code
has no handler) took out of every process's hands.

### MessageList

`list_messages` is three reads (the conversation with the page, the conversation
again, the latest attempts), and under READ COMMITTED each sees what is
committed by then; `list_runs` is one. The reader follows the cursor, or the
offset, until a page is not full. `newest` orders the attempts by `created_at`:
rows are inserted under the conversation's lock, so they are created in the
order of their times (of one clock; several API hosts whose clocks differ are
left out).

### PromptBudget

`HistoryService.load`, `QueryRewriteService`, `similarity_search` and
`AnswerContextService.build`, one after another, with every text as its number of
tokens: an exchange is the sum of its two messages, a passage the sum of its
header and text. A tokenizer may merge across a joint of two parts; sums are
what the model takes instead. The properties compare the recursive functions that
follow the code's loops (`RecentTurns`, `FittingPassages`) with reference
definitions over all suffixes and all passages. `Select` stands for the WHERE of
a query over ordered rows, `Newest` for its descending order and limit.
The memory columns are read by the code and written by a test only
(`tests/test_conversation_service.py`), so any memory is an initial state.
`fit_history` may drop a memory that `load` kept; the turns it stood for were not
loaded, so the prompt then does without both.

### AuthSessions

A refresh is two steps because `_load_refresh_token` reads token and session
without a lock and everything is written by the commit. The commit updates rows
as they are by then: a deleted token or session makes it fail (SQLAlchemy's row
count, the foreign key), and of the session only `last_used_at` is written, so
the commit does not undo a revocation. A logout is one action (its first read only
finds the session's id), and so are the two deletes of `prune_expired`. Ending a
session by its id takes a signed-in request (`Authenticate`, then
`RevokeSession`): the session of the caller is looked at once, at the start. A refresh token copies its session's `expires_at`, so time is
the set of sessions that have `lapsed`.

### SummaryJobs

Quota check and insertion, and the check and the deletion in `delete_book`, are
separate steps, since nothing locks what was checked. `seen` is the status the
task's database session loaded: SQLAlchemy writes a column only if it changes
for the session, and fails if the row is gone. The undo in `create_summary` finds
the row in its session's identity map with the status it was inserted with, so
its check for PROCESSING never refuses. The route undoes the upload only for
Redis's own errors; an error with which `kiq` wraps the broker's passes through
(`EnqueueErrs`), and leaves a PENDING row that nobody works on when the message
was not queued: such a row counts as `abandoned`.

The text of a book is its length. `Chunks` splits it as `chunk_text` does, and an
answer of the model is the window it answers: blank answers are kept by the code
(`summarize_text` returns "" and the join keeps it), so they are no case of their
own. `MaxConcurrency` chunks are under way at a time, in the semaphore's order,
and answer in any order. A chunk whose call fails ends the task at once; the
calls of its siblings go on unheard and change nothing modelled.

### DocumentJobs

`lock` is the row lock of a document held over a wait: `add_document_chunks`
takes it before it calls the embedding service. Transactions that take the lock
and commit at once are one action whose guard is that the lock is free. The
code reserves one summary job per document, so the job id comparison cannot fail
and is left out. `SaveUncertain` is a commit that took effect and was reported as an
error: the except branch then writes FAILED beside the saved result, a
redelivery builds it again, and `unsure` records for which jobs this happened.
`CommitUncertain` is the same in `create_project`: the except branch, which takes
every error for a rollback, unlinks the file of rows that are there. The request
ends before it queues anything, so no job is begun on them, and they wait for a
file for good.
`view` is an answer of `get_project`, which reads the summary and the statuses in
separate statements. `JobLedger` is what is left when messages, workers, locks and
faults are taken away: `ImplementsLedger` maps the statuses to themselves, `results`
to the numbers of rows, and `doubted` to the jobs that are completed while the
task that saved them has an error to record. `UploadsShared` says whether the workers see `temp_uploads`.

## Runs

Every cfg has `CHECK_DEADLOCK FALSE`: clients may stop asking, and with finitely
many keys everything may be finished.

| Run | Question | Bounds |
|---|---|---|
| `service_tables` | Are the tables consistent whatever the order of calls? | 3 runs, 3 request ids, 2 answers: three turns, one turn tried three times, or a retried turn followed by another |
| `pipeline` | Are runs worked on once, never orphaned without a fault and recorded truthfully, with all processes interleaving? | 2 runs, 2 requests, 2 worker slots, 1 fault: two deliveries of one run overlap, a retry overlaps the late task of the attempt before |
| `pipeline_liveness` | Does every active run finish? | the same with 1 slot, no symmetry |
| `pipeline_sweep` | Is a run whose worker crashed ever failed by a sweep? (violated) | 1 run, 1 slot, 1 fault |
| `message_list` | Is a page ever misleading, and does a walk over the pages miss anything? | 3 runs, 2 requests, 1 answer: two turns of which one is retried, or one tried three times; pages of 2 and 3, so that four messages end on a full page, on an empty one and on a partial one |
| `prompt_budget` | Does every prompt fit, without giving up more than it must? | every history of up to 3 exchanges, every memory and every list of up to 4 chunks over sizes 1, 2 and 6; budget 5, window 8, 2 exchanges and 3 passages at most: each boundary is hit exactly, missed by one and exceeded by a single item |
| `auth_sessions` | Do overlapping logins, refreshes and endings keep sessions and tokens consistent? | 2 sessions, 4 tokens, 3 concurrent calls: two refreshes of one client and a login that prunes |
| `auth_overlap` | Do overlapping refreshes invalidate each other? (violated) | 1 session, 3 tokens, 2 calls |
| `summary_jobs` | Does a summary end well whatever is redelivered, deleted or crashed? | 1 summary, 2 slots, 2 faults; books of 3 and 6 characters in windows of 3 with overlap 1 (one full window, and three of which the last is short), 2 calls at a time |
| `summary_quota` | Is the daily limit kept? (violated) | 2 summaries, limit 1 |
| `document_jobs` | Are both jobs worked on once, finished, and truthfully listed and shown? | 1 document, 3 slots (both jobs and a redelivery), 1 fault, 2 redeliveries |
| `document_volume` | Do workers do without the upload volume? (violated) | 1 document, 1 slot |

Why they are enough: the properties relate at most two runs of a message, two
turns, two tasks or two refreshes, and the bounds allow one more actor than a
violation of such a property needs. Documents do not interact, nor do summaries
except through the quota, which has a run of its own. `MaxFaults` and
`MaxRetries` bound crashes and redeliveries; queues are sets, since a second copy
of a message waiting beside the first adds only another delivery, which
`Redeliver` gives at any time.

Each passing property was also tried against a plausible mistake in the code it
is about (a dropped guard, a stale write, a missing reset); those mutated
definitions stand in the modules under "Mutants" and are no part of the
specifications.

### What the runs show

Service and pipeline: no interleaving of routes, redelivered tasks, failures,
cancellations and deletion breaks the tables, shows a reader partial or changing
text, lets two tasks work on a run, or saves something stale: the
read-then-write of the retrieval snapshot (`conversation_pipeline.py:67-74`) is safe
because between its read and its write only the same task writes a running
attempt's snapshot. The operations' own checks refuse what the constraints of the
tables would (`ConstraintsNeverFire`, the one active run per conversation,
`OneActiveRun`, among them), so no caller meets an IntegrityError.
`NoOrphanedRun` and `ActiveRunsFinish` say exactly which
runs can stay active: those whose request died between the commit and the queue,
whose worker died after the claim, or whose handler's own transaction failed.
The code of a failed run names the stage that failed (`FailuresNameTheirCause`);
what that stage saved is there only if its commit took effect and raised.

Reading: a page whose messages and attempts come from different moments still
shows every answer committed before it was completed, in the message or beside
it, and never a text without its completed attempt. The cursor loses no message,
and paging attempts by offset repeats some but loses none, since rows are only
added in front.

Prompts: the estimate saved with a prompt is its size and leaves the answer's
allowance free; passages are taken whenever they fit beside those before them;
both history budgets keep the longest gapless recent part.

Summaries and documents: a completed summary covers its book in order, whatever
the order of the answers and however often the task was redelivered. Statuses,
files, rows and active generation agree, except that a commit taken for a failure
can leave a result beside FAILED and have it built a second time, or, in
`create_project`, rows without their file and without any job begun on them
(`DocumentsWhole` says exactly that); no late or repeated task touches a finished job
(`ImplementsLedger`). The order of the reads in `get_project`
matters: a summary is never shown beside a job that is not done. (The opposite, COMPLETED without the
text, can be shown when the job saves between the two reads.)

Four runs show a disagreement between the code and what the repository says:

- `pipeline_sweep`: `models/conversation.py:163` names a periodic sweep; there is
  none, and a crashed run waits for its user (as `docs/conversation-api.md` says).
- `auth_overlap`: `README.md:420` says that two parallel refreshes invalidate
  each other; when both read the token before either commits, both succeed and
  the session has two live tokens. `ClientKeepsItsPlace` shows that the client
  keeps a usable one either way.
- `summary_quota`: the quota is checked before the upload and the row inserted
  after it, so overlapping uploads exceed the limit that
  `ensure_daily_quota` (`summary_service.py:46`) announces.
- `document_volume`: `README.md:131` says that workers do not need the PDF volume;
  both document jobs read the file from it.

One more follows from `CommitUncertain` and has no run of its own: the docstring of
`create_project` (`project_service.py:26`) says that a failure rolls back every row,
but when only the answer to the commit is lost, the rows stay, the file is unlinked
and the client is told of a failure.

## Fairness

Weak fairness of the steps of a request that is dispatching and of each worker
slot: the processes run, model calls time out (`DEEPSEEK_TIMEOUT_SECONDS`), and
database calls end. Strong fairness of handing a waiting message to a slot: the
stream offers it again whenever a slot is free. In `DocumentJobs` the slots are
strongly fair because PostgreSQL grants a row lock that is waited for. Nothing is
assumed of clients, of faults, of redelivery or of which of its outcomes a step
takes.

## Proofs

`ConversationServiceProofs` proves, for any sets of run ids, request ids,
answers and error codes (with `None` in none of them, the only assumption,
`NoneAssumption`): `TypeOK`, `OneActiveRun`, `LatestAttemptDecides`,
`ActiveRunIsLastTurn` and `PublishedByCompletedRun` as invariants of `Spec`, and
`FinishedRunsStay` as an action property.

None of the five is inductive alone: that `Complete` publishes a text without
overwriting one needs to know that only the newest attempt is active and that
it is the last to be numbered, which in turn needs that every run answers a
message of its conversation. The inductive invariant `IndInv` adds to them
`RunsAreWired` (a run's conversation exists, and its answer is an assistant
message there), `AttemptsAreNumberedApart` (two attempts of a message differ in number) and
the two halves of publishing, `CompletedArePublished` and
`TextComesFromCompleted`. The operations fall into a few kinds, which the proof
names and reasons about once: a step that moves one run on without finishing it
(`Progress`), one that ends it without text (`Ended`), one that publishes
(`Published`), and the three that change the rows there are (`ReserveTurn`,
`Retry`, `DeleteConversation`). Each kind has a lemma per conjunct it can disturb.

`ConversationTurnsProofs` puts a second invariant on top, `TurnsInv`: an attempt
answers the question right before its slot and has a positive number, every
question has its slot and an attempt, and request ids are unique. It looks at no
status and no text, so one lemma (`KeptTurnsInv`) serves every step that writes only
those. With `IndInv` it gives `ConstraintsNeverFire` and `ResendFindsItsTurn`. The
recorded histories (`HistoryIsRecentSuffix`) need one more idea: what was answered
before a question does not change any more once the question is asked
(`RunStepAnswered`), because only the newest slot is ever published, and the join on
completed runs finds just what the reader sees as answered (`PairsAreAnswered`).

`ConversationServiceProofs` ends with the refinement `ImplementsChat`, from `IndInv`: a step
of kind `Progress` leaves what the reader sees as it is, `Ended` is the log's
`GiveUp`, `Published` its `Publish` (the open slot is empty: `OpenSlotIsEmpty`), and
`ReserveTurn`, `Retry` and `DeleteConversation` are `Ask`, `Reopen` and `Delete`.

`AuthSessionsProofs` proves, for any sessions, tokens and requests (with `None` among
neither, `NoneIsNothing`), `AuthTypeOK`, `TokensHaveTheirSession` and the action
property `EndedStaysEnded`. The invariant `AuthInv` adds that the token a request or a
client has in hand was issued and, unless its row is gone, belongs to the session it
is used for (`CallsAreWired`, `HeldAreWired`). That is what makes an unlocked refresh
safe here: its insert goes to a session whose row is kept, because the row of the
token it read still is.

The second invariant of sign-in, `PlaceInv`, is about answers on their way: while
its session is open the token in an answer is live and in nobody else's hands, so
no other request can rotate it out before its client has it; and a refresh that
was refused had read a session that was over and still is. It gives
`ClientKeepsItsPlace`, `NoTokenAfterTheEnd` and `PruneSparesTheLiving`.

`ConversationPipelineProofs` puts `PipelineInv` on top of `IndInv` (`PipelineAssumption`
says how the error codes of the stages, of generation and of the queue differ).
Its heart is `TaskFits`: at each point of `process` after the claim, the row of a
run that is still running holds what the task's position promises (rewritten or not, prompt
or not), and what the task read without a lock is what the row still holds. It is
inductive because only the task past the claim writes a running row
(`OneWorkerPerRun`), while others can only take the run out of `RUNNING`, after which
nothing is promised. `RowsFit` says what a row holds by its status, and `HeldHistory`
that a history that was read is still the one a rewrite would read (`PairsStay`: no
operation changes what was answered before the question of a running run). Both speak
of the runs in `unsure` as well: what fits a row keeps fitting it when more saves are
doubted (`DoubtGrows`), and a save taken for a failure leaves a code that fits what it
saved (`SaveUnsure`). From it follow
`PipelineTypeOK`, `OneWorkerPerRun`, `NoOrphanedRun`, `FailuresNameTheirCause`,
`AnswerFromSavedPrompt`, and `ImplementsService`: each process step is the operation
of the tables it names, whose guard the invariant supplies where the code does not
look again. `FailuresNameTheirCause` compares a prompt with NULL and takes as a hypothesis
that NULL is no set of positions (`NullIsNoPrompt`, `None \notin SUBSET Nat`); it is
stated with its theorem, not as an ASSUME, because TLC cannot evaluate it.

`DocumentJobsProofs` proves, for any number of documents, workers, faults and
redeliveries (`DocumentAssumption`), `DocumentInv`: a task past its claim finds its
status started, or completed by a save of its own that was reported as failed
(`TasksHoldJobs`), so that nobody else can claim the job. With it come what a request
has created so far (`RowsFollowRequest`), what the statuses tell about the content
(`ContentTold`), what a half-read view may still turn into (`ViewsHold`), and in whose
hands unfinished jobs are (`StartedHasTask`, `PendingIsAwaited`), and that nothing is
queued or runs for a document whose request was refused (`UnqueuedIsQuiet`). All five safety
properties of the module follow, and the refinement `ImplementsLedger`: a claim is the ledger's
`TakeUp`, a save its `Finish`, the except branch its `GiveUp`, the loss of a task that
was to record an error its `Settle`, and all else stutters. That the except branch,
which looks at no status, never overwrites another task's is `TasksHoldJobs` again.

`SummaryJobsProofs` proves first what `chunk_text` computes, for texts, windows and
overlaps of any size: the windows are at least one and no more than the text is
long, each begins where the one before ended less the overlap, and the last ends the
text (`ChunksCover`). `SummaryInv` then says that a row's length is written before any
task can load it, so that the chunks a task made are those of the row it writes,
whatever other deliveries wrote meanwhile; it yields `CompletedCoversBook`,
`RefusedUploadLeavesNothing`, `NoStrandedSummary` and `DeletedStaysDeleted`. `SummaryAssumption`
asks that some text is the longest (uploads are limited: `MAX_UPLOAD_BYTES`) and that
the mark of an idle slot is no summary.

`MessageListProofs` keeps `ListInv` beside `IndInv`: the page in hand lies where its
cursor says, each of its lines shows the message's text or, from before it was
published, none, and the runs known when a walk began have been shown or lie further
on in `newest` (`KnownAhead`), since new ones only push them down. `PagesAreTruthful` and
`WalksMissNothing` follow for any page size the route accepts. `None` is assumed to be no number, so that a
cursor that is NULL ends a walk (`CursorAssumption`).

`PromptBudgetProofs` has an invariant that only says which function of its inputs
each part of the attempt is (`BudgetInv`); the work is in the lemmas about those
functions. `Cost` is additive and never shrinks as turns are added
(`MoreTurnsCostMore`), so the loop of `budget_history`, which stops at the first exchange that
does not fit, finds the longest suffix that does (`RecentTurnsAreLongest`). Cutting to a
number of exchanges before budgeting, as the query does, or after it is the same
(`LongestOfTheNewest`). `KeptOf` is the invariant of the loop over passages (`OnePassageMore`): what was
left out does not fit beside what is kept, then and after every later one. With
these, `PromptFits`, `EvidenceIsMaximal` and `HistoryIsLongestSuffix` hold for texts
and limits of any size (`BudgetAssumption`: sizes are numbers, those of texts positive).

Each of these invariants was model-checked on its module's instance before it was
proved.

Induction over data: the library's induction theorems take an operator as a
parameter, which the provers cannot instantiate. The proofs that need one
(`chunk_text`'s windows, the loops of `PromptBudget`) use the least number principle on
sets instead: the set of numbers of steps for which the claim fails, if it is not
empty, has a least member (`LeastNumber`, from the well-foundedness of the naturals),
and the step before that one yields the contradiction. `LoopHasValues` derives in the
same way that a recursive function on `0..n` has the values its equation gives.

Only model-checked: `ActiveRunsFinish`, `SummariesFinish` and `StartedJobsFinish`. They
are liveness properties under fairness, and rest on `ENABLED`, which is out of the
prover's reach. The four violated properties are refuted by TLC and have nothing to prove.

## Left out

- Wording, vectors, models, metrics and timestamps; tokens as a tokenizer counts
  them.
- `rename`, titles, registration, passwords, JWTs, cookie attributes.
- The list of conversations, which is ordered by `updated_at` and paged by
  offset, so that a conversation with a new turn can move past a client between
  two pages; `get_run`, `debug`, `sources` and the list of projects, which read once.
- The files of standalone summaries; a change of UTC day during a run.
- In `DocumentJobs`, the chunked calls of the summary job: they are the same
  gather and join that `SummaryJobs` models.
- Several documents of a project and several projects of a document: the code
  creates one of each and has no operation that adds another.
- PDF extraction, token splitters, prompt templates, provider clients,
  configuration and the HTTP shell: library calls and wording without state.

## Plan

Done, in this order: `ConversationService` and its abstraction `ChatLog`,
`ConversationPipeline`, the proofs of the tables, `AuthSessions`, `SummaryJobs`,
`DocumentJobs`; then `MessageList`, `PromptBudget`, the chunks of a summary, commits
of unknown outcome and the project view, requests authenticated before their
session ends, and the constraints of the tables; then the proofs of every safety
property of `ConversationService` and of its refinement of `ChatLog`; then those of
every safety property of the other modules, and of the pipeline's refinement of
`ConversationService`; `JobLedger`, and that `DocumentJobs` implements it.

Next:

1. An abstract specification of a session (what a client may do until it ends)
   that `AuthSessions` implements, with the refinement proved step by step.
2. That the history `ConversationService` records, any recent suffix, is what
   `PromptBudget` returns, as a mapping of the one to the other.
