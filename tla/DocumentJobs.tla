---------------------------- MODULE DocumentJobs ----------------------------
(***************************************************************************)
(* A project's document from upload to searchable index: create_project,   *)
(* and the two background jobs that summarize and embed the document.  A   *)
(* job claims its document by a status under the row lock; the embedding   *)
(* job keeps that lock while it waits for the embedding service, so that   *)
(* replacement builds cannot overlap.                                      *)
(*                                                                         *)
(* The code reserves one summary job per document and never another, so    *)
(* the comparison of job ids that fences stale tasks always succeeds; it   *)
(* and the project, which nothing deletes and which has one document, are  *)
(* left out, and so are texts, chunks and vectors.  Embedding generations  *)
(* are numbered in order; all are rows of status COMPLETED.                *)
(***************************************************************************)
EXTENDS Naturals, FiniteSets

CONSTANTS Documents,      \* keys, one for each project that may be created
          Workers,        \* task slots of the worker processes
          UploadsShared,  \* the workers' temp_uploads is the API's
          MaxFaults,      \* bound on crashes and database failures
          MaxRetries,     \* bound on deliveries of a message beside its task
          None

ASSUME DocumentAssumption ==
  /\ UploadsShared \in BOOLEAN
  /\ MaxFaults \in Nat /\ MaxRetries \in Nat
  /\ None \notin Workers /\ None \notin Documents

VARIABLES request,     \* the request that creates a document's project
          file,        \* documents with a file in temp_uploads
          status,      \* summary_status and embedding_status, or absent
          summaries,   \* number of document_summaries rows
          generations, \* number of embedding_generations rows
          active,      \* the active ones among them
          lock,        \* the task holding a document's row lock over a wait
          queue,       \* <<document, kind>> of messages to be delivered
          worker,      \* what each task slot is doing
          view,        \* what a reader of a document's project has read
          faults, retries,
          abandoned,   \* jobs a fault took out of every process's hands
          unsure       \* jobs saved by a commit that was taken for a failure

tables == <<status, summaries, generations, active>>
rest == <<view, faults, retries, abandoned, unsure>>
documentVars == <<request, file, tables, lock, queue, worker, rest>>

Kinds == {"summary", "embedding"}
Jobs == Documents \X Kinds
JobStatuses == {"pending", "started", "completed", "failed"}

(* waiting: for the model, or for the embedding service with the lock.     *)
Task == [pc : {"idle", "claim", "read", "lock", "waiting", "save", "failing"},
         document : Documents \cup {None},
         kind : Kinds \cup {None},
         unread : BOOLEAN]     \* the file was not there

Idle == [pc |-> "idle", document |-> None, kind |-> None, unread |-> FALSE]

(* The answer of GET /project/{id}: has it a summary, and which status.    *)
View == [text : {"unread", "none", "text"},
         summary : JobStatuses \cup {"unread"}]

Unread == [text |-> "unread", summary |-> "unread"]

Free(d) == lock[d] = None

Exists(d) == status[d].summary # "absent"

SetStatus(d, kind, new) == status' = [status EXCEPT ![d][kind] = new]

Goto(w, pc) == worker' = [worker EXCEPT ![w].pc = pc]

Unlocked(w) == [d \in Documents |-> IF lock[d] = w THEN None ELSE lock[d]]

(* What the step of a task leaves alone besides the tables.                *)
Calm == UNCHANGED <<request, file, queue, rest>>

-----------------------------------------------------------------------------
(***************************************************************************)
(* Mutants: plausible mistakes in the code below; no part of the           *)
(* specification.                                                          *)
(***************************************************************************)

(* A job that has started may be claimed again.                            *)
ClaimableUnlessDone(d, kind) == status[d][kind] # "completed"

(* The failure handler writes both statuses.                               *)
RecordFailureOfBoth(w) ==
  /\ worker[w].pc = "failing"
  /\ LET d == worker[w].document IN
       /\ Free(d)
       /\ status' = [status EXCEPT ![d].summary = "failed", ![d].embedding = "failed"]
  /\ worker' = [worker EXCEPT ![w] = Idle]
  /\ Calm /\ UNCHANGED <<summaries, generations, active, lock>>

(* The lock is not released when the embedding service fails.              *)
WaitFailsLocked(w) ==
  /\ worker[w].pc = "waiting"
  /\ Goto(w, "failing")
  /\ Calm /\ UNCHANGED <<tables, lock>>

(* The summary is committed before its status is.                          *)
SaveSummaryFirst(w) ==
  /\ worker[w].pc = "save" /\ worker[w].kind = "summary"
  /\ LET d == worker[w].document IN
       /\ Free(d)
       /\ IF summaries[d] = 0
          THEN summaries' = [summaries EXCEPT ![d] = 1] /\ UNCHANGED <<status, worker>>
          ELSE /\ SetStatus(d, "summary", "completed")
               /\ worker' = [worker EXCEPT ![w] = Idle]
               /\ UNCHANGED summaries
  /\ Calm /\ UNCHANGED <<generations, active, lock>>

(* The status enumeration of the jobs is not the column's.                 *)
CommitProjectQueued(d) ==
  /\ request[d] = "stored"
  /\ request' = [request EXCEPT ![d] = "queueSummary"]
  /\ status' = [status EXCEPT ![d] = [summary |-> "queued", embedding |-> "queued"]]
  /\ UNCHANGED <<file, summaries, generations, active, lock, queue, worker, rest>>

(* The embedding is queued only if there is nothing else to be done.       *)
QueueEmbeddingForgotten(d) ==
  /\ request[d] = "queueEmbedding"
  /\ request' = [request EXCEPT ![d] = "accepted"]
  /\ UNCHANGED <<file, tables, lock, queue, worker, rest>>

-----------------------------------------------------------------------------

Init ==
  /\ request = [d \in Documents |-> "none"]
  /\ file = {}
  /\ status = [d \in Documents |-> [summary |-> "absent", embedding |-> "absent"]]
  /\ summaries = [d \in Documents |-> 0]
  /\ generations = [d \in Documents |-> 0]
  /\ active = [d \in Documents |-> {}]
  /\ lock = [d \in Documents |-> None]
  /\ queue = {}
  /\ worker = [w \in Workers |-> Idle]
  /\ view = [d \in Documents |-> Unread]
  /\ faults = 0 /\ retries = 0 /\ abandoned = {} /\ unsure = {}

(* create_document of a valid upload: the file is stored, its rows are not *)
(* committed.  An invalid one leaves nothing and is no step.               *)
StoreUpload(d) ==
  /\ request[d] = "none"
  /\ request' = [request EXCEPT ![d] = "stored"]
  /\ file' = file \cup {d}
  /\ UNCHANGED <<tables, lock, queue, worker, rest>>

(* The rows that the one commit of create_project saves.                   *)
ProjectSaved(d) ==
  /\ status' = [status EXCEPT ![d] = [summary |-> "pending", embedding |-> "pending"]]
  /\ UNCHANGED <<summaries, generations, active>>

CommitProject(d) ==
  /\ request[d] = "stored"
  /\ request' = [request EXCEPT ![d] = "queueSummary"]
  /\ ProjectSaved(d)
  /\ UNCHANGED <<file, lock, queue, worker, rest>>

(* The except branch removes the file and passes the error on.             *)
Refuse(d) ==
  /\ request[d] = "stored"
  /\ request' = [request EXCEPT ![d] = "refused"]
  /\ file' = file \ {d}
  /\ UNCHANGED <<lock, queue, worker>>

(* A statement or the commit fails, and nothing is saved.                  *)
CommitFails(d) == Refuse(d) /\ UNCHANGED <<tables, rest>>

QueueSummary(d) ==
  /\ request[d] = "queueSummary"
  /\ request' = [request EXCEPT ![d] = "queueEmbedding"]
  /\ queue' = queue \cup {<<d, "summary">>}
  /\ UNCHANGED <<file, tables, lock, worker, rest>>

QueueEmbedding(d) ==
  /\ request[d] = "queueEmbedding"
  /\ request' = [request EXCEPT ![d] = "accepted"]
  /\ queue' = queue \cup {<<d, "embedding">>}
  /\ UNCHANGED <<file, tables, lock, worker, rest>>

(* Either kiq raises, with its message queued or not: the request answers  *)
(* 503 (or 500, to an error that is not Redis's own) and leaves the        *)
(* project and the document as they are.                                   *)
QueueFails(d) ==
  /\ \/ /\ request[d] = "queueSummary"
        /\ queue' \in {queue, queue \cup {<<d, "summary">>}}
     \/ /\ request[d] = "queueEmbedding"
        /\ queue' \in {queue, queue \cup {<<d, "embedding">>}}
  /\ request' = [request EXCEPT ![d] = "unavailable"]
  /\ UNCHANGED <<file, tables, lock, worker, rest>>

Fault(lost) ==
  /\ faults < MaxFaults
  /\ faults' = faults + 1
  /\ abandoned' = abandoned \cup lost
  /\ UNCHANGED <<view, retries>>

(* The connection is lost while the commit is answered: the rows are there *)
(* and the file is removed all the same; nothing is queued for them.       *)
CommitUncertain(d) ==
  /\ Refuse(d)
  /\ ProjectSaved(d)
  /\ Fault({d} \X Kinds)
  /\ UNCHANGED unsure

(* The API process dies between the commit and the end of the request, or  *)
(* reading the project back after the commit fails: what is left to queue  *)
(* never is.                                                               *)
RequestLost(d) ==
  /\ request[d] \in {"queueSummary", "queueEmbedding"}
  /\ Fault(IF request[d] = "queueSummary" THEN {d} \X Kinds ELSE {<<d, "embedding">>})
  /\ request' = [request EXCEPT ![d] = "lost"]
  /\ UNCHANGED <<file, tables, lock, queue, worker, unsure>>

-----------------------------------------------------------------------------
(* The workers' process methods.                                           *)

Deliver(w, job) ==
  /\ worker[w].pc = "idle"
  /\ job \in queue
  /\ queue' = queue \ {job}
  /\ worker' = [worker EXCEPT ![w] = [Idle EXCEPT !.pc = "claim",
                                 !.document = job[1], !.kind = job[2]]]
  /\ UNCHANGED <<request, file, tables, lock, rest>>

(* A job that has started or completed is nothing to do again.             *)
Claimable(d, kind) == status[d][kind] \in {"pending", "failed"}

ClaimJob(w) ==
  /\ worker[w].pc = "claim"
  /\ LET d == worker[w].document  kind == worker[w].kind IN
       /\ Free(d)
       /\ IF Claimable(d, kind)
          THEN SetStatus(d, kind, "started") /\ Goto(w, "read")
          ELSE worker' = [worker EXCEPT ![w] = Idle] /\ UNCHANGED status
  /\ Calm /\ UNCHANGED <<summaries, generations, active, lock>>

(* load_document and the splitter: the file may be out of the worker's     *)
(* reach, and may hold no text.                                            *)
ReadDocument(w) ==
  /\ worker[w].pc = "read"
  /\ \/ /\ UploadsShared /\ worker[w].document \in file
        /\ Goto(w, IF worker[w].kind = "summary" THEN "waiting" ELSE "lock")
     \/ worker' = [worker EXCEPT ![w].pc = "failing",
                                 ![w].unread = ~UploadsShared]
  /\ Calm /\ UNCHANGED <<tables, lock>>

(* add_document_chunks takes the document's row lock.                      *)
LockDocument(w) ==
  /\ worker[w].pc = "lock"
  /\ LET d == worker[w].document IN
       Free(d) /\ lock' = [lock EXCEPT ![d] = w]
  /\ Goto(w, "waiting")
  /\ Calm /\ UNCHANGED tables

(* The map and reduce calls of the summary have answered.                  *)
ModelAnswers(w) ==
  /\ worker[w].pc = "waiting" /\ worker[w].kind = "summary"
  /\ Goto(w, "save")
  /\ Calm /\ UNCHANGED <<tables, lock>>

VectorsArrive(w) ==
  /\ worker[w].pc = "waiting" /\ worker[w].kind = "embedding"
  /\ Goto(w, "save")
  /\ Calm /\ UNCHANGED <<tables, lock>>

(* The model or the embedding service fails or gives no usable answer: the *)
(* session is rolled back and the lock is given up.                        *)
WaitFails(w) ==
  /\ worker[w].pc = "waiting"
  /\ Goto(w, "failing")
  /\ lock' = Unlocked(w)
  /\ Calm /\ UNCHANGED tables

SavedSummary(d) ==
  /\ Free(d)
  /\ SetStatus(d, "summary", "completed")
  /\ summaries' = [summaries EXCEPT ![d] = @ + 1]
  /\ UNCHANGED <<generations, active>>

SaveSummary(w) ==
  /\ worker[w].pc = "save" /\ worker[w].kind = "summary"
  /\ SavedSummary(worker[w].document)
  /\ worker' = [worker EXCEPT ![w] = Idle]
  /\ Calm /\ UNCHANGED lock

(* Switching the index: every active generation off, then the new one on.  *)
SwitchedTo(d) == {generations[d] + 1}

(* The rest of add_document_chunks and the commit.                         *)
SavedIndex(d) ==
  /\ SetStatus(d, "embedding", "completed")
  /\ generations' = [generations EXCEPT ![d] = @ + 1]
  /\ active' = [active EXCEPT ![d] = SwitchedTo(d)]
  /\ UNCHANGED summaries

SaveIndex(w) ==
  /\ worker[w].pc = "save" /\ worker[w].kind = "embedding"
  /\ SavedIndex(worker[w].document)
  /\ lock' = Unlocked(w)
  /\ worker' = [worker EXCEPT ![w] = Idle]
  /\ Calm

(* The connection is lost while the commit is answered: the save is there, *)
(* and is handled as a failure.                                            *)
SaveUncertain(w) ==
  /\ worker[w].pc = "save"
  /\ LET d == worker[w].document  kind == worker[w].kind IN
       /\ IF kind = "summary" THEN SavedSummary(d) ELSE SavedIndex(d)
       /\ Fault({})
       /\ unsure' = unsure \cup {<<d, kind>>}
  /\ lock' = Unlocked(w)
  /\ Goto(w, "failing")
  /\ UNCHANGED <<request, file, queue>>

(* A database error while saving: nothing of the save remains.             *)
SaveRaises(w) ==
  /\ worker[w].pc = "save"
  /\ Goto(w, "failing")
  /\ lock' = Unlocked(w)
  /\ Calm /\ UNCHANGED tables

(* The except branch: whatever the status is by then, it becomes FAILED.   *)
RecordFailure(w) ==
  /\ worker[w].pc = "failing"
  /\ LET d == worker[w].document IN
       Free(d) /\ SetStatus(d, worker[w].kind, "failed")
  /\ worker' = [worker EXCEPT ![w] = Idle]
  /\ Calm /\ UNCHANGED <<summaries, generations, active, lock>>

(* The worker process dies, or its shutdown cancels the task, which no     *)
(* except branch catches: the message stays unacknowledged.                *)
WorkerCrashes(w) ==
  /\ worker[w].pc # "idle"
  /\ LET job == <<worker[w].document, worker[w].kind>> IN
       /\ Fault(IF worker[w].pc = "claim" THEN {} ELSE {job})
       /\ queue' = queue \cup {job}
  /\ worker' = [worker EXCEPT ![w] = Idle]
  /\ lock' = Unlocked(w)
  /\ UNCHANGED <<request, file, tables, unsure>>

(* A database failure where process has no handler: in the claim's or in   *)
(* the except branch's own transaction.  The message is acknowledged.  (A  *)
(* claim that was saved all the same is like that of a worker that dies,   *)
(* with its message delivered in vain.)                                    *)
TaskLost(w) ==
  /\ worker[w].pc \in {"claim", "failing"}
  /\ Fault({<<worker[w].document, worker[w].kind>>})
  /\ worker' = [worker EXCEPT ![w] = Idle]
  /\ UNCHANGED <<request, file, tables, lock, queue, unsure>>

(* The stream hands out again a message that is taking too long.           *)
Redeliver(w) ==
  /\ worker[w].pc # "idle"
  /\ retries < MaxRetries
  /\ retries' = retries + 1
  /\ queue' = queue \cup {<<worker[w].document, worker[w].kind>>}
  /\ UNCHANGED <<request, file, tables, lock, worker, view, faults, abandoned, unsure>>

-----------------------------------------------------------------------------
(* GET /project/{id}, whose statements each see what is committed by then. *)

Look(d, seen) ==
  /\ view' = [view EXCEPT ![d] = seen]
  /\ UNCHANGED <<request, file, tables, lock, queue, worker, faults, retries,
                 abandoned, unsure>>

ReadSummary(d) ==
  /\ Exists(d)
  /\ view[d].summary # "unread" \/ view[d] = Unread
  /\ Look(d, [Unread EXCEPT !.text = IF summaries[d] > 0 THEN "text" ELSE "none"])

ReadStatuses(d) ==
  /\ view[d].text # "unread" /\ view[d].summary = "unread"
  /\ Look(d, [view[d] EXCEPT !.summary = status[d].summary])

-----------------------------------------------------------------------------

RequestStep(d) == QueueSummary(d) \/ QueueEmbedding(d) \/ QueueFails(d)

WorkerStep(w) ==
  \/ ClaimJob(w)
  \/ ReadDocument(w)
  \/ LockDocument(w)
  \/ ModelAnswers(w)
  \/ VectorsArrive(w)
  \/ WaitFails(w)
  \/ SaveSummary(w)
  \/ SaveIndex(w)
  \/ RecordFailure(w)

Next ==
  \/ \E d \in Documents :
       StoreUpload(d) \/ CommitProject(d) \/ CommitFails(d) \/ CommitUncertain(d)
         \/ RequestStep(d) \/ RequestLost(d) \/ ReadSummary(d) \/ ReadStatuses(d)
  \/ \E w \in Workers, job \in Jobs : Deliver(w, job)
  \/ \E w \in Workers :
       WorkerStep(w) \/ SaveRaises(w) \/ SaveUncertain(w)
         \/ WorkerCrashes(w) \/ TaskLost(w) \/ Redeliver(w)

(* A request and a task that are running go on, a lock that is waited for  *)
(* is granted, and a waiting message is handed to a slot that is free      *)
(* again and again.                                                        *)
DocumentFairness ==
  /\ \A d \in Documents : WF_documentVars(RequestStep(d))
  /\ \A w \in Workers : SF_documentVars(WorkerStep(w))
  /\ \A job \in Jobs : SF_documentVars(\E w \in Workers : Deliver(w, job))

DocumentSpec == Init /\ [][Next]_documentVars

FairDocumentSpec == DocumentSpec /\ DocumentFairness

-----------------------------------------------------------------------------

DocumentTypeOK ==
  /\ request \in [Documents -> {"none", "stored", "queueSummary", "queueEmbedding",
                                "accepted", "unavailable", "refused", "lost"}]
  /\ file \subseteq Documents
  /\ status \in [Documents -> [summary : JobStatuses \cup {"absent"},
                               embedding : JobStatuses \cup {"absent"}]]
  /\ summaries \in [Documents -> Nat]
  /\ generations \in [Documents -> Nat]
  /\ active \in [Documents -> SUBSET Nat]
  /\ lock \in [Documents -> Workers \cup {None}]
  /\ queue \subseteq Jobs
  /\ worker \in [Workers -> Task]
  /\ view \in [Documents -> View]
  /\ faults \in 0..MaxFaults /\ retries \in 0..MaxRetries
  /\ abandoned \subseteq Jobs /\ unsure \subseteq Jobs

(* One task at a time works on a job, however often it is delivered and    *)
(* whether or not it failed before.                                        *)
OneTaskPerJob ==
  \A v, w \in Workers :
    /\ worker[v].pc \notin {"idle", "claim"}
    /\ worker[w].pc \notin {"idle", "claim"}
    /\ worker[v].document = worker[w].document
    /\ worker[v].kind = worker[w].kind
    => v = w

(* The constraints of the tables that a statement of this module could     *)
(* meet: foreign keys, the enumerations, one active generation a document. *)
DocumentsTable ==
  \A d \in Documents : \/ \A kind \in Kinds : status[d][kind] \in JobStatuses
                      \/ \A kind \in Kinds : status[d][kind] = "absent"

DocumentSummariesTable == \A d \in Documents : summaries[d] > 0 => Exists(d)

EmbeddingGenerationsTable ==
  \A d \in Documents :
    /\ generations[d] > 0 => Exists(d)
    /\ active[d] \subseteq 1..generations[d]
    /\ Cardinality(active[d]) <= 1

(* The statuses say what is there: exactly one summary and the newest      *)
(* generation active, or none.  Only a commit taken for a failure can      *)
(* leave content beside another status, and have it built a second time.   *)
StatusTellsContent ==
  \A d \in Documents :
    /\ LET n == IF status[d].summary = "completed" THEN 1 ELSE 0 IN
         IF <<d, "summary">> \in unsure THEN summaries[d] >= n ELSE summaries[d] = n
    /\ active[d] \subseteq {generations[d]}
    /\ LET n == IF status[d].embedding = "completed" THEN 1 ELSE 0 IN
         IF <<d, "embedding">> \in unsure THEN Cardinality(active[d]) >= n
                                          ELSE Cardinality(active[d]) = n

(* Rows and files go together, and a refused upload leaves neither.  Only  *)
(* a commit taken for a failure leaves rows whose file is removed, and no  *)
(* job is ever begun on those.  (An API process that dies before it has    *)
(* committed or refused leaves a file and its request at "stored"; the     *)
(* file operations of an upload that was accepted do not fail here.)       *)
FilesAndRowsTogether ==
  \A d \in Documents :
    /\ d \in file => Exists(d) \/ request[d] = "stored"
    /\ Exists(d) /\ d \notin file =>
         /\ request[d] = "refused"
         /\ \A kind \in Kinds : status[d][kind] = "pending" /\ <<d, kind>> \in abandoned

(* Files, rows, constraints and statuses agree with one another whatever   *)
(* fails in the database, the broker, a worker or a model: a commit of     *)
(* unknown outcome leaves no more behind than each part says.              *)
DocumentsWhole ==
  /\ DocumentsTable /\ DocumentSummariesTable /\ EmbeddingGenerationsTable
  /\ StatusTellsContent
  /\ FilesAndRowsTogether

(* GET /project/{id} reads the summary before the statuses, a job may save *)
(* in between, and yet no summary is shown beside a job that is not done   *)
(* (after a commit taken for a failure it may be).                         *)
ProjectViewsTruthful ==
  \A d \in Documents :
    view[d].text = "text" => \/ view[d].summary \in {"unread", "completed"}
                            \/ <<d, "summary">> \in unsure

(* A job that is listed as waiting or in progress is somebody's business,  *)
(* unless its request was answered 503 or a fault took it away.            *)
NoStrandedJob ==
  \A d \in Documents : \A kind \in Kinds :
    /\ status[d][kind] \in {"pending", "started"}
    /\ <<d, kind>> \notin abandoned
    /\ request[d] # "unavailable"
    => \/ request[d] \in {"queueSummary", "queueEmbedding"}
       \/ <<d, kind>> \in queue
       \/ \E w \in Workers : worker[w].document = d /\ worker[w].kind = kind

(* A job taken up is finished, one way or another: the summary's wait for  *)
(* the lock that the embedding keeps over a slow call comes to an end.     *)
StartedJobsFinish ==
  \A job \in Jobs :
    status[job[1]][job[2]] = "started" /\ job \notin abandoned
      ~> status[job[1]][job[2]] # "started" \/ job \in abandoned

(* Stated by the deployment notes: workers do not need the volume of the   *)
(* uploaded files.                                                         *)
WorkersNeedNoUploads == \A w \in Workers : ~worker[w].unread
-----------------------------------------------------------------------------
(* The jobs as a reader of their statuses sees them.  In doubt is a job    *)
(* that is completed while the task that saved it has an error to record.  *)
InDoubt(d, kind) ==
  /\ status[d][kind] = "completed"
  /\ \E w \in Workers : /\ worker[w].pc = "failing"
                       /\ worker[w].document = d /\ worker[w].kind = kind

Ledger == INSTANCE JobLedger WITH
  results <- [d \in Documents |-> [summary |-> summaries[d], embedding |-> generations[d]]],
  doubted <- {job \in Jobs : InDoubt(job[1], job[2])}

(* Messages, redelivered or not, workers, crashes and failing saves do     *)
(* nothing to a document but what the ledger of its two jobs allows: a     *)
(* finished job is not begun again, and no late task overwrites its status.*)
ImplementsLedger == Ledger!Spec
=============================================================================
