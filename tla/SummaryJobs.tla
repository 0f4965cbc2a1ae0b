----------------------------- MODULE SummaryJobs -----------------------------
(***************************************************************************)
(* The standalone book summaries of one user on one UTC day: the upload    *)
(* route with its daily quota, deletion, and the task that summarizes in   *)
(* the background.  Unlike a conversation's run, a summary is neither      *)
(* locked nor claimed: routes and tasks read the row, decide, and write it *)
(* later, and a task delivered again starts over.                          *)
(*                                                                         *)
(* A book's text is its length: its chunks are windows <<from, to>>, and   *)
(* the model's answer to a chunk, blank or not, is the window it answers.  *)
(* Uploaded files, titles and other users are left out.                    *)
(***************************************************************************)
EXTENDS Naturals, FiniteSets, SequencesExt

CONSTANTS Summaries,   \* keys, one for each upload that may be tried
          Workers,     \* task slots of the worker processes
          Limit,       \* DAILY_SUMMARY_LIMIT
          Lengths,     \* how long the text of a book may be
          ChunkSize,   \* SUMMARY_CHUNK_SIZE
          Overlap,     \* SUMMARY_CHUNK_OVERLAP
          MaxConcurrency,  \* SUMMARY_MAX_CONCURRENCY
          MaxFaults    \* bound on crashes and database failures

(* chunk_text raises if the two chunk settings are not as assumed here; an  *)
(* upload is limited in size, so one text is the longest.                  *)
ASSUME SummaryAssumption ==
  /\ Limit \in Nat /\ MaxFaults \in Nat
  /\ Lengths \subseteq Nat \ {0}
  /\ \E longest \in Lengths : \A length \in Lengths : length <= longest
  /\ ChunkSize \in Nat /\ Overlap \in Nat /\ Overlap < ChunkSize
  /\ MaxConcurrency \in Nat \ {0}
  /\ "none" \notin Summaries

VARIABLES summary,     \* rows of the summaries table
          upload,      \* the request that creates a summary
          deleting,    \* summaries that passed delete_book's check
          queue,       \* summaries with a message to be delivered
          worker,      \* what each task slot is doing
          faults,      \* crashes and database failures so far
          abandoned    \* summaries an error took out of every process's hands

summaryVars == <<summary, upload, deleting, queue, worker, faults, abandoned>>

(* chunk_text: the windows of the text, each beginning where the one       *)
(* before it ends less the overlap.                                        *)
Chunks(length) ==
  LET from[start \in 0..length] ==
        IF start = length THEN << >>
        ELSE LET end == Min({start + ChunkSize, length}) IN
             <<<<start, end>>>> \o from[IF end < length THEN end - Overlap ELSE length]
  IN from[0]

Windows == {<<start, end>> : start, end \in 0..Max(Lengths)}

(* length: of source_text; content: the windows it summarizes, in order.   *)
Summary == [status : {"absent", "pending", "processing", "completed", "failed", "deleted"},
            length : Lengths \cup {0},
            content : Seq(Windows)]

NoRow == [status |-> "absent", length |-> 0, content |-> << >>]

(* seen and length are what the task loaded; its session does not read the *)
(* row again.  answered are the chunks whose calls have answered, in that  *)
(* order, and text is what they combine to.                                *)
Job == [pc : {"idle", "load", "mark", "map", "reduce", "complete", "fail", "ack"},
        summary : Summaries \cup {"none"},
        seen : {"none", "pending", "processing", "completed", "failed"},
        length : Lengths \cup {0},
        answered : Seq(1..Max(Lengths)),
        text : Seq(Windows)]

Idle == [pc |-> "idle", summary |-> "none", seen |-> "none", length |-> 0,
         answered |-> << >>, text |-> << >>]

Kept(s) == summary[s].status \notin {"absent", "deleted"}

Unfinished(s) == summary[s].status \in {"pending", "processing"}

(* count_started_today.                                                    *)
StartedToday ==
  Cardinality({s \in Summaries : Kept(s) /\ summary[s].status # "failed"})

SetStatus(s, status) == summary' = [summary EXCEPT ![s].status = status]

DeleteRow(s) == summary' = [summary EXCEPT ![s] = [NoRow EXCEPT !.status = "deleted"]]

Goto(w, pc) == worker' = [worker EXCEPT ![w].pc = pc]

(***************************************************************************)
(* Mutants: plausible mistakes in the code below; no part of the           *)
(* specification.                                                          *)
(***************************************************************************)

(* delete_book reads the row again when the upload is undone.              *)
UndoUploadIfIdle(s) ==
  /\ upload[s] = "undoing"
  /\ IF Kept(s) /\ summary[s].status # "processing"
     THEN DeleteRow(s) ELSE UNCHANGED summary
  /\ upload' = [upload EXCEPT ![s] = "refused"]
  /\ UNCHANGED <<deleting, queue, worker, faults, abandoned>>

(* The finished summary is merged, which inserts a row that is gone.       *)
CompleteAnyway(w) ==
  /\ worker[w].pc = "complete"
  /\ summary' = [summary EXCEPT ![worker[w].summary] =
                   [status |-> "completed", length |-> worker[w].length,
                    content |-> worker[w].text]]
  /\ Goto(w, "ack")
  /\ UNCHANGED <<upload, deleting, queue, faults, abandoned>>

(* The answers are joined in the order they arrived.                       *)
CombineAsAnswered(answered, chunks) == [k \in DOMAIN answered |-> chunks[answered[k]]]

(* A redelivered task skips what it finds processing.                      *)
LoadUnclaimed(w) ==
  /\ worker[w].pc = "load"
  /\ LET s == worker[w].summary IN
       worker' = [worker EXCEPT
         ![w].pc = IF Kept(s) /\ summary[s].status # "processing" THEN "mark" ELSE "ack",
         ![w].seen = IF Kept(s) THEN summary[s].status ELSE "none",
         ![w].length = summary[s].length]
  /\ UNCHANGED <<summary, upload, deleting, queue, faults, abandoned>>

(* A failure is logged, but the session is not committed.                  *)
SaveFailedUncommitted(w) ==
  /\ worker[w].pc = "fail"
  /\ Goto(w, "ack")
  /\ UNCHANGED <<summary, upload, deleting, queue, faults, abandoned>>

(* The row starts in a status its column does not know.                    *)
StartSummaryCreated(s) ==
  /\ upload[s] = "uploading"
  /\ summary' = [summary EXCEPT ![s].status = "created"]
  /\ upload' = [upload EXCEPT ![s] = "queueing"]
  /\ UNCHANGED <<deleting, queue, worker, faults, abandoned>>

-----------------------------------------------------------------------------

Init ==
  /\ summary = [s \in Summaries |-> NoRow]
  /\ upload = [s \in Summaries |-> "none"]
  /\ deleting = {}
  /\ queue = {}
  /\ worker = [w \in Workers |-> Idle]
  /\ faults = 0
  /\ abandoned = {}

(* create_summary up to ensure_daily_quota; the upload is streamed after.  *)
CheckQuota(s) ==
  /\ upload[s] = "none"
  /\ Limit = 0 \/ StartedToday < Limit
  /\ upload' = [upload EXCEPT ![s] = "uploading"]
  /\ UNCHANGED <<summary, deleting, queue, worker, faults, abandoned>>

(* A file that is no PDF, too large or without text.                       *)
RefuseUpload(s) ==
  /\ upload[s] = "uploading"
  /\ upload' = [upload EXCEPT ![s] = "refused"]
  /\ UNCHANGED <<summary, deleting, queue, worker, faults, abandoned>>

StartSummary(s) ==
  /\ upload[s] = "uploading"
  /\ \E length \in Lengths :
       summary' = [summary EXCEPT ![s].status = "pending", ![s].length = length]
  /\ upload' = [upload EXCEPT ![s] = "queueing"]
  /\ UNCHANGED <<deleting, queue, worker, faults, abandoned>>

Enqueue(s) ==
  /\ upload[s] = "queueing"
  /\ upload' = [upload EXCEPT ![s] = "accepted"]
  /\ queue' = queue \cup {s}
  /\ UNCHANGED <<summary, deleting, worker, faults, abandoned>>

(* kiq raises Redis's error; the broker may have taken the message all the *)
(* same.                                                                   *)
EnqueueFails(s) ==
  /\ upload[s] = "queueing"
  /\ upload' = [upload EXCEPT ![s] = "undoing"]
  /\ queue' \in {queue, queue \cup {s}}
  /\ UNCHANGED <<summary, deleting, worker, faults, abandoned>>

(* kiq raises an error of its own (the dispatcher of answers expects it to *)
(* wrap the broker's), which the route does not catch: the row stays, and  *)
(* without a message nobody will work on it.                               *)
EnqueueErrs(s) ==
  /\ upload[s] = "queueing"
  /\ upload' = [upload EXCEPT ![s] = "errored"]
  /\ \/ queue' = queue \cup {s} /\ UNCHANGED abandoned
     \/ abandoned' = abandoned \cup {s} /\ UNCHANGED queue
  /\ UNCHANGED <<summary, deleting, worker, faults>>

(* delete_book from the route's except branch.  Its session still holds    *)
(* the row as it was inserted, so the check for PROCESSING never refuses.  *)
UndoUpload(s) ==
  /\ upload[s] = "undoing"
  /\ IF Kept(s) THEN DeleteRow(s) ELSE UNCHANGED summary
  /\ upload' = [upload EXCEPT ![s] = "refused"]
  /\ UNCHANGED <<deleting, queue, worker, faults, abandoned>>

(* The user deletes: the status is checked, then the row is deleted.       *)
BeginDelete(s) ==
  /\ Kept(s) /\ summary[s].status # "processing"
  /\ deleting' = deleting \cup {s}
  /\ UNCHANGED <<summary, upload, queue, worker, faults, abandoned>>

FinishDelete(s) ==
  /\ s \in deleting
  /\ deleting' = deleting \ {s}
  /\ IF Kept(s) THEN DeleteRow(s) ELSE UNCHANGED summary
  /\ UNCHANGED <<upload, queue, worker, faults, abandoned>>

Fault(lost) ==
  /\ faults < MaxFaults
  /\ faults' = faults + 1
  /\ abandoned' = abandoned \cup lost

(* The API process dies before the task is queued or the row removed, or   *)
(* start_summary is not told that its commit took effect: the route passes *)
(* that error on, and the row stays with nothing queued for it.            *)
RequestLost(s) ==
  /\ upload[s] \in {"queueing", "undoing"}
  /\ Fault({s})
  /\ upload' = [upload EXCEPT ![s] = "lost"]
  /\ UNCHANGED <<summary, deleting, queue, worker>>

-----------------------------------------------------------------------------
(* process_summary.                                                        *)

Deliver(w, s) ==
  /\ worker[w].pc = "idle"
  /\ s \in queue
  /\ queue' = queue \ {s}
  /\ worker' = [worker EXCEPT ![w] = [Idle EXCEPT !.pc = "load", !.summary = s]]
  /\ UNCHANGED <<summary, upload, deleting, faults, abandoned>>

LoadSummary(w) ==
  /\ worker[w].pc = "load"
  /\ LET s == worker[w].summary IN
       worker' = [worker EXCEPT ![w].pc = IF Kept(s) THEN "mark" ELSE "ack",
                                ![w].seen = IF Kept(s) THEN summary[s].status
                                                       ELSE "none",
                                ![w].length = summary[s].length]
  /\ UNCHANGED <<summary, upload, deleting, queue, faults, abandoned>>

(* The commit updates the row only if the status changes for the session,  *)
(* and fails the task if there is no row to update.                        *)
MarkProcessing(w) ==
  /\ worker[w].pc = "mark"
  /\ LET s == worker[w].summary IN
       \/ /\ worker[w].seen = "processing"
          /\ Goto(w, "map") /\ UNCHANGED summary
       \/ /\ worker[w].seen # "processing" /\ Kept(s)
          /\ Goto(w, "map") /\ SetStatus(s, "processing")
       \/ /\ worker[w].seen # "processing" /\ ~Kept(s)
          /\ Goto(w, "ack") /\ UNCHANGED summary
  /\ UNCHANGED <<upload, deleting, queue, faults, abandoned>>

(* gather gives the answers in the order of the chunks they answer.        *)
Combine(answered, chunks) == [k \in DOMAIN answered |-> chunks[k]]

(* The chunks that hold the semaphore, which is granted in order.          *)
Running(answered, chunks) ==
  {i \in DOMAIN chunks \ answered :
     Cardinality(1..(i - 1) \ answered) < MaxConcurrency}

(* summarize_chunks: one of the calls that are running answers.            *)
SummarizeChunk(w) ==
  /\ worker[w].pc = "map"
  /\ LET chunks == Chunks(worker[w].length) IN
       \E i \in Running(Range(worker[w].answered), chunks) :
         LET now == Append(worker[w].answered, i) IN
         worker' = [worker EXCEPT ![w] =
           IF Len(now) < Len(chunks) THEN [@ EXCEPT !.answered = now]
           ELSE [@ EXCEPT !.pc = "reduce", !.answered = << >>,
                          !.text = Combine(now, chunks)]]
  /\ UNCHANGED <<summary, upload, deleting, queue, faults, abandoned>>

(* summarize_combined_summary, which has a text for a blank answer too.    *)
SummarizeCombined(w) ==
  /\ worker[w].pc = "reduce"
  /\ Goto(w, "complete")
  /\ UNCHANGED <<summary, upload, deleting, queue, faults, abandoned>>

(* A call fails for good; what other chunks answer is not listened to.     *)
ModelFails(w) ==
  /\ worker[w].pc \in {"map", "reduce"}
  /\ worker' = [worker EXCEPT ![w].pc = "fail", ![w].answered = << >>,
                              ![w].text = << >>]
  /\ UNCHANGED <<summary, upload, deleting, queue, faults, abandoned>>

SaveCompleted(w) ==
  /\ worker[w].pc = "complete"
  /\ LET s == worker[w].summary IN
       IF Kept(s)
       THEN summary' = [summary EXCEPT ![s].status = "completed",
                                       ![s].content = worker[w].text]
       ELSE UNCHANGED summary
  /\ Goto(w, "ack")
  /\ UNCHANGED <<upload, deleting, queue, faults, abandoned>>

SaveFailed(w) ==
  /\ worker[w].pc = "fail"
  /\ LET s == worker[w].summary IN
       IF Kept(s) THEN SetStatus(s, "failed") ELSE UNCHANGED summary
  /\ Goto(w, "ack")
  /\ UNCHANGED <<upload, deleting, queue, faults, abandoned>>

Acknowledge(w) ==
  /\ worker[w].pc = "ack"
  /\ worker' = [worker EXCEPT ![w] = Idle]
  /\ UNCHANGED <<summary, upload, deleting, queue, faults, abandoned>>

(* The worker process dies; the message was not acknowledged.              *)
WorkerCrashes(w) ==
  /\ worker[w].pc # "idle"
  /\ Fault({})
  /\ queue' = queue \cup {worker[w].summary}
  /\ worker' = [worker EXCEPT ![w] = Idle]
  /\ UNCHANGED <<summary, upload, deleting>>

(* A database failure outside the try block ends the task in error, and    *)
(* its message is acknowledged.  (A commit that took effect all the same   *)
(* leaves what the step leaves, and the task ends there or later.)         *)
TaskLost(w) ==
  /\ worker[w].pc \in {"load", "mark", "complete", "fail"}
  /\ Fault({worker[w].summary})
  /\ worker' = [worker EXCEPT ![w] = Idle]
  /\ UNCHANGED <<summary, upload, deleting, queue>>

(* The stream hands out again a message that is taking too long.           *)
Redeliver(w) ==
  /\ worker[w].pc # "idle"
  /\ worker[w].summary \notin queue
  /\ queue' = queue \cup {worker[w].summary}
  /\ UNCHANGED <<summary, upload, deleting, worker, faults, abandoned>>

-----------------------------------------------------------------------------

UploadStep(s) ==
  Enqueue(s) \/ EnqueueFails(s) \/ EnqueueErrs(s) \/ UndoUpload(s)

WorkerStep(w) ==
  \/ LoadSummary(w)
  \/ MarkProcessing(w)
  \/ SummarizeChunk(w)
  \/ SummarizeCombined(w)
  \/ ModelFails(w)
  \/ SaveCompleted(w)
  \/ SaveFailed(w)
  \/ Acknowledge(w)

Next ==
  \/ \E s \in Summaries :
       \/ CheckQuota(s) \/ RefuseUpload(s) \/ StartSummary(s)
       \/ UploadStep(s)
       \/ BeginDelete(s) \/ FinishDelete(s)
       \/ RequestLost(s)
  \/ \E w \in Workers, s \in Summaries : Deliver(w, s)
  \/ \E w \in Workers :
       WorkerStep(w) \/ WorkerCrashes(w) \/ TaskLost(w) \/ Redeliver(w)

(* Requests and tasks that are running go on, and a waiting message is     *)
(* handed to a slot that is free again and again.                          *)
SummaryFairness ==
  /\ \A s \in Summaries : WF_summaryVars(UploadStep(s))
  /\ \A w \in Workers : WF_summaryVars(WorkerStep(w))
  /\ \A s \in Summaries : SF_summaryVars(\E w \in Workers : Deliver(w, s))

SummarySpec == Init /\ [][Next]_summaryVars

FairSummarySpec == SummarySpec /\ SummaryFairness

-----------------------------------------------------------------------------

SummaryTypeOK ==
  /\ summary \in [Summaries -> Summary]
  /\ upload \in [Summaries -> {"none", "uploading", "queueing", "undoing",
                               "accepted", "refused", "errored", "lost"}]
  /\ deleting \subseteq Summaries
  /\ queue \subseteq Summaries
  /\ worker \in [Workers -> Job]
  /\ faults \in 0..MaxFaults
  /\ abandoned \subseteq Summaries

(* A completed summary is made of the whole book in reading order,         *)
(* whichever of several deliveries wrote last and whatever the order in    *)
(* which the calls answered: it begins with the text, ends with it, and no *)
(* chunk is longer than the setting or starts past the end of the last.    *)
CompletedCoversBook ==
  \A s \in Summaries : summary[s].status = "completed" =>
    LET parts == summary[s].content IN
    /\ parts # << >>
    /\ Head(parts)[1] = 0 /\ Last(parts)[2] = summary[s].length
    /\ \A i \in DOMAIN parts : parts[i][2] - parts[i][1] \in 1..ChunkSize
    /\ \A i \in 1..(Len(parts) - 1) :
         /\ parts[i][1] < parts[i + 1][1]
         /\ parts[i + 1][1] + Overlap = parts[i][2]

(* An upload answered with a refusal (a 503 included) is not in the        *)
(* library, even when its message reached a worker that has started on it. *)
(* (One whose commit took effect but raised is lost, not refused.)         *)
RefusedUploadLeavesNothing ==
  \A s \in Summaries : upload[s] = "refused" => ~Kept(s)

(* A summary shown as waiting or in progress is somebody's business; only  *)
(* a lost request, an error the route does not catch or a database failure *)
(* can strand it, a crash of the worker cannot.                            *)
NoStrandedSummary ==
  \A s \in Summaries \ abandoned :
    Unfinished(s) =>
      \/ upload[s] \in {"queueing", "undoing"}
      \/ s \in queue
      \/ \E w \in Workers : worker[w].summary = s /\ worker[w].pc # "ack"

(* Deletion is final: no task that still works on the summary restores it. *)
DeletedStaysDeleted ==
  [][\A s \in Summaries : summary[s].status = "deleted" =>
       summary'[s].status = "deleted"]_summaryVars

(* A summary that is waiting or in progress gets done, one way or another, *)
(* although workers crash.                                                 *)
SummariesFinish ==
  \A s \in Summaries :
    Unfinished(s) /\ s \notin abandoned ~> ~Unfinished(s) \/ s \in abandoned

(* Stated by ensure_daily_quota: a user out of daily summaries is refused, *)
(* so there are never more of them than the limit.                         *)
StartedWithinQuota == Limit > 0 => StartedToday <= Limit
=============================================================================
