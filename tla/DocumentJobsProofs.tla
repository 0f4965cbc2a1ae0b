------------------------- MODULE DocumentJobsProofs -------------------------
(***************************************************************************)
(* Proofs about DocumentJobs, for any number of documents and workers and  *)
(* any bounds on faults and deliveries.                                    *)
(***************************************************************************)
EXTENDS DocumentJobs, FiniteSetTheorems, TLAPS

(***************************************************************************)
(* The inductive invariant.  What closes it: a task that is past its claim *)
(* finds its job's status started, or completed by a save of its own that  *)
(* was taken for a failure.  So no other task can claim the job, the rows  *)
(* of its document are there, and what it saves is the only content.       *)
(***************************************************************************)

Working(w) == worker[w].pc \notin {"idle", "claim"}

On(w, d, kind) == worker[w].document = d /\ worker[w].kind = kind

TasksHoldJobs ==
  \A w \in Workers :
    /\ worker[w].pc # "idle" => worker[w].document \in Documents /\ worker[w].kind \in Kinds
    /\ worker[w].pc = "lock" => worker[w].kind = "embedding"
    /\ Working(w) =>
         LET d == worker[w].document  kind == worker[w].kind IN
           \/ status[d][kind] = "started"
           \/ /\ status[d][kind] = "completed"
              /\ worker[w].pc = "failing"
              /\ <<d, kind>> \in unsure

RowsFollowRequest ==
  \A d \in Documents :
    /\ request[d] \in {"none", "stored"} =>
         \A kind \in Kinds : status[d][kind] = "absent"
    /\ request[d] = "refused" =>
         \/ \A kind \in Kinds : status[d][kind] = "absent"
         \/ \A kind \in Kinds : status[d][kind] = "pending" /\ <<d, kind>> \in abandoned
    /\ request[d] \notin {"none", "stored", "refused"} =>
         \A kind \in Kinds : status[d][kind] \in JobStatuses
    /\ d \in file <=> request[d] \notin {"none", "refused"}
    /\ summaries[d] > 0 \/ generations[d] > 0 => Exists(d)

(* Nothing is queued before a project is saved, nor ever for a refused one.*)
Unqueued == {"none", "stored", "refused"}

UnqueuedIsQuiet ==
  \A d \in Documents : request[d] \in Unqueued =>
    /\ \A kind \in Kinds : <<d, kind>> \notin queue
    /\ \A w \in Workers : worker[w].pc # "idle" => worker[w].document # d

ContentTold ==
  \A d \in Documents :
    /\ LET n == IF status[d].summary = "completed" THEN 1 ELSE 0 IN
         IF <<d, "summary">> \in unsure THEN summaries[d] >= n ELSE summaries[d] = n
    /\ active[d] = {} \/ (active[d] = {generations[d]} /\ generations[d] > 0)
    /\ status[d].embedding = "completed" => active[d] # {}
    /\ active[d] # {} =>
         status[d].embedding = "completed" \/ <<d, "embedding">> \in unsure

ViewsHold ==
  \A d \in Documents :
    /\ view[d].text # "unread" => Exists(d)
    /\ view[d].text = "text" =>
         \/ <<d, "summary">> \in unsure
         \/ /\ status[d].summary = "completed"
            /\ view[d].summary \in {"unread", "completed"}

StartedHasTask ==
  \A d \in Documents : \A kind \in Kinds :
    status[d][kind] = "started" /\ <<d, kind>> \notin abandoned =>
      \E w \in Workers : Working(w) /\ On(w, d, kind)

PendingIsAwaited ==
  \A d \in Documents : \A kind \in Kinds :
    /\ status[d][kind] = "pending"
    /\ <<d, kind>> \notin abandoned
    /\ request[d] # "unavailable"
    => \/ request[d] = "queueSummary"
       \/ request[d] = "queueEmbedding" /\ kind = "embedding"
       \/ <<d, kind>> \in queue
       \/ \E w \in Workers : worker[w].pc = "claim" /\ On(w, d, kind)

DocumentInv ==
  /\ DocumentTypeOK
  /\ TasksHoldJobs
  /\ OneTaskPerJob
  /\ RowsFollowRequest
  /\ UnqueuedIsQuiet
  /\ ContentTold
  /\ ViewsHold
  /\ StartedHasTask
  /\ PendingIsAwaited

LEMMA InitDocumentInv == Init => DocumentInv
<1> SUFFICES ASSUME Init PROVE DocumentInv
  OBVIOUS
<1> USE DEF Init
<1>1. \A w \in Workers : worker[w] = Idle /\ Idle.pc = "idle"
  BY DEF Idle
<1>2. DocumentTypeOK
  BY DocumentAssumption DEF DocumentTypeOK, Idle, Task, Unread, View
<1>3. TasksHoldJobs /\ OneTaskPerJob /\ UnqueuedIsQuiet
  BY <1>1 DEF TasksHoldJobs, OneTaskPerJob, UnqueuedIsQuiet, Working
<1>4. RowsFollowRequest /\ ContentTold
  BY DEF RowsFollowRequest, ContentTold, Kinds
<1>5. ViewsHold /\ StartedHasTask /\ PendingIsAwaited
  BY DEF ViewsHold, StartedHasTask, PendingIsAwaited, Unread, Kinds
<1> QED
  BY <1>2, <1>3, <1>4, <1>5 DEF DocumentInv

-----------------------------------------------------------------------------

(* Messages and tasks are there only for a request that has queued them:   *)
(* what a step adds is for such a request, or has a task or a message of   *)
(* the same document before it.                                            *)
LEMMA QuietStays ==
  ASSUME DocumentInv,
         \A d \in Documents : request'[d] \in Unqueued => request[d] \in Unqueued,
         \A d \in Documents : \A kind \in Kinds : <<d, kind>> \in queue' =>
           \/ <<d, kind>> \in queue
           \/ request'[d] \notin Unqueued
           \/ \E w \in Workers : worker[w].pc # "idle" /\ worker[w].document = d,
         \A w \in Workers : worker'[w].pc # "idle" =>
           \/ worker[w].pc # "idle" /\ worker'[w].document = worker[w].document
           \/ \E kind \in Kinds : <<worker'[w].document, kind>> \in queue
  PROVE  UnqueuedIsQuiet'
BY DEF DocumentInv, UnqueuedIsQuiet

(* A step of the request that leaves the tables and the tasks alone.       *)
LEMMA RequestKeeps ==
  ASSUME DocumentInv, UNCHANGED <<tables, worker, view, unsure>>,
         abandoned \subseteq abandoned'
  PROVE  /\ TasksHoldJobs' /\ OneTaskPerJob' /\ ContentTold' /\ ViewsHold'
         /\ StartedHasTask'
<1> USE DEF tables
<1>1. TasksHoldJobs' /\ OneTaskPerJob'
  BY DEF DocumentInv, TasksHoldJobs, OneTaskPerJob, Working
<1>2. ContentTold' /\ ViewsHold'
  BY DEF DocumentInv, ContentTold, ViewsHold, Exists
<1>3. StartedHasTask'
  BY DEF DocumentInv, StartedHasTask, Working, On
<1> QED
  BY <1>1, <1>2, <1>3

LEMMA StoreUploadInv ==
  ASSUME DocumentInv, NEW d \in Documents, StoreUpload(d)
  PROVE  DocumentInv'
<1>1. /\ TasksHoldJobs' /\ OneTaskPerJob' /\ ContentTold' /\ ViewsHold'
      /\ StartedHasTask'
  BY RequestKeeps DEF StoreUpload, rest
<1>2. DocumentTypeOK'
  BY DEF DocumentInv, DocumentTypeOK, StoreUpload, tables, rest
<1>3. RowsFollowRequest'
  BY DEF DocumentInv, DocumentTypeOK, RowsFollowRequest, StoreUpload, tables, rest, Exists
<1>4. PendingIsAwaited'
  BY DEF DocumentInv, DocumentTypeOK, RowsFollowRequest, PendingIsAwaited,
     StoreUpload, tables, rest, On
<1>5. UnqueuedIsQuiet'
  BY QuietStays DEF DocumentInv, DocumentTypeOK, Unqueued, StoreUpload
<1> QED
  BY <1>1, <1>2, <1>3, <1>4, <1>5 DEF DocumentInv

LEMMA CommitFailsInv ==
  ASSUME DocumentInv, NEW d \in Documents, CommitFails(d)
  PROVE  DocumentInv'
<1>1. /\ TasksHoldJobs' /\ OneTaskPerJob' /\ ContentTold' /\ ViewsHold'
      /\ StartedHasTask'
  BY RequestKeeps DEF CommitFails, Refuse, rest
<1>2. DocumentTypeOK'
  BY DEF DocumentInv, DocumentTypeOK, CommitFails, Refuse, tables, rest
<1>3. RowsFollowRequest'
  BY DEF DocumentInv, DocumentTypeOK, RowsFollowRequest, CommitFails, Refuse, tables, rest, Exists
<1>4. PendingIsAwaited'
  BY DEF DocumentInv, DocumentTypeOK, RowsFollowRequest, PendingIsAwaited,
     CommitFails, Refuse, tables, rest, On
<1>5. UnqueuedIsQuiet'
  BY QuietStays DEF DocumentInv, DocumentTypeOK, Unqueued, CommitFails, Refuse
<1> QED
  BY <1>1, <1>2, <1>3, <1>4, <1>5 DEF DocumentInv

LEMMA QueueingInv ==
  ASSUME DocumentInv, NEW d \in Documents, RequestStep(d)
  PROVE  DocumentInv'
<1>1. /\ TasksHoldJobs' /\ OneTaskPerJob' /\ ContentTold' /\ ViewsHold'
      /\ StartedHasTask'
  BY RequestKeeps DEF RequestStep, QueueSummary, QueueEmbedding, QueueFails, rest
<1>2. /\ request[d] \in {"queueSummary", "queueEmbedding"}
      /\ request'[d] \in {"queueEmbedding", "accepted", "unavailable"}
      /\ \A e \in Documents \ {d} : request'[e] = request[e]
      /\ request' \in [Documents -> {"none", "stored", "queueSummary", "queueEmbedding",
                                     "accepted", "unavailable", "refused", "lost"}]
  BY DEF RequestStep, QueueSummary, QueueEmbedding, QueueFails, DocumentInv,
     DocumentTypeOK
<1>3. /\ queue \subseteq queue' /\ queue' \subseteq Jobs
      /\ request'[d] = "queueEmbedding" =>
           <<d, "summary">> \in queue' /\ request[d] = "queueSummary"
      /\ request'[d] = "accepted" =>
           <<d, "embedding">> \in queue' /\ request[d] = "queueEmbedding"
  BY DEF RequestStep, QueueSummary, QueueEmbedding, QueueFails, DocumentInv,
     DocumentTypeOK, Jobs, Kinds
<1>4. UNCHANGED <<file, tables, lock, worker, rest>>
  BY DEF RequestStep, QueueSummary, QueueEmbedding, QueueFails
<1>5. DocumentTypeOK'
  BY <1>2, <1>3, <1>4 DEF DocumentInv, DocumentTypeOK, tables, rest
<1>6. RowsFollowRequest'
  BY <1>2, <1>4 DEF DocumentInv, RowsFollowRequest, tables, rest, Exists
<1>8. UnqueuedIsQuiet'
  <2>1. \A e \in Documents : \A kind \in Kinds :
          <<e, kind>> \in queue' => <<e, kind>> \in queue \/ e = d
    BY DEF RequestStep, QueueSummary, QueueEmbedding, QueueFails
  <2> QED
    BY <1>2, <1>4, <2>1, QuietStays DEF Unqueued
<1>7. PendingIsAwaited'
  <2> SUFFICES ASSUME NEW e \in Documents, NEW kind \in Kinds,
                      status[e][kind] = "pending", <<e, kind>> \notin abandoned',
                      request'[e] # "unavailable"
               PROVE  \/ request'[e] = "queueSummary"
                      \/ request'[e] = "queueEmbedding" /\ kind = "embedding"
                      \/ <<e, kind>> \in queue'
                      \/ \E w \in Workers : worker[w].pc = "claim" /\ On(w, e, kind)
    BY <1>4 DEF PendingIsAwaited, tables, rest, On
  <2>1. request[e] # "unavailable" /\ <<e, kind>> \notin abandoned
    BY <1>2, <1>4 DEF rest
  <2>2. \/ request[e] = "queueSummary"
        \/ request[e] = "queueEmbedding" /\ kind = "embedding"
        \/ <<e, kind>> \in queue
        \/ \E w \in Workers : worker[w].pc = "claim" /\ On(w, e, kind)
    BY <2>1 DEF DocumentInv, PendingIsAwaited
  <2>3. CASE e = d
    BY <1>2, <1>3, <1>4, <2>2, <2>3 DEF Kinds
  <2>4. CASE e # d
    BY <1>2, <1>3, <1>4, <2>2, <2>4
  <2> QED
    BY <2>3, <2>4
<1> QED
  BY <1>1, <1>5, <1>6, <1>7, <1>8 DEF DocumentInv

LEMMA RequestLostInv ==
  ASSUME DocumentInv, NEW d \in Documents, RequestLost(d)
  PROVE  DocumentInv'
<1>1. /\ request[d] \in {"queueSummary", "queueEmbedding"}
      /\ request' = [request EXCEPT ![d] = "lost"]
      /\ abandoned \subseteq abandoned' /\ abandoned' \subseteq Jobs
      /\ <<d, "embedding">> \in abandoned'
      /\ request[d] = "queueSummary" => <<d, "summary">> \in abandoned'
      /\ faults' \in 0..MaxFaults
      /\ UNCHANGED <<file, tables, lock, queue, worker, view, retries, unsure>>
  BY DocumentAssumption DEF RequestLost, Fault, DocumentInv, DocumentTypeOK, Jobs, Kinds
<1>2. /\ TasksHoldJobs' /\ OneTaskPerJob' /\ ContentTold' /\ ViewsHold'
      /\ StartedHasTask'
  BY <1>1, RequestKeeps
<1>3. DocumentTypeOK'
  BY <1>1 DEF DocumentInv, DocumentTypeOK, tables
<1>4. RowsFollowRequest'
  BY <1>1 DEF DocumentInv, DocumentTypeOK, RowsFollowRequest, tables, Exists
<1>6. request'[d] = "lost" /\ \A e \in Documents \ {d} : request'[e] = request[e]
  BY <1>1 DEF DocumentInv, DocumentTypeOK
<1>5. PendingIsAwaited'
  <2> SUFFICES ASSUME NEW e \in Documents, NEW kind \in Kinds,
                      status[e][kind] = "pending", <<e, kind>> \notin abandoned',
                      request'[e] # "unavailable"
               PROVE  \/ request'[e] = "queueSummary"
                      \/ request'[e] = "queueEmbedding" /\ kind = "embedding"
                      \/ <<e, kind>> \in queue'
                      \/ \E w \in Workers : worker[w].pc = "claim" /\ On(w, e, kind)
    BY <1>1 DEF PendingIsAwaited, tables, rest, On
  <2>1. request[e] # "unavailable" /\ <<e, kind>> \notin abandoned
    BY <1>1, <1>6
  <2>2. \/ request[e] = "queueSummary"
        \/ request[e] = "queueEmbedding" /\ kind = "embedding"
        \/ <<e, kind>> \in queue
        \/ \E w \in Workers : worker[w].pc = "claim" /\ On(w, e, kind)
    BY <2>1 DEF DocumentInv, PendingIsAwaited
  <2>3. CASE e = d
    BY <1>1, <1>6, <2>2, <2>3 DEF Kinds
  <2>4. CASE e # d
    BY <1>1, <1>6, <2>2, <2>4
  <2> QED
    BY <2>3, <2>4
<1>7. UnqueuedIsQuiet'
  BY <1>1, <1>6, QuietStays DEF Unqueued
<1> QED
  BY <1>2, <1>3, <1>4, <1>5, <1>7 DEF DocumentInv

(* The rows of a project are saved, and its request goes on, or takes it   *)
(* for a failure and leaves both jobs to nobody.                           *)
LEMMA ProjectSavedInv ==
  ASSUME DocumentInv, NEW d \in Documents, NEW answer \in {"queueSummary", "refused"},
         request[d] = "stored", request' = [request EXCEPT ![d] = answer],
         ProjectSaved(d),
         file' = IF answer = "refused" THEN file \ {d} ELSE file,
         abandoned \subseteq abandoned', abandoned' \subseteq Jobs,
         answer = "refused" => \A kind \in Kinds : <<d, kind>> \in abandoned',
         faults' \in 0..MaxFaults,
         UNCHANGED <<lock, queue, worker, view, retries, unsure>>
  PROVE  DocumentInv'
<1>1. /\ status' = [status EXCEPT ![d] = [summary |-> "pending", embedding |-> "pending"]]
      /\ UNCHANGED <<summaries, generations, active>>
  BY DEF ProjectSaved
<1>2. /\ \A kind \in Kinds : status[d][kind] = "absent" /\ status'[d][kind] = "pending"
      /\ \A e \in Documents \ {d} : status'[e] = status[e] /\ request'[e] = request[e]
      /\ request'[d] = answer
  BY <1>1 DEF DocumentInv, DocumentTypeOK, RowsFollowRequest, Kinds
<1>3. ~Exists(d) /\ status'[d].summary = "pending" /\ status'[d].embedding = "pending"
  BY <1>2 DEF Exists, Kinds
<1>4. DocumentTypeOK'
  BY <1>1 DEF DocumentInv, DocumentTypeOK, JobStatuses
<1>5. TasksHoldJobs'
  BY <1>2 DEF DocumentInv, TasksHoldJobs, Working
<1>6. OneTaskPerJob'
  BY DEF DocumentInv, OneTaskPerJob
<1>7. RowsFollowRequest'
  <2>1. \A e \in Documents \ {d} : Exists(e)' <=> Exists(e)
    BY <1>2 DEF Exists
  <2>2. Exists(d)'
    BY <1>3 DEF Exists
  <2> QED
    BY <1>1, <1>2, <2>1, <2>2 DEF DocumentInv, RowsFollowRequest, JobStatuses
<1>8. ContentTold'
  BY <1>1, <1>2, <1>3 DEF DocumentInv, ContentTold, Kinds
<1>9. ViewsHold'
  <2>1. view[d].text = "unread"
    BY <1>3 DEF DocumentInv, ViewsHold
  <2>2. \A e \in Documents : Exists(e) => Exists(e)' /\ status'[e] = status[e]
    BY <1>2, <1>3 DEF Exists
  <2> QED
    BY <2>1, <2>2 DEF DocumentInv, ViewsHold
<1>10. StartedHasTask'
  BY <1>2 DEF DocumentInv, StartedHasTask, Working, On
<1>11. PendingIsAwaited'
  BY <1>2 DEF DocumentInv, PendingIsAwaited, On
<1>12. UnqueuedIsQuiet'
  BY <1>2, QuietStays DEF Unqueued
<1> QED
  BY <1>4, <1>5, <1>6, <1>7, <1>8, <1>9, <1>10, <1>11, <1>12 DEF DocumentInv

LEMMA CommitProjectInv ==
  ASSUME DocumentInv, NEW d \in Documents, CommitProject(d)
  PROVE  DocumentInv'
<1>1. /\ request[d] = "stored" /\ request' = [request EXCEPT ![d] = "queueSummary"]
      /\ ProjectSaved(d) /\ UNCHANGED <<file, lock, queue, worker, rest>>
  BY DEF CommitProject
<1>2. abandoned' \subseteq Jobs /\ faults' \in 0..MaxFaults
  BY <1>1 DEF rest, DocumentInv, DocumentTypeOK
<1> QED
  BY <1>1, <1>2, ProjectSavedInv DEF rest

-----------------------------------------------------------------------------
(* Tasks that start or end without work: deliveries and faults.            *)

(* What holds of the jobs, rows and views when a task is handed a job or   *)
(* dropped, with the tables as they are.                                   *)
LEMMA HandsChange ==
  ASSUME DocumentInv, UNCHANGED <<request, file, tables, view, unsure>>,
         abandoned \subseteq abandoned',
         \A w \in Workers :
           \/ worker'[w] = worker[w]
           \/ worker'[w].pc = "idle"
           \/ /\ worker'[w].pc = "claim"
              /\ worker'[w].document \in Documents /\ worker'[w].kind \in Kinds
  PROVE  /\ TasksHoldJobs' /\ OneTaskPerJob' /\ RowsFollowRequest' /\ ContentTold'
         /\ ViewsHold'
<1> USE DEF tables
<1>1. TasksHoldJobs'
  BY DEF DocumentInv, TasksHoldJobs, Working
<1>2. OneTaskPerJob'
  BY DEF DocumentInv, OneTaskPerJob
<1>3. RowsFollowRequest' /\ ContentTold' /\ ViewsHold'
  BY DEF DocumentInv, RowsFollowRequest, ContentTold, ViewsHold, Exists
<1> QED
  BY <1>1, <1>2, <1>3

LEMMA DeliverInv ==
  ASSUME DocumentInv, NEW w \in Workers, NEW job \in Jobs, Deliver(w, job)
  PROVE  DocumentInv'
<1>1. /\ worker[w].pc = "idle" /\ job \in queue /\ queue' = queue \ {job}
      /\ UNCHANGED <<request, file, status, summaries, generations, active, lock,
                     view, faults, retries, abandoned, unsure>>
  BY DEF Deliver, tables, rest
<1>2. PICK d \in Documents, kind \in Kinds : job = <<d, kind>>
  BY DEF Jobs
<1>3. PICK t \in Task : /\ t.pc = "claim" /\ t.document = d /\ t.kind = kind
                        /\ worker' = [worker EXCEPT ![w] = t]
  <2>1. job[1] = d /\ job[2] = kind
    BY <1>2
  <2>2. Idle \in Task /\ d \in Documents \cup {None} /\ kind \in Kinds \cup {None}
    BY DEF Idle, Task
  <2> DEFINE t == [Idle EXCEPT !.pc = "claim", !.document = d, !.kind = kind]
  <2>3. t \in Task /\ t.pc = "claim" /\ t.document = d /\ t.kind = kind
    BY <2>2 DEF Task
  <2>4. worker' = [worker EXCEPT ![w] = t]
    BY <2>1 DEF Deliver
  <2> QED
    BY <2>3, <2>4
<1>4. /\ worker'[w].pc = "claim" /\ worker'[w].document = d /\ worker'[w].kind = kind
      /\ \A v \in Workers \ {w} : worker'[v] = worker[v]
  BY <1>3 DEF DocumentInv, DocumentTypeOK
<1>5. DocumentTypeOK'
  BY <1>1, <1>3 DEF DocumentInv, DocumentTypeOK, Task
<1>6. TasksHoldJobs' /\ OneTaskPerJob' /\ RowsFollowRequest' /\ ContentTold' /\ ViewsHold'
  BY <1>1, <1>4, HandsChange DEF tables
<1>7. StartedHasTask'
  BY <1>1, <1>4 DEF DocumentInv, StartedHasTask, Working, On
<1>8. PendingIsAwaited'
  <2> SUFFICES ASSUME NEW e \in Documents, NEW k \in Kinds,
                      status[e][k] = "pending", <<e, k>> \notin abandoned,
                      request[e] # "unavailable"
               PROVE  \/ request[e] = "queueSummary"
                      \/ request[e] = "queueEmbedding" /\ k = "embedding"
                      \/ <<e, k>> \in queue'
                      \/ \E v \in Workers : worker'[v].pc = "claim" /\ On(v, e, k)'
    BY <1>1 DEF PendingIsAwaited
  <2>1. \/ request[e] = "queueSummary"
        \/ request[e] = "queueEmbedding" /\ k = "embedding"
        \/ <<e, k>> \in queue
        \/ \E v \in Workers : worker[v].pc = "claim" /\ On(v, e, k)
    BY DEF DocumentInv, PendingIsAwaited
  <2>2. CASE e = d /\ k = kind
    BY <1>4, <2>2 DEF On
  <2>3. CASE <<e, k>> # job
    BY <1>1, <1>4, <2>1, <2>3 DEF On
  <2> QED
    BY <1>2, <2>2, <2>3
<1>9. UnqueuedIsQuiet'
  BY <1>1, <1>2, <1>4, QuietStays
<1> QED
  BY <1>5, <1>6, <1>7, <1>8, <1>9 DEF DocumentInv

LEMMA RedeliverInv ==
  ASSUME DocumentInv, NEW w \in Workers, Redeliver(w)
  PROVE  DocumentInv'
<1>1. /\ worker[w].pc # "idle" /\ retries < MaxRetries /\ retries' = retries + 1
      /\ queue' = queue \cup {<<worker[w].document, worker[w].kind>>}
      /\ UNCHANGED <<request, file, status, summaries, generations, active, lock, worker,
                     view, faults, abandoned, unsure>>
  BY DEF Redeliver, tables
<1>2. worker[w].document \in Documents /\ worker[w].kind \in Kinds
  BY <1>1 DEF DocumentInv, TasksHoldJobs
<1>3. retries' \in 0..MaxRetries
  BY <1>1, DocumentAssumption DEF DocumentInv, DocumentTypeOK
<1>4. DocumentTypeOK'
  BY <1>1, <1>2, <1>3 DEF DocumentInv, DocumentTypeOK, Jobs
<1>5. TasksHoldJobs' /\ OneTaskPerJob' /\ RowsFollowRequest' /\ ContentTold' /\ ViewsHold'
  BY <1>1, HandsChange DEF tables
<1>6. StartedHasTask'
  BY <1>1 DEF DocumentInv, StartedHasTask, Working, On
<1>7. PendingIsAwaited'
  BY <1>1 DEF DocumentInv, PendingIsAwaited, On
<1>8. UnqueuedIsQuiet'
  BY <1>1, <1>2, QuietStays
<1> QED
  BY <1>4, <1>5, <1>6, <1>7, <1>8 DEF DocumentInv

(* A task is dropped: its job is back in the queue if it was not claimed   *)
(* yet, and otherwise out of every process's hands.                        *)
LEMMA DroppedInv ==
  ASSUME DocumentInv, NEW w \in Workers,
         worker[w].pc # "idle",
         worker' = [worker EXCEPT ![w] = Idle],
         UNCHANGED <<request, file, tables, view, retries, unsure>>,
         lock' \in [Documents -> Workers \cup {None}],
         faults' \in 0..MaxFaults,
         queue \subseteq queue', queue' \subseteq Jobs,
         queue' \subseteq queue \cup {<<worker[w].document, worker[w].kind>>},
         abandoned \subseteq abandoned', abandoned' \subseteq Jobs,
         LET job == <<worker[w].document, worker[w].kind>> IN
           job \in abandoned' \/ (worker[w].pc = "claim" /\ job \in queue')
  PROVE  DocumentInv'
<1>1. /\ worker'[w] = Idle /\ worker'[w].pc = "idle"
      /\ \A v \in Workers \ {w} : worker'[v] = worker[v]
  BY DEF DocumentInv, DocumentTypeOK, Idle
<1>2. DocumentTypeOK'
  BY DEF DocumentInv, DocumentTypeOK, Task, Idle, tables
<1>3. TasksHoldJobs' /\ OneTaskPerJob' /\ RowsFollowRequest' /\ ContentTold' /\ ViewsHold'
  BY <1>1, HandsChange
<1>4. StartedHasTask'
  <2> SUFFICES ASSUME NEW e \in Documents, NEW k \in Kinds,
                      status[e][k] = "started", <<e, k>> \notin abandoned'
               PROVE  \E v \in Workers : worker'[v].pc \notin {"idle", "claim"} /\ On(v, e, k)'
    BY DEF StartedHasTask, tables, Working
  <2>1. PICK v \in Workers : Working(v) /\ On(v, e, k)
    BY DEF DocumentInv, StartedHasTask
  <2>2. v # w
    BY <2>1 DEF Working, On
  <2> QED
    BY <1>1, <2>1, <2>2 DEF Working, On
<1>5. PendingIsAwaited'
  <2> SUFFICES ASSUME NEW e \in Documents, NEW k \in Kinds,
                      status[e][k] = "pending", <<e, k>> \notin abandoned',
                      request[e] # "unavailable"
               PROVE  \/ request[e] = "queueSummary"
                      \/ request[e] = "queueEmbedding" /\ k = "embedding"
                      \/ <<e, k>> \in queue'
                      \/ \E v \in Workers : worker'[v].pc = "claim" /\ On(v, e, k)'
    BY DEF PendingIsAwaited, tables
  <2>1. \/ request[e] = "queueSummary"
        \/ request[e] = "queueEmbedding" /\ k = "embedding"
        \/ <<e, k>> \in queue
        \/ \E v \in Workers : worker[v].pc = "claim" /\ On(v, e, k)
    BY DEF DocumentInv, PendingIsAwaited
  <2>2. ASSUME NEW v \in Workers, worker[v].pc = "claim", On(v, e, k)
        PROVE  <<e, k>> \in queue' \/ (worker'[v].pc = "claim" /\ On(v, e, k)')
    BY <1>1, <2>2 DEF On
  <2> QED
    BY <2>1, <2>2
<1>6. UnqueuedIsQuiet'
  BY <1>1, QuietStays
<1> QED
  BY <1>2, <1>3, <1>4, <1>5, <1>6 DEF DocumentInv

LEMMA FaultsFit ==
  ASSUME DocumentInv, NEW lost, lost \subseteq Jobs, Fault(lost)
  PROVE  /\ faults' \in 0..MaxFaults /\ view' = view /\ retries' = retries
         /\ abandoned' = abandoned \cup lost /\ abandoned' \subseteq Jobs
BY DocumentAssumption DEF Fault, DocumentInv, DocumentTypeOK

LEMMA CommitUncertainInv ==
  ASSUME DocumentInv, NEW d \in Documents, CommitUncertain(d)
  PROVE  DocumentInv'
<1>1. /\ request[d] = "stored" /\ request' = [request EXCEPT ![d] = "refused"]
      /\ file' = file \ {d} /\ ProjectSaved(d) /\ Fault({d} \X Kinds)
      /\ UNCHANGED <<lock, queue, worker, unsure>>
  BY DEF CommitUncertain, Refuse
<1>2. {d} \X Kinds \subseteq Jobs
  BY DEF Jobs
<1>3. /\ faults' \in 0..MaxFaults /\ view' = view /\ retries' = retries
      /\ abandoned' = abandoned \cup ({d} \X Kinds) /\ abandoned' \subseteq Jobs
  BY <1>1, <1>2, FaultsFit
<1>4. \A kind \in Kinds : <<d, kind>> \in abandoned'
  BY <1>3
<1> QED
  BY <1>1, <1>3, <1>4, ProjectSavedInv

LEMMA LocksFit ==
  ASSUME DocumentInv, NEW w \in Workers
  PROVE  Unlocked(w) \in [Documents -> Workers \cup {None}]
BY DEF DocumentInv, DocumentTypeOK, Unlocked

LEMMA WorkerCrashesInv ==
  ASSUME DocumentInv, NEW w \in Workers, WorkerCrashes(w)
  PROVE  DocumentInv'
<1> DEFINE job == <<worker[w].document, worker[w].kind>>
           lost == IF worker[w].pc = "claim" THEN {} ELSE {job}
<1>1. /\ worker[w].pc # "idle" /\ worker' = [worker EXCEPT ![w] = Idle]
      /\ Fault(lost) /\ queue' = queue \cup {job} /\ lock' = Unlocked(w)
      /\ UNCHANGED <<request, file, tables, unsure>>
  BY DEF WorkerCrashes
<1>2. job \in Jobs
  BY <1>1 DEF DocumentInv, TasksHoldJobs, Jobs
<1>3. /\ faults' \in 0..MaxFaults /\ UNCHANGED <<view, retries>>
      /\ abandoned' = abandoned \cup lost /\ abandoned' \subseteq Jobs
  BY <1>1, <1>2, FaultsFit
<1>4. queue' \subseteq Jobs
  BY <1>1, <1>2 DEF DocumentInv, DocumentTypeOK
<1>5. job \in abandoned' \/ (worker[w].pc = "claim" /\ job \in queue')
  BY <1>1, <1>3
<1> QED
  BY <1>1, <1>3, <1>4, <1>5, LocksFit, DroppedInv

LEMMA TaskLostInv ==
  ASSUME DocumentInv, NEW w \in Workers, TaskLost(w)
  PROVE  DocumentInv'
<1> DEFINE job == <<worker[w].document, worker[w].kind>>
<1>1. /\ worker[w].pc # "idle" /\ worker' = [worker EXCEPT ![w] = Idle]
      /\ Fault({job}) /\ UNCHANGED <<request, file, tables, lock, queue, unsure>>
  BY DEF TaskLost
<1>2. job \in Jobs
  BY <1>1 DEF DocumentInv, TasksHoldJobs, Jobs
<1>3. /\ faults' \in 0..MaxFaults /\ UNCHANGED <<view, retries>>
      /\ abandoned' = abandoned \cup {job} /\ abandoned' \subseteq Jobs
  BY <1>1, <1>2, FaultsFit
<1>4. queue' \subseteq Jobs /\ lock' \in [Documents -> Workers \cup {None}]
  BY <1>1 DEF DocumentInv, DocumentTypeOK
<1> QED
  BY <1>1, <1>3, <1>4, DroppedInv

-----------------------------------------------------------------------------
(* Tasks at work.                                                          *)

(* A task that goes on with its job, or gives it up to be recorded as      *)
(* failed, with the tables as they are.                                    *)
LEMMA GoesOnInv ==
  ASSUME DocumentInv, NEW w \in Workers,
         Working(w), worker[w].pc # "failing",
         NEW t \in Task, worker' = [worker EXCEPT ![w] = t],
         t.document = worker[w].document, t.kind = worker[w].kind,
         t.pc \notin {"idle", "claim"}, t.pc = "lock" => t.kind = "embedding",
         UNCHANGED <<request, file, tables, queue, rest>>,
         lock' \in [Documents -> Workers \cup {None}]
  PROVE  DocumentInv'
<1>1. worker'[w] = t /\ \A v \in Workers \ {w} : worker'[v] = worker[v]
  BY DEF DocumentInv, DocumentTypeOK
<1>2. /\ worker[w].document \in Documents /\ worker[w].kind \in Kinds
      /\ status[worker[w].document][worker[w].kind] = "started"
  BY DEF DocumentInv, TasksHoldJobs, Working
<1>3. DocumentTypeOK'
  BY DEF DocumentInv, DocumentTypeOK, tables, rest
<1>4. TasksHoldJobs'
  <2> SUFFICES ASSUME NEW v \in Workers
               PROVE  /\ worker'[v].pc # "idle" =>
                           worker'[v].document \in Documents /\ worker'[v].kind \in Kinds
                      /\ worker'[v].pc = "lock" => worker'[v].kind = "embedding"
                      /\ worker'[v].pc \notin {"idle", "claim"} =>
                           LET d == worker'[v].document  kind == worker'[v].kind IN
                             \/ status[d][kind] = "started"
                             \/ /\ status[d][kind] = "completed"
                                /\ worker'[v].pc = "failing"
                                /\ <<d, kind>> \in unsure
    BY DEF TasksHoldJobs, Working, tables, rest
  <2>1. CASE v = w
    BY <1>1, <1>2, <2>1
  <2>2. CASE v # w
    BY <1>1, <2>2 DEF DocumentInv, TasksHoldJobs, Working
  <2> QED
    BY <2>1, <2>2
<1>5. OneTaskPerJob'
  BY <1>1 DEF DocumentInv, OneTaskPerJob, Working
<1>6. RowsFollowRequest' /\ ContentTold' /\ ViewsHold'
  BY DEF DocumentInv, RowsFollowRequest, ContentTold, ViewsHold, Exists, tables, rest
<1>7. StartedHasTask'
  BY <1>1 DEF DocumentInv, StartedHasTask, Working, On, tables, rest
<1>8. PendingIsAwaited'
  BY <1>1 DEF DocumentInv, PendingIsAwaited, Working, On, tables, rest
<1>9. UnqueuedIsQuiet'
  BY <1>1, QuietStays DEF Working
<1> QED
  BY <1>3, <1>4, <1>5, <1>6, <1>7, <1>8, <1>9 DEF DocumentInv

LEMMA GotoStepInv ==
  ASSUME DocumentInv, NEW w \in Workers, NEW pc \in {"lock", "waiting", "save", "failing"},
         worker[w].pc \in {"read", "lock", "waiting", "save"},
         Goto(w, pc),
         pc = "lock" => worker[w].kind = "embedding",
         UNCHANGED <<request, file, tables, queue, rest>>,
         lock' \in [Documents -> Workers \cup {None}]
  PROVE  DocumentInv'
<1>1. worker[w] \in Task
  BY DEF DocumentInv, DocumentTypeOK
<1> DEFINE t == [worker[w] EXCEPT !.pc = pc]
<1>2. /\ t \in Task /\ t.document = worker[w].document /\ t.kind = worker[w].kind
      /\ t.pc = pc
  BY <1>1 DEF Task
<1>3. worker' = [worker EXCEPT ![w] = t]
  BY DEF Goto
<1> HIDE DEF t
<1> QED
  BY <1>2, <1>3, GoesOnInv DEF Working

LEMMA ReadDocumentInv ==
  ASSUME DocumentInv, NEW w \in Workers, ReadDocument(w)
  PROVE  DocumentInv'
<1>1. /\ worker[w].pc = "read" /\ UNCHANGED <<request, file, tables, queue, rest>>
      /\ lock' \in [Documents -> Workers \cup {None}]
  BY DEF ReadDocument, Calm, DocumentInv, DocumentTypeOK
<1>2. CASE Goto(w, IF worker[w].kind = "summary" THEN "waiting" ELSE "lock")
  <2>1. worker[w].kind \in Kinds
    BY <1>1 DEF DocumentInv, TasksHoldJobs
  <2>2. PICK pc \in {"lock", "waiting"} : Goto(w, pc) /\ (pc = "lock" => worker[w].kind = "embedding")
    BY <1>2, <2>1 DEF Kinds
  <2> QED
    BY <1>1, <2>2, GotoStepInv
<1>3. CASE worker' = [worker EXCEPT ![w].pc = "failing", ![w].unread = ~UploadsShared]
  <2> DEFINE t == [worker[w] EXCEPT !.pc = "failing", !.unread = ~UploadsShared]
  <2>1. worker' = [worker EXCEPT ![w] = t]
    BY <1>3 DEF DocumentInv, DocumentTypeOK
  <2>2. worker[w] \in Task /\ (~UploadsShared) \in BOOLEAN
    BY DEF DocumentInv, DocumentTypeOK
  <2>3. /\ t \in Task /\ t.document = worker[w].document /\ t.kind = worker[w].kind
        /\ t.pc = "failing"
    BY <2>2 DEF Task
  <2> HIDE DEF t
  <2> QED
    BY <1>1, <2>1, <2>3, GoesOnInv DEF Working
<1> QED
  BY <1>2, <1>3 DEF ReadDocument

LEMMA LockDocumentInv ==
  ASSUME DocumentInv, NEW w \in Workers, LockDocument(w)
  PROVE  DocumentInv'
<1>1. /\ worker[w].pc = "lock" /\ UNCHANGED <<request, file, tables, queue, rest>>
      /\ lock' = [lock EXCEPT ![worker[w].document] = w] /\ Goto(w, "waiting")
  BY DEF LockDocument, Calm
<1>2. lock' \in [Documents -> Workers \cup {None}]
  BY <1>1 DEF DocumentInv, DocumentTypeOK
<1> QED
  BY <1>1, <1>2, GotoStepInv

LEMMA WaitingInv ==
  ASSUME DocumentInv, NEW w \in Workers,
         ModelAnswers(w) \/ VectorsArrive(w) \/ WaitFails(w) \/ SaveRaises(w)
  PROVE  DocumentInv'
<1>1. /\ worker[w].pc \in {"waiting", "save"}
      /\ UNCHANGED <<request, file, tables, queue, rest>>
      /\ lock' = lock \/ lock' = Unlocked(w)
  BY DEF ModelAnswers, VectorsArrive, WaitFails, SaveRaises, Calm
<1>2. PICK pc \in {"save", "failing"} : Goto(w, pc)
  BY DEF ModelAnswers, VectorsArrive, WaitFails, SaveRaises
<1>3. lock' \in [Documents -> Workers \cup {None}]
  BY <1>1, LocksFit DEF DocumentInv, DocumentTypeOK
<1> QED
  BY <1>1, <1>2, <1>3, GotoStepInv

-----------------------------------------------------------------------------
(* Tasks that write the status of their job.                               *)

LEMMA StatusSet ==
  ASSUME DocumentInv, NEW d \in Documents, NEW kind \in Kinds, NEW new \in JobStatuses,
         SetStatus(d, kind, new)
  PROVE  /\ status' \in [Documents -> [summary : JobStatuses \cup {"absent"},
                                       embedding : JobStatuses \cup {"absent"}]]
         /\ status'[d][kind] = new
         /\ \A e \in Documents : \A k \in Kinds :
              e # d \/ k # kind => status'[e][k] = status[e][k]
BY DEF DocumentInv, DocumentTypeOK, SetStatus, Kinds

(* What every such step keeps: w is the only task at work on the job, and  *)
(* leaves it or goes on with it.                                           *)
LEMMA JobStep ==
  ASSUME DocumentInv, NEW w \in Workers, NEW d \in Documents, NEW kind \in Kinds,
         NEW new \in JobStatuses \ {"pending"}, NEW t \in Task,
         worker[w].pc # "idle", On(w, d, kind),
         status[d][kind] # "absent",
         \A v \in Workers \ {w} : ~(Working(v) /\ On(v, d, kind)),
         SetStatus(d, kind, new),
         worker' = [worker EXCEPT ![w] = t],
         \/ t.pc = "idle" /\ new # "started"
         \/ /\ t.pc \in {"read", "failing"} /\ t.document = d /\ t.kind = kind
            /\ \/ new = "started"
               \/ new = "completed" /\ t.pc = "failing" /\ <<d, kind>> \in unsure',
         UNCHANGED <<request, file, queue, view, retries, abandoned>>,
         unsure \subseteq unsure', unsure' \subseteq Jobs,
         faults' \in 0..MaxFaults,
         lock' \in [Documents -> Workers \cup {None}],
         summaries' \in [Documents -> Nat], generations' \in [Documents -> Nat],
         active' \in [Documents -> SUBSET Nat],
         \A e \in Documents \ {d} : /\ summaries'[e] = summaries[e]
                                    /\ generations'[e] = generations[e]
  PROVE  /\ DocumentTypeOK' /\ TasksHoldJobs' /\ OneTaskPerJob' /\ RowsFollowRequest'
         /\ UnqueuedIsQuiet' /\ StartedHasTask' /\ PendingIsAwaited'
<1>1. worker'[w] = t /\ \A v \in Workers \ {w} : worker'[v] = worker[v]
  BY DEF DocumentInv, DocumentTypeOK
<1>2. /\ status' \in [Documents -> [summary : JobStatuses \cup {"absent"},
                                    embedding : JobStatuses \cup {"absent"}]]
      /\ status'[d][kind] = new
      /\ \A e \in Documents : \A k \in Kinds :
           e # d \/ k # kind => status'[e][k] = status[e][k]
  BY StatusSet
<1>3. DocumentTypeOK'
  BY <1>2 DEF DocumentInv, DocumentTypeOK
<1>4. TasksHoldJobs'
  <2> SUFFICES ASSUME NEW v \in Workers
               PROVE  /\ worker'[v].pc # "idle" =>
                           worker'[v].document \in Documents /\ worker'[v].kind \in Kinds
                      /\ worker'[v].pc = "lock" => worker'[v].kind = "embedding"
                      /\ worker'[v].pc \notin {"idle", "claim"} =>
                           LET e == worker'[v].document  k == worker'[v].kind IN
                             \/ status'[e][k] = "started"
                             \/ /\ status'[e][k] = "completed"
                                /\ worker'[v].pc = "failing"
                                /\ <<e, k>> \in unsure'
    BY DEF TasksHoldJobs, Working
  <2>1. CASE v = w
    BY <1>1, <1>2, <2>1
  <2>2. CASE v # w
    <3>1. worker'[v] = worker[v]
      BY <1>1, <2>2
    <3>2. worker[v].pc \notin {"idle", "claim"} =>
            /\ worker[v].document \in Documents /\ worker[v].kind \in Kinds
            /\ status'[worker[v].document][worker[v].kind]
                 = status[worker[v].document][worker[v].kind]
      <4> SUFFICES ASSUME Working(v)
                   PROVE  /\ worker[v].document \in Documents /\ worker[v].kind \in Kinds
                          /\ status'[worker[v].document][worker[v].kind]
                               = status[worker[v].document][worker[v].kind]
        BY DEF Working
      <4>1. worker[v].document \in Documents /\ worker[v].kind \in Kinds
        BY DEF DocumentInv, TasksHoldJobs, Working
      <4>2. worker[v].document # d \/ worker[v].kind # kind
        BY <2>2 DEF On
      <4> QED
        BY <1>2, <4>1, <4>2
    <3> QED
      BY <3>1, <3>2 DEF DocumentInv, TasksHoldJobs, Working
  <2> QED
    BY <2>1, <2>2
<1>5. OneTaskPerJob'
  BY <1>1 DEF DocumentInv, OneTaskPerJob, Working, On
<1>6. RowsFollowRequest'
  <2>1. /\ request[d] \notin {"none", "stored", "refused"}
        /\ \A k \in Kinds : status[d][k] \in JobStatuses
    BY DEF DocumentInv, RowsFollowRequest, UnqueuedIsQuiet, Unqueued, On
  <2>2. \A k \in Kinds : status'[d][k] \in JobStatuses
    BY <1>2, <2>1
  <2>3. \A e \in Documents \ {d} :
          /\ Exists(e)' <=> Exists(e)
          /\ \A k \in Kinds : status'[e][k] = status[e][k]
    BY <1>2 DEF Exists, Kinds
  <2>4. Exists(d)'
    BY <2>2 DEF Exists, Kinds, JobStatuses
  <2> QED
    BY <2>1, <2>2, <2>3, <2>4 DEF DocumentInv, RowsFollowRequest
<1>7. StartedHasTask'
  <2> SUFFICES ASSUME NEW e \in Documents, NEW k \in Kinds,
                      status'[e][k] = "started", <<e, k>> \notin abandoned
               PROVE  \E v \in Workers : worker'[v].pc \notin {"idle", "claim"} /\ On(v, e, k)'
    BY DEF StartedHasTask, Working
  <2>1. CASE e = d /\ k = kind
    BY <1>1, <1>2, <2>1 DEF On
  <2>2. CASE e # d \/ k # kind
    <3>1. PICK v \in Workers : Working(v) /\ On(v, e, k)
      BY <1>2, <2>2 DEF DocumentInv, StartedHasTask
    <3>2. v # w
      BY <3>1, <2>2 DEF On
    <3> QED
      BY <1>1, <3>1, <3>2 DEF Working, On
  <2> QED
    BY <2>1, <2>2
<1>8. PendingIsAwaited'
  <2> SUFFICES ASSUME NEW e \in Documents, NEW k \in Kinds,
                      status'[e][k] = "pending", <<e, k>> \notin abandoned,
                      request[e] # "unavailable"
               PROVE  \/ request[e] = "queueSummary"
                      \/ request[e] = "queueEmbedding" /\ k = "embedding"
                      \/ <<e, k>> \in queue
                      \/ \E v \in Workers : worker'[v].pc = "claim" /\ On(v, e, k)'
    BY DEF PendingIsAwaited
  <2>1. e # d \/ k # kind
    BY <1>2
  <2>2. \/ request[e] = "queueSummary"
        \/ request[e] = "queueEmbedding" /\ k = "embedding"
        \/ <<e, k>> \in queue
        \/ \E v \in Workers : worker[v].pc = "claim" /\ On(v, e, k)
    BY <1>2, <2>1 DEF DocumentInv, PendingIsAwaited
  <2>3. ASSUME NEW v \in Workers, worker[v].pc = "claim", On(v, e, k)
        PROVE  worker'[v].pc = "claim" /\ On(v, e, k)'
    BY <1>1, <2>1, <2>3 DEF On
  <2> QED
    BY <2>2, <2>3
<1>9. UnqueuedIsQuiet'
  BY <1>1, QuietStays DEF On
<1> QED
  BY <1>3, <1>4, <1>5, <1>6, <1>7, <1>8, <1>9

(* A task at work is alone with its job.                                   *)
LEMMA WorkingAlone ==
  ASSUME DocumentInv, NEW w \in Workers, Working(w)
  PROVE  LET d == worker[w].document  kind == worker[w].kind IN
           /\ d \in Documents /\ kind \in Kinds /\ On(w, d, kind)
           /\ status[d][kind] # "absent"
           /\ \/ status[d][kind] = "started"
              \/ status[d][kind] = "completed" /\ <<d, kind>> \in unsure
           /\ \A v \in Workers \ {w} : ~(Working(v) /\ On(v, d, kind))
BY DEF DocumentInv, TasksHoldJobs, OneTaskPerJob, Working, On

LEMMA ClaimJobInv ==
  ASSUME DocumentInv, NEW w \in Workers, ClaimJob(w)
  PROVE  DocumentInv'
<1> DEFINE d == worker[w].document
           kind == worker[w].kind
<1>1. /\ worker[w].pc = "claim" /\ d \in Documents /\ kind \in Kinds /\ On(w, d, kind)
      /\ UNCHANGED <<request, file, queue, view, faults, retries, abandoned, unsure,
                     summaries, generations, active, lock>>
  BY DEF ClaimJob, Calm, rest, DocumentInv, TasksHoldJobs, On
<1>2. CASE Claimable(d, kind)
  <2>1. SetStatus(d, kind, "started") /\ Goto(w, "read")
    BY <1>2 DEF ClaimJob
  <2> DEFINE t == [worker[w] EXCEPT !.pc = "read"]
  <2>2. worker' = [worker EXCEPT ![w] = t]
    BY <2>1 DEF Goto
  <2>3. t \in Task /\ t.pc = "read" /\ t.document = d /\ t.kind = kind
    BY DEF DocumentInv, DocumentTypeOK, Task
  <2>4. status[d][kind] # "absent" /\ status[d][kind] # "started"
        /\ status[d][kind] # "completed"
    BY <1>2 DEF Claimable
  <2>5. \A v \in Workers \ {w} : ~(Working(v) /\ On(v, d, kind))
    BY <2>4 DEF DocumentInv, TasksHoldJobs, On
  <2> HIDE DEF t, d, kind
  <2>6. "started" \in JobStatuses \ {"pending"}
    BY DEF JobStatuses
  <2>7. /\ DocumentTypeOK' /\ TasksHoldJobs' /\ OneTaskPerJob' /\ RowsFollowRequest'
        /\ UnqueuedIsQuiet' /\ StartedHasTask' /\ PendingIsAwaited'
    BY <1>1, <2>1, <2>2, <2>3, <2>4, <2>5, <2>6, JobStep
       DEF DocumentInv, DocumentTypeOK
  <2>8. /\ status'[d][kind] = "started"
        /\ \A e \in Documents : \A k \in Kinds :
             e # d \/ k # kind => status'[e][k] = status[e][k]
    BY <1>1, <2>1, <2>6, StatusSet
  <2>9. ContentTold'
    BY <1>1, <2>4, <2>8 DEF DocumentInv, ContentTold, Kinds
  <2>10. ViewsHold'
    BY <1>1, <2>4, <2>8 DEF DocumentInv, ViewsHold, Exists, Kinds
  <2> QED
    BY <2>7, <2>9, <2>10 DEF DocumentInv
<1>3. CASE ~Claimable(d, kind)
  <2>1. worker' = [worker EXCEPT ![w] = Idle] /\ status' = status
    BY <1>3 DEF ClaimJob
  <2>2. /\ worker'[w] = Idle /\ worker'[w].pc = "idle"
        /\ \A v \in Workers \ {w} : worker'[v] = worker[v]
    BY <2>1 DEF DocumentInv, DocumentTypeOK, Idle
  <2>3. DocumentTypeOK'
    BY <1>1, <2>1 DEF DocumentInv, DocumentTypeOK, Task, Idle
  <2>4. TasksHoldJobs' /\ OneTaskPerJob' /\ RowsFollowRequest' /\ ContentTold' /\ ViewsHold'
    BY <1>1, <2>1, <2>2, HandsChange DEF tables
  <2>5. StartedHasTask'
    BY <1>1, <2>1, <2>2 DEF DocumentInv, StartedHasTask, Working, On
  <2>6. status[d][kind] # "pending"
    BY <1>3 DEF Claimable
  <2>7. PendingIsAwaited'
    BY <1>1, <2>1, <2>2, <2>6 DEF DocumentInv, PendingIsAwaited, On
  <2>8. UnqueuedIsQuiet'
    BY <1>1, <2>2, QuietStays
  <2> QED
    BY <2>3, <2>4, <2>5, <2>7, <2>8 DEF DocumentInv
<1> QED
  BY <1>2, <1>3

LEMMA RecordFailureInv ==
  ASSUME DocumentInv, NEW w \in Workers, RecordFailure(w)
  PROVE  DocumentInv'
<1> DEFINE d == worker[w].document
           kind == worker[w].kind
<1>1. /\ worker[w].pc = "failing" /\ SetStatus(d, kind, "failed")
      /\ worker' = [worker EXCEPT ![w] = Idle]
      /\ UNCHANGED <<request, file, queue, view, faults, retries, abandoned, unsure,
                     summaries, generations, active, lock>>
  BY DEF RecordFailure, Calm, rest
<1>2. /\ d \in Documents /\ kind \in Kinds /\ On(w, d, kind)
      /\ status[d][kind] # "absent"
      /\ status[d][kind] = "started" \/ <<d, kind>> \in unsure
      /\ \A v \in Workers \ {w} : ~(Working(v) /\ On(v, d, kind))
  BY <1>1, WorkingAlone DEF Working
<1>3. Idle \in Task /\ Idle.pc = "idle" /\ "failed" \in JobStatuses \ {"pending"}
  BY DEF Idle, Task, JobStatuses
<1> HIDE DEF d, kind
<1>4. /\ DocumentTypeOK' /\ TasksHoldJobs' /\ OneTaskPerJob' /\ RowsFollowRequest'
      /\ UnqueuedIsQuiet' /\ StartedHasTask' /\ PendingIsAwaited'
  BY <1>1, <1>2, <1>3, JobStep DEF DocumentInv, DocumentTypeOK
<1>5. /\ status'[d][kind] = "failed"
      /\ \A e \in Documents : \A k \in Kinds :
           e # d \/ k # kind => status'[e][k] = status[e][k]
  BY <1>1, <1>2, <1>3, StatusSet
<1>6. ContentTold'
  <2>1. \A e \in Documents :
          /\ status'[e].summary = status[e].summary
               \/ (status'[e].summary = "failed" /\
                   (status[e].summary = "started" \/ <<e, "summary">> \in unsure))
          /\ status'[e].embedding = status[e].embedding
               \/ (status'[e].embedding = "failed" /\
                   (status[e].embedding = "started" \/ <<e, "embedding">> \in unsure))
    BY <1>2, <1>5 DEF Kinds
  <2>2. \A e \in Documents : summaries[e] \in Nat
    BY DEF DocumentInv, DocumentTypeOK
  <2> SUFFICES ASSUME NEW e \in Documents
               PROVE  /\ LET n == IF status'[e].summary = "completed" THEN 1 ELSE 0 IN
                           IF <<e, "summary">> \in unsure THEN summaries[e] >= n
                                                          ELSE summaries[e] = n
                      /\ active[e] = {} \/ (active[e] = {generations[e]} /\ generations[e] > 0)
                      /\ status'[e].embedding = "completed" => active[e] # {}
                      /\ active[e] # {} =>
                           status'[e].embedding = "completed" \/ <<e, "embedding">> \in unsure
    BY <1>1 DEF ContentTold
  <2>3. /\ LET n == IF status[e].summary = "completed" THEN 1 ELSE 0 IN
             IF <<e, "summary">> \in unsure THEN summaries[e] >= n
                                            ELSE summaries[e] = n
        /\ active[e] = {} \/ (active[e] = {generations[e]} /\ generations[e] > 0)
        /\ status[e].embedding = "completed" => active[e] # {}
        /\ active[e] # {} =>
             status[e].embedding = "completed" \/ <<e, "embedding">> \in unsure
    BY DEF DocumentInv, ContentTold
  <2> QED
    BY <2>1, <2>2, <2>3
<1>7. ViewsHold'
  BY <1>1, <1>2, <1>5 DEF DocumentInv, ViewsHold, Exists, Kinds
<1> QED
  BY <1>4, <1>6, <1>7 DEF DocumentInv

(* A task that has something to save finds its job started.                *)
LEMMA SaverHasStarted ==
  ASSUME DocumentInv, NEW w \in Workers, worker[w].pc = "save"
  PROVE  LET d == worker[w].document  kind == worker[w].kind IN
           /\ d \in Documents /\ kind \in Kinds /\ On(w, d, kind)
           /\ status[d][kind] = "started"
           /\ \A v \in Workers \ {w} : ~(Working(v) /\ On(v, d, kind))
BY WorkingAlone DEF DocumentInv, TasksHoldJobs, Working

LEMMA SummarySaved ==
  ASSUME DocumentInv, NEW d \in Documents, SavedSummary(d),
         status[d].summary = "started", view' = view, unsure \subseteq unsure',
         unsure' \subseteq unsure \cup {<<d, "summary">>}
  PROVE  /\ ContentTold' /\ ViewsHold'
         /\ summaries' \in [Documents -> Nat] /\ generations' \in [Documents -> Nat]
         /\ active' \in [Documents -> SUBSET Nat]
         /\ \A e \in Documents \ {d} : /\ summaries'[e] = summaries[e]
                                       /\ generations'[e] = generations[e]
<1>1. /\ SetStatus(d, "summary", "completed")
      /\ summaries' = [summaries EXCEPT ![d] = summaries[d] + 1]
      /\ UNCHANGED <<generations, active>>
  BY DEF SavedSummary
<1>2. /\ status'[d].summary = "completed"
      /\ status'[d].embedding = status[d].embedding
      /\ \A e \in Documents \ {d} : /\ status'[e].summary = status[e].summary
                                    /\ status'[e].embedding = status[e].embedding
  BY <1>1, StatusSet DEF Kinds, JobStatuses
<1>3. /\ summaries \in [Documents -> Nat] /\ summaries'[d] = summaries[d] + 1
      /\ \A e \in Documents \ {d} : summaries'[e] = summaries[e]
  BY <1>1 DEF DocumentInv, DocumentTypeOK
<1>4. \A e \in Documents, k \in Kinds : e # d \/ k = "embedding" =>
        (<<e, k>> \in unsure' <=> <<e, k>> \in unsure)
  BY DEF Kinds
<1>5. ContentTold'
  <2> SUFFICES ASSUME NEW e \in Documents
               PROVE  /\ LET n == IF status'[e].summary = "completed" THEN 1 ELSE 0 IN
                           IF <<e, "summary">> \in unsure' THEN summaries'[e] >= n
                                                           ELSE summaries'[e] = n
                      /\ active[e] = {} \/ (active[e] = {generations[e]} /\ generations[e] > 0)
                      /\ status'[e].embedding = "completed" => active[e] # {}
                      /\ active[e] # {} =>
                           status'[e].embedding = "completed" \/ <<e, "embedding">> \in unsure'
    BY <1>1 DEF ContentTold
  <2>1. /\ LET n == IF status[e].summary = "completed" THEN 1 ELSE 0 IN
             IF <<e, "summary">> \in unsure THEN summaries[e] >= n
                                            ELSE summaries[e] = n
        /\ active[e] = {} \/ (active[e] = {generations[e]} /\ generations[e] > 0)
        /\ status[e].embedding = "completed" => active[e] # {}
        /\ active[e] # {} =>
             status[e].embedding = "completed" \/ <<e, "embedding">> \in unsure
    BY DEF DocumentInv, ContentTold
  <2>2. CASE e = d
    BY <1>2, <1>3, <2>1, <2>2
  <2>3. CASE e # d
    BY <1>2, <1>3, <1>4, <2>1, <2>3 DEF Kinds
  <2> QED
    BY <2>2, <2>3
<1>6. ViewsHold'
  BY <1>2 DEF DocumentInv, ViewsHold, Exists
<1> QED
  BY <1>1, <1>3, <1>5, <1>6 DEF DocumentInv, DocumentTypeOK

LEMMA IndexSaved ==
  ASSUME DocumentInv, NEW d \in Documents, SavedIndex(d),
         status[d].embedding = "started", view' = view, unsure \subseteq unsure',
         unsure' \subseteq unsure \cup {<<d, "embedding">>}
  PROVE  /\ ContentTold' /\ ViewsHold'
         /\ summaries' \in [Documents -> Nat] /\ generations' \in [Documents -> Nat]
         /\ active' \in [Documents -> SUBSET Nat]
         /\ \A e \in Documents \ {d} : /\ summaries'[e] = summaries[e]
                                       /\ generations'[e] = generations[e]
<1>1. /\ SetStatus(d, "embedding", "completed")
      /\ generations' = [generations EXCEPT ![d] = generations[d] + 1]
      /\ active' = [active EXCEPT ![d] = {generations[d] + 1}]
      /\ UNCHANGED summaries
  BY DEF SavedIndex, SwitchedTo
<1>2. /\ status'[d].embedding = "completed"
      /\ status'[d].summary = status[d].summary
      /\ \A e \in Documents \ {d} : /\ status'[e].summary = status[e].summary
                                    /\ status'[e].embedding = status[e].embedding
  BY <1>1, StatusSet DEF Kinds, JobStatuses
<1>3. /\ generations' \in [Documents -> Nat] /\ active' \in [Documents -> SUBSET Nat]
      /\ generations[d] \in Nat /\ generations'[d] = generations[d] + 1
      /\ active'[d] = {generations[d] + 1}
      /\ \A e \in Documents \ {d} : generations'[e] = generations[e] /\ active'[e] = active[e]
  BY <1>1 DEF DocumentInv, DocumentTypeOK
<1>4. \A e \in Documents, k \in Kinds : e # d \/ k = "summary" =>
        (<<e, k>> \in unsure' <=> <<e, k>> \in unsure)
  BY DEF Kinds
<1>5. ContentTold'
  <2> SUFFICES ASSUME NEW e \in Documents
               PROVE  /\ LET n == IF status'[e].summary = "completed" THEN 1 ELSE 0 IN
                           IF <<e, "summary">> \in unsure' THEN summaries[e] >= n
                                                           ELSE summaries[e] = n
                      /\ active'[e] = {} \/ (active'[e] = {generations'[e]} /\ generations'[e] > 0)
                      /\ status'[e].embedding = "completed" => active'[e] # {}
                      /\ active'[e] # {} =>
                           status'[e].embedding = "completed" \/ <<e, "embedding">> \in unsure'
    BY <1>1 DEF ContentTold
  <2>1. /\ LET n == IF status[e].summary = "completed" THEN 1 ELSE 0 IN
             IF <<e, "summary">> \in unsure THEN summaries[e] >= n
                                            ELSE summaries[e] = n
        /\ active[e] = {} \/ (active[e] = {generations[e]} /\ generations[e] > 0)
        /\ status[e].embedding = "completed" => active[e] # {}
        /\ active[e] # {} =>
             status[e].embedding = "completed" \/ <<e, "embedding">> \in unsure
    BY DEF DocumentInv, ContentTold
  <2>2. CASE e = d
    BY <1>2, <1>3, <1>4, <2>1, <2>2 DEF Kinds
  <2>3. CASE e # d
    BY <1>2, <1>3, <1>4, <2>1, <2>3 DEF Kinds
  <2> QED
    BY <2>2, <2>3
<1>6. ViewsHold'
  BY <1>2 DEF DocumentInv, ViewsHold, Exists
<1> QED
  BY <1>1, <1>3, <1>5, <1>6 DEF DocumentInv, DocumentTypeOK

LEMMA SavingInv ==
  ASSUME DocumentInv, NEW w \in Workers,
         SaveSummary(w) \/ SaveIndex(w) \/ SaveUncertain(w)
  PROVE  DocumentInv'
<1> DEFINE d == worker[w].document
           kind == worker[w].kind
           jobs == {<<d, kind>>}
<1>1. /\ worker[w].pc = "save"
      /\ lock' = lock \/ lock' = Unlocked(w)
      /\ UNCHANGED <<request, file, queue, view, retries>>
  BY DEF SaveSummary, SaveIndex, SaveUncertain, Calm, rest, Fault
<1>2. /\ d \in Documents /\ kind \in Kinds /\ On(w, d, kind)
      /\ status[d][kind] = "started"
      /\ \A v \in Workers \ {w} : ~(Working(v) /\ On(v, d, kind))
  BY <1>1, SaverHasStarted
<1>3. \/ kind = "summary" /\ SavedSummary(d)
      \/ kind = "embedding" /\ SavedIndex(d)
  BY <1>2 DEF SaveSummary, SaveIndex, SaveUncertain, Kinds
<1>4. /\ abandoned' = abandoned /\ faults' \in 0..MaxFaults
      /\ unsure \subseteq unsure' /\ unsure' \subseteq unsure \cup jobs
      /\ unsure' \subseteq Jobs
  <2>1. CASE SaveSummary(w) \/ SaveIndex(w)
    BY <2>1 DEF SaveSummary, SaveIndex, Calm, rest, DocumentInv, DocumentTypeOK
  <2>2. CASE SaveUncertain(w)
    <3>1. Fault({}) /\ unsure' = unsure \cup jobs
      BY <2>2 DEF SaveUncertain
    <3>2. faults' \in 0..MaxFaults /\ abandoned' = abandoned
      BY <3>1, FaultsFit
    <3>3. <<d, kind>> \in Jobs
      BY <1>2 DEF Jobs
    <3> QED
      BY <3>1, <3>2, <3>3 DEF DocumentInv, DocumentTypeOK
  <2> QED
    BY <2>1, <2>2
<1>5. PICK t \in Task :
        /\ worker' = [worker EXCEPT ![w] = t]
        /\ \/ t.pc = "idle"
           \/ /\ t.pc = "failing" /\ t.document = d /\ t.kind = kind
              /\ <<d, kind>> \in unsure'
  <2>1. CASE SaveSummary(w) \/ SaveIndex(w)
    <3>1. Idle \in Task /\ Idle.pc = "idle"
      BY DEF Idle, Task
    <3> QED
      BY <2>1, <3>1 DEF SaveSummary, SaveIndex
  <2>2. CASE SaveUncertain(w)
    <3> DEFINE u == [worker[w] EXCEPT !.pc = "failing"]
    <3>1. u \in Task /\ u.pc = "failing" /\ u.document = d /\ u.kind = kind
      BY DEF DocumentInv, DocumentTypeOK, Task
    <3>2. worker' = [worker EXCEPT ![w] = u]
      BY <2>2 DEF SaveUncertain, Goto
    <3>3. <<d, kind>> \in unsure'
      BY <2>2 DEF SaveUncertain
    <3> HIDE DEF u, d, kind
    <3> QED
      BY <3>1, <3>2, <3>3
  <2> QED
    BY <2>1, <2>2
<1>6. "completed" \in JobStatuses \ {"pending"} /\ SetStatus(d, kind, "completed")
  BY <1>3 DEF SavedSummary, SavedIndex, JobStatuses
<1>7. lock' \in [Documents -> Workers \cup {None}]
  BY <1>1, LocksFit DEF DocumentInv, DocumentTypeOK
<1>8. /\ ContentTold' /\ ViewsHold'
      /\ summaries' \in [Documents -> Nat] /\ generations' \in [Documents -> Nat]
      /\ active' \in [Documents -> SUBSET Nat]
      /\ \A e \in Documents \ {d} : /\ summaries'[e] = summaries[e]
                                    /\ generations'[e] = generations[e]
  <2>1. CASE kind = "summary" /\ SavedSummary(d)
    BY <1>1, <1>2, <1>4, <2>1, SummarySaved
  <2>2. CASE kind = "embedding" /\ SavedIndex(d)
    BY <1>1, <1>2, <1>4, <2>2, IndexSaved
  <2> QED
    BY <1>3, <2>1, <2>2
<1> HIDE DEF d, kind, jobs
<1>9. /\ DocumentTypeOK' /\ TasksHoldJobs' /\ OneTaskPerJob' /\ RowsFollowRequest'
      /\ UnqueuedIsQuiet' /\ StartedHasTask' /\ PendingIsAwaited'
  BY <1>1, <1>2, <1>4, <1>5, <1>6, <1>7, <1>8, JobStep
<1> QED
  BY <1>8, <1>9 DEF DocumentInv

-----------------------------------------------------------------------------
(* Readers, and the whole next-state relation.                             *)

(* A reader's step changes what it has read and nothing else.              *)
LEMMA LookInv ==
  ASSUME DocumentInv, NEW d \in Documents, ReadSummary(d) \/ ReadStatuses(d)
  PROVE  DocumentInv'
<1>1. PICK seen : Look(d, seen)
  BY DEF ReadSummary, ReadStatuses
<1>2. UNCHANGED <<request, file, status, summaries, generations, active, lock, queue,
                  worker, faults, retries, abandoned, unsure>>
  BY <1>1 DEF Look, tables
<1>3. /\ view' \in [Documents -> View]
      /\ \A e \in Documents \ {d} : view'[e] = view[e]
      /\ view'[d].text # "unread" => Exists(d)
      /\ view'[d].text = "text" =>
           \/ <<d, "summary">> \in unsure
           \/ /\ status[d].summary = "completed"
              /\ view'[d].summary \in {"unread", "completed"}
  <2>1. view \in [Documents -> View] /\ view[d] \in View
    BY DEF DocumentInv, DocumentTypeOK
  <2>2. CASE ReadSummary(d)
    <3> DEFINE s == [Unread EXCEPT !.text = IF summaries[d] > 0 THEN "text" ELSE "none"]
    <3>1. view' = [view EXCEPT ![d] = s] /\ Exists(d)
      BY <2>2 DEF ReadSummary, Look
    <3>2. /\ s \in View /\ s.summary = "unread"
          /\ s.text = "text" => summaries[d] > 0
      BY DEF Unread, View
    <3>3. summaries[d] > 0 => <<d, "summary">> \in unsure \/ status[d].summary = "completed"
      <4>1. LET n == IF status[d].summary = "completed" THEN 1 ELSE 0 IN
              IF <<d, "summary">> \in unsure THEN summaries[d] >= n ELSE summaries[d] = n
        BY DEF DocumentInv, ContentTold
      <4> QED
        BY <4>1
    <3> HIDE DEF s
    <3> QED
      BY <2>1, <3>1, <3>2, <3>3
  <2>3. CASE ReadStatuses(d)
    <3> DEFINE s == [view[d] EXCEPT !.summary = status[d].summary]
    <3>1. view' = [view EXCEPT ![d] = s] /\ view[d].text # "unread"
      BY <2>3 DEF ReadStatuses, Look
    <3>2. Exists(d)
      BY <3>1 DEF DocumentInv, ViewsHold
    <3>3. status[d].summary \in JobStatuses
      BY <3>2 DEF DocumentInv, DocumentTypeOK, Exists
    <3>4. /\ s \in View /\ s.text = view[d].text /\ s.summary = status[d].summary
      BY <2>1, <3>3 DEF View
    <3> HIDE DEF s
    <3>5. /\ view' \in [Documents -> View] /\ view'[d] = s
          /\ \A e \in Documents \ {d} : view'[e] = view[e]
      BY <2>1, <3>1, <3>4
    <3>6. view[d].text = "text" =>
            <<d, "summary">> \in unsure \/ status[d].summary = "completed"
      BY DEF DocumentInv, ViewsHold
    <3> QED
      BY <3>2, <3>4, <3>5, <3>6
  <2> QED
    BY <2>2, <2>3
<1>4. DocumentTypeOK'
  BY <1>2, <1>3 DEF DocumentInv, DocumentTypeOK
<1>5. /\ TasksHoldJobs' /\ OneTaskPerJob' /\ RowsFollowRequest' /\ UnqueuedIsQuiet'
      /\ ContentTold'
  BY <1>2 DEF DocumentInv, TasksHoldJobs, OneTaskPerJob, RowsFollowRequest,
     UnqueuedIsQuiet, ContentTold, Working, Exists
<1>6. ViewsHold'
  BY <1>2, <1>3 DEF DocumentInv, ViewsHold, Exists
<1>7. StartedHasTask' /\ PendingIsAwaited'
  BY <1>2 DEF DocumentInv, StartedHasTask, PendingIsAwaited, Working, On
<1> QED
  BY <1>4, <1>5, <1>6, <1>7 DEF DocumentInv

LEMMA StutterDocumentInv ==
  ASSUME DocumentInv, UNCHANGED documentVars
  PROVE  DocumentInv'
<1>1. UNCHANGED <<request, file, status, summaries, generations, active, lock, queue,
                  worker, view, faults, retries, abandoned, unsure>>
  BY DEF documentVars, tables, rest
<1>2. DocumentTypeOK'
  BY <1>1 DEF DocumentInv, DocumentTypeOK
<1>3. /\ TasksHoldJobs' /\ OneTaskPerJob' /\ RowsFollowRequest' /\ UnqueuedIsQuiet'
      /\ ContentTold' /\ ViewsHold'
  BY <1>1 DEF DocumentInv, TasksHoldJobs, OneTaskPerJob, RowsFollowRequest,
     UnqueuedIsQuiet, ContentTold, ViewsHold, Working, Exists
<1>4. StartedHasTask' /\ PendingIsAwaited'
  BY <1>1 DEF DocumentInv, StartedHasTask, PendingIsAwaited, Working, On
<1> QED
  BY <1>2, <1>3, <1>4 DEF DocumentInv

LEMMA NextDocumentInv ==
  ASSUME DocumentInv, [Next]_documentVars
  PROVE  DocumentInv'
<1>1. CASE UNCHANGED documentVars
  BY <1>1, StutterDocumentInv
<1>2. ASSUME NEW d \in Documents,
             StoreUpload(d) \/ CommitProject(d) \/ CommitFails(d) \/ CommitUncertain(d)
               \/ RequestStep(d) \/ RequestLost(d) \/ ReadSummary(d) \/ ReadStatuses(d)
      PROVE  DocumentInv'
  BY <1>2, StoreUploadInv, CommitProjectInv, CommitFailsInv, CommitUncertainInv,
     QueueingInv, RequestLostInv, LookInv
<1>3. ASSUME NEW w \in Workers, NEW job \in Jobs, Deliver(w, job)
      PROVE  DocumentInv'
  BY <1>3, DeliverInv
<1>4. ASSUME NEW w \in Workers, WorkerStep(w)
      PROVE  DocumentInv'
  BY <1>4, ClaimJobInv, ReadDocumentInv, LockDocumentInv, WaitingInv, SavingInv,
     RecordFailureInv DEF WorkerStep
<1>5. ASSUME NEW w \in Workers,
             SaveRaises(w) \/ SaveUncertain(w) \/ WorkerCrashes(w) \/ TaskLost(w)
               \/ Redeliver(w)
      PROVE  DocumentInv'
  BY <1>5, WaitingInv, SavingInv, WorkerCrashesInv, TaskLostInv, RedeliverInv
<1> QED
  BY <1>1, <1>2, <1>3, <1>4, <1>5 DEF Next

(* In every reachable state each task fits its job and its rows.           *)
THEOREM DocumentInvariance == DocumentSpec => []DocumentInv
<1>1. Init => DocumentInv
  BY InitDocumentInv
<1>2. DocumentInv /\ [Next]_documentVars => DocumentInv'
  BY NextDocumentInv
<1> QED
  BY <1>1, <1>2, PTL DEF DocumentSpec

(* Every variable of the documents and their jobs has its type.            *)
THEOREM DocumentTypeCorrect == DocumentSpec => []DocumentTypeOK
<1>1. DocumentInv => DocumentTypeOK
  BY DEF DocumentInv
<1> QED
  BY <1>1, DocumentInvariance, PTL

(* However often a message is delivered, and whatever failed before, at    *)
(* most one task is past claim_job with a document's summary or embedding. *)
THEOREM OneTaskPerJobHolds == DocumentSpec => []OneTaskPerJob
<1>1. DocumentInv => OneTaskPerJob
  BY DEF DocumentInv
<1> QED
  BY <1>1, DocumentInvariance, PTL

LEMMA InvWhole == DocumentInv => DocumentsWhole
<1> SUFFICES ASSUME DocumentInv PROVE DocumentsWhole
  OBVIOUS
<1>1. \A d \in Documents : summaries[d] \in Nat /\ generations[d] \in Nat
  BY DEF DocumentInv, DocumentTypeOK
<1>2. DocumentsTable
  BY DEF DocumentInv, RowsFollowRequest, DocumentsTable, JobStatuses
<1>3. DocumentSummariesTable
  BY DEF DocumentInv, RowsFollowRequest, DocumentSummariesTable
<1>4. \A d \in Documents : \/ active[d] = {} /\ Cardinality(active[d]) = 0
                           \/ /\ active[d] = {generations[d]} /\ generations[d] > 0
                              /\ Cardinality(active[d]) = 1
  <2> SUFFICES ASSUME NEW d \in Documents
               PROVE  \/ active[d] = {} /\ Cardinality(active[d]) = 0
                      \/ /\ active[d] = {generations[d]} /\ generations[d] > 0
                         /\ Cardinality(active[d]) = 1
    OBVIOUS
  <2>1. active[d] = {} \/ (active[d] = {generations[d]} /\ generations[d] > 0)
    BY DEF DocumentInv, ContentTold
  <2>2. CASE active[d] = {}
    BY <2>2, FS_EmptySet
  <2>3. CASE active[d] = {generations[d]} /\ generations[d] > 0
    <3>1. Cardinality({generations[d]}) = 1
      BY FS_Singleton
    <3> QED
      BY <2>3, <3>1
  <2> QED
    BY <2>1, <2>2, <2>3
<1>5. EmbeddingGenerationsTable
  BY <1>1, <1>4 DEF DocumentInv, RowsFollowRequest, EmbeddingGenerationsTable
<1>6. StatusTellsContent
  <2> SUFFICES ASSUME NEW d \in Documents
               PROVE  /\ LET n == IF status[d].summary = "completed" THEN 1 ELSE 0 IN
                           IF <<d, "summary">> \in unsure THEN summaries[d] >= n
                                                          ELSE summaries[d] = n
                      /\ active[d] \subseteq {generations[d]}
                      /\ LET n == IF status[d].embedding = "completed" THEN 1 ELSE 0 IN
                           IF <<d, "embedding">> \in unsure
                           THEN Cardinality(active[d]) >= n
                           ELSE Cardinality(active[d]) = n
    BY DEF StatusTellsContent
  <2>1. /\ LET n == IF status[d].summary = "completed" THEN 1 ELSE 0 IN
             IF <<d, "summary">> \in unsure THEN summaries[d] >= n ELSE summaries[d] = n
        /\ status[d].embedding = "completed" => active[d] # {}
        /\ active[d] # {} =>
             status[d].embedding = "completed" \/ <<d, "embedding">> \in unsure
    BY DEF DocumentInv, ContentTold
  <2> QED
    BY <1>4, <2>1
<1>7. FilesAndRowsTogether
  BY DEF DocumentInv, DocumentTypeOK, RowsFollowRequest, FilesAndRowsTogether, Exists,
     JobStatuses, Kinds
<1> QED
  BY <1>2, <1>3, <1>5, <1>6, <1>7 DEF DocumentsWhole

(* The file, the rows, the tables' constraints and the two statuses of a   *)
(* document agree after any failure of create_project or of a job; and a   *)
(* commit that was not answered leaves no more than a second result to be  *)
(* saved, or rows without a file whose jobs are never begun.               *)
THEOREM DocumentsWholeHolds == DocumentSpec => []DocumentsWhole
BY InvWhole, DocumentInvariance, PTL

(* GET /project/{id} never shows a summary beside a summary job that is    *)
(* not done, unless the job's commit was taken for a failure.              *)
THEOREM ProjectViewsTruthfulHolds == DocumentSpec => []ProjectViewsTruthful
<1>1. DocumentInv => ProjectViewsTruthful
  BY DEF DocumentInv, ViewsHold, ProjectViewsTruthful
<1> QED
  BY <1>1, DocumentInvariance, PTL

(* A job listed as pending or started has a request, a message or a task   *)
(* to its name, or was lost to a fault or a 503 answer.                    *)
THEOREM NoStrandedJobHolds == DocumentSpec => []NoStrandedJob
<1>1. DocumentInv => NoStrandedJob
  <2> SUFFICES ASSUME DocumentInv, NEW d \in Documents, NEW kind \in Kinds,
                      status[d][kind] \in {"pending", "started"},
                      <<d, kind>> \notin abandoned, request[d] # "unavailable"
               PROVE  \/ request[d] \in {"queueSummary", "queueEmbedding"}
                      \/ <<d, kind>> \in queue
                      \/ \E w \in Workers : worker[w].document = d /\ worker[w].kind = kind
    BY DEF NoStrandedJob
  <2> QED
    BY DEF DocumentInv, StartedHasTask, PendingIsAwaited, On
<1> QED
  BY <1>1, DocumentInvariance, PTL

-----------------------------------------------------------------------------
(***************************************************************************)
(* The ledger of a document's jobs.  A step of a task that does not write  *)
(* its status does nothing to it, unless the task has a save of its own in *)
(* doubt and is gone; and since a task is alone with its job, what it      *)
(* writes is what the ledger allows.                                       *)
(***************************************************************************)

Results == [d \in Documents |-> [summary |-> summaries[d], embedding |-> generations[d]]]

Doubted == {job \in Jobs : InDoubt(job[1], job[2])}

Fails(task, d, kind) == task.pc = "failing" /\ task.document = d /\ task.kind = kind

(* In doubt after the step.                                                *)
InDoubtNext(d, kind) ==
  /\ status'[d][kind] = "completed"
  /\ \E w \in Workers : Fails(worker'[w], d, kind)

LEMMA DoubtedAre ==
  ASSUME NEW d \in Documents, NEW kind \in Kinds
  PROVE  <<d, kind>> \in Doubted <=>
           /\ status[d][kind] = "completed"
           /\ \E w \in Workers : Fails(worker[w], d, kind)
BY DEF Doubted, Jobs, InDoubt, Fails

LEMMA DoubtsNext ==
  ASSUME NEW D \in SUBSET Jobs,
         \A d \in Documents : \A kind \in Kinds : <<d, kind>> \in D <=> InDoubtNext(d, kind)
  PROVE  Doubted' = D
<1>1. ASSUME NEW job \in Jobs
      PROVE  InDoubt(job[1], job[2])' <=> job \in D
  <2>1. job[1] \in Documents /\ job[2] \in Kinds /\ job = <<job[1], job[2]>>
    BY DEF Jobs
  <2>2. InDoubt(job[1], job[2])' <=> InDoubtNext(job[1], job[2])
    BY DEF InDoubt, InDoubtNext, Fails
  <2> QED
    BY <2>1, <2>2
<1> QED
  BY <1>1 DEF Doubted

LEMMA DoubtedJobs == Doubted \subseteq Jobs
BY DEF Doubted

(* The tables stay, and no task begins or ends having an error to record   *)
(* for a job that is completed.                                            *)
LEMMA LedgerStays ==
  ASSUME status' = status, UNCHANGED <<summaries, generations>>,
         \A d \in Documents : \A kind \in Kinds : status[d][kind] = "completed" =>
           \A w \in Workers : Fails(worker'[w], d, kind) <=> Fails(worker[w], d, kind)
  PROVE  UNCHANGED Ledger!ledgerVars
<1>1. \A d \in Documents : \A kind \in Kinds : <<d, kind>> \in Doubted <=> InDoubtNext(d, kind)
  BY DoubtedAre DEF InDoubtNext
<1>2. Doubted' = Doubted
  BY <1>1, DoubtedJobs, DoubtsNext
<1>3. Results' = Results
  BY DEF Results
<1> QED
  BY <1>2, <1>3 DEF Ledger!ledgerVars, Doubted, Results

LEMMA WorkerKept ==
  ASSUME status' = status, UNCHANGED <<summaries, generations, worker>>
  PROVE  UNCHANGED Ledger!ledgerVars
BY LedgerStays

(* A step of one task that writes no status, when the task has no completed*)
(* job to fail before it or after it.                                      *)
LEMMA TaskGoesOn ==
  ASSUME DocumentInv, NEW w \in Workers, NEW t,
         status' = status, UNCHANGED <<summaries, generations>>,
         worker' = [worker EXCEPT ![w] = t],
         worker[w].pc \in {"idle", "claim"} => t.pc # "failing",
         Working(w) =>
           /\ status[worker[w].document][worker[w].kind] # "completed"
           /\ t.pc = "failing" => t.document = worker[w].document /\ t.kind = worker[w].kind
  PROVE  UNCHANGED Ledger!ledgerVars
<1>1. worker'[w] = t /\ \A v \in Workers \ {w} : worker'[v] = worker[v]
  BY DEF DocumentInv, DocumentTypeOK
<1>2. ASSUME NEW d \in Documents, NEW kind \in Kinds, status[d][kind] = "completed"
      PROVE  ~Fails(t, d, kind) /\ ~Fails(worker[w], d, kind)
  BY <1>2 DEF Fails, Working
<1>3. \A d \in Documents : \A kind \in Kinds : status[d][kind] = "completed" =>
        \A v \in Workers : Fails(worker'[v], d, kind) <=> Fails(worker[v], d, kind)
  BY <1>1, <1>2
<1> QED
  BY <1>3, LedgerStays

LEMMA CommitAccepts ==
  ASSUME DocumentInv, NEW d \in Documents, CommitProject(d) \/ CommitUncertain(d)
  PROVE  Ledger!Accept(d)
<1>1. /\ request[d] = "stored" /\ UNCHANGED <<summaries, generations, worker>>
      /\ status' = [status EXCEPT ![d] = [summary |-> "pending", embedding |-> "pending"]]
  BY DEF CommitProject, CommitUncertain, Refuse, ProjectSaved
<1>2. \A kind \in Kinds : status[d][kind] = "absent"
  BY <1>1 DEF DocumentInv, RowsFollowRequest
<1>3. [kind \in Kinds |-> "pending"] = [summary |-> "pending", embedding |-> "pending"]
  BY DEF Kinds
<1>4. \A e \in Documents : \A kind \in Kinds :
        status'[e][kind] = "completed" <=> status[e][kind] = "completed"
  BY <1>1, <1>2 DEF DocumentInv, DocumentTypeOK, Kinds
<1>5. \A e \in Documents : \A kind \in Kinds : <<e, kind>> \in Doubted <=> InDoubtNext(e, kind)
  BY <1>1, <1>4, DoubtedAre DEF InDoubtNext
<1>6. Doubted' = Doubted /\ Results' = Results
  BY <1>1, <1>5, DoubtedJobs, DoubtsNext DEF Results
<1> QED
  BY <1>1, <1>2, <1>3, <1>6 DEF Ledger!Accept, Doubted, Results

(* What a step that writes one status does to the doubts: the task w is    *)
(* the only one at work on the job.                                        *)
LEMMA OneStatusWritten ==
  ASSUME DocumentInv, NEW w \in Workers, NEW d \in Documents, NEW kind \in Kinds,
         NEW new \in JobStatuses, NEW t,
         worker[w].pc # "idle", On(w, d, kind),
         \A v \in Workers \ {w} : ~(Working(v) /\ On(v, d, kind)),
         SetStatus(d, kind, new),
         worker' = [worker EXCEPT ![w] = t],
         t.pc = "failing" => t.document = d /\ t.kind = kind
  PROVE  Doubted' = IF new = "completed" /\ t.pc = "failing"
                    THEN Doubted \cup {<<d, kind>>}
                    ELSE Doubted \ {<<d, kind>>}
<1> DEFINE D == IF new = "completed" /\ t.pc = "failing"
                THEN Doubted \cup {<<d, kind>>}
                ELSE Doubted \ {<<d, kind>>}
<1>1. worker'[w] = t /\ \A v \in Workers \ {w} : worker'[v] = worker[v]
  BY DEF DocumentInv, DocumentTypeOK
<1>2. /\ status'[d][kind] = new
      /\ \A e \in Documents : \A k \in Kinds :
           e # d \/ k # kind => status'[e][k] = status[e][k]
  BY StatusSet
<1>3. \A v \in Workers \ {w} : ~Fails(worker'[v], d, kind)
  BY <1>1 DEF Fails, Working, On
<1>4. InDoubtNext(d, kind) <=> <<d, kind>> \in D
  <2>1. InDoubtNext(d, kind) <=> new = "completed" /\ Fails(t, d, kind)
    BY <1>1, <1>2, <1>3 DEF InDoubtNext
  <2>2. Fails(t, d, kind) <=> t.pc = "failing"
    BY DEF Fails
  <2> QED
    BY <2>1, <2>2
<1>5. ASSUME NEW e \in Documents, NEW k \in Kinds, e # d \/ k # kind
      PROVE  InDoubtNext(e, k) <=> <<e, k>> \in D
  <2>1. <<e, k>> \in D <=> <<e, k>> \in Doubted
    BY <1>5
  <2>2. ~Fails(worker'[w], e, k) /\ ~Fails(worker[w], e, k)
    BY <1>1, <1>5 DEF Fails, On
  <2>3. \A v \in Workers : Fails(worker'[v], e, k) <=> Fails(worker[v], e, k)
    BY <1>1, <2>2
  <2>4. status'[e][k] = status[e][k]
    BY <1>2, <1>5
  <2> QED
    BY <2>1, <2>3, <2>4, DoubtedAre DEF InDoubtNext
<1>6. D \in SUBSET Jobs
  BY DoubtedJobs DEF Jobs
<1> HIDE DEF D
<1>7. \A e \in Documents : \A k \in Kinds : <<e, k>> \in D <=> InDoubtNext(e, k)
  BY <1>4, <1>5
<1>8. Doubted' = D
  BY <1>6, <1>7, DoubtsNext
<1> QED
  BY <1>8 DEF D

LEMMA ClaimTakesUp ==
  ASSUME DocumentInv, NEW w \in Workers, ClaimJob(w)
  PROVE  \/ \E d \in Documents : \E kind \in Kinds : Ledger!TakeUp(d, kind)
         \/ UNCHANGED Ledger!ledgerVars
<1> DEFINE d == worker[w].document
           kind == worker[w].kind
<1>1. /\ worker[w].pc = "claim" /\ d \in Documents /\ kind \in Kinds /\ On(w, d, kind)
      /\ UNCHANGED <<summaries, generations>>
  BY DEF ClaimJob, DocumentInv, TasksHoldJobs, On
<1>2. CASE ~Claimable(d, kind)
  <2>1. worker' = [worker EXCEPT ![w] = Idle] /\ status' = status /\ Idle.pc = "idle"
    BY <1>2 DEF ClaimJob, Idle
  <2> QED
    BY <1>1, <2>1, TaskGoesOn DEF Working
<1>3. CASE Claimable(d, kind)
  <2> DEFINE t == [worker[w] EXCEPT !.pc = "read"]
  <2>1. SetStatus(d, kind, "started") /\ worker' = [worker EXCEPT ![w] = t]
    BY <1>3 DEF ClaimJob, Goto
  <2>2. t.pc = "read"
    BY DEF DocumentInv, DocumentTypeOK, Task
  <2>3. status[d][kind] \in {"pending", "failed"}
    BY <1>3 DEF Claimable
  <2>4. \A v \in Workers \ {w} : ~(Working(v) /\ On(v, d, kind))
    BY <2>3 DEF DocumentInv, TasksHoldJobs, On
  <2> HIDE DEF t, d, kind
  <2>5. "started" \in JobStatuses
    BY DEF JobStatuses
  <2>6. Doubted' = Doubted \ {<<d, kind>>}
    BY <1>1, <2>1, <2>2, <2>4, <2>5, OneStatusWritten
  <2>7. <<d, kind>> \notin Doubted
    BY <1>1, <2>3, DoubtedAre
  <2>8. Doubted' = Doubted /\ Results' = Results
    BY <1>1, <2>6, <2>7 DEF Results
  <2>9. Ledger!TakeUp(d, kind)
    BY <2>1, <2>3, <2>8 DEF Ledger!TakeUp, Ledger!Becomes, SetStatus, Doubted, Results
  <2> QED
    BY <1>1, <2>9
<1> QED
  BY <1>2, <1>3

LEMMA FailureGivesUp ==
  ASSUME DocumentInv, NEW w \in Workers, RecordFailure(w)
  PROVE  \E d \in Documents : \E kind \in Kinds : Ledger!GiveUp(d, kind)
<1> DEFINE d == worker[w].document
           kind == worker[w].kind
<1>1. /\ worker[w].pc = "failing" /\ SetStatus(d, kind, "failed")
      /\ worker' = [worker EXCEPT ![w] = Idle]
      /\ UNCHANGED <<summaries, generations>>
  BY DEF RecordFailure
<1>2. /\ d \in Documents /\ kind \in Kinds /\ On(w, d, kind)
      /\ status[d][kind] \in {"started", "completed"}
      /\ \A v \in Workers \ {w} : ~(Working(v) /\ On(v, d, kind))
  BY <1>1, WorkingAlone DEF Working
<1>3. Fails(worker[w], d, kind)
  BY <1>1 DEF Fails
<1> HIDE DEF d, kind
<1>4. Idle.pc = "idle" /\ "failed" \in JobStatuses
  BY DEF Idle, JobStatuses
<1>5. Doubted' = Doubted \ {<<d, kind>>}
  BY <1>1, <1>2, <1>4, OneStatusWritten
<1>6. status[d][kind] = "started" \/ <<d, kind>> \in Doubted
  BY <1>2, <1>3, DoubtedAre
<1>7. Results' = Results
  BY <1>1 DEF Results
<1>8. Ledger!GiveUp(d, kind)
  BY <1>1, <1>5, <1>6, <1>7 DEF Ledger!GiveUp, Ledger!Becomes, SetStatus, Doubted, Results
<1> QED
  BY <1>2, <1>8

LEMMA SavingFinishes ==
  ASSUME DocumentInv, NEW w \in Workers,
         SaveSummary(w) \/ SaveIndex(w) \/ SaveUncertain(w)
  PROVE  \E d \in Documents : \E kind \in Kinds : Ledger!Finish(d, kind)
<1> DEFINE d == worker[w].document
           kind == worker[w].kind
<1>1. worker[w].pc = "save"
  BY DEF SaveSummary, SaveIndex, SaveUncertain
<1>2. /\ d \in Documents /\ kind \in Kinds /\ On(w, d, kind)
      /\ status[d][kind] = "started"
      /\ \A v \in Workers \ {w} : ~(Working(v) /\ On(v, d, kind))
  BY <1>1, SaverHasStarted
<1>3. \/ kind = "summary" /\ SavedSummary(d)
      \/ kind = "embedding" /\ SavedIndex(d)
  BY <1>2 DEF SaveSummary, SaveIndex, SaveUncertain, Kinds
<1>4. PICK t : /\ worker' = [worker EXCEPT ![w] = t]
               /\ t.pc = "failing" => t.document = d /\ t.kind = kind
  <2>1. CASE SaveSummary(w) \/ SaveIndex(w)
    <3>1. worker' = [worker EXCEPT ![w] = Idle] /\ Idle.pc = "idle"
      BY <2>1 DEF SaveSummary, SaveIndex, Idle
    <3> QED
      BY <3>1
  <2>2. CASE SaveUncertain(w)
    <3> DEFINE t == [worker[w] EXCEPT !.pc = "failing"]
    <3>1. worker' = [worker EXCEPT ![w] = t]
      BY <2>2 DEF SaveUncertain, Goto
    <3>2. t.document = d /\ t.kind = kind
      BY DEF DocumentInv, DocumentTypeOK, Task
    <3> QED
      BY <3>1, <3>2
  <2> QED
    BY <2>1, <2>2
<1>5. SetStatus(d, kind, "completed")
  BY <1>3 DEF SavedSummary, SavedIndex
<1>6. Results' = [Results EXCEPT ![d][kind] = Results[d][kind] + 1]
  <2>1. CASE kind = "summary" /\ SavedSummary(d)
    <3>1. summaries' = [summaries EXCEPT ![d] = summaries[d] + 1] /\ generations' = generations
      BY <2>1 DEF SavedSummary
    <3> QED
      BY <1>2, <2>1, <3>1 DEF Results, DocumentInv, DocumentTypeOK
  <2>2. CASE kind = "embedding" /\ SavedIndex(d)
    <3>1. generations' = [generations EXCEPT ![d] = generations[d] + 1]
          /\ summaries' = summaries
      BY <2>2 DEF SavedIndex
    <3> QED
      BY <1>2, <2>2, <3>1 DEF Results, DocumentInv, DocumentTypeOK
  <2> QED
    BY <1>3, <2>1, <2>2
<1> HIDE DEF d, kind
<1>7. "completed" \in JobStatuses
  BY DEF JobStatuses
<1>8. Doubted' = IF t.pc = "failing" THEN Doubted \cup {<<d, kind>>}
                 ELSE Doubted \ {<<d, kind>>}
  <2>1. /\ worker[w].pc # "idle" /\ d \in Documents /\ kind \in Kinds
        /\ SetStatus(d, kind, "completed")
        /\ worker' = [worker EXCEPT ![w] = t]
        /\ t.pc = "failing" => t.document = d /\ t.kind = kind
        /\ On(w, d, kind)
        /\ \A v \in Workers \ {w} : ~(Working(v) /\ On(v, d, kind))
    BY <1>1, <1>2, <1>4, <1>5
  <2>2. Doubted' = IF "completed" = "completed" /\ t.pc = "failing"
                   THEN Doubted \cup {<<d, kind>>}
                   ELSE Doubted \ {<<d, kind>>}
    BY <1>7, <2>1, OneStatusWritten
  <2> QED
    BY <2>2
<1>9. <<d, kind>> \notin Doubted
  BY <1>2, DoubtedAre
<1>10. Doubted' \in {Doubted, Doubted \cup {<<d, kind>>}}
  BY <1>8, <1>9
<1>11. PICK e \in Documents, k \in Kinds : e = d /\ k = kind
  BY <1>2
<1>12. Ledger!Finish(e, k)
  BY <1>2, <1>5, <1>6, <1>10, <1>11
     DEF Ledger!Finish, Ledger!Becomes, SetStatus, Doubted, Results
<1> QED
  BY <1>12

(* A task that dies leaves its job in doubt no longer.                     *)
LEMMA LossSettles ==
  ASSUME DocumentInv, NEW w \in Workers, WorkerCrashes(w) \/ TaskLost(w)
  PROVE  \/ \E d \in Documents : \E kind \in Kinds : Ledger!Settle(d, kind)
         \/ UNCHANGED Ledger!ledgerVars
<1>1. /\ worker[w].pc # "idle" /\ worker' = [worker EXCEPT ![w] = Idle]
      /\ status' = status /\ UNCHANGED <<summaries, generations>>
      /\ Idle.pc = "idle"
  BY DEF WorkerCrashes, TaskLost, tables, Idle
<1>2. CASE worker[w].pc = "claim"
  BY <1>1, <1>2, TaskGoesOn DEF Working
<1>3. CASE worker[w].pc # "claim"
  <2> DEFINE d == worker[w].document
             kind == worker[w].kind
  <2>1. /\ Working(w) /\ d \in Documents /\ kind \in Kinds /\ On(w, d, kind)
        /\ \A v \in Workers \ {w} : ~(Working(v) /\ On(v, d, kind))
        /\ status[d][kind] = "completed" => worker[w].pc = "failing"
    BY <1>1, <1>3, WorkingAlone DEF Working, DocumentInv, TasksHoldJobs
  <2>2. CASE status[d][kind] # "completed"
    BY <1>1, <2>1, <2>2, TaskGoesOn DEF Working
  <2>3. CASE status[d][kind] = "completed"
    <3>1. Fails(worker[w], d, kind)
      BY <2>1, <2>3 DEF Fails
    <3>2. PICK e \in Documents, k \in Kinds : e = d /\ k = kind
      BY <2>1
    <3> HIDE DEF d, kind
    <3>3. <<e, k>> \in Doubted
      BY <2>3, <3>1, <3>2, DoubtedAre
    <3>4. worker'[w] = Idle /\ \A v \in Workers \ {w} : worker'[v] = worker[v]
      BY <1>1 DEF DocumentInv, DocumentTypeOK
    <3>5. ~InDoubtNext(e, k)
      BY <1>1, <2>1, <3>2, <3>4 DEF InDoubtNext, Fails, Working, On
    <3>6. ASSUME NEW f \in Documents, NEW j \in Kinds, f # e \/ j # k
          PROVE  InDoubtNext(f, j) <=> <<f, j>> \in Doubted
      <4>1. ~Fails(worker[w], f, j) /\ ~Fails(worker'[w], f, j)
        BY <1>1, <3>1, <3>2, <3>4, <3>6 DEF Fails
      <4>2. \A v \in Workers : Fails(worker'[v], f, j) <=> Fails(worker[v], f, j)
        BY <3>4, <4>1
      <4> QED
        BY <1>1, <4>2, DoubtedAre DEF InDoubtNext
    <3>7. \A f \in Documents : \A j \in Kinds :
            <<f, j>> \in Doubted \ {<<e, k>>} <=> InDoubtNext(f, j)
      BY <3>5, <3>6
    <3>8. Doubted \ {<<e, k>>} \in SUBSET Jobs
      BY DoubtedJobs
    <3>9. Doubted' = Doubted \ {<<e, k>>}
      BY <3>7, <3>8, DoubtsNext
    <3>10. Ledger!Settle(e, k)
      BY <1>1, <3>3, <3>9 DEF Ledger!Settle, Doubted, Results
    <3> QED
      BY <3>10
  <2> QED
    BY <2>2, <2>3
<1> QED
  BY <1>2, <1>3

(* Reading, waiting and what goes wrong there leave the ledger alone: the  *)
(* task's job has started.                                                 *)
LEMMA WorkIsStutter ==
  ASSUME DocumentInv, NEW w \in Workers,
         \/ ReadDocument(w) \/ LockDocument(w) \/ ModelAnswers(w) \/ VectorsArrive(w)
         \/ WaitFails(w) \/ SaveRaises(w)
  PROVE  UNCHANGED Ledger!ledgerVars
<1>1. /\ Working(w) /\ worker[w].pc # "failing"
      /\ status' = status /\ UNCHANGED <<summaries, generations>>
  BY DEF ReadDocument, LockDocument, ModelAnswers, VectorsArrive, WaitFails, SaveRaises,
     tables, Working
<1>2. status[worker[w].document][worker[w].kind] # "completed"
  BY <1>1 DEF DocumentInv, TasksHoldJobs
<1>3. worker[w] \in Task
  BY DEF DocumentInv, DocumentTypeOK
<1>4. ASSUME NEW t, worker' = [worker EXCEPT ![w] = t],
             t.document = worker[w].document, t.kind = worker[w].kind
      PROVE  UNCHANGED Ledger!ledgerVars
  BY <1>1, <1>2, <1>4, TaskGoesOn DEF Working
<1>5. ASSUME NEW pc, Goto(w, pc)
      PROVE  UNCHANGED Ledger!ledgerVars
  <2> DEFINE t == [worker[w] EXCEPT !.pc = pc]
  <2>1. worker' = [worker EXCEPT ![w] = t]
    BY <1>5 DEF Goto
  <2>2. t.document = worker[w].document /\ t.kind = worker[w].kind
    BY <1>3 DEF Task
  <2> HIDE DEF t
  <2> QED
    BY <1>4, <2>1, <2>2
<1>6. CASE worker' = [worker EXCEPT ![w].pc = "failing", ![w].unread = ~UploadsShared]
  <2> DEFINE t == [worker[w] EXCEPT !.pc = "failing", !.unread = ~UploadsShared]
  <2>1. worker' = [worker EXCEPT ![w] = t]
    BY <1>6
  <2>2. t.document = worker[w].document /\ t.kind = worker[w].kind
    BY <1>3 DEF Task
  <2> HIDE DEF t
  <2> QED
    BY <1>4, <2>1, <2>2
<1> QED
  BY <1>5, <1>6
     DEF ReadDocument, LockDocument, ModelAnswers, VectorsArrive, WaitFails, SaveRaises

(* For any number of documents, workers, redeliveries and faults, each step*)
(* does to a document's jobs what their ledger allows, or nothing: a       *)
(* completed job stays completed and is saved once, but for the task whose *)
(* own commit it takes for a failure.                                      *)
THEOREM ImplementsLedgerHolds == DocumentSpec => ImplementsLedger
<1>1. Init => Ledger!Init
  <2> SUFFICES ASSUME Init PROVE Ledger!Init
    OBVIOUS
  <2>1. /\ status = [d \in Documents |-> [kind \in Kinds |-> "absent"]]
        /\ Results = [d \in Documents |-> [kind \in Kinds |-> 0]]
    BY DEF Init, Results, Kinds
  <2>2. Doubted = {}
    BY DEF Init, Doubted, InDoubt, Idle
  <2> QED
    BY <2>1, <2>2 DEF Ledger!Init, Doubted, Results
<1>2. DocumentInv /\ [Next]_documentVars => [Ledger!Next]_(Ledger!ledgerVars)
  <2> SUFFICES ASSUME DocumentInv, [Next]_documentVars
               PROVE  Ledger!Next \/ UNCHANGED Ledger!ledgerVars
    OBVIOUS
  <2>1. CASE UNCHANGED documentVars
    BY <2>1, WorkerKept DEF documentVars, tables
  <2>2. ASSUME NEW d \in Documents, CommitProject(d) \/ CommitUncertain(d)
        PROVE  Ledger!Next
    BY <2>2, CommitAccepts DEF Ledger!Next
  <2>3. ASSUME NEW d \in Documents,
               StoreUpload(d) \/ CommitFails(d) \/ RequestStep(d) \/ RequestLost(d)
                 \/ ReadSummary(d) \/ ReadStatuses(d)
        PROVE  UNCHANGED Ledger!ledgerVars
    BY <2>3, WorkerKept
       DEF StoreUpload, CommitFails, Refuse, RequestStep, QueueSummary, QueueEmbedding,
           QueueFails, RequestLost, ReadSummary, ReadStatuses, Look, tables
  <2>4. ASSUME NEW w \in Workers, NEW job \in Jobs, Deliver(w, job)
        PROVE  UNCHANGED Ledger!ledgerVars
    <3> DEFINE t == [Idle EXCEPT !.pc = "claim", !.document = job[1], !.kind = job[2]]
    <3>1. /\ worker[w].pc = "idle" /\ worker' = [worker EXCEPT ![w] = t] /\ t.pc = "claim"
          /\ status' = status /\ UNCHANGED <<summaries, generations>>
      BY <2>4 DEF Deliver, tables, Idle
    <3> HIDE DEF t
    <3> QED
      BY <3>1, TaskGoesOn DEF Working
  <2>5. ASSUME NEW w \in Workers,
               WorkerStep(w) \/ SaveRaises(w) \/ SaveUncertain(w)
                 \/ WorkerCrashes(w) \/ TaskLost(w)
        PROVE  Ledger!Next \/ UNCHANGED Ledger!ledgerVars
    BY <2>5, ClaimTakesUp, FailureGivesUp, SavingFinishes, LossSettles, WorkIsStutter
       DEF WorkerStep, Ledger!Next
  <2>6. ASSUME NEW w \in Workers, Redeliver(w)
        PROVE  UNCHANGED Ledger!ledgerVars
    BY <2>6, WorkerKept DEF Redeliver, tables
  <2> QED
    BY <2>1, <2>2, <2>3, <2>4, <2>5, <2>6 DEF Next
<1> QED
  BY <1>1, <1>2, DocumentInvariance, PTL DEF DocumentSpec, ImplementsLedger, Ledger!Spec
=============================================================================
