------------------------ MODULE ConversationService ------------------------
(***************************************************************************)
(* The tables behind one conversation and the operations of                *)
(* ConversationService on them.  Every mutating operation locks the        *)
(* conversation row and its caller commits right after, so each one is a   *)
(* single transaction and a single action here; an operation that raises   *)
(* changes nothing and is the action's guard.  Callers may call in any     *)
(* order: the order the worker keeps is ConversationPipeline's business.   *)
(*                                                                         *)
(* Message positions start at 1 and are never reused inside a              *)
(* conversation, so the message table is a sequence indexed by position.   *)
(* The wording of questions, the retrieved passages, models, metrics and   *)
(* timestamps are left out.                                                *)
(***************************************************************************)
EXTENDS Naturals, Sequences

CONSTANTS RunIds,       \* primary keys for runs
          Requests,     \* client_request_ids; each stands for its question too
          Answers,      \* nonblank texts a model may answer with
          ErrorCodes,   \* safe application error codes
          None          \* SQL NULL, and the empty content of a placeholder

ASSUME NoneAssumption ==
  /\ None \notin Requests
  /\ None \notin Answers
  /\ None \notin ErrorCodes

VARIABLES exists,       \* the conversation row is there
          messages,     \* conversation_messages, by position
          runs          \* conversation_runs, by id

serviceVars == <<exists, messages, runs>>

-----------------------------------------------------------------------------

ActiveStatuses == {"pending", "running"}

(* Mutant: completed attempts can be retried as well.                      *)
RetryableOrCompleted == {"failed", "cancelled", "completed"}

RetryableStatuses == {"failed", "cancelled"}
TerminalStatuses == RetryableStatuses \cup {"completed"}
Statuses == ActiveStatuses \cup TerminalStatuses

Stages == {"reserved", "starting", "rewritten", "retrieving", "retrieved",
           "context_ready", "generating", "completed", "failed", "cancelled"}

(* Past exchanges are named by the positions of their questions.  A run's  *)
(* snapshot holds the exchanges given to the rewriter, and, once the       *)
(* answer context is assembled, the exchanges kept in the prompt.          *)
Snapshot == [history : SUBSET Nat, prompt : {None} \cup SUBSET Nat]

Message == [role : {"user", "assistant"},
            request : {None} \cup Requests,
            content : {None} \cup Requests \cup Answers]

Row == [status : {"absent"} \cup Statuses,
        stage : {"absent"} \cup Stages,
        user : Nat,
        assistant : Nat,
        attempt : Nat,
        started : BOOLEAN,
        rewritten : BOOLEAN,
        snapshot : Snapshot,
        response : {None} \cup Answers,
        error : {None} \cup ErrorCodes]

EmptySnapshot == [history |-> {}, prompt |-> None]

(* A primary key no run has been given. *)
NoRow == [status |-> "absent", stage |-> "absent", user |-> 0, assistant |-> 0,
          attempt |-> 0, started |-> FALSE, rewritten |-> FALSE,
          snapshot |-> EmptySnapshot, response |-> None, error |-> None]

NewRow(user, assistant, attempt) ==
  [NoRow EXCEPT !.status = "pending", !.stage = "reserved", !.user = user,
                !.assistant = assistant, !.attempt = attempt]

Present == {r \in RunIds : runs[r].status # "absent"}

Active == {r \in RunIds : runs[r].status \in ActiveStatuses}

RunsFor(assistant) == {r \in Present : runs[r].assistant = assistant}

UserPositions == {p \in DOMAIN messages : messages[p].role = "user"}

AssistantPositions == {p \in DOMAIN messages : messages[p].role = "assistant"}

-----------------------------------------------------------------------------
(* Mutant: history's join without its filter on completed runs.            *)
PairsOfAnyStatus(before) ==
  {runs[r].user : r \in {s \in Present :
      runs[s].user < before /\ runs[s].assistant < before}}

(* Questions of answered exchanges before a position: the join that        *)
(* HistoryService.load reads.                                              *)
CompletedPairs(before) ==
  {runs[r].user : r \in {s \in Present :
      /\ runs[s].status = "completed"
      /\ runs[s].user < before
      /\ runs[s].assistant < before}}

(* Budgeting keeps whole exchanges from the newest backwards and stops at  *)
(* the first that does not fit; sizes are left out, so any cut is possible.*)
RecentSuffixes(pairs) ==
  {{}} \cup {{q \in pairs : q >= cut} : cut \in pairs}

(***************************************************************************)
(* Mutants: plausible mistakes in the code above and below, which the      *)
(* properties must notice.  They are no part of the specification.         *)
(***************************************************************************)

(* reserve_turn without _ensure_idle.                                      *)
ReserveTurnWhileBusy(q, r) ==
  /\ exists
  /\ \A p \in DOMAIN messages : messages[p].request # q
  /\ runs[r].status = "absent"
  /\ messages' = messages \o
       << [role |-> "user", request |-> q, content |-> q],
          [role |-> "assistant", request |-> None, content |-> None] >>
  /\ runs' = [runs EXCEPT ![r] = NewRow(Len(messages) + 1, Len(messages) + 2, 1)]
  /\ UNCHANGED exists

(* reserve_turn without the lookup of the request id.                      *)
ReserveTurnTwice(q, r) ==
  /\ exists
  /\ Active = {}
  /\ runs[r].status = "absent"
  /\ messages' = messages \o
       << [role |-> "user", request |-> q, content |-> q],
          [role |-> "assistant", request |-> None, content |-> None] >>
  /\ runs' = [runs EXCEPT ![r] = NewRow(Len(messages) + 1, Len(messages) + 2, 1)]
  /\ UNCHANGED exists

(* complete without the check that the attempt is still running.           *)
CompleteLate(r, a) ==
  /\ runs[r].status \notin {"absent", "completed"}
  /\ runs' = [runs EXCEPT ![r].status = "completed", ![r].stage = "completed",
                          ![r].response = a]
  /\ messages' = [messages EXCEPT ![runs[r].assistant].content = a]
  /\ UNCHANGED exists

(* _terminate without the check that the attempt is still active.          *)
TerminateLate(r, status, error) ==
  /\ runs[r].status \notin {"absent", status}
  /\ runs' = [runs EXCEPT ![r].status = status, ![r].stage = status,
                          ![r].error = error]
  /\ UNCHANGED <<exists, messages>>

(* _terminate with stage and error code swapped.                           *)
TerminateSwapped(r, status, error) ==
  /\ r \in Active
  /\ runs' = [runs EXCEPT ![r].status = status, ![r].stage = error,
                          ![r].error = status]
  /\ UNCHANGED <<exists, messages>>

(* retry of any attempt of the latest turn.                                *)
RetryOldAttempt(p, r) ==
  /\ runs[p].status \in RetryableStatuses
  /\ Active = {}
  /\ runs[p].assistant = Len(messages)
  /\ runs[r].status = "absent"
  /\ runs' = [runs EXCEPT ![r] = NewRow(runs[p].user, runs[p].assistant,
                                        runs[p].attempt + 1)]
  /\ UNCHANGED <<exists, messages>>

(* retry of the latest attempt of any turn.                                *)
RetryOldTurn(p, r) ==
  /\ runs[p].status \in RetryableStatuses
  /\ Active = {}
  /\ \A s \in RunsFor(runs[p].assistant) : runs[s].attempt <= runs[p].attempt
  /\ runs[r].status = "absent"
  /\ runs' = [runs EXCEPT ![r] = NewRow(runs[p].user, runs[p].assistant,
                                        runs[p].attempt + 1)]
  /\ UNCHANGED <<exists, messages>>
-----------------------------------------------------------------------------

Init ==
  /\ exists = TRUE
  /\ messages = << >>
  /\ runs = [r \in RunIds |-> NoRow]

WriteRow(r, row) == runs' = [runs EXCEPT ![r] = row]

(* reserve_turn with a request id the conversation has not seen.  A        *)
(* repeated id answers from the tables and changes nothing.                *)
ReserveTurn(q, r) ==
  /\ exists
  /\ \A p \in DOMAIN messages : messages[p].request # q
  /\ Active = {}
  /\ runs[r].status = "absent"
  /\ LET position == Len(messages) + 1 IN
       /\ messages' =
            Append(Append(messages,
                          [role |-> "user", request |-> q, content |-> q]),
                   [role |-> "assistant", request |-> None, content |-> None])
       /\ WriteRow(r, NewRow(position, position + 1, 1))
  /\ UNCHANGED exists

StartRun(r) ==
  /\ runs[r].status = "pending"
  /\ WriteRow(r, [runs[r] EXCEPT !.status = "running", !.stage = "starting",
                                 !.started = TRUE])
  /\ UNCHANGED <<exists, messages>>

(* checkpoint: a running attempt takes stage output until its generation   *)
(* has been claimed.                                                       *)
MayCheckpoint(r) == runs[r].status = "running" /\ runs[r].stage # "generating"

Checkpoint(r, row) ==
  /\ MayCheckpoint(r)
  /\ WriteRow(r, row)
  /\ UNCHANGED <<exists, messages>>

SaveRewrite(r, history) ==
  Checkpoint(r, [runs[r] EXCEPT !.stage = "rewritten", !.rewritten = TRUE,
                                !.snapshot.history = history])

StartRetrieval(r) ==
  Checkpoint(r, [runs[r] EXCEPT !.stage = "retrieving"])

(* The snapshot is the caller's copy with the retrieved sources put in.    *)
SaveRetrieval(r, snapshot) ==
  Checkpoint(r, [runs[r] EXCEPT !.stage = "retrieved", !.snapshot = snapshot])

(* The prompt is merged into the snapshot the locked row holds.            *)
SaveContext(r, prompt) ==
  Checkpoint(r, [runs[r] EXCEPT !.stage = "context_ready",
                                !.snapshot.prompt = prompt])

MayClaimGeneration(r) ==
  /\ runs[r].status = "running"
  /\ runs[r].stage = "context_ready"
  /\ runs[r].snapshot.prompt # None

ClaimGeneration(r) ==
  /\ MayClaimGeneration(r)
  /\ WriteRow(r, [runs[r] EXCEPT !.stage = "generating"])
  /\ UNCHANGED <<exists, messages>>

Complete(r, a) ==
  /\ runs[r].status = "running"
  /\ messages[runs[r].assistant].role = "assistant"
  /\ messages[runs[r].user].role = "user"
  /\ WriteRow(r, [runs[r] EXCEPT !.status = "completed", !.stage = "completed",
                                 !.response = a])
  /\ messages' = [messages EXCEPT ![runs[r].assistant].content = a]
  /\ UNCHANGED exists

(* _terminate on an active attempt; repeating it changes nothing.          *)
Terminate(r, status, error) ==
  /\ r \in Active
  /\ WriteRow(r, [runs[r] EXCEPT !.status = status, !.stage = status,
                                 !.error = error])
  /\ UNCHANGED <<exists, messages>>

Fail(r, error) == Terminate(r, "failed", error)

Cancel(r) == Terminate(r, "cancelled", None)

(* retry of attempt p as the new run r.                                    *)
Retry(p, r) ==
  /\ runs[p].status \in RetryableStatuses
  /\ Active = {}
  /\ \A s \in RunsFor(runs[p].assistant) : runs[s].attempt <= runs[p].attempt
  /\ runs[p].assistant = Len(messages)
  /\ runs[r].status = "absent"
  /\ WriteRow(r, NewRow(runs[p].user, runs[p].assistant, runs[p].attempt + 1))
  /\ UNCHANGED <<exists, messages>>

(* delete: the foreign keys cascade to the messages and the runs.          *)
DeleteConversation ==
  /\ exists
  /\ exists' = FALSE
  /\ messages' = << >>
  /\ runs' = [r \in RunIds |-> NoRow]

-----------------------------------------------------------------------------

(* One operation on run r, with the arguments its callers pass.            *)
RunStep(r) ==
  \/ StartRun(r)
  \/ \E h \in RecentSuffixes(CompletedPairs(runs[r].user)) : SaveRewrite(r, h)
  \/ StartRetrieval(r)
  \/ SaveRetrieval(r, runs[r].snapshot)
  \/ \E p \in RecentSuffixes(runs[r].snapshot.history) : SaveContext(r, p)
  \/ ClaimGeneration(r)
  \/ \E a \in Answers : Complete(r, a)
  \/ \E e \in ErrorCodes : Fail(r, e)
  \/ Cancel(r)

Next ==
  \/ \E q \in Requests, r \in RunIds : ReserveTurn(q, r)
  \/ \E r \in RunIds : RunStep(r)
  \/ \E p, r \in RunIds : Retry(p, r)
  \/ DeleteConversation

Spec == Init /\ [][Next]_serviceVars
-----------------------------------------------------------------------------

TypeOK ==
  /\ exists \in BOOLEAN
  /\ messages \in Seq(Message)
  /\ runs \in [RunIds -> Row]

(* At most one attempt of a conversation is pending or running, the        *)
(* guarantee the partial unique index and _ensure_idle are there for.      *)
OneActiveRun == \A r, s \in Active : r = s

(* An assistant message shows text exactly when one of its attempts has    *)
(* completed, and then it is that attempt's text: partial output of failed *)
(* or cancelled attempts never reaches the reader.                         *)
PublishedByCompletedRun ==
  \A p \in AssistantPositions :
    LET completed == {r \in RunsFor(p) : runs[r].status = "completed"} IN
      IF messages[p].content = None
      THEN completed = {}
      ELSE \E r \in completed : /\ completed = {r}
                                /\ runs[r].response = messages[p].content

(* The attempt the API shows for a message (the greatest attempt number)   *)
(* is the one that is live or has completed, whenever there is one: no     *)
(* older attempt overtakes a retry of it.                                  *)
LatestAttemptDecides ==
  \A r \in Present :
    runs[r].status \in ActiveStatuses \cup {"completed"} =>
      \A s \in RunsFor(runs[r].assistant) \ {r} : runs[s].attempt < runs[r].attempt

(* Work only ever goes on for the newest turn, so what earlier turns hold  *)
(* cannot move under a later question.                                     *)
ActiveRunIsLastTurn ==
  \A r \in Active : runs[r].assistant = Len(messages)

(* Resending a request id finds exactly one message, its placeholder, and  *)
(* a run to report; reserve_turn's "no reserved run" branch is dead.       *)
ResendFindsItsTurn ==
  \A p \in UserPositions :
    /\ \A t \in UserPositions : messages[t].request = messages[p].request => t = p
    /\ p + 1 \in AssistantPositions
    /\ RunsFor(p + 1) # {}
    /\ \A r \in Present : runs[r].user = p <=> runs[r].assistant = p + 1

(* The history a run was given stays a contiguous recent part of the       *)
(* exchanges answered before its question: none between two kept ones is   *)
(* skipped, none without an answer is kept, and no later event of the      *)
(* conversation changes what the recorded history should have been.        *)
HistoryIsRecentSuffix ==
  \A r \in Present :
    LET history == runs[r].snapshot.history
        answered == {p \in UserPositions :
                       p < runs[r].user /\ messages[p + 1].content # None}
    IN /\ history \subseteq answered
       /\ \A p \in history, q \in answered : p < q => q \in history

(* What PostgreSQL enforces on each table: checks, unique constraints,     *)
(* foreign keys, and the index on active runs.  Ids, positions and the     *)
(* types of columns are the model's own.                                   *)
MessagesTable ==
  /\ messages # << >> => exists
  /\ \A p, t \in DOMAIN messages :
       messages[p].request = messages[t].request => p = t \/ messages[p].request = None

RunsTable ==
  /\ \A r \in Present :
       /\ {runs[r].user, runs[r].assistant} \subseteq DOMAIN messages
       /\ runs[r].user # runs[r].assistant
       /\ runs[r].attempt > 0
  /\ \A r, s \in Present :
       runs[r].assistant = runs[s].assistant /\ runs[r].attempt = runs[s].attempt
         => r = s
  /\ OneActiveRun

(* The operations' own checks refuse everything the database would refuse: *)
(* what a caller sees is a ConflictError or a NotFoundError, never an      *)
(* IntegrityError in the middle of a transaction.                          *)
ConstraintsNeverFire == MessagesTable /\ RunsTable

(* A finished attempt is history: late checkpoints, completions, failures  *)
(* and cancellations leave it as it is until the conversation is deleted.  *)
FinishedRunsStay ==
  [][\A r \in RunIds :
       runs[r].status \in TerminalStatuses => runs'[r] = runs[r] \/ ~exists'
    ]_serviceVars

-----------------------------------------------------------------------------
(* The conversation as its reader sees it.                                 *)
Chat == INSTANCE ChatLog WITH
  answer <- [p \in AssistantPositions |-> messages[p].content],
  open <- {runs[r].assistant : r \in Active},
  deleted <- ~exists

(* The tables and their operations implement the log of questions and      *)
(* answers: the reader never sees two answers in progress, an answer that  *)
(* changes, an older turn tried again or a message after the deletion.     *)
ImplementsChat == Chat!Spec
=============================================================================
