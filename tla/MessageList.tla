----------------------------- MODULE MessageList -----------------------------
(***************************************************************************)
(* A reader of one conversation beside everything that writes to it: the   *)
(* page of messages with their latest attempts, and the list of attempts.  *)
(* Every statement of a request sees what is committed when it runs, so a  *)
(* page of messages and the attempts shown beside it come from two states  *)
(* of the tables.  The client asks for one page after another, as the API  *)
(* documentation tells it to.                                              *)
(***************************************************************************)
EXTENDS ConversationService, SequencesExt

CONSTANT Limits        \* page sizes a client asks for

ASSUME LimitsAssumption == Limits \subseteq 1..200

(* The null that ends a walk is no position.                               *)
ASSUME CursorAssumption == None \notin Nat

VARIABLES newest,      \* the runs, by created_at, newest first
          reader       \* the request in progress and what the walk has so far

vars == <<exists, messages, runs, newest, reader>>

-----------------------------------------------------------------------------
(* The fields of a run's row that its view shows.                          *)
ViewOf(r) == [run |-> r, status |-> runs[r].status,
              attempt |-> runs[r].attempt, response |-> runs[r].response]

(* page: the messages the request has selected, without their attempts.    *)
(* shown: positions, or runs, of the pages the walk has got, in order.     *)
(* seen: how many messages there were when the page was selected.          *)
(* known: the runs there were when the walk began.                         *)
NoWalk == [at |-> "idle", limit |-> 0, after |-> 0, page |-> << >>,
           shown |-> << >>, seen |-> 0, known |-> {}]

At(step) == reader.at = step

(* OFFSET and LIMIT.                                                       *)
Slice(rows, offset, limit) ==
  SubSeq(rows, offset + 1, Min({offset + limit, Len(rows)}))

NotFound == reader' = NoWalk

-----------------------------------------------------------------------------
(* Mutants: plausible mistakes in the reads, which the properties must     *)
(* notice.  They are no part of the specification.                         *)

(* The first attempt found for a message instead of the last.              *)
FirstRun(p) ==
  {ViewOf(r) : r \in {s \in RunsFor(p) :
     \A t \in RunsFor(p) : runs[s].attempt <= runs[t].attempt}}

(* The cursor names the next position, and the filter stays "after".       *)
CursorOfTheNext(page, limit) ==
  IF Len(page) = limit THEN Last(page).position + 1 ELSE None

-----------------------------------------------------------------------------

(* list_messages: the messages after a position, the first limit of them.  *)
MessagesAfter(position, limit) ==
  Slice([p \in DOMAIN messages |->
           [position |-> p, role |-> messages[p].role,
            content |-> messages[p].content]], position, limit)

(* latest_message_runs: of a message's attempts ordered by number from the *)
(* greatest down, the first; a set of one view or none.                    *)
LatestRun(p) ==
  {ViewOf(r) : r \in {s \in RunsFor(p) :
     \A t \in RunsFor(p) : runs[t].attempt <= runs[s].attempt}}

(* The cursor of a page: null unless the page is full.                     *)
Cursor(page, limit) ==
  IF Len(page) = limit THEN Last(page).position ELSE None

(* list_runs: newest first, by offset.                                     *)
RunsPage(offset, limit) == Slice(newest, offset, limit)

-----------------------------------------------------------------------------

ListInit ==
  /\ Init
  /\ newest = << >>
  /\ reader = NoWalk

StartWalk(step, limit) ==
  /\ At("idle")
  /\ reader' = [NoWalk EXCEPT !.at = step, !.limit = limit, !.known = Present]
  /\ UNCHANGED <<serviceVars, newest>>

(* list_messages of the service.  A conversation deleted between its two   *)
(* statements gives an empty page, and the request then ends as it does    *)
(* when the first finds nothing: the next step looks again.                *)
ReadPage ==
  /\ At("messages")
  /\ IF exists
     THEN reader' = [reader EXCEPT !.at = "conversation",
                                   !.page = MessagesAfter(reader.after, reader.limit),
                                   !.seen = Len(messages)]
     ELSE NotFound
  /\ UNCHANGED <<serviceVars, newest>>

(* latest_message_runs up to its get.                                      *)
ReadConversation ==
  /\ At("conversation")
  /\ IF exists THEN reader' = [reader EXCEPT !.at = "latest"] ELSE NotFound
  /\ UNCHANGED <<serviceVars, newest>>

(* What the request returns: the page's messages, the assistant's with its *)
(* attempt as read now.                                                    *)
PageViews ==
  LET view(m) == [position |-> m.position, role |-> m.role, content |-> m.content,
                  latest |-> IF m.role = "assistant" THEN LatestRun(m.position)
                             ELSE {}]
  IN [i \in DOMAIN reader.page |-> view(reader.page[i])]

Positions == [i \in DOMAIN reader.page |-> reader.page[i].position]

(* The rest of the request; the client goes on from the cursor until it is *)
(* null.                                                                   *)
ReadLatestRuns ==
  /\ At("latest")
  /\ LET cursor == Cursor(reader.page, reader.limit) IN
       reader' = IF cursor = None THEN NoWalk
                 ELSE [reader EXCEPT !.at = "messages", !.after = cursor,
                                     !.page = << >>, !.shown = @ \o Positions]
  /\ UNCHANGED <<serviceVars, newest>>

(* list_runs; the client stops at a page that is not full.                 *)
ReadRuns ==
  /\ At("runs")
  /\ LET page == RunsPage(reader.after, reader.limit) IN
       IF exists /\ Len(page) = reader.limit
       THEN reader' = [reader EXCEPT !.after = @ + reader.limit,
                                     !.shown = @ \o page]
       ELSE NotFound
  /\ UNCHANGED <<serviceVars, newest>>

(* The operations that write.  A row gets its created_at while the         *)
(* conversation is locked, so rows are created in the order of their times.*)
Tables ==
  /\ \/ \E r \in RunIds :
          /\ (\E q \in Requests : ReserveTurn(q, r)) \/ (\E p \in RunIds : Retry(p, r))
          /\ newest' = <<r>> \o newest
     \/ (\E r \in RunIds : RunStep(r)) /\ UNCHANGED newest
     \/ DeleteConversation /\ newest' = << >>
  /\ UNCHANGED reader

Read ==
  \/ \E step \in {"messages", "runs"}, limit \in Limits : StartWalk(step, limit)
  \/ ReadPage
  \/ ReadConversation
  \/ ReadLatestRuns
  \/ ReadRuns

ListNext == Tables \/ Read

ListSpec == ListInit /\ [][ListNext]_vars

-----------------------------------------------------------------------------

(* An assistant message shown with text has a completed latest attempt     *)
(* with that text.                                                         *)
TextHasItsRun(view) ==
  view.content # None =>
    \E latest \in view.latest :
      latest.status = "completed" /\ latest.response = view.content

(* An answer committed before a page's attempts were read is on the page:  *)
(* in the message, or, when it came after the messages were read, in the   *)
(* attempt beside the empty text.                                          *)
AnswerIsShown(view) ==
  LET answer == messages[view.position].content IN
    answer # None =>
      \/ view.content = answer
      \/ \E latest \in view.latest : latest.response = answer

(* The page a client gets never misleads it, whatever was committed        *)
(* between the two statements that read it, unless the conversation was    *)
(* deleted in between.                                                     *)
PagesAreTruthful ==
  [][ReadLatestRuns /\ exists =>
       \A i \in DOMAIN PageViews :
         PageViews[i].role = "assistant" =>
           TextHasItsRun(PageViews[i]) /\ AnswerIsShown(PageViews[i])]_vars

(* Following the cursor until it is null yields every message there was    *)
(* when the last page was read, once, in order, while turns are added.     *)
WalkIsWhole ==
  ReadLatestRuns /\ reader'.at = "idle" =>
    reader.shown \o Positions = [p \in 1..reader.seen |-> p]

(* Paging the attempts by offset repeats some when attempts are added, and *)
(* still shows every attempt there was when the walk began.                *)
RunsWalkMissesNone ==
  ReadRuns /\ exists /\ reader'.at = "idle" =>
    reader.known \subseteq
      ToSet(reader.shown \o RunsPage(reader.after, reader.limit))

(* A client that reads page after page while turns and attempts are added  *)
(* misses nothing, and gets the messages in order and once.                *)
WalksMissNothing == [][WalkIsWhole /\ RunsWalkMissesNone]_vars
=============================================================================
