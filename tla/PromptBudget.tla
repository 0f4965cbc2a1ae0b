----------------------------- MODULE PromptBudget -----------------------------
(***************************************************************************)
(* What one attempt puts into its prompts: the part of the conversation    *)
(* HistoryService.load takes, the query QueryRewriteService makes of it,   *)
(* the passages the vector store finds, and what AnswerContextService.build*)
(* fits into the model's window.  ConversationService leaves the sizes out *)
(* and lets any recent part of the history be kept; here every text is its *)
(* number of tokens, message framing included.                             *)
(*                                                                         *)
(* The conversation is read under no lock, but nothing in it below the     *)
(* question can change while the question's attempt is active.             *)
(*                                                                         *)
(* The tokens of a joined text are taken to be the sum of its parts'.      *)
(* Blank questions, answers and chunks are refused where they are written, *)
(* so the skips for them are left out.  The columns of the memory are read *)
(* here and written by a test only; they may hold anything.                *)
(***************************************************************************)
EXTENDS Naturals, SequencesExt

CONSTANTS HistoryBudget,   \* token_budget of rewrite_run
          MaxExchanges,    \* max_exchanges
          K,               \* passages asked of the vector store
          PromptLimit,     \* context_window - answer_tokens
          Instructions,    \* the system message and the reply priming
          NoEvidence,      \* the text that stands for no passages
          Sizes,           \* of questions, exchanges and passages
          MemorySizes,     \* of saved memories, with the label before them
          MaxLength,       \* bound on earlier exchanges
          MaxChunks,       \* bound on chunks stored
          None

ASSUME BudgetAssumption ==
  /\ {HistoryBudget, PromptLimit, Instructions, NoEvidence} \subseteq Nat
  /\ {MaxExchanges, K} \subseteq Nat \ {0}
  /\ Sizes \cup MemorySizes \subseteq Nat \ {0}
  /\ {MaxLength, MaxChunks} \subseteq Nat
  /\ None \notin Nat

VARIABLES at,         \* the stage of the attempt
          question,   \* size of the question
          earlier,    \* the exchanges before it
          memory,     \* conversations.memory_summary and its position, or None
          chunks,     \* the project's stored chunks, nearest first
          history,    \* what load returned, captured on the run
          query,      \* what retrieval searches for
          found,      \* what retrieval returned
          context     \* what build returned

vars == <<at, question, earlier, memory, chunks, history, query, found, context>>

-----------------------------------------------------------------------------

(* An exchange without an answer, and a chunk outside the active, complete *)
(* generation of its document or of another embedding model, are there and *)
(* never read: None.                                                       *)
Texts == Sizes \cup {None}

(* Positions count messages: exchange i is at 2i - 1 and 2i.               *)
QuestionAt(i) == 2 * i - 1
Before == 2 * Len(earlier) + 1

Cost(texts) ==
  LET sum[n \in 0..Len(texts)] == IF n = 0 THEN 0 ELSE sum[n - 1] + texts[n].size
  IN sum[Len(texts)]

(* The rows of a table at some of its places, in their order.              *)
Select(rows, places) ==
  LET selected[n \in 0..Len(rows)] ==
        IF n = 0 THEN << >>
        ELSE IF n \in places THEN Append(selected[n - 1], rows[n]) ELSE selected[n - 1]
  IN selected[Len(rows)]

(* The last n turns.                                                       *)
Newest(turns, n) == SubSeq(turns, Len(turns) - n + 1, Len(turns))

(* The exchanges before the question, answered or not.                     *)
Exchanges == [i \in DOMAIN earlier |-> [at |-> QuestionAt(i), size |-> earlier[i]]]

History(saved, turns) == [memory |-> saved, turns |-> turns]
HistoryCost(h) == h.memory + Cost(h.turns)

(***************************************************************************)
(* Mutants: plausible mistakes in the code below, which the properties     *)
(* must notice.  They are no part of the specification.                    *)
(***************************************************************************)

(* continue instead of break at an exchange that does not fit.             *)
FittingTurns(turns, room) ==
  FoldRight(LAMBDA turn, kept : IF Cost(kept) + turn.size <= room
                                THEN <<turn>> \o kept ELSE kept,
            turns, << >>)

(* Retrieval order is also importance: stop at the first that is too long. *)
LeadingPassages(asked) ==
  FoldLeft(LAMBDA kept, p :
             IF /\ kept = SubSeq(found, 1, p.rank - 1)
                /\ Instructions + asked + Cost(kept) + p.size <= PromptLimit
             THEN Append(kept, p) ELSE kept,
           << >>, found)

(* The room left is measured before the passages are in.                   *)
RoomBesideNothing(asked, passages) ==
  PromptLimit - (Instructions + asked + NoEvidence)
-----------------------------------------------------------------------------

(* budget_history's loop: from the newest exchange back while they fit;    *)
(* one is taken when all newer ones were and it still fits.                *)
RecentTurns(turns, room) ==
  LET kept[n \in 0..Len(turns)] ==
        IF n = 0 THEN 0
        ELSE LET newer == kept[n - 1] IN
             IF newer = n - 1 /\ Cost(Newest(turns, n)) <= room THEN n ELSE newer
  IN Newest(turns, kept[Len(turns)])

(* A memory that is there is kept when it fits in half of the budget.      *)
BudgetHistory(turns, saved, budget) ==
  LET kept == IF saved <= budget \div 2 THEN saved ELSE 0
  IN History(kept, RecentTurns(turns, budget - kept))

(* HistoryService.load.  A memory that reaches the question is not used,   *)
(* and the turns of one that is not used are read themselves.              *)
LoadHistory ==
  LET saved == IF memory = None \/ memory.through >= Before THEN 0 ELSE memory.size
      after == IF BudgetHistory(<< >>, saved, HistoryBudget).memory # 0
               THEN memory.through ELSE 0
      rows == Select(Exchanges, {i \in DOMAIN earlier :
                                   earlier[i] # None /\ QuestionAt(i) > after})
  IN BudgetHistory(Newest(rows, Min({MaxExchanges, Len(rows)})), saved, HistoryBudget)

(* similarity_search and the labels to_source gives its results.           *)
SimilaritySearch(k) ==
  LET searched == Select(chunks, {c \in DOMAIN chunks : chunks[c] # None})
      nearest == SubSeq(searched, 1, Min({k, Len(searched)}))
  IN [i \in DOMAIN nearest |-> [rank |-> i, size |-> nearest[i]]]

(* build's loop over the passages: one that does not fit is passed over.   *)
FittingPassages(asked) ==
  LET kept[n \in 0..Len(found)] ==
        IF n = 0 THEN << >>
        ELSE LET before == kept[n - 1] IN
             IF Instructions + asked + Cost(before) + found[n].size <= PromptLimit
             THEN Append(before, found[n]) ELSE before
  IN kept[Len(found)]

(* prompt_tokens of the prompt without history.                            *)
Rendered(asked, passages) ==
  Instructions + asked + (IF passages = << >> THEN NoEvidence ELSE Cost(passages))

(* What is left for history once the passages are in.                      *)
RoomForHistory(asked, passages) == PromptLimit - Rendered(asked, passages)

(* build, after its check that instructions and question fit.  fit_history *)
(* takes the captured history apart and budgets it again.                  *)
Build ==
  LET passages == FittingPassages(question)
      room == RoomForHistory(question, passages)
      kept == BudgetHistory(history.turns, history.memory, room)
  IN [history |-> kept,
      sources |-> passages,
      candidates |-> [i \in DOMAIN found |->
                        [rank |-> i, selected |-> \E j \in DOMAIN passages :
                                                    passages[j].rank = i]],
      tokens |-> Rendered(question, passages) + HistoryCost(kept)]

-----------------------------------------------------------------------------

UpTo(n, set) == UNION {[1..m -> set] : m \in 0..n}

Init ==
  /\ at = "starting"
  /\ question \in Sizes
  /\ earlier \in UpTo(MaxLength, Texts)
  /\ memory \in {None} \cup [size : MemorySizes, through : {2 * i : i \in 1..MaxLength}]
  /\ memory # None => memory.through <= 2 * Len(earlier) + 2
  /\ chunks = << >>
  /\ history = History(0, << >>)
  /\ query = None
  /\ found = << >>
  /\ context = None

(* rewrite_run: without history the question is searched as it is and no   *)
(* model is asked; an answer of the model that validate_rewrite refuses,   *)
(* or no answer, leaves the question too.                                  *)
Rewrite ==
  /\ at = "starting"
  /\ at' = "rewritten"
  /\ history' = LoadHistory
  /\ query' \in IF history'.memory = 0 /\ history'.turns = << >>
                THEN {"question"} ELSE {"question", "rewritten"}
  /\ UNCHANGED <<question, earlier, memory, chunks, found, context>>

(* What the project's chunks are by now, and what a search for the query   *)
(* finds nearest, is the embeddings' business.                             *)
Retrieve ==
  /\ at = "rewritten"
  /\ at' = "retrieved"
  /\ chunks' \in UpTo(MaxChunks, Texts)
  /\ found' = SimilaritySearch(K)'
  /\ UNCHANGED <<question, earlier, memory, history, query, context>>

Assemble ==
  /\ at = "retrieved"
  /\ IF Rendered(question, << >>) <= PromptLimit
     THEN at' = "context_ready" /\ context' = Build
     ELSE at' = "failed" /\ UNCHANGED context
  /\ UNCHANGED <<question, earlier, memory, chunks, history, query, found>>

Next == Rewrite \/ Retrieve \/ Assemble

Spec == Init /\ [][Next]_vars
-----------------------------------------------------------------------------

Assembled == at = "context_ready"

(* The prompt the model is given, counted from its parts, leaves the whole *)
(* answer allowance free, and the estimate saved with it is its size.      *)
PromptFits ==
  Assembled =>
    LET evidence == IF context.sources = << >> THEN NoEvidence
                    ELSE Cost(context.sources)
        tokens == Instructions + question + evidence + HistoryCost(context.history)
    IN tokens <= PromptLimit /\ context.tokens = tokens

(* Evidence is never given up without need: a passage that was left out    *)
(* would not fit beside those that were kept.  The kept ones are in order, *)
(* carry the ranks they have among the searched chunks, and exactly they   *)
(* are marked as selected.                                                 *)
EvidenceIsMaximal ==
  Assembled =>
    LET kept == {context.sources[i].rank : i \in DOMAIN context.sources} IN
      /\ \A i \in DOMAIN found \ kept :
           Instructions + question + Cost(context.sources) + found[i].size > PromptLimit
      /\ \A i, j \in DOMAIN context.sources :
           i < j => context.sources[i].rank < context.sources[j].rank
      /\ \A i \in DOMAIN found :
           /\ context.candidates[i].selected <=> i \in kept
           /\ \E c \in DOMAIN chunks :
                chunks[c] = found[i].size
                  /\ Cardinality({d \in 1..c : chunks[d] # None}) = i

(* The greatest part of turns, taken from the newest back, that fits.      *)
LongestSuffix(turns, room) ==
  Newest(turns, Max({n \in 0..Len(turns) : Cost(Newest(turns, n)) <= room}))

(* The exchanges before the question that have an answer.                  *)
Answered == {i \in DOMAIN earlier : earlier[i] # None}

(* Both budgets keep a gapless recent part of the conversation, as long as *)
(* can be, with every exchange told once: either in the memory or in full. *)
(* Turns a memory would have replaced are read when it is not used.        *)
HistoryIsLongestSuffix ==
  LET told == IF history.memory = 0 THEN {}
              ELSE {i \in Answered : QuestionAt(i) <= memory.through}
      recent == LongestSuffix(Select(Exchanges, Answered \ told),
                              HistoryBudget - history.memory)
      asked == Newest(recent, Min({MaxExchanges, Len(recent)}))
  IN /\ at # "starting" => history.turns = asked
     /\ history.memory # 0 => memory.through < Before
     /\ Assembled =>
          context.history.turns =
            LongestSuffix(history.turns,
                          RoomForHistory(question, context.sources)
                            - context.history.memory)
=============================================================================
