----------------------- MODULE MCConversationPipeline -----------------------
(* ConversationPipeline on small instances; the bounds are in the .cfg     *)
(* files.                                                                  *)
EXTENDS ConversationPipeline, TLC

(* An answer error of generate_run's own and the one it shares with        *)
(* process; the other three codes behave like the first.                   *)
MCAnswerErrors == {"answer_empty", "answer_generation_failed"}

MCErrorCodes == MCAnswerErrors \cup StageErrors \cup {"queue_unavailable"}

(* Sound for the safety runs: ids, slots and answers are interchangeable.  *)
MCSymmetry == Permutations(RunIds) \cup Permutations(Workers)
                \cup Permutations(Requests)
=============================================================================
