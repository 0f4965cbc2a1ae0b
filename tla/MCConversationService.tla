----------------------- MODULE MCConversationService -----------------------
(* ConversationService on a small instance: with three request ids and     *)
(* three run ids there can be three turns, one turn tried three times, or  *)
(* a retried turn followed by another.                                     *)
EXTENDS ConversationService, TLC

CONSTANTS r1, r2, r3, q1, q2, q3, a1, a2

MCRunIds == {r1, r2, r3}
MCRequests == {q1, q2, q3}
MCAnswers == {a1, a2}
MCErrorCodes == {"answer_empty"}

(* Run ids, request ids and answers are only ever compared for equality.   *)
MCSymmetry == Permutations(MCRunIds) \cup Permutations(MCRequests)
                \cup Permutations(MCAnswers)
=============================================================================
