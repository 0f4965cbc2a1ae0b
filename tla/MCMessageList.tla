---------------------------- MODULE MCMessageList ----------------------------
(* MessageList on a small instance: two turns of which one is tried twice, *)
(* or one turn tried three times, read in pages of one and of three.       *)
EXTENDS MessageList, TLC

CONSTANTS r1, r2, r3, q1, q2, a1

MCRunIds == {r1, r2, r3}
MCRequests == {q1, q2}
MCAnswers == {a1}
MCErrorCodes == {"answer_empty"}

(* Run ids and request ids are only ever compared for equality.            *)
MCSymmetry == Permutations(MCRunIds) \cup Permutations(MCRequests)
=============================================================================
