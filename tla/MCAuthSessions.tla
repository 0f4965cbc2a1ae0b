--------------------------- MODULE MCAuthSessions ---------------------------
(* AuthSessions on a small instance; the bounds are in the .cfg file.      *)
EXTENDS AuthSessions, TLC

(* Keys, tokens and requests are only ever compared for equality.          *)
MCSymmetry == Permutations(Sessions) \cup Permutations(Tokens)
                \cup Permutations(Calls)
=============================================================================
