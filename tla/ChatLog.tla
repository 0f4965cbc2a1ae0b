------------------------------ MODULE ChatLog ------------------------------
(***************************************************************************)
(* What one conversation promises its reader, with no runs, retries or     *)
(* workers in sight: questions are asked one after the other, each opens a *)
(* slot for its answer, at most one slot is being answered at a time, an   *)
(* answer is published once and is never changed afterwards, and only the  *)
(* newest slot can be tried again.  ConversationService implements this.   *)
(***************************************************************************)
EXTENDS Naturals

CONSTANTS Answers,   \* texts a model may answer with
          None       \* no answer yet; not one of the texts

VARIABLES answer,    \* slot (the position of its message) -> answer or None
          open,      \* the slots being answered now
          deleted

chatVars == <<answer, open, deleted>>

Slots == DOMAIN answer

(* The slot newer than every other.                                        *)
Newest(s) == s \in Slots /\ \A t \in Slots : t <= s

Init ==
  /\ answer = [s \in {} |-> None]
  /\ open = {}
  /\ deleted = FALSE

(* A question is asked while nothing is being answered; its slot is newer  *)
(* than all the others, which keep what they hold.                         *)
Ask ==
  /\ ~deleted /\ ~deleted'
  /\ open = {}
  /\ \E s \in DOMAIN answer' :
       /\ open' = {s}
       /\ \A t \in Slots : t < s
       /\ answer' = [t \in Slots \cup {s} |-> IF t = s THEN None ELSE answer[t]]

Publish ==
  /\ \E s \in open \cap Slots, a \in Answers :
       /\ answer[s] = None
       /\ answer' = [answer EXCEPT ![s] = a]
  /\ open' = {}
  /\ UNCHANGED deleted

GiveUp ==
  /\ open # {} /\ open' = {}
  /\ UNCHANGED <<answer, deleted>>

Reopen ==
  /\ open = {}
  /\ \E s \in Slots : Newest(s) /\ answer[s] = None /\ open' = {s}
  /\ UNCHANGED <<answer, deleted>>

Delete ==
  /\ ~deleted /\ deleted'
  /\ answer' = [s \in {} |-> None]
  /\ open' = {}

Next == Ask \/ Publish \/ GiveUp \/ Reopen \/ Delete

Spec == Init /\ [][Next]_chatVars
=============================================================================
