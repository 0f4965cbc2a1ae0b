----------------------------- MODULE JobLedger -----------------------------
(***************************************************************************)
(* What the statuses of a document promise to whoever watches them, with   *)
(* no messages, workers, locks or faults in sight: both jobs appear at     *)
(* once, each is taken up by one attempt at a time, an attempt ends by     *)
(* finishing, with one result, or by giving up, and what is finished stays *)
(* so.  There is one reservation: who finished without being told so may   *)
(* still call it failed.  DocumentJobs implements this.                    *)
(***************************************************************************)
EXTENDS Naturals

CONSTANTS Documents,
          Kinds        \* of jobs of a document

VARIABLES status,      \* document -> kind -> what its reader is told
          results,     \* document -> kind -> how many were ever saved
          doubted      \* jobs finished by an attempt that does not know it

ledgerVars == <<status, results, doubted>>

Becomes(d, kind, new) == status' = [status EXCEPT ![d][kind] = new]

Init ==
  /\ status = [d \in Documents |-> [kind \in Kinds |-> "absent"]]
  /\ results = [d \in Documents |-> [kind \in Kinds |-> 0]]
  /\ doubted = {}

Accept(d) ==
  /\ \A kind \in Kinds : status[d][kind] = "absent"
  /\ status' = [status EXCEPT ![d] = [kind \in Kinds |-> "pending"]]
  /\ UNCHANGED <<results, doubted>>

TakeUp(d, kind) ==
  /\ status[d][kind] \in {"pending", "failed"}
  /\ Becomes(d, kind, "started")
  /\ UNCHANGED <<results, doubted>>

(* The result and the news of it come in one step.                         *)
Finish(d, kind) ==
  /\ status[d][kind] = "started"
  /\ Becomes(d, kind, "completed")
  /\ results' = [results EXCEPT ![d][kind] = @ + 1]
  /\ doubted' \in {doubted, doubted \cup {<<d, kind>>}}

GiveUp(d, kind) ==
  /\ status[d][kind] = "started" \/ <<d, kind>> \in doubted
  /\ Becomes(d, kind, "failed")
  /\ doubted' = doubted \ {<<d, kind>>}
  /\ UNCHANGED results

(* The attempt that does not know is gone: the job stays finished.         *)
Settle(d, kind) ==
  /\ <<d, kind>> \in doubted
  /\ doubted' = doubted \ {<<d, kind>>}
  /\ UNCHANGED <<status, results>>

Next ==
  \E d \in Documents :
    \/ Accept(d)
    \/ \E kind \in Kinds :
         TakeUp(d, kind) \/ Finish(d, kind) \/ GiveUp(d, kind) \/ Settle(d, kind)

Spec == Init /\ [][Next]_ledgerVars
=============================================================================
