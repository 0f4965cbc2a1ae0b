---- MODULE MCPromptBudget ----
(* PromptBudget on small sizes. *)
EXTENDS PromptBudget
====
