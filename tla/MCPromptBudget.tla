--------------------------- MODULE MCPromptBudget ---------------------------
(* PromptBudget with the real numbers of class C256.                       *)
EXTENDS PromptBudget
=============================================================================
