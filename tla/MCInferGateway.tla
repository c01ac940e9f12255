---------------------------- MODULE MCInferGateway ----------------------------
(* Small instances of InferGateway. *)
EXTENDS InferGateway, TLC

Symmetry == Permutations(Tasks)
===============================================================================
