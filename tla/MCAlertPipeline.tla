-------------------------- MODULE MCAlertPipeline --------------------------
(* A small instance of AlertPipeline for TLC. *)
EXTENDS AlertPipeline, TLC

\* The request slots are interchangeable.
SlotSymmetry == Permutations(Slots)
=============================================================================
