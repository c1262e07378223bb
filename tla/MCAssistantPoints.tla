--------------------------- MODULE MCAssistantPoints ---------------------------
(* Instances of AssistantPoints for TLC. *)
EXTENDS AssistantPoints

Symmetry == Permutations(Calls) \cup Permutations(Orders) \cup Permutations(Users)
===============================================================================
