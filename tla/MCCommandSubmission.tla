------------------------ MODULE MCCommandSubmission ------------------------
(* CommandSubmission on small instances. *)
EXTENDS CommandSubmission, TLC

RequestSymmetry == Permutations(Requests)
============================================================================
