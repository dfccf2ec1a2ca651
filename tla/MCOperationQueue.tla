-------------------------- MODULE MCOperationQueue --------------------------
(* Instances of OperationQueue for TLC. *)
EXTENDS OperationQueue, TLC

WorkerSymmetry == Permutations(Workers)

=============================================================================
