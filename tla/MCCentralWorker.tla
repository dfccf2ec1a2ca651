--------------------------- MODULE MCCentralWorker ---------------------------
(* Instances of CentralWorker for TLC. *)
EXTENDS CentralWorker, TLC

CONSTANTS p1, p2, a1, a2, k1

Ask(slot, agent, write, keys) ==
  [slot |-> slot, project |-> p1, agent |-> agent, write |-> write, keys |-> keys]

OneWrite == {Ask(TRUE, a1, TRUE, {})}

\* A read in another project, and writes with and without a key.
ReadAndWrites == {[Ask(TRUE, a1, FALSE, {}) EXCEPT !.project = p2],
                  Ask(TRUE, a1, TRUE, {}), Ask(TRUE, a2, TRUE, {k1})}

\* A write and a steer.
WriteAndSteer == OneWrite \cup {Ask(FALSE, a1, FALSE, {})}

Symmetric == Permutations(Operations)

=============================================================================
