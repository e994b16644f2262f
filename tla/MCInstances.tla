----------------------------- MODULE MCInstances -----------------------------
(* Instances for TLC.  Ids, containers and handlers are interchangeable: no  *)
(* definition tells two of them apart.                                      *)
EXTENDS Instances, TLC

Symmetry == Permutations(Ids) \cup Permutations(Containers)
                \cup Permutations(Handlers)

=============================================================================
