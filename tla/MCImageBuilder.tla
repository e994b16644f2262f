---------------------------- MODULE MCImageBuilder ----------------------------
(* ImageBuilder for TLC.  Projects are interchangeable, and so are blocks:   *)
(* they are only ever compared.  For safety runs only.                       *)
EXTENDS ImageBuilder, TLC

Symmetry == Permutations(Projects) \cup Permutations(Blocks)

=============================================================================
