------------------------------- MODULE MCFiles -------------------------------
(* Files for TLC: names that lose a directory, their dots, an illegal      *)
(* character, their middle, or everything.                                 *)
EXTENDS Files, TLC

MCRawNames == {<<"/", ".", "a", "?">>, <<".", ".">>,
               <<"a", "\\", "a", "a", "a", "a", "a", ".", "a">>}

Symmetry == Permutations(Handlers)

=============================================================================
