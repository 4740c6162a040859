----------------------------- MODULE MCVMAreas -----------------------------
(* VMAreas on small instances.                                              *)
EXTENDS VMAreas, TLC

MCRights == {{"R"}, {"R", "W"}}

\* The lists are interchangeable.
Symmetry == Permutations(Spaces)
=============================================================================
