---------------------------- MODULE MCMPKSwitch ----------------------------
(* MPKSwitch on small instances.                                            *)
EXTENDS MPKSwitch, TLC

\* As in MCEncSwitch: all but what Init names is interchangeable.
Symmetry ==
  Permutations(Gs \ {MainG}) \cup Permutations(Ms \ {M0})
    \cup Permutations(Sandboxes)
=============================================================================
