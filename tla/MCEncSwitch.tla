---------------------------- MODULE MCEncSwitch ----------------------------
(* EncSwitch on small instances.                                            *)
EXTENDS EncSwitch, TLC

\* Goroutines and vCPUs other than the ones Init names are interchangeable,
\* and so are the sandboxes and the threads not running at the start.
Symmetry ==
  Permutations(Gs \ {MainG}) \cup Permutations(Ms \ {M0})
    \cup Permutations(Sandboxes) \cup Permutations(VCPUs)
=============================================================================
