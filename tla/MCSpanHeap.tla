----------------------------- MODULE MCSpanHeap -----------------------------
(* SpanHeap on small instances: each package is seen by the enclosure of its *)
(* name, and an enclosure sees no other.                                     *)
EXTENDS SpanHeap, TLC

MCPkgDeps == [id \in Ids |-> IF id = RUNTIME THEN Sandboxes ELSE {id} \cap Sandboxes]

\* Threads and descriptors are interchangeable; packages are not.
Symmetry == Permutations(Ms) \cup Permutations(Descs)
=============================================================================
