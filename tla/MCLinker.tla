------------------------------ MODULE MCLinker -------------------------------
EXTENDS Linker, TLC

CONSTANTS A, B, p, q, ghost

\* p imports q; gosb, runtime/cgo and q the runtime, which imports nothing.
MCDeps == [n \in Pkgs |-> CASE n = p -> {q}
                            [] n \in {q, GOSB, CGO} -> {RUNTIME}
                            [] OTHER -> {}]
MCRank == [n \in Names |-> CASE n = GOSB -> 1 [] n = p -> 2 [] n = q -> 3
                             [] n = RUNTIME -> 4 [] n = CGO -> 5 [] n = CGO2 -> 6
                             [] n = TYPENAME -> 7 [] OTHER -> 8]
\* Enclosures are interchangeable: only MCRank and MCDeps name anything.
Symmetry == Permutations(Sandboxes)
=============================================================================
