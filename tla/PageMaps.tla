------------------------------ MODULE PageMaps ------------------------------
(***************************************************************************)
(* What an address space is to its users: the rights on each page, or none. *)
(* Spaces are filled, added to and taken from; a page has one set of rights *)
(* in a space, and giving it others is an error that stops the program.     *)
(***************************************************************************)
EXTENDS Naturals, Sequences

CONSTANTS Spaces, NPages, Rights

NONE  == {"-"}
Pages == 0 .. NPages - 1
Empty == [p \in Pages |-> NONE]

VARIABLES
  pages,   \* per space, the rights on each page
  failed   \* rights were in conflict

pvars == <<pages, failed>>

Ranges == {lo .. hi : lo \in Pages, hi \in Pages}
Give(f, R, r) == [p \in Pages |-> IF p \in R THEN r ELSE f[p]]
Joins(f, g)   == \A p \in Pages : NONE \in {f[p], g[p]} \/ f[p] = g[p]
Union(f, g)   == [p \in Pages |-> IF g[p] = NONE THEN f[p] ELSE g[p]]

PInit == pages = [s \in Spaces |-> Empty] /\ failed = FALSE

\* Add g to space s, or fail.
Add(s, g) ==
  IF Joins(pages[s], g)
    THEN pages' = [pages EXCEPT ![s] = Union(@, g)] /\ UNCHANGED failed
    ELSE failed' = TRUE /\ UNCHANGED pages

MapRange(s, R, r) == Add(s, Give(Empty, R, r))
UnmapRange(s, R) ==
  pages' = [pages EXCEPT ![s] = Give(@, R, NONE)] /\ UNCHANGED failed

\* An empty space is filled with two ranges at once.
Fill(s, R, r, Q, q) ==
  IF Joins(Give(Empty, R, r), Give(Empty, Q, q))
    THEN /\ pages' = [pages EXCEPT ![s] = Give(Give(Empty, R, r), Q, q)]
         /\ UNCHANGED failed
    ELSE failed' = TRUE /\ UNCHANGED pages

\* What space t has is moved to s, copied to it, or taken from it.
Move(s, t) ==
  IF Joins(pages[s], pages[t])
    THEN /\ pages' = [pages EXCEPT ![s] = Union(@, pages[t]), ![t] = Empty]
         /\ UNCHANGED failed
    ELSE failed' = TRUE /\ UNCHANGED pages
CopyTo(s, t) == Add(s, pages[t])
Take(s, t) ==
  /\ pages' = [pages EXCEPT ![s] =
                 [p \in Pages |-> IF pages[t][p] = NONE THEN @[p] ELSE NONE]]
  /\ UNCHANGED failed

PNext ==
  /\ ~failed
  /\ \E s \in Spaces :
       \/ \E R \in Ranges : \/ \E r \in Rights : MapRange(s, R, r)
                            \/ UnmapRange(s, R)
       \/ \E t \in Spaces \ {s} : Move(s, t) \/ CopyTo(s, t) \/ Take(s, t)
       \/ /\ pages[s] = Empty
          /\ \E R, Q \in Ranges, r, q \in Rights : Fill(s, R, r, Q, q)

PSpec == PInit /\ [][PNext]_pvars
=============================================================================
