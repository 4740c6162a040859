------------------------------ MODULE VMAreas ------------------------------
(***************************************************************************)
(* Address spaces as gosb/commons keeps them: lists of areas, each with an  *)
(* address, a size and rights, sorted by address, where neighbours with the *)
(* same rights are one area.  The lists are walked while they are edited;   *)
(* here an operation is a loop of what it does to one area.                 *)
(*                                                                          *)
(* The doubly linked list (list.go) is a sequence, the loops' cursor a      *)
(* position in it.                                                          *)
(***************************************************************************)
EXTENDS Integers, Sequences, FiniteSets, Functions

CONSTANTS
  Spaces,     \* the lists of the program, e.g. a sandbox's and CommonVMAs
  NPages,     \* bound on the addresses sections have, in pages
  PageSize,   \* in bytes
  LimitPage,  \* the first page above Limit39bits
  Rights      \* rights of sections and of views, without USER_VAL

NONE  == {"-"}

ASSUME VMAssumption ==
  /\ NPages \in Nat \ {0} /\ PageSize \in Nat \ {0} /\ LimitPage \in Nat \ {0}
  /\ \A r, view \in Rights : r \cap view # NONE

Pages == 0 .. NPages - 1
Limit == LimitPage * PageSize

VARIABLES
  space,    \* the lists
  panicked  \* merge met areas with incompatible rights

vars == <<space, panicked>>

Area(addr, size, prot) == [addr |-> addr, size |-> size, prot |-> prot]
End(a) == a.addr + a.size

\* A section starts on a page and has any length; SectVMA gives nil for none.
Sections == {s \in [addr : {p * PageSize : p \in Pages},
                    size : 0 .. NPages * PageSize, prot : Rights] :
               End(s) <= NPages * PageSize}

\* Mutant: the size of a section is rounded down.
SectVMATruncated(s) ==
  Area(s.addr, (s.size \div PageSize) * PageSize, s.prot)
SectVMA(s) ==
  Area(s.addr,
       IF s.size % PageSize = 0 THEN s.size
       ELSE (s.size \div PageSize + 1) * PageSize,
       s.prot)

Areas == {SectVMA(s) : s \in {x \in Sections : x.size > 0}}

\* Two areas, the first with the smaller address.
Ordered(a, b) == IF a.addr > b.addr THEN <<b, a>> ELSE <<a, b>>

Contiguous(a, b) == LET o == Ordered(a, b) IN End(o[1]) = o[2].addr
Intersect(a, b)  == LET o == Ordered(a, b) IN End(o[1]) > o[2].addr

Clash(a, b)  == Intersect(a, b) /\ a.prot # b.prot
Merges(a, b) == a.prot = b.prot /\ (Intersect(a, b) \/ Contiguous(a, b))

\* Mutant: the merged area ends where the larger address' does.
MergedShort(a, b) ==
  LET o == Ordered(a, b)
  IN  Area(o[1].addr, End(o[2]) - o[1].addr, a.prot)
Merged(a, b) ==
  LET o   == Ordered(a, b)
      end == IF End(o[1]) > End(o[2]) THEN End(o[1]) ELSE End(o[2])
  IN  Area(o[1].addr, end - o[1].addr, a.prot)

-----------------------------------------------------------------------------
(* Operations on a list.  "bad" says that merge panicked.                   *)

Result(list, bad) == [list |-> list, bad |-> bad]

\* What a loop over a list has after each turn; what it has before, at 0.
Turns(Turn(_, _), start, list) ==
  LET turn[i \in 0 .. Len(list)] ==
        IF i = 0 THEN start ELSE Turn(turn[i - 1], list[i])
  IN  turn
Loop(Turn(_, _), start, list) == Turns(Turn, start, list)[Len(list)]

\* One turn of Coalesce: the area under the cursor meets the next one.
Absorb(r, b) ==
  LET n == Len(r.list)
      a == r.list[n]
  IN  IF n = 0 THEN Result(<<b>>, r.bad)
      ELSE IF Merges(a, b) THEN Result([r.list EXCEPT ![n] = Merged(a, b)], r.bad)
      ELSE Result(Append(r.list, b), r.bad \/ Clash(a, b))

Coalesce(list) == Loop(Absorb, Result(<<>>, FALSE), list)

\* Convert sorts by address; areas with the same address come in any order.
\* PackageToVMAreas leaves out sections that are empty.
SortedAreas(secs) ==
  LET used == {i \in DOMAIN secs : secs[i].size > 0}
      n    == Cardinality(used)
  IN  {t \in {[i \in 1 .. n |-> SectVMA(secs[f[i]])] : f \in Bijection(1 .. n, used)} :
         \A i, j \in 1 .. n : i < j => t[i].addr <= t[j].addr}

\* Where Map inserts: before the first area with a larger address, which it
\* finds after one with a smaller one, or at the end.
Position(list, a) ==
  IF list = <<>> \/ a.addr < list[1].addr THEN 1
  ELSE 1 + CHOOSE i \in DOMAIN list :
             /\ i = Len(list) \/ a.addr <= list[i + 1].addr
             /\ \A j \in 1 .. i - 1 : a.addr > list[j + 1].addr

Insert(list, a) ==
  LET p == Position(list, a)
  IN  [i \in 1 .. Len(list) + 1 |->
         IF i < p THEN list[i] ELSE IF i = p THEN a ELSE list[i - 1]]

\* Mutant: the area is not merged with its neighbours.
MapInPlain(list, a) == Result(Insert(list, a), FALSE)
MapIn(list, a) ==
  IF list = <<>> THEN Result(<<a>>, FALSE) ELSE Coalesce(Insert(list, a))

\* One turn of Unmap, for area v of the list: it is dropped, loses its end, is
\* split, or loses its start; the last two end the loop.
Cut(w, v, u) ==
  LET below == Area(v.addr, u.addr - v.addr, v.prot)
      above == Area(End(u), End(v) - End(u), v.prot)
      keep(piece, done, split) ==
        [list |-> Append(w.list, piece), done |-> done, split |-> split]
  IN  IF w.done \/ ~Intersect(v, u) THEN keep(v, w.done, w.split)
      ELSE IF v.addr >= u.addr
        THEN IF End(v) <= End(u) THEN w ELSE keep(above, TRUE, w.split)
        ELSE IF End(v) <= End(u) THEN keep(below, FALSE, w.split)
                                 ELSE keep(below, TRUE, <<above>>)

\* What the loop leaves, and the upper half of an area it split.
Trim(list, u) ==
  Loop(LAMBDA w, v : Cut(w, v, u),
       [list |-> <<>>, done |-> FALSE, split |-> <<>>], list)

\* Mutant: the upper half of a split area is lost.
UnmapLosesUpper(list, u) == Trim(list, u).list
\* The upper half is mapped like any other area; that this never panics is
\* shown in the proof of UnmapIs (VMAreasProofs).
Unmap(list, u) ==
  LET w == Trim(list, u)
  IN  IF w.split = <<>> THEN w.list ELSE MapIn(w.list, w.split[1]).list

\* MapArea maps the areas of another list one by one, UnmapArea unmaps them.
MapTurn(r, a) ==
  LET m == MapIn(r.list, a) IN Result(m.list, r.bad \/ m.bad)
MapAll(list, areas)   == Loop(MapTurn, Result(list, FALSE), areas)
UnmapAll(list, areas) == Loop(Unmap, list, areas)

\* The free ranges below the limit; the loop ends at the first area above it.
MirrorTurn(list, v) == IF v.addr < Limit THEN Unmap(list, v) ELSE list
Mirror(list) == Loop(MirrorTurn, <<Area(0, Limit, {})>>, list)

-----------------------------------------------------------------------------
Init == space = [s \in Spaces |-> <<>>] /\ panicked = FALSE

\* A list is edited, or the process panics.
Becomes(r, lists) ==
  IF r.bad THEN panicked' = TRUE /\ UNCHANGED space
  ELSE space' = lists /\ UNCHANGED panicked

\* Convert of the sections of packages, with the rights the view leaves.  It
\* makes a new list; that the other lists are empty too is a bound.
Load(s, secs) ==
  /\ \A t \in Spaces : space[t] = <<>>
  /\ \E sorted \in SortedAreas(secs) :
       LET r == Coalesce(sorted)
       IN  Becomes(r, [space EXCEPT ![s] = r.list])

Map(s, a) ==
  LET r == MapIn(space[s], a)
  IN  Becomes(r, [space EXCEPT ![s] = r.list])

UnmapOne(s, a) ==
  /\ space' = [space EXCEPT ![s] = Unmap(@, a)]
  /\ UNCHANGED panicked

MapArea(s, t) ==
  LET r == MapAll(space[s], space[t])
  IN  Becomes(r, [space EXCEPT ![s] = r.list, ![t] = <<>>])

MapAreaCopy(s, t) ==
  LET r == MapAll(space[s], space[t])
  IN  Becomes(r, [space EXCEPT ![s] = r.list])

UnmapArea(s, t) ==
  /\ space' = [space EXCEPT ![s] = UnmapAll(@, space[t])]
  /\ UNCHANGED panicked

\* The section of a package, as an enclosure with a view of it maps it.
Masked(sec, view) == [sec EXCEPT !.prot = @ \cap view]

Next ==
  \/ /\ ~panicked
     /\ \E s \in Spaces :
          \/ \E a \in Areas : Map(s, a) \/ UnmapOne(s, a)
          \/ \E sec, other \in Sections, view \in Rights :
               Load(s, <<Masked(sec, view), Masked(other, view)>>)
          \/ \E t \in Spaces \ {s} :
               MapArea(s, t) \/ MapAreaCopy(s, t) \/ UnmapArea(s, t)
  \/ panicked /\ UNCHANGED vars

Spec == Init /\ [][Next]_vars

-----------------------------------------------------------------------------
(* What must hold.                                                          *)

\* Every area is whole pages.
TypeOK ==
  /\ panicked \in BOOLEAN
  /\ \A s \in Spaces : \A i \in DOMAIN space[s] :
       LET a == space[s][i]
       IN  /\ a.addr % PageSize = 0 /\ a.size % PageSize = 0
           /\ a.size > 0 /\ End(a) <= NPages * PageSize

\* A list is sorted and disjoint, and no two neighbours could be one area:
\* one address space has one list, whatever the operations that led to it.
Canonical ==
  \A s \in Spaces : \A i \in 1 .. Len(space[s]) - 1 :
    LET a == space[s][i]
        b == space[s][i + 1]
    IN  End(a) <= b.addr /\ (End(a) = b.addr => a.prot # b.prot)

\* The rights a list gives on a page.
Covers(a, p) == a.addr <= p * PageSize /\ p * PageSize < End(a)
RightsOn(list, p) ==
  IF \E i \in DOMAIN list : Covers(list[i], p)
    THEN list[CHOOSE i \in DOMAIN list : Covers(list[i], p)].prot ELSE NONE

\* Mirror is free for the page-table allocator to use: it has every page below
\* the limit that the list has not, and no other.
MirrorComplements ==
  \A s \in Spaces : \A p \in 0 .. LimitPage + NPages :
    RightsOn(Mirror(space[s]), p) # NONE
      <=> p < LimitPage /\ RightsOn(space[s], p) = NONE

\* The lists implement maps from pages to rights: every operation does to the
\* pages what it says, panics exactly when it would give a page rights beside
\* those it has, and Load's result does not depend on how ties are sorted.
P == INSTANCE PageMaps WITH
       Rights <- {r \cap v : r \in Rights, v \in Rights},
       pages  <- [s \in Spaces |-> [p \in Pages |-> RightsOn(space[s], p)]],
       failed <- panicked

IsPageMap == P!PSpec
=============================================================================
