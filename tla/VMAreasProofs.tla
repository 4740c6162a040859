--------------------------- MODULE VMAreasProofs ---------------------------
(***************************************************************************)
(* The lists of VMAreas for lists of any length, any page size and any      *)
(* number of pages.                                                         *)
(*                                                                          *)
(* Every operation is a loop over a list, so what it computes is shown by   *)
(* induction on the number of turns.  The induction is the least number     *)
(* principle, stated for a set of numbers (those for which something        *)
(* holds), since a theorem about a predicate cannot be instantiated.        *)
(***************************************************************************)
EXTENDS VMAreas, WellFoundedInduction, FiniteSetTheorems, TLAPS

-----------------------------------------------------------------------------
(* Induction.                                                               *)

\* A set of numbers that is not empty has a least one.
LEMMA Least ==
  ASSUME NEW T, T \subseteq Nat, T # {}
  PROVE  \E n \in T : \A k \in T : n <= k
<1> DEFINE R == {ss \in Nat \X Nat : ss[1] < ss[2]}
<1>1. IsWellFoundedOn(R, Nat) BY NatLessThanWellFounded, Zenon DEF OpToRel
<1>2. PICK n \in T : \A k \in T : ~(<<k, n>> \in R)
  <2> HIDE DEF R
  <2> QED BY <1>1, WFMin
<1>3. \A k \in T : ~(k < n) BY <1>2
<1> QED BY <1>3

\* Induction: a set that has 0 and with n also n + 1 has every number.
LEMMA Naturals ==
  ASSUME NEW T, 0 \in T, \A n \in Nat : n \in T => n + 1 \in T
  PROVE  \A n \in Nat : n \in T
<1> SUFFICES ASSUME NEW x \in Nat, x \notin T PROVE FALSE OBVIOUS
<1>1. Nat \ T # {} /\ Nat \ T \subseteq Nat OBVIOUS
<1>2. PICK n \in Nat \ T : \A k \in Nat \ T : n <= k BY <1>1, Least
<1>3. n # 0 /\ n - 1 \in Nat /\ n - 1 \in T BY <1>2
<1> QED BY <1>2, <1>3

\* The same of the numbers up to n.
LEMMA Upto ==
  ASSUME NEW T, NEW n \in Nat, 0 \in T, \A i \in 0 .. n - 1 : i \in T => i + 1 \in T
  PROVE  \A i \in 0 .. n : i \in T
<1> DEFINE U == {i \in Nat : i <= n => i \in T}
<1>1. 0 \in U OBVIOUS
<1>2. \A i \in Nat : i \in U => i + 1 \in U OBVIOUS
<1>3. \A i \in Nat : i \in U
  <2> HIDE DEF U
  <2> QED BY <1>1, <1>2, Naturals
<1> QED BY <1>3

\* A loop of n turns over states V has a run.
IsLoop(V, n, b, step) == n \in Nat /\ b \in V /\ step \in [1 .. n -> [V -> V]]
IsRun(h, V, n, b, step) ==
  h \in [0 .. n -> V] /\ h[0] = b /\ \A i \in 1 .. n : h[i] = step[i][h[i - 1]]

\* A loop of which each turn keeps the type has a run.
LEMMA RunExists ==
  ASSUME NEW V, NEW n, NEW b, NEW step, IsLoop(V, n, b, step)
  PROVE  \E h : IsRun(h, V, n, b, step)
<1> USE DEF IsLoop
<1> DEFINE Run(h, k) == h[0] = b /\ \A i \in 1 .. k : h[i] = step[i][h[i - 1]]
           T == {k \in Nat : \E h \in [0 .. k -> V] : Run(h, k)}
<1>1. 0 \in T
  <2> DEFINE h == [i \in 0 .. 0 |-> b]
  <2>1. h \in [0 .. 0 -> V] /\ Run(h, 0) OBVIOUS
  <2> QED BY <2>1
<1>2. ASSUME NEW k \in 0 .. n - 1, k \in T PROVE k + 1 \in T
  <2>1. PICK h \in [0 .. k -> V] : Run(h, k) BY <1>2
  <2> DEFINE g == [i \in 0 .. k + 1 |-> IF i <= k THEN h[i] ELSE step[k + 1][h[k]]]
  <2>2. step[k + 1][h[k]] \in V OBVIOUS
  <2>3. g \in [0 .. k + 1 -> V] BY <2>2
  <2>4. g[0] = b BY <2>1
  <2>5. ASSUME NEW i \in 1 .. k + 1 PROVE g[i] = step[i][g[i - 1]]
    <3>1. CASE i <= k BY <3>1, <2>1
    <3>2. CASE i = k + 1 BY <3>2
    <3> QED BY <3>1, <3>2
  <2>6. Run(g, k + 1) BY <2>4, <2>5
  <2>7. k + 1 \in Nat OBVIOUS
  <2> HIDE DEF g, Run
  <2> QED BY <2>3, <2>6, <2>7
<1>3. \A k \in 0 .. n : k \in T
  <2> HIDE DEF T
  <2> QED BY <1>1, <1>2, Upto
<1> QED BY <1>3 DEF IsRun


\* Anything that takes the turns of a loop is its run.
LEMMA RunIs ==
  ASSUME NEW V, NEW n, NEW b, NEW step, IsLoop(V, n, b, step), NEW h,
         h = [i \in 0 .. n |-> h[i]], h[0] = b,
         \A i \in 1 .. n : h[i - 1] \in V => h[i] = step[i][h[i - 1]]
  PROVE  IsRun(h, V, n, b, step)
<1> USE DEF IsLoop
<1> DEFINE T == {i \in 0 .. n : h[i] \in V}
<1>1. 0 \in T OBVIOUS
<1>2. ASSUME NEW i \in 0 .. n - 1, i \in T PROVE i + 1 \in T
  <2>1. i + 1 \in 1 .. n /\ (i + 1) - 1 = i OBVIOUS
  <2>2. h[i] \in V => h[i + 1] = step[i + 1][h[i]] BY <2>1
  <2> QED BY <1>2, <2>1, <2>2
<1>3. \A i \in 0 .. n : i \in T
  <2> HIDE DEF T
  <2> QED BY <1>1, <1>2, Upto
<1>4. h \in [0 .. n -> V] BY <1>3
<1> QED BY <1>3, <1>4 DEF IsRun

-----------------------------------------------------------------------------
(* Areas.  Those the program makes start and end on a page.                 *)

Bounds  == {p * PageSize : p \in Nat}
Prots   == {r \cap view : r \in Rights, view \in Rights} \cup {{}}
AreaSet == {a \in [addr : Bounds, size : Nat \ {0}, prot : Prots] : End(a) \in Bounds}
Lists   == Seq(AreaSet)
Results == [list : Lists, bad : BOOLEAN]
Trims   == [list : Lists, done : BOOLEAN, split : Lists]

\* The area from x to y; what is in an area and in a list.
Span(x, y, q) == Area(x, y - x, q)
In(a, x)      == a.addr <= x /\ x < End(a)
Has(list, x, q) == \E i \in DOMAIN list : In(list[i], x) /\ list[i].prot = q

\* Addresses are numbers.
LEMMA BoundsNat == \A x \in Bounds : x \in Nat
BY VMAssumption DEF Bounds

\* What is known of an area.
LEMMA AreaIs ==
  ASSUME NEW a \in AreaSet
  PROVE  /\ a.addr \in Nat /\ a.size \in Nat /\ a.size > 0 /\ End(a) \in Nat
         /\ a.addr \in Bounds /\ End(a) \in Bounds /\ a.prot \in Prots
         /\ End(a) = a.addr + a.size /\ a.addr < End(a)
<1>1. /\ a.addr \in Bounds /\ a.size \in Nat \ {0} /\ a.prot \in Prots
      /\ End(a) \in Bounds
  BY DEF AreaSet
<1>2. a.addr \in Nat /\ End(a) \in Nat BY <1>1, BoundsNat
<1> QED BY <1>1, <1>2 DEF End

\* What the area from x to y is.
LEMMA SpanIs ==
  ASSUME NEW x \in Nat, NEW y \in Nat, NEW q
  PROVE  /\ Span(x, y, q).addr = x /\ End(Span(x, y, q)) = y /\ Span(x, y, q).prot = q
BY DEF End, Area, Span

\* It is an area if it is not empty and its ends are on pages.
LEMMA SpanType ==
  ASSUME NEW x \in Bounds, NEW y \in Bounds, x < y, NEW q \in Prots
  PROVE  Span(x, y, q) \in AreaSet
<1>1. x \in Nat /\ y \in Nat BY BoundsNat
<1> QED BY <1>1 DEF AreaSet, End, Area, Span

\* intersect says whether two areas overlap, in either order.
LEMMA IntersectIs ==
  ASSUME NEW a \in AreaSet, NEW b \in AreaSet
  PROVE  Intersect(a, b) <=> a.addr < End(b) /\ b.addr < End(a)
BY AreaIs DEF Intersect, Ordered

\* merge joins areas that overlap or touch, and panics where they clash.
LEMMA MergesIs ==
  ASSUME NEW a \in AreaSet, NEW b \in AreaSet, a.addr <= b.addr
  PROVE  /\ Merges(a, b) <=> a.prot = b.prot /\ b.addr <= End(a)
         /\ Clash(a, b) <=> a.prot # b.prot /\ b.addr < End(a)
BY AreaIs DEF Merges, Clash, Contiguous, Intersect, Ordered

\* Merging gives an area ...
LEMMA MergedType ==
  ASSUME NEW a \in AreaSet, NEW b \in AreaSet
  PROVE  Merged(a, b) \in AreaSet
<1> DEFINE o == Ordered(a, b)
           e == IF End(o[1]) > End(o[2]) THEN End(o[1]) ELSE End(o[2])
<1>1. o[1] \in AreaSet /\ o[2] \in AreaSet BY DEF Ordered
<1>2. o[1].addr \in Bounds /\ e \in Bounds /\ o[1].addr < e BY <1>1, AreaIs
<1>3. Merged(a, b) = Span(o[1].addr, e, a.prot) BY DEF Merged, Span
<1>4. a.prot \in Prots BY AreaIs
<1> HIDE DEF o, e
<1> QED BY <1>2, <1>3, <1>4, SpanType

\* ... from the first start to the last end.
LEMMA MergedIs ==
  ASSUME NEW a \in AreaSet, NEW b \in AreaSet, a.addr <= b.addr, Merges(a, b)
  PROVE  /\ Merged(a, b).addr = a.addr /\ Merged(a, b).prot = a.prot
         /\ End(Merged(a, b)) = IF End(a) > End(b) THEN End(a) ELSE End(b)
<1>1. Ordered(a, b) = <<a, b>> BY AreaIs DEF Ordered
<1>2. PICK e : e = IF End(a) > End(b) THEN End(a) ELSE End(b) OBVIOUS
<1>3. Merged(a, b) = Span(a.addr, e, a.prot) BY <1>1, <1>2 DEF Merged, Span
<1>4. a.addr \in Nat /\ e \in Nat BY <1>2, AreaIs
<1> QED BY <1>2, <1>3, <1>4, SpanIs

-----------------------------------------------------------------------------
(* The loops, turn by turn.                                                 *)

\* A turn of Coalesce keeps the types.
LEMMA AbsorbType ==
  ASSUME NEW r \in Results, NEW b \in AreaSet
  PROVE  Absorb(r, b) \in Results
<1> DEFINE n == Len(r.list)
<1>1. r.list \in Seq(AreaSet) /\ n \in Nat /\ r.bad \in BOOLEAN BY DEF Results, Lists
<1>2. CASE n = 0 BY <1>1, <1>2 DEF Absorb, Result, Results, Lists
<1>3. CASE n # 0
  <2>1. r.list[n] \in AreaSet BY <1>1, <1>3
  <2>2. Merged(r.list[n], b) \in AreaSet BY <2>1, MergedType
  <2>3. [r.list EXCEPT ![n] = Merged(r.list[n], b)] \in Lists
    BY <1>1, <1>3, <2>2 DEF Lists
  <2>4. Append(r.list, b) \in Lists BY <1>1 DEF Lists
  <2> QED BY <1>1, <1>3, <2>3, <2>4 DEF Absorb, Result, Results, Clash
<1> QED BY <1>2, <1>3, <1>1

\* Coalesce takes one area after the other.
LEMMA CoalesceTurns ==
  ASSUME NEW list \in Lists
  PROVE  \E turns \in [0 .. Len(list) -> Results] :
           /\ turns[0] = Result(<<>>, FALSE)
           /\ \A i \in 1 .. Len(list) : turns[i] = Absorb(turns[i - 1], list[i])
           /\ Coalesce(list) = turns[Len(list)]
<1> DEFINE n == Len(list)
           turns == Turns(Absorb, Result(<<>>, FALSE), list)
           step == [i \in 1 .. n |-> [r \in Results |-> Absorb(r, list[i])]]
<1>1. Result(<<>>, FALSE) \in Results /\ n \in Nat BY DEF Lists, Result, Results
<1>2. \A i \in 1 .. n : \A r \in Results : Absorb(r, list[i]) \in Results
  BY AbsorbType DEF Lists
<1>3. IsLoop(Results, n, Result(<<>>, FALSE), step) BY <1>1, <1>2 DEF IsLoop
<1>4. PICK h : IsRun(h, Results, n, Result(<<>>, FALSE), step)
  <2> HIDE DEF n, step
  <2> QED BY <1>3, RunExists
<1>5. h = [i \in 0 .. n |-> IF i = 0 THEN Result(<<>>, FALSE) ELSE Absorb(h[i - 1], list[i])]
  <2>1. h \in [0 .. n -> Results] /\ h[0] = Result(<<>>, FALSE) BY <1>4 DEF IsRun
  <2>2. ASSUME NEW i \in 1 .. n PROVE h[i] = Absorb(h[i - 1], list[i])
    <3>1. h[i] = step[i][h[i - 1]] BY <1>4 DEF IsRun
    <3>2. h[i - 1] \in Results BY <1>1, <2>1
    <3> QED BY <3>1, <3>2
  <2>3. h = [i \in 0 .. n |-> h[i]] BY <2>1
  <2>4. \A i \in 0 .. n : h[i] = IF i = 0 THEN Result(<<>>, FALSE) ELSE Absorb(h[i - 1], list[i])
    <3> SUFFICES ASSUME NEW i \in 0 .. n
                 PROVE  h[i] = IF i = 0 THEN Result(<<>>, FALSE) ELSE Absorb(h[i - 1], list[i])
      OBVIOUS
    <3>1. CASE i = 0 BY <2>1, <3>1
    <3>2. CASE i # 0
      <4>1. i \in 1 .. n BY <1>1, <3>2
      <4> QED BY <2>2, <3>2, <4>1
    <3> QED BY <3>1, <3>2
  <2> HIDE DEF n
  <2> QED BY <2>3, <2>4
<1>6. turns = [i \in 0 .. n |-> IF i = 0 THEN Result(<<>>, FALSE) ELSE Absorb(turns[i - 1], list[i])]
  BY <1>5 DEF Turns
<1> HIDE DEF turns
<1>7. turns = [i \in 0 .. n |-> turns[i]] BY <1>6
<1>8. turns[0] = Result(<<>>, FALSE) /\ \A i \in 1 .. n : turns[i] = Absorb(turns[i - 1], list[i])
  BY <1>1, <1>6
<1>9. \A i \in 1 .. n : turns[i - 1] \in Results => turns[i] = step[i][turns[i - 1]]
  BY <1>8
<1>10. IsRun(turns, Results, n, Result(<<>>, FALSE), step)
  <2> HIDE DEF n, step
  <2> QED BY <1>3, <1>7, <1>8, <1>9, RunIs
<1>11. turns \in [0 .. n -> Results] BY <1>10 DEF IsRun
<1>12. Coalesce(list) = turns[n] BY DEF Coalesce, Loop, turns
<1> QED BY <1>8, <1>11, <1>12

-----------------------------------------------------------------------------
(* Coalesce.                                                                *)

Sorted(list) == \A i, j \in DOMAIN list : i < j => list[i].addr <= list[j].addr

\* What Canonical says of neighbours holds for any two areas.
Canon(list) ==
  \A i, j \in DOMAIN list : i < j =>
    /\ End(list[i]) <= list[j].addr
    /\ End(list[i]) = list[j].addr => list[i].prot # list[j].prot

\* Two areas of the list have the same page and give it different rights.
Conflict(list) ==
  \E i, j \in DOMAIN list : \E x \in Bounds :
    In(list[i], x) /\ In(list[j], x) /\ list[i].prot # list[j].prot

\* What the first n areas give.
Within(list, n, x, q) == \E i \in 1 .. n : In(list[i], x) /\ list[i].prot = q

Put(a, x, q) == In(a, x) /\ a.prot = q

\* A turn of Coalesce adds the area, or meets one with other rights.
LEMMA AbsorbIs ==
  ASSUME NEW r \in Results, NEW b \in AreaSet, ~r.bad, Canon(r.list),
         r.list # <<>> => r.list[Len(r.list)].addr <= b.addr
  PROVE  LET s == Absorb(r, b)
         IN  /\ s.list # <<>> /\ s.list[Len(s.list)].addr <= b.addr
             /\ ~s.bad => /\ Canon(s.list)
                          /\ \A x \in Nat, q \in Prots :
                               Has(s.list, x, q) <=> Has(r.list, x, q) \/ Put(b, x, q)
             /\ s.bad => \E q \in Prots : q # b.prot /\ Has(r.list, b.addr, q)
<1> DEFINE n == Len(r.list)
           s == Absorb(r, b)
           a == r.list[n]
<1> USE DEF Lists
<1>1. r.list \in Seq(AreaSet) /\ n \in Nat /\ DOMAIN r.list = 1 .. n BY DEF Results
<1>b. b.addr \in Nat /\ End(b) \in Nat /\ b.addr < End(b) /\ b.prot \in Prots BY AreaIs
<1>2. CASE n = 0
  <2>1. s.list = <<b>> /\ s.bad = FALSE BY <1>1, <1>2 DEF Absorb, Result
  <2>2. r.list = <<>> BY <1>1, <1>2
  <2>3. Canon(s.list) BY <2>1 DEF Canon
  <2>4. \A x, q : Has(s.list, x, q) <=> Has(r.list, x, q) \/ Put(b, x, q)
    BY <2>1, <2>2 DEF Has, Put
  <2>5. s.list # <<>> /\ s.list[Len(s.list)].addr <= b.addr BY <2>1, <1>b
  <2> HIDE DEF s
  <2> QED BY <2>1, <2>3, <2>4, <2>5 DEF s
<1>3. CASE n # 0
  <2>1. a \in AreaSet /\ a.addr <= b.addr /\ n \in DOMAIN r.list BY <1>1, <1>3
  <2>2. a.addr \in Nat /\ End(a) \in Nat /\ a.addr < End(a) /\ a.prot \in Prots
    BY <2>1, AreaIs
  <2>3. \A i \in 1 .. n : r.list[i] \in AreaSet /\ r.list[i].addr \in Nat /\ End(r.list[i]) \in Nat
    BY <1>1, AreaIs
  <2>4. \A i \in 1 .. n - 1 : End(r.list[i]) <= a.addr
                             /\ (End(r.list[i]) = a.addr => r.list[i].prot # a.prot)
    BY <1>1, <1>3 DEF Canon
  <2>5. CASE Merges(a, b)
    <3> DEFINE m == Merged(a, b)
    <3>1. s.list = [r.list EXCEPT ![n] = m] /\ s.bad = FALSE
      BY <1>3, <2>5 DEF Absorb, Result
    <3>2. /\ m.addr = a.addr /\ m.prot = a.prot /\ End(m) = IF End(a) > End(b) THEN End(a) ELSE End(b)
          /\ b.addr <= End(a) /\ a.prot = b.prot
      BY <2>1, <2>5, MergedIs, MergesIs
    <3> HIDE DEF m, s
    <3>3. /\ Len(s.list) = n /\ DOMAIN s.list = 1 .. n /\ s.list[n] = m
          /\ \A i \in 1 .. n - 1 : s.list[i] = r.list[i]
      BY <3>1, <1>1, <1>3
    <3>4. ASSUME NEW i \in 1 .. n, NEW j \in 1 .. n, i < j
          PROVE  /\ End(s.list[i]) <= s.list[j].addr
                 /\ End(s.list[i]) = s.list[j].addr => s.list[i].prot # s.list[j].prot
      <4>1. s.list[i] = r.list[i] BY <3>3, <3>4
      <4>2. s.list[j].addr = r.list[j].addr /\ s.list[j].prot = r.list[j].prot
        BY <3>2, <3>3
      <4> QED BY <4>1, <4>2, <3>4, <1>1 DEF Canon
    <3>5. Canon(s.list) BY <3>3, <3>4 DEF Canon
    <3>6. ASSUME NEW x \in Nat, NEW q
          PROVE  Has(s.list, x, q) <=> Has(r.list, x, q) \/ Put(b, x, q)
      <4>1. Put(m, x, q) <=> Put(a, x, q) \/ Put(b, x, q)
        BY <2>1, <2>2, <3>2, <1>b DEF Put, In
      <4>2. Has(s.list, x, q) <=> Put(m, x, q) \/ \E i \in 1 .. n - 1 : Put(r.list[i], x, q)
        BY <3>3, <1>1, <1>3 DEF Has, Put
      <4>3. Has(r.list, x, q) <=> Put(a, x, q) \/ \E i \in 1 .. n - 1 : Put(r.list[i], x, q)
        BY <1>1, <1>3 DEF Has, Put
      <4> QED BY <4>1, <4>2, <4>3
    <3>7. s.list # <<>> /\ s.list[Len(s.list)].addr <= b.addr BY <1>3, <2>1, <3>2, <3>3
    <3> QED BY <3>1, <3>5, <3>6, <3>7 DEF s
  <2>6. CASE ~Merges(a, b)
    <3>1. s.list = Append(r.list, b) /\ s.bad = (r.bad \/ Clash(a, b))
      BY <1>3, <2>6 DEF Absorb, Result
    <3>2. Merges(a, b) <=> a.prot = b.prot /\ b.addr <= End(a) BY <2>1, MergesIs
    <3>3. Clash(a, b) <=> a.prot # b.prot /\ b.addr < End(a) BY <2>1, MergesIs
    <3> HIDE DEF s
    <3>4. /\ Len(s.list) = n + 1 /\ DOMAIN s.list = 1 .. n + 1 /\ s.list[n + 1] = b
          /\ \A i \in 1 .. n : s.list[i] = r.list[i]
      BY <3>1, <1>1
    <3>5. s.list # <<>> /\ s.list[Len(s.list)].addr <= b.addr BY <1>1, <3>4, <1>b
    <3>6. ASSUME NEW x \in Nat, NEW q
          PROVE  Has(s.list, x, q) <=> Has(r.list, x, q) \/ Put(b, x, q)
      <4>1. Has(s.list, x, q) <=> Put(b, x, q) \/ \E i \in 1 .. n : Put(r.list[i], x, q)
        BY <3>4, <1>1 DEF Has, Put
      <4> QED BY <4>1, <1>1 DEF Has, Put
    <3>7. CASE s.bad
      <4>1. a.prot # b.prot /\ In(a, b.addr) BY <2>1, <3>1, <3>3, <3>7 DEF In
      <4>2. Has(r.list, b.addr, a.prot) BY <2>1, <4>1 DEF Has
      <4> QED BY <2>2, <3>5, <3>7, <4>1, <4>2 DEF s
    <3>8. CASE ~s.bad
      <4> HIDE DEF a
      <4>0. ~Clash(a, b) BY <3>1, <3>8
      <4>1. End(a) <= b.addr /\ (End(a) = b.addr => a.prot # b.prot)
        BY <2>2, <2>6, <3>2, <3>3, <4>0, <1>b
      <4> USE DEF a
      <4>2. \A i \in 1 .. n : End(r.list[i]) <= b.addr
                             /\ (End(r.list[i]) = b.addr => r.list[i].prot # b.prot)
        BY <1>1, <1>3, <2>2, <2>3, <2>4, <4>1, <1>b
      <4>3. ASSUME NEW i \in 1 .. n + 1, NEW j \in 1 .. n + 1, i < j
            PROVE  /\ End(s.list[i]) <= s.list[j].addr
                   /\ End(s.list[i]) = s.list[j].addr => s.list[i].prot # s.list[j].prot
        <5>1. i \in 1 .. n /\ s.list[i] = r.list[i] BY <1>1, <3>4, <4>3
        <5>2. CASE j = n + 1 BY <3>4, <4>2, <5>1, <5>2
        <5>3. CASE j # n + 1
          <6>1. j \in 1 .. n /\ s.list[j] = r.list[j] BY <1>1, <3>4, <5>3
          <6> QED BY <4>3, <5>1, <6>1, <1>1 DEF Canon
        <5> QED BY <5>2, <5>3
      <4>4. Canon(s.list) BY <3>4, <4>3 DEF Canon
      <4> QED BY <3>5, <3>6, <3>8, <4>4 DEF s
    <3> QED BY <3>7, <3>8
  <2> QED BY <2>5, <2>6
<1> QED BY <1>1, <1>2, <1>3

\* A turn of Coalesce panics when the next area clashes with the last one.
LEMMA AbsorbBad ==
  ASSUME NEW r, NEW b, r.bad
  PROVE  Absorb(r, b).bad
<1> DEFINE n == Len(r.list)
           a == r.list[n]
<1>1. CASE n = 0
  <2>1. Absorb(r, b) = Result(<<b>>, r.bad) BY <1>1 DEF Absorb
  <2> QED BY <2>1 DEF Result
<1>2. CASE n # 0 /\ Merges(a, b)
  <2>1. Absorb(r, b) = Result([r.list EXCEPT ![n] = Merged(a, b)], r.bad)
    BY <1>2 DEF Absorb
  <2> QED BY <2>1 DEF Result
<1>3. CASE n # 0 /\ ~Merges(a, b)
  <2>1. Absorb(r, b) = Result(Append(r.list, b), r.bad \/ Clash(a, b)) BY <1>3 DEF Absorb
  <2>2. Absorb(r, b).bad = (r.bad \/ Clash(a, b)) BY <2>1 DEF Result
  <2> QED BY <2>2, Zenon
<1> QED BY <1>1, <1>2, <1>3

\* Coalesce gives a list.
LEMMA CoalesceType ==
  ASSUME NEW list \in Lists
  PROVE  Coalesce(list) \in Results
<1>1. Len(list) \in 0 .. Len(list) BY DEF Lists
<1> QED BY <1>1, CoalesceTurns

\* The first i areas have been taken: a list is as good as another of the same
\* areas, or two areas are in conflict.
LEMMA CoalesceIs ==
  ASSUME NEW list \in Lists, Sorted(list)
  PROVE  LET c == Coalesce(list)
         IN  /\ c \in Results
             /\ c.bad => Conflict(list)
             /\ ~c.bad => /\ Canon(c.list)
                          /\ \A x \in Nat, q \in Prots : Has(c.list, x, q) <=> Has(list, x, q)
<1> DEFINE n == Len(list)
           Good(r, i) ==
             /\ ~r.bad => /\ Canon(r.list)
                          /\ r.list # <<>> => i > 0 /\ r.list[Len(r.list)].addr <= list[i].addr
                          /\ \A x \in Nat, q \in Prots : Has(r.list, x, q) <=> Within(list, i, x, q)
             /\ r.bad => Conflict(list)
<1>1. n \in Nat /\ DOMAIN list = 1 .. n /\ \A i \in 1 .. n : list[i] \in AreaSet
  BY DEF Lists
<1>2. PICK turns \in [0 .. n -> Results] :
        /\ turns[0] = Result(<<>>, FALSE)
        /\ \A i \in 1 .. n : turns[i] = Absorb(turns[i - 1], list[i])
        /\ Coalesce(list) = turns[n]
  BY CoalesceTurns
<1> DEFINE T == {i \in 0 .. n : Good(turns[i], i)}
<1>3. 0 \in T
  <2>1. turns[0].list = <<>> /\ turns[0].bad = FALSE BY <1>2 DEF Result
  <2>2. Canon(turns[0].list) /\ \A x, q : ~Has(turns[0].list, x, q) BY <2>1 DEF Canon, Has
  <2>3. \A x, q : ~Within(list, 0, x, q) BY DEF Within
  <2>4. Good(turns[0], 0) BY <2>1, <2>2, <2>3
  <2> HIDE DEF Good
  <2> QED BY <1>1, <2>4
<1>4. ASSUME NEW k \in 0 .. n - 1, k \in T PROVE k + 1 \in T
  <2> DEFINE r == turns[k]
             b == list[k + 1]
             s == turns[k + 1]
  <2>1. k + 1 \in 1 .. n /\ k + 1 \in 0 .. n /\ k \in 0 .. n /\ (k + 1) - 1 = k BY <1>1
  <2>2. r \in Results /\ b \in AreaSet /\ s = Absorb(r, b) BY <1>1, <1>2, <2>1
  <2>3. Good(r, k) BY <1>4
  <2>4. CASE r.bad
    <3>1. Conflict(list) BY <2>3, <2>4
    <3>2. s.bad BY <2>2, <2>4, AbsorbBad
    <3>3. Good(s, k + 1) BY <3>1, <3>2
    <3> HIDE DEF Good
    <3> QED BY <2>1, <3>3
  <2>5. CASE ~r.bad
    <3>1. Canon(r.list) /\ \A x \in Nat, q \in Prots : Has(r.list, x, q) <=> Within(list, k, x, q)
      BY <2>3, <2>5
    <3>2. r.list # <<>> => r.list[Len(r.list)].addr <= b.addr
      <4>1. SUFFICES ASSUME r.list # <<>> PROVE r.list[Len(r.list)].addr <= b.addr OBVIOUS
      <4>2. k > 0 /\ r.list[Len(r.list)].addr <= list[k].addr BY <2>3, <2>5, <4>1
      <4>3. k \in 1 .. n /\ list[k].addr <= b.addr BY <1>1, <2>1, <4>2 DEF Sorted
      <4>4. list[k].addr \in Nat /\ b.addr \in Nat BY <1>1, <2>1, <4>3, AreaIs
      <4>5. r.list[Len(r.list)] \in AreaSet BY <2>2, <4>1 DEF Results, Lists
      <4>6. r.list[Len(r.list)].addr \in Nat BY <4>5, AreaIs
      <4> QED BY <4>2, <4>3, <4>4, <4>6
    <3> HIDE DEF Good, r, b, s
    <3>3. /\ s.list # <<>> /\ s.list[Len(s.list)].addr <= b.addr
          /\ ~s.bad => /\ Canon(s.list)
                       /\ \A x \in Nat, q \in Prots :
                            Has(s.list, x, q) <=> Has(r.list, x, q) \/ Put(b, x, q)
          /\ s.bad => \E q \in Prots : q # b.prot /\ Has(r.list, b.addr, q)
      BY <2>2, <2>5, <3>1, <3>2, AbsorbIs
    <3>4. \A x, q : Within(list, k + 1, x, q) <=> Within(list, k, x, q) \/ Put(b, x, q)
      <4> SUFFICES ASSUME NEW x, NEW q
                   PROVE  Within(list, k + 1, x, q) <=> Within(list, k, x, q) \/ Put(b, x, q)
        OBVIOUS
      <4>1. 1 .. k + 1 = (1 .. k) \cup {k + 1} BY <2>1
      <4> QED BY <4>1 DEF Within, Put, b
    <3>5. ASSUME s.bad PROVE Conflict(list)
      <4>1. PICK q \in Prots : q # b.prot /\ Has(r.list, b.addr, q) BY <3>3, <3>5
      <4>2. b.addr \in Nat /\ b.addr \in Bounds /\ In(b, b.addr) BY <2>2, AreaIs DEF In
      <4>3. Within(list, k, b.addr, q) BY <3>1, <4>1, <4>2
      <4>4. PICK i \in 1 .. k : In(list[i], b.addr) /\ list[i].prot = q BY <4>3 DEF Within
      <4>5. i \in DOMAIN list /\ k + 1 \in DOMAIN list BY <1>1, <2>1
      <4> QED BY <4>1, <4>2, <4>4, <4>5 DEF Conflict, b
    <3>6. Good(s, k + 1)
      <4>1. k + 1 > 0 BY <2>1
      <4>2. ASSUME ~s.bad, NEW x \in Nat, NEW q \in Prots
            PROVE  Has(s.list, x, q) <=> Within(list, k + 1, x, q)
        BY <3>1, <3>3, <3>4, <4>2
      <4> QED BY <3>3, <3>5, <4>1, <4>2 DEF Good, b
    <3> QED BY <2>1, <3>6 DEF s
  <2> QED BY <2>4, <2>5
<1>5. \A i \in 0 .. n : i \in T
  <2> HIDE DEF T, n
  <2> QED BY <1>1, <1>3, <1>4, Upto
<1>6. Good(turns[n], n) BY <1>1, <1>5
<1>7. turns[n] \in Results BY <1>1, <1>2
<1>8. \A x, q : Within(list, n, x, q) <=> Has(list, x, q) BY <1>1 DEF Within, Has
<1> HIDE DEF n
<1> QED BY <1>2, <1>6, <1>7, <1>8

-----------------------------------------------------------------------------
(* Map.                                                                     *)

\* A list gives one set of rights.
LEMMA OneRight ==
  ASSUME NEW list \in Lists, Canon(list), NEW x \in Nat, NEW q, NEW r,
         Has(list, x, q), Has(list, x, r)
  PROVE  q = r
<1>1. PICK i \in DOMAIN list : In(list[i], x) /\ list[i].prot = q BY DEF Has
<1>2. PICK j \in DOMAIN list : In(list[j], x) /\ list[j].prot = r BY DEF Has
<1>3. list[i] \in AreaSet /\ list[j] \in AreaSet /\ i \in Nat /\ j \in Nat BY DEF Lists
<1>4. /\ list[i].addr \in Nat /\ End(list[i]) \in Nat
      /\ list[j].addr \in Nat /\ End(list[j]) \in Nat
  BY <1>3, AreaIs
<1>5. ~(i < j) /\ ~(j < i) BY <1>1, <1>2, <1>4 DEF Canon, In
<1>6. i = j BY <1>3, <1>5
<1> QED BY <1>1, <1>2, <1>6

\* A canonical list is sorted.
LEMMA CanonSorted ==
  ASSUME NEW list \in Lists, Canon(list)
  PROVE  Sorted(list)
<1> SUFFICES ASSUME NEW i \in DOMAIN list, NEW j \in DOMAIN list, i < j
             PROVE  list[i].addr <= list[j].addr
  BY DEF Sorted
<1>1. list[i] \in AreaSet /\ list[j] \in AreaSet BY DEF Lists
<1>2. /\ list[i].addr \in Nat /\ End(list[i]) \in Nat /\ list[i].addr < End(list[i])
      /\ list[j].addr \in Nat
  BY <1>1, AreaIs
<1>3. End(list[i]) <= list[j].addr BY DEF Canon
<1> QED BY <1>2, <1>3

\* The rights of a list are rights of the program.
LEMMA HasProt ==
  ASSUME NEW list \in Lists, NEW x, NEW q, Has(list, x, q)
  PROVE  q \in Prots
<1>1. PICK i \in DOMAIN list : list[i].prot = q BY DEF Has
<1>2. list[i] \in AreaSet BY DEF Lists
<1> QED BY <1>1, <1>2, AreaIs

\* Position finds a place, and in a sorted list the right one.
LEMMA PositionIs ==
  ASSUME NEW list \in Lists, NEW a \in AreaSet
  PROVE  /\ Position(list, a) \in 1 .. Len(list) + 1
         /\ Sorted(list) =>
              \A i \in 1 .. Len(list) :
                IF i < Position(list, a) THEN list[i].addr <= a.addr
                                         ELSE a.addr <= list[i].addr
<1> DEFINE n == Len(list)
           p == Position(list, a)
<1>1. n \in Nat /\ DOMAIN list = 1 .. n /\ \A i \in 1 .. n : list[i] \in AreaSet
  BY DEF Lists
<1>2. a.addr \in Nat /\ \A i \in 1 .. n : list[i].addr \in Nat BY <1>1, AreaIs
<1>3. CASE list = <<>> \/ a.addr < list[1].addr
  <2>1. p = 1 BY <1>3 DEF Position
  <2>2. ASSUME Sorted(list), NEW i \in 1 .. n PROVE a.addr <= list[i].addr
    <3>1. 1 \in 1 .. n /\ list[1].addr <= list[i].addr BY <1>1, <1>2, <2>2 DEF Sorted
    <3> QED BY <1>2, <1>3, <3>1, <1>1
  <2> QED BY <1>1, <2>1, <2>2
<1>4. CASE ~(list = <<>> \/ a.addr < list[1].addr)
  <2> DEFINE Here(i) == /\ i = n \/ a.addr <= list[i + 1].addr
                        /\ \A j \in 1 .. i - 1 : a.addr > list[j + 1].addr
             T == {i \in 1 .. n : i = n \/ a.addr <= list[i + 1].addr}
  <2>1. n \in T /\ T \subseteq Nat BY <1>1, <1>4
  <2>2. PICK m \in T : \A k \in T : m <= k
    <3> HIDE DEF T, n
    <3> QED BY <2>1, Least
  <2>3. ASSUME NEW j \in 1 .. m - 1 PROVE a.addr > list[j + 1].addr
    <3>0. m \in 1 .. n BY <2>2
    <3>1. j \in 1 .. n /\ j < m /\ j # n /\ j + 1 \in 1 .. n
      <4> HIDE DEF T, n
      <4> QED BY <1>1, <3>0
    <3>2. j \notin T BY <2>2, <3>1
    <3>3. ~(a.addr <= list[j + 1].addr) BY <3>1, <3>2
    <3> QED BY <1>2, <3>1, <3>3
  <2>4. \E i \in DOMAIN list : Here(i) BY <1>1, <2>2, <2>3
  <2> DEFINE c == CHOOSE i \in DOMAIN list : Here(i)
  <2>5. c \in DOMAIN list /\ Here(c)
    <3> HIDE DEF Here
    <3> QED BY <2>4
  <2>6. p = 1 + c BY <1>4 DEF Position
  <2> HIDE DEF c, p
  <2>a. c \in 1 .. n BY <1>1, <2>5
  <2>b. c # n => a.addr <= list[c + 1].addr BY <2>5
  <2>c. \A j \in 1 .. c - 1 : a.addr > list[j + 1].addr BY <2>5
  <2>d. p \in 1 .. n + 1
    <3> HIDE DEF n
    <3> QED BY <1>1, <2>6, <2>a
  <2>e. list[1].addr <= a.addr
    <3>1. ~(a.addr < list[1].addr) BY <1>4
    <3>2. 1 \in 1 .. n
      <4>1. list # <<>> /\ list \in Seq(AreaSet) BY <1>4 DEF Lists
      <4>2. n # 0 /\ n \in Nat BY <4>1
      <4> HIDE DEF n
      <4> QED BY <4>2
    <3> QED BY <1>2, <3>1, <3>2
  <2> HIDE DEF Here, n
  <2>7. ASSUME Sorted(list), NEW i \in 1 .. n
        PROVE  IF i < p THEN list[i].addr <= a.addr ELSE a.addr <= list[i].addr
    <3>1. CASE i = 1
      <4>1. list[1].addr <= a.addr /\ 1 < p BY <2>e, <2>6, <2>a, <1>1
      <4> QED BY <3>1, <4>1
    <3>2. CASE i # 1 /\ i < p
      <4>1. i - 1 \in 1 .. c - 1 /\ (i - 1) + 1 = i BY <1>1, <2>a, <2>6, <3>2
      <4>2. a.addr > list[i].addr BY <2>c, <4>1
      <4> QED BY <1>2, <3>2, <4>2
    <3>3. CASE ~(i < p)
      <4>1. c # n /\ c + 1 \in 1 .. n /\ c + 1 <= i BY <1>1, <2>a, <2>6, <3>3
      <4>2. a.addr <= list[c + 1].addr BY <2>b, <4>1
      <4>3. list[c + 1].addr <= list[i].addr
        <5>1. CASE c + 1 = i BY <1>2, <5>1
        <5>2. CASE c + 1 < i BY <1>1, <2>7, <4>1, <5>2 DEF Sorted
        <5> QED BY <4>1, <5>1, <5>2, <1>1
      <4> QED BY <1>2, <3>3, <4>1, <4>2, <4>3
    <3> QED BY <3>1, <3>2, <3>3
  <2> QED BY <2>d, <2>7 DEF p, n
<1> QED BY <1>3, <1>4

\* Insert adds the area to a sorted list and keeps it sorted.
LEMMA InsertIs ==
  ASSUME NEW list \in Lists, NEW a \in AreaSet
  PROVE  /\ Insert(list, a) \in Lists
         /\ \A x, q : Has(Insert(list, a), x, q) <=> Has(list, x, q) \/ Put(a, x, q)
         /\ Sorted(list) => Sorted(Insert(list, a))
<1> DEFINE n == Len(list)
           p == Position(list, a)
           t == Insert(list, a)
<1>1. n \in Nat /\ DOMAIN list = 1 .. n /\ \A i \in 1 .. n : list[i] \in AreaSet
  BY DEF Lists
<1>2. /\ p \in 1 .. n + 1
      /\ Sorted(list) => \A i \in 1 .. n : IF i < p THEN list[i].addr <= a.addr
                                                    ELSE a.addr <= list[i].addr
  BY PositionIs
<1>3. t = [i \in 1 .. n + 1 |-> IF i < p THEN list[i] ELSE IF i = p THEN a ELSE list[i - 1]]
  BY DEF Insert
<1> HIDE DEF p, t
<1>4. /\ DOMAIN t = 1 .. n + 1
      /\ \A i \in 1 .. n + 1 : /\ i < p => t[i] = list[i] /\ i \in 1 .. n
                               /\ i = p => t[i] = a
                               /\ i > p => t[i] = list[i - 1] /\ i - 1 \in 1 .. n
  BY <1>1, <1>2, <1>3
<1>5. t \in Lists
  <2>1. \A i \in 1 .. n + 1 : t[i] \in AreaSet BY <1>1, <1>2, <1>4
  <2>2. t = [i \in 1 .. n + 1 |-> t[i]] BY <1>3
  <2>3. t \in [1 .. n + 1 -> AreaSet] /\ n + 1 \in Nat BY <1>1, <2>1, <2>2
  <2> QED BY <2>3 DEF Lists
<1>6. ASSUME NEW x, NEW q PROVE Has(t, x, q) <=> Has(list, x, q) \/ Put(a, x, q)
  <2>1. ASSUME Has(t, x, q) PROVE Has(list, x, q) \/ Put(a, x, q)
    <3>1. PICK i \in 1 .. n + 1 : In(t[i], x) /\ t[i].prot = q BY <1>4, <2>1 DEF Has
    <3>2. i < p \/ i = p \/ i > p BY <1>2
    <3> QED BY <1>1, <1>4, <3>1, <3>2 DEF Has, Put
  <2>2. ASSUME Put(a, x, q) PROVE Has(t, x, q)
    <3>1. t[p] = a /\ p \in DOMAIN t BY <1>2, <1>4
    <3> QED BY <2>2, <3>1 DEF Has, Put
  <2>3. ASSUME Has(list, x, q) PROVE Has(t, x, q)
    <3>1. PICK i \in 1 .. n : In(list[i], x) /\ list[i].prot = q BY <1>1, <2>3 DEF Has
    <3>2. CASE i < p
      <4>1. i \in DOMAIN t /\ t[i] = list[i] BY <1>1, <1>4, <3>2
      <4> QED BY <3>1, <4>1 DEF Has
    <3>3. CASE ~(i < p)
      <4>1. i + 1 \in 1 .. n + 1 /\ i + 1 > p /\ (i + 1) - 1 = i BY <1>1, <1>2, <3>3
      <4>2. i + 1 \in DOMAIN t /\ t[i + 1] = list[i] BY <1>4, <4>1
      <4> QED BY <3>1, <4>2 DEF Has
    <3> QED BY <3>2, <3>3
  <2> QED BY <2>1, <2>2, <2>3
<1>7. ASSUME Sorted(list) PROVE Sorted(t)
  <2> SUFFICES ASSUME NEW i \in 1 .. n + 1, NEW j \in 1 .. n + 1, i < j
               PROVE  t[i].addr <= t[j].addr
    BY <1>4 DEF Sorted
  <2>1. \A k \in 1 .. n : IF k < p THEN list[k].addr <= a.addr ELSE a.addr <= list[k].addr
    BY <1>2, <1>7
  <2>2. CASE j < p
    <3>1. t[i] = list[i] /\ t[j] = list[j] /\ i \in 1 .. n /\ j \in 1 .. n
      BY <1>2, <1>4, <2>2
    <3> QED BY <1>1, <1>7, <3>1 DEF Sorted
  <2>3. CASE j = p
    <3>1. t[i] = list[i] /\ t[j] = a /\ i \in 1 .. n BY <1>4, <2>3
    <3> QED BY <2>1, <2>3, <3>1
  <2>4. CASE j > p
    <3>1. t[j] = list[j - 1] /\ j - 1 \in 1 .. n /\ ~(j - 1 < p) BY <1>2, <1>4, <2>4
    <3>2. CASE i < p
      <4>1. t[i] = list[i] /\ i \in 1 .. n /\ i < j - 1 BY <1>2, <1>4, <2>4, <3>2
      <4> QED BY <1>1, <1>7, <3>1, <4>1 DEF Sorted
    <3>3. CASE i = p
      <4>1. t[i] = a BY <1>4, <3>3
      <4> QED BY <2>1, <3>1, <4>1
    <3>4. CASE i > p
      <4>1. t[i] = list[i - 1] /\ i - 1 \in 1 .. n /\ i - 1 < j - 1 BY <1>2, <1>4, <3>4
      <4> QED BY <1>1, <1>7, <3>1, <4>1 DEF Sorted
    <3> QED BY <1>2, <3>2, <3>3, <3>4
  <2> QED BY <1>2, <2>2, <2>3, <2>4
<1> QED BY <1>5, <1>6, <1>7 DEF t


\* The area is added, or it meets one with other rights.
LEMMA MapInIs ==
  ASSUME NEW list \in Lists, NEW a \in AreaSet
  PROVE  LET m == MapIn(list, a)
         IN  /\ m \in Results
             /\ Canon(list) =>
                  /\ m.bad => \E x \in Bounds, q \in Prots :
                                q # a.prot /\ In(a, x) /\ Has(list, x, q)
                  /\ ~m.bad => /\ Canon(m.list)
                               /\ \A x \in Nat, q \in Prots :
                                    Has(m.list, x, q) <=> Has(list, x, q) \/ Put(a, x, q)
<1> DEFINE m == MapIn(list, a)
           t == Insert(list, a)
<1>1. CASE list = <<>>
  <2>1. m.list = <<a>> /\ m.bad = FALSE /\ m = Result(<<a>>, FALSE)
    BY <1>1 DEF MapIn, Result
  <2>2. m \in Results BY <2>1 DEF Result, Results, Lists
  <2>3. Canon(m.list) BY <2>1 DEF Canon
  <2>4. \A x, q : Has(m.list, x, q) <=> Has(list, x, q) \/ Put(a, x, q)
    BY <1>1, <2>1 DEF Has, Put
  <2> QED BY <2>1, <2>2, <2>3, <2>4
<1>2. CASE list # <<>>
  <2>1. m = Coalesce(t) BY <1>2 DEF MapIn
  <2>2. /\ t \in Lists /\ \A x, q : Has(t, x, q) <=> Has(list, x, q) \/ Put(a, x, q)
        /\ Sorted(list) => Sorted(t)
    BY InsertIs
  <2> HIDE DEF m, t
  <2>3. m \in Results BY <2>1, <2>2, CoalesceType
  <2>4. ASSUME Canon(list)
        PROVE  /\ m.bad => \E x \in Bounds, q \in Prots :
                             q # a.prot /\ In(a, x) /\ Has(list, x, q)
               /\ ~m.bad => /\ Canon(m.list)
                            /\ \A x \in Nat, q \in Prots :
                                 Has(m.list, x, q) <=> Has(list, x, q) \/ Put(a, x, q)
    <3>1. Sorted(t) BY <2>2, <2>4, CanonSorted
    <3>2. /\ m.bad => Conflict(t)
          /\ ~m.bad => /\ Canon(m.list)
                       /\ \A x \in Nat, q \in Prots : Has(m.list, x, q) <=> Has(t, x, q)
      BY <2>1, <2>2, <3>1, CoalesceIs
    <3>3. ASSUME Conflict(t)
          PROVE  \E x \in Bounds, q \in Prots : q # a.prot /\ In(a, x) /\ Has(list, x, q)
      <4>1. PICK i \in DOMAIN t, j \in DOMAIN t, x \in Bounds :
              In(t[i], x) /\ In(t[j], x) /\ t[i].prot # t[j].prot
        BY <3>3 DEF Conflict
      <4>2. Has(t, x, t[i].prot) /\ Has(t, x, t[j].prot) /\ x \in Nat
        BY <4>1, BoundsNat DEF Has
      <4>3. /\ Has(list, x, t[i].prot) \/ Put(a, x, t[i].prot)
            /\ Has(list, x, t[j].prot) \/ Put(a, x, t[j].prot)
        BY <2>2, <4>2
      <4>4. ~(Has(list, x, t[i].prot) /\ Has(list, x, t[j].prot))
        BY <2>4, <4>1, <4>2, OneRight
      <4>5. ~(Put(a, x, t[i].prot) /\ Put(a, x, t[j].prot)) BY <4>1 DEF Put
      <4>6. PICK q : q # a.prot /\ In(a, x) /\ Has(list, x, q)
        BY <4>1, <4>3, <4>4, <4>5 DEF Put
      <4>7. q \in Prots BY <4>6, HasProt
      <4> QED BY <4>6, <4>7
    <3> QED BY <2>2, <3>2, <3>3
  <2> QED BY <2>3, <2>4 DEF m
<1> QED BY <1>1, <1>2

-----------------------------------------------------------------------------
(* Unmap.                                                                   *)

\* Area a may follow list l.
After(l, a) == \A i \in DOMAIN l : /\ End(l[i]) <= a.addr
                                   /\ End(l[i]) = a.addr => l[i].prot # a.prot

\* What a list has with one more area at its end.
LEMMA AppendIs ==
  ASSUME NEW l \in Lists, NEW a \in AreaSet
  PROVE  /\ Append(l, a) \in Lists
         /\ DOMAIN Append(l, a) = DOMAIN l \cup {Len(l) + 1}
         /\ \A i \in DOMAIN l : Append(l, a)[i] = l[i]
         /\ Append(l, a)[Len(l) + 1] = a
         /\ \A x, q : Has(Append(l, a), x, q) <=> Has(l, x, q) \/ Put(a, x, q)
         /\ Canon(l) /\ After(l, a) => Canon(Append(l, a))
<1> DEFINE n == Len(l)
           s == Append(l, a)
<1>1. n \in Nat /\ DOMAIN l = 1 .. n BY DEF Lists
<1>2. /\ s \in Lists /\ DOMAIN s = 1 .. n + 1 /\ s[n + 1] = a
      /\ \A i \in 1 .. n : s[i] = l[i]
  BY DEF Lists
<1> HIDE DEF s
<1>3. DOMAIN s = (1 .. n) \cup {n + 1} BY <1>1, <1>2
<1>4. \A x, q : Has(s, x, q) <=> Has(l, x, q) \/ Put(a, x, q)
  <2> SUFFICES ASSUME NEW x, NEW q PROVE Has(s, x, q) <=> Has(l, x, q) \/ Put(a, x, q)
    OBVIOUS
  <2>1. Has(s, x, q) <=> Put(a, x, q) \/ \E i \in 1 .. n : Put(l[i], x, q)
    BY <1>2, <1>3 DEF Has, Put
  <2> QED BY <2>1, <1>1 DEF Has, Put
<1>5. ASSUME Canon(l), After(l, a) PROVE Canon(s)
  <2> SUFFICES ASSUME NEW i \in 1 .. n + 1, NEW j \in 1 .. n + 1, i < j
               PROVE  /\ End(s[i]) <= s[j].addr
                      /\ End(s[i]) = s[j].addr => s[i].prot # s[j].prot
    BY <1>2 DEF Canon
  <2>1. i \in 1 .. n /\ s[i] = l[i] BY <1>1, <1>2
  <2>2. CASE j = n + 1 BY <1>1, <1>2, <1>5, <2>1, <2>2 DEF After
  <2>3. CASE j # n + 1
    <3>1. j \in 1 .. n /\ s[j] = l[j] BY <1>1, <1>2, <2>3
    <3> QED BY <1>1, <1>5, <2>1, <3>1 DEF Canon
  <2> QED BY <2>2, <2>3
<1> QED BY <1>1, <1>2, <1>3, <1>4, <1>5 DEF s

\* What a turn does with an area it meets: the piece below u, the one above.
Below(v, u) == Span(v.addr, u.addr, v.prot)
Above(v, u) == Span(End(u), End(v), v.prot)
Kept(w, piece, done, split) ==
  [list |-> Append(w.list, piece), done |-> done, split |-> split]

Leaves(piece, split, w, v, u) ==
  \A x \in Nat : \A q : Put(piece, x, q) \/ Has(split, x, q) <=>
                          Has(w.split, x, q) \/ (Put(v, x, q) /\ ~In(u, x))

\* The five outcomes of a turn of Unmap.
LEMMA CutCases ==
  ASSUME NEW w, NEW v \in AreaSet, NEW u \in AreaSet
  PROVE  LET off   == w.done \/ ~(v.addr < End(u) /\ u.addr < End(v))
             start == v.addr >= u.addr
             end   == End(v) <= End(u)
         IN  /\ off => Cut(w, v, u) = Kept(w, v, w.done, w.split)
             /\ ~off /\ start /\ end   => Cut(w, v, u) = w
             /\ ~off /\ start /\ ~end  => Cut(w, v, u) = Kept(w, Above(v, u), TRUE, w.split)
             /\ ~off /\ ~start /\ end  => Cut(w, v, u) = Kept(w, Below(v, u), FALSE, w.split)
             /\ ~off /\ ~start /\ ~end =>
                  Cut(w, v, u) = Kept(w, Below(v, u), TRUE, <<Above(v, u)>>)
<1>1. Intersect(v, u) <=> v.addr < End(u) /\ u.addr < End(v) BY IntersectIs
<1> HIDE DEF Intersect
<1> QED BY <1>1 DEF Cut, Kept, Above, Below, Span

\* What is below u in v and above u in v.
LEMMA PiecesAre ==
  ASSUME NEW v \in AreaSet, NEW u \in AreaSet, v.addr < End(u), u.addr < End(v)
  PROVE  /\ v.addr < u.addr =>
              /\ Below(v, u) \in AreaSet /\ Below(v, u).addr = v.addr
              /\ End(Below(v, u)) = u.addr /\ Below(v, u).prot = v.prot
         /\ End(u) < End(v) =>
              /\ Above(v, u) \in AreaSet /\ Above(v, u).addr = End(u)
              /\ End(Above(v, u)) = End(v) /\ Above(v, u).prot = v.prot
<1>1. /\ v.addr \in Nat /\ End(v) \in Nat /\ u.addr \in Nat /\ End(u) \in Nat
      /\ v.addr \in Bounds /\ End(v) \in Bounds /\ u.addr \in Bounds /\ End(u) \in Bounds
      /\ v.prot \in Prots
  BY AreaIs
<1>2. ASSUME v.addr < u.addr
      PROVE  /\ Below(v, u) \in AreaSet /\ Below(v, u).addr = v.addr
             /\ End(Below(v, u)) = u.addr /\ Below(v, u).prot = v.prot
  <2>1. Below(v, u) \in AreaSet BY <1>1, <1>2, SpanType DEF Below
  <2>2. /\ Below(v, u).addr = v.addr /\ End(Below(v, u)) = u.addr
        /\ Below(v, u).prot = v.prot
    BY <1>1, <1>2, SpanIs DEF Below
  <2> QED BY <2>1, <2>2
<1>3. ASSUME End(u) < End(v)
      PROVE  /\ Above(v, u) \in AreaSet /\ Above(v, u).addr = End(u)
             /\ End(Above(v, u)) = End(v) /\ Above(v, u).prot = v.prot
  <2>1. Above(v, u) \in AreaSet BY <1>1, <1>3, SpanType DEF Above
  <2>2. /\ Above(v, u).addr = End(u) /\ End(Above(v, u)) = End(v)
        /\ Above(v, u).prot = v.prot
    BY <1>1, <1>3, SpanIs DEF Above
  <2> QED BY <2>1, <2>2
<1> QED BY <1>2, <1>3

\* A turn of Unmap keeps the types.
LEMMA CutType ==
  ASSUME NEW w \in Trims, NEW v \in AreaSet, NEW u \in AreaSet
  PROVE  Cut(w, v, u) \in Trims
<1> DEFINE off == w.done \/ ~(v.addr < End(u) /\ u.addr < End(v))
<1>1. w.list \in Lists /\ w.done \in BOOLEAN /\ w.split \in Lists BY DEF Trims
<1>2. \A piece \in AreaSet : Append(w.list, piece) \in Lists BY <1>1, AppendIs
<1>3. /\ v.addr \in Nat /\ End(v) \in Nat /\ u.addr \in Nat /\ End(u) \in Nat BY AreaIs
<1>4. CASE off
  <2>1. Cut(w, v, u) = Kept(w, v, w.done, w.split) BY <1>4, CutCases
  <2>2. Kept(w, v, w.done, w.split) \in Trims BY <1>1, <1>2 DEF Kept, Trims
  <2> QED BY <2>1, <2>2
<1>5. CASE ~off
  <2>1. v.addr < u.addr => Below(v, u) \in AreaSet BY <1>5, PiecesAre
  <2>2. End(u) < End(v) => Above(v, u) \in AreaSet BY <1>5, PiecesAre
  <2>3. End(u) < End(v) => <<Above(v, u)>> \in Lists BY <2>2 DEF Lists
  <2>4. CASE v.addr >= u.addr /\ End(v) <= End(u)
    <3>1. Cut(w, v, u) = w BY <1>5, <2>4, CutCases
    <3> QED BY <3>1
  <2>5. CASE v.addr >= u.addr /\ ~(End(v) <= End(u))
    <3>1. Cut(w, v, u) = Kept(w, Above(v, u), TRUE, w.split) BY <1>5, <2>5, CutCases
    <3>2. Kept(w, Above(v, u), TRUE, w.split) \in Trims
      BY <1>1, <1>2, <1>3, <2>2, <2>5 DEF Kept, Trims
    <3> QED BY <3>1, <3>2
  <2>6. CASE ~(v.addr >= u.addr) /\ End(v) <= End(u)
    <3>1. Cut(w, v, u) = Kept(w, Below(v, u), FALSE, w.split) BY <1>5, <2>6, CutCases
    <3>2. Kept(w, Below(v, u), FALSE, w.split) \in Trims
      BY <1>1, <1>2, <1>3, <2>1, <2>6 DEF Kept, Trims
    <3> QED BY <3>1, <3>2
  <2>7. CASE ~(v.addr >= u.addr) /\ ~(End(v) <= End(u))
    <3>1. Cut(w, v, u) = Kept(w, Below(v, u), TRUE, <<Above(v, u)>>)
      BY <1>5, <2>7, CutCases
    <3>2. Kept(w, Below(v, u), TRUE, <<Above(v, u)>>) \in Trims
      BY <1>1, <1>2, <1>3, <2>1, <2>2, <2>3, <2>7 DEF Kept, Trims
    <3> QED BY <3>1, <3>2
  <2> QED BY <2>4, <2>5, <2>6, <2>7
<1> QED BY <1>4, <1>5

\* A turn leaves of an area what u does not have.
LEMMA CutIs ==
  ASSUME NEW w \in Trims, NEW v \in AreaSet, NEW u \in AreaSet,
         Canon(w.list), After(w.list, v), w.done => End(u) <= v.addr,
         w.split # <<>> => w.done /\ Len(w.split) = 1
  PROVE  LET s == Cut(w, v, u)
         IN  /\ Canon(s.list)
             /\ \A j \in DOMAIN s.list :
                  \/ j \in DOMAIN w.list /\ s.list[j] = w.list[j]
                  \/ End(s.list[j]) <= End(v) /\ s.list[j].prot = v.prot
             /\ \A x \in Nat : \A q :
                  Has(s.list, x, q) \/ Has(s.split, x, q) <=>
                    Has(w.list, x, q) \/ Has(w.split, x, q) \/ (Put(v, x, q) /\ ~In(u, x))
             /\ s.done => End(u) <= End(v)
             /\ s.split # <<>> => s.done /\ Len(s.split) = 1
<1> DEFINE off  == w.done \/ ~(v.addr < End(u) /\ u.addr < End(v))
           s    == Cut(w, v, u)
           Fine(z) ==
             /\ Canon(z.list)
             /\ \A j \in DOMAIN z.list :
                  \/ j \in DOMAIN w.list /\ z.list[j] = w.list[j]
                  \/ End(z.list[j]) <= End(v) /\ z.list[j].prot = v.prot
             /\ \A x \in Nat : \A q :
                  Has(z.list, x, q) \/ Has(z.split, x, q) <=>
                    Has(w.list, x, q) \/ Has(w.split, x, q) \/ (Put(v, x, q) /\ ~In(u, x))
             /\ z.done => End(u) <= End(v)
             /\ z.split # <<>> => z.done /\ Len(z.split) = 1
<1>1. w.list \in Lists /\ w.done \in BOOLEAN /\ w.split \in Lists BY DEF Trims
<1>2. /\ v.addr \in Nat /\ End(v) \in Nat /\ u.addr \in Nat /\ End(u) \in Nat
      /\ v.addr < End(v) /\ u.addr < End(u)
  BY AreaIs
<1>3. ASSUME NEW piece \in AreaSet, v.addr <= piece.addr, End(piece) <= End(v),
             piece.prot = v.prot, NEW z, z.list = Append(w.list, piece),
             Leaves(piece, z.split, w, v, u), z.done => End(u) <= End(v),
             z.split # <<>> => z.done /\ Len(z.split) = 1
      PROVE  Fine(z)
  <2> DEFINE l == Append(w.list, piece)
  <2>1. z.list = l BY <1>3
  <2>2. /\ l \in Lists /\ DOMAIN l = DOMAIN w.list \cup {Len(w.list) + 1}
        /\ \A i \in DOMAIN w.list : l[i] = w.list[i]
        /\ l[Len(w.list) + 1] = piece
        /\ \A x, q : Has(l, x, q) <=> Has(w.list, x, q) \/ Put(piece, x, q)
        /\ Canon(w.list) /\ After(w.list, piece) => Canon(l)
    BY <1>1, AppendIs
  <2> HIDE DEF l
  <2>3. After(w.list, piece)
    <3> SUFFICES ASSUME NEW i \in DOMAIN w.list
                 PROVE  /\ End(w.list[i]) <= piece.addr
                        /\ End(w.list[i]) = piece.addr => w.list[i].prot # piece.prot
      BY DEF After
    <3>1. w.list[i] \in AreaSet BY <1>1 DEF Lists
    <3>2. End(w.list[i]) \in Nat /\ piece.addr \in Nat BY <3>1, AreaIs
    <3>3. End(w.list[i]) <= v.addr /\ (End(w.list[i]) = v.addr => w.list[i].prot # v.prot)
      BY DEF After
    <3> QED BY <1>2, <1>3, <3>2, <3>3
  <2>4. \A x \in Nat : \A q :
          Has(z.list, x, q) \/ Has(z.split, x, q) <=>
            Has(w.list, x, q) \/ Has(w.split, x, q) \/ (Put(v, x, q) /\ ~In(u, x))
    <3> SUFFICES ASSUME NEW x \in Nat, NEW q
                 PROVE  Has(z.list, x, q) \/ Has(z.split, x, q) <=>
                          Has(w.list, x, q) \/ Has(w.split, x, q) \/ (Put(v, x, q) /\ ~In(u, x))
      OBVIOUS
    <3>1. Has(l, x, q) <=> Has(w.list, x, q) \/ Put(piece, x, q) BY <2>2
    <3>2. Put(piece, x, q) \/ Has(z.split, x, q) <=>
            Has(w.split, x, q) \/ (Put(v, x, q) /\ ~In(u, x))
      BY <1>3 DEF Leaves
    <3> QED BY <2>1, <3>1, <3>2
  <2>5. Canon(z.list) BY <2>1, <2>2, <2>3
  <2>6. \A j \in DOMAIN z.list :
          \/ j \in DOMAIN w.list /\ z.list[j] = w.list[j]
          \/ End(z.list[j]) <= End(v) /\ z.list[j].prot = v.prot
    BY <1>3, <2>1, <2>2
  <2> QED BY <1>3, <2>4, <2>5, <2>6
<1>4. CASE off
  <2>1. s = Kept(w, v, w.done, w.split) BY <1>4, CutCases
  <2>2. \A x \in Nat : ~(In(v, x) /\ In(u, x)) BY <1>2, <1>4 DEF In
  <2>3. Leaves(v, w.split, w, v, u) BY <2>2 DEF Put, Leaves
  <2>4. w.done => End(u) <= End(v) BY <1>2
  <2>5. s.list = Append(w.list, v) /\ s.done = w.done /\ s.split = w.split
    BY <2>1 DEF Kept
  <2>6. Fine(s)
    <3> HIDE DEF Fine, s
    <3> QED BY <1>2, <1>3, <2>3, <2>4, <2>5
  <2> QED BY <2>6
<1>5. CASE ~off
  <2>0. ~w.done /\ v.addr < End(u) /\ u.addr < End(v) BY <1>5
  <2>1. w.split = <<>> BY <2>0
  <2>2. \A x, q : ~Has(w.split, x, q) BY <2>1 DEF Has
  <2>3. CASE v.addr >= u.addr /\ End(v) <= End(u)
    <3>1. s = w BY <2>0, <2>3, CutCases
    <3>2. \A x \in Nat : \A q : ~(Put(v, x, q) /\ ~In(u, x)) BY <1>2, <2>3 DEF Put, In
    <3>3. Fine(w) BY <2>0, <2>1, <3>2
    <3> QED BY <3>1, <3>3
  <2>4. CASE v.addr >= u.addr /\ ~(End(v) <= End(u))
    <3> DEFINE a == Above(v, u)
    <3>1. s = Kept(w, a, TRUE, w.split) BY <2>0, <2>4, CutCases
    <3>2. a \in AreaSet /\ a.addr = End(u) /\ End(a) = End(v) /\ a.prot = v.prot
      BY <1>2, <2>0, <2>4, PiecesAre
    <3> HIDE DEF a
    <3>3. \A x \in Nat : \A q : Put(a, x, q) <=> Put(v, x, q) /\ ~In(u, x)
      BY <1>2, <2>0, <2>4, <3>2 DEF Put, In
    <3>l. Leaves(a, w.split, w, v, u) BY <2>2, <3>3 DEF Leaves
    <3>4. s.list = Append(w.list, a) /\ s.split = w.split /\ (s.done <=> TRUE)
      BY <3>1 DEF Kept
    <3> HIDE DEF Fine, s
    <3>f. Fine(s) BY <1>2, <1>3, <2>0, <2>1, <2>4, <3>2, <3>l, <3>4
    <3> QED BY <3>f DEF Fine, s
  <2>5. CASE ~(v.addr >= u.addr) /\ End(v) <= End(u)
    <3> DEFINE b == Below(v, u)
    <3>1. s = Kept(w, b, FALSE, w.split) BY <2>0, <2>5, CutCases
    <3>2. b \in AreaSet /\ b.addr = v.addr /\ End(b) = u.addr /\ b.prot = v.prot
      BY <1>2, <2>0, <2>5, PiecesAre
    <3> HIDE DEF b
    <3>3. \A x \in Nat : \A q : Put(b, x, q) <=> Put(v, x, q) /\ ~In(u, x)
      BY <1>2, <2>0, <2>5, <3>2 DEF Put, In
    <3>l. Leaves(b, w.split, w, v, u) BY <2>2, <3>3 DEF Leaves
    <3>4. s.list = Append(w.list, b) /\ s.split = w.split /\ (s.done <=> FALSE)
      BY <3>1 DEF Kept
    <3> HIDE DEF Fine, s
    <3>f. Fine(s) BY <1>2, <1>3, <2>0, <2>1, <2>5, <3>2, <3>l, <3>4
    <3> QED BY <3>f DEF Fine, s
  <2>6. CASE ~(v.addr >= u.addr) /\ ~(End(v) <= End(u))
    <3> DEFINE a == Above(v, u)
               b == Below(v, u)
    <3>1. s = Kept(w, b, TRUE, <<a>>) BY <2>0, <2>6, CutCases
    <3>2. b \in AreaSet /\ b.addr = v.addr /\ End(b) = u.addr /\ b.prot = v.prot
      BY <1>2, <2>0, <2>6, PiecesAre
    <3>3. a \in AreaSet /\ a.addr = End(u) /\ End(a) = End(v) /\ a.prot = v.prot
      BY <1>2, <2>0, <2>6, PiecesAre
    <3> HIDE DEF a, b
    <3>4. \A x \in Nat : \A q : Put(b, x, q) \/ Put(a, x, q) <=> Put(v, x, q) /\ ~In(u, x)
      BY <1>2, <2>0, <2>6, <3>2, <3>3 DEF Put, In
    <3>5. \A x, q : Has(<<a>>, x, q) <=> Put(a, x, q) BY DEF Has, Put
    <3>6. Len(<<a>>) = 1 OBVIOUS
    <3>l. Leaves(b, <<a>>, w, v, u) BY <2>2, <3>4, <3>5 DEF Leaves
    <3>7. s.list = Append(w.list, b) /\ s.split = <<a>> /\ (s.done <=> TRUE)
      BY <3>1 DEF Kept
    <3> HIDE DEF Fine, s
    <3>f. Fine(s) BY <1>2, <1>3, <2>0, <2>6, <3>2, <3>6, <3>l, <3>7
    <3> QED BY <3>f DEF Fine, s
  <2> QED BY <2>3, <2>4, <2>5, <2>6
<1> QED BY <1>4, <1>5

\* What Trim starts from.
TrimStart == [list |-> <<>>, done |-> FALSE, split |-> <<>>]

\* Trim cuts one area after the other.
LEMMA TrimTurns ==
  ASSUME NEW list \in Lists, NEW u \in AreaSet
  PROVE  \E turns \in [0 .. Len(list) -> Trims] :
           /\ turns[0] = TrimStart
           /\ \A i \in 1 .. Len(list) : turns[i] = Cut(turns[i - 1], list[i], u)
           /\ Trim(list, u) = turns[Len(list)]
<1> DEFINE n == Len(list)
           turns == Turns(LAMBDA w, v : Cut(w, v, u), TrimStart, list)
           step == [i \in 1 .. n |-> [r \in Trims |-> Cut(r, list[i], u)]]
<1>1. TrimStart \in Trims /\ n \in Nat BY DEF Lists, Trims, TrimStart
<1>2. \A i \in 1 .. n : \A r \in Trims : Cut(r, list[i], u) \in Trims
  BY CutType DEF Lists
<1>3. IsLoop(Trims, n, TrimStart, step) BY <1>1, <1>2 DEF IsLoop
<1>4. PICK h : IsRun(h, Trims, n, TrimStart, step)
  <2> HIDE DEF n, step
  <2> QED BY <1>3, RunExists
<1>5. h = [i \in 0 .. n |-> IF i = 0 THEN TrimStart ELSE Cut(h[i - 1], list[i], u)]
  <2>1. h \in [0 .. n -> Trims] /\ h[0] = TrimStart BY <1>4 DEF IsRun
  <2>2. ASSUME NEW i \in 1 .. n PROVE h[i] = Cut(h[i - 1], list[i], u)
    <3>1. h[i] = step[i][h[i - 1]] BY <1>4 DEF IsRun
    <3>2. h[i - 1] \in Trims BY <1>1, <2>1
    <3> QED BY <3>1, <3>2
  <2>3. h = [i \in 0 .. n |-> h[i]] BY <2>1
  <2>4. \A i \in 0 .. n : h[i] = IF i = 0 THEN TrimStart ELSE Cut(h[i - 1], list[i], u)
    <3> SUFFICES ASSUME NEW i \in 0 .. n
                 PROVE  h[i] = IF i = 0 THEN TrimStart ELSE Cut(h[i - 1], list[i], u)
      OBVIOUS
    <3>1. CASE i = 0 BY <2>1, <3>1
    <3>2. CASE i # 0
      <4>1. i \in 1 .. n BY <1>1, <3>2
      <4> QED BY <2>2, <3>2, <4>1
    <3> QED BY <3>1, <3>2
  <2> HIDE DEF n
  <2> QED BY <2>3, <2>4
<1>6. turns = [i \in 0 .. n |-> IF i = 0 THEN TrimStart ELSE Cut(turns[i - 1], list[i], u)]
  BY <1>5 DEF Turns
<1> HIDE DEF turns
<1>7. turns = [i \in 0 .. n |-> turns[i]] BY <1>6
<1>8. turns[0] = TrimStart /\ \A i \in 1 .. n : turns[i] = Cut(turns[i - 1], list[i], u)
  BY <1>1, <1>6
<1>9. \A i \in 1 .. n : turns[i - 1] \in Trims => turns[i] = step[i][turns[i - 1]] BY <1>8
<1>10. IsRun(turns, Trims, n, TrimStart, step)
  <2> HIDE DEF n, step
  <2> QED BY <1>3, <1>7, <1>8, <1>9, RunIs
<1>11. turns \in [0 .. n -> Trims] BY <1>10 DEF IsRun
<1>12. Trim(list, u) = turns[n] BY DEF Trim, Loop, TrimStart, turns
<1> QED BY <1>8, <1>11, <1>12

\* The loop and the piece it split off have what u does not.
LEMMA TrimIs ==
  ASSUME NEW list \in Lists, NEW u \in AreaSet, Canon(list)
  PROVE  LET w == Trim(list, u)
         IN  /\ w \in Trims /\ Canon(w.list)
             /\ w.split # <<>> => Len(w.split) = 1
             /\ \A x \in Nat : \A q :
                  Has(w.list, x, q) \/ Has(w.split, x, q) <=> Has(list, x, q) /\ ~In(u, x)
<1> DEFINE n == Len(list)
           Good(w, i) ==
             /\ Canon(w.list)
             /\ \A j \in DOMAIN w.list : \E k \in 1 .. i :
                  End(w.list[j]) <= End(list[k]) /\ w.list[j].prot = list[k].prot
             /\ \A x \in Nat : \A q :
                  Has(w.list, x, q) \/ Has(w.split, x, q) <=> Within(list, i, x, q) /\ ~In(u, x)
             /\ w.done => i > 0 /\ End(u) <= End(list[i])
             /\ w.split # <<>> => w.done /\ Len(w.split) = 1
<1>1. n \in Nat /\ DOMAIN list = 1 .. n /\ \A i \in 1 .. n : list[i] \in AreaSet
  BY DEF Lists
<1>2. PICK turns \in [0 .. n -> Trims] :
        /\ turns[0] = TrimStart
        /\ \A i \in 1 .. n : turns[i] = Cut(turns[i - 1], list[i], u)
        /\ Trim(list, u) = turns[n]
  BY TrimTurns
<1> DEFINE T == {i \in 0 .. n : Good(turns[i], i)}
<1>3. 0 \in T
  <2>1. turns[0].list = <<>> /\ turns[0].done = FALSE /\ turns[0].split = <<>>
    BY <1>2 DEF TrimStart
  <2>2. Canon(turns[0].list) /\ \A x, q : ~Has(turns[0].list, x, q) /\ ~Has(turns[0].split, x, q)
    BY <2>1 DEF Canon, Has
  <2>3. \A x, q : ~Within(list, 0, x, q) BY DEF Within
  <2>4. Good(turns[0], 0) BY <2>1, <2>2, <2>3
  <2> HIDE DEF Good
  <2> QED BY <1>1, <2>4
<1>4. ASSUME NEW k \in 0 .. n - 1, k \in T PROVE k + 1 \in T
  <2> DEFINE w == turns[k]
             v == list[k + 1]
             s == turns[k + 1]
  <2>1. k + 1 \in 1 .. n /\ k + 1 \in 0 .. n /\ k \in 0 .. n /\ (k + 1) - 1 = k BY <1>1
  <2>2. w \in Trims /\ v \in AreaSet /\ s = Cut(w, v, u) BY <1>1, <1>2, <2>1
  <2>3. Good(w, k) BY <1>4
  <2>4. /\ v.addr \in Nat /\ End(v) \in Nat /\ v.addr < End(v) /\ End(u) \in Nat
    BY <2>2, AreaIs
  <2>5. \A i \in 1 .. k : /\ End(list[i]) \in Nat /\ End(list[i]) <= v.addr
                          /\ End(list[i]) = v.addr => list[i].prot # v.prot
    <3> SUFFICES ASSUME NEW i \in 1 .. k
                 PROVE  /\ End(list[i]) \in Nat /\ End(list[i]) <= v.addr
                        /\ End(list[i]) = v.addr => list[i].prot # v.prot
      OBVIOUS
    <3>1. i \in 1 .. n /\ i < k + 1 BY <1>1, <2>1
    <3> QED BY <1>1, <2>1, <3>1, AreaIs DEF Canon
  <2>6. After(w.list, v)
    <3> SUFFICES ASSUME NEW j \in DOMAIN w.list
                 PROVE  /\ End(w.list[j]) <= v.addr
                        /\ End(w.list[j]) = v.addr => w.list[j].prot # v.prot
      BY DEF After
    <3>1. PICK i \in 1 .. k : End(w.list[j]) <= End(list[i]) /\ w.list[j].prot = list[i].prot
      BY <2>3
    <3>2. w.list[j] \in AreaSet BY <2>2 DEF Trims, Lists
    <3>3. End(w.list[j]) \in Nat BY <3>2, AreaIs
    <3> HIDE DEF w, v
    <3> QED BY <2>4, <2>5, <3>1, <3>3
  <2>7. w.done => End(u) <= v.addr
    <3>1. SUFFICES ASSUME w.done PROVE End(u) <= v.addr OBVIOUS
    <3>2. k > 0 /\ End(u) <= End(list[k]) BY <2>3, <3>1
    <3>3. k \in 1 .. k BY <3>2
    <3> HIDE DEF v
    <3> QED BY <2>4, <2>5, <3>2, <3>3
  <2>8. Canon(w.list) /\ (w.split # <<>> => w.done /\ Len(w.split) = 1) BY <2>3
  <2>9. \A x \in Nat : \A q :
          Has(w.list, x, q) \/ Has(w.split, x, q) <=> Within(list, k, x, q) /\ ~In(u, x)
    BY <2>3
  <2>10. \A j \in DOMAIN w.list : \E i \in 1 .. k :
           End(w.list[j]) <= End(list[i]) /\ w.list[j].prot = list[i].prot
    BY <2>3
  <2>11. \A x, q : Within(list, k + 1, x, q) <=> Within(list, k, x, q) \/ Put(v, x, q)
    <3>1. 1 .. k + 1 = (1 .. k) \cup {k + 1} BY <2>1
    <3> QED BY <3>1 DEF Within, Put
  <2> HIDE DEF Good, w, v, s
  <2>12. /\ Canon(s.list)
         /\ \A j \in DOMAIN s.list :
              \/ j \in DOMAIN w.list /\ s.list[j] = w.list[j]
              \/ End(s.list[j]) <= End(v) /\ s.list[j].prot = v.prot
         /\ \A x \in Nat : \A q :
              Has(s.list, x, q) \/ Has(s.split, x, q) <=>
                Has(w.list, x, q) \/ Has(w.split, x, q) \/ (Put(v, x, q) /\ ~In(u, x))
         /\ s.done => End(u) <= End(v)
         /\ s.split # <<>> => s.done /\ Len(s.split) = 1
    BY <2>2, <2>6, <2>7, <2>8, CutIs
  <2>13. \A j \in DOMAIN s.list : \E i \in 1 .. k + 1 :
           End(s.list[j]) <= End(list[i]) /\ s.list[j].prot = list[i].prot
    <3> SUFFICES ASSUME NEW j \in DOMAIN s.list
                 PROVE  \E i \in 1 .. k + 1 :
                          End(s.list[j]) <= End(list[i]) /\ s.list[j].prot = list[i].prot
      OBVIOUS
    <3>1. CASE j \in DOMAIN w.list /\ s.list[j] = w.list[j]
      <4>1. PICK i \in 1 .. k : End(w.list[j]) <= End(list[i]) /\ w.list[j].prot = list[i].prot
        BY <2>10, <3>1
      <4>2. i \in 1 .. k + 1 OBVIOUS
      <4> QED BY <3>1, <4>1, <4>2
    <3>2. CASE End(s.list[j]) <= End(v) /\ s.list[j].prot = v.prot
      <4>1. k + 1 \in 1 .. k + 1 BY <2>1
      <4> QED BY <3>2, <4>1 DEF v
    <3> QED BY <2>12, <3>1, <3>2
  <2>14. \A x \in Nat : \A q :
           Has(s.list, x, q) \/ Has(s.split, x, q) <=> Within(list, k + 1, x, q) /\ ~In(u, x)
    BY <2>9, <2>11, <2>12
  <2>15. k + 1 > 0 BY <2>1
  <2>16. Good(s, k + 1) BY <2>12, <2>13, <2>14, <2>15 DEF Good, v
  <2> QED BY <2>1, <2>16 DEF s
<1>5. \A i \in 0 .. n : i \in T
  <2> HIDE DEF T, n
  <2> QED BY <1>1, <1>3, <1>4, Upto
<1>6. Good(turns[n], n) BY <1>1, <1>5
<1>7. turns[n] \in Trims BY <1>1, <1>2
<1>8. \A x, q : Within(list, n, x, q) <=> Has(list, x, q) BY <1>1 DEF Within, Has
<1> HIDE DEF n
<1> QED BY <1>2, <1>6, <1>7, <1>8

\* Trim leaves a list and at most one piece ...
LEMMA TrimType ==
  ASSUME NEW list \in Lists, NEW u \in AreaSet
  PROVE  Trim(list, u) \in Trims
<1>1. Len(list) \in 0 .. Len(list) BY DEF Lists
<1> QED BY <1>1, TrimTurns

\* ... and Unmap a list.
LEMMA UnmapType ==
  ASSUME NEW list \in Lists, NEW u \in AreaSet
  PROVE  Unmap(list, u) \in Lists
<1> DEFINE w == Trim(list, u)
<1>1. w.list \in Lists /\ w.split \in Lists BY TrimType DEF Trims
<1> HIDE DEF w
<1>2. CASE w.split = <<>>
  <2>1. Unmap(list, u) = w.list BY <1>2 DEF Unmap, w
  <2> QED BY <1>1, <2>1
<1>3. CASE w.split # <<>>
  <2>1. w.split[1] \in AreaSet BY <1>1, <1>3 DEF Lists
  <2>2. MapIn(w.list, w.split[1]) \in Results BY <1>1, <2>1, MapInIs
  <2>3. Unmap(list, u) = MapIn(w.list, w.split[1]).list BY <1>3 DEF Unmap, w
  <2> QED BY <2>2, <2>3 DEF Results
<1> QED BY <1>2, <1>3

\* What is left is what the area does not have, as the one list of it; mapping
\* the upper half of a split area never panics.
LEMMA UnmapIs ==
  ASSUME NEW list \in Lists, NEW u \in AreaSet, Canon(list)
  PROVE  /\ Canon(Unmap(list, u))
         /\ \A x \in Nat, q \in Prots :
              Has(Unmap(list, u), x, q) <=> Has(list, x, q) /\ ~In(u, x)
<1> DEFINE w == Trim(list, u)
<1>1. /\ w \in Trims /\ Canon(w.list)
      /\ w.split # <<>> => Len(w.split) = 1
      /\ \A x \in Nat : \A q :
           Has(w.list, x, q) \/ Has(w.split, x, q) <=> Has(list, x, q) /\ ~In(u, x)
  BY TrimIs
<1>2. w.list \in Lists /\ w.split \in Lists BY <1>1 DEF Trims
<1> HIDE DEF w
<1>3. CASE w.split = <<>>
  <2>1. Unmap(list, u) = w.list BY <1>3 DEF Unmap, w
  <2>2. \A x, q : ~Has(w.split, x, q) BY <1>3 DEF Has
  <2> QED BY <1>1, <2>1, <2>2
<1>4. CASE w.split # <<>>
  <2> DEFINE a == w.split[1]
             m == MapIn(w.list, a)
  <2>1. a \in AreaSet /\ DOMAIN w.split = {1} BY <1>1, <1>2, <1>4 DEF Lists
  <2>2. \A x, q : Has(w.split, x, q) <=> Put(a, x, q) BY <2>1 DEF Has, Put
  <2>3. Unmap(list, u) = m.list BY <1>4 DEF Unmap, w
  <2>4. /\ m.bad => \E x \in Bounds, q \in Prots :
                      q # a.prot /\ In(a, x) /\ Has(w.list, x, q)
        /\ ~m.bad => /\ Canon(m.list)
                     /\ \A x \in Nat, q \in Prots :
                          Has(m.list, x, q) <=> Has(w.list, x, q) \/ Put(a, x, q)
    BY <1>1, <1>2, <2>1, MapInIs
  <2> HIDE DEF m, a
  <2>5. ~m.bad
    <3>1. SUFFICES ASSUME m.bad PROVE FALSE OBVIOUS
    <3>2. PICK x \in Bounds, q \in Prots : q # a.prot /\ In(a, x) /\ Has(w.list, x, q)
      BY <2>4, <3>1
    <3>3. x \in Nat /\ Put(a, x, a.prot) BY <3>2, BoundsNat DEF Put
    <3>4. Has(list, x, q) BY <1>1, <3>2, <3>3
    <3>5. Has(list, x, a.prot) BY <1>1, <2>2, <3>3
    <3> QED BY <3>2, <3>3, <3>4, <3>5, OneRight
  <2> QED BY <1>1, <2>2, <2>3, <2>4, <2>5
<1> QED BY <1>3, <1>4

-----------------------------------------------------------------------------
(* The operations on whole lists.                                           *)

\* A turn of MapArea keeps the types.
LEMMA MapTurnType ==
  ASSUME NEW r \in Results, NEW a \in AreaSet
  PROVE  MapTurn(r, a) \in Results
<1>1. r.list \in Lists BY DEF Results
<1>2. MapIn(r.list, a) \in Results BY <1>1, MapInIs
<1>3. MapIn(r.list, a).list \in Lists BY <1>2 DEF Results
<1> QED BY <1>3 DEF MapTurn, Result, Results

\* A turn of MapArea maps one area, and remembers a panic.
LEMMA MapTurnIs ==
  ASSUME NEW r, NEW a
  PROVE  /\ MapTurn(r, a).list = MapIn(r.list, a).list
         /\ MapTurn(r, a).bad <=> r.bad \/ MapIn(r.list, a).bad
<1>1. MapTurn(r, a) = Result(MapIn(r.list, a).list, r.bad \/ MapIn(r.list, a).bad)
  BY DEF MapTurn
<1>2. MapTurn(r, a).bad = (r.bad \/ MapIn(r.list, a).bad) BY <1>1 DEF Result
<1>3. MapTurn(r, a).bad <=> r.bad \/ MapIn(r.list, a).bad BY <1>2, Zenon
<1> QED BY <1>1, <1>3 DEF Result

\* MapArea maps one area after the other.
LEMMA MapAllTurns ==
  ASSUME NEW list \in Lists, NEW areas \in Lists
  PROVE  \E turns \in [0 .. Len(areas) -> Results] :
           /\ turns[0] = Result(list, FALSE)
           /\ \A i \in 1 .. Len(areas) : turns[i] = MapTurn(turns[i - 1], areas[i])
           /\ MapAll(list, areas) = turns[Len(areas)]
<1> DEFINE n == Len(areas)
           turns == Turns(MapTurn, Result(list, FALSE), areas)
           step == [i \in 1 .. n |-> [r \in Results |-> MapTurn(r, areas[i])]]
<1>1. Result(list, FALSE) \in Results /\ n \in Nat BY DEF Lists, Result, Results
<1>2. \A i \in 1 .. n : \A r \in Results : MapTurn(r, areas[i]) \in Results
  BY MapTurnType DEF Lists
<1>3. IsLoop(Results, n, Result(list, FALSE), step) BY <1>1, <1>2 DEF IsLoop
<1>4. PICK h : IsRun(h, Results, n, Result(list, FALSE), step)
  <2> HIDE DEF n, step
  <2> QED BY <1>3, RunExists
<1>5. h = [i \in 0 .. n |-> IF i = 0 THEN Result(list, FALSE) ELSE MapTurn(h[i - 1], areas[i])]
  <2>1. h \in [0 .. n -> Results] /\ h[0] = Result(list, FALSE) BY <1>4 DEF IsRun
  <2>2. ASSUME NEW i \in 1 .. n PROVE h[i] = MapTurn(h[i - 1], areas[i])
    <3>1. h[i] = step[i][h[i - 1]] BY <1>4 DEF IsRun
    <3>2. h[i - 1] \in Results BY <1>1, <2>1
    <3> QED BY <3>1, <3>2
  <2>3. h = [i \in 0 .. n |-> h[i]] BY <2>1
  <2>4. \A i \in 0 .. n : h[i] = IF i = 0 THEN Result(list, FALSE) ELSE MapTurn(h[i - 1], areas[i])
    <3> SUFFICES ASSUME NEW i \in 0 .. n
                 PROVE  h[i] = IF i = 0 THEN Result(list, FALSE) ELSE MapTurn(h[i - 1], areas[i])
      OBVIOUS
    <3>1. CASE i = 0 BY <2>1, <3>1
    <3>2. CASE i # 0
      <4>1. i \in 1 .. n BY <1>1, <3>2
      <4> QED BY <2>2, <3>2, <4>1
    <3> QED BY <3>1, <3>2
  <2> HIDE DEF n
  <2> QED BY <2>3, <2>4
<1>6. turns = [i \in 0 .. n |-> IF i = 0 THEN Result(list, FALSE) ELSE MapTurn(turns[i - 1], areas[i])]
  BY <1>5 DEF Turns
<1> HIDE DEF turns
<1>7. turns = [i \in 0 .. n |-> turns[i]] BY <1>6
<1>8. turns[0] = Result(list, FALSE) /\ \A i \in 1 .. n : turns[i] = MapTurn(turns[i - 1], areas[i])
  BY <1>1, <1>6
<1>9. \A i \in 1 .. n : turns[i - 1] \in Results => turns[i] = step[i][turns[i - 1]]
  BY <1>8
<1>10. IsRun(turns, Results, n, Result(list, FALSE), step)
  <2> HIDE DEF n, step
  <2> QED BY <1>3, <1>7, <1>8, <1>9, RunIs
<1>11. turns \in [0 .. n -> Results] BY <1>10 DEF IsRun
<1>12. MapAll(list, areas) = turns[n] BY DEF MapAll, Loop, turns
<1> QED BY <1>8, <1>11, <1>12

\* MapArea gives a list.
LEMMA MapAllType ==
  ASSUME NEW list \in Lists, NEW areas \in Lists
  PROVE  MapAll(list, areas) \in Results
<1>1. PICK turns \in [0 .. Len(areas) -> Results] : MapAll(list, areas) = turns[Len(areas)]
  BY MapAllTurns
<1>2. Len(areas) \in 0 .. Len(areas) BY DEF Lists
<1> QED BY <1>1, <1>2

\* What the first i + 1 areas have, by what the first i have.
LEMMA WithinNext ==
  ASSUME NEW list, NEW k \in Nat, NEW x, NEW q
  PROVE  Within(list, k + 1, x, q) <=> Within(list, k, x, q) \/ Put(list[k + 1], x, q)
<1>1. 1 .. k + 1 = (1 .. k) \cup {k + 1} OBVIOUS
<1> QED BY <1>1 DEF Within, Put

\* Two lists give a page different rights.
Disagree(list, areas) ==
  \E x \in Bounds : \E q, r \in Prots : q # r /\ Has(list, x, q) /\ Has(areas, x, r)

\* MapArea gives what either list has, as the one list of it, or panics because
\* the lists disagree.
LEMMA MapAllIs ==
  ASSUME NEW list \in Lists, NEW areas \in Lists, Canon(list), Canon(areas)
  PROVE  LET c == MapAll(list, areas)
         IN  /\ c.bad => Disagree(list, areas)
             /\ ~c.bad => /\ Canon(c.list)
                          /\ \A x \in Nat, q \in Prots :
                               Has(c.list, x, q) <=> Has(list, x, q) \/ Has(areas, x, q)
<1> DEFINE n == Len(areas)
           Good(r, i) ==
             /\ ~r.bad => /\ Canon(r.list)
                          /\ \A x \in Nat, q \in Prots :
                               Has(r.list, x, q) <=> Has(list, x, q) \/ Within(areas, i, x, q)
             /\ r.bad => Disagree(list, areas)
<1>1. n \in Nat /\ DOMAIN areas = 1 .. n /\ \A i \in 1 .. n : areas[i] \in AreaSet
  BY DEF Lists
<1>2. PICK turns \in [0 .. n -> Results] :
        /\ turns[0] = Result(list, FALSE)
        /\ \A i \in 1 .. n : turns[i] = MapTurn(turns[i - 1], areas[i])
        /\ MapAll(list, areas) = turns[n]
  BY MapAllTurns
<1> DEFINE T == {i \in 0 .. n : Good(turns[i], i)}
<1>3. 0 \in T
  <2>1. turns[0].list = list /\ turns[0].bad = FALSE BY <1>2 DEF Result
  <2>2. \A x, q : ~Within(areas, 0, x, q) BY DEF Within
  <2>3. Good(turns[0], 0) BY <2>1, <2>2
  <2> HIDE DEF Good
  <2> QED BY <1>1, <2>3
<1>4. ASSUME NEW k \in 0 .. n - 1, k \in T PROVE k + 1 \in T
  <2> DEFINE r == turns[k]
             a == areas[k + 1]
             m == MapIn(r.list, a)
             s == turns[k + 1]
  <2>1. k + 1 \in 1 .. n /\ k + 1 \in 0 .. n /\ k \in 0 .. n /\ (k + 1) - 1 = k /\ k \in Nat
    BY <1>1
  <2>2. r \in Results /\ a \in AreaSet /\ s = MapTurn(r, a) BY <1>1, <1>2, <2>1
  <2>3. Good(r, k) BY <1>4
  <2>4. r.list \in Lists BY <2>2 DEF Results
  <2>5. s.list = m.list /\ (s.bad <=> r.bad \/ m.bad) BY <2>2, MapTurnIs
  <2>6. CASE r.bad
    <3>1. Good(s, k + 1) BY <2>3, <2>5, <2>6
    <3> HIDE DEF Good
    <3> QED BY <2>1, <3>1
  <2>7. CASE ~r.bad
    <3>1. /\ Canon(r.list)
          /\ \A x \in Nat, q \in Prots :
               Has(r.list, x, q) <=> Has(list, x, q) \/ Within(areas, k, x, q)
      BY <2>3, <2>7
    <3>2. \A x, q : Within(areas, k + 1, x, q) <=> Within(areas, k, x, q) \/ Put(a, x, q)
      BY <2>1, WithinNext
    <3>3. \A x, q : Within(areas, k, x, q) => Has(areas, x, q)
      <4>1. 1 .. k \subseteq DOMAIN areas BY <1>1, <2>1
      <4> QED BY <4>1 DEF Within, Has
    <3>4. \A x : In(a, x) => Has(areas, x, a.prot) BY <1>1, <2>1 DEF Has
    <3> HIDE DEF Good, r, a, m, s
    <3>5. /\ m.bad => \E x \in Bounds, q \in Prots :
                        q # a.prot /\ In(a, x) /\ Has(r.list, x, q)
          /\ ~m.bad => /\ Canon(m.list)
                       /\ \A x \in Nat, q \in Prots :
                            Has(m.list, x, q) <=> Has(r.list, x, q) \/ Put(a, x, q)
      BY <2>2, <2>4, <3>1, MapInIs DEF m
    <3>6. ASSUME s.bad PROVE Disagree(list, areas)
      <4>1. PICK x \in Bounds, q \in Prots : q # a.prot /\ In(a, x) /\ Has(r.list, x, q)
        BY <2>5, <2>7, <3>5, <3>6
      <4>2. x \in Nat /\ Has(areas, x, a.prot) BY <3>4, <4>1, BoundsNat
      <4>3. ~Has(areas, x, q) BY <4>1, <4>2, OneRight
      <4>4. Has(list, x, q) BY <3>1, <3>3, <4>1, <4>2, <4>3
      <4>5. a.prot \in Prots BY <2>2, AreaIs
      <4> QED BY <4>1, <4>2, <4>4, <4>5 DEF Disagree
    <3>7. ASSUME ~s.bad
          PROVE  /\ Canon(s.list)
                 /\ \A x \in Nat, q \in Prots :
                      Has(s.list, x, q) <=> Has(list, x, q) \/ Within(areas, k + 1, x, q)
      BY <2>5, <3>1, <3>2, <3>5, <3>7
    <3>8. Good(s, k + 1) BY <3>6, <3>7 DEF Good
    <3> QED BY <2>1, <3>8 DEF s
  <2> QED BY <2>6, <2>7
<1>5. \A i \in 0 .. n : i \in T
  <2> HIDE DEF T, n
  <2> QED BY <1>1, <1>3, <1>4, Upto
<1>6. Good(turns[n], n) BY <1>1, <1>5
<1>7. \A x, q : Within(areas, n, x, q) <=> Has(areas, x, q) BY <1>1 DEF Within, Has
<1> HIDE DEF n
<1> QED BY <1>2, <1>6, <1>7

\* UnmapArea unmaps one area after the other.
LEMMA UnmapAllTurns ==
  ASSUME NEW list \in Lists, NEW areas \in Lists
  PROVE  \E turns \in [0 .. Len(areas) -> Lists] :
           /\ turns[0] = list
           /\ \A i \in 1 .. Len(areas) : turns[i] = Unmap(turns[i - 1], areas[i])
           /\ UnmapAll(list, areas) = turns[Len(areas)]
<1> DEFINE n == Len(areas)
           turns == Turns(Unmap, list, areas)
           step == [i \in 1 .. n |-> [r \in Lists |-> Unmap(r, areas[i])]]
<1>1. list \in Lists /\ n \in Nat BY DEF Lists
<1>2. \A i \in 1 .. n : \A r \in Lists : Unmap(r, areas[i]) \in Lists
  BY UnmapType DEF Lists
<1>3. IsLoop(Lists, n, list, step) BY <1>1, <1>2 DEF IsLoop
<1>4. PICK h : IsRun(h, Lists, n, list, step)
  <2> HIDE DEF n, step
  <2> QED BY <1>3, RunExists
<1>5. h = [i \in 0 .. n |-> IF i = 0 THEN list ELSE Unmap(h[i - 1], areas[i])]
  <2>1. h \in [0 .. n -> Lists] /\ h[0] = list BY <1>4 DEF IsRun
  <2>2. ASSUME NEW i \in 1 .. n PROVE h[i] = Unmap(h[i - 1], areas[i])
    <3>1. h[i] = step[i][h[i - 1]] BY <1>4 DEF IsRun
    <3>2. h[i - 1] \in Lists BY <1>1, <2>1
    <3> QED BY <3>1, <3>2
  <2>3. h = [i \in 0 .. n |-> h[i]] BY <2>1
  <2>4. \A i \in 0 .. n : h[i] = IF i = 0 THEN list ELSE Unmap(h[i - 1], areas[i])
    <3> SUFFICES ASSUME NEW i \in 0 .. n
                 PROVE  h[i] = IF i = 0 THEN list ELSE Unmap(h[i - 1], areas[i])
      OBVIOUS
    <3>1. CASE i = 0 BY <2>1, <3>1
    <3>2. CASE i # 0
      <4>1. i \in 1 .. n BY <1>1, <3>2
      <4> QED BY <2>2, <3>2, <4>1
    <3> QED BY <3>1, <3>2
  <2> HIDE DEF n
  <2> QED BY <2>3, <2>4
<1>6. turns = [i \in 0 .. n |-> IF i = 0 THEN list ELSE Unmap(turns[i - 1], areas[i])]
  BY <1>5 DEF Turns
<1> HIDE DEF turns
<1>7. turns = [i \in 0 .. n |-> turns[i]] BY <1>6
<1>8. turns[0] = list /\ \A i \in 1 .. n : turns[i] = Unmap(turns[i - 1], areas[i])
  BY <1>1, <1>6
<1>9. \A i \in 1 .. n : turns[i - 1] \in Lists => turns[i] = step[i][turns[i - 1]] BY <1>8
<1>10. IsRun(turns, Lists, n, list, step)
  <2> HIDE DEF n, step
  <2> QED BY <1>3, <1>7, <1>8, <1>9, RunIs
<1>11. turns \in [0 .. n -> Lists] BY <1>10 DEF IsRun
<1>12. UnmapAll(list, areas) = turns[n] BY DEF UnmapAll, Loop, turns
<1> QED BY <1>8, <1>11, <1>12

\* What is in one of the first n areas of a list.
Some(list, n, x) == \E i \in 1 .. n : In(list[i], x)

\* Some of the first i + 1 areas, by the first i.
LEMMA SomeNext ==
  ASSUME NEW list, NEW k \in Nat, NEW x
  PROVE  Some(list, k + 1, x) <=> Some(list, k, x) \/ In(list[k + 1], x)
<1>1. 1 .. k + 1 = (1 .. k) \cup {k + 1} OBVIOUS
<1> QED BY <1>1 DEF Some

\* UnmapArea leaves what the other list does not have, as the one list of it.
LEMMA UnmapAllIs ==
  ASSUME NEW list \in Lists, NEW areas \in Lists, Canon(list)
  PROVE  /\ UnmapAll(list, areas) \in Lists /\ Canon(UnmapAll(list, areas))
         /\ \A x \in Nat, q \in Prots :
              Has(UnmapAll(list, areas), x, q) <=>
                Has(list, x, q) /\ ~Some(areas, Len(areas), x)
<1> DEFINE n == Len(areas)
           Good(l, i) ==
             /\ Canon(l)
             /\ \A x \in Nat, q \in Prots : Has(l, x, q) <=> Has(list, x, q) /\ ~Some(areas, i, x)
<1>1. n \in Nat /\ DOMAIN areas = 1 .. n /\ \A i \in 1 .. n : areas[i] \in AreaSet
  BY DEF Lists
<1>2. PICK turns \in [0 .. n -> Lists] :
        /\ turns[0] = list
        /\ \A i \in 1 .. n : turns[i] = Unmap(turns[i - 1], areas[i])
        /\ UnmapAll(list, areas) = turns[n]
  BY UnmapAllTurns
<1> DEFINE T == {i \in 0 .. n : Good(turns[i], i)}
<1>3. 0 \in T
  <2>1. \A x : ~Some(areas, 0, x) BY DEF Some
  <2>2. Good(turns[0], 0) BY <1>2, <2>1
  <2> HIDE DEF Good
  <2> QED BY <1>1, <2>2
<1>4. ASSUME NEW k \in 0 .. n - 1, k \in T PROVE k + 1 \in T
  <2> DEFINE l == turns[k]
             a == areas[k + 1]
             s == turns[k + 1]
  <2>1. k + 1 \in 1 .. n /\ k + 1 \in 0 .. n /\ k \in 0 .. n /\ (k + 1) - 1 = k /\ k \in Nat
    BY <1>1
  <2>2. l \in Lists /\ a \in AreaSet /\ s = Unmap(l, a) BY <1>1, <1>2, <2>1
  <2>3. /\ Canon(l)
        /\ \A x \in Nat, q \in Prots : Has(l, x, q) <=> Has(list, x, q) /\ ~Some(areas, k, x)
    BY <1>4
  <2>4. \A x : Some(areas, k + 1, x) <=> Some(areas, k, x) \/ In(a, x) BY <2>1, SomeNext
  <2> HIDE DEF Good, l, a, s
  <2>5. /\ Canon(s)
        /\ \A x \in Nat, q \in Prots : Has(s, x, q) <=> Has(l, x, q) /\ ~In(a, x)
    BY <2>2, <2>3, UnmapIs
  <2>6. Good(s, k + 1) BY <2>3, <2>4, <2>5 DEF Good
  <2> QED BY <2>1, <2>6 DEF s
<1>5. \A i \in 0 .. n : i \in T
  <2> HIDE DEF T, n
  <2> QED BY <1>1, <1>3, <1>4, Upto
<1>6. Good(turns[n], n) BY <1>1, <1>5
<1>7. turns[n] \in Lists BY <1>1, <1>2
<1> HIDE DEF n
<1> QED BY <1>2, <1>6, <1>7 DEF n

-----------------------------------------------------------------------------
(* Mirror.                                                                  *)

\* The whole range below the limit.
Free == <<Area(0, Limit, {})>>

\* The limit is an address above 0.
LEMMA Positive ==
  ASSUME NEW m \in Nat \ {0}, NEW n \in Nat \ {0}
  PROVE  m * n \in Nat \ {0}
<1>1. m * n \in Nat /\ m >= 1 /\ n >= 1 OBVIOUS
<1>2. m * n >= n
  <2>1. PICK k \in Nat : m = k + 1 BY <1>1
  <2>2. k * n \in Nat OBVIOUS
  <2>3. (k + 1) * n = k * n + n OBVIOUS
  <2> QED BY <2>1, <2>2, <2>3
<1> QED BY <1>1, <1>2

\* The range Mirror starts from has every address below the limit.
LEMMA FreeIs ==
  /\ Free \in Lists /\ Canon(Free) /\ Limit \in Nat \ {0}
  /\ \A x \in Nat : \A q : Has(Free, x, q) <=> x < Limit /\ q = {}
<1>1. Limit \in Nat \ {0} /\ Limit \in Bounds BY VMAssumption, Positive DEF Limit, Bounds
<1>2. 0 \in Bounds
  <2>1. 0 * PageSize = 0 BY VMAssumption
  <2> QED BY <2>1 DEF Bounds
<1>3. {} \in Prots BY DEF Prots
<1> DEFINE a == Area(0, Limit, {})
<1>4. a.addr = 0 /\ End(a) = Limit /\ a.prot = {} BY <1>1 DEF Area, End
<1>5. a \in AreaSet BY <1>1, <1>2, <1>3, <1>4 DEF AreaSet, Area
<1>6. Free = <<a>> BY DEF Free
<1> HIDE DEF a
<1>7. Free \in Lists /\ Canon(Free) BY <1>5, <1>6 DEF Lists, Canon
<1>8. \A x, q : Has(Free, x, q) <=> Put(a, x, q) BY <1>6 DEF Has, Put
<1> QED BY <1>1, <1>4, <1>7, <1>8 DEF Put, In

\* A turn of Mirror keeps the type.
LEMMA MirrorTurnType ==
  ASSUME NEW list \in Lists, NEW a \in AreaSet
  PROVE  MirrorTurn(list, a) \in Lists
BY UnmapType DEF MirrorTurn

\* Mirror takes what a list has from the range below the limit.
LEMMA MirrorTurns ==
  ASSUME NEW list \in Lists
  PROVE  \E turns \in [0 .. Len(list) -> Lists] :
           /\ turns[0] = Free
           /\ \A i \in 1 .. Len(list) : turns[i] = MirrorTurn(turns[i - 1], list[i])
           /\ Mirror(list) = turns[Len(list)]
<1> DEFINE n == Len(list)
           turns == Turns(MirrorTurn, Free, list)
           step == [i \in 1 .. n |-> [r \in Lists |-> MirrorTurn(r, list[i])]]
<1>1. Free \in Lists /\ n \in Nat BY FreeIs DEF Lists
<1>2. \A i \in 1 .. n : \A r \in Lists : MirrorTurn(r, list[i]) \in Lists
  BY MirrorTurnType DEF Lists
<1>3. IsLoop(Lists, n, Free, step) BY <1>1, <1>2 DEF IsLoop
<1>4. PICK h : IsRun(h, Lists, n, Free, step)
  <2> HIDE DEF n, step
  <2> QED BY <1>3, RunExists
<1>5. h = [i \in 0 .. n |-> IF i = 0 THEN Free ELSE MirrorTurn(h[i - 1], list[i])]
  <2>1. h \in [0 .. n -> Lists] /\ h[0] = Free BY <1>4 DEF IsRun
  <2>2. ASSUME NEW i \in 1 .. n PROVE h[i] = MirrorTurn(h[i - 1], list[i])
    <3>1. h[i] = step[i][h[i - 1]] BY <1>4 DEF IsRun
    <3>2. h[i - 1] \in Lists BY <1>1, <2>1
    <3> QED BY <3>1, <3>2
  <2>3. h = [i \in 0 .. n |-> h[i]] BY <2>1
  <2>4. \A i \in 0 .. n : h[i] = IF i = 0 THEN Free ELSE MirrorTurn(h[i - 1], list[i])
    <3> SUFFICES ASSUME NEW i \in 0 .. n
                 PROVE  h[i] = IF i = 0 THEN Free ELSE MirrorTurn(h[i - 1], list[i])
      OBVIOUS
    <3>1. CASE i = 0 BY <2>1, <3>1
    <3>2. CASE i # 0
      <4>1. i \in 1 .. n BY <1>1, <3>2
      <4> QED BY <2>2, <3>2, <4>1
    <3> QED BY <3>1, <3>2
  <2> HIDE DEF n
  <2> QED BY <2>3, <2>4
<1>6. turns = [i \in 0 .. n |-> IF i = 0 THEN Free ELSE MirrorTurn(turns[i - 1], list[i])]
  BY <1>5 DEF Turns
<1> HIDE DEF turns
<1>7. turns = [i \in 0 .. n |-> turns[i]] BY <1>6
<1>8. turns[0] = Free /\ \A i \in 1 .. n : turns[i] = MirrorTurn(turns[i - 1], list[i])
  BY <1>1, <1>6
<1>9. \A i \in 1 .. n : turns[i - 1] \in Lists => turns[i] = step[i][turns[i - 1]] BY <1>8
<1>10. IsRun(turns, Lists, n, Free, step)
  <2> HIDE DEF n, step
  <2> QED BY <1>3, <1>7, <1>8, <1>9, RunIs
<1>11. turns \in [0 .. n -> Lists] BY <1>10 DEF IsRun
<1>12. Mirror(list) = turns[n] BY DEF Mirror, Loop, Free, turns
<1> QED BY <1>8, <1>11, <1>12

\* Mirror has every address below the limit that the list has not.
LEMMA MirrorIs ==
  ASSUME NEW list \in Lists
  PROVE  /\ Mirror(list) \in Lists /\ Canon(Mirror(list))
         /\ \A x \in Nat, q \in Prots :
              Has(Mirror(list), x, q) <=> q = {} /\ x < Limit /\ ~Some(list, Len(list), x)
<1> DEFINE n == Len(list)
           Good(l, i) ==
             /\ Canon(l)
             /\ \A x \in Nat, q \in Prots :
                  Has(l, x, q) <=> q = {} /\ x < Limit /\ ~Some(list, i, x)
<1>1. n \in Nat /\ DOMAIN list = 1 .. n /\ \A i \in 1 .. n : list[i] \in AreaSet
  BY DEF Lists
<1>2. PICK turns \in [0 .. n -> Lists] :
        /\ turns[0] = Free
        /\ \A i \in 1 .. n : turns[i] = MirrorTurn(turns[i - 1], list[i])
        /\ Mirror(list) = turns[n]
  BY MirrorTurns
<1> DEFINE T == {i \in 0 .. n : Good(turns[i], i)}
<1>3. 0 \in T
  <2>1. \A x : ~Some(list, 0, x) BY DEF Some
  <2>2. Good(turns[0], 0) BY <1>2, <2>1, FreeIs
  <2> HIDE DEF Good
  <2> QED BY <1>1, <2>2
<1>4. ASSUME NEW k \in 0 .. n - 1, k \in T PROVE k + 1 \in T
  <2> DEFINE l == turns[k]
             a == list[k + 1]
             s == turns[k + 1]
  <2>1. k + 1 \in 1 .. n /\ k + 1 \in 0 .. n /\ k \in 0 .. n /\ (k + 1) - 1 = k /\ k \in Nat
    BY <1>1
  <2>2. l \in Lists /\ a \in AreaSet /\ s = MirrorTurn(l, a) BY <1>1, <1>2, <2>1
  <2>3. /\ Canon(l)
        /\ \A x \in Nat, q \in Prots :
             Has(l, x, q) <=> q = {} /\ x < Limit /\ ~Some(list, k, x)
    BY <1>4
  <2>4. \A x : Some(list, k + 1, x) <=> Some(list, k, x) \/ In(a, x) BY <2>1, SomeNext
  <2>5. a.addr \in Nat /\ Limit \in Nat BY <2>2, AreaIs, FreeIs
  <2> HIDE DEF Good, l, a, s
  <2>6. CASE a.addr < Limit
    <3>1. s = Unmap(l, a) BY <2>2, <2>6 DEF MirrorTurn
    <3>2. /\ Canon(s)
          /\ \A x \in Nat, q \in Prots : Has(s, x, q) <=> Has(l, x, q) /\ ~In(a, x)
      BY <2>2, <2>3, <3>1, UnmapIs
    <3>3. Good(s, k + 1) BY <2>3, <2>4, <3>2 DEF Good
    <3> QED BY <2>1, <3>3 DEF s
  <2>7. CASE ~(a.addr < Limit)
    <3>1. s = l BY <2>2, <2>7 DEF MirrorTurn
    <3>2. \A x \in Nat : x < Limit => ~In(a, x) BY <2>5, <2>7 DEF In
    <3>3. Good(s, k + 1) BY <2>3, <2>4, <3>1, <3>2 DEF Good
    <3> QED BY <2>1, <3>3 DEF s
  <2> QED BY <2>6, <2>7
<1>5. \A i \in 0 .. n : i \in T
  <2> HIDE DEF T, n
  <2> QED BY <1>1, <1>3, <1>4, Upto
<1>6. Good(turns[n], n) BY <1>1, <1>5
<1>7. turns[n] \in Lists BY <1>1, <1>2
<1> HIDE DEF n
<1> QED BY <1>2, <1>6, <1>7 DEF n

-----------------------------------------------------------------------------
(* Pages.                                                                   *)

\* Division with rest.
LEMMA DivMod ==
  ASSUME NEW a \in Nat, NEW m \in Nat \ {0}
  PROVE  a \div m \in Nat /\ a % m \in 0 .. m - 1 /\ a = m * (a \div m) + (a % m)
OBVIOUS

\* A whole number of pages leaves no rest ...
LEMMA NoRest ==
  ASSUME NEW k \in Nat, NEW m \in Nat \ {0}, NEW q \in Int, NEW r \in 0 .. m - 1,
         k * m = m * q + r
  PROVE  r = 0
<1>1. r = (k - q) * m OBVIOUS
<1>2. PICK d \in Int : d = k - q OBVIOUS
<1>3. r = d * m BY <1>1, <1>2
<1>4. CASE d <= 0
  <2>1. (0 - d) * m >= 0 BY <1>4
  <2> QED BY <1>3, <2>1
<1>5. CASE d >= 1
  <2>1. (d - 1) * m >= 0 BY <1>5
  <2>2. d * m = (d - 1) * m + m OBVIOUS
  <2> QED BY <1>3, <2>1, <2>2
<1> QED BY <1>4, <1>5

\* ... and what leaves none is a whole number of pages.
LEMMA Multiple ==
  ASSUME NEW k \in Nat, NEW m \in Nat \ {0}
  PROVE  (k * m) % m = 0
<1>1. k * m \in Nat OBVIOUS
<1>2. PICK a \in Nat : a = k * m BY <1>1
<1>3. a \div m \in Nat /\ a % m \in 0 .. m - 1 /\ a = m * (a \div m) + (a % m) BY DivMod
<1>4. PICK q \in Int, r \in 0 .. m - 1 : q = a \div m /\ r = a % m BY <1>3
<1>5. k * m = m * q + r BY <1>2, <1>3, <1>4
<1>6. r = 0 BY <1>5, NoRest
<1> QED BY <1>2, <1>4, <1>6

\* Where a page starts; pages are in the order of their addresses.
At(p) == p * PageSize

\* The addresses of pages are in the order of the pages.
LEMMA PageOrder ==
  ASSUME NEW p \in Nat, NEW q \in Nat
  PROVE  /\ At(p) \in Nat /\ At(p) \in Bounds
         /\ At(p) < At(q) <=> p < q
         /\ At(p) <= At(q) <=> p <= q
         /\ At(p) = At(q) <=> p = q
<1>0. PageSize \in Nat \ {0} BY VMAssumption
<1>1. \A i, j \in Nat : i < j => i * PageSize < j * PageSize
  <2> SUFFICES ASSUME NEW i \in Nat, NEW j \in Nat, i < j
               PROVE  i * PageSize < j * PageSize
    OBVIOUS
  <2>1. PICK d \in Nat : j = i + 1 + d
    <3>1. j - i - 1 \in Nat /\ j = i + 1 + (j - i - 1) OBVIOUS
    <3> QED BY <3>1
  <2>2. (i + 1 + d) * PageSize = i * PageSize + PageSize + d * PageSize BY <1>0
  <2>3. d * PageSize \in Nat /\ i * PageSize \in Nat BY <1>0
  <2> QED BY <1>0, <2>1, <2>2, <2>3
<1>2. p * PageSize \in Nat /\ q * PageSize \in Nat BY <1>0
<1>3. p < q \/ q < p \/ p = q OBVIOUS
<1>4. At(p) \in Nat /\ At(p) \in Bounds BY <1>2 DEF At, Bounds
<1> QED BY <1>1, <1>2, <1>3, <1>4 DEF At

\* An address is that of a page.
LEMMA BoundIs == \A x \in Bounds : \E p \in Nat : x = At(p)
BY DEF Bounds, At

\* A section as whole pages.
Secs == {s \in [addr : {At(p) : p \in Pages}, size : 0 .. At(NPages), prot : Prots] :
           End(s) <= At(NPages)}

\* SectVMA rounds the size of a section up to whole pages.
LEMMA SectVMAIs ==
  ASSUME NEW s \in Secs, s.size > 0
  PROVE  /\ SectVMA(s) \in AreaSet /\ End(SectVMA(s)) <= At(NPages)
         /\ SectVMA(s).prot = s.prot
<1>0. PageSize \in Nat \ {0} /\ NPages \in Nat \ {0} BY VMAssumption
<1>1. /\ s.addr \in {At(p) : p \in Pages} /\ s.size \in 0 .. At(NPages) /\ s.prot \in Prots
      /\ End(s) <= At(NPages)
  BY DEF Secs
<1>2. PICK p \in Nat : s.addr = At(p) BY <1>0, <1>1 DEF Pages
<1>3. At(NPages) \in Nat /\ At(p) \in Nat BY <1>0, PageOrder
<1>4. s.size \in Nat BY <1>1, <1>3
<1>5. PICK z \in Nat : z = s.size BY <1>4
<1>6. z \div PageSize \in Nat /\ z % PageSize \in 0 .. PageSize - 1
      /\ z = PageSize * (z \div PageSize) + (z % PageSize)
  BY <1>0, DivMod
<1>7. PICK q \in Nat, r \in 0 .. PageSize - 1 : q = z \div PageSize /\ r = z % PageSize
  BY <1>6
<1>8. z = q * PageSize + r BY <1>0, <1>6, <1>7
<1>9. End(s) = At(p) + z /\ At(p) + z <= At(NPages) BY <1>1, <1>2, <1>5 DEF End
<1>10. CASE r = 0
  <2>1. SectVMA(s) = Area(At(p), z, s.prot) BY <1>2, <1>5, <1>7, <1>10 DEF SectVMA
  <2>2. At(p) + z = At(p + q) BY <1>0, <1>8, <1>10 DEF At
  <2>3. At(p) + z = At(p + q) /\ p + q \in Nat BY <2>2
  <2>4. At(p + q) \in Bounds /\ At(p) \in Bounds BY <2>3, PageOrder
  <2> QED BY <1>1, <1>5, <1>9, <2>1, <2>3, <2>4 DEF AreaSet, Area, End
<1>11. CASE r # 0
  <2>1. SectVMA(s) = Area(At(p), (q + 1) * PageSize, s.prot)
    BY <1>2, <1>5, <1>7, <1>11 DEF SectVMA
  <2>2. At(p) + (q + 1) * PageSize = At(p + q + 1) BY <1>0 DEF At
  <2>3. At(p + q) < At(p) + z
    <3>1. At(p + q) = At(p) + q * PageSize BY <1>0 DEF At
    <3>2. q * PageSize \in Nat BY <1>0
    <3> QED BY <1>3, <1>8, <1>11, <3>1, <3>2
  <2>4. p + q \in Nat /\ p + q + 1 \in Nat OBVIOUS
  <2>5. At(p + q) \in Nat /\ At(p + q) < At(NPages) BY <1>3, <1>9, <2>3, <2>4, PageOrder
  <2>6. p + q < NPages BY <1>0, <2>4, <2>5, PageOrder
  <2>7. At(p + q + 1) <= At(NPages)
    <3>1. p + q + 1 <= NPages BY <1>0, <2>6
    <3> QED BY <1>0, <2>4, <3>1, PageOrder
  <2>8. At(p + q + 1) \in Bounds /\ At(p) \in Bounds BY <2>4, PageOrder
  <2>9. (q + 1) * PageSize \in Nat \ {0}
    <3>1. q + 1 \in Nat \ {0} OBVIOUS
    <3> QED BY <1>0, <3>1, Positive
  <2> QED BY <1>1, <2>1, <2>2, <2>7, <2>8, <2>9 DEF AreaSet, Area, End
<1> QED BY <1>10, <1>11

-----------------------------------------------------------------------------
(* The rights on a page.                                                    *)

\* No rights are the mark of a page without any.
LEMMA NoneIsNoProt == NONE \notin Prots
BY VMAssumption DEF Prots, NONE

\* The rights on a page are those of the list at its address.
LEMMA RightsAre ==
  ASSUME NEW list \in Lists, Canon(list), NEW p \in Nat
  PROVE  /\ RightsOn(list, p) \in Prots \cup {NONE}
         /\ \A q \in Prots : RightsOn(list, p) = q <=> Has(list, At(p), q)
         /\ RightsOn(list, p) # NONE <=> \E q \in Prots : Has(list, At(p), q)
<1>1. \A i \in DOMAIN list : Covers(list[i], p) <=> In(list[i], At(p))
  BY DEF Covers, In, At
<1>2. At(p) \in Nat BY PageOrder
<1>3. CASE \E i \in DOMAIN list : Covers(list[i], p)
  <2> DEFINE c == CHOOSE i \in DOMAIN list : Covers(list[i], p)
  <2>1. c \in DOMAIN list /\ Covers(list[c], p) BY <1>3
  <2>2. RightsOn(list, p) = list[c].prot BY <1>3 DEF RightsOn
  <2> HIDE DEF c
  <2>3. Has(list, At(p), list[c].prot) BY <1>1, <2>1 DEF Has
  <2>4. list[c].prot \in Prots BY <2>3, HasProt
  <2>5. \A q \in Prots : Has(list, At(p), q) => q = list[c].prot BY <1>2, <2>3, OneRight
  <2> QED BY <2>2, <2>3, <2>4, <2>5, NoneIsNoProt
<1>4. CASE ~\E i \in DOMAIN list : Covers(list[i], p)
  <2>1. RightsOn(list, p) = NONE BY <1>4 DEF RightsOn
  <2>2. \A q : ~Has(list, At(p), q) BY <1>1, <1>4 DEF Has
  <2> QED BY <2>1, <2>2, NoneIsNoProt
<1> QED BY <1>3, <1>4

\* A page has rights if some area has its address.
LEMMA SomeIs ==
  ASSUME NEW list \in Lists, NEW x
  PROVE  Some(list, Len(list), x) <=> \E q \in Prots : Has(list, x, q)
<1>1. DOMAIN list = 1 .. Len(list) BY DEF Lists
<1>2. \A i \in DOMAIN list : list[i].prot \in Prots
  <2> SUFFICES ASSUME NEW i \in DOMAIN list PROVE list[i].prot \in Prots OBVIOUS
  <2>1. list[i] \in AreaSet BY DEF Lists
  <2> QED BY <2>1, AreaIs
<1> QED BY <1>1, <1>2 DEF Some, Has

\* The map from pages to rights that a list is.
MapOf(list) == [p \in Pages |-> RightsOn(list, p)]

\* The lists of a program that has not panicked.
Top(list)  == \A x \in Nat, q \in Prots : Has(list, x, q) => x < At(NPages)
Good(list) == list \in Lists /\ Canon(list) /\ Top(list)

\* The pages of the abstract specification are those of the code.
LEMMA PagesNat == NPages \in Nat /\ Pages \subseteq Nat /\ P!Pages = Pages /\ P!NONE = NONE
BY VMAssumption DEF Pages, P!Pages, NONE, P!NONE

\* A list of one area is good.
LEMMA OneArea ==
  ASSUME NEW a \in AreaSet, End(a) <= At(NPages)
  PROVE  Good(<<a>>) /\ \A x, q : Has(<<a>>, x, q) <=> Put(a, x, q)
<1>1. <<a>> \in Lists /\ Canon(<<a>>) BY DEF Lists, Canon
<1>2. \A x, q : Has(<<a>>, x, q) <=> Put(a, x, q) BY DEF Has, Put
<1>3. End(a) \in Nat /\ At(NPages) \in Nat BY AreaIs, PagesNat, PageOrder
<1>4. Top(<<a>>) BY <1>2, <1>3 DEF Top, Put, In
<1> QED BY <1>1, <1>2, <1>4 DEF Good

\* So is the empty list, which gives no rights on any page.
LEMMA NoArea == Good(<<>>) /\ MapOf(<<>>) = P!Empty
<1>1. <<>> \in Lists /\ Canon(<<>>) BY DEF Lists, Canon
<1>2. \A x, q : ~Has(<<>>, x, q) BY DEF Has
<1>3. \A p \in Pages : RightsOn(<<>>, p) = NONE BY <1>1, <1>2, PagesNat, RightsAre
<1> QED BY <1>1, <1>2, <1>3, PagesNat DEF Good, Top, MapOf, P!Empty

\* Lists that disagree cannot be joined.
LEMMA JoinsIs ==
  ASSUME NEW l, NEW m, Good(l), Good(m)
  PROVE  Disagree(l, m) => ~P!Joins(MapOf(l), MapOf(m))
<1>1. SUFFICES ASSUME Disagree(l, m) PROVE ~P!Joins(MapOf(l), MapOf(m)) OBVIOUS
<1>2. PICK x \in Bounds, q \in Prots, r \in Prots : q # r /\ Has(l, x, q) /\ Has(m, x, r)
  BY <1>1 DEF Disagree
<1>3. PICK p \in Nat : x = At(p) BY BoundIs
<1>4. x \in Nat /\ At(p) < At(NPages) BY <1>2, <1>3, BoundsNat DEF Good, Top
<1>5. p < NPages BY <1>4, PagesNat, PageOrder
<1>6. p \in Pages BY <1>5, PagesNat DEF Pages
<1>7. RightsOn(l, p) = q /\ RightsOn(m, p) = r BY <1>2, <1>3, RightsAre DEF Good
<1>8. MapOf(l)[p] = q /\ MapOf(m)[p] = r BY <1>6, <1>7 DEF MapOf
<1>9. q # NONE /\ r # NONE BY NoneIsNoProt
<1> QED BY <1>2, <1>6, <1>8, <1>9, PagesNat DEF P!Joins

\* A list of what two lists have is their union, which they must agree on.
LEMMA UnionIs ==
  ASSUME NEW l, NEW m, Good(l), Good(m), NEW u \in Lists, Canon(u),
         \A x \in Nat, q \in Prots : Has(u, x, q) <=> Has(l, x, q) \/ Has(m, x, q)
  PROVE  Good(u) /\ P!Joins(MapOf(l), MapOf(m)) /\ MapOf(u) = P!Union(MapOf(l), MapOf(m))
<1>1. Good(u) BY DEF Good, Top
<1>2. ASSUME NEW p \in Pages
      PROVE  /\ NONE \in {RightsOn(l, p), RightsOn(m, p)} \/ RightsOn(l, p) = RightsOn(m, p)
             /\ RightsOn(u, p) = IF RightsOn(m, p) = NONE THEN RightsOn(l, p)
                                                            ELSE RightsOn(m, p)
  <2>1. p \in Nat /\ At(p) \in Nat BY PagesNat, PageOrder
  <2>2. /\ RightsOn(l, p) \in Prots \cup {NONE} /\ RightsOn(m, p) \in Prots \cup {NONE}
        /\ RightsOn(u, p) \in Prots \cup {NONE}
        /\ \A q \in Prots : RightsOn(l, p) = q <=> Has(l, At(p), q)
        /\ \A q \in Prots : RightsOn(m, p) = q <=> Has(m, At(p), q)
        /\ \A q \in Prots : RightsOn(u, p) = q <=> Has(u, At(p), q)
    BY <2>1, RightsAre DEF Good
  <2>3. \A q \in Prots :
          RightsOn(u, p) = q <=> RightsOn(l, p) = q \/ RightsOn(m, p) = q
    BY <2>1, <2>2
  <2> QED BY <2>2, <2>3, NoneIsNoProt
<1>3. P!Joins(MapOf(l), MapOf(m)) BY <1>2, PagesNat DEF P!Joins, MapOf
<1>4. MapOf(u) = P!Union(MapOf(l), MapOf(m)) BY <1>2, PagesNat DEF P!Union, MapOf
<1> QED BY <1>1, <1>3, <1>4

\* The pages of an area are a range.
LEMMA RangeIs ==
  ASSUME NEW a \in AreaSet, End(a) <= At(NPages)
  PROVE  \E R \in P!Ranges : /\ \A p \in Pages : p \in R <=> In(a, At(p))
                             /\ MapOf(<<a>>) = P!Give(P!Empty, R, a.prot)
<1>1. /\ a.addr \in Bounds /\ End(a) \in Bounds /\ a.addr < End(a) /\ a.prot \in Prots
  BY AreaIs
<1>2. PICK i \in Nat : a.addr = At(i) BY <1>1, BoundIs
<1>3. PICK j \in Nat : End(a) = At(j) BY <1>1, BoundIs
<1>4. i < j /\ j <= NPages BY <1>1, <1>2, <1>3, PagesNat, PageOrder
<1> DEFINE R == i .. j - 1
<1>5. R \in P!Ranges
  <2>1. i \in Pages /\ j - 1 \in Pages BY <1>4, PagesNat DEF Pages
  <2> QED BY <2>1, PagesNat DEF P!Ranges
<1>6. ASSUME NEW p \in Pages PROVE p \in R <=> In(a, At(p))
  <2>1. p \in Nat BY PagesNat
  <2>2. (At(i) <= At(p) <=> i <= p) /\ (At(p) < At(j) <=> p < j) BY <2>1, PageOrder
  <2>3. p \in R <=> i <= p /\ p < j BY <2>1
  <2> QED BY <1>2, <1>3, <2>2, <2>3 DEF In
<1> HIDE DEF R
<1>7. ASSUME NEW p \in Pages PROVE RightsOn(<<a>>, p) = IF p \in R THEN a.prot ELSE NONE
  <2>1. Good(<<a>>) /\ \A x, q : Has(<<a>>, x, q) <=> Put(a, x, q) BY OneArea
  <2>2. p \in Nat BY PagesNat
  <2>3. /\ \A q \in Prots : RightsOn(<<a>>, p) = q <=> Has(<<a>>, At(p), q)
        /\ RightsOn(<<a>>, p) # NONE <=> \E q \in Prots : Has(<<a>>, At(p), q)
    BY <2>1, <2>2, RightsAre DEF Good
  <2> QED BY <1>1, <1>6, <2>1, <2>3 DEF Put
<1>8. MapOf(<<a>>) = P!Give(P!Empty, R, a.prot)
  BY <1>7, PagesNat DEF MapOf, P!Give, P!Empty
<1> QED BY <1>5, <1>6, <1>8

-----------------------------------------------------------------------------
(* What the operations do to the pages.                                     *)

\* Map keeps a list good, and gives the pages of the area its rights, unless
\* they have others; then it panics.
LEMMA MapGood ==
  ASSUME NEW l, Good(l), NEW a \in AreaSet, End(a) <= At(NPages)
  PROVE  LET m == MapIn(l, a)
         IN  /\ m.bad => ~P!Joins(MapOf(l), MapOf(<<a>>))
             /\ ~m.bad => /\ Good(m.list) /\ P!Joins(MapOf(l), MapOf(<<a>>))
                          /\ MapOf(m.list) = P!Union(MapOf(l), MapOf(<<a>>))
<1> DEFINE m == MapIn(l, a)
<1>1. /\ m \in Results
      /\ m.bad => \E x \in Bounds, q \in Prots : q # a.prot /\ In(a, x) /\ Has(l, x, q)
      /\ ~m.bad => /\ Canon(m.list)
                   /\ \A x \in Nat, q \in Prots :
                        Has(m.list, x, q) <=> Has(l, x, q) \/ Put(a, x, q)
  BY MapInIs DEF Good
<1>2. Good(<<a>>) /\ \A x, q : Has(<<a>>, x, q) <=> Put(a, x, q) BY OneArea
<1> HIDE DEF m
<1>3. m.list \in Lists BY <1>1 DEF Results
<1>4. ASSUME m.bad PROVE ~P!Joins(MapOf(l), MapOf(<<a>>))
  <2>1. PICK x \in Bounds, q \in Prots : q # a.prot /\ In(a, x) /\ Has(l, x, q)
    BY <1>1, <1>4
  <2>2. Has(<<a>>, x, a.prot) /\ a.prot \in Prots BY <1>2, <2>1, AreaIs DEF Put
  <2>3. Disagree(l, <<a>>) BY <2>1, <2>2 DEF Disagree
  <2> QED BY <1>2, <2>3, JoinsIs
<1>5. ASSUME ~m.bad
      PROVE  /\ Good(m.list) /\ P!Joins(MapOf(l), MapOf(<<a>>))
             /\ MapOf(m.list) = P!Union(MapOf(l), MapOf(<<a>>))
  <2>1. \A x \in Nat, q \in Prots : Has(m.list, x, q) <=> Has(l, x, q) \/ Has(<<a>>, x, q)
    BY <1>1, <1>2, <1>5
  <2> QED BY <1>1, <1>2, <1>3, <1>5, <2>1, UnionIs
<1> QED BY <1>4, <1>5 DEF m

\* MapArea keeps a list good and joins the maps of both, unless they disagree.
LEMMA MapAllGood ==
  ASSUME NEW l, Good(l), NEW areas, Good(areas)
  PROVE  LET m == MapAll(l, areas)
         IN  /\ m.bad => ~P!Joins(MapOf(l), MapOf(areas))
             /\ ~m.bad => /\ Good(m.list) /\ P!Joins(MapOf(l), MapOf(areas))
                          /\ MapOf(m.list) = P!Union(MapOf(l), MapOf(areas))
<1> DEFINE m == MapAll(l, areas)
<1>1. /\ m \in Results
      /\ m.bad => Disagree(l, areas)
      /\ ~m.bad => /\ Canon(m.list)
                   /\ \A x \in Nat, q \in Prots :
                        Has(m.list, x, q) <=> Has(l, x, q) \/ Has(areas, x, q)
  BY MapAllIs, MapAllType DEF Good
<1> HIDE DEF m
<1>2. m.list \in Lists BY <1>1 DEF Results
<1>3. m.bad => ~P!Joins(MapOf(l), MapOf(areas)) BY <1>1, JoinsIs
<1>4. ~m.bad => /\ Good(m.list) /\ P!Joins(MapOf(l), MapOf(areas))
                /\ MapOf(m.list) = P!Union(MapOf(l), MapOf(areas))
  BY <1>1, <1>2, UnionIs
<1> QED BY <1>3, <1>4 DEF m

\* Unmap keeps a list good and takes the rights on the pages of the area.
LEMMA UnmapGood ==
  ASSUME NEW l, Good(l), NEW a \in AreaSet
  PROVE  /\ Good(Unmap(l, a))
         /\ MapOf(Unmap(l, a)) =
              [p \in Pages |-> IF In(a, At(p)) THEN NONE ELSE MapOf(l)[p]]
<1> DEFINE u == Unmap(l, a)
<1>1. /\ u \in Lists /\ Canon(u)
      /\ \A x \in Nat, q \in Prots : Has(u, x, q) <=> Has(l, x, q) /\ ~In(a, x)
  BY UnmapType, UnmapIs DEF Good
<1> HIDE DEF u
<1>2. Good(u) BY <1>1 DEF Good, Top
<1>3. ASSUME NEW p \in Pages
      PROVE  RightsOn(u, p) = IF In(a, At(p)) THEN NONE ELSE RightsOn(l, p)
  <2>1. p \in Nat /\ At(p) \in Nat BY PagesNat, PageOrder
  <2>2. /\ RightsOn(l, p) \in Prots \cup {NONE} /\ RightsOn(u, p) \in Prots \cup {NONE}
        /\ \A q \in Prots : RightsOn(l, p) = q <=> Has(l, At(p), q)
        /\ \A q \in Prots : RightsOn(u, p) = q <=> Has(u, At(p), q)
    BY <1>2, <2>1, RightsAre DEF Good
  <2> QED BY <1>1, <2>1, <2>2, NoneIsNoProt
<1> QED BY <1>2, <1>3 DEF MapOf, u

\* UnmapArea keeps a list good and takes the rights on the pages of the other.
LEMMA UnmapAllGood ==
  ASSUME NEW l, Good(l), NEW areas, Good(areas)
  PROVE  /\ Good(UnmapAll(l, areas))
         /\ MapOf(UnmapAll(l, areas)) =
              [p \in Pages |-> IF MapOf(areas)[p] = NONE THEN MapOf(l)[p] ELSE NONE]
<1> DEFINE u == UnmapAll(l, areas)
<1>1. /\ u \in Lists /\ Canon(u)
      /\ \A x \in Nat, q \in Prots : Has(u, x, q) <=> Has(l, x, q) /\ ~Some(areas, Len(areas), x)
  BY UnmapAllIs DEF Good
<1> HIDE DEF u
<1>2. Good(u) BY <1>1 DEF Good, Top
<1>3. ASSUME NEW p \in Pages
      PROVE  RightsOn(u, p) = IF RightsOn(areas, p) = NONE THEN RightsOn(l, p) ELSE NONE
  <2>1. p \in Nat /\ At(p) \in Nat BY PagesNat, PageOrder
  <2>2. /\ RightsOn(l, p) \in Prots \cup {NONE} /\ RightsOn(u, p) \in Prots \cup {NONE}
        /\ \A q \in Prots : RightsOn(l, p) = q <=> Has(l, At(p), q)
        /\ \A q \in Prots : RightsOn(u, p) = q <=> Has(u, At(p), q)
        /\ RightsOn(areas, p) # NONE <=> \E q \in Prots : Has(areas, At(p), q)
    BY <1>2, <2>1, RightsAre DEF Good
  <2>3. Some(areas, Len(areas), At(p)) <=> \E q \in Prots : Has(areas, At(p), q)
    BY SomeIs DEF Good
  <2> QED BY <1>1, <2>1, <2>2, <2>3, NoneIsNoProt
<1> QED BY <1>2, <1>3 DEF MapOf, u

-----------------------------------------------------------------------------
(* The lists of a package's sections.                                       *)

\* However ties are sorted, the list has the areas of the sections.
LEMMA SortedIs ==
  ASSUME NEW secs, IsFiniteSet(DOMAIN secs), \A i \in DOMAIN secs : secs[i] \in Secs,
         NEW t \in SortedAreas(secs)
  PROVE  /\ t \in Lists /\ Sorted(t)
         /\ \A x, q : Has(t, x, q) <=>
              \E i \in DOMAIN secs : secs[i].size > 0 /\ Put(SectVMA(secs[i]), x, q)
<1> DEFINE used == {i \in DOMAIN secs : secs[i].size > 0}
           n == Cardinality(used)
<1>1. n \in Nat
  <2>1. IsFiniteSet(used) BY FS_Subset
  <2> QED BY <2>1, FS_CardinalityType
<1> HIDE DEF n, used
<1>2. PICK f \in Bijection(1 .. n, used) : t = [i \in 1 .. n |-> SectVMA(secs[f[i]])]
  BY DEF SortedAreas, n, used
<1>3. f \in [1 .. n -> used] /\ \A i \in used : \E j \in 1 .. n : f[j] = i
  BY DEF Bijection, Injection, Surjection
<1>4. \A i, j \in 1 .. n : i < j => t[i].addr <= t[j].addr BY DEF SortedAreas, n, used
<1>5. \A i \in used : SectVMA(secs[i]) \in AreaSet BY SectVMAIs DEF used
<1>6. t \in [1 .. n -> AreaSet] BY <1>2, <1>3, <1>5
<1>7. t \in Lists /\ DOMAIN t = 1 .. n BY <1>1, <1>6 DEF Lists
<1>8. Sorted(t) BY <1>4, <1>7 DEF Sorted
<1>9. ASSUME NEW x, NEW q
      PROVE  Has(t, x, q) <=> \E i \in used : Put(SectVMA(secs[i]), x, q)
  <2>1. \A j \in 1 .. n : t[j] = SectVMA(secs[f[j]]) /\ f[j] \in used BY <1>2, <1>3
  <2>2. ASSUME Has(t, x, q) PROVE \E i \in used : Put(SectVMA(secs[i]), x, q)
    <3>1. PICK j \in 1 .. n : Put(t[j], x, q) BY <1>7, <2>2 DEF Has, Put
    <3> QED BY <2>1, <3>1
  <2>3. ASSUME NEW i \in used, Put(SectVMA(secs[i]), x, q) PROVE Has(t, x, q)
    <3>1. PICK j \in 1 .. n : f[j] = i BY <1>3
    <3>2. Put(t[j], x, q) BY <2>1, <2>3, <3>1
    <3> QED BY <1>7, <3>2 DEF Has, Put
  <2> QED BY <2>2, <2>3
<1> QED BY <1>7, <1>8, <1>9 DEF used

\* A section as a list: its whole pages, or nothing.
SectionList(s) == IF s.size > 0 THEN <<SectVMA(s)>> ELSE <<>>

\* The list of one section has the pages of the section.
LEMMA SectionListIs ==
  ASSUME NEW s \in Secs
  PROVE  Good(SectionList(s)) /\ \A x, q : Has(SectionList(s), x, q) <=>
                                             s.size > 0 /\ Put(SectVMA(s), x, q)
<1>1. CASE s.size > 0 BY <1>1, SectVMAIs, OneArea DEF SectionList
<1>2. CASE ~(s.size > 0)
  <2>1. SectionList(s) = <<>> BY <1>2 DEF SectionList
  <2>2. \A x, q : ~Has(<<>>, x, q) BY DEF Has
  <2> QED BY <1>2, <2>1, <2>2, NoArea
<1> QED BY <1>1, <1>2

\* However ties are sorted, the list of two sections is their union.
LEMMA LoadGood ==
  ASSUME NEW m \in Secs, NEW o \in Secs, NEW t \in SortedAreas(<<m, o>>)
  PROVE  LET r == Coalesce(t)
             f == MapOf(SectionList(m))
             g == MapOf(SectionList(o))
         IN  /\ r.bad => ~P!Joins(f, g)
             /\ ~r.bad => Good(r.list) /\ P!Joins(f, g) /\ MapOf(r.list) = P!Union(f, g)
<1> DEFINE r == Coalesce(t)
           l == SectionList(m)
           k == SectionList(o)
           secs == <<m, o>>
<1>1. DOMAIN secs = {1, 2} /\ secs[1] = m /\ secs[2] = o BY DEF secs
<1>2. IsFiniteSet(DOMAIN secs)
  <2>1. IsFiniteSet({}) BY FS_EmptySet
  <2>2. IsFiniteSet({} \cup {1}) BY <2>1, FS_AddElement
  <2>3. IsFiniteSet(({} \cup {1}) \cup {2}) BY <2>2, FS_AddElement
  <2>4. ({} \cup {1}) \cup {2} = {1, 2} OBVIOUS
  <2> HIDE DEF secs
  <2> QED BY <1>1, <2>3, <2>4
<1> HIDE DEF secs
<1>3. /\ t \in Lists /\ Sorted(t)
      /\ \A x, q : Has(t, x, q) <=>
           \E i \in DOMAIN secs : secs[i].size > 0 /\ Put(SectVMA(secs[i]), x, q)
  <2>1. \A i \in DOMAIN secs : secs[i] \in Secs BY <1>1
  <2>2. t \in SortedAreas(secs) BY DEF secs
  <2> QED BY <1>2, <2>1, <2>2, SortedIs
<1>4. Good(l) /\ Good(k) BY SectionListIs
<1>5. \A x, q : Has(t, x, q) <=> Has(l, x, q) \/ Has(k, x, q)
  <2>1. \A x, q : Has(l, x, q) <=> m.size > 0 /\ Put(SectVMA(m), x, q) BY SectionListIs
  <2>2. \A x, q : Has(k, x, q) <=> o.size > 0 /\ Put(SectVMA(o), x, q) BY SectionListIs
  <2> HIDE DEF l, k
  <2> QED BY <1>1, <1>3, <2>1, <2>2
<1>6. /\ r \in Results
      /\ r.bad => Conflict(t)
      /\ ~r.bad => /\ Canon(r.list)
                   /\ \A x \in Nat, q \in Prots : Has(r.list, x, q) <=> Has(t, x, q)
  BY <1>3, CoalesceIs
<1> HIDE DEF r, l, k
<1>7. r.list \in Lists BY <1>6 DEF Results
<1>8. ASSUME Conflict(t) PROVE ~P!Joins(MapOf(l), MapOf(k))
  <2>1. PICK i \in DOMAIN t, j \in DOMAIN t, x \in Bounds :
          In(t[i], x) /\ In(t[j], x) /\ t[i].prot # t[j].prot
    BY <1>8 DEF Conflict
  <2>2. Has(t, x, t[i].prot) /\ Has(t, x, t[j].prot) BY <2>1 DEF Has
  <2>3. x \in Nat /\ t[i].prot \in Prots /\ t[j].prot \in Prots
    BY <1>3, <2>2, HasProt, BoundsNat
  <2>4. ~(Has(l, x, t[i].prot) /\ Has(l, x, t[j].prot))
    BY <1>4, <2>1, <2>3, OneRight DEF Good
  <2>5. ~(Has(k, x, t[i].prot) /\ Has(k, x, t[j].prot))
    BY <1>4, <2>1, <2>3, OneRight DEF Good
  <2>6. Disagree(l, k) BY <1>5, <2>1, <2>2, <2>3, <2>4, <2>5 DEF Disagree
  <2> QED BY <1>4, <2>6, JoinsIs
<1>9. ~r.bad => Good(r.list) /\ P!Joins(MapOf(l), MapOf(k))
                /\ MapOf(r.list) = P!Union(MapOf(l), MapOf(k))
  BY <1>4, <1>5, <1>6, <1>7, UnionIs
<1> QED BY <1>6, <1>8, <1>9 DEF r, l, k

-----------------------------------------------------------------------------
(* The specification.                                                       *)

IInv == /\ panicked \in BOOLEAN
        /\ space \in [Spaces -> Lists]
        /\ \A s \in Spaces : Good(space[s])

\* The pages of all spaces, as the refinement maps them.
Mapped(lists) == [s \in Spaces |-> MapOf(lists[s])]

\* A section under a view is a section, with the rights of both.
LEMMA SectionsAre ==
  /\ \A s \in Sections : s \in Secs /\ s.prot \in Rights
  /\ \A s \in Sections, view \in Rights :
       Masked(s, view) \in Secs /\ \E r \in Rights : Masked(s, view).prot = r \cap view
<1>1. \A r, view \in Rights : r \cap view \in Prots BY DEF Prots
<1>2. \A r \in Rights : r \in Prots BY DEF Prots
<1>3. \A s \in Sections : s \in Secs /\ s.prot \in Rights
  BY <1>2 DEF Sections, Secs, At
<1>4. ASSUME NEW s \in Sections, NEW view \in Rights
      PROVE  Masked(s, view) \in Secs /\ \E r \in Rights : Masked(s, view).prot = r \cap view
  <2>1. s \in Secs /\ s.prot \in Rights BY <1>3
  <2>2. Masked(s, view) = [s EXCEPT !.prot = s.prot \cap view] BY DEF Masked
  <2>3. s.prot \cap view \in Prots BY <1>1, <2>1
  <2>4. /\ Masked(s, view).addr = s.addr /\ Masked(s, view).size = s.size
        /\ Masked(s, view).prot = s.prot \cap view
        /\ Masked(s, view) \in [addr : {At(p) : p \in Pages}, size : 0 .. At(NPages), prot : Prots]
    BY <2>1, <2>2, <2>3 DEF Secs
  <2>5. End(Masked(s, view)) <= At(NPages) BY <2>1, <2>4 DEF Secs, End
  <2> QED BY <2>1, <2>4, <2>5 DEF Secs
<1> QED BY <1>3, <1>4

\* Every area Map and Unmap are given is on whole pages below NPages.
LEMMA AreasAre ==
  ASSUME NEW a \in Areas
  PROVE  /\ a \in AreaSet /\ End(a) <= At(NPages) /\ a.prot \in Rights
<1>1. PICK s \in Sections : s.size > 0 /\ a = SectVMA(s) BY DEF Areas
<1>2. s \in Secs /\ s.prot \in Rights BY SectionsAre
<1> QED BY <1>1, <1>2, SectVMAIs

\* Changing one list changes one map.
LEMMA MappedExcept ==
  ASSUME NEW lists, lists \in [Spaces -> Lists], NEW s \in Spaces, NEW l
  PROVE  Mapped([lists EXCEPT ![s] = l]) = [Mapped(lists) EXCEPT ![s] = MapOf(l)]
BY DEF Mapped

\* An operation edits one list, or the process panics; either way it is a step
\* of PageMaps.
LEMMA EditKeeps ==
  ASSUME IInv, NEW s \in Spaces, NEW l, Good(l),
         space' = [space EXCEPT ![s] = l], panicked' = panicked
  PROVE  IInv' /\ Mapped(space') = [Mapped(space) EXCEPT ![s] = MapOf(l)]
<1>1. l \in Lists BY DEF Good
<1>2. space' \in [Spaces -> Lists] BY <1>1 DEF IInv
<1>3. \A t \in Spaces : Good(space'[t]) BY DEF IInv
<1>4. Mapped(space') = [Mapped(space) EXCEPT ![s] = MapOf(l)] BY MappedExcept DEF IInv
<1> QED BY <1>2, <1>3, <1>4 DEF IInv

\* A panic changes no list.
LEMMA PanicKeeps ==
  ASSUME IInv, panicked' = TRUE, UNCHANGED space
  PROVE  IInv'
BY DEF IInv

\* An operation that joins a map to a list's, or panics where they disagree, is
\* a step of PageMaps.
LEMMA AddStep ==
  ASSUME IInv, NEW s \in Spaces, NEW r, NEW g,
         r.bad => ~P!Joins(MapOf(space[s]), g),
         ~r.bad => /\ Good(r.list) /\ P!Joins(MapOf(space[s]), g)
                   /\ MapOf(r.list) = P!Union(MapOf(space[s]), g),
         Becomes(r, [space EXCEPT ![s] = r.list])
  PROVE  IInv' /\ P!Add(s, g)
<1>1. Mapped(space)[s] = MapOf(space[s]) BY DEF Mapped
<1>2. CASE r.bad
  <2>1. panicked' = TRUE /\ UNCHANGED space BY <1>2 DEF Becomes
  <2>2. ~P!Joins(Mapped(space)[s], g) BY <1>1, <1>2
  <2>3. P!Add(s, g) BY <2>1, <2>2 DEF P!Add, Mapped, MapOf
  <2> QED BY <2>1, <2>3, PanicKeeps
<1>3. CASE ~r.bad
  <2>1. space' = [space EXCEPT ![s] = r.list] /\ panicked' = panicked BY <1>3 DEF Becomes
  <2>2. IInv' /\ Mapped(space') = [Mapped(space) EXCEPT ![s] = MapOf(r.list)]
    BY <1>3, <2>1, EditKeeps
  <2>3. P!Joins(Mapped(space)[s], g) BY <1>1, <1>3
  <2>4. Mapped(space') = [Mapped(space) EXCEPT ![s] = P!Union(Mapped(space)[s], g)]
    BY <1>1, <1>3, <2>2
  <2>5. P!Add(s, g) BY <2>1, <2>3, <2>4 DEF P!Add, Mapped, MapOf
  <2> QED BY <2>2, <2>5
<1> QED BY <1>2, <1>3

AbsRights == {r \cap v : r \in Rights, v \in Rights}

\* Map is a step of PageMaps.
LEMMA MapStep ==
  ASSUME IInv, ~panicked, NEW s \in Spaces, NEW a \in Areas, Map(s, a)
  PROVE  IInv' /\ P!PNext
<1>1. a \in AreaSet /\ End(a) <= At(NPages) /\ a.prot \in Rights BY AreasAre
<1>2. PICK R \in P!Ranges : MapOf(<<a>>) = P!Give(P!Empty, R, a.prot) BY <1>1, RangeIs
<1>3. Becomes(MapIn(space[s], a), [space EXCEPT ![s] = MapIn(space[s], a).list])
  BY DEF Map
<1>4. Good(space[s]) BY DEF IInv
<1>5. IInv' /\ P!Add(s, MapOf(<<a>>)) BY <1>1, <1>3, <1>4, MapGood, AddStep
<1>6. P!MapRange(s, R, a.prot) BY <1>2, <1>5 DEF P!MapRange
<1>7. a.prot \in AbsRights
  <2>1. a.prot = a.prot \cap a.prot OBVIOUS
  <2> QED BY <1>1, <2>1 DEF AbsRights
<1> QED BY <1>5, <1>6, <1>7 DEF P!PNext, AbsRights

\* Unmap is a step of PageMaps.
LEMMA UnmapStep ==
  ASSUME IInv, ~panicked, NEW s \in Spaces, NEW a \in Areas, UnmapOne(s, a)
  PROVE  IInv' /\ P!PNext
<1>1. a \in AreaSet /\ End(a) <= At(NPages) BY AreasAre
<1>2. PICK R \in P!Ranges : \A p \in Pages : p \in R <=> In(a, At(p)) BY <1>1, RangeIs
<1>3. Good(space[s]) BY DEF IInv
<1>4. /\ Good(Unmap(space[s], a))
      /\ MapOf(Unmap(space[s], a)) =
           [p \in Pages |-> IF In(a, At(p)) THEN NONE ELSE MapOf(space[s])[p]]
  BY <1>1, <1>3, UnmapGood
<1>5. space' = [space EXCEPT ![s] = Unmap(space[s], a)] /\ panicked' = panicked
  BY DEF UnmapOne
<1>6. IInv' /\ Mapped(space') = [Mapped(space) EXCEPT ![s] = MapOf(Unmap(space[s], a))]
  BY <1>4, <1>5, EditKeeps
<1>7. Mapped(space)[s] = MapOf(space[s]) BY DEF Mapped
<1>8. MapOf(Unmap(space[s], a)) = P!Give(Mapped(space)[s], R, NONE)
  BY <1>2, <1>4, <1>7, PagesNat DEF P!Give
<1>9. P!UnmapRange(s, R)
  <2>1. Mapped(space') = [Mapped(space) EXCEPT ![s] = P!Give(Mapped(space)[s], R, NONE)]
    BY <1>6, <1>8
  <2> QED BY <1>5, <2>1, PagesNat DEF P!UnmapRange, Mapped, MapOf
<1> QED BY <1>6, <1>9 DEF P!PNext

\* UnmapArea is a step of PageMaps.
LEMMA UnmapAreaStep ==
  ASSUME IInv, ~panicked, NEW s \in Spaces, NEW t \in Spaces \ {s}, UnmapArea(s, t)
  PROVE  IInv' /\ P!PNext
<1> DEFINE u == UnmapAll(space[s], space[t])
<1>1. Good(space[s]) /\ Good(space[t]) BY DEF IInv
<1>2. /\ Good(u)
      /\ MapOf(u) = [p \in Pages |-> IF MapOf(space[t])[p] = NONE THEN MapOf(space[s])[p]
                                                                   ELSE NONE]
  BY <1>1, UnmapAllGood
<1>3. space' = [space EXCEPT ![s] = u] /\ panicked' = panicked BY DEF UnmapArea
<1> HIDE DEF u
<1>4. IInv' /\ Mapped(space') = [Mapped(space) EXCEPT ![s] = MapOf(u)]
  BY <1>2, <1>3, EditKeeps
<1>5. Mapped(space)[s] = MapOf(space[s]) /\ Mapped(space)[t] = MapOf(space[t])
  BY DEF Mapped
<1>6. MapOf(u) = [p \in Pages |-> IF Mapped(space)[t][p] = NONE THEN Mapped(space)[s][p]
                                                               ELSE NONE]
  BY <1>2, <1>5
<1>7. P!Take(s, t)
  <2>1. Mapped(space') =
          [Mapped(space) EXCEPT ![s] = [p \in Pages |-> IF Mapped(space)[t][p] = NONE
                                                         THEN Mapped(space)[s][p] ELSE NONE]]
    BY <1>4, <1>6
  <2> QED BY <1>3, <2>1, PagesNat DEF P!Take, Mapped, MapOf
<1> QED BY <1>4, <1>7 DEF P!PNext

\* MapAreaCopy is a step of PageMaps.
LEMMA MapAreaCopyStep ==
  ASSUME IInv, ~panicked, NEW s \in Spaces, NEW t \in Spaces \ {s}, MapAreaCopy(s, t)
  PROVE  IInv' /\ P!PNext
<1>1. Good(space[s]) /\ Good(space[t]) BY DEF IInv
<1>2. Becomes(MapAll(space[s], space[t]), [space EXCEPT ![s] = MapAll(space[s], space[t]).list])
  BY DEF MapAreaCopy
<1>3. IInv' /\ P!Add(s, MapOf(space[t])) BY <1>1, <1>2, MapAllGood, AddStep
<1>4. Mapped(space)[t] = MapOf(space[t]) BY DEF Mapped
<1>5. P!Add(s, Mapped(space)[t]) BY <1>3, <1>4
<1>6. P!CopyTo(s, t) BY <1>5 DEF P!CopyTo, Mapped, MapOf
<1> QED BY <1>3, <1>6 DEF P!PNext

\* MapArea, which empties the other list, is a step of PageMaps.
LEMMA MapAreaStep ==
  ASSUME IInv, ~panicked, NEW s \in Spaces, NEW t \in Spaces \ {s}, MapArea(s, t)
  PROVE  IInv' /\ P!PNext
<1> DEFINE r == MapAll(space[s], space[t])
<1>1. Good(space[s]) /\ Good(space[t]) BY DEF IInv
<1>2. Becomes(r, [space EXCEPT ![s] = r.list, ![t] = <<>>]) BY DEF MapArea
<1>3. /\ r.bad => ~P!Joins(MapOf(space[s]), MapOf(space[t]))
      /\ ~r.bad => /\ Good(r.list) /\ P!Joins(MapOf(space[s]), MapOf(space[t]))
                   /\ MapOf(r.list) = P!Union(MapOf(space[s]), MapOf(space[t]))
  BY <1>1, MapAllGood
<1> HIDE DEF r
<1>4. Mapped(space)[s] = MapOf(space[s]) /\ Mapped(space)[t] = MapOf(space[t])
  BY DEF Mapped
<1>5. CASE r.bad
  <2>1. panicked' = TRUE /\ UNCHANGED space BY <1>2, <1>5 DEF Becomes
  <2>2. ~P!Joins(Mapped(space)[s], Mapped(space)[t]) BY <1>3, <1>4, <1>5
  <2>3. P!Move(s, t) BY <2>1, <2>2 DEF P!Move, Mapped, MapOf
  <2> QED BY <2>1, <2>3, PanicKeeps DEF P!PNext
<1>6. CASE ~r.bad
  <2>1. space' = [space EXCEPT ![s] = r.list, ![t] = <<>>] /\ panicked' = panicked
    BY <1>2, <1>6 DEF Becomes
  <2>2. r.list \in Lists /\ <<>> \in Lists BY <1>3, <1>6, NoArea DEF Good
  <2>3. space' \in [Spaces -> Lists] BY <2>1, <2>2 DEF IInv
  <2>4. \A x \in Spaces : Good(space'[x]) BY <1>3, <1>6, <2>1, NoArea DEF IInv
  <2>5. IInv' BY <2>1, <2>3, <2>4 DEF IInv
  <2>6. Mapped(space') = [Mapped(space) EXCEPT ![s] = MapOf(r.list), ![t] = MapOf(<<>>)]
    BY <2>1 DEF Mapped, IInv
  <2>7. Mapped(space') =
          [Mapped(space) EXCEPT ![s] = P!Union(Mapped(space)[s], Mapped(space)[t]), ![t] = P!Empty]
    BY <1>3, <1>4, <1>6, <2>6, NoArea
  <2>8. P!Joins(Mapped(space)[s], Mapped(space)[t]) BY <1>3, <1>4, <1>6
  <2>9. P!Move(s, t) BY <2>1, <2>7, <2>8 DEF P!Move, Mapped, MapOf
  <2> QED BY <2>5, <2>9 DEF P!PNext
<1> QED BY <1>5, <1>6

\* The ranges a section gives rights on: one, or none if it is empty.
LEMMA SectionRange ==
  ASSUME NEW s \in Secs
  PROVE  IF s.size > 0
           THEN \E R \in P!Ranges : MapOf(SectionList(s)) = P!Give(P!Empty, R, s.prot)
           ELSE MapOf(SectionList(s)) = P!Empty
<1>1. CASE s.size > 0
  <2>1. SectVMA(s) \in AreaSet /\ End(SectVMA(s)) <= At(NPages) /\ SectVMA(s).prot = s.prot
    BY <1>1, SectVMAIs
  <2>2. SectionList(s) = <<SectVMA(s)>> BY <1>1 DEF SectionList
  <2>3. \E R \in P!Ranges : MapOf(<<SectVMA(s)>>) = P!Give(P!Empty, R, SectVMA(s).prot)
    BY <2>1, RangeIs
  <2> QED BY <1>1, <2>1, <2>2, <2>3
<1>2. CASE ~(s.size > 0)
  <2>1. SectionList(s) = <<>> BY <1>2 DEF SectionList
  <2> QED BY <1>2, <2>1, NoArea
<1> QED BY <1>1, <1>2

\* Filling an empty list from two ranges, or panicking where they disagree, is
\* a step of PageMaps.
LEMMA FillStep ==
  ASSUME IInv, ~panicked, NEW s \in Spaces, Mapped(space)[s] = P!Empty,
         NEW R \in P!Ranges, NEW Q \in P!Ranges, NEW a \in AbsRights, NEW b \in AbsRights,
         IF P!Joins(P!Give(P!Empty, R, a), P!Give(P!Empty, Q, b))
           THEN /\ Mapped(space') =
                     [Mapped(space) EXCEPT ![s] = P!Give(P!Give(P!Empty, R, a), Q, b)]
                /\ UNCHANGED panicked
           ELSE panicked' = TRUE /\ UNCHANGED space
  PROVE  P!PNext
<1>1. P!Fill(s, R, a, Q, b) BY DEF P!Fill, Mapped, MapOf
<1>2. ~panicked /\ Mapped(space)[s] = P!Empty OBVIOUS
<1> QED BY <1>1, <1>2 DEF P!PNext, Mapped, MapOf, AbsRights

\* Any pair of sections: a fill with two ranges, with one, or with none.
LEMMA LoadStep ==
  ASSUME IInv, ~panicked, NEW s \in Spaces, NEW sec \in Sections, NEW other \in Sections,
         NEW view \in Rights, Load(s, <<Masked(sec, view), Masked(other, view)>>)
  PROVE  IInv' /\ (P!PNext \/ UNCHANGED P!pvars)
<1> DEFINE m == Masked(sec, view)
           o == Masked(other, view)
           f == MapOf(SectionList(m))
           g == MapOf(SectionList(o))
<1>1. m \in Secs /\ o \in Secs /\ m.prot \in AbsRights /\ o.prot \in AbsRights
  <2>1. \A x \in Sections : Masked(x, view) \in Secs
                            /\ \E r \in Rights : Masked(x, view).prot = r \cap view
    BY SectionsAre
  <2> QED BY <2>1 DEF AbsRights
<1>2. m.prot # NONE /\ o.prot # NONE BY <1>1, VMAssumption DEF AbsRights
<1> HIDE DEF m, o
<1>3. PICK t \in SortedAreas(<<m, o>>) :
        Becomes(Coalesce(t), [space EXCEPT ![s] = Coalesce(t).list])
  BY DEF Load, m, o
<1>4. space[s] = <<>> BY DEF Load
<1> DEFINE r == Coalesce(t)
<1>5. /\ r.bad => ~P!Joins(f, g)
      /\ ~r.bad => Good(r.list) /\ P!Joins(f, g) /\ MapOf(r.list) = P!Union(f, g)
  BY <1>1, <1>3, LoadGood
<1> HIDE DEF r
<1>6. Mapped(space)[s] = P!Empty BY <1>4, NoArea DEF Mapped
<1>7. IF P!Joins(f, g)
        THEN /\ Mapped(space') = [Mapped(space) EXCEPT ![s] = P!Union(f, g)]
             /\ UNCHANGED panicked /\ IInv'
        ELSE panicked' = TRUE /\ UNCHANGED space /\ IInv'
  <2>1. CASE r.bad
    <3>1. panicked' = TRUE /\ UNCHANGED space BY <1>3, <2>1 DEF Becomes, r
    <3> QED BY <1>5, <2>1, <3>1, PanicKeeps
  <2>2. CASE ~r.bad
    <3>1. space' = [space EXCEPT ![s] = r.list] /\ panicked' = panicked
      BY <1>3, <2>2 DEF Becomes, r
    <3>2. IInv' /\ Mapped(space') = [Mapped(space) EXCEPT ![s] = MapOf(r.list)]
      BY <1>5, <2>2, <3>1, EditKeeps
    <3> QED BY <1>5, <2>2, <3>1, <3>2
  <2> QED BY <2>1, <2>2
<1>8. IF m.size > 0 THEN \E R \in P!Ranges : f = P!Give(P!Empty, R, m.prot) ELSE f = P!Empty
  BY <1>1, SectionRange
<1>9. IF o.size > 0 THEN \E R \in P!Ranges : g = P!Give(P!Empty, R, o.prot) ELSE g = P!Empty
  BY <1>1, SectionRange
<1> HIDE DEF f, g
<1>10. CASE m.size > 0 /\ o.size > 0
  <2>1. PICK R \in P!Ranges : f = P!Give(P!Empty, R, m.prot) BY <1>8, <1>10
  <2>2. PICK Q \in P!Ranges : g = P!Give(P!Empty, Q, o.prot) BY <1>9, <1>10
  <2>3. P!Union(f, g) = P!Give(P!Give(P!Empty, R, m.prot), Q, o.prot)
    BY <1>2, <2>1, <2>2, PagesNat DEF P!Union, P!Give, P!Empty
  <2>4. P!PNext BY <1>1, <1>6, <1>7, <2>1, <2>2, <2>3, FillStep
  <2> QED BY <1>7, <2>4
<1>11. CASE m.size > 0 /\ ~(o.size > 0)
  <2>1. PICK R \in P!Ranges : f = P!Give(P!Empty, R, m.prot) BY <1>8, <1>11
  <2>2. g = P!Empty BY <1>9, <1>11
  <2>3. P!Union(f, g) = P!Give(P!Give(P!Empty, R, m.prot), R, m.prot)
    BY <2>1, <2>2, PagesNat DEF P!Union, P!Give, P!Empty
  <2>4. P!Joins(f, g) /\ P!Joins(P!Give(P!Empty, R, m.prot), P!Give(P!Empty, R, m.prot))
    BY <2>1, <2>2, PagesNat DEF P!Joins, P!Give, P!Empty
  <2>5. P!PNext BY <1>1, <1>6, <1>7, <2>3, <2>4, FillStep
  <2> QED BY <1>7, <2>5
<1>12. CASE ~(m.size > 0) /\ o.size > 0
  <2>1. f = P!Empty BY <1>8, <1>12
  <2>2. PICK Q \in P!Ranges : g = P!Give(P!Empty, Q, o.prot) BY <1>9, <1>12
  <2>3. P!Union(f, g) = P!Give(P!Give(P!Empty, Q, o.prot), Q, o.prot)
    BY <1>2, <2>1, <2>2, PagesNat DEF P!Union, P!Give, P!Empty
  <2>4. P!Joins(f, g) /\ P!Joins(P!Give(P!Empty, Q, o.prot), P!Give(P!Empty, Q, o.prot))
    BY <2>1, <2>2, PagesNat DEF P!Joins, P!Give, P!Empty
  <2>5. P!PNext BY <1>1, <1>6, <1>7, <2>3, <2>4, FillStep
  <2> QED BY <1>7, <2>5
<1>13. CASE ~(m.size > 0) /\ ~(o.size > 0)
  <2>1. f = P!Empty /\ g = P!Empty BY <1>8, <1>9, <1>13
  <2>2. P!Joins(f, g) /\ P!Union(f, g) = P!Empty
    BY <2>1, PagesNat DEF P!Joins, P!Union, P!Empty
  <2>3. Mapped(space') = Mapped(space)
    <3>1. Mapped(space') = [Mapped(space) EXCEPT ![s] = Mapped(space)[s]]
      BY <1>6, <1>7, <2>2
    <3>2. [Mapped(space) EXCEPT ![s] = Mapped(space)[s]] = Mapped(space) BY DEF Mapped
    <3> QED BY <3>1, <3>2
  <2>4. UNCHANGED P!pvars BY <1>7, <2>2, <2>3 DEF P!pvars, Mapped, MapOf
  <2> QED BY <1>7, <2>2, <2>4
<1> QED BY <1>10, <1>11, <1>12, <1>13

\* Every step keeps the lists good and is a step of PageMaps.
LEMMA Step ==
  ASSUME IInv, [Next]_vars
  PROVE  IInv' /\ [P!PNext]_(P!pvars)
<1>1. CASE UNCHANGED vars
  <2>1. space' = space /\ panicked' = panicked BY <1>1 DEF vars
  <2>2. IInv' BY <2>1 DEF IInv
  <2>3. UNCHANGED P!pvars BY <2>1 DEF P!pvars
  <2> QED BY <2>2, <2>3
<1>2. ASSUME ~panicked, NEW s \in Spaces, NEW a \in Areas, Map(s, a)
      PROVE  IInv' /\ P!PNext
  BY <1>2, MapStep
<1>3. ASSUME ~panicked, NEW s \in Spaces, NEW a \in Areas, UnmapOne(s, a)
      PROVE  IInv' /\ P!PNext
  BY <1>3, UnmapStep
<1>4. ASSUME ~panicked, NEW s \in Spaces, NEW sec \in Sections, NEW other \in Sections,
             NEW view \in Rights, Load(s, <<Masked(sec, view), Masked(other, view)>>)
      PROVE  IInv' /\ (P!PNext \/ UNCHANGED P!pvars)
  BY <1>4, LoadStep
<1>5. ASSUME ~panicked, NEW s \in Spaces, NEW t \in Spaces \ {s}, MapArea(s, t)
      PROVE  IInv' /\ P!PNext
  BY <1>5, MapAreaStep
<1>6. ASSUME ~panicked, NEW s \in Spaces, NEW t \in Spaces \ {s}, MapAreaCopy(s, t)
      PROVE  IInv' /\ P!PNext
  BY <1>6, MapAreaCopyStep
<1>7. ASSUME ~panicked, NEW s \in Spaces, NEW t \in Spaces \ {s}, UnmapArea(s, t)
      PROVE  IInv' /\ P!PNext
  BY <1>7, UnmapAreaStep
<1> QED BY <1>1, <1>2, <1>3, <1>4, <1>5, <1>6, <1>7 DEF Next

\* The lists are good at first, and stand for empty maps.
LEMMA Initially == Init => IInv /\ P!PInit
<1> SUFFICES ASSUME Init PROVE IInv /\ P!PInit OBVIOUS
<1>1. space = [s \in Spaces |-> <<>>] /\ panicked = FALSE BY DEF Init
<1>2. IInv BY <1>1, NoArea DEF IInv, Good
<1>3. Mapped(space) = [s \in Spaces |-> P!Empty] BY <1>1, NoArea DEF Mapped
<1>4. P!PInit BY <1>1, <1>3 DEF P!PInit, Mapped, MapOf
<1> QED BY <1>2, <1>4

\* The inductive invariant: every list is areas of whole pages below NPages,
\* sorted, disjoint and coalesced (Good), whatever was done to it.
THEOREM Inductive == Spec => []IInv
<1>1. Init => IInv BY Initially
<1>2. IInv /\ [Next]_vars => IInv' BY Step
<1> QED BY <1>1, <1>2, PTL DEF Spec

\* Every area of every list is whole pages below NPages, and not empty.
THEOREM TypeCorrect == Spec => []TypeOK
<1>1. IInv => TypeOK
  <2> SUFFICES ASSUME IInv, NEW s \in Spaces, NEW i \in DOMAIN space[s], NEW a, a = space[s][i]
               PROVE  /\ panicked \in BOOLEAN
                      /\ a.addr % PageSize = 0 /\ a.size % PageSize = 0
                      /\ a.size > 0 /\ End(a) <= NPages * PageSize
    BY DEF TypeOK, IInv
  <2>0. PageSize \in Nat \ {0} BY VMAssumption
  <2>1. Good(space[s]) /\ panicked \in BOOLEAN BY DEF IInv
  <2>2. a \in AreaSet BY <2>1 DEF Good, Lists
  <2>3. /\ a.addr \in Nat /\ a.size \in Nat /\ a.size > 0 /\ End(a) \in Nat
        /\ a.addr \in Bounds /\ End(a) \in Bounds /\ a.prot \in Prots
        /\ End(a) = a.addr + a.size /\ a.addr < End(a)
    BY <2>2, AreaIs
  <2>4. PICK j \in Nat : a.addr = j * PageSize BY <2>3 DEF Bounds
  <2>5. PICK k \in Nat : End(a) = k * PageSize BY <2>3 DEF Bounds
  <2>6. a.addr % PageSize = 0 BY <2>0, <2>4, Multiple
  <2>7. a.size % PageSize = 0
    <3>1. j < k BY <2>3, <2>4, <2>5, PageOrder DEF At
    <3>2. PICK d \in Nat : d = k - j BY <3>1
    <3>3. a.size = d * PageSize BY <2>0, <2>3, <2>4, <2>5, <3>2
    <3> QED BY <2>0, <3>3, Multiple
  <2>8. End(a) <= At(NPages)
    <3>1. PICK x \in Nat : x + 1 = End(a)
      <4>1. End(a) - 1 \in Nat /\ (End(a) - 1) + 1 = End(a) BY <2>3
      <4> QED BY <4>1
    <3>2. In(a, x) BY <2>3, <3>1 DEF In
    <3>3. Has(space[s], x, a.prot) BY <3>2 DEF Has
    <3>4. x < At(NPages) BY <2>1, <2>3, <3>3 DEF Good, Top
    <3>5. At(NPages) \in Nat BY PagesNat, PageOrder
    <3> QED BY <3>1, <3>4, <3>5
  <2> QED BY <2>1, <2>3, <2>6, <2>7, <2>8 DEF At
<1> QED BY <1>1, Inductive, PTL

\* Every list is the one list of its address space: sorted, disjoint, and
\* without neighbours that could be one area, whatever was mapped and unmapped.
THEOREM ListsCanonical == Spec => []Canonical
<1>1. IInv => Canonical
  <2> SUFFICES ASSUME IInv, NEW s \in Spaces, NEW i \in 1 .. Len(space[s]) - 1
               PROVE  /\ End(space[s][i]) <= space[s][i + 1].addr
                      /\ End(space[s][i]) = space[s][i + 1].addr =>
                           space[s][i].prot # space[s][i + 1].prot
    BY DEF Canonical
  <2>1. space[s] \in Lists /\ Canon(space[s]) BY DEF IInv, Good
  <2>2. i \in DOMAIN space[s] /\ i + 1 \in DOMAIN space[s] /\ i < i + 1 BY <2>1 DEF Lists
  <2> QED BY <2>1, <2>2 DEF Canon
<1> QED BY <1>1, Inductive, PTL

\* Mirror has exactly the pages below the limit that the list has not.
THEOREM MirrorIsComplement == Spec => []MirrorComplements
<1>1. IInv => MirrorComplements
  <2> SUFFICES ASSUME IInv, NEW s \in Spaces, NEW p \in 0 .. LimitPage + NPages
               PROVE  RightsOn(Mirror(space[s]), p) # NONE
                        <=> p < LimitPage /\ RightsOn(space[s], p) = NONE
    BY DEF MirrorComplements
  <2>1. space[s] \in Lists /\ Canon(space[s]) BY DEF IInv, Good
  <2>2. p \in Nat /\ At(p) \in Nat /\ LimitPage \in Nat
        /\ (At(p) < At(LimitPage) <=> p < LimitPage)
    <3>1. p \in Nat /\ LimitPage \in Nat BY VMAssumption
    <3> QED BY <3>1, PageOrder
  <2>3. /\ Mirror(space[s]) \in Lists /\ Canon(Mirror(space[s]))
        /\ \A x \in Nat, q \in Prots :
             Has(Mirror(space[s]), x, q) <=>
               q = {} /\ x < Limit /\ ~Some(space[s], Len(space[s]), x)
    BY <2>1, MirrorIs
  <2>4. RightsOn(Mirror(space[s]), p) # NONE <=>
          \E q \in Prots : Has(Mirror(space[s]), At(p), q)
    BY <2>2, <2>3, RightsAre
  <2>5. RightsOn(space[s], p) # NONE <=> \E q \in Prots : Has(space[s], At(p), q)
    BY <2>1, <2>2, RightsAre
  <2>6. Some(space[s], Len(space[s]), At(p)) <=> \E q \in Prots : Has(space[s], At(p), q)
    BY <2>1, SomeIs
  <2>7. {} \in Prots /\ Limit = At(LimitPage) BY DEF Prots, Limit, At
  <2> QED BY <2>2, <2>3, <2>4, <2>5, <2>6, <2>7
<1> QED BY <1>1, Inductive, PTL

\* The lists implement maps from pages to rights.
THEOREM Implements == Spec => IsPageMap
<1>1. Init => P!PInit BY Initially
<1>2. IInv /\ [Next]_vars => [P!PNext]_(P!pvars) BY Step
<1> QED BY <1>1, <1>2, Inductive, PTL DEF Spec, IsPageMap, P!PSpec

-----------------------------------------------------------------------------
(* One list for each map.                                                   *)

Alike(l, m) == \A x \in Bounds : \A q : Has(l, x, q) <=> Has(m, x, q)

\* If two lists begin alike and one goes on, so does the other, no later.
LEMMA GoesOn ==
  ASSUME NEW l \in Lists, NEW m \in Lists, Canon(l), Canon(m), Alike(l, m),
         NEW k \in Nat, k + 1 \in DOMAIN l, \A i \in 1 .. k : m[i] = l[i]
  PROVE  k + 1 \in DOMAIN m /\ m[k + 1].addr <= l[k + 1].addr
<1> DEFINE a == l[k + 1]
<1>1. /\ DOMAIN l = 1 .. Len(l) /\ DOMAIN m = 1 .. Len(m)
      /\ Len(l) \in Nat /\ Len(m) \in Nat
  BY DEF Lists
<1>2. a \in AreaSet BY DEF Lists
<1>3. Has(l, a.addr, a.prot) BY <1>2, AreaIs DEF Has, In
<1>4. PICK j \in DOMAIN m : In(m[j], a.addr)
  <2>1. Has(m, a.addr, a.prot) BY <1>2, <1>3, AreaIs DEF Alike
  <2> QED BY <2>1 DEF Has
<1>5. j > k
  <2> SUFFICES ASSUME j \in 1 .. k PROVE FALSE BY <1>1
  <2>1. m[j] = l[j] /\ j \in DOMAIN l /\ j < k + 1 BY <1>1
  <2>2. End(l[j]) <= a.addr BY <2>1 DEF Canon
  <2>3. End(l[j]) \in Nat /\ a.addr \in Nat
    <3>1. l[j] \in AreaSet BY <2>1 DEF Lists
    <3> QED BY <1>2, <3>1, AreaIs
  <2> QED BY <1>4, <2>1, <2>2, <2>3 DEF In
<1>6. k + 1 \in DOMAIN m /\ k + 1 <= j BY <1>1, <1>5
<1>7. m[k + 1].addr <= m[j].addr
  <2>1. m[j] \in AreaSet BY DEF Lists
  <2>2. m[j].addr \in Nat BY <2>1, AreaIs
  <2>3. CASE k + 1 = j BY <2>2, <2>3
  <2>4. CASE k + 1 < j BY <1>6, <2>4, CanonSorted DEF Sorted
  <2> QED BY <1>1, <1>6, <2>3, <2>4
<1>8. m[j] \in AreaSet /\ m[k + 1] \in AreaSet BY <1>6 DEF Lists
<1>9. m[j].addr \in Nat /\ m[k + 1].addr \in Nat /\ a.addr \in Nat BY <1>2, <1>8, AreaIs
<1>10. m[j].addr <= a.addr BY <1>4 DEF In
<1> QED BY <1>6, <1>7, <1>9, <1>10

\* Areas that begin alike end alike: one that ends before would have to be
\* followed by one with the same rights, with which it would be one area.
LEMMA EndsAlike ==
  ASSUME NEW l \in Lists, NEW m \in Lists, Canon(l), Alike(l, m),
         NEW i \in DOMAIN l, i \in DOMAIN m,
         l[i].addr = m[i].addr, l[i].prot = m[i].prot
  PROVE  End(m[i]) <= End(l[i])
<1> DEFINE e == End(l[i])
<1>1. l[i] \in AreaSet /\ m[i] \in AreaSet /\ i \in Nat BY DEF Lists
<1>2. /\ e \in Nat /\ e \in Bounds /\ End(m[i]) \in Nat
      /\ l[i].addr \in Nat /\ l[i].addr < e
  BY <1>1, AreaIs
<1> SUFFICES ASSUME e < End(m[i]) PROVE FALSE BY <1>2
<1>3. Has(m, e, l[i].prot) BY <1>2 DEF Has, In
<1>4. PICK k \in DOMAIN l : In(l[k], e) /\ l[k].prot = l[i].prot
  <2>1. Has(l, e, l[i].prot) BY <1>2, <1>3 DEF Alike
  <2> QED BY <2>1 DEF Has
<1>5. l[k] \in AreaSet /\ k \in Nat BY DEF Lists
<1>6. l[k].addr \in Nat /\ End(l[k]) \in Nat BY <1>5, AreaIs
<1>7. k # i BY <1>2, <1>4 DEF In
<1>8. ~(k < i) BY <1>2, <1>4, <1>6 DEF Canon, In
<1>9. i < k BY <1>1, <1>5, <1>7, <1>8
<1>10. e <= l[k].addr /\ e # l[k].addr BY <1>4, <1>9 DEF Canon
<1> QED BY <1>2, <1>4, <1>6, <1>10 DEF In

LEMMA AlikeNext ==
  ASSUME NEW l \in Lists, NEW m \in Lists, Canon(l), Canon(m), Alike(l, m),
         NEW k \in Nat, k + 1 \in DOMAIN l, \A i \in 1 .. k : m[i] = l[i]
  PROVE  k + 1 \in DOMAIN m /\ m[k + 1] = l[k + 1]
<1> DEFINE a == l[k + 1]
           b == m[k + 1]
<1>1. Alike(m, l) BY DEF Alike
<1>2. k + 1 \in DOMAIN m /\ b.addr <= a.addr BY GoesOn
<1>3. a.addr <= b.addr BY <1>1, <1>2, GoesOn
<1>4. a \in AreaSet /\ b \in AreaSet BY <1>2 DEF Lists
<1>5. /\ a.addr \in Nat /\ a.addr \in Bounds /\ b.addr \in Nat
      /\ End(a) \in Nat /\ End(b) \in Nat /\ End(a) = a.addr + a.size
      /\ End(b) = b.addr + b.size /\ a.size \in Nat /\ b.size \in Nat
      /\ a.addr < End(a) /\ b.addr < End(b)
  BY <1>4, AreaIs
<1>6. a.addr = b.addr BY <1>2, <1>3, <1>5
<1>7. a.prot = b.prot
  <2>1. Has(l, a.addr, a.prot) BY <1>5 DEF Has, In
  <2>2. Has(m, a.addr, b.prot) BY <1>2, <1>5, <1>6 DEF Has, In
  <2>3. Has(l, a.addr, b.prot) BY <1>5, <2>2 DEF Alike
  <2> QED BY <1>5, <2>1, <2>3, OneRight
<1>8. End(a) <= End(b) /\ End(b) <= End(a) BY <1>1, <1>2, <1>6, <1>7, EndsAlike
<1>9. a.size = b.size BY <1>5, <1>6, <1>8
<1>10. a = b
  <2>1. /\ a \in [addr : Bounds, size : Nat \ {0}, prot : Prots]
        /\ b \in [addr : Bounds, size : Nat \ {0}, prot : Prots]
    BY <1>4 DEF AreaSet
  <2> HIDE DEF a, b
  <2> QED BY <1>6, <1>7, <1>9, <2>1
<1> QED BY <1>2, <1>10

\* Canonical lists of the same addresses are one list.
LEMMA OneList ==
  ASSUME NEW l \in Lists, NEW m \in Lists, Canon(l), Canon(m), Alike(l, m)
  PROVE  l = m
<1> DEFINE T == {k \in Nat : k <= Len(l) => /\ k <= Len(m)
                                            /\ \A i \in 1 .. k : m[i] = l[i]}
<1>1. /\ DOMAIN l = 1 .. Len(l) /\ DOMAIN m = 1 .. Len(m)
      /\ Len(l) \in Nat /\ Len(m) \in Nat
  BY DEF Lists
<1>2. 0 \in T BY <1>1
<1>3. ASSUME NEW k \in Nat, k \in T PROVE k + 1 \in T
  <2> SUFFICES ASSUME k + 1 <= Len(l)
               PROVE  k + 1 <= Len(m) /\ \A i \in 1 .. k + 1 : m[i] = l[i]
    OBVIOUS
  <2>1. \A i \in 1 .. k : m[i] = l[i] BY <1>1, <1>3
  <2>2. k + 1 \in DOMAIN l BY <1>1
  <2>3. k + 1 \in DOMAIN m /\ m[k + 1] = l[k + 1] BY <2>1, <2>2, AlikeNext
  <2> QED BY <1>1, <2>1, <2>3
<1>4. Len(l) \in T
  <2> HIDE DEF T
  <2> QED BY <1>1, <1>2, <1>3, Naturals
<1>5. Len(l) <= Len(m) /\ \A i \in 1 .. Len(l) : m[i] = l[i] BY <1>1, <1>4
<1>6. Len(m) <= Len(l)
  <2> SUFFICES ASSUME Len(l) < Len(m) PROVE FALSE BY <1>1
  <2>1. Len(l) + 1 \in DOMAIN m BY <1>1
  <2>2. Alike(m, l) /\ \A i \in 1 .. Len(l) : l[i] = m[i] BY <1>5 DEF Alike
  <2>3. Len(l) + 1 \in DOMAIN l BY <1>1, <2>1, <2>2, GoesOn
  <2> QED BY <1>1, <2>3
<1>7. Len(l) = Len(m)
  <2>1. Len(l) \in Nat /\ Len(m) \in Nat BY <1>1
  <2>2. Len(l) <= Len(m) BY <1>5
  <2> HIDE DEF T
  <2> QED BY <1>6, <2>1, <2>2
<1> QED BY <1>1, <1>5, <1>7 DEF Lists

\* Good lists with the same rights on every page are alike.
LEMMA MapTells ==
  ASSUME NEW l, NEW m, Good(l), Good(m), MapOf(l) = MapOf(m)
  PROVE  l = m
<1>1. l \in Lists /\ m \in Lists /\ Canon(l) /\ Canon(m) BY DEF Good
<1>2. ASSUME NEW x \in Bounds, NEW q PROVE Has(l, x, q) <=> Has(m, x, q)
  <2>1. PICK p \in Nat : x = At(p) BY BoundIs
  <2>2. NPages \in Nat BY VMAssumption
  <2>3. x \in Nat /\ At(NPages) \in Nat /\ (x < At(NPages) <=> p < NPages)
    BY <2>1, <2>2, PageOrder
  <2>4. Has(l, x, q) \/ Has(m, x, q) => q \in Prots BY <1>1, HasProt
  <2>5. CASE p < NPages
    <3>1. RightsOn(l, p) = RightsOn(m, p)
      <4>1. p \in Pages BY <2>2, <2>5 DEF Pages
      <4>2. MapOf(l)[p] = RightsOn(l, p) /\ MapOf(m)[p] = RightsOn(m, p)
        BY <4>1 DEF MapOf
      <4> QED BY <4>2
    <3>2. \A r \in Prots : /\ RightsOn(l, p) = r <=> Has(l, x, r)
                           /\ RightsOn(m, p) = r <=> Has(m, x, r)
      BY <1>1, <2>1, RightsAre
    <3> QED BY <2>4, <3>1, <3>2
  <2>6. CASE ~(p < NPages)
    BY <2>3, <2>4, <2>6 DEF Good, Top
  <2> QED BY <2>5, <2>6
<1>3. Alike(l, m) BY <1>2 DEF Alike
<1> QED BY <1>1, <1>3, OneList

\* Two spaces with the same rights on every page.
SameMapSameList ==
  \A s, t \in Spaces :
    (\A p \in Pages : RightsOn(space[s], p) = RightsOn(space[t], p))
      => space[s] = space[t]

\* An address space has one list: whatever was mapped, unmapped and coalesced
\* in whatever order, lists that give the same rights on every page are equal.
THEOREM OneListPerMap == Spec => []SameMapSameList
<1>1. ASSUME IInv PROVE SameMapSameList
  <2> SUFFICES ASSUME NEW s \in Spaces, NEW t \in Spaces,
                      \A p \in Pages : RightsOn(space[s], p) = RightsOn(space[t], p)
               PROVE  space[s] = space[t]
    BY DEF SameMapSameList
  <2>1. MapOf(space[s]) = MapOf(space[t]) BY DEF MapOf
  <2>2. Good(space[s]) /\ Good(space[t]) BY <1>1 DEF IInv
  <2> QED BY <2>1, <2>2, MapTells
<1> QED BY <1>1, Inductive, PTL

=============================================================================
