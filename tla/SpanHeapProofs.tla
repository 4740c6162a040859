--------------------------- MODULE SpanHeapProofs ---------------------------
(***************************************************************************)
(* What SpanHeap keeps true for any number of threads, packages, pages and   *)
(* objects per span.  The proof goes up in three layers: what one merge, one  *)
(* split and one growth do to a heap whose spans partition the arena; what    *)
(* the page heap's operations made of them do; what each action does to the   *)
(* threads' claims on spans.                                                 *)
(***************************************************************************)
EXTENDS SpanHeap, SequenceTheorems, FiniteSetTheorems, WellFoundedInduction, TLAPS

Live(h) == Free(h) \cup InUse(h)

\* The spans of a heap partition the arena below b.
Part(h, b) ==
  /\ h \in [span : [Descs -> Spans], pool : Seq(Descs)]
  /\ IsInjective(h.pool) /\ Range(h.pool) = Descs \ Live(h)
  /\ \A d \in Live(h) : h.span[d].np > 0 /\ End(h, d) <= b
  /\ \A d, e \in Live(h) :
       d # e => End(h, d) <= h.span[e].base \/ End(h, e) <= h.span[d].base
  /\ \A p \in 0 .. b - 1 : \E d \in Live(h) : h.span[d].base <= p /\ p < End(h, d)
  /\ \A d \in Descs \ InUse(h) : ~h.span[d].dirty

\* No two free spans that could be merged lie side by side, those of X apart.
Apart(h, X) ==
  \A d, e \in Free(h) \ X :
    End(h, d) = h.span[e].base => h.span[d].scav # h.span[e].scav

\* The spans in use are the same.
SameInUse(h, g) ==
  InUse(g) = InUse(h) /\ \A d \in InUse(h) : g.span[d] = h.span[d]

-----------------------------------------------------------------------------
(* The list of spanalloc.                                                   *)

\* Taking a descriptor off the list, and putting one back (spanalloc.alloc and
\* free), keep it without repetition.
LEMMA PopPool ==
  ASSUME NEW q \in Seq(Descs), IsInjective(q), q # <<>>
  PROVE  /\ Head(q) \in Descs /\ Head(q) \in Range(q)
         /\ Tail(q) \in Seq(Descs) /\ IsInjective(Tail(q))
         /\ Range(Tail(q)) = Range(q) \ {Head(q)}
<1>1. /\ Tail(q) \in Seq(Descs) /\ Len(Tail(q)) = Len(q) - 1
      /\ \A i \in 1 .. Len(Tail(q)) : Tail(q)[i] = q[i + 1]
  BY HeadTailProperties
<1>2. Len(q) \in Nat /\ Len(q) >= 1 /\ DOMAIN q = 1 .. Len(q)
  BY LenProperties, EmptySeq
<1>3. Head(q) = q[1] /\ q[1] \in Descs
  BY <1>2, ElementOfSeq
<1>4. DOMAIN Tail(q) = 1 .. Len(q) - 1
  BY <1>1, LenProperties
<1>5. IsInjective(Tail(q))
  BY <1>1, <1>2, <1>4 DEF IsInjective
<1>6. ASSUME NEW x \in Range(Tail(q)) PROVE x \in Range(q) \ {Head(q)}
  BY <1>1, <1>2, <1>3, <1>4 DEF IsInjective, Range
<1>7. ASSUME NEW x \in Range(q) \ {Head(q)} PROVE x \in Range(Tail(q))
  <2>1. PICK i \in 1 .. Len(q) : x = q[i] /\ i # 1
    BY <1>2, <1>3, <1>7 DEF Range
  <2>2. i - 1 \in 1 .. Len(q) - 1 /\ Tail(q)[i - 1] = q[i - 1 + 1]
    BY <1>1, <1>2, <2>1
  <2>3. i - 1 \in DOMAIN Tail(q) /\ Tail(q)[i - 1] = x
    BY <1>2, <1>4, <2>1, <2>2
  <2>4. QED BY <2>3 DEF Range
<1>8. Head(q) \in Range(q)
  BY <1>2, <1>3 DEF Range
<1>9. QED BY <1>1, <1>3, <1>5, <1>6, <1>7, <1>8

LEMMA PushPool ==
  ASSUME NEW q \in Seq(Descs), IsInjective(q), NEW d \in Descs, d \notin Range(q)
  PROVE  /\ <<d>> \o q \in Seq(Descs) /\ IsInjective(<<d>> \o q)
         /\ Range(<<d>> \o q) = Range(q) \cup {d}
<1> DEFINE r == <<d>> \o q
<1>1. Len(q) \in Nat /\ DOMAIN q = 1 .. Len(q)
  BY LenProperties
<1>2. r \in Seq(Descs) /\ Len(r) = 1 + Len(q)
      /\ \A i \in 1 .. 1 + Len(q) : r[i] = IF i <= 1 THEN d ELSE q[i - 1]
  BY ConcatProperties, <<d>> \in Seq(Descs), Len(<<d>>) = 1, <<d>>[1] = d
<1>3. DOMAIN r = 1 .. 1 + Len(q)
  BY <1>2, LenProperties
<1>4. \A i \in 1 .. 1 + Len(q) : i # 1 => i - 1 \in 1 .. Len(q) /\ r[i] = q[i - 1]
  BY <1>1, <1>2
<1>5. IsInjective(r)
  <2> SUFFICES ASSUME NEW i \in 1 .. 1 + Len(q), NEW j \in 1 .. 1 + Len(q), r[i] = r[j]
               PROVE  i = j
    BY <1>3 DEF IsInjective
  <2>1. r[1] = d
    BY <1>1, <1>2
  <2>2. \A k \in 1 .. Len(q) : q[k] # d
    BY <1>1 DEF Range
  <2>3. CASE i = 1 \/ j = 1
    BY <2>1, <2>2, <2>3, <1>4
  <2>4. CASE i # 1 /\ j # 1
    <3>1. i - 1 = j - 1
      BY <2>4, <1>1, <1>4 DEF IsInjective
    <3>2. QED BY <3>1, <1>1
  <2>5. QED BY <2>3, <2>4
<1>6. Range(r) = Range(q) \cup {d}
  <2>1. ASSUME NEW x \in Range(r) PROVE x \in Range(q) \cup {d}
    <3>1. PICK i \in 1 .. 1 + Len(q) : x = r[i]
      BY <1>3, <2>1 DEF Range
    <3>2. QED BY <3>1, <1>1, <1>2, <1>4 DEF Range
  <2>2. d \in Range(r)
    BY <1>1, <1>2, <1>3 DEF Range
  <2>3. ASSUME NEW x \in Range(q) PROVE x \in Range(r)
    <3>1. PICK i \in 1 .. Len(q) : x = q[i]
      BY <1>1, <2>3 DEF Range
    <3>2. i + 1 \in 1 .. 1 + Len(q) /\ r[i + 1] = q[i + 1 - 1]
      BY <1>1, <1>2, <3>1
    <3>3. i + 1 \in DOMAIN r /\ r[i + 1] = x
      BY <1>1, <1>3, <3>1, <3>2
    <3>4. QED BY <3>3 DEF Range
  <2>4. QED BY <2>1, <2>2, <2>3
<1>7. QED BY <1>2, <1>5, <1>6

\* A nonempty set of spans has one of lowest address.
LEMMA LowestSpan ==
  ASSUME NEW h, NEW S, S # {}, \A d \in S : h.span[d].base \in Nat
  PROVE  \E d \in S : \A e \in S : h.span[d].base <= h.span[e].base
<1> DEFINE Below(d) == 0 .. h.span[d].base - 1
           T == {Below(d) : d \in S}
<1>1. ASSUME NEW d \in S PROVE Below(d) \in FiniteSubsetsOf(Nat)
  <2>1. h.span[d].base - 1 \in Int /\ Below(d) \subseteq Nat
    OBVIOUS
  <2>2. IsFiniteSet(Below(d))
    BY <2>1, FS_Interval, 0 \in Int
  <2>3. QED BY <2>1, <2>2 DEF FiniteSubsetsOf
<1>2. PICK d \in S : \A e \in S : ~ (<<Below(e), Below(d)>> \in StrictSubsetOrdering(Nat))
  <2>1. T \subseteq FiniteSubsetsOf(Nat) /\ T # {}
    BY <1>1
  <2> HIDE DEF Below
  <2>2. PICK x \in T : \A y \in T : ~ (<<y, x>> \in StrictSubsetOrdering(Nat))
    BY <2>1, FS_StrictSubsetOrderingWellFounded, WFMin
  <2>3. QED BY <2>2
<1>3. ASSUME NEW e \in S, h.span[e].base < h.span[d].base
      PROVE  FALSE
  <2>1. /\ Below(e) \subseteq Nat /\ Below(d) \subseteq Nat
        /\ Below(e) \subseteq Below(d)
        /\ h.span[e].base \in Below(d) /\ h.span[e].base \notin Below(e)
    BY <1>3
  <2>2. <<Below(e), Below(d)>> \in StrictSubsetOrdering(Nat)
    BY <2>1 DEF StrictSubsetOrdering
  <2>3. QED BY <1>2, <2>2
<1>4. QED BY <1>3

LEMMA MinPair ==
  ASSUME NEW i \in Nat, NEW j \in Nat
  PROVE  Min({i, j}) = IF i <= j THEN i ELSE j
  BY DEF Min

-----------------------------------------------------------------------------
(* The page heap.                                                           *)

LEMMA SpanTypes ==
  ASSUME NEW h, NEW b, Part(h, b), NEW d \in Descs
  PROVE  /\ h.span[d] \in Spans /\ h.span[d].base \in Nat /\ h.span[d].np \in Nat
         /\ h.span[d].scav \in BOOLEAN /\ End(h, d) = h.span[d].base + h.span[d].np
         /\ End(h, d) \in Nat
<1>1. h.span \in [Descs -> Spans]
  BY DEF Part
<1>2. h.span[d] \in Spans
  BY <1>1
<1>3. h.span[d].base \in Nat /\ h.span[d].np \in Nat /\ h.span[d].scav \in BOOLEAN
  BY <1>2, HeapAssumption DEF Spans, Pages
<1>4. QED BY <1>2, <1>3 DEF End

\* Merging a free span with its free neighbour keeps the partition, and takes
\* from the neighbours of the result only what the other span bordered on.
LEMMA MergeStep ==
  ASSUME NEW b \in 0 .. NPages, NEW h, Part(h, b), NEW s \in Free(h),
         NEW o \in Free(h), s # o,
         End(h, o) = h.span[s].base \/ End(h, s) = h.span[o].base,
         NEW g, g = Merge(h, s, o)
  PROVE  /\ Part(g, b) /\ Free(g) = Free(h) \ {o} /\ SameInUse(h, g)
         /\ \A d \in Free(g) \ {s} : g.span[d] = h.span[d]
         /\ g.span[s].scav = h.span[s].scav
         /\ g.span[s].base = IF End(h, o) = h.span[s].base THEN h.span[o].base
                                                          ELSE h.span[s].base
         /\ End(g, s) = IF End(h, o) = h.span[s].base THEN End(h, s) ELSE End(h, o)
<1> DEFINE lo == IF End(h, o) = h.span[s].base THEN h.span[o].base ELSE h.span[s].base
           hi == IF End(h, o) = h.span[s].base THEN End(h, s) ELSE End(h, o)
           r  == [h.span[s] EXCEPT !.base = Min({@, h.span[o].base}),
                                   !.np = @ + h.span[o].np, !.nz = @ \/ h.span[o].nz]
           k  == [Blank EXCEPT !.sid = h.span[o].sid, !.oldid = h.span[o].oldid,
                               !.dirty = h.span[o].dirty]
<1>1. /\ s \in Descs /\ o \in Descs /\ s \in Live(h) /\ o \in Live(h)
      /\ h.span[s].st = "free" /\ h.span[o].st = "free"
  BY DEF Free, Live
<1>2. /\ h = [span |-> h.span, pool |-> h.pool]
      /\ h.span \in [Descs -> Spans] /\ h.pool \in Seq(Descs)
      /\ IsInjective(h.pool) /\ Range(h.pool) = Descs \ Live(h)
  BY DEF Part
<1>3. /\ h.span[s] \in Spans /\ h.span[s].base \in Nat /\ h.span[s].np \in Nat
      /\ End(h, s) = h.span[s].base + h.span[s].np
      /\ h.span[o] \in Spans /\ h.span[o].base \in Nat /\ h.span[o].np \in Nat
      /\ End(h, o) = h.span[o].base + h.span[o].np
  BY <1>1, SpanTypes
<1>4. /\ h.span[s].np > 0 /\ End(h, s) <= b /\ h.span[o].np > 0 /\ End(h, o) <= b
      /\ ~h.span[s].dirty /\ ~h.span[o].dirty
  BY <1>1 DEF Part, InUse
<1>5. /\ g.pool = <<o>> \o h.pool
      /\ g = [span |-> g.span, pool |-> g.pool]
      /\ g.span = [h.span EXCEPT ![s] = r, ![o] = k]
  BY <1>1, <1>2 DEF Merge, Release
<1>6. /\ g.span[s] = r /\ g.span[o] = k
      /\ \A d \in Descs \ {s, o} : g.span[d] = h.span[d]
  BY <1>1, <1>2, <1>5
<1>7. /\ Min({h.span[s].base, h.span[o].base}) = lo
      /\ lo \in Nat /\ h.span[s].np + h.span[o].np = hi - lo
      /\ hi \in Nat /\ hi <= b /\ lo < hi
  BY <1>3, <1>4, MinPair
<1>8. r \in Spans /\ r.base = lo /\ r.np = hi - lo
      /\ r.st = "free" /\ ~r.dirty /\ r.scav = h.span[s].scav
  <2>1. lo \in Pages /\ hi - lo \in 0 .. NPages
    BY <1>7, HeapAssumption DEF Pages
  <2>2. (h.span[s].nz \/ h.span[o].nz) \in BOOLEAN
    OBVIOUS
  <2>3. r = [h.span[s] EXCEPT !.base = lo, !.np = hi - lo,
                              !.nz = h.span[s].nz \/ h.span[o].nz]
    BY <1>3, <1>7
  <2> HIDE DEF r, lo, hi
  <2>4. QED BY <1>1, <1>3, <1>4, <2>1, <2>2, <2>3 DEF Spans
<1>9. k \in Spans /\ k.st = "pool" /\ ~k.dirty
  <2>1. Blank \in Spans /\ Blank.st = "pool"
    <3>1. /\ 0 \in Pages /\ 0 \in 0 .. NPages /\ RUNTIME \in Ids
          /\ NoObjs \in [n : 0 .. NElems, of : SUBSET Ids]
      BY HeapAssumption DEF Pages, Ids, NoObjs
    <3>2. QED BY <3>1 DEF Blank, Spans
  <2> HIDE DEF Blank
  <2>2. /\ h.span[o].sid \in Ids /\ h.span[o].oldid \in Ids /\ h.span[o].dirty \in BOOLEAN
    BY <1>3 DEF Spans
  <2>3. QED BY <1>4, <2>1, <2>2 DEF Spans
<1>10. g.span \in [Descs -> Spans]
  BY <1>2, <1>5, <1>8, <1>9
<1>11. Free(g) = Free(h) \ {o} /\ InUse(g) = InUse(h) /\ Live(g) = Live(h) \ {o}
  <2> HIDE DEF r, k
  <2>1. g.span[s].st = "free" /\ g.span[o].st = "pool"
    BY <1>6, <1>8, <1>9
  <2>2. \A d \in Descs : d # o => (g.span[d].st = h.span[d].st)
    BY <1>1, <1>6, <2>1
  <2>3. QED BY <1>1, <2>1, <2>2 DEF Free, InUse, Live
<1>12. /\ g.span[s].base = lo /\ End(g, s) = hi
       /\ \A d \in Descs \ {s, o} : End(g, d) = End(h, d)
  BY <1>6, <1>7, <1>8 DEF End
<1>13. g.pool \in Seq(Descs) /\ IsInjective(g.pool) /\ Range(g.pool) = Descs \ Live(g)
  BY <1>1, <1>2, <1>5, <1>11, PushPool
<1>14. \A d \in Live(g) : g.span[d].np > 0 /\ End(g, d) <= b
  <2> SUFFICES ASSUME NEW d \in Live(g) PROVE g.span[d].np > 0 /\ End(g, d) <= b
    OBVIOUS
  <2>1. CASE d = s
    BY <2>1, <1>6, <1>7, <1>8, <1>12
  <2>2. CASE d # s
    BY <2>2, <1>6, <1>11, <1>12 DEF Part, Live, Free, InUse
  <2>3. QED BY <2>1, <2>2
<1>15. \A d, e \in Live(h) :
         d # e => End(h, d) <= h.span[e].base \/ End(h, e) <= h.span[d].base
  BY DEF Part
<1>16. \A d \in Live(g) \ {s} : End(g, d) <= lo \/ hi <= g.span[d].base
  <2> SUFFICES ASSUME NEW d \in Live(g) \ {s}
               PROVE  End(h, d) <= lo \/ hi <= h.span[d].base
    BY <1>6, <1>11, <1>12 DEF Live, Free, InUse
  <2>1. d \in Live(h) /\ d # s /\ d # o /\ d \in Descs
    BY <1>11 DEF Live, Free, InUse
  <2>2. /\ h.span[d].base \in Nat /\ End(h, d) = h.span[d].base + h.span[d].np
        /\ h.span[d].np \in Nat /\ h.span[d].np > 0
    BY <2>1, SpanTypes DEF Part
  <2>3. /\ End(h, d) <= h.span[s].base \/ End(h, s) <= h.span[d].base
        /\ End(h, d) <= h.span[o].base \/ End(h, o) <= h.span[d].base
    BY <1>1, <1>15, <2>1
  <2>4. QED BY <1>3, <1>4, <2>2, <2>3
<1>17. \A d, e \in Live(g) :
         d # e => End(g, d) <= g.span[e].base \/ End(g, e) <= g.span[d].base
  <2> SUFFICES ASSUME NEW d \in Live(g), NEW e \in Live(g), d # e
               PROVE  End(g, d) <= g.span[e].base \/ End(g, e) <= g.span[d].base
    OBVIOUS
  <2>1. CASE d = s
    BY <2>1, <1>12, <1>16
  <2>2. CASE e = s
    BY <2>2, <1>12, <1>16
  <2>3. CASE d # s /\ e # s
    BY <2>3, <1>6, <1>11, <1>12, <1>15 DEF Live, Free, InUse
  <2>4. QED BY <2>1, <2>2, <2>3
<1>18. ASSUME NEW p \in 0 .. b - 1
       PROVE  \E d \in Live(g) : g.span[d].base <= p /\ p < End(g, d)
  <2>1. PICK d \in Live(h) : h.span[d].base <= p /\ p < End(h, d)
    BY DEF Part
  <2>2. CASE d \in {s, o}
    <3>1. lo <= p /\ p < hi
      BY <2>1, <2>2, <1>3, <1>4
    <3>2. s \in Live(g)
      BY <1>1, <1>11
    <3>3. QED BY <3>1, <3>2, <1>12
  <2>3. CASE d \notin {s, o}
    BY <2>1, <2>3, <1>6, <1>11, <1>12 DEF Live, Free, InUse
  <2>4. QED BY <2>2, <2>3
<1>19. \A d \in Descs \ InUse(g) : ~g.span[d].dirty
  <2> SUFFICES ASSUME NEW d \in Descs \ InUse(h) PROVE ~g.span[d].dirty
    BY <1>11
  <2>1. ~h.span[d].dirty
    BY DEF Part
  <2>2. QED BY <2>1, <1>6, <1>8, <1>9
<1>20. Part(g, b)
  BY <1>5, <1>10, <1>13, <1>14, <1>17, <1>18, <1>19 DEF Part
<1>21. SameInUse(h, g)
  BY <1>1, <1>6, <1>11 DEF SameInUse, InUse
<1>22. \A d \in Free(g) \ {s} : g.span[d] = h.span[d]
  BY <1>6, <1>11 DEF Free
<1>23. QED BY <1>6, <1>8, <1>11, <1>12, <1>20, <1>21, <1>22

LEMMA SameInUseTransitive ==
  ASSUME NEW h, NEW g, NEW k, SameInUse(h, g), SameInUse(g, k)
  PROVE  SameInUse(h, k)
  BY DEF SameInUse

\* coalesce: a free span among spans that are apart merges with its neighbours
\* on both sides, and then all are apart.
LEMMA CoalesceKeeps ==
  ASSUME NEW b \in 0 .. NPages, NEW h, Part(h, b), NEW s \in Free(h), Apart(h, {s}),
         NEW g, g = Coalesce(h, s)
  PROVE  /\ Part(g, b) /\ Apart(g, {}) /\ SameInUse(h, g) /\ s \in Free(g)
         /\ g.span[s].np >= h.span[s].np
<1> DEFINE Mergeable(k) == {o \in Free(k) \ {s} : k.span[o].scav = k.span[s].scav}
           Before(k) == {o \in Mergeable(k) : End(k, o) = k.span[s].base}
           After(k) == {o \in Mergeable(k) : k.span[o].base = End(k, s)}
           h1 == MergeAny(h, s, Before(h))
<1>1. g = MergeAny(h1, s, After(h1))
  BY DEF Coalesce
<1>2. \A k : Free(k) \subseteq Descs /\ Free(k) \subseteq Live(k)
  BY DEF Free, Live
<1>3. /\ Part(h1, b) /\ Apart(h1, {s}) /\ SameInUse(h, h1) /\ s \in Free(h1)
      /\ h1.span[s].np >= h.span[s].np
      /\ \A e \in Free(h1) \ {s} :
           End(h1, e) = h1.span[s].base => h1.span[e].scav # h1.span[s].scav
  <2>1. CASE Before(h) = {}
    <3>1. h1 = h
      BY <2>1 DEF MergeAny
    <3>2. SameInUse(h, h)
      BY DEF SameInUse
    <3>3. h.span[s].np \in Nat
      BY <1>2, SpanTypes
    <3>4. \A e \in Free(h) \ {s} :
            End(h, e) = h.span[s].base => h.span[e].scav # h.span[s].scav
      BY <2>1
    <3> HIDE DEF h1
    <3>5. QED BY <3>1, <3>2, <3>3, <3>4
  <2>2. CASE Before(h) # {}
    <3> DEFINE o == CHOOSE o \in Before(h) : TRUE
    <3>1. o \in Before(h) /\ h1 = Merge(h, s, o)
      BY <2>2 DEF MergeAny
    <3> HIDE DEF o, h1
    <3>2. /\ o \in Free(h) /\ o # s /\ End(h, o) = h.span[s].base
          /\ h.span[o].scav = h.span[s].scav
      BY <3>1
    <3>3. /\ Part(h1, b) /\ Free(h1) = Free(h) \ {o} /\ SameInUse(h, h1)
          /\ \A d \in Free(h1) \ {s} : h1.span[d] = h.span[d]
          /\ h1.span[s].scav = h.span[s].scav
          /\ h1.span[s].base = h.span[o].base /\ End(h1, s) = End(h, s)
      BY <3>1, <3>2, MergeStep
    <3>4. \A d \in Free(h1) \ {s} : End(h1, d) = End(h, d)
      BY <3>3 DEF End
    <3>5. Apart(h1, {s})
      BY <3>3, <3>4 DEF Apart
    <3>6. ASSUME NEW e \in Free(h1) \ {s}, End(h1, e) = h1.span[s].base
          PROVE  h1.span[e].scav # h1.span[s].scav
      <4>1. e \in Free(h) \ {s} /\ o \in Free(h) \ {s} /\ End(h, e) = h.span[o].base
        BY <3>2, <3>3, <3>4, <3>6
      <4>2. h.span[e].scav # h.span[o].scav
        BY <4>1 DEF Apart
      <4>3. QED BY <4>2, <3>2, <3>3, <3>6
    <3>7. h1.span[s].np >= h.span[s].np
      <4>1. /\ h.span[s].base \in Nat /\ h.span[s].np \in Nat /\ h.span[o].np \in Nat
            /\ h.span[o].base \in Nat /\ End(h, s) = h.span[s].base + h.span[s].np
            /\ End(h, o) = h.span[o].base + h.span[o].np
        BY <1>2, <3>2, SpanTypes
      <4>2. /\ h1.span[s].np \in Nat /\ h1.span[s].base \in Nat
            /\ End(h1, s) = h1.span[s].base + h1.span[s].np
        BY <1>2, <3>2, <3>3, SpanTypes
      <4>3. QED BY <3>2, <3>3, <4>1, <4>2
    <3>8. s \in Free(h1)
      BY <3>2, <3>3
    <3>9. QED BY <3>3, <3>5, <3>6, <3>7, <3>8
  <2>3. QED BY <2>1, <2>2
<1> HIDE DEF h1
<1>4. CASE After(h1) = {}
  <2>1. g = h1
    BY <1>1, <1>4 DEF MergeAny
  <2>2. \A e \in Free(h1) \ {s} :
          h1.span[e].base = End(h1, s) => h1.span[e].scav # h1.span[s].scav
    BY <1>4
  <2>3. ASSUME NEW d \in Free(h1), NEW e \in Free(h1), End(h1, d) = h1.span[e].base
        PROVE  h1.span[d].scav # h1.span[e].scav
    <3>1. CASE d = s /\ e = s
      <4>1. /\ h1.span[s].np > 0 /\ End(h1, s) = h1.span[s].base + h1.span[s].np
            /\ h1.span[s].np \in Nat /\ h1.span[s].base \in Nat
        BY <1>2, <1>3, SpanTypes DEF Part
      <4>2. QED BY <2>3, <3>1, <4>1
    <3>2. QED BY <1>3, <2>2, <2>3, <3>1 DEF Apart
  <2>4. QED BY <1>3, <2>1, <2>3 DEF Apart
<1>5. CASE After(h1) # {}
  <2> DEFINE o == CHOOSE o \in After(h1) : TRUE
  <2>1. o \in After(h1) /\ g = Merge(h1, s, o)
    BY <1>1, <1>5 DEF MergeAny
  <2> HIDE DEF o
  <2>2. /\ o \in Free(h1) /\ o # s /\ h1.span[o].base = End(h1, s)
        /\ h1.span[o].scav = h1.span[s].scav
    BY <2>1
  <2>3. /\ h1.span[s].base \in Nat /\ h1.span[s].np \in Nat /\ h1.span[o].np \in Nat
        /\ h1.span[o].base \in Nat /\ End(h1, s) = h1.span[s].base + h1.span[s].np
        /\ End(h1, o) = h1.span[o].base + h1.span[o].np
    BY <1>2, <1>3, <2>2, SpanTypes
  <2>4. h1.span[s].np > 0 /\ h1.span[o].np > 0
    BY <1>2, <1>3, <2>2 DEF Part
  <2>5. End(h1, o) # h1.span[s].base
    BY <2>2, <2>3, <2>4
  <2>6. /\ Part(g, b) /\ Free(g) = Free(h1) \ {o} /\ SameInUse(h1, g)
        /\ \A d \in Free(g) \ {s} : g.span[d] = h1.span[d]
        /\ g.span[s].scav = h1.span[s].scav
        /\ g.span[s].base = h1.span[s].base /\ End(g, s) = End(h1, o)
    BY <1>3, <2>1, <2>2, <2>5, MergeStep
  <2>7. \A d \in Free(g) \ {s} : End(g, d) = End(h1, d)
    BY <2>6 DEF End
  <2>8. /\ g.span[s].np \in Nat /\ g.span[s].base \in Nat /\ s \in Free(g)
        /\ End(g, s) = g.span[s].base + g.span[s].np /\ g.span[s].np > 0
    BY <1>2, <1>3, <2>2, <2>6, SpanTypes DEF Part
  <2>9. g.span[s].np >= h1.span[s].np
    BY <2>2, <2>3, <2>6, <2>8
  <2>10. ASSUME NEW d \in Free(g), NEW e \in Free(g), End(g, d) = g.span[e].base
         PROVE  g.span[d].scav # g.span[e].scav
    <3>1. CASE d = s /\ e = s
      BY <2>8, <2>10, <3>1
    <3>2. CASE d # s /\ e = s
      BY <1>3, <2>6, <2>7, <2>10, <3>2
    <3>3. CASE d = s /\ e # s
      <4>1. e \in Free(h1) \ {s} /\ o \in Free(h1) \ {s} /\ End(h1, o) = h1.span[e].base
        BY <2>2, <2>6, <2>10, <3>3
      <4>2. h1.span[o].scav # h1.span[e].scav
        BY <1>3, <4>1 DEF Apart
      <4>3. QED BY <2>2, <2>6, <3>3, <4>2
    <3>4. CASE d # s /\ e # s
      BY <1>3, <2>6, <2>7, <2>10, <3>4 DEF Apart
    <3>5. QED BY <3>1, <3>2, <3>3, <3>4
  <2>11. SameInUse(h, g)
    BY <1>3, <2>6, SameInUseTransitive
  <2>12. h.span[s].np \in Nat /\ h1.span[s].np >= h.span[s].np
    BY <1>2, <1>3, SpanTypes
  <2>13. g.span[s].np >= h.span[s].np
    BY <2>3, <2>8, <2>9, <2>12
  <2>14. QED BY <2>6, <2>8, <2>10, <2>11, <2>13 DEF Apart
<1>6. QED BY <1>4, <1>5

\* A heap whose live spans have the extents they had is partitioned as before.
LEMMA SameExtents ==
  ASSUME NEW b, NEW h, Part(h, b),
         NEW g, g = [span |-> g.span, pool |-> h.pool],
         g.span \in [Descs -> Spans], Live(g) = Live(h),
         \A d \in Descs : g.span[d].base = h.span[d].base /\ g.span[d].np = h.span[d].np,
         \A d \in Descs \ InUse(g) : ~g.span[d].dirty
  PROVE  Part(g, b)
<1>1. g.pool = h.pool
  OBVIOUS
<1>2. h.pool \in Seq(Descs) /\ IsInjective(h.pool) /\ Range(h.pool) = Descs \ Live(g)
  BY DEF Part
<1>3. /\ \A d \in Descs : End(g, d) = End(h, d)
      /\ \A d \in Live(g) : d \in Descs
  BY DEF End, Live, Free, InUse
<1>4. /\ \A d \in Live(g) : g.span[d].np > 0 /\ End(g, d) <= b
      /\ \A d, e \in Live(g) :
           d # e => End(g, d) <= g.span[e].base \/ End(g, e) <= g.span[d].base
      /\ \A p \in 0 .. b - 1 : \E d \in Live(g) : g.span[d].base <= p /\ p < End(g, d)
  BY <1>3 DEF Part
<1>5. QED BY <1>1, <1>2, <1>4 DEF Part

\* There are as many descriptors as pages: one is left whenever some page has no
\* span or some span has two pages.
LEMMA PoolNotEmpty ==
  ASSUME NEW b \in 0 .. NPages, NEW h, Part(h, b),
         b < NPages \/ \E d \in Live(h) : h.span[d].np > 1
  PROVE  h.pool # <<>> /\ h.pool \in Seq(Descs)
<1> SUFFICES ASSUME h.pool = <<>> PROVE FALSE
  BY DEF Part
<1>1. Range(h.pool) = {}
  BY DEF Range
<1>2. Live(h) = Descs
  BY <1>1 DEF Part, Live, Free, InUse
<1> DEFINE f == [d \in Descs |-> h.span[d].base]
<1>3. \A d \in Descs : /\ h.span[d].base \in Nat /\ h.span[d].np \in Nat
                       /\ End(h, d) = h.span[d].base + h.span[d].np
                       /\ h.span[d].np > 0 /\ End(h, d) <= b
  BY <1>2, SpanTypes DEF Part
<1>4. \A d, e \in Descs : d # e => End(h, d) <= f[e] \/ End(h, e) <= f[d]
  BY <1>2 DEF Part
<1>5. /\ IsFiniteSet(0 .. b - 1) /\ Cardinality(0 .. b - 1) = b
  BY FS_Interval, 0 \in Int, b - 1 \in Int
<1>6. CASE b < NPages
  <2>1. f \in Injection(Descs, 0 .. b - 1)
    BY <1>3, <1>4 DEF Injection, IsInjective
  <2>2. Cardinality(Descs) <= b
    BY <1>5, <2>1, FS_Injection
  <2>3. Cardinality(Descs) \in Nat
    BY HeapAssumption, FS_CardinalityType
  <2>4. QED BY <1>6, <2>2, <2>3, HeapAssumption
<1>7. CASE \E d \in Live(h) : h.span[d].np > 1
  <2>1. PICK x \in Descs : h.span[x].np > 1
    BY <1>2, <1>7
  <2> DEFINE T == (0 .. b - 1) \ {h.span[x].base + 1}
  <2>2. h.span[x].base + 1 \in 0 .. b - 1
    BY <1>3, <2>1
  <2>3. IsFiniteSet(T) /\ Cardinality(T) = b - 1
    <3> DEFINE I == 0 .. b - 1
               i == h.span[x].base + 1
    <3>1. IsFiniteSet(I) /\ Cardinality(I) = b /\ i \in I /\ T = I \ {i}
      BY <1>5, <2>2
    <3> HIDE DEF I, i, T
    <3>2. QED BY <3>1, FS_RemoveElement
  <2>4. ASSUME NEW d \in Descs PROVE f[d] \in T
    <3>1. f[d] # h.span[x].base + 1
      <4>1. CASE d = x
        BY <1>3, <4>1
      <4>2. CASE d # x
        <5>1. End(h, d) <= f[x] \/ End(h, x) <= f[d]
          BY <1>4, <4>2
        <5>2. QED BY <1>3, <2>1, <5>1
      <4>3. QED BY <4>1, <4>2
    <3>2. QED BY <1>3, <3>1
  <2>5. f \in Injection(Descs, T)
    <3>1. f \in [Descs -> T]
      BY <2>4
    <3>2. IsInjective(f)
      BY <1>3, <1>4 DEF IsInjective
    <3>3. QED BY <3>1, <3>2 DEF Injection
  <2> HIDE DEF T, f
  <2>6. Cardinality(Descs) <= b - 1
    BY <2>3, <2>5, FS_Injection
  <2>7. Cardinality(Descs) \in Nat
    BY HeapAssumption, FS_CardinalityType
  <2>8. QED BY <2>6, <2>7, HeapAssumption
<1>8. QED BY <1>6, <1>7

\* A descriptor of the list gets a part of the extent of a free span: what split
\* and scavengeLocked do to the partition.
Cut(h, g, s, e, lo, hi) ==
  /\ s \in Free(h) /\ h.pool # <<>> /\ e = Head(h.pool)
  /\ g = [span |-> g.span, pool |-> Tail(h.pool)]
  /\ g.span \in [Descs -> Spans]
  /\ \A d \in Descs \ {s, e} : g.span[d] = h.span[d]
  /\ lo > 0 /\ hi > 0 /\ lo + hi = h.span[s].np
  /\ \/ /\ g.span[s].base = h.span[s].base + lo /\ g.span[s].np = hi
        /\ g.span[e].base = h.span[s].base /\ g.span[e].np = lo
     \/ /\ g.span[s].base = h.span[s].base /\ g.span[s].np = lo
        /\ g.span[e].base = h.span[s].base + lo /\ g.span[e].np = hi
  /\ g.span[s].st = "free" /\ g.span[e].st \in {"free", "inuse"}
  /\ ~g.span[s].dirty /\ ~g.span[e].dirty /\ g.span[s].scav = h.span[s].scav

LEMMA CutKeeps ==
  ASSUME NEW b \in 0 .. NPages, NEW h, Part(h, b), Apart(h, {}),
         NEW g, NEW s, NEW e, NEW lo \in Nat, NEW hi \in Nat, Cut(h, g, s, e, lo, hi)
  PROVE  /\ Part(g, b) /\ Apart(g, {e})
         /\ e \in Descs \ Live(h) /\ Live(g) = Live(h) \cup {e}
<1>1. /\ h.pool \in Seq(Descs) /\ IsInjective(h.pool)
      /\ Range(h.pool) = Descs \ Live(h)
  BY DEF Part
<1>2. /\ e \in Descs \ Live(h) /\ g.pool \in Seq(Descs) /\ IsInjective(g.pool)
      /\ Range(g.pool) = Range(h.pool) \ {e}
  <2>1. h.pool # <<>> /\ e = Head(h.pool) /\ g.pool = Tail(h.pool)
    BY DEF Cut
  <2>2. QED BY <1>1, <2>1, PopPool
<1>3. /\ s \in Descs /\ s \in Live(h) /\ s # e
  BY <1>2 DEF Cut, Free, Live
<1>4. /\ g.span[s].st = "free" /\ g.span[e].st \in {"free", "inuse"}
      /\ \A d \in Descs \ {s, e} : g.span[d] = h.span[d] /\ End(g, d) = End(h, d)
      /\ h.span[s].st = "free" /\ h.span[e].st \notin {"free", "inuse"}
  BY <1>2 DEF Cut, End, Free, Live, InUse
<1>5. /\ Live(g) = Live(h) \cup {e} /\ Free(g) \subseteq Free(h) \cup {e}
      /\ InUse(g) \ {e} = InUse(h)
  BY <1>2, <1>3, <1>4 DEF Live, Free, InUse
<1>6. /\ h.span[s].base \in Nat /\ h.span[s].np \in Nat /\ h.span[s].np > 0
      /\ End(h, s) = h.span[s].base + h.span[s].np /\ End(h, s) <= b
  BY <1>3, SpanTypes DEF Part
<1>7. /\ lo > 0 /\ hi > 0 /\ lo + hi = h.span[s].np
      /\ \/ /\ g.span[s].base = h.span[s].base + lo /\ g.span[s].np = hi
            /\ g.span[e].base = h.span[s].base /\ g.span[e].np = lo
         \/ /\ g.span[s].base = h.span[s].base /\ g.span[s].np = lo
            /\ g.span[e].base = h.span[s].base + lo /\ g.span[e].np = hi
      /\ End(g, s) = g.span[s].base + g.span[s].np
      /\ End(g, e) = g.span[e].base + g.span[e].np
  BY DEF Cut, End
<1>8. /\ End(g, s) <= End(h, s) /\ End(g, e) <= End(h, s)
      /\ h.span[s].base <= g.span[s].base /\ h.span[s].base <= g.span[e].base
      /\ g.span[s].np > 0 /\ g.span[e].np > 0
      /\ End(g, s) <= g.span[e].base \/ End(g, e) <= g.span[s].base
      /\ End(g, s) = g.span[e].base \/ End(g, s) = End(h, s)
      /\ g.span[s].base \in Nat /\ g.span[e].base \in Nat
      /\ End(g, s) \in Nat /\ End(g, e) \in Nat
  BY <1>6, <1>7
<1>9. \A d \in Live(h) \ {s} :
        /\ d \in Descs \ {s, e}
        /\ h.span[d].base \in Nat /\ End(h, d) \in Nat /\ h.span[d].base < End(h, d)
        /\ End(h, d) <= h.span[s].base \/ End(h, s) <= h.span[d].base
  <2> SUFFICES ASSUME NEW d \in Live(h) \ {s}
               PROVE  /\ d \in Descs \ {s, e}
                      /\ h.span[d].base \in Nat /\ End(h, d) \in Nat
                      /\ h.span[d].base < End(h, d)
                      /\ End(h, d) <= h.span[s].base \/ End(h, s) <= h.span[d].base
    OBVIOUS
  <2>1. d \in Descs \ {s, e}
    BY <1>2 DEF Live, Free, InUse
  <2>2. h.span[d].np > 0
    BY DEF Part
  <2>3. End(h, d) <= h.span[s].base \/ End(h, s) <= h.span[d].base
    BY <1>3 DEF Part
  <2>4. /\ h.span[d].base \in Nat /\ h.span[d].np \in Nat /\ End(h, d) \in Nat
        /\ End(h, d) = h.span[d].base + h.span[d].np
    BY <2>1, SpanTypes
  <2>5. QED BY <2>1, <2>2, <2>3, <2>4
<1>10. \A d \in Live(g) : g.span[d].np > 0 /\ End(g, d) <= b
  <2> SUFFICES ASSUME NEW d \in Live(g) PROVE g.span[d].np > 0 /\ End(g, d) <= b
    OBVIOUS
  <2>1. CASE d \in {s, e}
    BY <2>1, <1>6, <1>8
  <2>2. CASE d \notin {s, e}
    BY <2>2, <1>4, <1>5, <1>9 DEF Part
  <2>3. QED BY <2>1, <2>2
<1>11. ASSUME NEW c \in Live(g), NEW d \in Live(g), c # d
       PROVE  End(g, c) <= g.span[d].base \/ End(g, d) <= g.span[c].base
  <2>1. CASE c \in {s, e} /\ d \in {s, e}
    BY <2>1, <1>8, <1>11
  <2>2. CASE c \in {s, e} /\ d \notin {s, e}
    <3>1. d \in Live(h) \ {s} /\ g.span[d] = h.span[d] /\ End(g, d) = End(h, d)
      BY <2>2, <1>4, <1>5, <1>9
    <3>2. QED BY <2>2, <3>1, <1>6, <1>8, <1>9
  <2>3. CASE c \notin {s, e} /\ d \in {s, e}
    <3>1. c \in Live(h) \ {s} /\ g.span[c] = h.span[c] /\ End(g, c) = End(h, c)
      BY <2>3, <1>4, <1>5, <1>9
    <3>2. QED BY <2>3, <3>1, <1>6, <1>8, <1>9
  <2>4. CASE c \notin {s, e} /\ d \notin {s, e}
    <3>1. c \in Live(h) \ {s} /\ d \in Live(h) \ {s}
      BY <2>4, <1>5
    <3>2. /\ g.span[c] = h.span[c] /\ End(g, c) = End(h, c)
          /\ g.span[d] = h.span[d] /\ End(g, d) = End(h, d)
      BY <3>1, <1>4, <1>9
    <3>3. QED BY <3>1, <3>2, <1>11 DEF Part
  <2>5. QED BY <2>1, <2>2, <2>3, <2>4
<1>12. ASSUME NEW p \in 0 .. b - 1
       PROVE  \E d \in Live(g) : g.span[d].base <= p /\ p < End(g, d)
  <2>1. PICK d \in Live(h) : h.span[d].base <= p /\ p < End(h, d)
    BY DEF Part
  <2>2. CASE d = s
    <3>1. \/ g.span[s].base <= p /\ p < End(g, s)
          \/ g.span[e].base <= p /\ p < End(g, e)
      BY <2>1, <2>2, <1>6, <1>7
    <3>2. QED BY <3>1, <1>3, <1>5
  <2>3. CASE d # s
    BY <2>1, <2>3, <1>4, <1>5, <1>9
  <2>4. QED BY <2>2, <2>3
<1>13. \A d \in Descs \ InUse(g) : ~g.span[d].dirty
  <2> SUFFICES ASSUME NEW d \in Descs \ InUse(g) PROVE ~g.span[d].dirty
    OBVIOUS
  <2>1. CASE d \in {s, e}
    BY <2>1 DEF Cut
  <2>2. CASE d \notin {s, e}
    BY <2>2, <1>4, <1>5 DEF Part
  <2>3. QED BY <2>1, <2>2
<1>14. Part(g, b)
  <2>1. g = [span |-> g.span, pool |-> g.pool] /\ g.span \in [Descs -> Spans]
    BY DEF Cut
  <2>2. Range(g.pool) = Descs \ Live(g)
    BY <1>1, <1>2, <1>5
  <2>3. g \in [span : [Descs -> Spans], pool : Seq(Descs)]
    BY <1>2, <2>1
  <2>4. QED BY <1>2, <1>10, <1>11, <1>12, <1>13, <2>2, <2>3 DEF Part
<1>15. Apart(g, {e})
  <2> SUFFICES ASSUME NEW c \in Free(g) \ {e}, NEW d \in Free(g) \ {e},
                      End(g, c) = g.span[d].base
               PROVE  g.span[c].scav # g.span[d].scav
    BY DEF Apart
  <2>1. /\ c \in Free(h) /\ d \in Free(h)
        /\ c \in Live(h) /\ d \in Live(h) /\ c \in Descs /\ d \in Descs
    BY <1>5 DEF Free, Live
  <2>2. g.span[c].scav = h.span[c].scav /\ g.span[d].scav = h.span[d].scav
    BY <2>1, <1>4 DEF Cut
  <2>3. End(h, c) = h.span[d].base
    <3>1. CASE c = s /\ d = s
      BY <3>1, <1>8, <1>7
    <3>2. CASE c = s /\ d # s
      <4>1. g.span[d] = h.span[d] /\ d \in Live(h) \ {s}
        BY <2>1, <3>2, <1>4
      <4>2. End(g, s) = h.span[d].base
        BY <3>2, <4>1
      <4>3. g.span[e].base # h.span[d].base
        <5>1. e \in Live(g) /\ d \in Live(g) /\ d # e
          BY <1>5, <2>1
        <5>2. End(g, e) <= h.span[d].base \/ End(h, d) <= g.span[e].base
          BY <5>1, <4>1, <1>4, <1>11, <2>1
        <5>3. QED BY <5>2, <4>1, <1>7, <1>8, <1>9
      <4>4. QED BY <3>2, <4>2, <4>3, <1>8
    <3>3. CASE c # s /\ d = s
      <4>1. End(g, c) = End(h, c) /\ c \in Live(h) \ {s}
        BY <2>1, <3>3, <1>4
      <4>2. End(h, c) = g.span[s].base
        BY <3>3, <4>1
      <4>3. g.span[s].base <= End(h, s) /\ g.span[s].base < End(h, s)
        BY <1>6, <1>7
      <4>4. QED BY <3>3, <4>1, <4>2, <4>3, <1>6, <1>8, <1>9
    <3>4. CASE c # s /\ d # s
      BY <2>1, <3>4, <1>4
    <3>5. QED BY <3>1, <3>2, <3>3, <3>4
  <2>4. QED BY <2>1, <2>2, <2>3 DEF Apart
<1>16. QED BY <1>2, <1>5, <1>14, <1>15

LEMMA FreeIsDescs == \A h : Free(h) \subseteq Descs /\ InUse(h) \subseteq Descs
                            /\ Live(h) \subseteq Descs
  BY DEF Free, InUse, Live

\* growAddSpan: the arena is partitioned up to its new end, and has a span that
\* is large enough.
LEMMA GrowKeeps ==
  ASSUME Part(heap, brk), Apart(heap, {}), brk \in 0 .. NPages,
         NEW n \in Nat \ {0}, brk + n <= NPages, NEW g, g = Grow(heap, n)
  PROVE  /\ Part(g, brk + n) /\ Apart(g, {}) /\ SameInUse(heap, g)
         /\ Fits(g, n) # {}
<1> DEFINE d == Head(heap.pool)
           r == [InitSpan(heap.span[d], brk, n) EXCEPT !.st = "free", !.scav = TRUE]
           h1 == [heap EXCEPT !.pool = Tail(@),
                   !.span[d] = [InitSpan(heap.span[d], brk, n)
                                  EXCEPT !.st = "free", !.scav = TRUE]]
<1>1. g = Coalesce(h1, d)
  BY DEF Grow
<1>2. heap.pool # <<>> /\ heap.pool \in Seq(Descs)
  <2>1. brk < NPages
    BY HeapAssumption
  <2>2. QED BY <2>1, PoolNotEmpty
<1>3. /\ heap = [span |-> heap.span, pool |-> heap.pool]
      /\ heap.span \in [Descs -> Spans]
      /\ IsInjective(heap.pool) /\ Range(heap.pool) = Descs \ Live(heap)
  BY DEF Part
<1>4. /\ d \in Descs \ Live(heap) /\ Tail(heap.pool) \in Seq(Descs)
      /\ IsInjective(Tail(heap.pool))
      /\ Range(Tail(heap.pool)) = Range(heap.pool) \ {d}
  BY <1>2, <1>3, PopPool
<1>5. ~heap.span[d].dirty
  BY <1>4 DEF Part, Live
<1>6. r \in Spans /\ r.base = brk /\ r.np = n /\ r.st = "free" /\ r.scav = TRUE
      /\ ~r.dirty
  <2>1. heap.span[d] \in Spans
    BY <1>3, <1>4
  <2>2. /\ brk \in Pages /\ n \in 0 .. NPages
        /\ NoObjs \in [n : 0 .. NElems, of : SUBSET Ids]
    BY HeapAssumption DEF Pages, Ids, NoObjs
  <2> HIDE DEF d
  <2>3. QED BY <1>5, <2>1, <2>2 DEF Spans, InitSpan
<1> HIDE DEF d
<1>7. /\ h1.pool = Tail(heap.pool) /\ h1.span = [heap.span EXCEPT ![d] = r]
      /\ h1 = [span |-> h1.span, pool |-> h1.pool]
  <2>1. h1 = [span |-> [heap.span EXCEPT ![d] = r], pool |-> Tail(heap.pool)]
    <3>1. h1 \in [span : {[heap.span EXCEPT ![d] = r]}, pool : {Tail(heap.pool)}]
      BY <1>3, <1>4
    <3> HIDE DEF h1, r
    <3>2. QED BY <3>1
  <2> HIDE DEF h1, r
  <2>2. QED BY <2>1
<1> HIDE DEF h1, r
<1>8. /\ h1.span[d] = r
      /\ \A c \in Descs \ {d} : h1.span[c] = heap.span[c] /\ End(h1, c) = End(heap, c)
      /\ h1.span \in [Descs -> Spans]
      /\ End(h1, d) = brk + n
  BY <1>3, <1>4, <1>6, <1>7 DEF End
<1>9. /\ heap.span[d].st \notin {"free", "inuse"}
      /\ Free(h1) = Free(heap) \cup {d} /\ InUse(h1) = InUse(heap)
      /\ Live(h1) = Live(heap) \cup {d}
  BY <1>4, <1>6, <1>8 DEF Live, Free, InUse
<1>10. SameInUse(heap, h1)
  BY <1>4, <1>8, <1>9, FreeIsDescs DEF SameInUse, Live
<1>11. \A c \in Live(heap) : /\ c \in Descs \ {d} /\ End(heap, c) <= brk
                             /\ heap.span[c].base \in Nat /\ heap.span[c].np > 0
                             /\ heap.span[c].np \in Nat
                             /\ End(heap, c) = heap.span[c].base + heap.span[c].np
  <2> SUFFICES ASSUME NEW c \in Live(heap)
               PROVE  /\ c \in Descs \ {d} /\ End(heap, c) <= brk
                      /\ heap.span[c].base \in Nat /\ heap.span[c].np > 0
                      /\ heap.span[c].np \in Nat
                      /\ End(heap, c) = heap.span[c].base + heap.span[c].np
    OBVIOUS
  <2>1. c \in Descs \ {d}
    BY <1>4, FreeIsDescs
  <2>2. QED BY <2>1, SpanTypes DEF Part
<1>12. Part(h1, brk + n)
  <2>1. \A c \in Live(h1) : h1.span[c].np > 0 /\ End(h1, c) <= brk + n
    <3> SUFFICES ASSUME NEW c \in Live(h1)
                 PROVE  h1.span[c].np > 0 /\ End(h1, c) <= brk + n
      OBVIOUS
    <3>1. CASE c = d
      BY <3>1, <1>6, <1>8
    <3>2. CASE c # d
      <4>1. c \in Live(heap)
        BY <3>2, <1>9
      <4>2. QED BY <4>1, <1>8, <1>11
    <3>3. QED BY <3>1, <3>2
  <2>2. \A c, e \in Live(h1) :
          c # e => End(h1, c) <= h1.span[e].base \/ End(h1, e) <= h1.span[c].base
    <3> SUFFICES ASSUME NEW c \in Live(h1), NEW e \in Live(h1), c # e
                 PROVE  End(h1, c) <= h1.span[e].base \/ End(h1, e) <= h1.span[c].base
      OBVIOUS
    <3>1. CASE c = d
      BY <3>1, <1>6, <1>8, <1>9, <1>11
    <3>2. CASE e = d
      BY <3>2, <1>6, <1>8, <1>9, <1>11
    <3>3. CASE c # d /\ e # d
      <4>1. c \in Live(heap) /\ e \in Live(heap)
        BY <3>3, <1>9
      <4>2. End(heap, c) <= heap.span[e].base \/ End(heap, e) <= heap.span[c].base
        BY <4>1 DEF Part
      <4>3. QED BY <4>1, <4>2, <1>8, <1>11
    <3>4. QED BY <3>1, <3>2, <3>3
  <2>3. ASSUME NEW p \in 0 .. brk + n - 1
        PROVE  \E c \in Live(h1) : h1.span[c].base <= p /\ p < End(h1, c)
    <3>1. CASE p < brk
      <4>1. p \in 0 .. brk - 1
        BY <3>1
      <4>2. PICK c \in Live(heap) : heap.span[c].base <= p /\ p < End(heap, c)
        BY <4>1 DEF Part
      <4>3. QED BY <4>2, <1>8, <1>9, <1>11
    <3>2. CASE ~(p < brk)
      BY <3>2, <1>6, <1>8, <1>9
    <3>3. QED BY <3>1, <3>2
  <2>4. \A c \in Descs \ InUse(h1) : ~h1.span[c].dirty
    BY <1>6, <1>8, <1>9 DEF Part
  <2>5. h1 \in [span : [Descs -> Spans], pool : Seq(Descs)]
    BY <1>4, <1>7, <1>8
  <2>6. Range(h1.pool) = Descs \ Live(h1) /\ IsInjective(h1.pool)
    BY <1>3, <1>4, <1>7, <1>9
  <2>7. QED BY <2>1, <2>2, <2>3, <2>4, <2>5, <2>6 DEF Part
<1>13. Apart(h1, {d})
  <2>1. Free(h1) \ {d} = Free(heap)
    BY <1>4, <1>9 DEF Live
  <2>2. \A c \in Free(heap) : h1.span[c] = heap.span[c] /\ End(h1, c) = End(heap, c)
    BY <1>4, <1>8, FreeIsDescs DEF Live
  <2>3. QED BY <2>1, <2>2 DEF Apart
<1>14. brk + n \in 0 .. NPages /\ d \in Free(h1)
  BY <1>9, HeapAssumption
<1>15. /\ Part(g, brk + n) /\ Apart(g, {}) /\ SameInUse(h1, g) /\ d \in Free(g)
       /\ g.span[d].np >= h1.span[d].np
  BY <1>1, <1>12, <1>13, <1>14, CoalesceKeeps
<1>16. Fits(g, n) # {}
  BY <1>6, <1>8, <1>15 DEF Fits
<1>17. QED BY <1>10, <1>15, <1>16, SameInUseTransitive

LEMMA TakeSpan ==
  ASSUME NEW T, NEW h \in [span : [Descs -> T], pool : Seq(Descs)], NEW d \in Descs
  PROVE  Take(h, d) =
           [span |-> [h.span EXCEPT ![d] = [@ EXCEPT !.st = "inuse", !.scav = FALSE]],
            pool |-> h.pool]
<1> DEFINE r == [h.span[d] EXCEPT !.st = "inuse", !.scav = FALSE]
<1>1. Take(h, d) = [h EXCEPT !.span[d] = r]
  BY DEF Take
<1> HIDE DEF r
<1>2. [h EXCEPT !.span[d] = r] \in [span : {[h.span EXCEPT ![d] = r]}, pool : {h.pool}]
  OBVIOUS
<1>3. [h EXCEPT !.span[d] = r] = [span |-> [h.span EXCEPT ![d] = r], pool |-> h.pool]
  BY <1>2
<1>4. QED BY <1>1, <1>3 DEF r

LEMMA SplitSpan ==
  ASSUME NEW h \in [span : [Descs -> Spans], pool : Seq(Descs)], NEW s \in Descs,
         NEW n \in Nat, NEW e \in Descs, e = Head(h.pool), s # e
  PROVE  Split(h, s, n) =
           [heap |-> [span |-> [h.span EXCEPT
                                  ![s] = [h.span[s] EXCEPT !.base = @ + n, !.np = @ - n],
                                  ![e] = [InitSpan(h.span[e], h.span[s].base, n)
                                            EXCEPT !.nz = h.span[s].nz]],
                      pool |-> Tail(h.pool)],
            got |-> e]
<1> DEFINE rs == [h.span[s] EXCEPT !.base = @ + n, !.np = @ - n]
           r0 == [InitSpan(h.span[e], h.span[s].base, n) EXCEPT !.nz = h.span[s].nz]
           q  == Tail(h.pool)
           k  == [h EXCEPT !.pool = q, !.span[s] = rs, !.span[e] = r0]
<1>1. Split(h, s, n) = [heap |-> k, got |-> e]
  BY DEF Split
<1>2. k \in [span : {[h.span EXCEPT ![s] = rs, ![e] = r0]}, pool : {q}]
  <2> HIDE DEF rs, r0, q
  <2>1. QED OBVIOUS
<1>3. k = [span |-> [h.span EXCEPT ![s] = rs, ![e] = r0], pool |-> q]
  <2> HIDE DEF k, rs, r0, q
  <2>1. QED BY <1>2
<1>4. QED BY <1>1, <1>3

\* alloc_m: a span that nobody used, of n pages, is in use now, and nothing of
\* the others has changed.
LEMMA AllocKeeps ==
  ASSUME Part(heap, brk), Apart(heap, {}), brk \in 0 .. NPages,
         NEW n \in Nat \ {0}, CanAlloc(n), NEW a, a = AllocSpan(n)
  PROVE  /\ a = [heap |-> a.heap, got |-> a.got]
         /\ NewBrk(n) \in 0 .. NPages
         /\ Part(a.heap, NewBrk(n)) /\ Apart(a.heap, {})
         /\ a.got \in Descs \ InUse(heap)
         /\ InUse(a.heap) = InUse(heap) \cup {a.got}
         /\ \A d \in InUse(heap) : a.heap.span[d] = heap.span[d]
         /\ ~a.heap.span[a.got].dirty
<1> DEFINE h == IF Fits(heap, n) = {} THEN Grow(heap, n) ELSE heap
           s == FirstFit(h, n)
           sp == IF h.span[s].np = n THEN [heap |-> h, got |-> s] ELSE Split(h, s, n)
<1>1. a = [heap |-> Take(sp.heap, sp.got), got |-> sp.got]
  BY DEF AllocSpan
<1>2. /\ NewBrk(n) \in 0 .. NPages /\ Part(h, NewBrk(n)) /\ Apart(h, {})
      /\ SameInUse(heap, h) /\ Fits(h, n) # {}
  <2>1. CASE Fits(heap, n) = {}
    <3>1. brk + n <= NPages /\ NewBrk(n) = brk + n
      BY <2>1 DEF CanAlloc, NewBrk
    <3>2. h = Grow(heap, n)
      BY <2>1
    <3> HIDE DEF h
    <3>3. brk + n \in 0 .. NPages
      BY <3>1, HeapAssumption
    <3>4. QED BY <3>1, <3>2, <3>3, GrowKeeps
  <2>2. CASE Fits(heap, n) # {}
    <3>1. h = heap /\ NewBrk(n) = brk
      BY <2>2 DEF NewBrk
    <3> HIDE DEF h
    <3>2. QED BY <2>2, <3>1 DEF SameInUse
  <2>3. QED BY <2>1, <2>2
<1> HIDE DEF h
<1>3. s \in Fits(h, n)
  <2>1. \A d \in Fits(h, n) : h.span[d].base \in Nat
    BY <1>2, FreeIsDescs, SpanTypes DEF Fits
  <2>2. \E d \in Fits(h, n) : \A e \in Fits(h, n) : h.span[d].base <= h.span[e].base
    BY <1>2, <2>1, LowestSpan
  <2>3. QED BY <2>2 DEF FirstFit
<1> HIDE DEF s
<1>4. /\ s \in Descs /\ h.span[s].st = "free" /\ s \in Free(h) /\ s \in Live(h)
      /\ h.span[s] \in Spans /\ h.span[s].np \in Nat /\ h.span[s].np >= n
      /\ ~h.span[s].dirty /\ s \notin InUse(h)
  <2>1. s \in Free(h) /\ h.span[s].np >= n
    BY <1>3 DEF Fits
  <2>2. s \in Descs /\ h.span[s].st = "free" /\ s \notin InUse(h)
    BY <2>1 DEF Free, InUse
  <2>3. ~h.span[s].dirty
    BY <1>2, <2>2 DEF Part
  <2>4. QED BY <1>2, <2>1, <2>2, <2>3, SpanTypes DEF Live
<1>5. /\ h = [span |-> h.span, pool |-> h.pool] /\ h.span \in [Descs -> Spans]
      /\ h.pool \in Seq(Descs)
  BY <1>2 DEF Part
<1>6. /\ InUse(h) = InUse(heap) /\ \A d \in InUse(heap) : h.span[d] = heap.span[d]
  BY <1>2 DEF SameInUse
<1>7. CASE h.span[s].np = n
  <2> DEFINE r == [h.span[s] EXCEPT !.st = "inuse", !.scav = FALSE]
  <2>1. sp = [heap |-> h, got |-> s]
    BY <1>7
  <2>2. /\ a = [heap |-> a.heap, got |-> a.got] /\ a.got = s
        /\ a.heap = [span |-> a.heap.span, pool |-> h.pool]
        /\ a.heap.span = [h.span EXCEPT ![s] = r]
    <3> HIDE DEF sp
    <3>1. a = [heap |-> Take(h, s), got |-> s]
      BY <1>1, <2>1
    <3>2. Take(h, s) = [span |-> [h.span EXCEPT ![s] = r], pool |-> h.pool]
      <4>1. h \in [span : [Descs -> Spans], pool : Seq(Descs)]
        BY <1>5
      <4>2. QED BY <1>4, <4>1, TakeSpan
    <3> HIDE DEF r
    <3>3. QED BY <3>1, <3>2
  <2>3. /\ r \in Spans /\ r.st = "inuse" /\ ~r.dirty
        /\ r.base = h.span[s].base /\ r.np = h.span[s].np
    BY <1>4 DEF Spans
  <2> HIDE DEF r, sp
  <2>4. /\ a.heap.span \in [Descs -> Spans] /\ a.heap.span[s] = r
        /\ \A d \in Descs \ {s} : a.heap.span[d] = h.span[d]
    BY <1>4, <1>5, <2>2, <2>3
  <2>5. /\ InUse(a.heap) = InUse(h) \cup {s} /\ Free(a.heap) = Free(h) \ {s}
        /\ Live(a.heap) = Live(h)
    BY <1>4, <2>3, <2>4 DEF Free, InUse, Live
  <2>6. \A d \in Descs : /\ a.heap.span[d].base = h.span[d].base
                         /\ a.heap.span[d].np = h.span[d].np
    BY <2>3, <2>4
  <2>7. \A d \in Descs \ InUse(a.heap) : ~a.heap.span[d].dirty
    BY <1>2, <2>4, <2>5 DEF Part
  <2>8. Part(a.heap, NewBrk(n))
    BY <1>2, <2>2, <2>4, <2>5, <2>6, <2>7, SameExtents
  <2>9. \A d \in Free(a.heap) : a.heap.span[d] = h.span[d] /\ End(a.heap, d) = End(h, d)
    BY <2>4, <2>5, FreeIsDescs DEF End
  <2>10. Apart(a.heap, {})
    BY <1>2, <2>5, <2>9 DEF Apart
  <2>11. \A d \in InUse(heap) : a.heap.span[d] = heap.span[d]
    BY <1>4, <1>6, <2>4, FreeIsDescs
  <2>12. QED BY <1>2, <1>4, <1>6, <2>2, <2>3, <2>4, <2>5, <2>8, <2>10, <2>11
<1>8. CASE h.span[s].np # n
  <2> DEFINE e == Head(h.pool)
             rs == [h.span[s] EXCEPT !.base = @ + n, !.np = @ - n]
             r0 == [InitSpan(h.span[e], h.span[s].base, n) EXCEPT !.nz = h.span[s].nz]
             re == [r0 EXCEPT !.st = "inuse", !.scav = FALSE]
             hi == h.span[s].np - n
  <2>1. sp = Split(h, s, n)
    BY <1>8
  <2>2. h.pool # <<>>
    <3>1. h.span[s].np > 1
      BY <1>4, <1>8
    <3>2. QED BY <1>2, <1>4, <3>1, PoolNotEmpty
  <2>3. e \in Descs \ Live(h) /\ s # e
    <3>1. IsInjective(h.pool) /\ Range(h.pool) = Descs \ Live(h)
      BY <1>2 DEF Part
    <3>2. QED BY <1>4, <1>5, <2>2, <3>1, PopPool
  <2>4. h.span[e] \in Spans /\ ~h.span[e].dirty
    BY <1>2, <1>5, <2>3 DEF Part, Live
  <2>5. /\ h.span[s].base \in Pages /\ h.span[s].base \in Nat /\ h.span[s].nz \in BOOLEAN
        /\ h.span[s].base + n \in Pages
        /\ h.span[s].np - n \in 0 .. NPages /\ n \in 0 .. NPages
        /\ NoObjs \in [n : 0 .. NElems, of : SUBSET Ids]
    <3>1. h.span[s].base \in Pages /\ h.span[s].np \in 0 .. NPages /\ h.span[s].nz \in BOOLEAN
      BY <1>4 DEF Spans
    <3>2. End(h, s) = h.span[s].base + h.span[s].np /\ End(h, s) <= NewBrk(n)
      BY <1>2, <1>4, SpanTypes DEF Part
    <3>3. QED BY <1>2, <1>4, <1>8, <3>1, <3>2, HeapAssumption DEF Pages, NoObjs
  <2>6. /\ rs \in Spans /\ rs.base = h.span[s].base + n /\ rs.np = h.span[s].np - n
        /\ rs.st = "free" /\ ~rs.dirty /\ rs.scav = h.span[s].scav
    BY <1>4, <2>5 DEF Spans
  <2>7. /\ re \in Spans /\ re.base = h.span[s].base /\ re.np = n
        /\ re.st = "inuse" /\ ~re.dirty
    <3> HIDE DEF e
    <3>1. QED BY <2>4, <2>5 DEF Spans, InitSpan
  <2> HIDE DEF e
  <2>8. /\ a = [heap |-> a.heap, got |-> a.got] /\ a.got = e
        /\ a.heap = [span |-> a.heap.span, pool |-> Tail(h.pool)]
        /\ a.heap.span = [h.span EXCEPT ![s] = rs, ![e] = re]
    <3> DEFINE k == [span |-> [h.span EXCEPT ![s] = rs, ![e] = r0], pool |-> Tail(h.pool)]
    <3>1. Split(h, s, n) = [heap |-> k, got |-> e]
      BY <1>4, <1>5, <2>3, SplitSpan DEF e
    <3> HIDE DEF k, sp
    <3>2. a = [heap |-> Take(k, e), got |-> e]
      BY <1>1, <2>1, <3>1
    <3>3. k \in [span : [Descs -> Spans \cup {r0}], pool : Seq(Descs)] /\ k.span[e] = r0
          /\ k.pool = Tail(h.pool) /\ k.span = [h.span EXCEPT ![s] = rs, ![e] = r0]
      <4>1. Tail(h.pool) \in Seq(Descs)
        BY <1>5, <2>2, HeadTailProperties
      <4> HIDE DEF rs, r0
      <4>2. QED BY <1>4, <1>5, <2>3, <2>6, <4>1 DEF k
    <3>4. Take(k, e) = [span |-> [k.span EXCEPT ![e] = re], pool |-> Tail(h.pool)]
      <4> HIDE DEF r0
      <4>1. e \in Descs
        BY <2>3
      <4>2. Take(k, e) = [span |-> [k.span EXCEPT ![e] = [@ EXCEPT !.st = "inuse",
                                                                   !.scav = FALSE]],
                          pool |-> k.pool]
        BY <3>3, <4>1, TakeSpan
      <4>3. QED BY <3>3, <4>2
    <3> HIDE DEF re
    <3> DEFINE f == [h.span EXCEPT ![s] = rs, ![e] = re]
               q == Tail(h.pool)
    <3>5. [k.span EXCEPT ![e] = re] = f
      BY <1>4, <1>5, <2>3, <3>3
    <3>6. Take(k, e) = [span |-> f, pool |-> q]
      BY <3>4, <3>5
    <3> HIDE DEF f, q
    <3>7. /\ a = [heap |-> a.heap, got |-> a.got] /\ a.got = e
          /\ a.heap = [span |-> f, pool |-> q]
      BY <3>2, <3>6
    <3>8. a.heap.span = f /\ a.heap = [span |-> a.heap.span, pool |-> q]
      BY <3>7
    <3>9. QED BY <3>7, <3>8 DEF f, q
  <2> HIDE DEF rs, re
  <2>10. /\ a.heap.span \in [Descs -> Spans]
         /\ a.heap.span[s] = rs /\ a.heap.span[e] = re
         /\ \A d \in Descs \ {s, e} : a.heap.span[d] = h.span[d]
    BY <1>4, <1>5, <2>3, <2>6, <2>7, <2>8
  <2>11. Cut(h, a.heap, s, e, n, hi) /\ hi \in Nat
    <3>1. hi > 0 /\ n > 0 /\ n + hi = h.span[s].np /\ hi \in Nat
      BY <1>4, <1>8
    <3>2. QED BY <1>4, <2>2, <2>6, <2>7, <2>8, <2>10, <3>1 DEF Cut, e
  <2> HIDE DEF hi
  <2>12. /\ Part(a.heap, NewBrk(n)) /\ Apart(a.heap, {e})
         /\ Live(a.heap) = Live(h) \cup {e}
    <3>1. n \in Nat /\ NewBrk(n) \in 0 .. NPages /\ Part(h, NewBrk(n)) /\ Apart(h, {})
      BY <1>2
    <3>2. QED BY <2>11, <3>1, CutKeeps
  <2>13. InUse(a.heap) = InUse(h) \cup {e} /\ e \notin Free(a.heap)
    BY <1>4, <2>3, <2>6, <2>7, <2>10 DEF InUse, Free, Live
  <2>14. Apart(a.heap, {})
    BY <2>12, <2>13 DEF Apart
  <2>15. \A d \in InUse(heap) : a.heap.span[d] = heap.span[d]
    BY <1>4, <1>6, <2>3, <2>10, FreeIsDescs DEF Live
  <2>16. e \notin InUse(heap)
    BY <1>6, <2>3 DEF Live
  <2>17. QED BY <1>2, <1>6, <2>3, <2>7, <2>8, <2>10, <2>12, <2>13, <2>14, <2>15, <2>16
<1>9. QED BY <1>7, <1>8

\* Changing what a span holds, or whose it is, leaves the partition alone.
Relabelled(h, g) ==
  /\ g = [span |-> g.span, pool |-> h.pool] /\ g.span \in [Descs -> Spans]
  /\ \A d \in Descs : /\ g.span[d].st = h.span[d].st
                      /\ g.span[d].base = h.span[d].base
                      /\ g.span[d].np = h.span[d].np
                      /\ g.span[d].scav = h.span[d].scav
  /\ \A d \in Descs \ InUse(h) : g.span[d].dirty = h.span[d].dirty

LEMMA RelabelKeeps ==
  ASSUME NEW b, NEW h, Part(h, b), Apart(h, {}), NEW g, Relabelled(h, g)
  PROVE  Part(g, b) /\ Apart(g, {}) /\ InUse(g) = InUse(h)
<1>1. InUse(g) = InUse(h) /\ Free(g) = Free(h) /\ Live(g) = Live(h)
  BY DEF Relabelled, InUse, Free, Live
<1>2. \A d \in Descs \ InUse(g) : ~g.span[d].dirty
  BY <1>1 DEF Relabelled, Part
<1>3. Part(g, b)
  BY <1>1, <1>2, SameExtents DEF Relabelled
<1>4. \A d \in Free(g) : d \in Descs /\ End(g, d) = End(h, d)
  BY <1>1 DEF Relabelled, End, Free
<1>5. Apart(g, {})
  BY <1>1, <1>4 DEF Apart, Relabelled
<1>6. QED BY <1>1, <1>3, <1>5

\* Replacing the record of one span.
LEMMA SetSpan ==
  ASSUME NEW T, NEW h \in [span : [Descs -> T], pool : Seq(Descs)], NEW d \in Descs, NEW r
  PROVE  /\ [h EXCEPT !.span[d] = r] = [span |-> [h.span EXCEPT ![d] = r], pool |-> h.pool]
         /\ [h EXCEPT !.span[d] = r].span[d] = r
         /\ \A c \in Descs \ {d} : [h EXCEPT !.span[d] = r].span[c] = h.span[c]
<1>1. [h EXCEPT !.span[d] = r] \in [span : {[h.span EXCEPT ![d] = r]}, pool : {h.pool}]
  OBVIOUS
<1>2. QED BY <1>1

\* mheap.freeSpan.
LEMMA FreeKeeps ==
  ASSUME NEW b \in 0 .. NPages, NEW h, Part(h, b), Apart(h, {}),
         NEW d \in InUse(h), ~h.span[d].dirty, NEW g, g = FreeSpan(h, d)
  PROVE  /\ Part(g, b) /\ Apart(g, {}) /\ InUse(g) = InUse(h) \ {d}
         /\ \A c \in InUse(g) : g.span[c] = h.span[c]
<1> DEFINE r == [h.span[d] EXCEPT !.st = "free", !.loc = "none"]
           k == [h EXCEPT !.span[d] = r]
<1>1. g = Coalesce(k, d)
  BY DEF FreeSpan
<1>2. /\ d \in Descs /\ h.span[d].st = "inuse" /\ h.span[d] \in Spans
      /\ h \in [span : [Descs -> Spans], pool : Seq(Descs)]
  BY DEF InUse, Part
<1>3. /\ r \in Spans /\ r.st = "free" /\ ~r.dirty /\ r.base = h.span[d].base
      /\ r.np = h.span[d].np
  BY <1>2 DEF Spans
<1>4. /\ k = [span |-> k.span, pool |-> h.pool] /\ k.span = [h.span EXCEPT ![d] = r]
      /\ k.span[d] = r /\ \A c \in Descs \ {d} : k.span[c] = h.span[c]
  <2> HIDE DEF r
  <2>1. QED BY <1>2, SetSpan
<1> HIDE DEF r, k
<1>5. /\ InUse(k) = InUse(h) \ {d} /\ Free(k) = Free(h) \cup {d} /\ Live(k) = Live(h)
  BY <1>2, <1>3, <1>4 DEF InUse, Free, Live
<1>6. Part(k, b)
  <2>1. k.span \in [Descs -> Spans]
    BY <1>2, <1>3, <1>4
  <2>2. \A c \in Descs : k.span[c].base = h.span[c].base /\ k.span[c].np = h.span[c].np
    BY <1>3, <1>4
  <2>3. \A c \in Descs \ InUse(k) : ~k.span[c].dirty
    BY <1>3, <1>4, <1>5 DEF Part
  <2>4. QED BY <1>4, <1>5, <2>1, <2>2, <2>3, SameExtents
<1>7. Apart(k, {d})
  <2>1. d \notin Free(h)
    BY <1>2 DEF Free
  <2>2. \A c \in Free(k) \ {d} : c \in Free(h) /\ k.span[c] = h.span[c] /\ End(k, c) = End(h, c)
    BY <1>4, <1>5, FreeIsDescs DEF End
  <2>3. QED BY <2>2 DEF Apart
<1>8. Part(g, b) /\ Apart(g, {}) /\ SameInUse(k, g)
  BY <1>1, <1>5, <1>6, <1>7, CoalesceKeeps
<1>9. QED BY <1>4, <1>5, <1>8, FreeIsDescs DEF SameInUse

\* scavengeLocked, of a whole free span or of its end.
LEMMA ScavengeKeeps ==
  ASSUME Part(heap, brk), Apart(heap, {}), brk \in 0 .. NPages,
         NEW d \in Descs, NEW n \in Nat, Scavenge(d, n)
  PROVE  Part(heap', brk) /\ Apart(heap', {}) /\ SameInUse(heap, heap')
<1>1. /\ heap.span[d].st = "free" /\ ~heap.span[d].scav /\ n \in 1 .. heap.span[d].np
      /\ d \in Free(heap) /\ d \in Live(heap)
  BY DEF Scavenge, Free, Live
<1>2. /\ heap \in [span : [Descs -> Spans], pool : Seq(Descs)] /\ heap.span[d] \in Spans
      /\ heap.span[d].np \in Nat /\ heap.span[d].base \in Nat /\ ~heap.span[d].dirty
      /\ End(heap, d) = heap.span[d].base + heap.span[d].np /\ End(heap, d) <= brk
  BY <1>1, SpanTypes DEF Part, InUse
<1>3. CASE n = heap.span[d].np
  <2> DEFINE r == [heap.span[d] EXCEPT !.scav = TRUE]
             k == [heap EXCEPT !.span[d] = r]
  <2>1. heap' = Coalesce(k, d)
    <3>1. [heap EXCEPT !.span[d].scav = TRUE] = k
      BY <1>2
    <3>2. QED BY <1>3, <3>1 DEF Scavenge
  <2>2. r \in Spans /\ r.st = "free" /\ ~r.dirty /\ r.base = heap.span[d].base
        /\ r.np = heap.span[d].np
    BY <1>1, <1>2 DEF Spans
  <2>3. /\ k = [span |-> k.span, pool |-> heap.pool]
        /\ k.span = [heap.span EXCEPT ![d] = r]
        /\ k.span[d] = r /\ \A c \in Descs \ {d} : k.span[c] = heap.span[c]
    <3> HIDE DEF r
    <3>1. QED BY <1>2, SetSpan
  <2> HIDE DEF r, k
  <2>4. InUse(k) = InUse(heap) /\ Free(k) = Free(heap) /\ Live(k) = Live(heap)
    BY <1>1, <2>2, <2>3 DEF InUse, Free, Live
  <2>5. Part(k, brk)
    <3>1. k.span \in [Descs -> Spans]
      BY <1>2, <2>2, <2>3
    <3>2. \A c \in Descs : k.span[c].base = heap.span[c].base /\ k.span[c].np = heap.span[c].np
      BY <2>2, <2>3
    <3>3. \A c \in Descs \ InUse(k) : ~k.span[c].dirty
      BY <2>2, <2>3, <2>4 DEF Part
    <3>4. QED BY <2>3, <2>4, <3>1, <3>2, <3>3, SameExtents
  <2>6. Apart(k, {d})
    <3>1. \A c \in Free(k) \ {d} :
            c \in Free(heap) /\ k.span[c] = heap.span[c] /\ End(k, c) = End(heap, c)
      BY <2>3, <2>4, FreeIsDescs DEF End
    <3>2. QED BY <3>1 DEF Apart
  <2>7. Part(heap', brk) /\ Apart(heap', {}) /\ SameInUse(k, heap')
    BY <1>1, <2>1, <2>4, <2>5, <2>6, CoalesceKeeps
  <2>8. SameInUse(heap, k)
    BY <1>1, <2>3, <2>4, FreeIsDescs DEF SameInUse, InUse
  <2>9. QED BY <2>7, <2>8, SameInUseTransitive
<1>4. CASE n # heap.span[d].np
  <2> DEFINE e  == Head(heap.pool)
             lo == heap.span[d].np - n
             rd == [heap.span[d] EXCEPT !.np = @ - n]
             re == [InitSpan(heap.span[e], End(heap, d) - n, n) EXCEPT
                      !.st = "free", !.nz = heap.span[d].nz, !.scav = TRUE]
             q  == Tail(heap.pool)
             k  == [heap EXCEPT !.pool = q, !.span[d] = rd, !.span[e] = re]
  <2>1. heap' = Coalesce(k, e)
    BY <1>4 DEF Scavenge
  <2>2. heap.pool # <<>>
    <3>1. heap.span[d].np > 1
      BY <1>1, <1>2, <1>4
    <3>2. QED BY <1>1, <3>1, PoolNotEmpty
  <2>3. e \in Descs \ Live(heap) /\ d # e
    <3>1. IsInjective(heap.pool) /\ Range(heap.pool) = Descs \ Live(heap)
      BY DEF Part
    <3>2. QED BY <1>1, <1>2, <2>2, <3>1, PopPool
  <2>4. heap.span[e] \in Spans /\ ~heap.span[e].dirty
    BY <1>2, <2>3 DEF Part, Live
  <2>5. /\ lo \in Nat /\ lo > 0 /\ n > 0 /\ lo + n = heap.span[d].np
        /\ End(heap, d) - n = heap.span[d].base + lo
        /\ heap.span[d].base + lo \in Pages /\ lo \in 0 .. NPages /\ n \in 0 .. NPages
        /\ heap.span[d].nz \in BOOLEAN /\ NoObjs \in [n : 0 .. NElems, of : SUBSET Ids]
    <3>1. heap.span[d].nz \in BOOLEAN
      BY <1>2 DEF Spans
    <3>2. NoObjs \in [n : 0 .. NElems, of : SUBSET Ids]
      BY HeapAssumption DEF NoObjs
    <3>3. /\ lo \in Nat /\ lo > 0 /\ n > 0 /\ lo + n = heap.span[d].np
          /\ End(heap, d) - n = heap.span[d].base + lo
      BY <1>1, <1>2, <1>4
    <3>4. NPages \in Nat /\ brk \in Nat /\ brk <= NPages
      BY HeapAssumption
    <3> HIDE DEF lo
    <3>5. heap.span[d].base + lo \in Pages /\ lo \in 0 .. NPages /\ n \in 0 .. NPages
      BY <1>2, <3>3, <3>4 DEF Pages
    <3>6. QED BY <3>1, <3>2, <3>3, <3>5
  <2>6. /\ rd \in Spans /\ rd.base = heap.span[d].base /\ rd.np = lo
        /\ rd.st = "free" /\ ~rd.dirty /\ rd.scav = heap.span[d].scav
    BY <1>1, <1>2, <2>5 DEF Spans
  <2>7. /\ re \in Spans /\ re.base = heap.span[d].base + lo /\ re.np = n
        /\ re.st = "free" /\ ~re.dirty
    <3> HIDE DEF e, lo
    <3>1. QED BY <2>4, <2>5 DEF Spans, InitSpan
  <2>8. /\ k = [span |-> k.span, pool |-> q]
        /\ k.span = [heap.span EXCEPT ![d] = rd, ![e] = re]
    <3> HIDE DEF e, rd, re, q
    <3>1. k \in [span : {[heap.span EXCEPT ![d] = rd, ![e] = re]}, pool : {q}]
      BY <1>2
    <3> HIDE DEF k
    <3>2. QED BY <3>1
  <2> HIDE DEF e, k, rd, re
  <2>9. /\ k.span \in [Descs -> Spans] /\ k.span[d] = rd /\ k.span[e] = re
        /\ \A c \in Descs \ {d, e} : k.span[c] = heap.span[c]
    BY <1>2, <2>3, <2>6, <2>7, <2>8
  <2>10. Cut(heap, k, d, e, lo, n)
    BY <1>1, <2>2, <2>5, <2>6, <2>7, <2>8, <2>9 DEF Cut, e
  <2> HIDE DEF lo, q
  <2>11. Part(k, brk) /\ Apart(k, {e})
    BY <2>5, <2>10, CutKeeps
  <2>12. InUse(k) = InUse(heap) /\ e \in Free(k)
    BY <1>1, <2>3, <2>6, <2>7, <2>9 DEF InUse, Free, Live
  <2>13. SameInUse(heap, k)
    BY <1>1, <2>3, <2>9, <2>12 DEF SameInUse, InUse, Live
  <2>14. Part(heap', brk) /\ Apart(heap', {}) /\ SameInUse(k, heap')
    BY <2>1, <2>11, <2>12, CoalesceKeeps
  <2>15. QED BY <2>13, <2>14, SameInUseTransitive
<1>5. QED BY <1>3, <1>4

-----------------------------------------------------------------------------
(* The views.                                                               *)

\* A transfer changes only the pages it is for: all that see the new package get
\* them, and nobody else does.
LEMMA TransferIs ==
  ASSUME maps \in [Pages -> SUBSET Sandboxes], NEW old \in Ids, NEW new \in Ids, NEW pages
  PROVE  /\ Transfer(maps, old, new, pages) \in [Pages -> SUBSET Sandboxes]
         /\ \A p \in Pages : Transfer(maps, old, new, pages)[p] # maps[p] =>
              /\ p \in pages
              /\ PkgDeps[new] \subseteq Transfer(maps, old, new, pages)[p]
              /\ Transfer(maps, old, new, pages)[p] \subseteq maps[p] \cup PkgDeps[new]
<1>1. PkgDeps[new] \subseteq Sandboxes
  BY HeapAssumption
<1>2. QED BY <1>1 DEF Transfer

-----------------------------------------------------------------------------
(* The invariant.                                                           *)

HeapInv == Part(heap, brk) /\ Apart(heap, {}) /\ brk \in 0 .. NPages

VarInv ==
  /\ maps \in [Pages -> SUBSET Sandboxes]
  /\ locks \in [Ms -> Nat] /\ nester \in [Ms -> Nat]
  /\ malloc \in [Ms -> Descs \cup {NoD}] /\ toclean \in [Ms -> Descs \cup {NoD}]

LockInv ==
  \A m \in Ms : IF malloc[m] = NoD THEN locks[m] <= MaxLocks
                ELSE locks[m] > 0 /\ locks[m] <= MaxLocks + 1

\* A span in a thread's hand is in its cache or large, and in no other hand.
ClaimInv ==
  /\ \A m \in Ms : malloc[m] # NoD =>
       malloc[m] \in InUse(heap) /\ heap.span[malloc[m]].loc \in {m, "large"}
  /\ \A m, k \in Ms : malloc[m] = malloc[k] /\ malloc[m] # NoD => m = k

\* What is left to clean is the span in hand, at the depth of its mallocgc.
CleanInv ==
  /\ \A m \in Ms : toclean[m] # NoD =>
       /\ toclean[m] = malloc[m] /\ nester[m] = locks[m]
       /\ heap.span[toclean[m]].dirty
  /\ \A d \in Descs : heap.span[d].dirty => \E m \in Ms : toclean[m] = d

OneInv ==
  \A c, d \in InUse(heap) :
    /\ heap.span[c].loc \in Ms /\ heap.span[c].loc = heap.span[d].loc
    /\ heap.span[c].sid = heap.span[d].sid
    => c = d

IInv == /\ HeapInv /\ VarInv /\ LockInv /\ ClaimInv /\ CleanInv
        /\ Homogeneous /\ OneInv /\ NoThrow

-----------------------------------------------------------------------------
(* mallocgc.                                                                *)

LEMMA RelabelledTransitive ==
  ASSUME NEW h, NEW g, NEW k, Relabelled(h, g), Relabelled(g, k)
  PROVE  Relabelled(h, k)
<1>1. InUse(g) = InUse(h)
  BY DEF Relabelled, InUse
<1>2. g.pool = h.pool
  BY DEF Relabelled
<1>3. k = [span |-> k.span, pool |-> h.pool]
  BY <1>2 DEF Relabelled
<1>4. QED BY <1>1, <1>3 DEF Relabelled

\* The place of a span in the lists is changed, and nothing else of it.
LEMMA Moved ==
  ASSUME NEW r \in Spans, NEW v \in {"none", "large", "nonempty", "empty"} \cup Ms
  PROVE  LET t == [r EXCEPT !.loc = v]
         IN  /\ t \in Spans /\ t.loc = v /\ t.st = r.st /\ t.base = r.base
             /\ t.np = r.np /\ t.sid = r.sid /\ t.oldid = r.oldid
             /\ t.dirty = r.dirty /\ t.nz = r.nz /\ t.scav = r.scav /\ t.objs = r.objs
BY DEF Spans

\* refill changes the place of the thread's full span of the package.
LEMMA DroppedEffect ==
  ASSUME NEW b, NEW h, Part(h, b), NEW m, NEW id, NEW g, g = Dropped(h, m, id)
  PROVE  /\ Relabelled(h, g)
         /\ \A d \in Descs : g.span[d] = IF d \in Cached(m, id)
                                         THEN [h.span[d] EXCEPT !.loc = "empty"]
                                         ELSE h.span[d]
<1> DEFINE r(d) == IF d \in Cached(m, id) THEN [h.span[d] EXCEPT !.loc = "empty"]
                                          ELSE h.span[d]
           f == [d \in Descs |-> r(d)]
<1>1. h \in [span : [Descs -> Spans], pool : Seq(Descs)]
  BY DEF Part
<1>2. g = [h EXCEPT !.span = f]
  BY DEF Dropped
<1>3. \A d \in Descs : /\ r(d) \in Spans /\ r(d).st = h.span[d].st
                       /\ r(d).base = h.span[d].base /\ r(d).np = h.span[d].np
                       /\ r(d).scav = h.span[d].scav /\ r(d).dirty = h.span[d].dirty
  <2>1. SUFFICES ASSUME NEW d \in Descs
                 PROVE  /\ r(d) \in Spans /\ r(d).st = h.span[d].st
                        /\ r(d).base = h.span[d].base /\ r(d).np = h.span[d].np
                        /\ r(d).scav = h.span[d].scav /\ r(d).dirty = h.span[d].dirty
    OBVIOUS
  <2>2. h.span[d] \in Spans
    BY <1>1
  <2>3. CASE d \in Cached(m, id)
    <3>1. r(d) = [h.span[d] EXCEPT !.loc = "empty"]
      BY <2>3
    <3> HIDE DEF r
    <3>2. QED BY <2>2, <3>1, Moved
  <2>4. CASE d \notin Cached(m, id)
    BY <2>2, <2>4
  <2>5. QED BY <2>3, <2>4
<1>4. f \in [Descs -> Spans] /\ \A d \in Descs : f[d] = r(d)
  BY <1>3
<1> HIDE DEF f
<1>5. g = [span |-> f, pool |-> h.pool]
  BY <1>1, <1>2
<1>6. g.span = f /\ g = [span |-> g.span, pool |-> h.pool]
  BY <1>5
<1>7. \A d \in Descs : g.span[d] = r(d)
  BY <1>4, <1>6
<1>8. Relabelled(h, g)
  BY <1>3, <1>4, <1>6, <1>7 DEF Relabelled
<1>9. QED BY <1>7, <1>8

\* What placing an object of package id in span d, and setId, leave behind.
LEMMA SetIdEffect ==
  ASSUME NEW b, NEW h, Part(h, b), NEW d \in Descs, h.span[d].st = "inuse",
         ~h.span[d].dirty, NEW m \in Ms, NEW id \in Ids,
         NEW loc \in Ms \cup {"large"}, NEW objs,
         objs.n \in Nat, objs.n < NElems, objs.of \subseteq {id},
         SetId(m, Place(h, d, loc, objs, id), d, id)
  PROVE  /\ Relabelled(h, heap')
         /\ \A c \in Descs \ {d} : heap'.span[c] = h.span[c]
         /\ heap'.span[d].loc = loc /\ heap'.span[d].sid = id
         /\ heap'.span[d].objs.of \subseteq {id}
         /\ ToldId(heap'.span[d]) = h.span[d].sid
         /\ \/ UNCHANGED <<toclean, nester>> /\ ~heap'.span[d].dirty
            \/ /\ toclean' = [toclean EXCEPT ![m] = d] /\ heap'.span[d].dirty
               /\ nester' = [nester EXCEPT ![m] = Nester(m)]
<1> DEFINE o == [n |-> objs.n + 1, of |-> objs.of \cup {id}]
           r == [h.span[d] EXCEPT !.loc = loc, !.objs = o]
           k == Place(h, d, loc, objs, id)
<1>1. h \in [span : [Descs -> Spans], pool : Seq(Descs)] /\ h.span[d] \in Spans
  BY DEF Part
<1>2. o \in [n : 0 .. NElems, of : SUBSET Ids] /\ o.of \subseteq {id}
  BY HeapAssumption
<1>3. k = [h EXCEPT !.span[d] = r]
  BY DEF Place
<1>4. /\ r \in Spans /\ r.st = "inuse" /\ r.base = h.span[d].base
      /\ r.np = h.span[d].np /\ r.scav = h.span[d].scav /\ ~r.dirty
      /\ r.sid = h.span[d].sid /\ r.objs = o /\ r.loc = loc
  <2> HIDE DEF o
  <2>1. QED BY <1>1, <1>2 DEF Spans
<1> HIDE DEF o, r, k
<1>5. /\ k = [span |-> k.span, pool |-> h.pool] /\ k.span = [h.span EXCEPT ![d] = r]
      /\ k.span[d] = r /\ \A c \in Descs \ {d} : k.span[c] = h.span[c]
  BY <1>1, <1>3, SetSpan
<1>6. k.span \in [Descs -> Spans] /\ k \in [span : [Descs -> Spans], pool : Seq(Descs)]
  <2>1. k.span \in [Descs -> Spans] /\ h.pool \in Seq(Descs)
    BY <1>1, <1>4, <1>5
  <2>2. [span |-> k.span, pool |-> h.pool] \in [span : [Descs -> Spans], pool : Seq(Descs)]
    BY <2>1
  <2>3. QED BY <1>5, <2>1, <2>2
<1>7. Relabelled(h, k)
  <2>1. d \in InUse(h)
    BY DEF InUse
  <2>2. \A c \in Descs : /\ k.span[c].st = h.span[c].st
                         /\ k.span[c].base = h.span[c].base
                         /\ k.span[c].np = h.span[c].np
                         /\ k.span[c].scav = h.span[c].scav
    BY <1>4, <1>5
  <2>3. \A c \in Descs \ InUse(h) : k.span[c].dirty = h.span[c].dirty
    BY <1>5, <2>1
  <2>4. QED BY <1>5, <1>6, <2>1, <2>2, <2>3 DEF Relabelled
<1>8. CASE r.sid = id
  <2>1. heap' = k /\ UNCHANGED <<toclean, nester>>
    BY <1>5, <1>8 DEF SetId, k
  <2>2. heap'.span[d] = r /\ \A c \in Descs \ {d} : heap'.span[c] = h.span[c]
    BY <1>5, <2>1
  <2>3. ToldId(heap'.span[d]) = h.span[d].sid
    BY <1>4, <2>2 DEF ToldId
  <2>4. heap'.span[d].objs.of \subseteq {id}
    BY <1>2, <1>4, <2>2
  <2>5. QED BY <1>4, <1>7, <1>8, <2>1, <2>2, <2>3, <2>4
<1>9. CASE r.sid # id
  <2> DEFINE t == [r EXCEPT !.dirty = TRUE, !.oldid = r.sid, !.sid = id]
  <2>1. /\ heap' = [k EXCEPT !.span[d] = [k.span[d] EXCEPT
                      !.dirty = TRUE, !.oldid = k.span[d].sid, !.sid = id]]
        /\ toclean' = [toclean EXCEPT ![m] = d]
        /\ nester' = [nester EXCEPT ![m] = Nester(m)]
    BY <1>5, <1>9 DEF SetId, k
  <2>2. heap' = [k EXCEPT !.span[d] = t]
    BY <1>5, <2>1
  <2>3. /\ t \in Spans /\ t.st = "inuse" /\ t.base = r.base /\ t.np = r.np
        /\ t.scav = r.scav /\ t.dirty /\ t.oldid = r.sid /\ t.sid = id
        /\ t.objs = o /\ t.loc = loc
    BY <1>4 DEF Spans
  <2> HIDE DEF t
  <2>4. /\ heap' = [span |-> [k.span EXCEPT ![d] = t], pool |-> k.pool]
        /\ heap'.span[d] = t /\ \A c \in Descs \ {d} : heap'.span[c] = k.span[c]
    BY <1>6, <2>2, SetSpan
  <2>5. /\ heap' = [span |-> heap'.span, pool |-> k.pool]
        /\ heap'.span \in [Descs -> Spans]
    BY <1>6, <2>3, <2>4
  <2>6. Relabelled(k, heap')
    <3>1. d \in InUse(k)
      BY <1>4, <1>5 DEF InUse
    <3>2. \A c \in Descs : /\ heap'.span[c].st = k.span[c].st
                           /\ heap'.span[c].base = k.span[c].base
                           /\ heap'.span[c].np = k.span[c].np
                           /\ heap'.span[c].scav = k.span[c].scav
      BY <1>4, <1>5, <2>3, <2>4
    <3>3. QED BY <2>4, <2>5, <3>1, <3>2 DEF Relabelled
  <2>7. Relabelled(h, heap')
    BY <1>7, <2>6, RelabelledTransitive
  <2>8. ToldId(heap'.span[d]) = h.span[d].sid
    BY <1>4, <2>3, <2>4 DEF ToldId
  <2>9. QED BY <1>2, <1>5, <2>1, <2>3, <2>4, <2>7, <2>8
<1>10. QED BY <1>8, <1>9

\* A span thread m may take for an object of package id, in the heap h it has
\* made of the current one.
Claimable(h, m, d, loc, objs, id) ==
  /\ d \in InUse(h) /\ ~h.span[d].dirty /\ InUse(h) = InUse(heap) \cup {d}
  /\ d \in InUse(heap) => heap.span[d].loc \in {m, "nonempty", "empty"}
  /\ \A c \in InUse(heap) \ {d} :
       h.span[c] = IF loc = m /\ c \in Cached(m, id)
                   THEN [heap.span[c] EXCEPT !.loc = "empty"] ELSE heap.span[c]
  /\ loc \in {m, "large"}
  /\ objs.n \in Nat /\ objs.n < NElems /\ objs.of \subseteq {id}

LEMMA ClaimKeeps ==
  ASSUME IInv, NEW m \in Ms, NEW id \in Ids, NEW d \in Descs, NEW h, NEW loc, NEW objs,
         Part(h, brk'), Apart(h, {}), brk' \in 0 .. NPages, maps' \in [Pages -> SUBSET Sandboxes],
         Idle(m), Claimable(h, m, d, loc, objs, id),
         SetId(m, Place(h, d, loc, objs, id), d, id), Enter(m, d)
  PROVE  /\ IInv' /\ d \in InUse(heap') /\ PagesOf(heap', d) = PagesOf(h, d)
         /\ ToldId(heap'.span[d]) = h.span[d].sid
<1>1. /\ HeapInv /\ VarInv /\ LockInv /\ ClaimInv /\ CleanInv
      /\ Homogeneous /\ OneInv /\ NoThrow
  BY DEF IInv
<1>2. /\ Ms \cap {"none", "large", "nonempty", "empty"} = {} /\ NoD \notin Descs
      /\ MaxLocks \in Nat
  BY HeapAssumption
<1>3. /\ d \in InUse(h) /\ h.span[d].st = "inuse" /\ ~h.span[d].dirty
      /\ InUse(h) = InUse(heap) \cup {d}
      /\ d \in InUse(heap) => heap.span[d].loc \in {m, "nonempty", "empty"}
      /\ \A c \in InUse(heap) \ {d} :
           h.span[c] = IF loc = m /\ c \in Cached(m, id)
                       THEN [heap.span[c] EXCEPT !.loc = "empty"] ELSE heap.span[c]
      /\ loc \in {m, "large"} /\ loc \in Ms \cup {"large"}
      /\ objs.n \in Nat /\ objs.n < NElems /\ objs.of \subseteq {id}
  BY DEF Claimable, InUse
<1>4. /\ Relabelled(h, heap')
      /\ \A c \in Descs \ {d} : heap'.span[c] = h.span[c]
      /\ heap'.span[d].loc = loc /\ heap'.span[d].sid = id
      /\ heap'.span[d].objs.of \subseteq {id}
      /\ ToldId(heap'.span[d]) = h.span[d].sid
      /\ \/ UNCHANGED <<toclean, nester>> /\ ~heap'.span[d].dirty
         \/ /\ toclean' = [toclean EXCEPT ![m] = d] /\ heap'.span[d].dirty
            /\ nester' = [nester EXCEPT ![m] = Nester(m)]
  BY <1>3, SetIdEffect
<1>5. /\ malloc[m] = NoD /\ crash = "none" /\ crash' = crash
      /\ locks' = [locks EXCEPT ![m] = @ + 1] /\ malloc' = [malloc EXCEPT ![m] = d]
  BY DEF Idle, Enter
<1>6. Part(heap', brk') /\ Apart(heap', {}) /\ InUse(heap') = InUse(heap) \cup {d}
  BY <1>3, <1>4, RelabelKeeps
<1>7. HeapInv'
  BY <1>6 DEF HeapInv, Apart, Free, End, Part, Live, InUse
<1>8. toclean[m] = NoD
  BY <1>1, <1>5 DEF CleanInv
<1>9. VarInv'
  <2>1. Nester(m) \in Nat
    BY <1>1 DEF VarInv, Nester
  <2>2. QED BY <1>1, <1>4, <1>5, <2>1 DEF VarInv
<1>10. LockInv'
  BY <1>1, <1>2, <1>5 DEF LockInv, VarInv
<1>11. ASSUME NEW k \in Ms, k # m, malloc[k] # NoD
       PROVE  /\ malloc'[k] = malloc[k] /\ malloc[k] \in InUse(heap) \ {d}
              /\ malloc[k] \in Descs
              /\ heap'.span[malloc[k]] = heap.span[malloc[k]]
              /\ heap.span[malloc[k]].loc \in {k, "large"}
  <2>1. /\ malloc[k] \in InUse(heap) /\ heap.span[malloc[k]].loc \in {k, "large"}
    BY <1>1, <1>11 DEF ClaimInv
  <2>2. malloc[k] # d /\ malloc[k] \in Descs
    <3>1. malloc[k] \in Descs
      BY <2>1, FreeIsDescs
    <3>2. SUFFICES ASSUME malloc[k] = d PROVE FALSE
      BY <3>1
    <3>3. heap.span[d].loc \in {m, "nonempty", "empty"} /\ heap.span[d].loc \in {k, "large"}
      BY <3>2, <2>1, <1>3
    <3>4. QED BY <3>3, <1>2, <1>11
  <2>3. malloc[k] \notin Cached(m, id)
    BY <1>2, <1>11, <2>1 DEF Cached, InList
  <2>4. QED BY <1>1, <1>3, <1>4, <1>5, <1>11, <2>1, <2>2, <2>3 DEF VarInv
<1>12. malloc'[m] = d /\ \A k \in Ms \ {m} : malloc'[k] = malloc[k]
  BY <1>1, <1>5 DEF VarInv
<1>13. ClaimInv'
  <2>1. ASSUME NEW k \in Ms, malloc'[k] # NoD
        PROVE  malloc'[k] \in InUse(heap') /\ heap'.span[malloc'[k]].loc \in {k, "large"}
    <3>1. CASE k = m
      BY <3>1, <1>3, <1>4, <1>6, <1>12
    <3>2. CASE k # m
      BY <3>2, <2>1, <1>6, <1>11, <1>12
    <3>3. QED BY <3>1, <3>2
  <2>2. ASSUME NEW k \in Ms, NEW l \in Ms, malloc'[k] = malloc'[l], malloc'[k] # NoD
        PROVE  k = l
    <3>1. CASE k = m /\ l # m
      BY <3>1, <2>2, <1>11, <1>12
    <3>2. CASE k # m /\ l = m
      BY <3>2, <2>2, <1>11, <1>12
    <3>3. CASE k # m /\ l # m
      BY <3>3, <2>2, <1>1, <1>12 DEF ClaimInv
    <3>4. QED BY <3>1, <3>2, <3>3
  <2>3. QED BY <2>1, <2>2 DEF ClaimInv, InUse
<1>14. \A k \in Ms \ {m} : toclean'[k] = toclean[k] /\ nester'[k] = nester[k]
                           /\ locks'[k] = locks[k]
  BY <1>1, <1>4, <1>5 DEF VarInv
<1>15. CleanInv'
  <2>1. ASSUME NEW k \in Ms, toclean'[k] # NoD
        PROVE  /\ toclean'[k] = malloc'[k] /\ nester'[k] = locks'[k]
               /\ heap'.span[toclean'[k]].dirty
    <3>1. CASE k = m
      <4>1. /\ toclean'[m] = d /\ heap'.span[d].dirty
            /\ nester'[m] = locks[m] + 1 /\ locks'[m] = locks[m] + 1
        BY <3>1, <2>1, <1>1, <1>4, <1>5, <1>8 DEF VarInv, Nester
      <4>2. QED BY <3>1, <4>1, <1>12
    <3>2. CASE k # m
      <4>1. /\ toclean[k] = malloc[k] /\ nester[k] = locks[k]
            /\ heap.span[toclean[k]].dirty /\ malloc[k] # NoD
        BY <3>2, <2>1, <1>1, <1>14 DEF CleanInv
      <4>2. QED BY <3>2, <4>1, <1>11, <1>14
    <3>3. QED BY <3>1, <3>2
  <2>2. ASSUME NEW c \in Descs, heap'.span[c].dirty
        PROVE  \E k \in Ms : toclean'[k] = c
    <3>1. CASE c = d
      BY <3>1, <2>2, <1>1, <1>4 DEF VarInv
    <3>2. CASE c # d
      <4>1. c \in InUse(heap) /\ heap'.span[c] = h.span[c]
        BY <3>2, <2>2, <1>4, <1>6 DEF Part
      <4>2. heap.span[c].dirty
        <5>1. heap.span[c] \in Spans
          BY <1>1 DEF HeapInv, Part
        <5>2. h.span[c].dirty = [heap.span[c] EXCEPT !.loc = "empty"].dirty
                \/ h.span[c].dirty = heap.span[c].dirty
          BY <3>2, <4>1, <1>3
        <5>3. h.span[c].dirty = heap.span[c].dirty
          BY <5>1, <5>2, Moved
        <5>4. QED BY <4>1, <5>3, <2>2
      <4>3. PICK k \in Ms : toclean[k] = c
        BY <4>2, <1>1 DEF CleanInv
      <4>4. k # m
        BY <4>3, <1>2, <1>8
      <4>5. QED BY <4>3, <4>4, <1>14
    <3>3. QED BY <3>1, <3>2
  <2>3. QED BY <2>1, <2>2 DEF CleanInv
<1>16. \A c \in InUse(heap) \ {d} :
         /\ heap.span[c] \in Spans
         /\ heap'.span[c] = IF loc = m /\ c \in Cached(m, id)
                            THEN [heap.span[c] EXCEPT !.loc = "empty"]
                            ELSE heap.span[c]
  BY <1>1, <1>3, <1>4, FreeIsDescs DEF HeapInv, Part
<1>17. Homogeneous'
  <2>1. ASSUME NEW c \in InUse(heap')
        PROVE  heap'.span[c].objs.of \subseteq {heap'.span[c].sid}
    <3>1. CASE c = d
      BY <3>1, <1>4
    <3>2. CASE c # d
      <4>1. c \in InUse(heap) \ {d}
        BY <3>2, <1>6
      <4>2. heap.span[c].objs.of \subseteq {heap.span[c].sid}
        BY <4>1, <1>1 DEF Homogeneous
      <4>3. heap'.span[c].objs = heap.span[c].objs /\ heap'.span[c].sid = heap.span[c].sid
        BY <4>1, <1>16 DEF Spans
      <4>4. QED BY <4>2, <4>3
    <3>3. QED BY <3>1, <3>2
  <2>2. QED BY <2>1 DEF Homogeneous, InUse
<1>18. OneInv'
  <2>1. ASSUME NEW c \in InUse(heap) \ {d}, heap'.span[c].loc \in Ms
        PROVE  heap'.span[c] = heap.span[c] /\ ~(loc = m /\ c \in Cached(m, id))
    <3>1. heap.span[c] \in Spans
      BY <1>16
    <3>2. [heap.span[c] EXCEPT !.loc = "empty"].loc \notin Ms
      BY <1>2, <3>1, Moved
    <3>3. QED BY <2>1, <1>16, <3>2
  <2>2. ASSUME NEW c \in InUse(heap) \ {d}, loc \in Ms, heap'.span[c].loc = loc,
               heap'.span[c].sid = id
        PROVE  FALSE
    <3>1. loc = m
      BY <2>2, <1>2, <1>3
    <3>2. heap.span[c].loc = m /\ heap.span[c].sid = id /\ c \notin Cached(m, id)
      BY <3>1, <2>1, <2>2
    <3>3. QED BY <3>2 DEF Cached, InList
  <2>3. ASSUME NEW c \in InUse(heap'), NEW e \in InUse(heap'),
               heap'.span[c].loc \in Ms, heap'.span[c].loc = heap'.span[e].loc,
               heap'.span[c].sid = heap'.span[e].sid
        PROVE  c = e
    <3>1. CASE c = d /\ e # d
      BY <3>1, <2>2, <2>3, <1>4, <1>6
    <3>2. CASE c # d /\ e = d
      BY <3>2, <2>2, <2>3, <1>4, <1>6
    <3>3. CASE c # d /\ e # d
      <4>1. c \in InUse(heap) \ {d} /\ e \in InUse(heap) \ {d}
        BY <3>3, <1>6
      <4>2. heap'.span[c] = heap.span[c] /\ heap'.span[e] = heap.span[e]
        BY <4>1, <2>1, <2>3
      <4>3. QED BY <4>1, <4>2, <2>3, <1>1 DEF OneInv
    <3>4. QED BY <3>1, <3>2, <3>3
  <2>4. QED BY <2>3 DEF OneInv, InUse
<1>19. IInv'
  BY <1>5, <1>7, <1>9, <1>10, <1>13, <1>15, <1>17, <1>18 DEF IInv, NoThrow
<1>20. PagesOf(heap', d) = PagesOf(h, d)
  BY <1>4 DEF Relabelled, PagesOf, End
<1>21. QED BY <1>4, <1>6, <1>19, <1>20

\* A span in no thread's hand has no registration pending, and a span of the
\* lists or of an idle thread's cache is in no hand.
LEMMA Untaken ==
  ASSUME IInv, NEW d \in Descs, \A k \in Ms : malloc[k] # d
  PROVE  ~heap.span[d].dirty
<1>1. SUFFICES ASSUME heap.span[d].dirty PROVE FALSE
  OBVIOUS
<1>2. PICK k \in Ms : toclean[k] = d
  BY <1>1 DEF IInv, CleanInv
<1>3. toclean[k] # NoD
  BY <1>2, HeapAssumption
<1>4. QED BY <1>2, <1>3 DEF IInv, CleanInv

LEMMA UntakenPlace ==
  ASSUME IInv, NEW m \in Ms, malloc[m] = NoD, NEW d \in InUse(heap),
         heap.span[d].loc \in {m, "nonempty", "empty"}
  PROVE  \A k \in Ms : malloc[k] # d
<1>1. SUFFICES ASSUME NEW k \in Ms, malloc[k] = d PROVE FALSE
  OBVIOUS
<1>2. d # NoD /\ Ms \cap {"none", "large", "nonempty", "empty"} = {}
  BY HeapAssumption DEF InUse
<1>3. heap.span[d].loc \in {k, "large"} /\ k # m
  BY <1>1, <1>2 DEF IInv, ClaimInv
<1>4. QED BY <1>2, <1>3

\* setId throws neither of its two errors for a clean span.
LEMMA NothingToThrow ==
  ASSUME IInv, NEW m \in Ms, malloc[m] = NoD, NEW h, NEW d, ~h.span[d].dirty, NEW id
  PROVE  ~SetIdThrows(m, h, d, id)
<1>1. toclean[m] = NoD
  BY DEF IInv, CleanInv
<1>2. QED BY <1>1 DEF SetIdThrows

\* The objects of a span in use, as counted.
LEMMA ObjsTypes ==
  ASSUME IInv, NEW d \in InUse(heap)
  PROVE  /\ heap.span[d] \in Spans /\ heap.span[d].objs.n \in Nat
         /\ heap.span[d].objs.n <= NElems
         /\ heap.span[d].objs.of \subseteq {heap.span[d].sid}
<1>1. heap.span[d] \in Spans
  BY FreeIsDescs DEF IInv, HeapInv, Part
<1>2. heap.span[d].objs.n \in 0 .. NElems
  BY <1>1 DEF Spans
<1>3. QED BY <1>1, <1>2, HeapAssumption DEF IInv, Homogeneous

LEMMA CachedKeeps ==
  ASSUME IInv, NEW m \in Ms, NEW id \in Ids, MallocCached(m, id)
  PROVE  IInv' /\ UNCHANGED maps
<1>1. PICK d \in Cached(m, id) :
        /\ ~Full(d) /\ heap' = Place(heap, d, m, heap.span[d].objs, id) /\ Enter(m, d)
        /\ Idle(m) /\ UNCHANGED <<brk, maps, nester, toclean>>
  BY DEF MallocCached
<1>2. /\ d \in InUse(heap) /\ d \in Descs /\ heap.span[d].loc = m
      /\ heap.span[d].sid = id /\ malloc[m] = NoD
  BY <1>1 DEF Cached, InList, InUse, Idle
<1>3. ~heap.span[d].dirty
  BY <1>2, Untaken, UntakenPlace
<1>4. /\ heap.span[d].objs.n \in Nat /\ heap.span[d].objs.n < NElems
      /\ heap.span[d].objs.of \subseteq {id} /\ heap.span[d] \in Spans
  BY <1>1, <1>2, ObjsTypes, HeapAssumption DEF Full, AllocCount
<1>5. \A c \in InUse(heap) \ {d} : c \notin Cached(m, id)
  BY <1>2 DEF IInv, OneInv, Cached, InList
<1>6. Claimable(heap, m, d, m, heap.span[d].objs, id)
  BY <1>2, <1>3, <1>4, <1>5 DEF Claimable
<1>7. Place(heap, d, m, heap.span[d].objs, id).span[d].sid = id
  <2> DEFINE o == [n |-> heap.span[d].objs.n + 1, of |-> heap.span[d].objs.of \cup {id}]
             r == [heap.span[d] EXCEPT !.loc = m, !.objs = o]
  <2>1. Place(heap, d, m, heap.span[d].objs, id) = [heap EXCEPT !.span[d] = r]
    BY DEF Place
  <2>2. r.sid = id
    <3> HIDE DEF o
    <3>1. QED BY <1>2, <1>4 DEF Spans
  <2>3. heap \in [span : [Descs -> Spans], pool : Seq(Descs)]
    BY DEF IInv, HeapInv, Part
  <2> HIDE DEF r
  <2>4. QED BY <1>2, <2>1, <2>2, <2>3, SetSpan
<1>8. SetId(m, Place(heap, d, m, heap.span[d].objs, id), d, id)
  BY <1>1, <1>7 DEF SetId
<1>9. /\ Part(heap, brk') /\ Apart(heap, {}) /\ brk' \in 0 .. NPages
      /\ maps' \in [Pages -> SUBSET Sandboxes]
  BY <1>1 DEF IInv, HeapInv, VarInv
<1>10. IInv'
  BY <1>1, <1>2, <1>6, <1>8, <1>9, ClaimKeeps
<1>11. QED BY <1>1, <1>10

LEMMA CentralKeeps ==
  ASSUME IInv, NEW m \in Ms, NEW id \in Ids, MallocCentral(m, id)
  PROVE  IInv' /\ UNCHANGED maps
<1> DEFINE g == Dropped(heap, m, id)
           k(d, left) == [g EXCEPT !.span[d].nz = @ \/ left # heap.span[d].objs]
<1>1. PICK d \in Acceptable(id) : \E left \in Survivors(d) :
        /\ left.n < NElems
        /\ \/ SetIdThrows(m, heap, d, id)
           \/ SetId(m, Place(k(d, left), d, m, left, id), d, id) /\ Enter(m, d)
  BY DEF MallocCentral
<1>2. PICK left \in Survivors(d) :
        /\ left.n < NElems
        /\ \/ SetIdThrows(m, heap, d, id)
           \/ SetId(m, Place(k(d, left), d, m, left, id), d, id) /\ Enter(m, d)
  BY <1>1
<1>3. /\ Idle(m) /\ malloc[m] = NoD /\ UNCHANGED <<brk, maps>>
  BY DEF MallocCentral, NeedsRefill, Idle
<1>4. /\ d \in InUse(heap) /\ d \in Descs /\ heap.span[d].loc \in {"nonempty", "empty"}
      /\ heap.span[d].sid = id \/ heap.span[d].objs.n = 0
  BY <1>1 DEF Acceptable, InList, InUse, AllocCount
<1>5. ~heap.span[d].dirty
  BY <1>3, <1>4, Untaken, UntakenPlace
<1>6. d \notin Cached(m, id)
  BY <1>4, HeapAssumption DEF Cached, InList
<1>7. left.n \in Nat /\ left.n < NElems /\ left.of \subseteq {id}
  <2>1. /\ heap.span[d].objs.n \in Nat /\ heap.span[d].objs.of \subseteq {heap.span[d].sid}
    BY <1>4, ObjsTypes
  <2>2. /\ left.n \in 0 .. heap.span[d].objs.n /\ left.of \subseteq heap.span[d].objs.of
        /\ left.n = 0 <=> left.of = {}
    BY DEF Survivors, AllocCount
  <2>3. QED BY <1>2, <1>4, <2>1, <2>2
<1>8. Part(heap, brk) /\ Apart(heap, {}) /\ brk \in 0 .. NPages /\ maps \in [Pages -> SUBSET Sandboxes]
  BY DEF IInv, HeapInv, VarInv
<1>9. /\ Relabelled(heap, g)
      /\ \A c \in Descs : g.span[c] = IF c \in Cached(m, id)
                                      THEN [heap.span[c] EXCEPT !.loc = "empty"]
                                      ELSE heap.span[c]
  BY <1>8, DroppedEffect
<1>10. Part(g, brk) /\ Apart(g, {}) /\ InUse(g) = InUse(heap)
  BY <1>8, <1>9, RelabelKeeps
<1>11. g.span[d] = heap.span[d]
  BY <1>4, <1>6, <1>9
<1> DEFINE r == [g.span[d] EXCEPT !.nz = @ \/ left # heap.span[d].objs]
           h == [g EXCEPT !.span[d] = r]
<1>12. k(d, left) = h
  OBVIOUS
<1> HIDE DEF g
<1>13. g \in [span : [Descs -> Spans], pool : Seq(Descs)] /\ g.span[d] \in Spans
  BY <1>4, <1>10 DEF Part
<1>14. /\ r \in Spans /\ r.st = g.span[d].st /\ r.base = g.span[d].base
       /\ r.np = g.span[d].np /\ r.scav = g.span[d].scav /\ r.dirty = g.span[d].dirty
  BY <1>13 DEF Spans
<1> HIDE DEF r
<1>15. /\ h = [span |-> h.span, pool |-> g.pool] /\ h.span = [g.span EXCEPT ![d] = r]
       /\ h.span[d] = r /\ \A c \in Descs \ {d} : h.span[c] = g.span[c]
  <2>1. h = [span |-> [g.span EXCEPT ![d] = r], pool |-> g.pool]
    BY <1>4, <1>13, SetSpan
  <2> HIDE DEF h
  <2>2. h.span = [g.span EXCEPT ![d] = r] /\ h.pool = g.pool
    BY <2>1
  <2>3. QED BY <1>4, <1>13, <2>1, <2>2
<1> HIDE DEF h
<1>16. Relabelled(g, h)
  <2>1. h.span \in [Descs -> Spans]
    BY <1>13, <1>14, <1>15
  <2>2. \A c \in Descs : /\ h.span[c].st = g.span[c].st /\ h.span[c].base = g.span[c].base
                         /\ h.span[c].np = g.span[c].np /\ h.span[c].scav = g.span[c].scav
                         /\ h.span[c].dirty = g.span[c].dirty
    BY <1>14, <1>15
  <2>3. QED BY <1>15, <2>1, <2>2 DEF Relabelled
<1>17. Part(h, brk) /\ Apart(h, {}) /\ InUse(h) = InUse(heap)
  BY <1>10, <1>16, RelabelKeeps
<1>18. ~h.span[d].dirty
  BY <1>5, <1>11, <1>14, <1>15
<1>19. Claimable(h, m, d, m, left, id)
  BY <1>4, <1>7, <1>9, <1>15, <1>17, <1>18, FreeIsDescs DEF Claimable
<1>20. SetId(m, Place(h, d, m, left, id), d, id) /\ Enter(m, d)
  BY <1>2, <1>3, <1>5, <1>12, NothingToThrow
<1>21. /\ Part(h, brk') /\ brk' \in 0 .. NPages /\ maps' \in [Pages -> SUBSET Sandboxes]
  BY <1>3, <1>8, <1>17
<1>22. IInv'
  BY <1>3, <1>4, <1>17, <1>19, <1>20, <1>21, ClaimKeeps
<1>23. QED BY <1>3, <1>22

\* needzero hands a recycled span over, and changes nothing else of the heap.
LEMMA ZeroedEffect ==
  ASSUME NEW b, NEW a, Part(a.heap, b), a.got \in InUse(a.heap),
         ~a.heap.span[a.got].dirty, NEW needzero \in BOOLEAN, NEW id \in Ids,
         NEW g, g = Zeroed(a, needzero, id)
  PROVE  /\ Relabelled(a.heap, g) /\ ~g.span[a.got].dirty
         /\ \A c \in Descs \ {a.got} : g.span[c] = a.heap.span[c]
         /\ g.span[a.got].sid = IF Zeroing(a, needzero, id) THEN id
                                ELSE a.heap.span[a.got].sid
<1> DEFINE h == a.heap
           d == a.got
           i == IF Zeroing(a, needzero, id) THEN id ELSE h.span[d].sid
           r == [h.span[d] EXCEPT !.sid = i, !.nz = FALSE]
<1>1. /\ h \in [span : [Descs -> Spans], pool : Seq(Descs)] /\ d \in Descs
      /\ h.span[d] \in Spans /\ h.span[d].sid \in Ids
  BY FreeIsDescs DEF Part, Spans
<1>2. g = [h EXCEPT !.span[d] = r]
  <2>1. CASE Zeroing(a, needzero, id)
    <3> DEFINE r1 == [h.span[d] EXCEPT !.sid = id]
               h1 == [h EXCEPT !.span[d] = r1]
    <3>1. g = [h1 EXCEPT !.span[d] = [h1.span[d] EXCEPT !.nz = FALSE]]
      BY <2>1 DEF Zeroed
    <3>2. r1 \in Spans /\ r = [r1 EXCEPT !.nz = FALSE]
      BY <1>1, <2>1 DEF Spans
    <3> HIDE DEF r1, r
    <3>3. /\ h1 = [span |-> [h.span EXCEPT ![d] = r1], pool |-> h.pool] /\ h1.span[d] = r1
      BY <1>1, SetSpan
    <3> HIDE DEF h1
    <3>4. g = [h1 EXCEPT !.span[d] = r]
      BY <3>1, <3>2, <3>3
    <3>5. h1 \in [span : [Descs -> Spans], pool : Seq(Descs)]
      BY <1>1, <3>2, <3>3
    <3>6. g = [span |-> [h1.span EXCEPT ![d] = r], pool |-> h1.pool]
      BY <1>1, <3>4, <3>5, SetSpan
    <3>7. [h EXCEPT !.span[d] = r] = [span |-> [h.span EXCEPT ![d] = r], pool |-> h.pool]
      BY <1>1, SetSpan
    <3>8. /\ h1.span = [h.span EXCEPT ![d] = r1] /\ h1.pool = h.pool
          /\ h.span \in [Descs -> Spans]
      BY <1>1, <3>3
    <3>9. [h1.span EXCEPT ![d] = r] = [h.span EXCEPT ![d] = r]
      <4> DEFINE f == h.span
                 f1 == h1.span
      <4>1. f \in [Descs -> Spans] /\ f1 = [f EXCEPT ![d] = r1]
        BY <3>8
      <4> HIDE DEF f, f1
      <4>2. [f1 EXCEPT ![d] = r] = [f EXCEPT ![d] = r]
        BY <4>1
      <4>3. QED BY <4>2 DEF f, f1
    <3>10. QED BY <3>6, <3>7, <3>8, <3>9
  <2>2. CASE ~Zeroing(a, needzero, id)
    <3>1. g = [h EXCEPT !.span[d] = [h.span[d] EXCEPT !.nz = FALSE]]
      BY <2>2 DEF Zeroed
    <3>2. r = [h.span[d] EXCEPT !.nz = FALSE]
      BY <1>1, <2>2 DEF Spans
    <3>3. QED BY <3>1, <3>2
  <2>3. QED BY <2>1, <2>2
<1>3. i \in Ids
  BY <1>1
<1> HIDE DEF i
<1>4. /\ r \in Spans /\ r.st = h.span[d].st /\ r.base = h.span[d].base
      /\ r.np = h.span[d].np /\ r.scav = h.span[d].scav
      /\ r.dirty = h.span[d].dirty /\ r.sid = i
  BY <1>1, <1>3 DEF Spans
<1> HIDE DEF r
<1>5. /\ g = [span |-> [h.span EXCEPT ![d] = r], pool |-> h.pool]
      /\ g.span[d] = r /\ \A c \in Descs \ {d} : g.span[c] = h.span[c]
  BY <1>1, <1>2, SetSpan
<1>6. g.span = [h.span EXCEPT ![d] = r] /\ g.pool = h.pool
  BY <1>5
<1>7. Relabelled(h, g)
  <2>1. g.span \in [Descs -> Spans] /\ g = [span |-> g.span, pool |-> h.pool]
    BY <1>1, <1>4, <1>5, <1>6
  <2>2. \A c \in Descs : /\ g.span[c].st = h.span[c].st /\ g.span[c].base = h.span[c].base
                         /\ g.span[c].np = h.span[c].np /\ g.span[c].scav = h.span[c].scav
                         /\ g.span[c].dirty = h.span[c].dirty
    BY <1>4, <1>5
  <2> HIDE DEF h
  <2>3. QED BY <2>1, <2>2 DEF Relabelled
<1>8. QED BY <1>4, <1>5, <1>7 DEF i

\* A span fresh from the page heap, before its id is set.
LEMMA FreshSpan ==
  ASSUME IInv, NEW m \in Ms, malloc[m] = NoD, NEW id \in Ids, NEW n \in Nat \ {0},
         CanAlloc(n), NEW a, a = AllocSpan(n), NEW needzero \in BOOLEAN, NEW zid \in Ids,
         NEW loc, NEW h,
         \/ loc = m /\ h = Dropped(Zeroed(a, needzero, zid), m, id)
         \/ loc = "large" /\ h = Zeroed(a, needzero, zid)
  PROVE  /\ a.got \in Descs /\ Claimable(h, m, a.got, loc, NoObjs, id)
         /\ Part(h, NewBrk(n)) /\ Apart(h, {}) /\ NewBrk(n) \in 0 .. NPages
         /\ PagesOf(h, a.got) = PagesOf(a.heap, a.got) /\ a.heap.span[a.got].sid \in Ids
         /\ Zeroing(a, needzero, zid) => h.span[a.got].sid = zid
<1> DEFINE d == a.got
           z == Zeroed(a, needzero, zid)
<1>1. /\ Part(heap, brk) /\ Apart(heap, {}) /\ brk \in 0 .. NPages
  BY DEF IInv, HeapInv
<1>2. /\ NewBrk(n) \in 0 .. NPages /\ Part(a.heap, NewBrk(n)) /\ Apart(a.heap, {})
      /\ d \in Descs /\ d \notin InUse(heap) /\ InUse(a.heap) = InUse(heap) \cup {d}
      /\ \A c \in InUse(heap) : a.heap.span[c] = heap.span[c]
      /\ ~a.heap.span[d].dirty
  BY <1>1, AllocKeeps
<1> DEFINE Effect(g) == /\ Relabelled(a.heap, g) /\ ~g.span[d].dirty
                        /\ \A c \in Descs \ {d} : g.span[c] = a.heap.span[c]
                        /\ g.span[d].sid = IF Zeroing(a, needzero, zid) THEN zid
                                           ELSE a.heap.span[d].sid
<1>3. Effect(z)
  <2>1. d \in InUse(a.heap)
    BY <1>2
  <2>2. QED BY <1>2, <2>1, ZeroedEffect
<1> HIDE DEF z
<1>4. Part(z, NewBrk(n)) /\ Apart(z, {}) /\ InUse(z) = InUse(a.heap)
  BY <1>2, <1>3, RelabelKeeps
<1>5. d \notin Cached(m, id) /\ \A c \in Cached(m, id) : c \in InUse(heap)
  BY <1>2 DEF Cached, InList
<1>6. NoObjs.n \in Nat /\ NoObjs.n < NElems /\ NoObjs.of \subseteq {id}
  BY HeapAssumption DEF NoObjs
<1>7. a.heap.span[d].sid \in Ids
  BY <1>2, SpanTypes DEF Spans
<1>8. \A g : Relabelled(a.heap, g) => PagesOf(g, d) = PagesOf(a.heap, d)
  BY <1>2 DEF Relabelled, PagesOf, End
<1>9. CASE loc = m /\ h = Dropped(z, m, id)
  <2>1. /\ Relabelled(z, h)
        /\ \A c \in Descs : h.span[c] = IF c \in Cached(m, id)
                                        THEN [z.span[c] EXCEPT !.loc = "empty"]
                                        ELSE z.span[c]
    BY <1>4, <1>9, DroppedEffect
  <2>2. Part(h, NewBrk(n)) /\ Apart(h, {}) /\ InUse(h) = InUse(heap) \cup {d}
    BY <1>2, <1>4, <2>1, RelabelKeeps
  <2>3. h.span[d] = z.span[d]
    BY <1>2, <1>5, <2>1
  <2>4. \A c \in InUse(heap) \ {d} :
           h.span[c] = IF c \in Cached(m, id)
                       THEN [heap.span[c] EXCEPT !.loc = "empty"] ELSE heap.span[c]
    BY <1>2, <1>3, <2>1, FreeIsDescs
  <2>5. Claimable(h, m, d, loc, NoObjs, id)
    BY <1>2, <1>3, <1>6, <1>9, <2>2, <2>3, <2>4 DEF Claimable
  <2>6. Relabelled(a.heap, h)
    BY <1>3, <2>1, RelabelledTransitive
  <2>7. QED BY <1>2, <1>3, <1>7, <1>8, <2>2, <2>3, <2>5, <2>6
<1>10. CASE loc = "large" /\ h = z
  <2>1. loc # m
    BY <1>10, HeapAssumption
  <2>2. \A c \in InUse(heap) \ {d} : h.span[c] = heap.span[c]
    BY <1>2, <1>3, <1>10, FreeIsDescs
  <2>3. Claimable(h, m, d, loc, NoObjs, id)
    BY <1>2, <1>3, <1>4, <1>6, <1>10, <2>1, <2>2 DEF Claimable
  <2>4. QED BY <1>2, <1>3, <1>4, <1>7, <1>8, <1>10, <2>3
<1>11. QED BY <1>9, <1>10 DEF z

LEMMA FreshKeeps ==
  ASSUME IInv, NEW m \in Ms, Idle(m), NEW id \in Ids, NEW n \in Nat \ {0},
         CanAlloc(n), NEW a, a = AllocSpan(n), NEW needzero \in BOOLEAN, NEW zid \in Ids,
         NEW loc, NEW h,
         \/ loc = m /\ h = Dropped(Zeroed(a, needzero, zid), m, id)
         \/ loc = "large" /\ h = Zeroed(a, needzero, zid),
         \/ SetIdThrows(m, h, a.got, id)
         \/ /\ SetId(m, Place(h, a.got, loc, NoObjs, id), a.got, id)
            /\ maps' = MapsAfter(a, needzero, zid) /\ brk' = NewBrk(n) /\ Enter(m, a.got)
  PROVE  IInv' /\ MapsOwned
<1> DEFINE d == a.got
<1>1. malloc[m] = NoD
  BY DEF Idle
<1>2. /\ d \in Descs /\ Claimable(h, m, d, loc, NoObjs, id)
      /\ Part(h, NewBrk(n)) /\ Apart(h, {}) /\ NewBrk(n) \in 0 .. NPages
      /\ PagesOf(h, d) = PagesOf(a.heap, d) /\ a.heap.span[d].sid \in Ids
      /\ Zeroing(a, needzero, zid) => h.span[d].sid = zid
  BY <1>1, FreshSpan
<1>3. /\ SetId(m, Place(h, d, loc, NoObjs, id), d, id)
      /\ maps' = MapsAfter(a, needzero, zid) /\ brk' = NewBrk(n) /\ Enter(m, d)
  <2>1. ~h.span[d].dirty
    BY <1>2 DEF Claimable
  <2>2. QED BY <1>1, <2>1, NothingToThrow
<1>4. maps \in [Pages -> SUBSET Sandboxes]
  BY DEF IInv, VarInv
<1>5. maps' \in [Pages -> SUBSET Sandboxes]
  BY <1>2, <1>3, <1>4, TransferIs DEF MapsAfter
<1>6. /\ IInv' /\ d \in InUse(heap') /\ PagesOf(heap', d) = PagesOf(h, d)
      /\ ToldId(heap'.span[d]) = h.span[d].sid
  <2>1. Part(h, brk') /\ brk' \in 0 .. NPages
    BY <1>2, <1>3
  <2> HIDE DEF d
  <2>2. QED BY <1>2, <1>3, <1>5, <2>1, ClaimKeeps
<1>7. MapsOwned
  <2>1. SUFFICES ASSUME NEW p \in Pages, maps'[p] # maps[p]
                 PROVE  LET viewers == PkgDeps[ToldId(heap'.span[d])]
                        IN  /\ p \in PagesOf(heap', d)
                            /\ viewers \subseteq maps'[p]
                            /\ maps'[p] \subseteq maps[p] \cup viewers
    BY <1>6 DEF MapsOwned, InUse, PagesOf, End
  <2>2. /\ Zeroing(a, needzero, zid) /\ p \in PagesOf(a.heap, d)
        /\ PkgDeps[zid] \subseteq maps'[p] /\ maps'[p] \subseteq maps[p] \cup PkgDeps[zid]
    BY <1>2, <1>3, <1>4, <2>1, TransferIs DEF MapsAfter
  <2>3. QED BY <1>2, <1>6, <2>2
<1>8. QED BY <1>6, <1>7

LEMMA MallocKeeps ==
  ASSUME IInv, NEW m \in Ms, NEW id \in Ids, NEW needzero \in BOOLEAN,
         MallocGrow(m, id) \/ MallocLarge(m, id, needzero)
  PROVE  IInv' /\ MapsOwned
<1>1. RUNTIME \in Ids
  BY DEF Ids
<1>2. CASE MallocGrow(m, id)
  <2> DEFINE a == AllocSpan(1)
             h == Dropped(Zeroed(a, TRUE, id), m, id)
  <2>1. /\ Idle(m) /\ CanAlloc(1)
        /\ \/ SetIdThrows(m, h, a.got, id)
           \/ /\ SetId(m, Place(h, a.got, m, NoObjs, id), a.got, id)
              /\ maps' = MapsAfter(a, TRUE, id) /\ brk' = NewBrk(1) /\ Enter(m, a.got)
    BY <1>2 DEF MallocGrow, NeedsRefill
  <2> HIDE DEF a
  <2>2. a = AllocSpan(1)
    BY DEF a
  <2>3. h = Dropped(Zeroed(a, TRUE, id), m, id)
    OBVIOUS
  <2> HIDE DEF h
  <2>4. 1 \in Nat \ {0} /\ Idle(m) /\ CanAlloc(1) /\ TRUE \in BOOLEAN
    BY <2>1
  <2>5. \/ SetIdThrows(m, h, a.got, id)
        \/ /\ SetId(m, Place(h, a.got, m, NoObjs, id), a.got, id)
           /\ maps' = MapsAfter(a, TRUE, id) /\ brk' = NewBrk(1) /\ Enter(m, a.got)
    BY <2>1
  <2> DEFINE nz == TRUE
             one == 1
  <2>6. /\ nz \in BOOLEAN /\ one \in Nat \ {0} /\ CanAlloc(one) /\ a = AllocSpan(one)
        /\ h = Dropped(Zeroed(a, nz, id), m, id) /\ Idle(m)
        /\ \/ SetIdThrows(m, h, a.got, id)
           \/ /\ SetId(m, Place(h, a.got, m, NoObjs, id), a.got, id)
              /\ maps' = MapsAfter(a, nz, id) /\ brk' = NewBrk(one) /\ Enter(m, a.got)
    BY <2>2, <2>3, <2>4, <2>5
  <2> HIDE DEF nz, one
  <2>7. QED BY <2>6, FreshKeeps
<1>3. CASE MallocLarge(m, id, needzero)
  <2> DEFINE a == AllocSpan(2)
             h == Zeroed(a, needzero, RUNTIME)
  <2>1. /\ Idle(m) /\ CanAlloc(2)
        /\ \/ SetIdThrows(m, h, a.got, id)
           \/ /\ SetId(m, Place(h, a.got, "large", NoObjs, id), a.got, id)
              /\ maps' = MapsAfter(a, needzero, RUNTIME) /\ brk' = NewBrk(2)
              /\ Enter(m, a.got)
    BY <1>3 DEF MallocLarge
  <2> HIDE DEF a
  <2>2. a = AllocSpan(2)
    BY DEF a
  <2>3. h = Zeroed(a, needzero, RUNTIME)
    OBVIOUS
  <2> HIDE DEF h
  <2> DEFINE loc == "large"
  <2>4. /\ loc = "large"
        /\ \/ SetIdThrows(m, h, a.got, id)
           \/ /\ SetId(m, Place(h, a.got, loc, NoObjs, id), a.got, id)
              /\ maps' = MapsAfter(a, needzero, RUNTIME) /\ brk' = NewBrk(2)
              /\ Enter(m, a.got)
    BY <2>1
  <2> HIDE DEF loc
  <2>5. 2 \in Nat \ {0} /\ Idle(m) /\ CanAlloc(2)
    BY <2>1
  <2>6. QED BY <1>1, <2>2, <2>3, <2>4, <2>5, FreshKeeps
<1>4. QED BY <1>2, <1>3

-----------------------------------------------------------------------------
(* releasem, and the locks around mallocgc.                                 *)

LEMMA MallocEndKeeps ==
  ASSUME IInv, NEW m \in Ms, MallocEnd(m)
  PROVE  IInv' /\ MapsOwned
<1>1. /\ HeapInv /\ VarInv /\ LockInv /\ ClaimInv /\ CleanInv
      /\ Homogeneous /\ OneInv /\ NoThrow
  BY DEF IInv
<1>2. /\ malloc[m] # NoD /\ malloc' = [malloc EXCEPT ![m] = NoD]
      /\ locks' = [locks EXCEPT ![m] = locks[m] - 1] /\ UNCHANGED <<brk, crash>>
  BY DEF MallocEnd, Releasem
<1>3. /\ malloc'[m] = NoD /\ locks[m] \in Nat /\ locks[m] > 0 /\ locks[m] <= MaxLocks + 1
      /\ locks'[m] = locks[m] - 1 /\ MaxLocks \in Nat
      /\ \A k \in Ms \ {m} : malloc'[k] = malloc[k] /\ locks'[k] = locks[k]
      /\ malloc' \in [Ms -> Descs \cup {NoD}] /\ locks' \in [Ms -> Nat]
  BY <1>1, <1>2, HeapAssumption DEF VarInv, LockInv
<1>4. LockInv'
  BY <1>1, <1>3 DEF LockInv
<1>5. NoThrow'
  BY <1>1, <1>2 DEF NoThrow
<1>6. CASE toclean[m] = NoD
  <2>1. UNCHANGED <<toclean, nester, maps, heap>>
    BY <1>6 DEF MallocEnd, Releasem
  <2>2. HeapInv' /\ VarInv' /\ Homogeneous' /\ OneInv'
    BY <1>1, <1>2, <1>3, <2>1
       DEF HeapInv, VarInv, Part, Apart, Live, Free, InUse, End, Homogeneous, OneInv
  <2>3. ClaimInv'
    BY <1>1, <1>3, <2>1 DEF ClaimInv, InUse
  <2>4. CleanInv'
    BY <1>1, <1>3, <1>6, <2>1 DEF CleanInv
  <2>5. MapsOwned
    BY <2>1 DEF MapsOwned
  <2>6. QED BY <1>4, <1>5, <2>2, <2>3, <2>4, <2>5 DEF IInv
<1>7. CASE toclean[m] # NoD
  <2> DEFINE d == toclean[m]
             r == [heap.span[d] EXCEPT !.dirty = FALSE, !.oldid = RUNTIME]
  <2>1. /\ d = malloc[m] /\ nester[m] = locks[m] /\ heap.span[d].dirty
        /\ d \in InUse(heap) /\ d \in Descs
    BY <1>1, <1>7, FreeIsDescs DEF CleanInv, ClaimInv
  <2>2. /\ toclean' = [toclean EXCEPT ![m] = NoD] /\ nester' = [nester EXCEPT ![m] = 0]
        /\ maps' = DoRegistration(d) /\ heap' = [heap EXCEPT !.span[d] = r]
    BY <1>7, <2>1 DEF MallocEnd, Releasem
  <2>3. /\ heap \in [span : [Descs -> Spans], pool : Seq(Descs)] /\ heap.span[d] \in Spans
        /\ heap.span[d].sid \in Ids /\ heap.span[d].oldid \in Ids /\ RUNTIME \in Ids
    BY <1>1, <2>1 DEF HeapInv, Part, Spans, Ids
  <2> HIDE DEF d
  <2>4. /\ r \in Spans /\ r.st = heap.span[d].st /\ r.base = heap.span[d].base
        /\ r.np = heap.span[d].np /\ r.scav = heap.span[d].scav /\ ~r.dirty
        /\ r.sid = heap.span[d].sid /\ r.objs = heap.span[d].objs
        /\ r.loc = heap.span[d].loc
    BY <2>3 DEF Spans
  <2> HIDE DEF r
  <2>5. /\ heap' = [span |-> [heap.span EXCEPT ![d] = r], pool |-> heap.pool]
        /\ heap'.span[d] = r /\ \A c \in Descs \ {d} : heap'.span[c] = heap.span[c]
    BY <2>1, <2>2, <2>3, SetSpan
  <2>6. Relabelled(heap, heap')
    <3>1. heap'.span = [heap.span EXCEPT ![d] = r] /\ heap'.pool = heap.pool
      BY <2>5
    <3>2. heap'.span \in [Descs -> Spans] /\ heap' = [span |-> heap'.span, pool |-> heap.pool]
      BY <2>3, <2>4, <2>5, <3>1
    <3>3. \A c \in Descs : /\ heap'.span[c].st = heap.span[c].st
                           /\ heap'.span[c].base = heap.span[c].base
                           /\ heap'.span[c].np = heap.span[c].np
                           /\ heap'.span[c].scav = heap.span[c].scav
      BY <2>4, <2>5
    <3>4. \A c \in Descs \ InUse(heap) : heap'.span[c].dirty = heap.span[c].dirty
      BY <2>1, <2>5
    <3>5. QED BY <3>2, <3>3, <3>4 DEF Relabelled
  <2>7. Part(heap', brk) /\ Apart(heap', {}) /\ InUse(heap') = InUse(heap)
    BY <1>1, <2>6, RelabelKeeps DEF HeapInv
  <2>8. HeapInv'
    BY <1>1, <1>2, <2>7 DEF HeapInv, Part, Apart, Live, Free, InUse, End
  <2>9. VarInv'
    <3>1. maps' \in [Pages -> SUBSET Sandboxes]
      BY <1>1, <2>2, <2>3, TransferIs DEF DoRegistration, VarInv
    <3>2. nester' \in [Ms -> Nat] /\ toclean' \in [Ms -> Descs \cup {NoD}]
      BY <1>1, <2>2 DEF VarInv
    <3>3. QED BY <1>3, <3>1, <3>2 DEF VarInv
  <2>10. \A c \in InUse(heap) : /\ heap'.span[c].sid = heap.span[c].sid
                                /\ heap'.span[c].objs = heap.span[c].objs
                                /\ heap'.span[c].loc = heap.span[c].loc
    BY <2>4, <2>5, FreeIsDescs
  <2>11. Homogeneous' /\ OneInv'
    BY <1>1, <2>7, <2>10 DEF Homogeneous, OneInv, InUse
  <2>12. ClaimInv'
    <3>1. ASSUME NEW k \in Ms, malloc'[k] # NoD
          PROVE  malloc'[k] \in InUse(heap') /\ heap'.span[malloc'[k]].loc \in {k, "large"}
      BY <3>1, <1>1, <1>3, <2>7, <2>10 DEF ClaimInv
    <3>2. ASSUME NEW k \in Ms, NEW l \in Ms, malloc'[k] = malloc'[l], malloc'[k] # NoD
          PROVE  k = l
      BY <3>2, <1>1, <1>3 DEF ClaimInv
    <3>3. QED BY <3>1, <3>2 DEF ClaimInv, InUse
  <2>13. /\ toclean'[m] = NoD
         /\ \A k \in Ms \ {m} : toclean'[k] = toclean[k] /\ nester'[k] = nester[k]
    BY <1>1, <2>2 DEF VarInv
  <2>14. CleanInv'
    <3>1. ASSUME NEW k \in Ms, toclean'[k] # NoD
          PROVE  /\ toclean'[k] = malloc'[k] /\ nester'[k] = locks'[k]
                 /\ heap'.span[toclean'[k]].dirty
      <4>1. k # m
        BY <3>1, <2>13
      <4>2. /\ toclean[k] = malloc[k] /\ nester[k] = locks[k] /\ heap.span[toclean[k]].dirty
            /\ malloc[k] # NoD /\ malloc[k] \in InUse(heap)
        BY <3>1, <4>1, <1>1, <2>13 DEF CleanInv, ClaimInv
      <4>3. malloc[k] # d /\ malloc[k] \in Descs
        BY <4>1, <4>2, <2>1, <1>1, FreeIsDescs DEF ClaimInv
      <4>4. QED BY <4>1, <4>2, <4>3, <1>3, <2>5, <2>13
    <3>2. ASSUME NEW c \in Descs, heap'.span[c].dirty
          PROVE  \E k \in Ms : toclean'[k] = c
      <4>1. c # d /\ heap.span[c].dirty
        BY <3>2, <2>4, <2>5
      <4>2. PICK k \in Ms : toclean[k] = c
        BY <4>1, <1>1 DEF CleanInv
      <4>3. k # m
        BY <4>1, <4>2 DEF d
      <4>4. QED BY <4>2, <4>3, <2>13
    <3>3. QED BY <3>1, <3>2 DEF CleanInv
  <2>15. MapsOwned
    <3>1. d \in InUse(heap')
      BY <2>1, <2>7
    <3>2. SUFFICES ASSUME NEW p \in Pages, maps'[p] # maps[p]
                   PROVE  LET viewers == PkgDeps[ToldId(heap'.span[d])]
                          IN  /\ p \in PagesOf(heap', d)
                              /\ viewers \subseteq maps'[p]
                              /\ maps'[p] \subseteq maps[p] \cup viewers
      BY <3>1 DEF MapsOwned, InUse, PagesOf, End
    <3>3. maps \in [Pages -> SUBSET Sandboxes]
      BY <1>1 DEF VarInv
    <3>4. /\ p \in PagesOf(heap, d) /\ PkgDeps[heap.span[d].sid] \subseteq maps'[p]
          /\ maps'[p] \subseteq maps[p] \cup PkgDeps[heap.span[d].sid]
      BY <2>2, <2>3, <3>2, <3>3, TransferIs DEF DoRegistration
    <3>5. PagesOf(heap', d) = PagesOf(heap, d)
      BY <2>4, <2>5 DEF PagesOf, End
    <3>6. ToldId(heap'.span[d]) = heap.span[d].sid
      BY <2>4, <2>5 DEF ToldId
    <3>7. QED BY <3>4, <3>5, <3>6
  <2>16. QED BY <1>4, <1>5, <2>8, <2>9, <2>11, <2>12, <2>14, <2>15 DEF IInv
<1>8. QED BY <1>6, <1>7

LEMMA LocksKeep ==
  ASSUME IInv, NEW m \in Ms, AcquireM(m) \/ ReleaseM(m)
  PROVE  IInv' /\ UNCHANGED maps
<1>1. /\ HeapInv /\ VarInv /\ LockInv /\ ClaimInv /\ CleanInv
      /\ Homogeneous /\ OneInv /\ NoThrow /\ MaxLocks \in Nat
  BY HeapAssumption DEF IInv
<1>2. malloc[m] = NoD /\ toclean[m] = NoD
  BY <1>1 DEF AcquireM, ReleaseM, Idle, CleanInv
<1>3. UNCHANGED <<heap, brk, maps, malloc, nester, toclean, crash>>
  BY <1>2 DEF AcquireM, ReleaseM, Releasem
<1>4. /\ locks' \in [Ms -> Nat] /\ \A k \in Ms \ {m} : locks'[k] = locks[k]
      /\ locks'[m] <= MaxLocks
  <2>1. locks \in [Ms -> Nat] /\ locks[m] \in Nat /\ locks[m] <= MaxLocks
    BY <1>1, <1>2 DEF VarInv, LockInv
  <2>2. \/ locks' = [locks EXCEPT ![m] = locks[m] + 1] /\ locks[m] < MaxLocks
        \/ locks' = [locks EXCEPT ![m] = locks[m] - 1] /\ locks[m] > 0
    BY DEF AcquireM, ReleaseM, Releasem
  <2>3. QED BY <1>1, <2>1, <2>2
<1>5. VarInv' /\ LockInv'
  BY <1>1, <1>2, <1>3, <1>4 DEF VarInv, LockInv
<1>6. CleanInv'
  BY <1>1, <1>2, <1>3, <1>4, HeapAssumption DEF CleanInv
<1>7. HeapInv' /\ ClaimInv' /\ Homogeneous' /\ OneInv' /\ NoThrow'
  BY <1>1, <1>3 DEF HeapInv, Part, Apart, Live, Free, InUse, End, ClaimInv, Homogeneous,
                    OneInv, NoThrow
<1>8. QED BY <1>3, <1>5, <1>6, <1>7 DEF IInv

-----------------------------------------------------------------------------
(* The collector.                                                           *)

\* A step of the collector leaves the spans in the threads' hands alone; the
\* others keep their package, lose objects, and may leave a thread's cache.
LEMMA HeapStep ==
  ASSUME IInv, Part(heap', brk), Apart(heap', {}),
         UNCHANGED <<brk, maps, locks, malloc, nester, toclean, crash>>,
         InUse(heap') \subseteq InUse(heap),
         \A m \in Ms : malloc[m] # NoD => malloc[m] \in InUse(heap')
                                          /\ heap'.span[malloc[m]] = heap.span[malloc[m]],
         \A c \in InUse(heap') :
           /\ heap'.span[c].sid = heap.span[c].sid
           /\ heap'.span[c].dirty = heap.span[c].dirty
           /\ heap'.span[c].objs.of \subseteq heap.span[c].objs.of
           /\ heap'.span[c].loc = heap.span[c].loc \/ heap'.span[c].loc \notin Ms
  PROVE  IInv'
<1>1. /\ HeapInv /\ VarInv /\ LockInv /\ ClaimInv /\ CleanInv
      /\ Homogeneous /\ OneInv /\ NoThrow
  BY DEF IInv
<1>2. HeapInv'
  BY <1>1 DEF HeapInv, Part, Apart, Live, Free, InUse, End
<1>3. VarInv' /\ LockInv' /\ NoThrow'
  BY <1>1 DEF VarInv, LockInv, NoThrow
<1>4. ClaimInv'
  BY <1>1 DEF ClaimInv, InUse
<1>5. Homogeneous'
  BY <1>1 DEF Homogeneous, InUse
<1>6. OneInv'
  BY <1>1 DEF OneInv, InUse
<1>7. CleanInv'
  <2>1. ASSUME NEW m \in Ms, toclean'[m] # NoD
        PROVE  /\ toclean'[m] = malloc'[m] /\ nester'[m] = locks'[m]
               /\ heap'.span[toclean'[m]].dirty
    BY <1>1, <2>1 DEF CleanInv
  <2>2. ASSUME NEW c \in Descs, heap'.span[c].dirty
        PROVE  \E m \in Ms : toclean'[m] = c
    <3>1. c \in InUse(heap')
      BY <2>2 DEF Part
    <3>2. heap.span[c].dirty
      BY <2>2, <3>1
    <3>3. QED BY <1>1, <3>2 DEF CleanInv
  <2>3. QED BY <2>1, <2>2 DEF CleanInv
<1>8. QED BY <1>2, <1>3, <1>4, <1>5, <1>6, <1>7 DEF IInv

LEMMA FlushKeeps ==
  ASSUME IInv, NEW m \in Ms, Flush(m)
  PROVE  IInv' /\ UNCHANGED maps
<1> DEFINE r(d) == IF d \notin InList(m) THEN heap.span[d]
                   ELSE [heap.span[d] EXCEPT !.loc = IF Full(d) THEN "empty" ELSE "nonempty"]
           f == [d \in Descs |-> r(d)]
<1>1. /\ malloc[m] = NoD /\ heap' = [heap EXCEPT !.span = f]
      /\ UNCHANGED <<brk, maps, locks, malloc, nester, toclean, crash>>
  BY DEF Flush, Idle
<1>2. /\ Part(heap, brk) /\ Apart(heap, {})
      /\ heap \in [span : [Descs -> Spans], pool : Seq(Descs)]
  BY DEF IInv, HeapInv, Part
<1>3. \A d \in Descs :
        /\ r(d) \in Spans /\ r(d).st = heap.span[d].st /\ r(d).base = heap.span[d].base
        /\ r(d).np = heap.span[d].np /\ r(d).scav = heap.span[d].scav
        /\ r(d).dirty = heap.span[d].dirty /\ r(d).sid = heap.span[d].sid
        /\ r(d).objs = heap.span[d].objs
        /\ r(d).loc = heap.span[d].loc \/ r(d).loc \in {"empty", "nonempty"}
  <2>1. SUFFICES ASSUME NEW d \in Descs
        PROVE  /\ r(d) \in Spans /\ r(d).st = heap.span[d].st
               /\ r(d).base = heap.span[d].base
               /\ r(d).np = heap.span[d].np /\ r(d).scav = heap.span[d].scav
               /\ r(d).dirty = heap.span[d].dirty /\ r(d).sid = heap.span[d].sid
               /\ r(d).objs = heap.span[d].objs
               /\ r(d).loc = heap.span[d].loc \/ r(d).loc \in {"empty", "nonempty"}
    OBVIOUS
  <2>2. heap.span[d] \in Spans
    BY <1>2
  <2>3. CASE d \notin InList(m)
    BY <2>2, <2>3
  <2>4. CASE d \in InList(m)
    <3> DEFINE v == IF Full(d) THEN "empty" ELSE "nonempty"
    <3>1. r(d) = [heap.span[d] EXCEPT !.loc = v]
      BY <2>4
    <3>2. v \in {"empty", "nonempty"}
      OBVIOUS
    <3> HIDE DEF r, v
    <3>3. QED BY <2>2, <3>1, <3>2, Moved
  <2>5. QED BY <2>3, <2>4
<1>4. f \in [Descs -> Spans] /\ \A d \in Descs : f[d] = r(d)
  BY <1>3
<1> HIDE DEF f
<1>5. heap' \in [span : {f}, pool : {heap.pool}]
  BY <1>1, <1>2
<1>6. heap'.span = f /\ heap' = [span |-> heap'.span, pool |-> heap.pool]
  BY <1>5
<1>7. Relabelled(heap, heap')
  BY <1>3, <1>4, <1>6 DEF Relabelled
<1>8. Part(heap', brk) /\ Apart(heap', {}) /\ InUse(heap') = InUse(heap)
  BY <1>2, <1>7, RelabelKeeps
<1>9. ASSUME NEW k \in Ms, malloc[k] # NoD
      PROVE  malloc[k] \in InUse(heap') /\ heap'.span[malloc[k]] = heap.span[malloc[k]]
  <2>1. malloc[k] \in InUse(heap) /\ heap.span[malloc[k]].loc \in {k, "large"} /\ k # m
    BY <1>1, <1>9 DEF IInv, ClaimInv
  <2>2. malloc[k] \notin InList(m)
    BY <2>1, HeapAssumption DEF InList
  <2>3. QED BY <1>4, <1>6, <1>8, <2>1, <2>2, FreeIsDescs
<1>10. \A c \in InUse(heap') :
           /\ heap'.span[c].sid = heap.span[c].sid
           /\ heap'.span[c].dirty = heap.span[c].dirty
           /\ heap'.span[c].objs.of \subseteq heap.span[c].objs.of
           /\ heap'.span[c].loc = heap.span[c].loc \/ heap'.span[c].loc \notin Ms
  <2>1. SUFFICES ASSUME NEW c \in InUse(heap')
                 PROVE  /\ heap'.span[c].sid = heap.span[c].sid
                        /\ heap'.span[c].dirty = heap.span[c].dirty
                        /\ heap'.span[c].objs = heap.span[c].objs
                        /\ \/ heap'.span[c].loc = heap.span[c].loc
                           \/ heap'.span[c].loc \notin Ms
    OBVIOUS
  <2>2. c \in Descs /\ heap'.span[c] = r(c)
    BY <1>4, <1>6, FreeIsDescs
  <2> HIDE DEF r
  <2>3. QED BY <1>3, <2>2, HeapAssumption
<1> HIDE DEF r
<1>11. IInv'
  BY <1>1, <1>8, <1>9, <1>10, HeapStep
<1>12. QED BY <1>1, <1>11

LEMMA SweepKeeps ==
  ASSUME IInv, NEW d \in Descs, Sweep(d)
  PROVE  IInv' /\ UNCHANGED maps
<1>1. PICK left \in Survivors(d) \ {heap.span[d].objs} :
        LET h == [heap EXCEPT !.span[d] = [@ EXCEPT !.objs = left, !.nz = TRUE]]
        IN  heap' = IF left = NoObjs THEN FreeSpan(h, d)
                    ELSE [h EXCEPT !.span[d].loc = "nonempty"]
  BY DEF Sweep
<1>2. /\ UNCHANGED <<brk, maps, locks, malloc, nester, toclean, crash>>
      /\ d \in InUse(heap) /\ \A m \in Ms : malloc[m] # d
  BY DEF Sweep, InUse
<1>3. ~heap.span[d].dirty
  BY <1>2, Untaken
<1>4. /\ Part(heap, brk) /\ Apart(heap, {}) /\ brk \in 0 .. NPages
      /\ heap \in [span : [Descs -> Spans], pool : Seq(Descs)] /\ heap.span[d] \in Spans
  BY DEF IInv, HeapInv, Part
<1>5. /\ left \in [n : 0 .. NElems, of : SUBSET Ids] /\ left.of \subseteq heap.span[d].objs.of
  <2>1. /\ left \in [n : 0 .. heap.span[d].objs.n, of : SUBSET heap.span[d].objs.of]
    BY DEF Survivors, AllocCount
  <2>2. /\ heap.span[d].objs \in [n : 0 .. NElems, of : SUBSET Ids]
    BY <1>4 DEF Spans
  <2>3. 0 .. heap.span[d].objs.n \subseteq 0 .. NElems
    BY <2>2, HeapAssumption
  <2>4. QED BY <2>1, <2>2, <2>3
<1> DEFINE r == [heap.span[d] EXCEPT !.objs = left, !.nz = TRUE]
           h == [heap EXCEPT !.span[d] = r]
<1>6. heap' = IF left = NoObjs THEN FreeSpan(h, d)
              ELSE [h EXCEPT !.span[d] = [h.span[d] EXCEPT !.loc = "nonempty"]]
  BY <1>1
<1>7. /\ r \in Spans /\ r.st = heap.span[d].st /\ r.base = heap.span[d].base
      /\ r.np = heap.span[d].np /\ r.scav = heap.span[d].scav /\ ~r.dirty
      /\ r.sid = heap.span[d].sid /\ r.objs = left
  BY <1>3, <1>4, <1>5 DEF Spans
<1> HIDE DEF r
<1>8. /\ h = [span |-> [heap.span EXCEPT ![d] = r], pool |-> heap.pool]
      /\ h.span[d] = r /\ \A c \in Descs \ {d} : h.span[c] = heap.span[c]
  BY <1>4, SetSpan
<1> HIDE DEF h
<1>9. h.span = [heap.span EXCEPT ![d] = r] /\ h.pool = heap.pool
  BY <1>8
<1>10. Relabelled(heap, h)
  <2>1. h.span \in [Descs -> Spans] /\ h = [span |-> h.span, pool |-> heap.pool]
    BY <1>4, <1>7, <1>8, <1>9
  <2>2. \A c \in Descs : /\ h.span[c].st = heap.span[c].st
                         /\ h.span[c].base = heap.span[c].base
                         /\ h.span[c].np = heap.span[c].np
                         /\ h.span[c].scav = heap.span[c].scav
    BY <1>7, <1>8
  <2>3. \A c \in Descs \ InUse(heap) : h.span[c].dirty = heap.span[c].dirty
    BY <1>2, <1>8
  <2>4. QED BY <2>1, <2>2, <2>3 DEF Relabelled
<1>11. Part(h, brk) /\ Apart(h, {}) /\ InUse(h) = InUse(heap)
  BY <1>4, <1>10, RelabelKeeps
<1>12. ~h.span[d].dirty
  BY <1>7, <1>8
<1>13. CASE left = NoObjs
  <2>1. heap' = FreeSpan(h, d)
    BY <1>6, <1>13
  <2>2. /\ Part(heap', brk) /\ Apart(heap', {}) /\ InUse(heap') = InUse(h) \ {d}
        /\ \A c \in InUse(heap') : heap'.span[c] = h.span[c]
    BY <1>2, <1>4, <1>11, <1>12, <2>1, FreeKeeps
  <2>3. \A c \in InUse(heap') : heap'.span[c] = heap.span[c]
    BY <1>8, <1>11, <2>2, FreeIsDescs
  <2>4. ASSUME NEW k \in Ms, malloc[k] # NoD
        PROVE  malloc[k] \in InUse(heap') /\ heap'.span[malloc[k]] = heap.span[malloc[k]]
    BY <2>4, <1>2, <1>11, <2>2, <2>3 DEF IInv, ClaimInv
  <2>5. InUse(heap') \subseteq InUse(heap)
    BY <1>11, <2>2
  <2>6. IInv'
    BY <1>2, <2>2, <2>3, <2>4, <2>5, HeapStep
  <2>7. QED BY <1>2, <2>6
<1>14. CASE left # NoObjs
  <2> DEFINE t == [r EXCEPT !.loc = "nonempty"]
  <2>1. heap' = [h EXCEPT !.span[d] = t]
    BY <1>6, <1>8, <1>14
  <2>2. /\ t \in Spans /\ t.st = r.st /\ t.base = r.base /\ t.np = r.np /\ t.scav = r.scav
        /\ t.dirty = r.dirty /\ t.sid = r.sid /\ t.objs = r.objs /\ t.loc = "nonempty"
    BY <1>7, Moved
  <2> HIDE DEF t
  <2>3. h \in [span : [Descs -> Spans], pool : Seq(Descs)]
    BY <1>11 DEF Part
  <2>4. /\ heap' = [span |-> [h.span EXCEPT ![d] = t], pool |-> h.pool]
        /\ heap'.span[d] = t /\ \A c \in Descs \ {d} : heap'.span[c] = h.span[c]
    BY <2>1, <2>3, SetSpan
  <2>5. heap'.span = [h.span EXCEPT ![d] = t] /\ heap'.pool = h.pool
    BY <2>4
  <2>6. Relabelled(h, heap')
    <3>1. heap'.span \in [Descs -> Spans] /\ heap' = [span |-> heap'.span, pool |-> h.pool]
      BY <2>2, <2>3, <2>4, <2>5
    <3>2. \A c \in Descs : /\ heap'.span[c].st = h.span[c].st
                           /\ heap'.span[c].base = h.span[c].base
                           /\ heap'.span[c].np = h.span[c].np
                           /\ heap'.span[c].scav = h.span[c].scav
                           /\ heap'.span[c].dirty = h.span[c].dirty
      BY <1>8, <2>2, <2>4
    <3>3. QED BY <3>1, <3>2 DEF Relabelled
  <2>7. Part(heap', brk) /\ Apart(heap', {}) /\ InUse(heap') = InUse(heap)
    BY <1>11, <2>6, RelabelKeeps
  <2>8. \A c \in InUse(heap) \ {d} : heap'.span[c] = heap.span[c]
    BY <1>8, <2>4, FreeIsDescs
  <2>9. ASSUME NEW k \in Ms, malloc[k] # NoD
        PROVE  malloc[k] \in InUse(heap') /\ heap'.span[malloc[k]] = heap.span[malloc[k]]
    BY <2>9, <1>2, <2>7, <2>8 DEF IInv, ClaimInv
  <2>10. ASSUME NEW c \in InUse(heap')
         PROVE  /\ heap'.span[c].sid = heap.span[c].sid
                /\ heap'.span[c].dirty = heap.span[c].dirty
                /\ heap'.span[c].objs.of \subseteq heap.span[c].objs.of
                /\ heap'.span[c].loc = heap.span[c].loc \/ heap'.span[c].loc \notin Ms
    <3>1. CASE c = d
      <4>1. heap'.span[d].dirty = r.dirty /\ r.dirty = heap.span[d].dirty
        BY <1>3, <1>4, <1>7, <2>2, <2>4 DEF Spans
      <4>2. heap'.span[d].loc \notin Ms
        BY <2>2, <2>4, HeapAssumption
      <4>3. heap'.span[d].sid = heap.span[d].sid /\ heap'.span[d].objs = left
        BY <1>7, <2>2, <2>4
      <4>4. QED BY <3>1, <1>5, <4>1, <4>2, <4>3
    <3>2. CASE c # d
      BY <3>2, <2>7, <2>8
    <3>3. QED BY <3>1, <3>2
  <2>11. IInv'
    BY <1>2, <2>7, <2>9, <2>10, HeapStep
  <2>12. QED BY <1>2, <2>11
<1>15. QED BY <1>13, <1>14

LEMMA ScavengeStep ==
  ASSUME IInv, NEW d \in Descs, NEW n \in 1 .. NPages, Scavenge(d, n)
  PROVE  IInv' /\ UNCHANGED maps
<1>1. UNCHANGED <<brk, maps, locks, malloc, nester, toclean, crash>>
  BY DEF Scavenge
<1>2. n \in Nat /\ Part(heap, brk) /\ Apart(heap, {}) /\ brk \in 0 .. NPages
  BY HeapAssumption DEF IInv, HeapInv
<1>3. Part(heap', brk) /\ Apart(heap', {}) /\ SameInUse(heap, heap')
  BY <1>2, ScavengeKeeps
<1>4. InUse(heap') = InUse(heap) /\ \A c \in InUse(heap) : heap'.span[c] = heap.span[c]
  BY <1>3 DEF SameInUse
<1>5. ASSUME NEW k \in Ms, malloc[k] # NoD
      PROVE  malloc[k] \in InUse(heap') /\ heap'.span[malloc[k]] = heap.span[malloc[k]]
  BY <1>4, <1>5 DEF IInv, ClaimInv
<1>6. IInv'
  BY <1>1, <1>3, <1>4, <1>5, HeapStep
<1>7. QED BY <1>1, <1>6

-----------------------------------------------------------------------------
(* The theorems.                                                            *)

\* As many descriptors as there are places in the list: all of them are on it.
LEMMA InitPool ==
  ASSUME NEW order \in [1 .. Cardinality(Descs) -> Descs], IsInjective(order)
  PROVE  order \in Seq(Descs) /\ Range(order) = Descs
<1> DEFINE n == Cardinality(Descs)
<1>1. IsFiniteSet(Descs) /\ n \in Nat
  BY HeapAssumption, FS_CardinalityType
<1>2. IsFiniteSet(1 .. n) /\ Cardinality(1 .. n) = n
  <2>1. 1 \in Int /\ n \in Int
    BY <1>1
  <2> HIDE DEF n
  <2>2. IsFiniteSet(1 .. n) /\ Cardinality(1 .. n) = IF 1 > n THEN 0 ELSE n - 1 + 1
    BY <2>1, FS_Interval
  <2>3. QED BY <1>1, <2>2
<1> HIDE DEF n
<1>3. order \in Injection(1 .. n, Descs)
  BY DEF Injection, n
<1>4. order \in Surjection(1 .. n, Descs)
  BY <1>1, <1>2, <1>3, FS_Injection DEF n
<1>5. Range(order) = Descs
  BY <1>4 DEF Surjection, Range, n
<1>6. order \in Seq(Descs)
  BY <1>1 DEF n
<1>7. QED BY <1>5, <1>6

LEMMA InitInv == Init => IInv
<1> SUFFICES ASSUME Init PROVE IInv
  OBVIOUS
<1>1. PICK order \in [1 .. Cardinality(Descs) -> Descs] :
        /\ IsInjective(order)
        /\ heap = [span |-> [d \in Descs |-> Blank], pool |-> order]
  BY DEF Init
<1>2. /\ brk = 0 /\ maps = [p \in Pages |-> PkgDeps[RUNTIME]] /\ locks = [m \in Ms |-> 0]
      /\ malloc = [m \in Ms |-> NoD] /\ nester = [m \in Ms |-> 0]
      /\ toclean = [m \in Ms |-> NoD] /\ crash = "none"
  BY DEF Init
<1>3. order \in Seq(Descs) /\ Range(order) = Descs
  BY <1>1, InitPool
<1>4. Blank \in Spans /\ Blank.st = "pool" /\ ~Blank.dirty
  BY HeapAssumption DEF Blank, NoObjs, Spans, Pages, Ids
<1>5. /\ heap.span \in [Descs -> Spans] /\ heap.pool = order
      /\ \A d \in Descs : heap.span[d] = Blank
      /\ heap \in [span : [Descs -> Spans], pool : Seq(Descs)]
  <2> HIDE DEF Blank
  <2>1. QED BY <1>1, <1>3, <1>4
<1>6. Free(heap) = {} /\ InUse(heap) = {} /\ Live(heap) = {}
  BY <1>4, <1>5 DEF Free, InUse, Live
<1>7. HeapInv
  <2>1. brk \in 0 .. NPages /\ 0 .. brk - 1 = {}
    BY <1>2, HeapAssumption
  <2>2. QED BY <1>1, <1>3, <1>4, <1>5, <1>6, <2>1 DEF HeapInv, Part, Apart
<1>8. VarInv /\ LockInv /\ ClaimInv
  BY <1>2, HeapAssumption DEF VarInv, LockInv, ClaimInv, Ids
<1>9. CleanInv
  BY <1>2, <1>4, <1>5 DEF CleanInv
<1>10. Homogeneous /\ OneInv /\ NoThrow
  BY <1>2, <1>6 DEF Homogeneous, OneInv, NoThrow
<1>11. QED BY <1>7, <1>8, <1>9, <1>10 DEF IInv

\* Every step keeps the invariant, and tells the backend nothing of a page that
\* its span does not hold.
LEMMA StepKeeps == IInv /\ [Next]_vars => IInv' /\ MapsOwned
<1> SUFFICES ASSUME IInv, [Next]_vars PROVE IInv' /\ MapsOwned
  OBVIOUS
<1>1. UNCHANGED maps => MapsOwned
  BY DEF MapsOwned
<1>2. ASSUME NEW m \in Ms, NEW id \in Ids, MallocCached(m, id)
      PROVE  IInv' /\ MapsOwned
  BY <1>1, <1>2, CachedKeeps
<1>3. ASSUME NEW m \in Ms, NEW id \in Ids, MallocCentral(m, id)
      PROVE  IInv' /\ MapsOwned
  BY <1>1, <1>3, CentralKeeps
<1>4. ASSUME NEW m \in Ms, NEW id \in Ids,
             MallocGrow(m, id) \/ MallocLarge(m, id, TRUE) \/ MallocLarge(m, id, FALSE)
      PROVE  IInv' /\ MapsOwned
  <2>1. CASE MallocGrow(m, id) \/ MallocLarge(m, id, TRUE)
    <3> DEFINE nz == TRUE
    <3>1. nz \in BOOLEAN /\ (MallocGrow(m, id) \/ MallocLarge(m, id, nz))
      BY <2>1
    <3> HIDE DEF nz
    <3>2. QED BY <3>1, MallocKeeps
  <2>2. CASE MallocLarge(m, id, FALSE)
    <3> DEFINE nz == FALSE
    <3>1. nz \in BOOLEAN /\ MallocLarge(m, id, nz)
      BY <2>2
    <3> HIDE DEF nz
    <3>2. QED BY <3>1, MallocKeeps
  <2>3. QED BY <1>4, <2>1, <2>2
<1>5. ASSUME NEW m \in Ms, MallocEnd(m)
      PROVE  IInv' /\ MapsOwned
  BY <1>5, MallocEndKeeps
<1>6. ASSUME NEW m \in Ms, AcquireM(m) \/ ReleaseM(m)
      PROVE  IInv' /\ MapsOwned
  BY <1>1, <1>6, LocksKeep
<1>7. ASSUME NEW m \in Ms, Flush(m)
      PROVE  IInv' /\ MapsOwned
  BY <1>1, <1>7, FlushKeeps
<1>8. ASSUME NEW d \in Descs, Sweep(d)
      PROVE  IInv' /\ MapsOwned
  BY <1>1, <1>8, SweepKeeps
<1>9. ASSUME NEW d \in Descs, NEW n \in 1 .. NPages, Scavenge(d, n)
      PROVE  IInv' /\ MapsOwned
  BY <1>1, <1>9, ScavengeStep
<1>10. CASE UNCHANGED vars
  <2>1. UNCHANGED <<heap, brk, maps, locks, malloc, nester, toclean, crash>>
    BY <1>10 DEF vars
  <2>2. IInv'
    BY <2>1 DEF IInv, HeapInv, Part, Apart, Live, Free, InUse, End, VarInv, LockInv,
                ClaimInv, CleanInv, Homogeneous, OneInv, NoThrow
  <2>3. QED BY <1>1, <2>1, <2>2
<1>11. QED BY <1>2, <1>3, <1>4, <1>5, <1>6, <1>7, <1>8, <1>9, <1>10 DEF Next, ThreadStep

\* The inductive invariant: the page heap is partitioned, each thread's claim
\* on a span is its own, and what is to be cleaned is the span in hand.
THEOREM Inductive == Spec => []IInv
<1>1. Init => IInv
  BY InitInv
<1>2. IInv /\ [Next]_vars => IInv'
  BY StepKeeps
<1>3. QED BY <1>1, <1>2, PTL DEF Spec

\* Every variable keeps its type, and spanalloc's list has no repetition.
THEOREM TypeCorrect == Spec => []TypeOK
<1>1. IInv => TypeOK
  <2> SUFFICES ASSUME IInv PROVE TypeOK
    OBVIOUS
  <2>1. heap.span \in [Descs -> Spans] /\ heap.pool \in Seq(Descs) /\ IsInjective(heap.pool)
    BY DEF IInv, HeapInv, Part
  <2>2. locks \in [Ms -> 0 .. MaxLocks + 1]
    <3>1. \A m \in Ms : locks[m] \in 0 .. MaxLocks + 1
      BY HeapAssumption DEF IInv, VarInv, LockInv
    <3>2. QED BY <3>1 DEF IInv, VarInv
  <2>3. QED BY <2>1, <2>2 DEF TypeOK, IInv, HeapInv, VarInv, NoThrow
<1>2. QED BY <1>1, Inductive, PTL

\* No span ever holds an object of a package other than its own.
THEOREM Homogeneity == Spec => []Homogeneous
<1>1. IInv => Homogeneous
  BY DEF IInv
<1>2. QED BY <1>1, Inductive, PTL

\* A thread caches at most one span per package.
THEOREM OneSpanCached == Spec => []OneCachedSpan
<1>1. IInv => OneCachedSpan
  <2> SUFFICES ASSUME IInv, NEW m \in Ms, NEW id \in Ids
               PROVE  Cardinality(Cached(m, id)) <= 1
    BY DEF OneCachedSpan
  <2>1. \A c, d \in Cached(m, id) : c = d
    BY DEF IInv, OneInv, Cached, InList
  <2>2. CASE Cached(m, id) = {}
    BY <2>2, FS_EmptySet
  <2>3. CASE Cached(m, id) # {}
    <3>1. PICK c : Cached(m, id) = {c}
      BY <2>1, <2>3
    <3>2. QED BY <3>1, FS_Singleton
  <2>4. QED BY <2>2, <2>3
<1>2. QED BY <1>1, Inductive, PTL

\* Each page of the arena has one span, no live descriptor is on spanalloc's
\* list, and no two mergeable free spans lie side by side.
THEOREM PagesPartitioned == Spec => []Partition
<1>1. IInv => Partition
  <2> SUFFICES ASSUME IInv PROVE Partition
    OBVIOUS
  <2>1. Part(heap, brk) /\ Apart(heap, {}) /\ brk \in 0 .. NPages
    BY DEF IInv, HeapInv
  <2>2. ASSUME NEW p \in 0 .. brk - 1
        PROVE  Cardinality({d \in Live(heap) : p \in PagesOf(heap, d)}) = 1
    <3>1. \A d \in Live(heap) : p \in PagesOf(heap, d)
                                <=> heap.span[d].base <= p /\ p < End(heap, d)
      <4>1. SUFFICES ASSUME NEW d \in Live(heap)
                     PROVE  p \in PagesOf(heap, d)
                              <=> heap.span[d].base <= p /\ p < End(heap, d)
        OBVIOUS
      <4>2. heap.span[d].base \in Nat /\ End(heap, d) \in Nat
        BY <2>1, SpanTypes, FreeIsDescs DEF Live
      <4>3. p \in Nat
        BY <2>1
      <4>4. QED BY <4>2, <4>3 DEF PagesOf
    <3>2. PICK d \in Live(heap) : heap.span[d].base <= p /\ p < End(heap, d)
      BY <2>1 DEF Part
    <3>3. ASSUME NEW c \in Live(heap), heap.span[c].base <= p, p < End(heap, c)
          PROVE  c = d
      <4>1. SUFFICES ASSUME c # d PROVE FALSE
        OBVIOUS
      <4>2. End(heap, c) <= heap.span[d].base \/ End(heap, d) <= heap.span[c].base
        BY <2>1, <4>1 DEF Part
      <4>3. /\ heap.span[d].base \in Nat /\ End(heap, d) \in Nat /\ p \in Nat
            /\ heap.span[c].base \in Nat /\ End(heap, c) \in Nat
        BY <2>1, SpanTypes, FreeIsDescs DEF Live
      <4>4. QED BY <3>2, <3>3, <4>2, <4>3
    <3>4. {c \in Live(heap) : p \in PagesOf(heap, c)} = {d}
      BY <3>1, <3>2, <3>3
    <3>5. QED BY <3>4, FS_Singleton
  <2>3. \A d, e \in Free(heap) :
           End(heap, d) = heap.span[e].base => heap.span[d].scav # heap.span[e].scav
    BY <2>1 DEF Apart
  <2>4. /\ \A d \in Live(heap) : heap.span[d].np > 0 /\ End(heap, d) <= brk
        /\ Range(heap.pool) = Descs \ Live(heap)
    BY <2>1 DEF Part
  <2>5. QED BY <2>2, <2>3, <2>4 DEF Partition, Live
<1>2. QED BY <1>1, Inductive, PTL

\* A deferred registration is done when its mallocgc returns, and the spans
\* still to be registered are those of threads inside one.
THEOREM DeferredRegistered == Spec => []Registered
<1>1. IInv => Registered
  <2> SUFFICES ASSUME IInv PROVE Registered
    OBVIOUS
  <2>1. \A m \in Ms : malloc[m] = NoD => toclean[m] = NoD
    BY DEF IInv, CleanInv
  <2>2. ASSUME NEW m \in Ms, toclean[m] # NoD
        PROVE  toclean[m] \in Descs /\ heap.span[toclean[m]].dirty
    BY <2>2 DEF IInv, CleanInv, VarInv
  <2>3. \A d \in Descs : heap.span[d].dirty => \E m \in Ms : toclean[m] = d
    BY DEF IInv, CleanInv
  <2>4. {d \in Descs : heap.span[d].dirty} = {toclean[m] : m \in Ms} \ {NoD}
    BY <2>2, <2>3, HeapAssumption
  <2>5. QED BY <2>1, <2>4 DEF Registered
<1>2. QED BY <1>1, Inductive, PTL

\* setId finds nothing left to clean and no span that is dirty already.
THEOREM NothingThrown == Spec => []NoThrow
<1>1. IInv => NoThrow
  BY DEF IInv
<1>2. QED BY <1>1, Inductive, PTL

\* When a page's views change, a span in use holds the page, every enclosure that
\* sees the span's package has the page afterwards, and no other gets it.
THEOREM ToldOnlyOwned == Spec => MapsOnlyOwned
<1>1. IInv /\ [Next]_vars => MapsOwned
  BY StepKeeps
<1>2. QED BY <1>1, Inductive, PTL DEF MapsOnlyOwned, Spec
=============================================================================
