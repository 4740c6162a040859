------------------------------ MODULE SpanHeap ------------------------------
(***************************************************************************)
(* How the Go heap keeps the packages' objects apart: each span belongs to  *)
(* one package (span.id), and when a span changes hands the backend must be *)
(* told to take its pages out of the views of all enclosures that see the   *)
(* old package and to put them in those of all that see the new one.        *)
(*                                                                          *)
(* Telling the backend is deferred: mallocgc holds runtime locks when it    *)
(* obtains the span, so setId only leaves it in m.toclean, and the releasem *)
(* that ends mallocgc calls DoRegistration.  Between the two, other threads *)
(* allocate and sweep, and span descriptors are split, merged and recycled  *)
(* with whatever id they carry.                                             *)
(*                                                                          *)
(* One size class of one-page spans stands for the small objects, and       *)
(* two-page spans for the large ones.  Unspecified here: the mark phase     *)
(* (any object of a span no thread caches may be found dead) and the order  *)
(* of the lists of a span class (any span the loops accept may be taken).   *)
(***************************************************************************)
EXTENDS Naturals, Sequences, FiniteSets, FiniteSetsExt, Functions

CONSTANTS
  Ms,        \* threads
  Packages,  \* package ids as mallocgc aggregates them (rtIds)
  RUNTIME,   \* id 0, the runtime's
  Sandboxes, \* enclosures
  PkgDeps,   \* the enclosures that see a package (none: it has no entry)
  Descs,     \* span descriptors (mspan), recycled by spanalloc
  NPages,    \* bound: pages of the arena
  NElems,    \* objects per small span
  MaxLocks,  \* bound: locks a thread holds when it calls mallocgc
  NoD        \* no span

Ids   == Packages \cup {RUNTIME}
Pages == 0 .. NPages - 1

ASSUME HeapAssumption ==
  /\ RUNTIME \notin Packages /\ NoD \notin Descs
  \* every enclosure depends on the runtime
  /\ PkgDeps \in [Ids -> SUBSET Sandboxes] /\ PkgDeps[RUNTIME] = Sandboxes
  /\ Ms \cap {"none", "large", "nonempty", "empty"} = {}
  /\ NPages \in Nat \ {0} /\ NElems \in Nat \ {0} /\ MaxLocks \in Nat
  /\ IsFiniteSet(Descs) /\ Cardinality(Descs) >= NPages

VARIABLES
  heap,     \* the descriptors and the free list of spanalloc
  brk,      \* curArena.base: the pages below it have spans
  maps,     \* the enclosures whose views map a page (the backend's state)
  locks,    \* m.locks
  malloc,   \* m.mallocing, as the span mallocgc has in hand (NoD: not set)
  nester,   \* m.nester
  toclean,  \* m.toclean
  crash     \* the throw that stopped the process

vars == <<heap, brk, maps, locks, malloc, nester, toclean, crash>>

\* The objects in a span: how many (allocCount), and of which packages.
NoObjs == [n |-> 0, of |-> {}]
Blank  == [st |-> "pool", base |-> 0, np |-> 0, sid |-> RUNTIME,
           oldid |-> RUNTIME, dirty |-> FALSE, nz |-> FALSE, scav |-> FALSE,
           objs |-> NoObjs, loc |-> "none"]

Init ==
  /\ \E order \in [1 .. Cardinality(Descs) -> Descs] :
       /\ IsInjective(order)
       /\ heap = [span |-> [d \in Descs |-> Blank], pool |-> order]
  /\ brk     = 0
  /\ maps    = [p \in Pages |-> PkgDeps[RUNTIME]]
  /\ locks   = [m \in Ms |-> 0]
  /\ malloc  = [m \in Ms |-> NoD]
  /\ nester  = [m \in Ms |-> 0]
  /\ toclean = [m \in Ms |-> NoD]
  /\ crash   = "none"

-----------------------------------------------------------------------------
(* The page heap: spans are cut from free ones and merged when freed.       *)

Free(h)  == {d \in Descs : h.span[d].st = "free"}
InUse(h) == {d \in Descs : h.span[d].st = "inuse"}
End(h, d) == h.span[d].base + h.span[d].np
PagesOf(h, d) == h.span[d].base .. End(h, d) - 1
AllocCount(h, d) == h.span[d].objs.n

\* spanalloc.free pushes, spanalloc.alloc pops.  Of the descriptor's contents
\* the model keeps what mspan.init does not overwrite.
Release(h, d) ==
  [h EXCEPT !.pool = <<d>> \o @,
            !.span[d] = [Blank EXCEPT !.sid = h.span[d].sid,
                                      !.oldid = h.span[d].oldid,
                                      !.dirty = h.span[d].dirty]]

\* mspan.init resets neither the id nor what goes with it.
InitSpan(r, base, np) ==
  [r EXCEPT !.st = "dead", !.base = base, !.np = np, !.nz = FALSE,
            !.scav = FALSE, !.objs = NoObjs, !.loc = "none"]

\* merge: s takes over the pages of other and keeps its own id.
Merge(h, s, other) ==
  Release([h EXCEPT
    !.span[s].base = Min({@, h.span[other].base}),
    !.span[s].np   = @ + h.span[other].np,
    !.span[s].nz   = @ \/ h.span[other].nz], other)

MergeAny(h, s, others) ==
  IF others = {} THEN h ELSE Merge(h, s, CHOOSE o \in others : TRUE)

\* Neighbours merge when both or neither are scavenged.
Coalesce(h, s) ==
  LET Mergeable(g) == {o \in Free(g) \ {s} : g.span[o].scav = g.span[s].scav}
      Before(g) == {o \in Mergeable(g) : End(g, o) = g.span[s].base}
      After(g)  == {o \in Mergeable(g) : g.span[o].base = End(g, s)}
      h1 == MergeAny(h, s, Before(h))
  IN  MergeAny(h1, s, After(h1))

Fits(h, n) == {d \in Free(h) : h.span[d].np >= n}
\* treap.find: the fitting span of lowest address.
FirstFit(h, n) ==
  CHOOSE d \in Fits(h, n) :
    \A e \in Fits(h, n) : h.span[d].base <= h.span[e].base

\* growAddSpan: the new pages are clean and count as scavenged.
Grow(h, n) ==
  LET d  == Head(h.pool)
      h1 == [h EXCEPT !.pool = Tail(@),
               !.span[d] = [InitSpan(h.span[d], brk, n) EXCEPT !.st = "free",
                                                               !.scav = TRUE]]
  IN  Coalesce(h1, d)

\* Mutant: the descriptor split off starts at the remainder's address.
SplitLate(h, s, n) ==
  LET d == Head(h.pool)
  IN  [heap |-> [h EXCEPT !.pool = Tail(@),
                   !.span[s].np = @ - n,
                   !.span[d] = [InitSpan(h.span[d], h.span[s].base + n, n)
                                  EXCEPT !.nz = h.span[s].nz]],
       got |-> d]
\* Trim the lower pages off s into a recycled descriptor.
Split(h, s, n) ==
  LET d == Head(h.pool)
  IN  [heap |-> [h EXCEPT !.pool = Tail(@),
                   !.span[s] = [h.span[s] EXCEPT !.base = @ + n, !.np = @ - n],
                   !.span[d] = [InitSpan(h.span[d], h.span[s].base, n)
                                  EXCEPT !.nz = h.span[s].nz]],
       got |-> d]

\* It is in use, and its pages are backed again.
Take(h, d) == [h EXCEPT !.span[d] = [@ EXCEPT !.st = "inuse", !.scav = FALSE]]

CanAlloc(n) == Fits(heap, n) # {} \/ brk + n <= NPages

\* allocSpanLocked and alloc_m: grow if nothing fits, then take a free span.
AllocSpan(n) ==
  LET h == IF Fits(heap, n) = {} THEN Grow(heap, n) ELSE heap
      s == FirstFit(h, n)
      a == IF h.span[s].np = n THEN [heap |-> h, got |-> s] ELSE Split(h, s, n)
  IN  [heap |-> Take(a.heap, a.got), got |-> a.got]

NewBrk(n) == IF Fits(heap, n) = {} THEN brk + n ELSE brk

\* mheap.freeSpan: nothing tells the backend.
FreeSpan(h, d) ==
  Coalesce([h EXCEPT !.span[d] = [@ EXCEPT !.st = "free", !.loc = "none"]], d)

-----------------------------------------------------------------------------
(* Ownership of spans.                                                      *)

\* transferSection, of the VT-x backend: out of the views of all that see the
\* old package, however the pages got there, and into those of all that see the
\* new one.  The rights are left out, and so is the throw on equal ids: both
\* callers compare them first.
Transfer(mp, old, new, pages) ==
  [p \in Pages |-> IF p \in pages THEN (mp[p] \ PkgDeps[old]) \cup PkgDeps[new]
                                  ELSE mp[p]]

\* mheap.alloc with needzero: a recycled span is handed over and cleared at
\* once.  mp is the mapping, a the span just allocated.
Zeroing(a, needzero, id) ==
  needzero /\ a.heap.span[a.got].nz /\ a.heap.span[a.got].sid # id

Zeroed(a, needzero, id) ==
  LET d  == a.got
      h1 == IF Zeroing(a, needzero, id)
              THEN [a.heap EXCEPT !.span[d].sid = id]
              ELSE a.heap
  IN  [h1 EXCEPT !.span[d].nz = FALSE]

MapsAfter(a, needzero, id) ==
  IF Zeroing(a, needzero, id)
    THEN Transfer(maps, a.heap.span[a.got].sid, id, PagesOf(a.heap, a.got))
    ELSE maps

Stop(why) ==
  /\ crash' = why
  /\ UNCHANGED <<heap, brk, maps, locks, malloc, nester, toclean>>

\* Mutant: the lock setId itself takes is counted too.
NesterOffByOne(m) == locks[m] + 2
\* locks - 1 after setId's acquirem, inside mallocgc's.
Nester(m) == locks[m] + 1

\* setId on span d of heap h, under mallocgc's lock.
SetId(m, h, d, id) ==
  IF h.span[d].sid = id
    THEN heap' = h /\ UNCHANGED <<toclean, nester>>
    ELSE /\ toclean[m] = NoD /\ ~h.span[d].dirty
         /\ heap' = [h EXCEPT !.span[d] = [h.span[d] EXCEPT
                        !.dirty = TRUE, !.oldid = h.span[d].sid, !.sid = id]]
         /\ toclean' = [toclean EXCEPT ![m] = d]
         /\ nester'  = [nester EXCEPT ![m] = Nester(m)]

SetIdThrows(m, h, d, id) ==
  /\ h.span[d].sid # id
  /\ \/ toclean[m] # NoD /\ Stop("stuff to clean")
     \/ toclean[m] = NoD /\ h.span[d].dirty /\ Stop("nested dirty span")

-----------------------------------------------------------------------------
(* mallocgc up to the object.  It holds one more lock and sets mallocing.   *)

Idle(m) == malloc[m] = NoD /\ crash = "none"

Enter(m, d) ==
  /\ locks'  = [locks EXCEPT ![m] = @ + 1]
  /\ malloc' = [malloc EXCEPT ![m] = d]
  /\ UNCHANGED crash

Full(d) == AllocCount(heap, d) = NElems
InList(list) == {d \in InUse(heap) : heap.span[d].loc = list}
Cached(m, id) == {d \in InList(m) : heap.span[d].sid = id}

\* The span d in list loc holds the objects objs and a new one of package id.
Place(h, d, loc, objs, id) ==
  [h EXCEPT !.span[d] =
     [@ EXCEPT !.loc = loc, !.objs = [n |-> objs.n + 1, of |-> objs.of \cup {id}]]]

\* nextFreeFast: the thread caches a span of this package with room.
MallocCached(m, id) ==
  /\ Idle(m)
  /\ \E d \in Cached(m, id) :
       /\ ~Full(d)
       /\ heap' = Place(heap, d, m, heap.span[d].objs, id)
       /\ Enter(m, d)
  /\ UNCHANGED <<brk, maps, nester, toclean>>

\* Mutant: the full span stays in the thread's cache.
DroppedNot(h, m, id) == h
\* refill drops the full span of this package before it gets another.
Dropped(h, m, id) ==
  [h EXCEPT !.span = [d \in Descs |->
     IF d \in Cached(m, id) THEN [h.span[d] EXCEPT !.loc = "empty"]
                            ELSE h.span[d]]]

NeedsRefill(m, id) == Idle(m) /\ \A d \in Cached(m, id) : Full(d)

\* Mutant: cacheSpan takes any listed span, as it did before spans had ids.
AcceptableAny(id) == InList("nonempty") \cup InList("empty")
\* cacheSpan considers spans of the package, and listed ones without objects.
Acceptable(id) ==
  {d \in InList("nonempty") : heap.span[d].sid = id \/ AllocCount(heap, d) = 0}
    \cup {d \in InList("empty") : heap.span[d].sid = id}

\* The objects a sweep may leave of a span's.
Survivors(d) == {o \in [n : 0 .. AllocCount(heap, d), of : SUBSET heap.span[d].objs.of] :
                   o.n = 0 <=> o.of = {}}

\* mcentral.cacheSpan finds a span and sweeps it if it has to.
MallocCentral(m, id) ==
  /\ NeedsRefill(m, id)
  /\ \E d \in Acceptable(id) : \E left \in Survivors(d) :
       LET h == [Dropped(heap, m, id) EXCEPT
                   !.span[d].nz = @ \/ left # heap.span[d].objs]
       IN  /\ left.n < NElems
           /\ \/ SetIdThrows(m, heap, d, id)
              \/ SetId(m, Place(h, d, m, left, id), d, id) /\ Enter(m, d)
  /\ UNCHANGED <<brk, maps>>

\* mcentral.grow: no listed span will do, a new one is needed.
MallocGrow(m, id) ==
  LET a == AllocSpan(1)
      h == Dropped(Zeroed(a, TRUE, id), m, id)
  IN  /\ NeedsRefill(m, id) /\ CanAlloc(1)
      /\ Acceptable(id) \cap InList("nonempty") = {}
      /\ \/ SetIdThrows(m, h, a.got, id)
         \/ /\ SetId(m, Place(h, a.got, m, NoObjs, id), a.got, id)
            /\ maps' = MapsAfter(a, TRUE, id)
            /\ brk' = NewBrk(1)
            /\ Enter(m, a.got)

\* largeAlloc asks the heap for a span of id 0; mallocgc then sets the id.
MallocLarge(m, id, needzero) ==
  LET a == AllocSpan(2)
      h == Zeroed(a, needzero, RUNTIME)
  IN  /\ Idle(m) /\ CanAlloc(2)
      /\ \/ SetIdThrows(m, h, a.got, id)
         \/ /\ SetId(m, Place(h, a.got, "large", NoObjs, id), a.got, id)
            /\ maps' = MapsAfter(a, needzero, RUNTIME)
            /\ brk' = NewBrk(2)
            /\ Enter(m, a.got)

-----------------------------------------------------------------------------
(* releasem, and the locks around mallocgc.                                 *)

\* Mutant: old and new package are swapped in the call.
DoRegistrationSwapped(d) ==
  Transfer(maps, heap.span[d].sid, heap.span[d].oldid, PagesOf(heap, d))
\* DoRegistration calls transferSection for the span's pages as they are now.
DoRegistration(d) ==
  Transfer(maps, heap.span[d].oldid, heap.span[d].sid, PagesOf(heap, d))

\* m.nester and span.oldid mean nothing once the registration is done; here
\* they are reset then.  releasem registers only at the depth mallocgc was entered with.
Releasem(m) ==
  /\ locks' = [locks EXCEPT ![m] = @ - 1]
  /\ IF toclean[m] # NoD /\ nester[m] = locks[m]
       THEN /\ toclean' = [toclean EXCEPT ![m] = NoD]
            /\ nester' = [nester EXCEPT ![m] = 0]
            /\ maps' = DoRegistration(toclean[m])
            /\ heap' = [heap EXCEPT !.span[toclean[m]] =
                           [@ EXCEPT !.dirty = FALSE, !.oldid = RUNTIME]]
       ELSE UNCHANGED <<toclean, nester, maps, heap>>
  /\ UNCHANGED <<brk, crash>>

\* Mutant: a return from mallocgc without its releasem.
MallocEndLeaky(m) ==
  /\ malloc[m] # NoD /\ crash = "none"
  /\ malloc' = [malloc EXCEPT ![m] = NoD]
  /\ UNCHANGED <<heap, brk, maps, locks, nester, toclean, crash>>
MallocEnd(m) ==
  /\ malloc[m] # NoD /\ crash = "none"
  /\ malloc' = [malloc EXCEPT ![m] = NoD]
  /\ Releasem(m)

\* Runtime code outside mallocgc takes and releases m.locks as well.
AcquireM(m) ==
  /\ Idle(m) /\ locks[m] < MaxLocks
  /\ locks' = [locks EXCEPT ![m] = @ + 1]
  /\ UNCHANGED <<heap, brk, maps, malloc, nester, toclean, crash>>

ReleaseM(m) ==
  /\ Idle(m) /\ locks[m] > 0
  /\ Releasem(m)
  /\ UNCHANGED malloc

-----------------------------------------------------------------------------
(* The collector.                                                           *)

\* releaseAll: the cached spans go back to the central lists.
Flush(m) ==
  /\ Idle(m) /\ InList(m) # {}
  /\ heap' = [heap EXCEPT !.span = [d \in Descs |->
       IF d \notin InList(m) THEN heap.span[d]
       ELSE [heap.span[d] EXCEPT !.loc = IF Full(d) THEN "empty"
                                                    ELSE "nonempty"]]]
  /\ UNCHANGED <<brk, maps, locks, malloc, nester, toclean, crash>>

\* sweep of a span nobody caches or is allocating from: some objects died.
Sweep(d) ==
  /\ crash = "none" /\ heap.span[d].st = "inuse"
  /\ heap.span[d].loc \in {"nonempty", "empty", "large"}
  /\ \A m \in Ms : malloc[m] # d
  /\ \E left \in Survivors(d) \ {heap.span[d].objs} :
       LET h == [heap EXCEPT !.span[d] = [@ EXCEPT !.objs = left, !.nz = TRUE]]
       IN  heap' = IF left = NoObjs THEN FreeSpan(h, d)
                   ELSE [h EXCEPT !.span[d].loc = "nonempty"]
  /\ UNCHANGED <<brk, maps, locks, malloc, nester, toclean, crash>>

\* scavengeLocked: a free span, or a part split off its end, goes back to the
\* operating system and merges with its neighbours that did.
Scavenge(d, n) ==
  /\ crash = "none" /\ heap.span[d].st = "free" /\ ~heap.span[d].scav
  /\ n \in 1 .. heap.span[d].np
  /\ heap' =
       IF n = heap.span[d].np
         THEN Coalesce([heap EXCEPT !.span[d].scav = TRUE], d)
         ELSE LET e == Head(heap.pool)
              IN  Coalesce([heap EXCEPT
                    !.pool = Tail(@), !.span[d] = [heap.span[d] EXCEPT !.np = @ - n],
                    !.span[e] = [InitSpan(heap.span[e], End(heap, d) - n, n) EXCEPT
                      !.st = "free", !.nz = heap.span[d].nz, !.scav = TRUE]], e)
  /\ UNCHANGED <<brk, maps, locks, malloc, nester, toclean, crash>>

-----------------------------------------------------------------------------
ThreadStep(m) ==
  \/ \E id \in Ids : \/ MallocCached(m, id) \/ MallocCentral(m, id)
                     \/ MallocGrow(m, id)
                     \/ MallocLarge(m, id, TRUE) \/ MallocLarge(m, id, FALSE)
  \/ MallocEnd(m) \/ AcquireM(m) \/ ReleaseM(m) \/ Flush(m)

Next ==
  \/ \E m \in Ms : ThreadStep(m)
  \/ \E d \in Descs : Sweep(d) \/ \E n \in 1 .. NPages : Scavenge(d, n)

Spec == Init /\ [][Next]_vars

-----------------------------------------------------------------------------
(* What must hold.                                                          *)

Spans == [st : {"pool", "free", "inuse"}, base : Pages, np : 0 .. NPages,
          sid : Ids, oldid : Ids, dirty : BOOLEAN, nz : BOOLEAN,
          scav : BOOLEAN, objs : [n : 0 .. NElems, of : SUBSET Ids],
          loc : {"none", "large", "nonempty", "empty"} \cup Ms]

\* Every variable keeps its type, and spanalloc's list has no repetition.
TypeOK ==
  /\ heap.span \in [Descs -> Spans]
  /\ heap.pool \in Seq(Descs) /\ IsInjective(heap.pool)
  /\ brk \in 0 .. NPages /\ maps \in [Pages -> SUBSET Sandboxes]
  /\ locks \in [Ms -> 0 .. MaxLocks + 1] /\ nester \in [Ms -> Nat]
  /\ malloc \in [Ms -> Descs \cup {NoD}]
  /\ toclean \in [Ms -> Descs \cup {NoD}]
  /\ crash \in {"none", "stuff to clean", "nested dirty span"}

\* A span never holds an object of a package other than its own: whichever
\* thread cached it, whoever swept it, and whatever the span was before.
Homogeneous ==
  \A d \in InUse(heap) : heap.span[d].objs.of \subseteq {heap.span[d].sid}

\* A thread caches at most one span per package, so getId, which returns the
\* first, never hides free objects behind a full span.
OneCachedSpan ==
  \A m \in Ms, id \in Ids : Cardinality(Cached(m, id)) <= 1

\* Splitting, merging and recycling descriptors lose no page and share none:
\* each page of the arena has one span, live descriptors are those spanalloc
\* does not hold, and no two mergeable spans lie side by side.
Partition ==
  LET live == Free(heap) \cup InUse(heap)
  IN  /\ \A p \in 0 .. brk - 1 :
           Cardinality({d \in live : p \in PagesOf(heap, d)}) = 1
      /\ \A d \in live : heap.span[d].np > 0 /\ End(heap, d) <= brk
      /\ Range(heap.pool) = Descs \ live
      /\ \A d, e \in Free(heap) :
           End(heap, d) = heap.span[e].base
             => heap.span[d].scav # heap.span[e].scav

\* A registration deferred by setId is done when its mallocgc returns, however
\* many locks the caller held: a thread outside mallocgc has none pending, and
\* the spans still to be registered are those of threads inside one.
Registered ==
  /\ \A m \in Ms : malloc[m] = NoD => toclean[m] = NoD
  /\ {d \in Descs : heap.span[d].dirty} = {toclean[m] : m \in Ms} \ {NoD}

\* setId finds nothing left to clean, and no span that is dirty already.
NoThrow == crash = "none"

\* The id the backend was last told of a span.
ToldId(r) == IF r.dirty THEN r.oldid ELSE r.sid

\* When a page's views change, a span in use holds the page, every enclosure
\* that sees the span's package has the page afterwards, and no other gets it: a
\* deferred registration is never applied to pages that went elsewhere in the
\* meantime, nor with the packages swapped.
MapsOwned ==
  \A p \in Pages : maps'[p] # maps[p] =>
    \E d \in InUse(heap') :
      /\ p \in PagesOf(heap', d)
      /\ LET viewers == PkgDeps[ToldId(heap'.span[d])]
         IN  viewers \subseteq maps'[p] /\ maps'[p] \subseteq maps[p] \cup viewers
MapsOnlyOwned == [][MapsOwned]_vars

\* Once its registration is done, a span's pages are mapped in the views of the
\* enclosures that see its package and in no other's: a span that is taken for a
\* package needs nothing but its id set ("supposed to be fresh, we can just set
\* the id").
PagesFollowSpan ==
  \A d \in InUse(heap) : ~heap.span[d].dirty =>
    \A p \in PagesOf(heap, d) : maps[p] = PkgDeps[heap.span[d].sid]
=============================================================================
