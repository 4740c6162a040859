----------------------------- MODULE GuestMemory -----------------------------
(***************************************************************************)
(* Guest physical memory of the VT-x backend, static and dynamic.          *)
(*                                                                         *)
(* Every address space maps the process' areas to guest physical pages,    *)
(* and KVM maps those to the process again, one slot per area.  An area    *)
(* that ends below 2^39 has its own addresses; any other is given a piece  *)
(* of what is free below.  So is an arena of page tables.  All spaces      *)
(* share the allocators and the machine, so they must agree.  Mapping      *)
(* takes page tables, which may take an arena, which has to be mapped in   *)
(* every space and needs a slot itself.                                    *)
(*                                                                         *)
(* Addresses are numbers of pages.  How many page tables a mapping takes   *)
(* depends on the addresses: here any number.  Rights, the bitmaps and the *)
(* pools of region descriptors are in Views.                               *)
(***************************************************************************)
EXTENDS Integers, Sequences, FiniteSets

CONSTANTS
  Areas,       \* what /proc/self/maps has when God's space is made
  Later,       \* areas that may be mapped after that
  Enclosures,
  GOD,
  Limit,       \* Limit39bits
  ArenaSize,   \* ARENA_SIZE
  MaxSlots,    \* how many memory slots KVM has
  NoGPA

Spaces == Enclosures \cup {GOD}
Blocks == [start : Nat, size : Nat \ {0}]
Apart(x, y) ==
  x.start + x.size <= y.start \/ y.start + y.size <= x.start

\* Whether VMAToMemoryRegion and Extend leave an area its addresses.
Low(a) == a.start + a.size <= Limit

\* Later areas are where mmap puts them, above the limit: next to the stack
\* or at a hint for the Go heap.
ASSUME GuestAssumption ==
  /\ Limit \in Nat /\ ArenaSize \in Nat \ {0} /\ MaxSlots \in Nat
  /\ Areas \subseteq Blocks /\ Later \subseteq Blocks
  /\ Areas \cap Later = {}
  /\ \A a, b \in Areas \cup Later : a # b => Apart(a, b)
  /\ \A a \in Later : ~Low(a)
  /\ GOD \notin Enclosures
  /\ NoGPA \notin Nat

VARIABLES
  dynamic,     \* which backend: fixed
  declared,    \* globals.Sandboxes: fixed
  stage, who,  \* what is being done, and to which space
  crash,       \* which panic or Check has stopped the process
  free,        \* FreeSpace
  arenas,      \* All: the GPA of each arena
  room,        \* pages left in Current, 0 when it is nil
  dirty,       \* the arenas that are Dirty; Dirties is their number
  gpa,         \* Span.GPA of the region each space has for an area
  built,       \* the enclosures in Views
  tables,      \* the arenas each space's page tables are in
  amap,        \* the arenas each space maps
  vm,          \* whether the machine exists
  slots, aslots, \* KVM's slots, for areas and for arenas
  left,        \* spaces still to be handled
  upd, area    \* the arena UpdateEPTSlots is at, the area that is added

mem  == <<free, arenas, room, dirty, tables>>
ctl  == <<stage, who, left, upd, area>>
ept  == <<vm, slots, aslots>>
prog == <<dynamic, declared>>
vars == <<prog, crash, mem, ctl, ept, gpa, built, amap>>

Stages == {"off", "root", "fill", "pick", "arenas", "update", "run", "grow"}
Idx    == DOMAIN arenas
Live   == built \cup {GOD}

TypeOK ==
  /\ dynamic \in BOOLEAN /\ vm \in BOOLEAN /\ declared \subseteq Enclosures
  /\ stage \in Stages /\ who \in Spaces
  /\ crash \in {"", "space", "arenas", "slots", "unmapped", "dirty", "region"}
  /\ free \subseteq Blocks
  /\ arenas \in Seq(Nat) /\ room \in 0 .. ArenaSize - 1
  /\ dirty \subseteq Idx /\ aslots \subseteq Idx /\ upd \in Idx \cup {0}
  /\ gpa \in [Spaces -> [Areas \cup Later -> Nat \cup {NoGPA}]]
  /\ built \subseteq Enclosures /\ left \subseteq Enclosures
  /\ tables \in [Spaces -> SUBSET Idx] /\ amap \in [Spaces -> SUBSET Idx]
  /\ slots \subseteq [area : Areas \cup Later, gpa : Nat]
  /\ area \in Areas \cup Later \cup {NoGPA}

Init ==
  /\ dynamic \in BOOLEAN /\ vm = FALSE /\ declared \in SUBSET Enclosures
  /\ stage = "off" /\ who = GOD /\ crash = ""
  /\ free = {} /\ arenas = <<>> /\ room = 0 /\ dirty = {}
  /\ gpa = [s \in Spaces |-> [a \in Areas \cup Later |-> NoGPA]]
  /\ built = {} /\ left = {} /\ upd = 0 /\ area = NoGPA
  /\ tables = [s \in Spaces |-> {}] /\ amap = [s \in Spaces |-> {}]
  /\ slots = {} /\ aslots = {}

\* A panic, or a Check that fails.
Stop(reason) ==
  /\ crash' = reason
  /\ UNCHANGED <<prog, mem, ctl, ept, gpa, built, amap>>

-----------------------------------------------------------------------------
(* The allocator of guest physical addresses.                               *)

\* What no area has below the limit: VMAreas has the code of Mirror.
InUse == {n \in 0 .. Limit : \E a \in Areas : a.start <= n /\ n < a.start + a.size}
Mirror ==
  {v \in [start : 0 .. Limit, size : 1 .. Limit] :
     /\ v.start + v.size <= Limit
     /\ (v.start .. v.start + v.size - 1) \cap InUse = {}
     /\ v.start = 0 \/ v.start - 1 \in InUse
     /\ v.start + v.size = Limit \/ v.start + v.size \in InUse}

\* Malloc eats from the start of the smallest free area that is large enough.
Candidates(size) ==
  {v \in free : v.size >= size /\ \A w \in free : w.size >= size => v.size <= w.size}
EatenSize(v, size) ==
  (free \ {v}) \cup
    (IF v.size = size THEN {} ELSE {[start |-> v.start, size |-> v.size - size]})
Eaten(v, size) ==
  (free \ {v}) \cup
    (IF v.size = size THEN {} ELSE {[start |-> v.start + size, size |-> v.size - size]})

-----------------------------------------------------------------------------
(* The allocator of page tables.  After Seal it takes no new arena.         *)

Danger == vm /\ ~dynamic
NewArena(v) ==
  /\ arenas' = Append(arenas, v.start)
  /\ free' = Eaten(v, ArenaSize)
  /\ dirty' = dirty \cup {Len(arenas) + 1}
  /\ room' = ArenaSize - 1

\* NewPTEs2, called for space s.
NewPTEs(s) ==
  \/ /\ room > 0
     /\ room' = room - 1
     /\ tables' = [tables EXCEPT ![s] = @ \cup {Len(arenas)}]
     /\ UNCHANGED <<free, arenas, dirty, crash>>
  \/ /\ room = 0 /\ Candidates(ArenaSize) # {} /\ ~Danger
     /\ \E v \in Candidates(ArenaSize) : NewArena(v)
     /\ tables' = [tables EXCEPT ![s] = @ \cup {Len(arenas')}]
     /\ UNCHANGED crash
  \/ /\ room = 0 /\ (Candidates(ArenaSize) = {} \/ Danger)
     /\ crash' = IF Candidates(ArenaSize) = {} THEN "space" ELSE "arenas"
     /\ UNCHANGED mem

\* Whether a mapping that is under way may need a page table in space s.
Walking(s) ==
  \/ stage \in {"fill", "grow"} /\ s = who
  \/ stage = "arenas" /\ s = who /\ ~(Idx \subseteq amap[s])
  \/ stage = "update" /\ upd # 0 /\ s \in Live /\ upd \notin amap[s]
Walk(s) ==
  /\ crash = "" /\ Walking(s)
  /\ NewPTEs(s)
  /\ UNCHANGED <<prog, ctl, ept, gpa, built, amap>>

-----------------------------------------------------------------------------
(* God's space and the enclosures'.                                         *)

\* At the start, or at the first Prolog of the dynamic backend.
InitializeGod ==
  /\ crash = "" /\ stage = "off"
  /\ dynamic => declared # {}
  /\ free' = Mirror
  /\ stage' = "root"
  /\ UNCHANGED <<prog, crash, arenas, room, dirty, tables, who, left, upd, area,
                 ept, gpa, built, amap>>

\* The root of a space's page tables, in pg.New.
NewRoot ==
  /\ crash = "" /\ stage = "root"
  /\ NewPTEs(who)
  /\ stage' = "fill"
  /\ UNCHANGED <<prog, who, left, upd, area, ept, gpa, built, amap>>

\* God's region for area a gets its guest physical address, or there is none.
Assign(a) ==
  \/ /\ Low(a)
     /\ gpa' = [gpa EXCEPT ![GOD][a] = a.start]
     /\ UNCHANGED <<free, crash>>
  \/ /\ ~Low(a)
     /\ \E v \in Candidates(a.size) :
          /\ gpa' = [gpa EXCEPT ![GOD][a] = v.start]
          /\ free' = Eaten(v, a.size)
     /\ UNCHANGED crash
  \/ /\ ~Low(a) /\ Candidates(a.size) = {}
     /\ crash' = "space"
     /\ UNCHANGED <<free, gpa>>

VMAToMemoryRegion(a) ==
  /\ crash = "" /\ stage = "fill" /\ who = GOD
  /\ gpa[GOD][a] = NoGPA
  /\ Assign(a)
  /\ UNCHANGED <<prog, arenas, room, dirty, tables, ctl, ept, built, amap>>

GodBuilt ==
  /\ crash = "" /\ stage = "fill" /\ who = GOD
  /\ \A a \in Areas : gpa[GOD][a] # NoGPA
  /\ stage' = "pick"
  /\ UNCHANGED <<prog, crash, mem, who, left, upd, area, ept, gpa, built, amap>>

\* Copy of God's space for e; the static backend does this before there is a
\* machine, the dynamic one at e's first Prolog.
CopyGod(e) ==
  /\ crash = ""
  /\ \/ stage = "pick" /\ vm = dynamic
     \/ stage = "run" /\ dynamic
  /\ e \in declared \ built
  /\ gpa' = [gpa EXCEPT ![e] = gpa[GOD]]
  /\ stage' = "root" /\ who' = e
  /\ UNCHANGED <<prog, crash, mem, left, upd, area, ept, built, amap>>

\* ApplyDomain has mapped all regions, and the space goes into Views.
ViewBuilt ==
  /\ crash = "" /\ stage = "fill" /\ who # GOD
  /\ built' = built \cup {who}
  /\ stage' = IF dynamic THEN "update" ELSE "pick"
  /\ UNCHANGED <<prog, crash, mem, who, left, upd, area, ept, gpa, amap>>

-----------------------------------------------------------------------------
(* KVM's slots.                                                             *)

\* setEPTRegion fails when KVM has no slot left, and its callers panic.
NoSlots(n)   == Cardinality(slots) + Cardinality(aslots) + n > MaxSlots
SlotThere(a) == [area |-> a, gpa |-> a.start]
Slot(a)      == [area |-> a, gpa |-> gpa[GOD][a]]

\* The arenas, then God's regions.
SetAllEPTSlots ==
  /\ aslots' = Idx /\ dirty' = {}
  /\ slots' = {Slot(a) : a \in Areas}

CreateVirtualMachine ==
  /\ crash = "" /\ stage = "pick" /\ ~vm
  /\ dynamic \/ built = declared
  /\ \/ /\ NoSlots(Len(arenas) + Cardinality(Areas))
        /\ Stop("slots")
     \/ /\ ~NoSlots(Len(arenas) + Cardinality(Areas))
        /\ vm' = TRUE /\ SetAllEPTSlots
        /\ stage' = "arenas" /\ who' = GOD /\ left' = built
        /\ UNCHANGED <<prog, crash, free, arenas, room, tables, upd, area, gpa,
                       built, amap>>

\* UpdateEPTSlots comes to an arena that is dirty; those that appear while it
\* walks the list are at its end.
RegisterArena(k) ==
  /\ crash = "" /\ stage = "update" /\ upd = 0
  /\ \/ NoSlots(1) /\ Stop("slots")
     \/ /\ ~NoSlots(1)
        /\ aslots' = aslots \cup {k}
        /\ upd' = k
        /\ UNCHANGED <<prog, crash, mem, stage, who, left, area, vm, slots, gpa,
                       built, amap>>

ArenaRegistered ==
  /\ crash = "" /\ stage = "update" /\ upd # 0
  /\ \A s \in Live : upd \in amap[s]
  /\ dirty' = dirty \ {upd}
  /\ upd' = 0
  /\ UNCHANGED <<prog, crash, free, arenas, room, tables, stage, who, left, area,
                 ept, gpa, built, amap>>

SlotsUpdatedOnly ==
  /\ crash = "" /\ stage = "update" /\ upd = 0 /\ dirty = {}
  /\ stage' = "run"
  /\ UNCHANGED <<prog, crash, mem, who, left, upd, area, ept, gpa, built, amap>>
SlotsUpdated ==
  /\ crash = "" /\ stage = "update" /\ upd = 0 /\ dirty = {}
  /\ stage' = "arenas"
  /\ UNCHANGED <<prog, crash, mem, who, left, upd, area, ept, gpa, built, amap>>

\* DefaultMap of an arena: in UpdateEPTSlots in all spaces, in MapArenas in one.
DefaultMap(s, k) ==
  /\ crash = "" /\ k \notin amap[s]
  /\ \/ stage = "update" /\ k = upd /\ s \in Live
     \/ stage = "arenas" /\ s = who
  /\ amap' = [amap EXCEPT ![s] = @ \cup {k}]
  /\ UNCHANGED <<prog, crash, mem, ctl, ept, gpa, built>>

\* The end of MapArenas: God's space must have all arenas too.  The static
\* backend goes on with the enclosures' spaces.
ArenasMapped ==
  /\ crash = "" /\ stage = "arenas" /\ Idx \subseteq amap[who]
  /\ \/ ~(Idx \subseteq amap[GOD]) /\ Stop("unmapped")
     \/ /\ Idx \subseteq amap[GOD]
        /\ \/ /\ left = {}
              /\ stage' = IF dynamic /\ who = GOD THEN "pick" ELSE "run"
              /\ UNCHANGED <<who, left>>
           \/ \E s \in left :
                /\ who' = s /\ left' = left \ {s}
                /\ UNCHANGED stage
        /\ UNCHANGED <<prog, crash, mem, upd, area, ept, gpa, built, amap>>

-----------------------------------------------------------------------------
(* An area that is mapped while the program runs: RuntimeGrowth, or         *)
(* DRuntimeGrowth and DynTransfer.  The last leaves some views out.         *)

GrowGod(a) ==
  /\ crash = "" /\ stage = "run"
  /\ gpa[GOD][a] = NoGPA
  /\ Assign(a)
  /\ stage' = IF crash' = "" THEN "grow" ELSE stage
  /\ who' = GOD /\ area' = a
  /\ left' \in IF dynamic THEN SUBSET built ELSE {built}
  /\ UNCHANGED <<prog, arenas, room, dirty, tables, upd, ept, built, amap>>

\* Extend2 takes God's region as it is.  In the static backend no view has a
\* descriptor for it (Views).
GrowViewAnew(s) ==
  /\ crash = "" /\ stage = "grow" /\ s \in left
  /\ \E v \in Candidates(area.size) :
       /\ gpa' = [gpa EXCEPT ![s][area] = v.start]
       /\ free' = Eaten(v, area.size)
  /\ who' = s /\ left' = left \ {s}
  /\ UNCHANGED <<prog, crash, arenas, room, dirty, tables, stage, upd, area, ept, built,
                 amap>>
GrowView(s) ==
  /\ crash = "" /\ stage = "grow" /\ s \in left
  /\ \/ ~dynamic /\ Stop("region")
     \/ /\ dynamic
        /\ gpa' = [gpa EXCEPT ![s][area] = gpa[GOD][area]]
        /\ who' = s /\ left' = left \ {s}
        /\ UNCHANGED <<prog, crash, mem, stage, upd, area, ept, built, amap>>

\* Only the dynamic backend tells KVM.
GrowthDone ==
  /\ crash = "" /\ stage = "grow" /\ left = {}
  /\ \/ ~dynamic /\ stage' = "run" /\ UNCHANGED <<crash, slots>>
     \/ dynamic /\ NoSlots(1) /\ crash' = "slots" /\ UNCHANGED <<stage, slots>>
     \/ /\ dynamic /\ ~NoSlots(1)
        /\ slots' = slots \cup {Slot(area)}
        /\ crash' = IF dirty = {} THEN "" ELSE "dirty"
        /\ stage' = "run"
  /\ UNCHANGED <<prog, mem, who, left, upd, area, vm, aslots, gpa, built, amap>>

\* The program does something else, or has stopped.
Rest == (crash # "" \/ stage \in {"off", "run"}) /\ UNCHANGED vars

Next ==
  \/ InitializeGod \/ NewRoot \/ GodBuilt \/ ViewBuilt
  \/ CreateVirtualMachine \/ ArenaRegistered \/ SlotsUpdated \/ ArenasMapped
  \/ GrowthDone \/ Rest
  \/ \E a \in Areas : VMAToMemoryRegion(a)
  \/ \E a \in Later : GrowGod(a)
  \/ \E e \in Enclosures : CopyGod(e) \/ GrowView(e)
  \/ \E s \in Spaces : Walk(s) \/ \E k \in Idx : DefaultMap(s, k)
  \/ \E k \in dirty : RegisterArena(k)

Spec == Init /\ [][Next]_vars

-----------------------------------------------------------------------------
(* What is promised.                                                        *)

\* Where guest code may be executing: between the calls of the one thread of
\* the dynamic backend, at any time in the static one once it has started.
GuestRuns == crash = "" /\ (stage = "run" \/ (stage = "grow" /\ ~dynamic))

\* What is given to somebody: the addresses of areas below the limit, those
\* Malloc has returned for areas and those of arenas.
Areal(a)    == <<"area", a>>
Arena(k)    == <<"arena", k>>
Block(n, m) == [start |-> n, size |-> m]
Given ==
  {[by |-> Areal(a), at |-> Block(a.start, a.size)] : a \in {b \in Areas : Low(b)}} \cup
  {[by |-> Areal(a), at |-> Block(gpa[GOD][a], a.size)] :
     a \in {b \in Areas \cup Later : gpa[GOD][b] # NoGPA}} \cup
  {[by |-> Arena(k), at |-> Block(arenas[k], ArenaSize)] : k \in Idx}

\* No guest physical page stands for two pages of the process: an area and an
\* arena of page tables, say.  LookupPTEs takes the first arena with an
\* address, and KVM refuses slots that overlap (Malloc and its callers).
Disjoint == \A x, y \in Given : x # y => Apart(x.at, y.at)

\* All spaces and KVM agree on the guest physical address of an area, however
\* the area came to be in each: there is one machine (Copy, Extend2,
\* setEPTRegion).
OneMapping ==
  /\ \A s \in Live : \A a \in Areas \cup Later : gpa[s][a] \in {NoGPA, gpa[GOD][a]}
  /\ \A r \in slots : r.gpa = gpa[GOD][r.area]

\* The page tables of every space are in arenas KVM knows, so a walk of the
\* hardware finds them, and mapped in every space, so that the runtime can
\* change any view's entries from any other (UpdateEPTSlots, MapArenas, Seal).
TablesReachable ==
  GuestRuns => \A s \in Live : \A k \in tables[s] :
                 k \in aslots /\ \A t \in Live : k \in amap[t]

\* What a space has a region for, KVM has a slot for, but for what the static
\* backend adds when it runs (SetAllEPTSlots, DynSetEPTRegion).
Backed ==
  GuestRuns => \A s \in Live : \A a \in IF dynamic THEN Areas \cup Later ELSE Areas :
                 gpa[s][a] # NoGPA => [area |-> a, gpa |-> gpa[s][a]] \in slots
=============================================================================
