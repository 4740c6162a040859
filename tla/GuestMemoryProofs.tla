-------------------------- MODULE GuestMemoryProofs --------------------------
(***************************************************************************)
(* Proofs about GuestMemory, for any areas, enclosures, limit, size of     *)
(* arenas and number of slots.                                             *)
(*                                                                         *)
(* What is free and what is given never overlap (AllocInv): Malloc cuts    *)
(* from the start of a free piece what it gives (Carve).  An arena that    *)
(* some space lacks is dirty, or that space is the one being made, so      *)
(* where nothing is dirty and none is being made all page tables can be    *)
(* reached (ArenaInv).                                                     *)
(***************************************************************************)
EXTENDS GuestMemory, TLAPS

-----------------------------------------------------------------------------
(* The inductive invariant.                                                 *)

\* No two pieces are the same guest physical pages, free or given.
AllocInv ==
  /\ Disjoint
  /\ \A v, w \in free : v # w => Apart(v, w)
  /\ \A v \in free : \A x \in Given : Apart(v, x.at)
  /\ \A a \in Areas \cup Later : Low(a) => gpa[GOD][a] \in {NoGPA, a.start}

\* Current is the last arena.
RoomInv == room > 0 => arenas # <<>>

\* What has happened at each stage.
StageInv ==
  /\ stage \in {"arenas", "update", "run", "grow"} => vm
  /\ stage = "off" => ~vm /\ who = GOD
  /\ stage \in {"root", "fill"} /\ who = GOD => ~vm
  /\ stage \in {"root", "fill"} /\ who # GOD =>
       who \in declared \ built /\ (dynamic <=> vm)
  /\ stage = "pick" /\ ~dynamic => ~vm
  /\ stage = "update" => dynamic /\ who \in built
  /\ stage = "arenas" /\ ~dynamic => who \notin left
  /\ who \in Live \/ stage \in {"root", "fill"}
  /\ dynamic /\ (~vm \/ (stage = "arenas" /\ who = GOD)) => built = {}
  /\ left \subseteq built
  /\ crash = "" /\ left # {} => stage = "grow" \/ (stage = "arenas" /\ ~dynamic)
  /\ upd # 0 => stage = "update" /\ upd \in dirty

\* Which areas God's space has at each stage.
AreaInv ==
  /\ stage = "off" => arenas = <<>> /\ \A a \in Areas : gpa[GOD][a] = NoGPA
  /\ stage = "off" \/ (stage \in {"root", "fill"} /\ who = GOD)
       \/ \A a \in Areas : gpa[GOD][a] # NoGPA
  /\ ~vm => \A a \in Later : gpa[GOD][a] = NoGPA
  /\ stage = "grow" => area \in Later /\ gpa[GOD][area] # NoGPA

\* What a space has, it has from God's; KVM too.
CopyInv ==
  /\ \A s \in Spaces : \A a \in Areas \cup Later : gpa[s][a] \in {NoGPA, gpa[GOD][a]}
  /\ \A r \in slots : r.gpa = gpa[GOD][r.area]

\* Which arenas KVM knows and which are mapped where: an arena that is not
\* everywhere is dirty, or a space that has not all is the one being made.
ArenaInv ==
  /\ vm => Idx \ dirty \subseteq aslots
  /\ upd # 0 => upd \in aslots
  /\ vm /\ ~dynamic =>
       /\ dirty = {}
       /\ \A s \in Live :
            \/ stage = "arenas" /\ (s = who \/ s \in left)
            \/ Idx \subseteq amap[s]
  /\ vm /\ dynamic =>
       /\ \A s \in Live :
            \/ stage \in {"update", "arenas"} /\ s = who
            \/ Idx \ dirty \subseteq amap[s]
       /\ stage = "arenas" /\ who # GOD => dirty \cap amap[GOD] = {}
       /\ stage = "run" /\ crash = "" => dirty = {}

SlotInv ==
  /\ vm => \A a \in Areas : Slot(a) \in slots
  /\ vm /\ dynamic /\ crash = "" =>
       \A a \in Later : \/ gpa[GOD][a] = NoGPA
                        \/ Slot(a) \in slots
                        \/ stage = "grow" /\ area = a

IInv ==
  /\ TypeOK /\ RoomInv /\ StageInv /\ AreaInv /\ CopyInv
  /\ ArenaInv /\ SlotInv /\ AllocInv

-----------------------------------------------------------------------------
(* Malloc.                                                                  *)

LEMMA CandidateFits ==
  ASSUME TypeOK, NEW n \in Nat, NEW v \in Candidates(n)
  PROVE  v \in free /\ v \in Blocks /\ v.size >= n /\ v.start \in Nat
  BY DEF Candidates, TypeOK, Blocks

LEMMA EatenType ==
  ASSUME TypeOK, NEW n \in Nat, NEW v \in Candidates(n)
  PROVE  Eaten(v, n) \subseteq Blocks
<1>1. v \in Blocks /\ v.size >= n /\ v.start \in Nat /\ v.size \in Nat
  BY CandidateFits DEF Blocks
<1>2. CASE v.size = n BY <1>2 DEF Eaten, TypeOK
<1>3. CASE v.size # n
  <2>1. v.size - n \in Nat \ {0} /\ v.start + n \in Nat BY <1>1, <1>3
  <2>2. [start |-> v.start + n, size |-> v.size - n] \in Blocks BY <2>1 DEF Blocks
  <2> QED BY <1>3, <2>2 DEF Eaten, TypeOK
<1> QED BY <1>2, <1>3

\* What Malloc gives is apart from all that was given and from what is left.
LEMMA Carve ==
  ASSUME TypeOK, AllocInv, NEW n \in Nat \ {0}, NEW v \in Candidates(n),
         \A x \in Given : x.at.start \in Nat /\ x.at.size \in Nat
  PROVE  /\ \A x \in Given : Apart(Block(v.start, n), x.at) /\ Apart(x.at, Block(v.start, n))
         /\ \A w \in Eaten(v, n) : Apart(w, Block(v.start, n))
         /\ \A w, u \in Eaten(v, n) : w # u => Apart(w, u)
         /\ \A w \in Eaten(v, n) : \A x \in Given : Apart(w, x.at)
<1> DEFINE rest == [start |-> v.start + n, size |-> v.size - n]
<1>1. /\ v \in free /\ v.size >= n /\ v.start \in Nat /\ v.size \in Nat
  BY CandidateFits DEF Blocks
<1>2. \A w \in free : w.start \in Nat /\ w.size \in Nat \ {0} BY DEF TypeOK, Blocks
<1>3. \A x \in Given : Apart(Block(v.start, n), x.at) /\ Apart(x.at, Block(v.start, n))
  <2> SUFFICES ASSUME NEW x \in Given
               PROVE  Apart(Block(v.start, n), x.at) /\ Apart(x.at, Block(v.start, n))
    OBVIOUS
  <2>1. Apart(v, x.at) /\ x.at.start \in Nat /\ x.at.size \in Nat BY <1>1 DEF AllocInv
  <2> QED BY <1>1, <2>1 DEF Apart, Block
<1>4. rest.start = v.start + n /\ rest.size = v.size - n OBVIOUS
<1>5. \A w \in Eaten(v, n) : (w \in free /\ w # v) \/ (w = rest /\ v.size # n)
  BY DEF Eaten
<1> HIDE DEF rest
<1>6. \A w \in free : w # v => Apart(w, v) /\ Apart(v, w) BY <1>1 DEF AllocInv
<1>7. \A w \in Eaten(v, n) : Apart(w, Block(v.start, n))
  <2> SUFFICES ASSUME NEW w \in Eaten(v, n) PROVE Apart(w, Block(v.start, n)) OBVIOUS
  <2>1. CASE w \in free /\ w # v BY <1>1, <1>2, <1>6, <2>1 DEF Apart, Block
  <2>2. CASE w = rest BY <1>1, <1>4, <2>2 DEF Apart, Block
  <2> QED BY <1>5, <2>1, <2>2
<1>8. \A w, u \in Eaten(v, n) : w # u => Apart(w, u)
  <2> SUFFICES ASSUME NEW w \in Eaten(v, n), NEW u \in Eaten(v, n), w # u
               PROVE  Apart(w, u)
    OBVIOUS
  <2>1. CASE w \in free /\ u \in free BY <2>1 DEF AllocInv
  <2>2. CASE w \in free /\ w # v /\ u = rest BY <1>1, <1>2, <1>4, <1>6, <2>2 DEF Apart
  <2>3. CASE u \in free /\ u # v /\ w = rest BY <1>1, <1>2, <1>4, <1>6, <2>3 DEF Apart
  <2> QED BY <1>5, <2>1, <2>2, <2>3
<1>9. \A w \in Eaten(v, n) : \A x \in Given : Apart(w, x.at)
  <2> SUFFICES ASSUME NEW w \in Eaten(v, n), NEW x \in Given PROVE Apart(w, x.at) OBVIOUS
  <2>1. Apart(v, x.at) /\ x.at.start \in Nat /\ x.at.size \in Nat BY <1>1 DEF AllocInv
  <2>2. CASE w \in free BY <2>2 DEF AllocInv
  <2>3. CASE w = rest BY <1>1, <1>4, <2>1, <2>3 DEF Apart
  <2> QED BY <1>5, <2>2, <2>3
<1> QED BY <1>3, <1>7, <1>8, <1>9

\* So one more piece is given and Disjoint stays.
LEMMA Give ==
  ASSUME TypeOK, AllocInv, NEW n \in Nat \ {0}, NEW v \in Candidates(n),
         \A x \in Given : x.at.start \in Nat /\ x.at.size \in Nat,
         NEW y, y.at = Block(v.start, n),
         Given' \subseteq Given \cup {y}, free' = Eaten(v, n)
  PROVE  /\ Disjoint'
         /\ (\A w, u \in free : w # u => Apart(w, u))'
         /\ (\A w \in free : \A x \in Given : Apart(w, x.at))'
<1>1. /\ \A x \in Given : Apart(y.at, x.at) /\ Apart(x.at, y.at)
      /\ \A w \in Eaten(v, n) : Apart(w, y.at)
      /\ \A w, u \in Eaten(v, n) : w # u => Apart(w, u)
      /\ \A w \in Eaten(v, n) : \A x \in Given : Apart(w, x.at)
  BY Carve
<1>2. Disjoint'
  <2> SUFFICES ASSUME NEW p \in Given', NEW q \in Given', p # q
               PROVE  Apart(p.at, q.at)
    BY DEF Disjoint, Apart
  <2> QED BY <1>1 DEF AllocInv, Disjoint
<1>3. (\A w, u \in free : w # u => Apart(w, u))' BY <1>1 DEF Apart
<1>4. (\A w \in free : \A x \in Given : Apart(w, x.at))' BY <1>1 DEF Apart
<1> QED BY <1>2, <1>3, <1>4

-----------------------------------------------------------------------------
(* Types.                                                                   *)

LEMMA SeqFacts ==
  ASSUME TypeOK
  PROVE  /\ Len(arenas) \in Nat /\ Idx = 1 .. Len(arenas)
         /\ room > 0 => room - 1 \in 0 .. ArenaSize - 1
         /\ ArenaSize - 1 \in 0 .. ArenaSize - 1
         /\ \A k \in Idx : arenas[k] \in Nat
         /\ arenas # <<>> => Len(arenas) \in Idx
<1>1. arenas \in Seq(Nat) /\ room \in 0 .. ArenaSize - 1 BY DEF TypeOK
<1>2. Len(arenas) \in Nat /\ DOMAIN arenas = 1 .. Len(arenas) BY <1>1
<1>3. ArenaSize \in Nat \ {0} BY GuestAssumption
<1>4. (room > 0 => room - 1 \in 0 .. ArenaSize - 1) /\ ArenaSize - 1 \in 0 .. ArenaSize - 1
  BY <1>1, <1>3
<1>5. \A k \in 1 .. Len(arenas) : arenas[k] \in Nat BY <1>1
<1>6. arenas # <<>> => Len(arenas) \in 1 .. Len(arenas) BY <1>1
<1> QED BY <1>2, <1>4, <1>5, <1>6 DEF Idx

LEMMA AppendFacts ==
  ASSUME TypeOK, NEW n \in Nat, arenas' = Append(arenas, n)
  PROVE  /\ arenas' \in Seq(Nat) /\ Len(arenas') = Len(arenas) + 1
         /\ Idx' = Idx \cup {Len(arenas) + 1} /\ Len(arenas) + 1 \notin Idx
         /\ \A k \in Idx : arenas'[k] = arenas[k]
         /\ arenas'[Len(arenas) + 1] = n
<1>1. arenas \in Seq(Nat) BY DEF TypeOK
<1>2. /\ arenas' \in Seq(Nat) /\ Len(arenas') = Len(arenas) + 1
      /\ \A k \in 1 .. Len(arenas) : arenas'[k] = arenas[k]
      /\ arenas'[Len(arenas) + 1] = n
  BY <1>1
<1>3. DOMAIN arenas = 1 .. Len(arenas) /\ DOMAIN arenas' = 1 .. Len(arenas')
      /\ Len(arenas) \in Nat
  BY <1>1, <1>2
<1> QED BY <1>2, <1>3 DEF Idx

\* NewPTEs takes a page from the last arena, or appends one, which is dirty.
\* Nothing else changes, and no arena is appended once the allocator is sealed.
LEMMA NewPTEsEffect ==
  ASSUME TypeOK, RoomInv, NEW s \in Spaces, NewPTEs(s)
  PROVE  /\ free' \subseteq Blocks /\ arenas' \in Seq(Nat)
         /\ room' \in 0 .. ArenaSize - 1
         /\ Idx \subseteq Idx' /\ dirty' \subseteq Idx'
         /\ Idx' \ dirty' = Idx \ dirty
         /\ dirty \subseteq dirty'
         /\ dirty' \cap Idx = dirty
         /\ tables' \in [Spaces -> SUBSET Idx']
         /\ crash' \in {crash, "space", "arenas"}
         /\ Danger => Idx' = Idx /\ dirty' = dirty
<1>0. /\ dirty \subseteq Idx /\ tables \in [Spaces -> SUBSET Idx]
      /\ free \subseteq Blocks /\ arenas \in Seq(Nat) /\ room \in 0 .. ArenaSize - 1
  BY DEF TypeOK
<1>1. CASE /\ room > 0 /\ room' = room - 1
           /\ tables' = [tables EXCEPT ![s] = @ \cup {Len(arenas)}]
           /\ UNCHANGED <<free, arenas, dirty, crash>>
  <2>1. Idx' = Idx BY <1>1 DEF Idx
  <2>2. arenas # <<>>
    BY <1>1 DEF RoomInv
  <2>3. Len(arenas) \in Idx BY <2>2, SeqFacts
  <2>4. tables' \in [Spaces -> SUBSET Idx'] BY <1>0, <1>1, <2>1, <2>3
  <2>5. room' \in 0 .. ArenaSize - 1 BY <1>1, SeqFacts
  <2> QED BY <1>0, <1>1, <2>1, <2>4, <2>5
<1>2. CASE \E v \in Candidates(ArenaSize) :
             /\ room = 0 /\ ~Danger /\ NewArena(v)
             /\ tables' = [tables EXCEPT ![s] = @ \cup {Len(arenas')}]
             /\ UNCHANGED crash
  <2>1. PICK v \in Candidates(ArenaSize) :
             /\ room = 0 /\ ~Danger /\ NewArena(v)
             /\ tables' = [tables EXCEPT ![s] = @ \cup {Len(arenas')}]
             /\ UNCHANGED crash
    BY <1>2
  <2>2. v.start \in Nat /\ Eaten(v, ArenaSize) \subseteq Blocks
    BY GuestAssumption, CandidateFits, EatenType
  <2>3. /\ arenas' \in Seq(Nat) /\ Len(arenas') = Len(arenas) + 1
        /\ Idx' = Idx \cup {Len(arenas) + 1} /\ Len(arenas) + 1 \notin Idx
    BY <2>1, <2>2, AppendFacts DEF NewArena
  <2>4. dirty' = dirty \cup {Len(arenas) + 1} /\ room' = ArenaSize - 1
        /\ free' = Eaten(v, ArenaSize)
    BY <2>1 DEF NewArena
  <2>5. tables' \in [Spaces -> SUBSET Idx'] BY <1>0, <2>1, <2>3
  <2>6. room' \in 0 .. ArenaSize - 1 BY <2>4, SeqFacts
  <2> QED BY <1>0, <2>1, <2>2, <2>3, <2>4, <2>5, <2>6
<1>3. CASE /\ crash' \in {"space", "arenas"} /\ UNCHANGED mem
  <2>1. Idx' = Idx BY <1>3 DEF Idx, mem
  <2> QED BY <1>0, <1>3, <2>1 DEF mem
<1> QED BY <1>1, <1>2, <1>3 DEF NewPTEs

-----------------------------------------------------------------------------
(* Each part is kept by every step.                                         *)

\* The process stops, or does nothing: all that may change is crash.
Halts ==
  /\ crash' = crash \/ crash' \in {"slots", "unmapped", "region"}
  /\ UNCHANGED <<prog, mem, ctl, ept, gpa, built, amap>>

\* The conjuncts of TypeOK about what NewPTEs and Assign change.
PagesType ==
  /\ free \subseteq Blocks /\ arenas \in Seq(Nat) /\ room \in 0 .. ArenaSize - 1
  /\ dirty \subseteq Idx /\ tables \in [Spaces -> SUBSET Idx]
AssignType ==
  /\ free \subseteq Blocks
  /\ gpa \in [Spaces -> [Areas \cup Later -> Nat \cup {NoGPA}]]

LEMMA MirrorType == Mirror \subseteq Blocks
<1>1. \A v \in [start : 0 .. Limit, size : 1 .. Limit] : v \in Blocks
  BY GuestAssumption DEF Blocks
<1> QED BY <1>1 DEF Mirror

LEMMA AreaType ==
  ASSUME NEW a \in Areas \cup Later
  PROVE  a.start \in Nat /\ a.size \in Nat \ {0}
  BY GuestAssumption DEF Blocks

LEMMA SlotType ==
  ASSUME TypeOK, NEW a \in Areas \cup Later, gpa[GOD][a] # NoGPA
  PROVE  Slot(a) \in [area : Areas \cup Later, gpa : Nat]
<1>1. GOD \in Spaces BY DEF Spaces
<1>2. gpa[GOD] \in [Areas \cup Later -> Nat \cup {NoGPA}] BY <1>1 DEF TypeOK
<1>3. gpa[GOD][a] \in Nat BY <1>2
<1> QED BY <1>3 DEF Slot

LEMMA AssignEffect ==
  ASSUME TypeOK, NEW a \in Areas \cup Later, Assign(a)
  PROVE  AssignType' /\ crash' \in {crash, "space"}
<1>1. CASE Low(a) /\ gpa' = [gpa EXCEPT ![GOD][a] = a.start] /\ UNCHANGED <<free, crash>>
  BY <1>1, AreaType DEF AssignType, TypeOK
<1>2. CASE ~Low(a) /\ UNCHANGED crash
           /\ \E v \in Candidates(a.size) :
                gpa' = [gpa EXCEPT ![GOD][a] = v.start] /\ free' = Eaten(v, a.size)
  <2>1. PICK v \in Candidates(a.size) :
          gpa' = [gpa EXCEPT ![GOD][a] = v.start] /\ free' = Eaten(v, a.size)
    BY <1>2
  <2>2. a.size \in Nat BY AreaType
  <2>3. v.start \in Nat /\ Eaten(v, a.size) \subseteq Blocks BY <2>2, CandidateFits, EatenType
  <2> QED BY <1>2, <2>1, <2>3 DEF AssignType, TypeOK
<1>3. CASE crash' = "space" /\ UNCHANGED <<free, gpa>> BY <1>3 DEF AssignType, TypeOK
<1> QED BY <1>1, <1>2, <1>3 DEF Assign

LEMMA TypeStep == IInv /\ Next /\ ~Halts => TypeOK'
<1> SUFFICES ASSUME IInv, Next, ~Halts PROVE TypeOK'
  OBVIOUS
<1>0. TypeOK BY DEF IInv
<1>1. CASE InitializeGod
  <2>1. Idx' = Idx BY <1>1 DEF Idx, InitializeGod, mem, ctl, ept, prog
  <2>2. free' \in SUBSET Blocks BY <1>1, MirrorType DEF InitializeGod
  <2> QED BY <1>0, <1>1, <2>1, <2>2 DEF TypeOK, Stages, Spaces, InitializeGod, mem, ctl, ept, prog
<1>2. CASE NewRoot
  <2>1. NewPTEs(who) /\ who \in Spaces BY <1>0, <1>2 DEF NewRoot, TypeOK
  <2>2. PagesType' BY <1>0, <2>1, NewPTEsEffect DEF IInv, PagesType, TypeOK
  <2>3. Idx \subseteq Idx' /\ crash' \in {crash, "space", "arenas"} BY <1>0, <2>1, NewPTEsEffect DEF IInv
  <2> QED BY <1>0, <1>2, <2>2, <2>3 DEF PagesType, TypeOK, Stages, NewRoot, ept, prog
<1>3. CASE GodBuilt
  <2>1. Idx' = Idx BY <1>3 DEF Idx, GodBuilt, mem, ctl, ept, prog
  <2> QED BY <1>0, <1>3, <2>1 DEF TypeOK, Stages, Spaces, GodBuilt, mem, ctl, ept, prog
<1>4. CASE ViewBuilt
  <2>1. Idx' = Idx BY <1>4 DEF Idx, ViewBuilt, mem, ctl, ept, prog
  <2> QED BY <1>0, <1>4, <2>1 DEF TypeOK, Stages, Spaces, ViewBuilt, mem, ctl, ept, prog
<1>5. CASE CreateVirtualMachine
  <2>1. slots' = {Slot(a) : a \in Areas} /\ aslots' = Idx /\ dirty' = {} /\ vm' = TRUE
        /\ stage' = "arenas" /\ who' = GOD /\ left' = built
        /\ UNCHANGED <<prog, crash, free, arenas, room, tables, upd, area, gpa, built, amap>>
    BY <1>5 DEF CreateVirtualMachine, SetAllEPTSlots, Stop, Halts
  <2>2. \A a \in Areas : gpa[GOD][a] # NoGPA
    BY <1>5 DEF CreateVirtualMachine, IInv, AreaInv
  <2>3. slots' \subseteq [area : Areas \cup Later, gpa : Nat]
    BY <1>0, <2>1, <2>2, SlotType
  <2>4. Idx' = Idx BY <2>1 DEF Idx
  <2> QED BY <1>0, <2>1, <2>3, <2>4 DEF TypeOK, Stages, Spaces, prog
<1>6. CASE ArenaRegistered
  <2>1. Idx' = Idx BY <1>6 DEF Idx, ArenaRegistered, mem, ctl, ept, prog
  <2> QED BY <1>0, <1>6, <2>1 DEF TypeOK, Stages, Spaces, ArenaRegistered, mem, ctl, ept, prog
<1>7. CASE SlotsUpdated
  <2>1. Idx' = Idx BY <1>7 DEF Idx, SlotsUpdated, mem, ctl, ept, prog
  <2> QED BY <1>0, <1>7, <2>1 DEF TypeOK, Stages, Spaces, SlotsUpdated, mem, ctl, ept, prog
<1>8. CASE ArenasMapped
  <2>1. /\ UNCHANGED <<prog, crash, mem, upd, area, ept, gpa, built, amap>>
        /\ stage' \in Stages /\ who' \in {who} \cup left /\ left' \subseteq left
    BY <1>0, <1>8 DEF ArenasMapped, TypeOK, Stages, Stop, Halts
  <2>2. Idx' = Idx BY <2>1 DEF Idx, mem
  <2> QED BY <1>0, <2>1, <2>2 DEF TypeOK, Spaces, mem, ctl, ept, prog
<1>9. CASE GrowthDone
  <2>1. area \in Later /\ gpa[GOD][area] # NoGPA BY <1>9 DEF GrowthDone, IInv, AreaInv
  <2>2. Slot(area) \in [area : Areas \cup Later, gpa : Nat]
    BY <1>0, <2>1, SlotType
  <2>3. Idx' = Idx BY <1>9 DEF Idx, GrowthDone, mem
  <2>4. slots' \in {slots, slots \cup {Slot(area)}} /\ stage' \in Stages
        /\ crash' \in {crash, "", "slots", "dirty"}
    BY <1>0, <1>9 DEF GrowthDone, TypeOK, Stages
  <2> QED BY <1>0, <1>9, <2>2, <2>3, <2>4 DEF TypeOK, GrowthDone, mem, prog
<1>10. CASE \E a \in Areas : VMAToMemoryRegion(a)
  <2>1. PICK a \in Areas : VMAToMemoryRegion(a) BY <1>10
  <2>2. AssignType' /\ crash' \in {crash, "space"} BY <1>0, <2>1, AssignEffect DEF VMAToMemoryRegion
  <2>3. Idx' = Idx BY <2>1 DEF Idx, VMAToMemoryRegion
  <2> QED BY <1>0, <2>1, <2>2, <2>3 DEF AssignType, TypeOK, Stages, Spaces, VMAToMemoryRegion, ctl, ept, prog
<1>11. CASE \E a \in Later : GrowGod(a)
  <2>1. PICK a \in Later : GrowGod(a) BY <1>11
  <2>2. AssignType' /\ crash' \in {crash, "space"} BY <1>0, <2>1, AssignEffect DEF GrowGod
  <2>3. Idx' = Idx BY <2>1 DEF Idx, GrowGod
  <2>4. left' \subseteq Enclosures /\ stage' \in Stages
    BY <1>0, <2>1 DEF GrowGod, TypeOK, Stages
  <2> QED BY <1>0, <2>1, <2>2, <2>3, <2>4 DEF AssignType, TypeOK, Stages, Spaces, GrowGod, ctl, ept, prog
<1>12. CASE \E e \in Enclosures : CopyGod(e)
  <2>1. Idx' = Idx BY <1>12 DEF Idx, CopyGod, mem, ctl, ept, prog
  <2> QED BY <1>0, <1>12, <2>1 DEF TypeOK, Stages, Spaces, CopyGod, mem, ctl, ept, prog
<1>13. CASE \E e \in Enclosures : GrowView(e)
  <2>1. PICK e \in Enclosures : GrowView(e) BY <1>13
  <2>2. /\ gpa' = [gpa EXCEPT ![e][area] = gpa[GOD][area]]
        /\ who' = e /\ left' = left \ {e}
        /\ UNCHANGED <<prog, crash, mem, stage, upd, area, ept, built, amap>>
    BY <2>1 DEF GrowView, Stop, Halts
  <2>3. area \in Later BY <2>1 DEF GrowView, IInv, AreaInv
  <2>4. gpa \in [Spaces -> [Areas \cup Later -> Nat \cup {NoGPA}]] /\ GOD \in Spaces
    BY <1>0 DEF TypeOK, Spaces
  <2>5. gpa[GOD][area] \in Nat \cup {NoGPA} BY <2>3, <2>4
  <2>6. gpa' \in [Spaces -> [Areas \cup Later -> Nat \cup {NoGPA}]] BY <2>2, <2>4, <2>5
  <2>7. Idx' = Idx BY <2>2 DEF Idx, mem
  <2> QED BY <1>0, <2>2, <2>6, <2>7 DEF TypeOK, Spaces, mem, ept, prog
<1>14. CASE \E s \in Spaces : Walk(s)
  <2>1. PICK s \in Spaces : Walk(s) BY <1>14
  <2>2. PagesType' BY <1>0, <2>1, NewPTEsEffect DEF IInv, PagesType, TypeOK, Walk
  <2>3. Idx \subseteq Idx' /\ crash' \in {crash, "space", "arenas"}
    BY <1>0, <2>1, NewPTEsEffect DEF IInv, Walk
  <2> QED BY <1>0, <2>1, <2>2, <2>3 DEF PagesType, TypeOK, Walk, ctl, ept, prog
<1>15. CASE \E s \in Spaces : \E k \in Idx : DefaultMap(s, k)
  <2>1. PICK s \in Spaces, k \in Idx : DefaultMap(s, k) BY <1>15
  <2>2. Idx' = Idx BY <2>1 DEF Idx, DefaultMap, mem
  <2>3. amap' \in [Spaces -> SUBSET Idx] BY <1>0, <2>1 DEF TypeOK, DefaultMap
  <2> QED BY <1>0, <2>1, <2>2, <2>3 DEF TypeOK, DefaultMap, mem, ctl, ept, prog
<1>16. CASE \E k \in dirty : RegisterArena(k)
  <2>1. PICK k \in dirty : RegisterArena(k) BY <1>16
  <2>2. /\ aslots' = aslots \cup {k} /\ upd' = k
        /\ UNCHANGED <<prog, crash, mem, stage, who, left, area, vm, slots, gpa, built, amap>>
    BY <2>1 DEF RegisterArena, Stop, Halts
  <2>3. Idx' = Idx BY <2>2 DEF Idx, mem
  <2> QED BY <1>0, <2>2, <2>3 DEF TypeOK, mem, prog
<1> QED BY <1>1, <1>2, <1>3, <1>4, <1>5, <1>6, <1>7, <1>8, <1>9, <1>10, <1>11, <1>12,
  <1>13, <1>14, <1>15, <1>16 DEF Next, Rest, Halts, vars

LEMMA NewPTEsRoom ==
  ASSUME TypeOK, RoomInv, NEW s \in Spaces, NewPTEs(s)
  PROVE  RoomInv'
<1>1. CASE arenas' = arenas /\ (room' > 0 => room > 0) BY <1>1 DEF RoomInv
<1>2. CASE \E v \in Candidates(ArenaSize) : NewArena(v)
  <2>1. PICK v \in Candidates(ArenaSize) : NewArena(v) BY <1>2
  <2>2. v.start \in Nat BY GuestAssumption, CandidateFits
  <2>3. Len(arenas') = Len(arenas) + 1 /\ Len(arenas) \in Nat
    BY <2>1, <2>2, AppendFacts, SeqFacts DEF NewArena
  <2>4. arenas' # <<>> BY <2>3
  <2> QED BY <2>4 DEF RoomInv
<1>3. ArenaSize \in Nat BY GuestAssumption
<1>4. room \in 0 .. ArenaSize - 1 BY DEF TypeOK
<1>5. room \in Int BY <1>3, <1>4
<1> QED BY <1>1, <1>2, <1>5 DEF NewPTEs, mem

LEMMA RoomStep == IInv /\ Next => RoomInv'
<1> SUFFICES ASSUME IInv, Next PROVE RoomInv'
  OBVIOUS
<1>1. CASE NewRoot BY <1>1, NewPTEsRoom DEF IInv, NewRoot, TypeOK
<1>2. CASE \E s \in Spaces : Walk(s) BY <1>2, NewPTEsRoom DEF IInv, Walk
<1>3. CASE UNCHANGED <<arenas, room>> BY <1>3 DEF IInv, RoomInv
<1> QED
  BY <1>1, <1>2, <1>3 DEF Next, InitializeGod, GodBuilt, ViewBuilt, CreateVirtualMachine,
    ArenaRegistered, SlotsUpdated, ArenasMapped, GrowthDone, VMAToMemoryRegion, GrowGod,
    CopyGod, GrowView, DefaultMap, RegisterArena, Stop, Rest, vars, mem

\* Steps that leave the control alone.
LEMMA SameStage ==
  ASSUME StageInv, UNCHANGED <<stage, who, left, upd, built, vm, prog>>,
         dirty \subseteq dirty', crash' = crash \/ crash' # ""
  PROVE  StageInv'
  BY DEF StageInv, Live, prog

LEMMA StageStep == IInv /\ Next /\ ~Halts => StageInv'
<1> SUFFICES ASSUME IInv, Next, ~Halts PROVE StageInv'
  OBVIOUS
<1>0. /\ StageInv /\ built \subseteq Enclosures /\ who \in Enclosures \cup {GOD}
      /\ GOD \notin Enclosures
  BY GuestAssumption DEF IInv, TypeOK, Spaces
<1>1. CASE InitializeGod
  BY <1>0, <1>1 DEF StageInv, Live, InitializeGod, ept, prog
<1>2. CASE NewRoot
  <2>1. NewPTEs(who) /\ who \in Spaces BY <1>2 DEF NewRoot, IInv, TypeOK
  <2>2. crash' \in {crash, "space", "arenas"} BY <2>1, NewPTEsEffect DEF IInv
  <2>3. /\ stage = "root" /\ stage' = "fill"
        /\ UNCHANGED <<dynamic, declared, who, left, upd, vm, built>>
    BY <1>2 DEF NewRoot, ept, prog
  <2> QED BY <1>0, <2>2, <2>3 DEF StageInv, Live
<1>3. CASE GodBuilt
  BY <1>0, <1>3 DEF StageInv, Live, GodBuilt, mem, ept, prog
<1>4. CASE ViewBuilt
  BY <1>0, <1>4 DEF StageInv, Live, ViewBuilt, mem, ept, prog
<1>5. CASE CreateVirtualMachine
  <2>1. /\ stage = "pick" /\ ~vm /\ vm' = TRUE /\ stage' = "arenas" /\ who' = GOD
        /\ left' = built /\ (dynamic \/ built = declared) /\ crash = "" /\ crash' = crash
        /\ UNCHANGED <<dynamic, declared, upd, built>>
    BY <1>5 DEF CreateVirtualMachine, SetAllEPTSlots, Stop, Halts, prog
  <2> QED BY <1>0, <2>1 DEF StageInv, Live
<1>6. CASE ArenaRegistered
  BY <1>0, <1>6 DEF StageInv, Live, ArenaRegistered, ept, prog
<1>7. CASE SlotsUpdated
  BY <1>0, <1>7 DEF StageInv, Live, SlotsUpdated, mem, ept, prog
<1>8. CASE ArenasMapped
  <2>1. /\ stage = "arenas" /\ crash = "" /\ crash' = crash
        /\ UNCHANGED <<dynamic, declared, upd, built, vm, dirty>>
    BY <1>8 DEF ArenasMapped, Stop, Halts, prog, mem, ept
  <2>2. \/ left = {} /\ stage' = (IF dynamic /\ who = GOD THEN "pick" ELSE "run")
             /\ UNCHANGED <<who, left>>
        \/ \E s \in left : who' = s /\ left' = left \ {s} /\ UNCHANGED stage
    BY <1>8 DEF ArenasMapped, Halts, Stop
  <2>3. CASE left = {} /\ stage' = (IF dynamic /\ who = GOD THEN "pick" ELSE "run")
             /\ UNCHANGED <<who, left>>
    BY <1>0, <2>1, <2>3 DEF StageInv, Live
  <2>4. CASE \E s \in left : who' = s /\ left' = left \ {s} /\ UNCHANGED stage
    BY <1>0, <2>1, <2>4 DEF StageInv, Live
  <2> QED BY <2>2, <2>3, <2>4
<1>9. CASE GrowthDone
  BY <1>0, <1>9 DEF StageInv, Live, GrowthDone, mem, prog
<1>10. CASE \E a \in Areas : VMAToMemoryRegion(a)
  <2>1. /\ UNCHANGED <<stage, who, left, upd, built, vm, prog, dirty>>
        /\ crash' = crash \/ crash' # ""
    BY <1>10 DEF VMAToMemoryRegion, Assign, ctl, ept
  <2> QED BY <1>0, <2>1, SameStage
<1>11. CASE \E a \in Later : GrowGod(a)
  <2>1. /\ crash = "" /\ stage = "run" /\ who' = GOD
        /\ stage' = IF crash' = "" THEN "grow" ELSE stage
        /\ UNCHANGED <<dynamic, declared, upd, built, vm, dirty>>
    BY <1>11 DEF GrowGod, ept, prog
  <2>2. left' \subseteq built BY <1>11 DEF GrowGod
  <2> QED BY <1>0, <2>1, <2>2 DEF StageInv, Live
<1>12. CASE \E e \in Enclosures : CopyGod(e)
  <2>1. PICK e \in Enclosures : CopyGod(e) BY <1>12
  <2>2. /\ crash = "" /\ crash' = crash /\ stage' = "root" /\ who' = e
        /\ UNCHANGED <<dynamic, declared, left, upd, built, vm, dirty>>
        /\ e \in declared \ built
    BY <2>1 DEF CopyGod, mem, ept, prog
  <2>3. (stage = "pick" /\ vm = dynamic) \/ (stage = "run" /\ dynamic) BY <2>1 DEF CopyGod
  <2>4. stage = "pick" => (vm <=> dynamic) BY <2>3
  <2> QED BY <1>0, <2>2, <2>3, <2>4 DEF StageInv, Live
<1>13. CASE \E e \in Enclosures : GrowView(e)
  <2>1. /\ stage = "grow" /\ crash' = crash /\ who' \in left /\ left' \subseteq left
        /\ UNCHANGED <<dynamic, declared, stage, upd, built, vm, dirty>>
    BY <1>13 DEF GrowView, Stop, Halts, mem, ept, prog
  <2> QED BY <1>0, <2>1 DEF StageInv, Live
<1>14. CASE \E s \in Spaces : Walk(s)
  <2>1. PICK s \in Spaces : Walk(s) BY <1>14
  <2>2. dirty \subseteq dirty' /\ crash' \in {crash, "space", "arenas"}
    BY <2>1, NewPTEsEffect DEF IInv, Walk
  <2>3. UNCHANGED <<stage, who, left, upd, built, vm, prog>> BY <2>1 DEF Walk, ctl, ept
  <2> QED BY <1>0, <2>2, <2>3, SameStage
<1>15. CASE \E s \in Spaces : \E k \in Idx : DefaultMap(s, k)
  <2>1. UNCHANGED <<stage, who, left, upd, built, vm, prog, crash, dirty>>
    BY <1>15 DEF DefaultMap, mem, ctl, ept
  <2> QED BY <1>0, <2>1, SameStage
<1>16. CASE \E k \in dirty : RegisterArena(k)
  <2>1. /\ stage = "update" /\ upd' \in dirty
        /\ UNCHANGED <<dynamic, declared, crash, stage, who, left, built, vm, dirty>>
    BY <1>16 DEF RegisterArena, Stop, Halts, mem, prog
  <2> QED BY <1>0, <2>1 DEF StageInv, Live
<1> QED BY <1>1, <1>2, <1>3, <1>4, <1>5, <1>6, <1>7, <1>8, <1>9, <1>10, <1>11, <1>12,
  <1>13, <1>14, <1>15, <1>16 DEF Next, Rest, Halts, vars

\* What Assign does to God's space: area a gets an address, its own if it is
\* below the limit, or the process stops.
LEMMA AssignValue ==
  ASSUME TypeOK, NEW a \in Areas \cup Later, Assign(a), crash = ""
  PROVE  /\ \A b \in Areas \cup Later : b # a => gpa'[GOD][b] = gpa[GOD][b]
         /\ \A s \in Enclosures : gpa'[s] = gpa[s]
         /\ gpa'[GOD][a] \in Nat \/ (crash' = "space" /\ UNCHANGED <<gpa, free>>)
<1>1. /\ GOD \in Spaces /\ gpa \in [Spaces -> [Areas \cup Later -> Nat \cup {NoGPA}]]
      /\ \A s \in Enclosures : s \in Spaces /\ s # GOD
  BY GuestAssumption DEF TypeOK, Spaces
<1>2. ASSUME NEW n \in Nat, gpa' = [gpa EXCEPT ![GOD][a] = n]
      PROVE  /\ \A b \in Areas \cup Later : b # a => gpa'[GOD][b] = gpa[GOD][b]
             /\ \A s \in Enclosures : gpa'[s] = gpa[s]
             /\ gpa'[GOD][a] \in Nat
  BY <1>1, <1>2
<1>3. CASE gpa' = [gpa EXCEPT ![GOD][a] = a.start] BY <1>2, <1>3, AreaType
<1>4. CASE \E v \in Candidates(a.size) : gpa' = [gpa EXCEPT ![GOD][a] = v.start]
  <2>1. PICK v \in Candidates(a.size) : gpa' = [gpa EXCEPT ![GOD][a] = v.start] BY <1>4
  <2>2. v.start \in Nat BY AreaType, CandidateFits
  <2> QED BY <1>2, <2>1, <2>2
<1>5. CASE crash' = "space" /\ UNCHANGED <<gpa, free>> BY <1>5
<1> QED BY <1>3, <1>4, <1>5 DEF Assign

\* Which steps give God's space an address for an area, and which do not.
LEMMA SameGod ==
  ASSUME IInv, Next, ~Halts,
         ~\E a \in Areas : VMAToMemoryRegion(a), ~\E a \in Later : GrowGod(a)
  PROVE  gpa'[GOD] = gpa[GOD]
<1>1. /\ GOD \in Spaces /\ gpa \in [Spaces -> [Areas \cup Later -> Nat \cup {NoGPA}]]
      /\ GOD \notin Enclosures
  BY GuestAssumption DEF IInv, TypeOK, Spaces
<1>2. CASE \E e \in Enclosures : CopyGod(e) BY <1>1, <1>2 DEF CopyGod
<1>3. CASE \E e \in Enclosures : GrowView(e)
  <2>1. PICK e \in Enclosures : GrowView(e) BY <1>3
  <2>2. gpa' = [gpa EXCEPT ![e][area] = gpa[GOD][area]] BY <2>1 DEF GrowView, Stop, Halts
  <2> QED BY <1>1, <2>2
<1>4. CASE UNCHANGED gpa BY <1>4
<1> QED BY <1>2, <1>3, <1>4 DEF Next, InitializeGod, NewRoot, GodBuilt, ViewBuilt,
  CreateVirtualMachine, ArenaRegistered, SlotsUpdated, ArenasMapped, GrowthDone, Walk,
  DefaultMap, RegisterArena, Stop, Rest, vars

LEMMA AreaStep == IInv /\ Next /\ ~Halts => AreaInv'
<1> SUFFICES ASSUME IInv, Next, ~Halts PROVE AreaInv'
  OBVIOUS
<1>0. AreaInv /\ StageInv /\ TypeOK /\ NoGPA \notin Nat /\ Areas \cap Later = {}
  BY GuestAssumption DEF IInv
<1>1. CASE \E a \in Areas : VMAToMemoryRegion(a)
  <2>1. PICK a \in Areas : VMAToMemoryRegion(a) BY <1>1
  <2>2. /\ crash = "" /\ stage = "fill" /\ who = GOD /\ stage' = stage /\ who' = who
        /\ vm' = vm
    BY <2>1 DEF VMAToMemoryRegion, ctl, ept
  <2>3. \A b \in Later : gpa'[GOD][b] = gpa[GOD][b]
    BY <1>0, <2>1, <2>2, AssignValue DEF VMAToMemoryRegion
  <2> QED BY <1>0, <2>2, <2>3 DEF AreaInv
<1>2. CASE \E a \in Later : GrowGod(a)
  <2>1. PICK a \in Later : GrowGod(a) BY <1>2
  <2>2. /\ crash = "" /\ stage = "run" /\ who' = GOD /\ area' = a /\ vm' = vm
        /\ stage' = IF crash' = "" THEN "grow" ELSE stage
    BY <2>1 DEF GrowGod, ept
  <2>3. /\ \A b \in Areas : gpa'[GOD][b] = gpa[GOD][b]
        /\ gpa'[GOD][a] \in Nat \/ crash' = "space"
    BY <1>0, <2>1, <2>2, AssignValue DEF GrowGod
  <2>4. vm /\ vm' BY <1>0, <2>2 DEF StageInv
  <2> QED BY <1>0, <2>1, <2>2, <2>3, <2>4 DEF AreaInv
<1>3. CASE ~(\E a \in Areas : VMAToMemoryRegion(a)) /\ ~(\E a \in Later : GrowGod(a))
  <2>1. gpa'[GOD] = gpa[GOD] BY <1>3, SameGod
  <2>2. CASE InitializeGod BY <1>0, <2>1, <2>2 DEF InitializeGod, AreaInv, StageInv, ept
  <2>3. CASE NewRoot BY <1>0, <2>1, <2>3 DEF NewRoot, AreaInv, ept
  <2>4. CASE GodBuilt BY <1>0, <2>1, <2>4 DEF GodBuilt, AreaInv, ept
  <2>5. CASE ViewBuilt BY <1>0, <2>1, <2>5 DEF ViewBuilt, AreaInv, ept
  <2>6. CASE CreateVirtualMachine
    BY <1>0, <2>1, <2>6 DEF CreateVirtualMachine, SetAllEPTSlots, Stop, Halts, AreaInv
  <2>7. CASE ArenaRegistered \/ SlotsUpdated
    BY <1>0, <2>1, <2>7 DEF ArenaRegistered, SlotsUpdated, AreaInv, ept
  <2>8. CASE ArenasMapped
    <3>1. stage = "arenas" /\ stage' \in {"arenas", "pick", "run"} /\ vm' = vm
      BY <2>8 DEF ArenasMapped, Stop, Halts, ept
    <3> QED BY <1>0, <2>1, <3>1 DEF AreaInv
  <2>9. CASE GrowthDone BY <1>0, <2>1, <2>9 DEF GrowthDone, AreaInv
  <2>10. CASE \E e \in Enclosures : CopyGod(e)
    <3>1. stage \in {"pick", "run"} /\ stage' = "root" /\ vm' = vm
      BY <2>10 DEF CopyGod, ept
    <3> QED BY <1>0, <2>1, <3>1 DEF AreaInv
  <2>11. CASE \E e \in Enclosures : GrowView(e)
    <3>1. stage = "grow" /\ stage' = "grow" /\ area' = area /\ vm' = vm
      BY <2>11 DEF GrowView, Stop, Halts, ept
    <3> QED BY <1>0, <2>1, <3>1 DEF AreaInv
  <2>12. CASE \/ \E s \in Spaces : Walk(s) \/ \E k \in Idx : DefaultMap(s, k)
              \/ \E k \in dirty : RegisterArena(k)
    <3>1. stage' = stage /\ who' = who /\ area' = area /\ vm' = vm /\ stage # "off"
      BY <2>12 DEF Walk, Walking, DefaultMap, RegisterArena, Stop, Halts, ctl, ept
    <3> QED BY <1>0, <2>1, <3>1 DEF AreaInv
  <2> QED BY <1>3, <2>2, <2>3, <2>4, <2>5, <2>6, <2>7, <2>8, <2>9, <2>10, <2>11, <2>12
          DEF Next, Rest, Halts, vars
<1> QED BY <1>1, <1>2, <1>3

LEMMA CopyStep == IInv /\ Next /\ ~Halts => CopyInv'
<1> SUFFICES ASSUME IInv, Next, ~Halts PROVE CopyInv'
  OBVIOUS
<1>0. /\ CopyInv /\ TypeOK /\ NoGPA \notin Nat /\ GOD \notin Enclosures /\ GOD \in Spaces
      /\ \A s \in Spaces : s = GOD \/ s \in Enclosures
  BY GuestAssumption DEF IInv, Spaces
<1>t. /\ gpa \in [Spaces -> [Areas \cup Later -> Nat \cup {NoGPA}]]
      /\ slots \subseteq [area : Areas \cup Later, gpa : Nat]
  BY <1>0 DEF TypeOK
<1>1. ASSUME NEW a \in Areas \cup Later, Assign(a), gpa[GOD][a] = NoGPA, crash = "",
             UNCHANGED slots
      PROVE  CopyInv'
  <2>1. /\ \A b \in Areas \cup Later : b # a => gpa'[GOD][b] = gpa[GOD][b]
        /\ \A s \in Enclosures : gpa'[s] = gpa[s]
    BY <1>0, <1>1, AssignValue
  <2>2. \A s \in Spaces : \A b \in Areas \cup Later : gpa'[s][b] \in {NoGPA, gpa'[GOD][b]}
    <3> SUFFICES ASSUME NEW s \in Enclosures, NEW b \in Areas \cup Later
                 PROVE  gpa'[s][b] \in {NoGPA, gpa'[GOD][b]}
      BY <1>0
    <3>1. gpa[s][b] \in {NoGPA, gpa[GOD][b]} BY DEF CopyInv, Spaces, IInv
    <3> QED BY <1>1, <2>1, <3>1
  <2>3. \A r \in slots : r.area \in Areas \cup Later /\ r.area # a
    BY <1>0, <1>t, <1>1 DEF CopyInv
  <2> QED BY <1>0, <1>1, <2>1, <2>2, <2>3 DEF CopyInv
<1>2. CASE \E a \in Areas : VMAToMemoryRegion(a)
  BY <1>1, <1>2 DEF VMAToMemoryRegion, ept
<1>3. CASE \E a \in Later : GrowGod(a) BY <1>1, <1>3 DEF GrowGod, ept
<1>4. CASE CreateVirtualMachine
  <2>1. slots' = {Slot(a) : a \in Areas} /\ gpa' = gpa
    BY <1>4 DEF CreateVirtualMachine, SetAllEPTSlots, Stop, Halts
  <2>2. \A r \in slots' : r.gpa = gpa[GOD][r.area] BY <2>1 DEF Slot
  <2> QED BY <1>0, <2>1, <2>2 DEF CopyInv
<1>5. CASE GrowthDone
  <2>1. slots' \subseteq slots \cup {Slot(area)} /\ gpa' = gpa BY <1>5 DEF GrowthDone
  <2>2. \A r \in slots' : r.gpa = gpa[GOD][r.area] BY <1>0, <2>1 DEF Slot, CopyInv
  <2> QED BY <1>0, <2>1, <2>2 DEF CopyInv
<1>6. CASE \E e \in Enclosures : CopyGod(e)
  <2>1. PICK e \in Enclosures : CopyGod(e) BY <1>6
  <2>2. gpa' = [gpa EXCEPT ![e] = gpa[GOD]] /\ slots' = slots BY <2>1 DEF CopyGod, ept
  <2>3. \A s \in Spaces : gpa'[s] = IF s = e THEN gpa[GOD] ELSE gpa[s] BY <1>t, <2>2
  <2>4. gpa'[GOD] = gpa[GOD] BY <1>0, <2>1, <2>3
  <2>5. \A s \in Spaces : \A b \in Areas \cup Later : gpa'[s][b] \in {NoGPA, gpa[GOD][b]}
    BY <1>0, <2>3 DEF CopyInv
  <2> QED BY <1>0, <2>2, <2>4, <2>5 DEF CopyInv
<1>7. CASE \E e \in Enclosures : GrowView(e)
  <2>1. PICK e \in Enclosures : GrowView(e) BY <1>7
  <2>2. gpa' = [gpa EXCEPT ![e][area] = gpa[GOD][area]] /\ slots' = slots
    BY <2>1 DEF GrowView, Stop, Halts, ept
  <2>3. gpa'[GOD] = gpa[GOD] BY <1>0, <1>t, <2>1, <2>2
  <2>4. \A s \in Spaces : \A b \in Areas \cup Later :
          gpa'[s][b] = IF s = e /\ b = area THEN gpa[GOD][area] ELSE gpa[s][b]
    BY <1>t, <2>2
  <2>5. \A s \in Spaces : \A b \in Areas \cup Later : gpa'[s][b] \in {NoGPA, gpa[GOD][b]}
    BY <1>0, <2>4 DEF CopyInv
  <2> QED BY <1>0, <2>2, <2>3, <2>5 DEF CopyInv
<1>8. CASE UNCHANGED <<gpa, slots>> BY <1>0, <1>8 DEF CopyInv
<1> QED
  BY <1>2, <1>3, <1>4, <1>5, <1>6, <1>7, <1>8 DEF Next, InitializeGod, NewRoot, GodBuilt,
    ViewBuilt, ArenaRegistered, SlotsUpdated, ArenasMapped, Walk, DefaultMap,
    RegisterArena, Stop, Rest, vars, ept

\* Steps that add neither slots nor areas.
LEMMA SameSlots ==
  ASSUME SlotInv, UNCHANGED <<vm, dynamic, slots>>, gpa'[GOD] = gpa[GOD],
         crash' = crash \/ crash' # "",
         stage = "grow" => stage' = "grow" /\ area' = area
  PROVE  SlotInv'
<1>1. \A a \in Areas \cup Later : Slot(a)' = Slot(a) BY DEF Slot
<1> QED BY <1>1 DEF SlotInv

LEMMA SlotStep == IInv /\ Next /\ ~Halts => SlotInv'
<1> SUFFICES ASSUME IInv, Next, ~Halts PROVE SlotInv'
  OBVIOUS
<1>0. SlotInv /\ AreaInv /\ StageInv /\ TypeOK /\ Areas \cap Later = {}
  BY GuestAssumption DEF IInv
<1>1. CASE \E a \in Areas : VMAToMemoryRegion(a)
  <2>1. stage = "fill" /\ who = GOD /\ vm' = vm BY <1>1 DEF VMAToMemoryRegion, ept
  <2> QED BY <1>0, <2>1 DEF SlotInv, StageInv
<1>2. CASE \E a \in Later : GrowGod(a)
  <2>1. PICK a \in Later : GrowGod(a) BY <1>2
  <2>2. /\ crash = "" /\ area' = a /\ vm /\ vm' = vm /\ dynamic' = dynamic /\ slots' = slots
        /\ stage = "run" /\ stage' = IF crash' = "" THEN "grow" ELSE stage
    BY <1>0, <2>1 DEF GrowGod, ept, prog, StageInv
  <2>3. \A b \in Areas \cup Later : b # a => gpa'[GOD][b] = gpa[GOD][b]
    BY <1>0, <2>1, <2>2, AssignValue DEF GrowGod
  <2>4. \A b \in Areas \cup Later : b # a => Slot(b)' = Slot(b) BY <2>3 DEF Slot
  <2> QED BY <1>0, <2>1, <2>2, <2>3, <2>4 DEF SlotInv
<1>3. CASE CreateVirtualMachine
  <2>1. ~vm /\ slots' = {Slot(a) : a \in Areas} /\ gpa' = gpa
    BY <1>3 DEF CreateVirtualMachine, SetAllEPTSlots, Stop, Halts
  <2>2. \A a \in Areas : Slot(a)' = Slot(a) BY <2>1 DEF Slot
  <2> QED BY <1>0, <2>1, <2>2 DEF SlotInv, AreaInv
<1>4. CASE GrowthDone
  <2>1. /\ stage = "grow" /\ gpa' = gpa /\ vm' = vm /\ dynamic' = dynamic
        /\ slots \subseteq slots'
        /\ dynamic /\ crash' = "" => Slot(area) \in slots'
    BY <1>4 DEF GrowthDone, prog
  <2>2. \A a \in Areas \cup Later : Slot(a)' = Slot(a) BY <2>1 DEF Slot
  <2>3. crash = "" BY <1>4 DEF GrowthDone
  <2> QED BY <1>0, <2>1, <2>2, <2>3 DEF SlotInv
<1>5. CASE /\ ~(\E a \in Areas : VMAToMemoryRegion(a)) /\ ~(\E a \in Later : GrowGod(a))
           /\ ~CreateVirtualMachine /\ ~GrowthDone
  <2>1. gpa'[GOD] = gpa[GOD] BY <1>5, SameGod
  <2>2. UNCHANGED <<vm, dynamic, slots>> /\ (stage = "grow" => stage' = "grow" /\ area' = area)
    BY <1>5 DEF Next, Halts, InitializeGod, NewRoot, GodBuilt, ViewBuilt, ArenaRegistered,
       SlotsUpdated, ArenasMapped, CopyGod, GrowView, Walk, DefaultMap, RegisterArena, Stop,
       Rest, vars, ctl, ept, prog
  <2>3. crash' = crash \/ crash' # ""
    BY <1>5 DEF Next, Halts, InitializeGod, NewRoot, NewPTEs, GodBuilt, ViewBuilt,
       ArenaRegistered, SlotsUpdated, ArenasMapped, CopyGod, GrowView, Walk, DefaultMap,
       RegisterArena, Stop, Rest, vars
  <2> QED BY <1>0, <2>1, <2>2, <2>3, SameSlots
<1> QED BY <1>1, <1>2, <1>3, <1>4, <1>5

\* Steps that change no arena and leave the control alone, but for the end of
\* a call that has nothing to do with arenas.
LEMMA SameArenas ==
  ASSUME ArenaInv, UNCHANGED <<vm, dynamic, arenas, dirty, aslots, upd, amap, built>>,
         crash' = crash \/ crash' # "",
         UNCHANGED <<stage, who, left>> \/
           (stage \notin {"arenas", "update"} /\ stage' \notin {"arenas", "update"}),
         stage' = "run" => stage = "run" \/ crash' # "" \/ dirty = {}
  PROVE  ArenaInv'
<1>1. Idx' = Idx BY DEF Idx
<1>2. Live' = Live BY DEF Live
<1> QED BY <1>1, <1>2 DEF ArenaInv

\* Page tables are made, and with them perhaps an arena, which is dirty; once
\* the allocator is sealed, no arena.
LEMMA WalkArenas ==
  ASSUME IInv, NEW s \in Spaces, NewPTEs(s),
         UNCHANGED <<vm, dynamic, aslots, upd, amap, built, who, left>>,
         stage' = stage \/ (stage = "root" /\ stage' = "fill"), stage # "run"
  PROVE  ArenaInv'
<1>0. TypeOK /\ ArenaInv BY DEF IInv
<1>1. /\ Idx \subseteq Idx' /\ Idx' \ dirty' = Idx \ dirty /\ dirty' \cap Idx = dirty
      /\ Danger => Idx' = Idx /\ dirty' = dirty
  BY NewPTEsEffect DEF IInv
<1>2. amap[GOD] \subseteq Idx BY <1>0 DEF TypeOK, Spaces
<1>3. Live' = Live BY DEF Live
<1>4. vm /\ ~dynamic => Danger BY DEF Danger
<1> QED BY <1>0, <1>1, <1>2, <1>3, <1>4 DEF ArenaInv

LEMMA ArenaStep == IInv /\ Next /\ ~Halts => ArenaInv'
<1> SUFFICES ASSUME IInv, Next, ~Halts PROVE ArenaInv'
  OBVIOUS
<1>0. /\ ArenaInv /\ StageInv /\ TypeOK /\ GOD \notin Enclosures /\ GOD \in Spaces
      /\ dirty \subseteq Idx /\ built \subseteq Enclosures
      /\ amap \in [Spaces -> SUBSET Idx]
  BY GuestAssumption DEF IInv, Spaces, TypeOK
<1>1. CASE InitializeGod \/ GodBuilt
  <2>1. UNCHANGED <<vm, dynamic, arenas, dirty, aslots, upd, amap, built, crash>>
    BY <1>1 DEF InitializeGod, GodBuilt, mem, ept, prog
  <2>2. stage \notin {"arenas", "update"} /\ stage' \notin {"arenas", "update", "run"}
    BY <1>1 DEF InitializeGod, GodBuilt
  <2> QED BY <1>0, <2>1, <2>2, SameArenas
<1>2. CASE NewRoot
  <2>1. who \in Spaces BY <1>0 DEF TypeOK
  <2> QED BY <1>2, <2>1, WalkArenas DEF NewRoot, ept, prog
<1>3. CASE ViewBuilt
  <2>1. /\ stage = "fill" /\ who # GOD /\ built' = built \cup {who}
        /\ stage' = IF dynamic THEN "update" ELSE "pick"
        /\ UNCHANGED <<vm, dynamic, arenas, dirty, aslots, upd, amap, who, left, crash>>
    BY <1>3 DEF ViewBuilt, mem, ept, prog
  <2>2. (dynamic <=> vm) BY <1>0, <2>1 DEF StageInv
  <2>3. Idx' = Idx /\ Live' = Live \cup {who} BY <2>1 DEF Idx, Live
  <2> QED BY <1>0, <2>1, <2>2, <2>3 DEF ArenaInv
<1>4. CASE CreateVirtualMachine
  <2>1. /\ ~vm /\ vm' = TRUE /\ aslots' = Idx /\ dirty' = {}
        /\ stage' = "arenas" /\ who' = GOD /\ left' = built
        /\ UNCHANGED <<dynamic, arenas, upd, amap, built>>
    BY <1>4 DEF CreateVirtualMachine, SetAllEPTSlots, Stop, Halts, prog
  <2>2. dynamic => built = {} BY <1>0, <2>1 DEF StageInv
  <2>3. Idx' = Idx /\ Live' = Live BY <2>1 DEF Idx, Live
  <2>4. upd = 0 BY <1>0, <1>4 DEF StageInv, CreateVirtualMachine
  <2> QED BY <1>0, <2>1, <2>2, <2>3, <2>4 DEF ArenaInv, Live
<1>5. CASE ArenaRegistered
  <2>1. /\ stage = "update" /\ upd # 0 /\ \A s \in Live : upd \in amap[s]
        /\ dirty' = dirty \ {upd} /\ upd' = 0
        /\ UNCHANGED <<vm, dynamic, arenas, stage, who, left, aslots, amap, built>>
    BY <1>5 DEF ArenaRegistered, ept, prog
  <2>2. Idx' = Idx /\ Live' = Live BY <2>1 DEF Idx, Live
  <2> QED BY <1>0, <2>1, <2>2 DEF ArenaInv
<1>6. CASE SlotsUpdated
  <2>1. /\ stage = "update" /\ upd = 0 /\ dirty = {} /\ stage' = "arenas"
        /\ UNCHANGED <<vm, dynamic, arenas, dirty, upd, who, left, aslots, amap, built>>
    BY <1>6 DEF SlotsUpdated, mem, ept, prog
  <2>2. dynamic BY <1>0, <2>1 DEF StageInv
  <2>3. Idx' = Idx /\ Live' = Live BY <2>1 DEF Idx, Live
  <2> QED BY <1>0, <2>1, <2>2, <2>3 DEF ArenaInv
<1>7. CASE ArenasMapped
  <2>1. /\ stage = "arenas" /\ Idx \subseteq amap[who] /\ Idx \subseteq amap[GOD]
        /\ UNCHANGED <<vm, dynamic, arenas, dirty, upd, aslots, amap, built, crash>>
    BY <1>7 DEF ArenasMapped, Stop, Halts, mem, ept, prog
  <2>2. \/ left = {} /\ stage' = (IF dynamic /\ who = GOD THEN "pick" ELSE "run")
             /\ UNCHANGED <<who, left>>
        \/ \E s \in left : who' = s /\ left' = left \ {s} /\ UNCHANGED stage
    BY <1>7 DEF ArenasMapped, Stop, Halts
  <2>3. Idx' = Idx /\ Live' = Live BY <2>1 DEF Idx, Live
  <2>4. vm BY <1>0, <2>1 DEF StageInv
  <2>5. crash = "" BY <1>7 DEF ArenasMapped
  <2>6. ASSUME dynamic PROVE ArenaInv'
    <3>1. left = {} BY <1>0, <2>1, <2>5, <2>6 DEF StageInv
    <3>2. who # GOD => dirty = {} BY <1>0, <2>1, <2>4, <2>6 DEF ArenaInv
    <3>3. who = GOD => Live = {GOD} BY <1>0, <2>1, <2>6 DEF StageInv, Live
    <3> QED BY <1>0, <2>1, <2>2, <2>3, <2>4, <2>6, <3>1, <3>2, <3>3 DEF ArenaInv
  <2>7. ASSUME ~dynamic PROVE ArenaInv'
    <3>1. /\ dirty = {}
          /\ \A s \in Live : s = who \/ s \in left \/ Idx \subseteq amap[s]
      BY <1>0, <2>1, <2>4, <2>7 DEF ArenaInv
    <3>2. \A s \in Live : (stage' = "arenas" /\ (s = who' \/ s \in left')) \/ Idx \subseteq amap[s]
      BY <2>1, <2>2, <2>7, <3>1
    <3> QED BY <1>0, <2>1, <2>3, <2>4, <2>7, <3>1, <3>2 DEF ArenaInv
  <2> QED BY <2>6, <2>7
<1>8. CASE GrowthDone
  <2>1. /\ stage = "grow" /\ stage' \in {"grow", "run"}
        /\ UNCHANGED <<vm, dynamic, arenas, dirty, upd, aslots, amap, built, who, left>>
        /\ stage' = "run" /\ dynamic /\ crash' = "" => dirty = {}
        /\ stage' = "run" /\ ~dynamic => crash' = ""
        /\ crash = ""
    BY <1>8 DEF GrowthDone, mem, prog
  <2>2. vm BY <1>0, <2>1 DEF StageInv
  <2>3. dynamic \/ dirty = {} BY <1>0, <2>2 DEF ArenaInv
  <2> QED BY <1>0, <2>1, <2>3, SameArenas
<1>9. CASE \E a \in Areas : VMAToMemoryRegion(a)
  <2>1. /\ UNCHANGED <<vm, dynamic, arenas, dirty, aslots, upd, amap, built, stage, who, left>>
        /\ crash = "" /\ stage # "run"
    BY <1>9 DEF VMAToMemoryRegion, ctl, ept, prog
  <2> QED BY <1>0, <2>1, SameArenas
<1>10. CASE \E a \in Later : GrowGod(a)
  <2>1. /\ UNCHANGED <<vm, dynamic, arenas, dirty, aslots, upd, amap, built>>
        /\ crash = "" /\ stage = "run" /\ stage' \in {"run", "grow"}
    BY <1>10 DEF GrowGod, ept, prog
  <2> QED BY <1>0, <2>1, SameArenas
<1>11. CASE \E e \in Enclosures : CopyGod(e)
  <2>1. /\ UNCHANGED <<vm, dynamic, arenas, dirty, aslots, upd, amap, built, crash>>
        /\ stage \in {"pick", "run"} /\ stage' = "root"
    BY <1>11 DEF CopyGod, mem, ept, prog
  <2> QED BY <1>0, <2>1, SameArenas
<1>12. CASE \E e \in Enclosures : GrowView(e)
  <2>1. /\ UNCHANGED <<vm, dynamic, arenas, dirty, aslots, upd, amap, built, crash>>
        /\ stage = "grow" /\ stage' = "grow"
    BY <1>12 DEF GrowView, Stop, Halts, mem, ept, prog
  <2> QED BY <1>0, <2>1, SameArenas
<1>13. CASE \E s \in Spaces : Walk(s)
  <2>1. PICK s \in Spaces : Walk(s) BY <1>13
  <2>2. stage # "run" BY <2>1 DEF Walk, Walking
  <2> QED BY <2>1, <2>2, WalkArenas DEF Walk, ctl, ept, prog
<1>14. CASE \E s \in Spaces : \E k \in Idx : DefaultMap(s, k)
  <2>1. PICK s \in Spaces, k \in Idx : DefaultMap(s, k) BY <1>14
  <2>2. /\ UNCHANGED <<vm, dynamic, arenas, dirty, aslots, upd, built, stage, who, left, crash>>
        /\ amap' = [amap EXCEPT ![s] = @ \cup {k}]
        /\ stage = "update" \/ (stage = "arenas" /\ s = who)
    BY <2>1 DEF DefaultMap, mem, ctl, ept, prog
  <2>3. /\ \A t \in Spaces : amap[t] \subseteq amap'[t]
        /\ s # GOD => amap'[GOD] = amap[GOD]
    BY <1>0, <2>2
  <2>4. Idx' = Idx /\ Live' = Live BY <2>2 DEF Idx, Live
  <2>5. Live \subseteq Spaces BY <1>0 DEF Live, Spaces
  <2> QED BY <1>0, <2>2, <2>3, <2>4, <2>5 DEF ArenaInv
<1>15. CASE \E k \in dirty : RegisterArena(k)
  <2>1. PICK k \in dirty : RegisterArena(k) BY <1>15
  <2>2. /\ UNCHANGED <<vm, dynamic, arenas, dirty, amap, built, stage, who, left, crash>>
        /\ aslots' = aslots \cup {k} /\ upd' = k
    BY <2>1 DEF RegisterArena, Stop, Halts, mem, prog
  <2>3. Idx' = Idx /\ Live' = Live BY <2>2 DEF Idx, Live
  <2> QED BY <1>0, <2>2, <2>3 DEF ArenaInv
<1> QED BY <1>1, <1>2, <1>3, <1>4, <1>5, <1>6, <1>7, <1>8, <1>9, <1>10, <1>11, <1>12,
  <1>13, <1>14, <1>15 DEF Next, Rest, Halts, vars

-----------------------------------------------------------------------------
(* Who has which guest physical pages.                                      *)

LEMMA GivenType ==
  ASSUME TypeOK, NEW x \in Given
  PROVE  x.at.start \in Nat /\ x.at.size \in Nat
<1>0. /\ gpa \in [Spaces -> [Areas \cup Later -> Nat \cup {NoGPA}]] /\ GOD \in Spaces
      /\ ArenaSize \in Nat
  BY GuestAssumption DEF TypeOK, Spaces
<1>1. CASE \E a \in Areas : x = [by |-> Areal(a), at |-> Block(a.start, a.size)]
  BY <1>1, AreaType DEF Block
<1>2. CASE \E a \in Areas \cup Later : /\ gpa[GOD][a] # NoGPA
             /\ x = [by |-> Areal(a), at |-> Block(gpa[GOD][a], a.size)]
  <2>1. PICK a \in Areas \cup Later : /\ gpa[GOD][a] # NoGPA
             /\ x = [by |-> Areal(a), at |-> Block(gpa[GOD][a], a.size)]
    BY <1>2
  <2>2. gpa[GOD][a] \in Nat BY <1>0, <2>1
  <2> QED BY <2>1, <2>2, AreaType DEF Block
<1>3. CASE \E k \in Idx : x = [by |-> Arena(k), at |-> Block(arenas[k], ArenaSize)]
  BY <1>0, <1>3, SeqFacts DEF Block
<1> QED BY <1>1, <1>2, <1>3 DEF Given

\* Nothing is taken, nothing is given.
LEMMA SameAlloc ==
  ASSUME AllocInv, UNCHANGED <<free, arenas>>, gpa'[GOD] = gpa[GOD]
  PROVE  AllocInv'
<1>1. Idx' = Idx BY DEF Idx
<1>2. Given' = Given BY <1>1 DEF Given
<1>3. free' = free OBVIOUS
<1>4. Disjoint' BY <1>2 DEF AllocInv, Disjoint, Apart
<1>5. (\A v, w \in free : v # w => Apart(v, w))' BY DEF AllocInv, Apart
<1>6. (\A v \in free : \A x \in Given : Apart(v, x.at))' BY <1>2 DEF AllocInv, Apart
<1>7. (\A a \in Areas \cup Later : Low(a) => gpa[GOD][a] \in {NoGPA, a.start})'
  BY DEF AllocInv, Low
<1> QED BY <1>4, <1>5, <1>6, <1>7 DEF AllocInv

\* An arena of page tables is taken.
LEMMA PagesAlloc ==
  ASSUME TypeOK, AllocInv, NEW s \in Spaces, NewPTEs(s), UNCHANGED gpa
  PROVE  AllocInv'
<1>1. CASE UNCHANGED <<free, arenas>> BY <1>1, SameAlloc
<1>2. CASE \E v \in Candidates(ArenaSize) : NewArena(v)
  <2>1. PICK v \in Candidates(ArenaSize) : NewArena(v) BY <1>2
  <2> DEFINE y == [by |-> Arena(Len(arenas) + 1), at |-> Block(v.start, ArenaSize)]
  <2>2. ArenaSize \in Nat \ {0} BY GuestAssumption
  <2>3. v.start \in Nat BY <2>2, CandidateFits
  <2>4. /\ Idx' = Idx \cup {Len(arenas) + 1}
        /\ \A k \in Idx : arenas'[k] = arenas[k]
        /\ arenas'[Len(arenas) + 1] = v.start
    BY <2>1, <2>3, AppendFacts DEF NewArena
  <2>5. Given' \subseteq Given \cup {y} BY <2>4 DEF Given
  <2>6. free' = Eaten(v, ArenaSize) BY <2>1 DEF NewArena
  <2>7. y.at = Block(v.start, ArenaSize) OBVIOUS
  <2>8. \A x \in Given : x.at.start \in Nat /\ x.at.size \in Nat BY GivenType
  <2> HIDE DEF y
  <2>9. /\ Disjoint'
        /\ (\A w, u \in free : w # u => Apart(w, u))'
        /\ (\A w \in free : \A x \in Given : Apart(w, x.at))'
    BY <2>2, <2>5, <2>6, <2>7, <2>8, Give
  <2>10. (\A a \in Areas \cup Later : Low(a) => gpa[GOD][a] \in {NoGPA, a.start})'
    BY DEF AllocInv, Low
  <2> QED BY <2>9, <2>10 DEF AllocInv
<1> QED BY <1>1, <1>2 DEF NewPTEs, mem

\* An area gets its own addresses or those Malloc gives it.
LEMMA AreaAlloc ==
  ASSUME TypeOK, AllocInv, AreaInv, NEW a \in Areas \cup Later, a \in Later => vm,
         Assign(a), gpa[GOD][a] = NoGPA, crash = "", UNCHANGED arenas
  PROVE  AllocInv'
<1>0. /\ gpa \in [Spaces -> [Areas \cup Later -> Nat \cup {NoGPA}]] /\ GOD \in Spaces
      /\ a.size \in Nat \ {0} /\ a.start \in Nat
  BY AreaType DEF TypeOK, Spaces
<1>1. Idx' = Idx BY DEF Idx
<1>2. CASE Low(a) /\ gpa' = [gpa EXCEPT ![GOD][a] = a.start] /\ UNCHANGED free
  <2>1. a \in Areas BY <1>2, GuestAssumption
  <2>2. \A b \in Areas \cup Later :
          gpa'[GOD][b] = IF b = a THEN a.start ELSE gpa[GOD][b]
    BY <1>0, <1>2
  <2>3. Given' \subseteq Given BY <1>1, <1>2, <2>1, <2>2 DEF Given, Low
  <2>4. Disjoint' BY <2>3 DEF AllocInv, Disjoint, Apart
  <2>5. (\A v, w \in free : v # w => Apart(v, w))' BY <1>2 DEF AllocInv, Apart
  <2>6. (\A v \in free : \A x \in Given : Apart(v, x.at))'
    BY <1>2, <2>3 DEF AllocInv, Apart
  <2>7. (\A b \in Areas \cup Later : Low(b) => gpa[GOD][b] \in {NoGPA, b.start})'
    BY <2>2 DEF AllocInv, Low
  <2> QED BY <2>4, <2>5, <2>6, <2>7 DEF AllocInv
<1>3. CASE ~Low(a) /\ \E v \in Candidates(a.size) :
             gpa' = [gpa EXCEPT ![GOD][a] = v.start] /\ free' = Eaten(v, a.size)
  <2>1. PICK v \in Candidates(a.size) :
          gpa' = [gpa EXCEPT ![GOD][a] = v.start] /\ free' = Eaten(v, a.size)
    BY <1>3
  <2> DEFINE y == [by |-> Areal(a), at |-> Block(v.start, a.size)]
  <2>2. \A b \in Areas \cup Later :
          gpa'[GOD][b] = IF b = a THEN v.start ELSE gpa[GOD][b]
    BY <1>0, <2>1
  <2>3. Given' \subseteq Given \cup {y} BY <1>1, <2>2 DEF Given, Low
  <2>4. y.at = Block(v.start, a.size) OBVIOUS
  <2>5. \A x \in Given : x.at.start \in Nat /\ x.at.size \in Nat BY GivenType
  <2> HIDE DEF y
  <2>6. /\ Disjoint'
        /\ (\A w, u \in free : w # u => Apart(w, u))'
        /\ (\A w \in free : \A x \in Given : Apart(w, x.at))'
    BY <1>0, <2>1, <2>3, <2>4, <2>5, Give
  <2>7. (\A b \in Areas \cup Later : Low(b) => gpa[GOD][b] \in {NoGPA, b.start})'
    BY <1>3, <2>2 DEF AllocInv, Low
  <2> QED BY <2>6, <2>7 DEF AllocInv
<1>4. CASE UNCHANGED <<free, gpa>> BY <1>4, SameAlloc
<1> QED BY <1>2, <1>3, <1>4 DEF Assign

\* What Mirror says is free overlaps nothing.
LEMMA MirrorApart ==
  /\ \A v, w \in Mirror : v # w => Apart(v, w)
  /\ \A v \in Mirror : \A a \in Areas : Low(a) => Apart(v, Block(a.start, a.size))
<1>0. Limit \in Nat BY GuestAssumption
<1>1. \A v \in Mirror :
        /\ v = [start |-> v.start, size |-> v.size]
        /\ v.start \in Nat /\ v.size \in Nat \ {0} /\ v.start + v.size <= Limit
        /\ v.start = 0 \/ v.start - 1 \in InUse
        /\ v.start + v.size = Limit \/ v.start + v.size \in InUse
        /\ \A n \in v.start .. v.start + v.size - 1 : n \notin InUse
  BY <1>0 DEF Mirror
<1>2. ASSUME NEW v \in Mirror, NEW w \in Mirror, v.start < w.start
      PROVE  Apart(v, w)
  <2>1. w.start - 1 \in InUse BY <1>1, <1>2
  <2>2. w.start - 1 \notin v.start .. v.start + v.size - 1 BY <1>1, <2>1
  <2> QED BY <1>1, <1>2, <2>2 DEF Apart
<1>3. ASSUME NEW v \in Mirror, NEW w \in Mirror, v.start = w.start, v.size < w.size
      PROVE  FALSE
  <2>1. v.start + v.size \in InUse BY <1>0, <1>1, <1>3
  <2>2. v.start + v.size \in w.start .. w.start + w.size - 1 BY <1>1, <1>3
  <2> QED BY <1>1, <2>1, <2>2
<1>4. ASSUME NEW v \in Mirror, NEW w \in Mirror, v # w
      PROVE  Apart(v, w)
  <2>1. v.start < w.start \/ w.start < v.start \/ (v.start = w.start /\ v.size # w.size)
    BY <1>1, <1>4
  <2>2. CASE v.start < w.start BY <1>2, <2>2
  <2>3. CASE w.start < v.start
    <3>1. Apart(w, v) BY <1>2, <2>3
    <3> QED BY <3>1 DEF Apart
  <2>4. CASE v.start = w.start /\ v.size # w.size
    <3>1. v.size < w.size \/ w.size < v.size BY <1>1, <2>4
    <3> QED BY <1>3, <2>4, <3>1
  <2> QED BY <2>1, <2>2, <2>3, <2>4
<1>5. ASSUME NEW v \in Mirror, NEW a \in Areas, Low(a)
      PROVE  Apart(v, Block(a.start, a.size))
  <2>1. a.start \in Nat /\ a.size \in Nat \ {0} /\ a.start + a.size <= Limit
    BY <1>5, AreaType DEF Low
  <2>2. \A n \in a.start .. a.start + a.size - 1 : n \in InUse
    BY <1>0, <2>1 DEF InUse
  <2>3. CASE a.start >= v.start /\ a.start < v.start + v.size
    <3>1. a.start \in v.start .. v.start + v.size - 1 BY <1>1, <2>1, <2>3
    <3>2. a.start \in a.start .. a.start + a.size - 1 BY <2>1
    <3> QED BY <1>1, <2>2, <3>1, <3>2
  <2>4. CASE v.start >= a.start /\ v.start < a.start + a.size
    <3>1. v.start \in a.start .. a.start + a.size - 1 BY <1>1, <2>1, <2>4
    <3>2. v.start \in v.start .. v.start + v.size - 1 BY <1>1
    <3> QED BY <1>1, <2>2, <3>1, <3>2
  <2>5. CASE ~(a.start >= v.start /\ a.start < v.start + v.size)
               /\ ~(v.start >= a.start /\ v.start < a.start + a.size)
    BY <1>1, <2>1, <2>5 DEF Apart, Block
  <2> QED BY <2>3, <2>4, <2>5
<1> QED BY <1>4, <1>5

\* At the start only the areas below the limit have addresses, their own.
LEMMA MirrorAlloc ==
  ASSUME TypeOK, AreaInv, ~vm, stage = "off", free' = Mirror, UNCHANGED <<gpa, arenas>>
  PROVE  AllocInv'
<1>1. arenas = <<>> /\ \A a \in Areas \cup Later : gpa[GOD][a] = NoGPA BY DEF AreaInv
<1>2. Idx' = {} BY <1>1 DEF Idx
<1>3. Given' = {[by |-> Areal(a), at |-> Block(a.start, a.size)] : a \in {b \in Areas : Low(b)}}
  BY <1>1, <1>2 DEF Given, Low, Areal, Arena, Block
<1>4. Disjoint'
  <2> SUFFICES ASSUME NEW a \in Areas, NEW b \in Areas, Low(a), Low(b), a # b
               PROVE  Apart(Block(a.start, a.size), Block(b.start, b.size))
    BY <1>3 DEF Disjoint, Apart
  <2>1. Apart(a, b) BY GuestAssumption
  <2> QED BY <2>1 DEF Apart, Block
<1>5. (\A v, w \in free : v # w => Apart(v, w))' BY MirrorApart DEF Apart
<1>6. (\A v \in free : \A x \in Given : Apart(v, x.at))' BY <1>3, MirrorApart DEF Apart
<1>7. (\A a \in Areas \cup Later : Low(a) => gpa[GOD][a] \in {NoGPA, a.start})'
  BY <1>1 DEF Low
<1> QED BY <1>4, <1>5, <1>6, <1>7 DEF AllocInv

LEMMA AllocStep == IInv /\ Next /\ ~Halts => AllocInv'
<1> SUFFICES ASSUME IInv, Next, ~Halts PROVE AllocInv'
  OBVIOUS
<1>0. TypeOK /\ AllocInv /\ AreaInv /\ StageInv BY DEF IInv
<1>1. CASE InitializeGod
  BY <1>0, <1>1, MirrorAlloc DEF InitializeGod, StageInv
<1>2. CASE NewRoot BY <1>0, <1>2, PagesAlloc DEF NewRoot, TypeOK
<1>3. CASE \E s \in Spaces : Walk(s) BY <1>0, <1>3, PagesAlloc DEF Walk
<1>4. CASE \E a \in Areas : VMAToMemoryRegion(a)
  <2>1. PICK a \in Areas : VMAToMemoryRegion(a) BY <1>4
  <2>2. a \notin Later BY GuestAssumption
  <2> QED BY <1>0, <2>1, <2>2, AreaAlloc DEF VMAToMemoryRegion
<1>5. CASE \E a \in Later : GrowGod(a)
  <2>1. PICK a \in Later : GrowGod(a) BY <1>5
  <2>2. vm BY <1>0, <2>1 DEF GrowGod, StageInv
  <2> QED BY <1>0, <2>1, <2>2, AreaAlloc DEF GrowGod
<1>6. CASE /\ ~InitializeGod /\ ~NewRoot /\ ~(\E s \in Spaces : Walk(s))
           /\ ~(\E a \in Areas : VMAToMemoryRegion(a)) /\ ~(\E a \in Later : GrowGod(a))
  <2>1. gpa'[GOD] = gpa[GOD] BY <1>6, SameGod
  <2>2. UNCHANGED <<free, arenas>>
    BY <1>6 DEF Next, Halts, GodBuilt, ViewBuilt, CreateVirtualMachine, ArenaRegistered,
       SlotsUpdated, ArenasMapped, GrowthDone, CopyGod, GrowView, DefaultMap, RegisterArena,
       Stop, Rest, vars, mem
  <2> QED BY <1>0, <2>1, <2>2, SameAlloc
<1> QED BY <1>1, <1>2, <1>3, <1>4, <1>5, <1>6

-----------------------------------------------------------------------------
(* The theorems.                                                            *)

LEMMA HaltStep == IInv /\ Halts => IInv'
<1> SUFFICES ASSUME IInv, Halts PROVE IInv'
  OBVIOUS
<1>0. /\ TypeOK /\ RoomInv /\ StageInv /\ AreaInv /\ CopyInv /\ ArenaInv /\ SlotInv
      /\ AllocInv
  BY DEF IInv
<1>1. /\ crash' = crash \/ crash' \in {"slots", "unmapped", "region"}
      /\ UNCHANGED <<dynamic, declared, free, arenas, room, dirty, tables, stage, who, left,
                     upd, area, vm, slots, aslots, gpa, built, amap>>
  BY DEF Halts, prog, mem, ctl, ept
<1>2. Idx' = Idx /\ Live' = Live BY <1>1 DEF Idx, Live
<1>3. TypeOK' BY <1>0, <1>1, <1>2 DEF TypeOK
<1>4. RoomInv' BY <1>0, <1>1 DEF RoomInv
<1>5. StageInv' BY <1>0, <1>1, SameStage DEF prog
<1>6. AreaInv' BY <1>0, <1>1 DEF AreaInv
<1>7. CopyInv' BY <1>0, <1>1 DEF CopyInv
<1>8. ArenaInv'
  <2>1. crash' = crash \/ crash' # "" BY <1>1
  <2> QED BY <1>0, <1>1, <1>2, <2>1 DEF ArenaInv
<1>9. SlotInv' BY <1>0, <1>1, SameSlots
<1>10. AllocInv' BY <1>0, <1>1, SameAlloc
<1> QED BY <1>3, <1>4, <1>5, <1>6, <1>7, <1>8, <1>9, <1>10 DEF IInv

LEMMA InitInv == Init => IInv
<1> SUFFICES ASSUME Init PROVE IInv
  OBVIOUS
<1>0. GOD \in Spaces /\ GOD \notin Enclosures /\ NoGPA \notin Nat BY GuestAssumption DEF Spaces
<1>1. /\ dynamic \in BOOLEAN /\ vm = FALSE /\ declared \subseteq Enclosures
      /\ stage = "off" /\ who = GOD /\ crash = ""
      /\ free = {} /\ arenas = <<>> /\ room = 0 /\ dirty = {}
      /\ gpa = [s \in Spaces |-> [a \in Areas \cup Later |-> NoGPA]]
      /\ built = {} /\ left = {} /\ upd = 0 /\ area = NoGPA
      /\ tables = [s \in Spaces |-> {}] /\ amap = [s \in Spaces |-> {}]
      /\ slots = {} /\ aslots = {}
  BY DEF Init
<1>2. Idx = {} /\ Live = {GOD}
  <2>1. DOMAIN <<>> = {} OBVIOUS
  <2>2. Idx = {} BY <1>1, <2>1, Zenon DEF Idx
  <2>3. Live = {GOD} BY <1>1 DEF Live
  <2> QED BY <2>2, <2>3
<1>3. ArenaSize - 1 \in Nat /\ 0 \in 0 .. ArenaSize - 1
  <2>1. ArenaSize \in Nat \ {0} BY GuestAssumption
  <2> QED BY <2>1
<1>4. \A s \in Spaces : \A a \in Areas \cup Later : gpa[s][a] = NoGPA BY <1>1
<1>5. TypeOK
  <2>1. gpa \in [Spaces -> [Areas \cup Later -> Nat \cup {NoGPA}]] BY <1>1
  <2>2. tables \in [Spaces -> SUBSET Idx] /\ amap \in [Spaces -> SUBSET Idx] BY <1>1
  <2>3. <<>> \in Seq(Nat) OBVIOUS
  <2>4. arenas \in Seq(Nat) BY <1>1, <2>3, Zenon
  <2> QED BY <1>0, <1>1, <1>2, <1>3, <2>1, <2>2, <2>4 DEF TypeOK, Stages
<1>6. RoomInv
  <2>1. room = 0 BY <1>1, Zenon
  <2>2. ~(room > 0) BY <2>1
  <2> QED BY <2>2 DEF RoomInv
<1>7. StageInv BY <1>0, <1>1, <1>2 DEF StageInv
<1>8. AreaInv BY <1>0, <1>1, <1>4 DEF AreaInv
<1>9. CopyInv BY <1>1, <1>4 DEF CopyInv
<1>10. ArenaInv BY <1>1, <1>2 DEF ArenaInv
<1>11. SlotInv BY <1>1 DEF SlotInv
<1>12. AllocInv
  <2>1. Given = {[by |-> Areal(a), at |-> Block(a.start, a.size)] : a \in {b \in Areas : Low(b)}}
    BY <1>0, <1>2, <1>4 DEF Given, Areal, Arena, Block, Low
  <2>2. Disjoint
    <3> SUFFICES ASSUME NEW a \in Areas, NEW b \in Areas, a # b
                 PROVE  Apart(Block(a.start, a.size), Block(b.start, b.size))
      BY <2>1 DEF Disjoint
    <3>1. Apart(a, b) BY GuestAssumption
    <3> QED BY <3>1 DEF Apart, Block
  <2> QED BY <1>0, <1>1, <1>4, <2>2 DEF AllocInv
<1> QED BY <1>5, <1>6, <1>7, <1>8, <1>9, <1>10, <1>11, <1>12 DEF IInv

\* The inductive invariant holds in every state.
THEOREM Inductive == Spec => []IInv
<1>1. IInv /\ [Next]_vars => IInv'
  <2> SUFFICES ASSUME IInv, [Next]_vars PROVE IInv'
    OBVIOUS
  <2>1. CASE Halts BY <2>1, HaltStep
  <2>2. CASE UNCHANGED vars
    <3>1. Halts BY <2>2 DEF Halts, vars
    <3> QED BY <3>1, HaltStep
  <2>3. CASE Next /\ ~Halts
    BY <2>3, TypeStep, RoomStep, StageStep, AreaStep, CopyStep, ArenaStep, SlotStep,
       AllocStep DEF IInv
  <2> QED BY <2>1, <2>2, <2>3
<1> QED BY <1>1, InitInv, PTL DEF Spec

\* Addresses, arenas, page tables, slots and the control have their types: no
\* page table is in an arena there is not, no slot is for an area without an
\* address.
THEOREM TypeCorrect == Spec => []TypeOK
<1>1. IInv => TypeOK BY DEF IInv
<1> QED BY <1>1, Inductive, PTL

\* No guest physical page is given twice: to two areas, to an area and an arena
\* of page tables, or to an area and to one that keeps its own address (Malloc,
\* Mirror and their callers), whatever is mapped and however often.
THEOREM Disjointness == Spec => []Disjoint
<1>1. IInv => Disjoint BY DEF IInv, AllocInv
<1> QED BY <1>1, Inductive, PTL

\* All spaces and KVM agree on where an area is (Copy, Extend2, setEPTRegion).
THEOREM OneMap == Spec => []OneMapping
<1>1. IInv => OneMapping
  <2>1. IInv => Live \subseteq Spaces BY DEF IInv, TypeOK, Live, Spaces
  <2> QED BY <2>1 DEF IInv, CopyInv, OneMapping
<1> QED BY <1>1, Inductive, PTL

\* Where guest code runs, every page table of every space is in an arena that
\* KVM knows and every space maps, though making the page tables that map an
\* arena may take another arena (UpdateEPTSlots, MapArenas, Seal).
THEOREM Reachability == Spec => []TablesReachable
<1>1. IInv => TablesReachable
  <2> SUFFICES ASSUME IInv, GuestRuns, NEW s \in Live, NEW k \in tables[s], NEW t \in Live
               PROVE  k \in aslots /\ k \in amap[t]
    BY DEF TablesReachable
  <2>1. /\ ArenaInv /\ StageInv /\ TypeOK /\ Live \subseteq Spaces /\ crash = ""
        /\ stage = "run" \/ (stage = "grow" /\ ~dynamic)
    BY DEF IInv, TypeOK, Live, Spaces, GuestRuns
  <2>2. k \in Idx /\ vm BY <2>1 DEF TypeOK, StageInv
  <2>3. dirty = {} BY <2>1, <2>2 DEF ArenaInv
  <2> QED BY <2>1, <2>2, <2>3 DEF ArenaInv
<1> QED BY <1>1, Inductive, PTL

\* Where guest code runs, KVM has a slot for what a space maps, with the address
\* the space has for it; in the static backend, for what was there at the start
\* (SetAllEPTSlots, DynSetEPTRegion).
THEOREM Backing == Spec => []Backed
<1>1. IInv => Backed
  <2> SUFFICES ASSUME IInv, GuestRuns, NEW s \in Live,
                      NEW a \in IF dynamic THEN Areas \cup Later ELSE Areas, gpa[s][a] # NoGPA
               PROVE  [area |-> a, gpa |-> gpa[s][a]] \in slots
    BY DEF Backed
  <2>1. /\ SlotInv /\ StageInv /\ CopyInv /\ s \in Spaces /\ crash = ""
        /\ stage = "run" \/ (stage = "grow" /\ ~dynamic)
        /\ a \in Areas \cup Later /\ (a \in Areas \/ dynamic)
    BY DEF IInv, TypeOK, Live, Spaces, GuestRuns
  <2>2. vm BY <2>1 DEF StageInv
  <2>3. gpa[s][a] = gpa[GOD][a] BY <2>1 DEF CopyInv
  <2>4. Slot(a) \in slots BY <2>1, <2>2, <2>3 DEF SlotInv
  <2> QED BY <2>3, <2>4 DEF Slot
<1> QED BY <1>1, Inductive, PTL
=============================================================================
