----------------------------- MODULE ViewsProofs -----------------------------
(***************************************************************************)
(* Proofs about Views: the types, the pages that change hands and the       *)
(* memory every view must have, for any number of threads, enclosures,      *)
(* packages, pages and areas, and any size of the pools.                    *)
(*                                                                          *)
(* Two threads never have the same page in hand, so what a Transfer knows   *)
(* of the entries it has changed survives the steps of all others           *)
(* (HandInv, Trans).  An area that God's space has and a view lacks is one  *)
(* that some thread still has to add to that view (Covered); no thread adds *)
(* an area to a view before God's space has it (BootInv, InGod).            *)
(***************************************************************************)
EXTENDS Views, TLAPS

HandPcs == {"tlock", "off", "on"}

HandInv ==
  \A t, u \in Ts : t # u /\ pc[t] \in HandPcs /\ pc[u] \in HandPcs =>
                     arg[t].page # arg[u].page

\* What thread t has done so far to the entries of the page it hands over.
Trans(t) ==
  /\ pc[t] \in {"tlock", "off"} =>
       /\ arg[t].todo \subseteq PkgDeps(owner[arg[t].page])
       /\ \A s \in Sandboxes : pte[s][arg[t].page] =
            IF s \in arg[t].todo THEN Rights(s, owner[arg[t].page]) ELSE {}
  /\ pc[t] = "on" /\ crash = "none" =>
       /\ arg[t].todo \subseteq PkgDeps(arg[t].new)
       /\ \A s \in Sandboxes : pte[s][arg[t].page] =
            IF s \in arg[t].todo THEN {} ELSE Rights(s, arg[t].new)

PageInv == HandInv /\ PagesFollowOwner /\ \A t \in Ts : Trans(t)

\* Until the views exist nothing is added to any space.
Early == {"register", "parse", "views"}
Adding(t) ==
  \/ pc[t] \in {"lock", "growgod", "growviews", "missing", "missgod", "missviews",
                "missview"}
  \/ pc[t] \in {"replenish", "bitmap"} /\ arg[t].cont # "user"
BootInv ==
  /\ boot.step \in Early \cup {"hooks"} =>
       hook # "growth" /\ \A t \in Ts : ~Adding(t)
  /\ boot.step \in Early => \A s \in Sandboxes : regions[s] = {}

InGod == \A t \in Ts : Growing(t) => arg[t].area \in regions[GOD]

\* Thread t will add its area to the space of s.
Will(t, s) ==
  /\ Growing(t)
  /\ \/ s \in arg[t].todo
     \/ pc[t] \notin {"growviews", "missviews"} /\ s = arg[t].space
Covered ==
  crash = "none" /\ boot.step \notin Early =>
    \A s \in Sandboxes : \A a \in regions[GOD] \ regions[s] :
      \E t \in Ts : Will(t, s) /\ arg[t].area = a

RegionInv == BootInv /\ ViewsWithinGod /\ InGod /\ Covered

IInv == TypeOK /\ PageInv /\ RegionInv

-----------------------------------------------------------------------------
(* Types.                                                                   *)

LEMMA IdleType == Idle \in Args
  BY ViewsAssumption DEF Idle, Args, Spaces

\* A record of locals keeps its type when a field gets another value.
LEMMA FieldTypes ==
  ASSUME NEW r \in Args
  PROVE  /\ \A x \in Areas : [r EXCEPT !.area = x] \in Args
         /\ \A b \in BOOLEAN : [r EXCEPT !.heap = b] \in Args
         /\ \A n \in 0 .. 3 : [r EXCEPT !.calls = n] \in Args
         /\ \A S \in SUBSET Sandboxes : [r EXCEPT !.todo = S] \in Args
         /\ \A p \in Pages : [r EXCEPT !.page = p] \in Args
         /\ \A id \in Ids : [r EXCEPT !.new = id] \in Args
         /\ \A a \in Spaces : [r EXCEPT !.space = a] \in Args
         /\ \A n \in Nat \ {0} : [r EXCEPT !.slot = n] \in Args
         /\ \A l \in {"user", "missgod", "missview"} : [r EXCEPT !.cont = l] \in Args
         /\ \A S \in SUBSET Areas : [r EXCEPT !.missing = S] \in Args
         /\ \A w \in {"host", "vm", "enclosure"} : [r EXCEPT !.ret = w] \in Args
  BY DEF Args

LEMMA ThreeFields ==
  ASSUME NEW r \in Args, NEW a, NEW n, NEW l
  PROVE  [r EXCEPT !.space = a, !.slot = n, !.cont = l]
         = [[[r EXCEPT !.space = a] EXCEPT !.slot = n] EXCEPT !.cont = l]
  BY DEF Args

LEMMA UpdateFields ==
  ASSUME NEW r \in Args, NEW a, NEW h, NEW n
  PROVE  [r EXCEPT !.area = a, !.heap = h, !.calls = n]
         = [[[r EXCEPT !.area = a] EXCEPT !.heap = h] EXCEPT !.calls = n]
  BY DEF Args

LEMMA TransferFields ==
  ASSUME NEW r \in Args, NEW p, NEW id, NEW S
  PROVE  [r EXCEPT !.page = p, !.new = id, !.todo = S]
         = [[[r EXCEPT !.page = p] EXCEPT !.new = id] EXCEPT !.todo = S]
  BY DEF Args

LEMMA RightsType == \A s \in Sandboxes, id \in Ids : Rights(s, id) \in SUBSET Heap
  BY DEF Rights

\* The steps of a thread that only touch its place and its locals.
LEMMA LocalType ==
  ASSUME TypeOK, NEW t \in Ts,
         \E l \in Pcs : pc' = [pc EXCEPT ![t] = l],
         \E r \in Args : arg' = [arg EXCEPT ![t] = r]
  PROVE  pc' \in [Ts -> Pcs] /\ arg' \in [Ts -> Args]
  BY DEF TypeOK

LEMMA PanicType ==
  ASSUME TypeOK, NEW why \in {"emr", "bitmap", "exists", "nilslot", "updates",
                             "flags", "bluepill"},
         Panic(why)
  PROVE  TypeOK'
  BY DEF TypeOK, Panic

LEMMA ExtendType ==
  ASSUME TypeOK, NEW a \in Spaces, NEW x \in Areas, NEW heap, Extend(a, x, heap)
  PROVE  /\ regions' \in [Spaces -> SUBSET Areas]
         /\ emr' \in [Spaces -> [1 .. NEMR -> {"nil", "bare", "full"}]]
<1> DEFINE i == Min(Filled(a))
<1>1. emr[a] \in [1 .. NEMR -> {"nil", "bare", "full"}]
  BY DEF TypeOK
<1>2. [emr[a] EXCEPT ![i] = "nil"] \in [1 .. NEMR -> {"nil", "bare", "full"}]
  BY <1>1
<1>3. emr' = [emr EXCEPT ![a] = [emr[a] EXCEPT ![i] = "nil"]]
  BY DEF Extend, TypeOK
<1>4. emr' \in [Spaces -> [1 .. NEMR -> {"nil", "bare", "full"}]]
  <2> HIDE DEF i
  <2> QED BY <1>2, <1>3 DEF TypeOK
<1>5. regions' \in [Spaces -> SUBSET Areas]
  BY DEF Extend, TypeOK
<1> QED BY <1>4, <1>5

LEMMA ReplenishArgs ==
  ASSUME TypeOK, NEW t \in Ts, NEW a \in Spaces, NEW r \in Args,
         NEW next \in {"user", "missgod", "missview"}, StartReplenish(t, a, r, next)
  PROVE  pc' \in [Ts -> Pcs] /\ arg' \in [Ts -> Args]
<1> DEFINE q == [r EXCEPT !.space = a]
           u == [q EXCEPT !.slot = 1]
<1>1. q \in Args BY FieldTypes
<1>2. u \in Args
  <2> HIDE DEF q
  <2>1. 1 \in Nat \ {0} OBVIOUS
  <2> QED BY <1>1, <2>1, FieldTypes
<1>3. [u EXCEPT !.cont = next] \in Args
  <2> HIDE DEF u
  <2> QED BY <1>2, FieldTypes
<1>4. [r EXCEPT !.space = a, !.slot = 1, !.cont = next] = [u EXCEPT !.cont = next]
  BY ThreeFields
<1> QED BY <1>3, <1>4 DEF TypeOK, StartReplenish, Goto, Set, Pcs

LEMMA NextCallArgs ==
  ASSUME TypeOK, NEW t \in Ts, NextCall(t)
  PROVE  pc' \in [Ts -> Pcs] /\ arg' \in [Ts -> Args]
<1>1. arg[t] \in Args BY DEF TypeOK
<1>2. arg[t].calls > 1 => [arg[t] EXCEPT !.calls = arg[t].calls - 1] \in Args
  <2>1. arg[t].calls \in 0 .. 3 BY <1>1 DEF Args
  <2>2. arg[t].calls > 1 => arg[t].calls - 1 \in 0 .. 3 BY <2>1
  <2> QED BY <1>1, <2>2, FieldTypes
<1>3. pc' \in [Ts -> Pcs]
  BY DEF TypeOK, NextCall, Goto, Pcs
<1>4. CASE arg[t].calls > 1
  <2>1. arg' = [arg EXCEPT ![t] = [arg[t] EXCEPT !.calls = arg[t].calls - 1]]
    BY <1>4 DEF NextCall, Set
  <2> QED BY <1>2, <1>3, <1>4, <2>1 DEF TypeOK
<1>5. CASE ~(arg[t].calls > 1)
  <2>1. arg' = [arg EXCEPT ![t] = Idle] BY <1>5 DEF NextCall, Set
  <2> QED BY <1>3, <2>1, IdleType DEF TypeOK
<1> QED BY <1>4, <1>5

LEMMA InitType == Init => TypeOK
<1> SUFFICES ASSUME Init PROVE TypeOK
  OBVIOUS
<1>1. pte \in [Sandboxes -> [Pages -> SUBSET Heap]] BY DEF Init
<1>2. owner \in [Pages -> Ids] BY ViewsAssumption DEF Init
<1>3. arg \in [Ts -> Args] BY IdleType DEF Init
<1>4. emr \in [Spaces -> [1 .. NEMR -> {"nil", "bare", "full"}]] BY DEF Init
<1>5. updates \in Seq(Areas) /\ Len(updates) <= NUpd
  BY ViewsAssumption DEF Init
<1>6. regions \in [Spaces -> SUBSET Areas] /\ mapped \subseteq Areas BY DEF Init
<1>7. pc \in [Ts -> Pcs] /\ at \in [Ts -> {"host", "vm", "enclosure"}]
  BY DEF Init, Pcs
<1>8. boot \in [step : {"register", "parse", "views", "hooks", "updates", "done"},
                walk : Nat \ {0}]
  BY DEF Init
<1> QED BY <1>1, <1>2, <1>3, <1>4, <1>5, <1>6, <1>7, <1>8 DEF Init, TypeOK

LEMMA BootType == ASSUME TypeOK, Boot PROVE TypeOK'
<1> USE ViewsAssumption
<1> DEFINE Steps == {"register", "parse", "views", "hooks", "updates", "done"}
<1>1. ASSUME NEW f \in Steps, NEW l \in Steps, BootStep(f, l)
      PROVE  boot' \in [step : Steps, walk : Nat \ {0}]
  BY <1>1 DEF BootStep, TypeOK
<1>2. CASE RegisterEmergencyGrowth
  <2>1. boot' \in [step : Steps, walk : Nat \ {0}] BY <1>1, <1>2 DEF RegisterEmergencyGrowth
  <2> QED BY <1>2, <2>1 DEF RegisterEmergencyGrowth, BootStep, TypeOK
<1>3. CASE InitializeGod
  <2>1. boot' \in [step : Steps, walk : Nat \ {0}] BY <1>1, <1>3 DEF InitializeGod
  <2>2. pc' \in [Ts -> Pcs] /\ arg' \in [Ts -> Args]
    BY <1>3, ReplenishArgs, IdleType DEF InitializeGod, Spaces
  <2>3. regions' \in [Spaces -> SUBSET Areas]
    BY <1>3 DEF InitializeGod, BootStep, TypeOK
  <2> QED BY <1>3, <2>1, <2>2, <2>3 DEF InitializeGod, BootStep, TypeOK
<1>4. CASE CreateViews
  <2>1. boot' \in [step : Steps, walk : Nat \ {0}] BY <1>1, <1>4 DEF CreateViews
  <2>2. regions' \in [Spaces -> SUBSET Areas]
    BY <1>4 DEF CreateViews, TypeOK, Spaces
  <2> QED BY <1>4, <2>1, <2>2 DEF CreateViews, BootStep, TypeOK
<1>5. CASE LitterboxHooks
  <2>1. boot' \in [step : Steps, walk : Nat \ {0}] BY <1>1, <1>5 DEF LitterboxHooks
  <2> QED BY <1>5, <2>1 DEF LitterboxHooks, BootStep, TypeOK
<1>6. CASE UpdateAll
  <2>1. boot' \in [step : Steps, walk : Nat \ {0}] BY <1>6 DEF UpdateAll, TypeOK
  <2>2. pc' \in [Ts -> Pcs] BY <1>6 DEF UpdateAll, Goto, TypeOK, Pcs
  <2>3. arg' \in [Ts -> Args]
    <3>0. boot.walk \in Nat /\ Len(updates) \in Nat BY DEF TypeOK
    <3>1. CASE boot.walk <= Len(updates)
      <4> DEFINE a == updates[boot.walk]
                 q == [Idle EXCEPT !.area = a]
                 u == [q EXCEPT !.heap = a \in HeapAreas]
      <4>1. a \in Areas BY <3>1 DEF TypeOK
      <4>2. q \in Args
        <5> HIDE DEF a
        <5> QED BY <4>1, IdleType, FieldTypes
      <4>3. u \in Args
        <5> HIDE DEF q
        <5>1. (a \in HeapAreas) \in BOOLEAN OBVIOUS
        <5> HIDE DEF a
        <5> QED BY <4>2, <5>1, FieldTypes
      <4>4. [u EXCEPT !.calls = 1] \in Args
        <5> HIDE DEF u
        <5>1. 1 \in 0 .. 3 OBVIOUS
        <5> QED BY <4>3, <5>1, FieldTypes
      <4>5. [Idle EXCEPT !.area = a, !.heap = a \in HeapAreas, !.calls = 1]
            = [u EXCEPT !.calls = 1]
        BY UpdateFields, IdleType
      <4>6. arg' = [arg EXCEPT ![Main] = [Idle EXCEPT !.area = a,
                                   !.heap = a \in HeapAreas, !.calls = 1]]
        BY <1>6, <3>0, <3>1 DEF UpdateAll, Set
      <4> HIDE DEF u, a
      <4> QED BY <4>4, <4>5, <4>6 DEF TypeOK
    <3>2. CASE ~(boot.walk <= Len(updates))
      <4>1. arg' = arg BY <1>6, <3>0, <3>2 DEF UpdateAll, Set, Goto
      <4> QED BY <4>1 DEF TypeOK
    <3> QED BY <3>1, <3>2
  <2> QED BY <1>6, <2>1, <2>2, <2>3 DEF UpdateAll, TypeOK, heapVars
<1> QED BY <1>2, <1>3, <1>4, <1>5, <1>6 DEF Boot

LEMMA OneField ==
  ASSUME TypeOK, NEW t \in Ts
  PROVE  /\ arg[t] \in Args
         /\ arg[t].slot + 1 \in Nat \ {0}
         /\ arg[t].area \in Areas /\ arg[t].space \in Spaces
         /\ arg[t].todo \subseteq Sandboxes /\ arg[t].missing \subseteq Areas
         /\ arg[t].page \in Pages /\ arg[t].new \in Ids
         /\ arg[t].cont \in {"user", "missgod", "missview"}
         /\ arg[t].heap \in BOOLEAN
         /\ [arg[t] EXCEPT !.slot = arg[t].slot + 1] \in Args
         /\ \A S \in SUBSET Sandboxes : [arg[t] EXCEPT !.todo = S] \in Args
<1>1. arg[t] \in Args BY DEF TypeOK
<1>2. arg[t].slot + 1 \in Nat \ {0} BY <1>1 DEF Args
<1>3. /\ arg[t].area \in Areas /\ arg[t].space \in Spaces
      /\ arg[t].todo \subseteq Sandboxes /\ arg[t].missing \subseteq Areas
      /\ arg[t].page \in Pages /\ arg[t].new \in Ids
      /\ arg[t].cont \in {"user", "missgod", "missview"}
      /\ arg[t].heap \in BOOLEAN
  BY <1>1 DEF Args
<1> QED BY <1>1, <1>2, <1>3, FieldTypes

LEMMA LessTodo ==
  ASSUME TypeOK, NEW t \in Ts, NEW s
  PROVE  [arg EXCEPT ![t] = [arg[t] EXCEPT !.todo = arg[t].todo \ {s}]]
           \in [Ts -> Args]
<1>1. arg[t].todo \ {s} \in SUBSET Sandboxes BY OneField
<1>2. [arg[t] EXCEPT !.todo = arg[t].todo \ {s}] \in Args BY <1>1, OneField
<1> QED BY <1>2 DEF TypeOK

LEMMA PoolType ==
  ASSUME TypeOK, NEW t \in Ts, Replenish(t) \/ AllocBitmap(t)
  PROVE  TypeOK'
<1> DEFINE Pools == [Spaces -> [1 .. NEMR -> {"nil", "bare", "full"}]]
<1>1. ASSUME NEW x \in {"bare", "full"},
             emr' = [emr EXCEPT ![arg[t].space][arg[t].slot] = x]
      PROVE  emr' \in Pools
  <2> DEFINE a == arg[t].space
             e == [emr[a] EXCEPT ![arg[t].slot] = x]
  <2>1. a \in Spaces /\ emr[a] \in [1 .. NEMR -> {"nil", "bare", "full"}]
    BY OneField DEF TypeOK
  <2>2. e \in [1 .. NEMR -> {"nil", "bare", "full"}]
    BY <2>1
  <2>3. emr' = [emr EXCEPT ![a] = e]
    BY <1>1 DEF TypeOK
  <2> HIDE DEF e
  <2> QED BY <2>2, <2>3 DEF TypeOK
<1>2. CASE Replenish(t)
  <2>1. emr' \in Pools BY <1>1, <1>2 DEF Replenish, TypeOK
  <2>2. pc' \in [Ts -> Pcs]
    BY <1>2, OneField DEF Replenish, Goto, TypeOK, Pcs
  <2>3. arg' \in [Ts -> Args]
    BY <1>2, OneField DEF Replenish, Set, TypeOK
  <2> QED BY <1>2, <2>1, <2>2, <2>3 DEF Replenish, TypeOK, bootVars, heapVars
<1>3. CASE AllocBitmap(t)
  <2>1. CASE Panic("nilslot") BY <2>1, PanicType
  <2>2. CASE ~Panic("nilslot")
    <3>1. emr' \in Pools BY <1>1, <1>3, <2>2 DEF AllocBitmap
    <3>2. pc' \in [Ts -> Pcs]
      BY <1>3, <2>2 DEF AllocBitmap, Goto, TypeOK, Pcs
    <3>3. arg' \in [Ts -> Args]
      BY <1>3, <2>2, OneField DEF AllocBitmap, Set, TypeOK
    <3> QED BY <1>3, <2>2, <3>1, <3>2, <3>3 DEF AllocBitmap, TypeOK, bootVars, heapVars
  <2> QED BY <2>1, <2>2
<1> QED BY <1>2, <1>3

LEMMA ExtendFailsType ==
  ASSUME TypeOK, NEW a \in Spaces, NEW heap, ExtendFails(a, heap) PROVE TypeOK'
  BY PanicType DEF ExtendFails

LEMMA ExtendViewFailsType ==
  ASSUME TypeOK, NEW s \in Spaces, NEW x, NEW heap, ExtendViewFails(s, x, heap)
  PROVE  TypeOK'
  BY PanicType, ExtendFailsType DEF ExtendViewFails

LEMMA GrowthType ==
  ASSUME TypeOK, NEW t \in Ts,
         \/ CallHook(t) \/ EmergencyGrowth(t)
         \/ GrowthLock(t) \/ GrowGod(t) \/ GrowView(t) \/ GrowthUnlock(t)
  PROVE  TypeOK'
<1> USE DEF bootVars, heapVars
<1>1. CASE CallHook(t)
  <2>1. pc' \in [Ts -> Pcs] /\ arg' \in [Ts -> Args]
    <3>1. CASE hook = "nil" BY <1>1, <3>1, NextCallArgs DEF CallHook
    <3>2. CASE hook # "nil"
      <4>0. (arg[t].calls = 2) \in BOOLEAN OBVIOUS
      <4>1. [arg[t] EXCEPT !.heap = arg[t].calls = 2] \in Args
        BY <4>0, OneField, FieldTypes
      <4>2. arg' = [arg EXCEPT ![t] = [arg[t] EXCEPT !.heap = arg[t].calls = 2]]
        BY <1>1, <3>2 DEF CallHook, Set
      <4>3. pc' \in [Ts -> Pcs]
        BY <1>1, <3>2 DEF CallHook, Goto, TypeOK, Pcs
      <4> QED BY <4>1, <4>2, <4>3 DEF TypeOK
    <3> QED BY <3>1, <3>2
  <2> QED BY <1>1, <2>1 DEF CallHook, TypeOK
<1>2. CASE EmergencyGrowth(t)
  <2>1. CASE Panic("updates") BY <2>1, PanicType
  <2>2. CASE ~Panic("updates")
    <3>1. pc' \in [Ts -> Pcs] /\ arg' \in [Ts -> Args]
      BY <1>2, <2>2, NextCallArgs DEF EmergencyGrowth
    <3>2. updates' \in Seq(Areas) /\ Len(updates') <= NUpd
      <4>1. updates \in Seq(Areas) /\ Len(updates) \in Nat /\ NUpd \in Nat
        BY ViewsAssumption DEF TypeOK
      <4>2. updates' = Append(updates, arg[t].area) /\ Len(updates) < NUpd
        BY <1>2, <2>2, <4>1 DEF EmergencyGrowth, UpdatesFull
      <4>3. arg[t].area \in Areas BY OneField
      <4> QED BY <4>1, <4>2, <4>3
    <3> QED BY <1>2, <2>2, <3>1, <3>2 DEF EmergencyGrowth, TypeOK
  <2> QED BY <2>1, <2>2
<1>3. CASE GrowthLock(t)
  BY <1>3 DEF GrowthLock, Acquire, Goto, TypeOK, Pcs
<1>4. CASE GrowGod(t)
  <2>1. CASE ExtendFails(GOD, arg[t].heap) BY <2>1, ExtendFailsType DEF Spaces
  <2>2. CASE ~ExtendFails(GOD, arg[t].heap)
    <3>1. /\ Extend(GOD, arg[t].area, arg[t].heap)
          /\ Set(t, [arg[t] EXCEPT !.todo = PkgDeps(RUNTIME)])
          /\ Goto(t, "growviews")
          /\ UNCHANGED <<bootVars, mapped, heapVars, godMu, at, crash>>
      BY <1>4, <2>2 DEF GrowGod
    <3>2. /\ regions' \in [Spaces -> SUBSET Areas]
          /\ emr' \in [Spaces -> [1 .. NEMR -> {"nil", "bare", "full"}]]
      BY <3>1, ExtendType, OneField DEF Spaces
    <3>3. PkgDeps(RUNTIME) \in SUBSET Sandboxes BY DEF PkgDeps
    <3>4. pc' \in [Ts -> Pcs] /\ arg' \in [Ts -> Args]
      BY <3>1, <3>3, OneField DEF Set, Goto, TypeOK, Pcs
    <3> QED BY <3>1, <3>2, <3>4 DEF TypeOK
  <2> QED BY <2>1, <2>2
<1>5. CASE GrowView(t)
  <2>1. PICK s \in arg[t].todo :
          \/ ExtendViewFails(s, arg[t].area, arg[t].heap)
          \/ /\ ExtendView(s, arg[t].area, arg[t].heap)
             /\ Set(t, [arg[t] EXCEPT !.todo = @ \ {s}])
             /\ UNCHANGED <<bootVars, mapped, heapVars, godMu, at, pc, crash>>
    BY <1>5 DEF GrowView
  <2>2. s \in Spaces BY OneField DEF Spaces
  <2>3. CASE ExtendViewFails(s, arg[t].area, arg[t].heap)
    BY <2>2, <2>3, ExtendViewFailsType
  <2>4. CASE ~ExtendViewFails(s, arg[t].area, arg[t].heap)
    <3>1. /\ regions' \in [Spaces -> SUBSET Areas]
          /\ emr' \in [Spaces -> [1 .. NEMR -> {"nil", "bare", "full"}]]
      BY <2>1, <2>2, <2>4, ExtendType, OneField DEF ExtendView
    <3>2. arg' \in [Ts -> Args]
      <4>1. Set(t, [arg[t] EXCEPT !.todo = @ \ {s}]) BY <2>1, <2>4
      <4> QED BY <4>1, LessTodo DEF Set
    <3> QED BY <2>1, <2>4, <3>1, <3>2 DEF TypeOK
  <2> QED BY <2>3, <2>4
<1>6. CASE GrowthUnlock(t)
  <2>1. pc' \in [Ts -> Pcs] /\ arg' \in [Ts -> Args]
    BY <1>6, NextCallArgs DEF GrowthUnlock
  <2> QED BY <1>6, <2>1 DEF GrowthUnlock, TypeOK
<1> QED BY <1>1, <1>2, <1>3, <1>4, <1>5, <1>6

LEMMA TransferType ==
  ASSUME TypeOK, NEW t \in Ts,
         TransferLock(t) \/ ToggleOff(t) \/ ToggleOn(t) \/ TransferUnlock(t)
  PROVE  TypeOK'
<1> USE DEF bootVars, heapVars
<1>1. ASSUME NEW s \in Sandboxes, NEW X \in SUBSET Heap,
             pte' = [pte EXCEPT ![s][arg[t].page] = X]
      PROVE  pte' \in [Sandboxes -> [Pages -> SUBSET Heap]]
  <2> DEFINE e == [pte[s] EXCEPT ![arg[t].page] = X]
  <2>1. pte[s] \in [Pages -> SUBSET Heap] BY DEF TypeOK
  <2>2. e \in [Pages -> SUBSET Heap] BY <2>1
  <2>3. pte' = [pte EXCEPT ![s] = e] BY <1>1 DEF TypeOK
  <2> HIDE DEF e
  <2> QED BY <2>2, <2>3 DEF TypeOK
<1>2. CASE TransferLock(t)
  BY <1>2 DEF TransferLock, Acquire, Goto, TypeOK, Pcs
<1>3. CASE ToggleOff(t)
  <2>1. CASE arg[t].todo = {}
    <3>1. PkgDeps(arg[t].new) \in SUBSET Sandboxes BY DEF PkgDeps
    <3>2. pc' \in [Ts -> Pcs]
      BY <1>3, <2>1 DEF ToggleOff, Goto, TypeOK, Pcs
    <3>3. [arg[t] EXCEPT !.todo = PkgDeps(arg[t].new)] \in Args
      BY <3>1, OneField
    <3>4. arg' \in [Ts -> Args]
      BY <1>3, <2>1, <3>3 DEF ToggleOff, Set, TypeOK
    <3> QED BY <1>3, <2>1, <3>2, <3>4 DEF ToggleOff, TypeOK
  <2>2. CASE arg[t].todo # {}
    <3>1. PICK s \in arg[t].todo :
            /\ pte' = [pte EXCEPT ![s][arg[t].page] = {}]
            /\ Set(t, [arg[t] EXCEPT !.todo = @ \ {s}])
            /\ UNCHANGED pc
      BY <1>3, <2>2 DEF ToggleOff
    <3>2. pte' \in [Sandboxes -> [Pages -> SUBSET Heap]]
      <4>1. s \in Sandboxes /\ {} \in SUBSET Heap BY OneField
      <4> QED BY <1>1, <3>1, <4>1
    <3>3. arg' \in [Ts -> Args] BY <3>1, LessTodo DEF Set
    <3> QED BY <1>3, <3>1, <3>2, <3>3 DEF ToggleOff, TypeOK
  <2> QED BY <2>1, <2>2
<1>4. CASE ToggleOn(t)
  <2>1. PICK s \in arg[t].todo :
          /\ pte' = [pte EXCEPT ![s][arg[t].page] = Granted(s, arg[t].new) \cup {"R"}]
          /\ IF "R" \in Granted(s, arg[t].new)
             THEN Set(t, [arg[t] EXCEPT !.todo = @ \ {s}]) /\ UNCHANGED crash
             ELSE crash' = "flags" /\ UNCHANGED arg
    BY <1>4 DEF ToggleOn
  <2>2. Granted(s, arg[t].new) \cup {"R"} \in SUBSET Heap BY DEF Granted, Heap
  <2>3. pte' \in [Sandboxes -> [Pages -> SUBSET Heap]]
    BY <1>1, <2>1, <2>2, OneField
  <2>4. arg' \in [Ts -> Args]
    <3>1. CASE Set(t, [arg[t] EXCEPT !.todo = @ \ {s}]) BY <3>1, LessTodo DEF Set
    <3>2. CASE UNCHANGED arg BY <3>2 DEF TypeOK
    <3> QED BY <2>1, <3>1, <3>2
  <2>5. crash' \in {"none", "emr", "bitmap", "exists", "nilslot", "updates",
                   "flags", "bluepill"}
    BY <2>1 DEF TypeOK
  <2> QED BY <1>4, <2>3, <2>4, <2>5 DEF ToggleOn, TypeOK
<1>5. CASE TransferUnlock(t)
  <2>1. pc' \in [Ts -> Pcs] /\ arg' \in [Ts -> Args]
    BY <1>5, IdleType DEF TransferUnlock, Set, Goto, TypeOK, Pcs
  <2>2. owner' \in [Pages -> Ids] BY <1>5, OneField DEF TransferUnlock, TypeOK
  <2> QED BY <1>5, <2>1, <2>2 DEF TransferUnlock, TypeOK
<1> QED BY <1>2, <1>3, <1>4, <1>5

LEMMA MissingType ==
  ASSUME TypeOK, NEW t \in Ts,
         \/ NextMissing(t) \/ MissingInGod(t) \/ NextView(t) \/ MissingInView(t)
         \/ EndMissing(t)
  PROVE  TypeOK'
<1> USE DEF bootVars, heapVars
<1>1. CASE NextMissing(t)
  <2>1. PICK a \in arg[t].missing :
          LET r == [arg[t] EXCEPT !.missing = @ \ {a}, !.area = a]
          IN  IF a \in regions[GOD] THEN Set(t, r) /\ UNCHANGED pc
                                    ELSE StartReplenish(t, GOD, r, "missgod")
    BY <1>1 DEF NextMissing
  <2> DEFINE q == [arg[t] EXCEPT !.missing = arg[t].missing \ {a}]
             r == [arg[t] EXCEPT !.missing = @ \ {a}, !.area = a]
  <2>2. a \in Areas /\ arg[t].missing \ {a} \in SUBSET Areas BY OneField
  <2>3. q \in Args BY <2>2, OneField, FieldTypes
  <2>4. [q EXCEPT !.area = a] \in Args
    <3> HIDE DEF q
    <3> QED BY <2>2, <2>3, FieldTypes
  <2>5. r = [q EXCEPT !.area = a] OBVIOUS
  <2>6. r \in Args BY <2>4, <2>5
  <2>7. IF a \in regions[GOD] THEN Set(t, r) /\ UNCHANGED pc
                              ELSE StartReplenish(t, GOD, r, "missgod")
    BY <2>1
  <2> HIDE DEF r
  <2>8. pc' \in [Ts -> Pcs] /\ arg' \in [Ts -> Args]
    <3>1. CASE a \in regions[GOD] BY <2>6, <2>7, <3>1 DEF Set, TypeOK
    <3>2. CASE a \notin regions[GOD]
      <4>1. StartReplenish(t, GOD, r, "missgod") BY <2>7, <3>2
      <4>2. GOD \in Spaces BY DEF Spaces
      <4> QED BY <2>6, <4>1, <4>2, ReplenishArgs
    <3> QED BY <3>1, <3>2
  <2> QED BY <1>1, <2>8 DEF NextMissing, TypeOK
<1>2. CASE MissingInGod(t)
  <2>1. CASE ExtendFails(GOD, FALSE) BY <2>1, ExtendFailsType DEF Spaces
  <2>2. CASE ~ExtendFails(GOD, FALSE)
    <3>1. /\ Extend(GOD, arg[t].area, FALSE)
          /\ Set(t, [arg[t] EXCEPT !.todo = Sandboxes])
          /\ Goto(t, "missviews")
          /\ UNCHANGED <<bootVars, mapped, heapVars, godMu, at, crash>>
      BY <1>2, <2>2 DEF MissingInGod
    <3>2. /\ regions' \in [Spaces -> SUBSET Areas]
          /\ emr' \in [Spaces -> [1 .. NEMR -> {"nil", "bare", "full"}]]
      BY <3>1, ExtendType, OneField DEF Spaces
    <3>3. pc' \in [Ts -> Pcs] BY <3>1 DEF Goto, TypeOK, Pcs
    <3>4. arg' \in [Ts -> Args] BY <3>1, OneField DEF Set, TypeOK
    <3> QED BY <3>1, <3>2, <3>3, <3>4 DEF TypeOK
  <2> QED BY <2>1, <2>2
<1>3. CASE NextView(t)
  <2>1. pc' \in [Ts -> Pcs] /\ arg' \in [Ts -> Args]
    <3>1. CASE arg[t].todo = {}
      BY <1>3, <3>1 DEF NextView, Goto, TypeOK, Pcs
    <3>2. CASE arg[t].todo # {}
      <4>1. PICK s \in arg[t].todo :
              StartReplenish(t, s, [arg[t] EXCEPT !.todo = @ \ {s}], "missview")
        BY <1>3, <3>2 DEF NextView
      <4>2. s \in Spaces /\ arg[t].todo \ {s} \in SUBSET Sandboxes
        BY OneField DEF Spaces
      <4>3. [arg[t] EXCEPT !.todo = arg[t].todo \ {s}] \in Args BY <4>2, OneField
      <4> QED BY <4>1, <4>2, <4>3, ReplenishArgs
    <3> QED BY <3>1, <3>2
  <2> QED BY <1>3, <2>1 DEF NextView, TypeOK
<1>4. CASE MissingInView(t)
  <2> DEFINE s == arg[t].space
  <2>1. CASE ExtendViewFails(s, arg[t].area, FALSE)
    BY <2>1, OneField, ExtendViewFailsType
  <2>2. CASE ~ExtendViewFails(s, arg[t].area, FALSE)
    <3>1. /\ ExtendView(s, arg[t].area, FALSE)
          /\ Goto(t, "missviews")
          /\ UNCHANGED <<bootVars, mapped, heapVars, godMu, at, arg, crash>>
      BY <1>4, <2>2 DEF MissingInView
    <3>2. /\ regions' \in [Spaces -> SUBSET Areas]
          /\ emr' \in [Spaces -> [1 .. NEMR -> {"nil", "bare", "full"}]]
      BY <3>1, ExtendType, OneField DEF ExtendView
    <3>3. pc' \in [Ts -> Pcs] BY <3>1 DEF Goto, TypeOK, Pcs
    <3> QED BY <3>1, <3>2, <3>3 DEF TypeOK
  <2> QED BY <2>1, <2>2
<1>5. CASE EndMissing(t)
  <2>1. CASE Panic("bluepill") BY <2>1, PanicType
  <2>2. CASE ~Panic("bluepill")
    <3>1. pc' \in [Ts -> Pcs] /\ arg' \in [Ts -> Args]
      BY <1>5, <2>2, IdleType DEF EndMissing, Set, Goto, TypeOK, Pcs
    <3> QED BY <1>5, <2>2, <3>1 DEF EndMissing, TypeOK
  <2> QED BY <2>1, <2>2
<1> QED BY <1>1, <1>2, <1>3, <1>4, <1>5

LEMMA BeginType == ASSUME TypeOK, NEW t \in Ts, Begin(t) PROVE TypeOK'
<1> USE DEF bootVars, heapVars
<1>1. ASSUME NEW a \in Areas, Mmap(t, a) PROVE TypeOK'
  <2> DEFINE n == IF a \in HeapAreas THEN 3 ELSE 1
             q == [Idle EXCEPT !.area = a]
  <2>1. n \in 0 .. 3 OBVIOUS
  <2>2. q \in Args BY IdleType, FieldTypes
  <2>3. [q EXCEPT !.calls = n] \in Args
    <3> HIDE DEF q, n
    <3> QED BY <2>1, <2>2, FieldTypes
  <2>4. [Idle EXCEPT !.area = a, !.calls = n] = [q EXCEPT !.calls = n]
    BY IdleType DEF Args
  <2>5. arg' = [arg EXCEPT ![t] = [Idle EXCEPT !.area = a, !.calls = n]]
    BY <1>1 DEF Mmap, Set
  <2>6. arg' \in [Ts -> Args]
    <3> HIDE DEF q, n
    <3> QED BY <2>3, <2>4, <2>5 DEF TypeOK
  <2>7. pc' \in [Ts -> Pcs] BY <1>1 DEF Mmap, Goto, TypeOK, Pcs
  <2> QED BY <1>1, <2>6, <2>7 DEF Mmap, TypeOK
<1>2. ASSUME NEW p \in Pages, NEW id \in Ids, Transfer(t, p, id) PROVE TypeOK'
  <2>1. CASE PkgDeps(owner[p]) \cup PkgDeps(id) = {}
    BY <1>2, <2>1 DEF Transfer, TypeOK
  <2>2. CASE PkgDeps(owner[p]) \cup PkgDeps(id) # {}
    <3> DEFINE S == Unmapping(owner[p], id)
               q == [Idle EXCEPT !.page = p]
               u == [q EXCEPT !.new = id]
    <3>1. S \in SUBSET Sandboxes BY DEF Unmapping, PkgDeps
    <3>2. q \in Args BY IdleType, FieldTypes
    <3>3. u \in Args
      <4> HIDE DEF q
      <4> QED BY <3>2, FieldTypes
    <3>4. [u EXCEPT !.todo = S] \in Args
      <4> HIDE DEF u, S
      <4> QED BY <3>1, <3>3, FieldTypes
    <3>5. [Idle EXCEPT !.page = p, !.new = id, !.todo = S] = [u EXCEPT !.todo = S]
      BY IdleType, TransferFields
    <3>6. arg' = [arg EXCEPT ![t] = [Idle EXCEPT !.page = p, !.new = id, !.todo = S]]
      BY <1>2, <2>2 DEF Transfer, Set
    <3>7. arg' \in [Ts -> Args]
      <4> HIDE DEF u, S
      <4> QED BY <3>4, <3>5, <3>6 DEF TypeOK
    <3>8. pc' \in [Ts -> Pcs] BY <1>2, <2>2 DEF Transfer, Goto, TypeOK, Pcs
    <3> QED BY <1>2, <2>2, <3>7, <3>8 DEF Transfer, TypeOK
  <2> QED BY <2>1, <2>2
<1>3. CASE Prolog(t)
  <2>1. pc' \in [Ts -> Pcs] /\ arg' \in [Ts -> Args]
    <3>1. CASE at[t] = "host"
      BY <1>3, <3>1, ReplenishArgs, IdleType DEF Prolog, Spaces
    <3>2. CASE at[t] # "host" BY <1>3, <3>2 DEF Prolog, TypeOK
    <3> QED BY <3>1, <3>2
  <2> QED BY <1>3, <2>1 DEF Prolog, TypeOK
<1>4. CASE Epilog(t) BY <1>4 DEF Epilog, TypeOK
<1>5. CASE UpdateMissing(t)
  <2> DEFINE q == [Idle EXCEPT !.missing = mapped]
  <2>1. mapped \in SUBSET Areas /\ at[t] \in {"host", "vm", "enclosure"} BY DEF TypeOK
  <2>2. q \in Args BY <2>1, IdleType, FieldTypes
  <2>3. [q EXCEPT !.ret = at[t]] \in Args
    <3> HIDE DEF q
    <3> QED BY <2>1, <2>2, FieldTypes
  <2>4. [Idle EXCEPT !.missing = mapped, !.ret = at[t]] = [q EXCEPT !.ret = at[t]]
    BY IdleType DEF Args
  <2>5. arg' = [arg EXCEPT ![t] = [Idle EXCEPT !.missing = mapped, !.ret = at[t]]]
    BY <1>5 DEF UpdateMissing, Set
  <2>6. arg' \in [Ts -> Args]
    <3> HIDE DEF q
    <3> QED BY <2>3, <2>4, <2>5 DEF TypeOK
  <2>7. pc' \in [Ts -> Pcs] BY <1>5 DEF UpdateMissing, Goto, TypeOK, Pcs
  <2> QED BY <1>5, <2>6, <2>7 DEF UpdateMissing, TypeOK
<1> QED BY <1>1, <1>2, <1>3, <1>4, <1>5 DEF Begin

LEMMA TypeStep == TypeOK /\ [Next]_vars => TypeOK'
<1> SUFFICES ASSUME TypeOK, [Next]_vars PROVE TypeOK'
  OBVIOUS
<1>1. CASE Boot BY <1>1, BootType
<1>2. ASSUME NEW t \in Ts, Step(t) PROVE TypeOK'
  BY <1>2, PoolType, GrowthType, TransferType, MissingType DEF Step
<1>3. ASSUME NEW t \in Ts, Begin(t) PROVE TypeOK' BY <1>3, BeginType
<1>4. CASE UNCHANGED vars BY <1>4 DEF vars, TypeOK
<1> QED BY <1>1, <1>2, <1>3, <1>4 DEF Next, Stopped

-----------------------------------------------------------------------------
(* Pages that change hands.                                                 *)

\* All threads but t stay where they are.
Others(t) == \A u \in Ts \ {t} : pc'[u] = pc[u] /\ arg'[u] = arg[u]

\* A step of thread t that has nothing to do with the pages.
Quiet(t) ==
  /\ crash = "none" /\ pc[t] \notin HandPcs /\ pc'[t] \notin HandPcs
  /\ Others(t) /\ UNCHANGED heapVars

Stops == \E why \in {"emr", "bitmap", "exists", "nilslot", "updates", "flags",
                    "bluepill"} : Panic(why)

LEMMA Moves ==
  ASSUME TypeOK, NEW t \in Ts
  PROVE  /\ \A l : Goto(t, l) => pc'[t] = l /\ \A u \in Ts \ {t} : pc'[u] = pc[u]
         /\ \A r : Set(t, r) => arg'[t] = r /\ \A u \in Ts \ {t} : arg'[u] = arg[u]
  BY DEF TypeOK, Goto, Set

LEMMA ReplenishMoves ==
  ASSUME TypeOK, NEW t \in Ts, NEW a, NEW r, NEW l, StartReplenish(t, a, r, l)
  PROVE  /\ pc'[t] = "replenish" /\ Others(t)
         /\ arg'[t] = [r EXCEPT !.space = a, !.slot = 1, !.cont = l]
  BY Moves DEF StartReplenish, Others

LEMMA ReplenishFields ==
  ASSUME TypeOK, NEW t \in Ts, NEW a \in Spaces, NEW r \in Args,
         NEW l \in {"user", "missgod", "missview"}, StartReplenish(t, a, r, l)
  PROVE  /\ pc'[t] = "replenish"
         /\ arg'[t].space = a /\ arg'[t].cont = l
         /\ arg'[t].todo = r.todo /\ arg'[t].area = r.area
<1> DEFINE q == [r EXCEPT !.space = a, !.slot = 1, !.cont = l]
<1>1. Goto(t, "replenish") /\ Set(t, q) BY DEF StartReplenish
<1>2. pc'[t] = "replenish" BY <1>1, Moves
<1>3. arg' = [arg EXCEPT ![t] = q] BY <1>1 DEF Set
<1>4. arg'[t] = q
  <2> HIDE DEF q
  <2> QED BY <1>3 DEF TypeOK
<1>5. q.space = a /\ q.cont = l /\ q.todo = r.todo /\ q.area = r.area BY DEF Args
<1> HIDE DEF q
<1> QED BY <1>2, <1>4, <1>5

LEMMA NextCallMoves ==
  ASSUME TypeOK, NEW t \in Ts, NextCall(t)
  PROVE  pc'[t] \in {"hook", "user"} /\ Others(t)
  BY Moves DEF NextCall, Others

LEMMA ExtendFailsStops ==
  ASSUME NEW s, NEW x, NEW heap, ExtendFails(s, heap) \/ ExtendViewFails(s, x, heap)
  PROVE  Stops
  BY DEF ExtendFails, ExtendViewFails, Stops

LEMMA PageFrame ==
  ASSUME TypeOK, PageInv, NEW t \in Ts, Quiet(t)
  PROVE  PageInv'
<1> USE DEF Quiet, heapVars
<1>1. \A u \in Ts : pc'[u] \in HandPcs => pc[u] = pc'[u] /\ arg'[u] = arg[u]
  BY DEF Others
<1>2. \A u \in Ts : pc[u] \in HandPcs => pc'[u] = pc[u] /\ arg'[u] = arg[u]
  BY DEF Others
<1>3. HandInv' BY <1>1 DEF PageInv, HandInv
<1>4. \A p \in Pages : InHand(p)' <=> InHand(p)
  BY <1>1, <1>2 DEF InHand, HandPcs
<1>5. PagesFollowOwner'
  BY <1>4 DEF PageInv, PagesFollowOwner, Rights
<1>6. ASSUME NEW u \in Ts PROVE Trans(u)'
  <2>1. CASE pc'[u] \in HandPcs
    <3>1. pc'[u] = pc[u] /\ arg'[u] = arg[u] BY <1>1, <2>1
    <3>2. Trans(u) BY DEF PageInv
    <3> QED BY <3>1, <3>2 DEF Trans, Rights, PkgDeps
  <2>2. CASE pc'[u] \notin HandPcs BY <2>2 DEF Trans, HandPcs
  <2> QED BY <2>1, <2>2
<1> QED BY <1>3, <1>5, <1>6 DEF PageInv

LEMMA PageStops == ASSUME PageInv, Stops PROVE PageInv'
<1> PICK why \in {"emr", "bitmap", "exists", "nilslot", "updates", "flags",
                  "bluepill"} : Panic(why)
  BY DEF Stops
<1>1. crash' # "none" /\ UNCHANGED <<owner, pte, pc, arg>> BY DEF Panic
<1> QED BY <1>1 DEF PageInv, HandInv, PagesFollowOwner, InHand, Trans, Rights

LEMMA PageUnchanged ==
  ASSUME PageInv, UNCHANGED <<owner, pte, pc, arg, crash>> PROVE PageInv'
  BY DEF PageInv, HandInv, PagesFollowOwner, InHand, Trans, Rights

LEMMA QuietBoot == ASSUME TypeOK, Boot PROVE Quiet(Main)
<1> USE ViewsAssumption DEF HandPcs, heapVars, At
<1>1. CASE RegisterEmergencyGrowth
  BY <1>1 DEF RegisterEmergencyGrowth, BootStep, Quiet, Others
<1>2. CASE InitializeGod
  BY <1>2, ReplenishMoves DEF InitializeGod, BootStep, Quiet
<1>3. CASE CreateViews
  BY <1>3 DEF CreateViews, BootStep, Quiet, Others
<1>4. CASE LitterboxHooks
  BY <1>4 DEF LitterboxHooks, BootStep, Quiet, Others
<1>5. CASE UpdateAll
  <2>1. Others(Main) /\ pc'[Main] \in {"user", "lock"}
    BY <1>5, Moves DEF UpdateAll, Others
  <2> QED BY <1>5, <2>1 DEF UpdateAll, Quiet
<1> QED BY <1>1, <1>2, <1>3, <1>4, <1>5 DEF Boot

LEMMA QuietPool ==
  ASSUME TypeOK, NEW t \in Ts, Replenish(t) \/ AllocBitmap(t)
  PROVE  Quiet(t) \/ Stops
<1> USE DEF HandPcs, heapVars, At
<1>1. CASE Replenish(t)
  <2>1. pc'[t] \in {arg[t].cont, "replenish", "bitmap"} /\ Others(t)
    BY <1>1, Moves DEF Replenish, Others
  <2> QED BY <1>1, <2>1, OneField DEF Replenish, Quiet
<1>2. CASE AllocBitmap(t)
  <2>1. CASE Panic("nilslot") BY <2>1 DEF Stops
  <2>2. CASE ~Panic("nilslot")
    <3>1. pc'[t] = "replenish" /\ Others(t)
      BY <1>2, <2>2, Moves DEF AllocBitmap, Others
    <3> QED BY <1>2, <2>2, <3>1 DEF AllocBitmap, Quiet
  <2> QED BY <2>1, <2>2
<1> QED BY <1>1, <1>2

LEMMA QuietGrowth ==
  ASSUME TypeOK, NEW t \in Ts,
         \/ CallHook(t) \/ EmergencyGrowth(t)
         \/ GrowthLock(t) \/ GrowGod(t) \/ GrowView(t) \/ GrowthUnlock(t)
  PROVE  Quiet(t) \/ Stops
<1> USE DEF HandPcs, heapVars, bootVars, At
<1>1. CASE CallHook(t)
  <2>1. pc'[t] \in {"hook", "user", "lock", "emergency"} /\ Others(t)
    BY <1>1, Moves, NextCallMoves DEF CallHook, Others
  <2> QED BY <1>1, <2>1 DEF CallHook, Quiet
<1>2. CASE EmergencyGrowth(t)
  <2>1. CASE Panic("updates") BY <2>1 DEF Stops
  <2>2. CASE ~Panic("updates")
    <3>1. pc'[t] \in {"hook", "user"} /\ Others(t)
      BY <1>2, <2>2, NextCallMoves DEF EmergencyGrowth
    <3> QED BY <1>2, <2>2, <3>1 DEF EmergencyGrowth, Quiet
  <2> QED BY <2>1, <2>2
<1>3. CASE GrowthLock(t)
  <2>1. pc'[t] = "growgod" /\ Others(t)
    BY <1>3, Moves DEF GrowthLock, Acquire, Others
  <2> QED BY <1>3, <2>1 DEF GrowthLock, Acquire, Quiet
<1>4. CASE GrowGod(t)
  <2>1. CASE ExtendFails(GOD, arg[t].heap) BY <2>1, ExtendFailsStops
  <2>2. CASE ~ExtendFails(GOD, arg[t].heap)
    <3>1. pc'[t] = "growviews" /\ Others(t)
      BY <1>4, <2>2, Moves DEF GrowGod, Others
    <3> QED BY <1>4, <2>2, <3>1 DEF GrowGod, Quiet
  <2> QED BY <2>1, <2>2
<1>5. CASE GrowView(t)
  <2>1. PICK s \in arg[t].todo :
          \/ ExtendViewFails(s, arg[t].area, arg[t].heap)
          \/ /\ ExtendView(s, arg[t].area, arg[t].heap)
             /\ Set(t, [arg[t] EXCEPT !.todo = @ \ {s}])
             /\ UNCHANGED <<bootVars, mapped, heapVars, godMu, at, pc, crash>>
    BY <1>5 DEF GrowView
  <2>2. CASE ExtendViewFails(s, arg[t].area, arg[t].heap) BY <2>2, ExtendFailsStops
  <2>3. CASE ~ExtendViewFails(s, arg[t].area, arg[t].heap)
    <3>1. Set(t, [arg[t] EXCEPT !.todo = @ \ {s}]) /\ UNCHANGED <<owner, pte, pc>>
      BY <2>1, <2>3
    <3>2. Others(t) BY <3>1, Moves DEF Others
    <3> QED BY <1>5, <3>1, <3>2 DEF GrowView, Quiet
  <2> QED BY <2>2, <2>3
<1>6. CASE GrowthUnlock(t)
  <2>1. pc'[t] \in {"hook", "user"} /\ Others(t)
    BY <1>6, NextCallMoves DEF GrowthUnlock
  <2> QED BY <1>6, <2>1 DEF GrowthUnlock, Quiet
<1> QED BY <1>1, <1>2, <1>3, <1>4, <1>5, <1>6

LEMMA QuietMissing ==
  ASSUME TypeOK, NEW t \in Ts,
         \/ NextMissing(t) \/ MissingInGod(t) \/ NextView(t) \/ MissingInView(t)
         \/ EndMissing(t)
  PROVE  Quiet(t) \/ Stops
<1> USE DEF HandPcs, heapVars, bootVars, At
<1>1. CASE NextMissing(t)
  <2>1. PICK a \in arg[t].missing :
          LET r == [arg[t] EXCEPT !.missing = @ \ {a}, !.area = a]
          IN  IF a \in regions[GOD] THEN Set(t, r) /\ UNCHANGED pc
                                    ELSE StartReplenish(t, GOD, r, "missgod")
    BY <1>1 DEF NextMissing
  <2>2. pc'[t] \in {"missing", "replenish"} /\ Others(t)
    <3>1. CASE a \in regions[GOD]
      BY <1>1, <2>1, <3>1, Moves DEF Others, NextMissing
    <3>2. CASE a \notin regions[GOD] BY <2>1, <3>2, ReplenishMoves
    <3> QED BY <3>1, <3>2
  <2> QED BY <1>1, <2>2 DEF NextMissing, Quiet
<1>2. CASE MissingInGod(t)
  <2>1. CASE ExtendFails(GOD, FALSE) BY <2>1, ExtendFailsStops
  <2>2. CASE ~ExtendFails(GOD, FALSE)
    <3>1. pc'[t] = "missviews" /\ Others(t)
      BY <1>2, <2>2, Moves DEF MissingInGod, Others
    <3> QED BY <1>2, <2>2, <3>1 DEF MissingInGod, Quiet
  <2> QED BY <2>1, <2>2
<1>3. CASE NextView(t)
  <2>1. pc'[t] \in {"missing", "replenish"} /\ Others(t)
    BY <1>3, Moves, ReplenishMoves DEF NextView, Others
  <2> QED BY <1>3, <2>1 DEF NextView, Quiet
<1>4. CASE MissingInView(t)
  <2>1. CASE ExtendViewFails(arg[t].space, arg[t].area, FALSE)
    BY <2>1, ExtendFailsStops
  <2>2. CASE ~ExtendViewFails(arg[t].space, arg[t].area, FALSE)
    <3>1. pc'[t] = "missviews" /\ Others(t)
      BY <1>4, <2>2, Moves DEF MissingInView, Others
    <3> QED BY <1>4, <2>2, <3>1 DEF MissingInView, Quiet
  <2> QED BY <2>1, <2>2
<1>5. CASE EndMissing(t)
  <2>1. CASE Panic("bluepill") BY <2>1 DEF Stops
  <2>2. CASE ~Panic("bluepill")
    <3>1. pc'[t] = "user" /\ Others(t)
      BY <1>5, <2>2, Moves DEF EndMissing, Others
    <3> QED BY <1>5, <2>2, <3>1 DEF EndMissing, Quiet
  <2> QED BY <2>1, <2>2
<1> QED BY <1>1, <1>2, <1>3, <1>4, <1>5

LEMMA QuietBegin ==
  ASSUME TypeOK, NEW t \in Ts,
         (\E a \in Areas : Mmap(t, a)) \/ Prolog(t) \/ Epilog(t) \/ UpdateMissing(t)
  PROVE  Quiet(t)
<1> USE DEF HandPcs, heapVars, bootVars, At
<1>1. CASE \E a \in Areas : Mmap(t, a)
  <2>1. pc'[t] = "hook" /\ Others(t) BY <1>1, Moves DEF Mmap, Others
  <2> QED BY <1>1, <2>1 DEF Mmap, Quiet
<1>2. CASE Prolog(t)
  <2>1. pc'[t] \in {"user", "replenish"} /\ Others(t)
    BY <1>2, ReplenishMoves DEF Prolog, Others
  <2> QED BY <1>2, <2>1 DEF Prolog, Quiet
<1>3. CASE Epilog(t) BY <1>3 DEF Epilog, Quiet, Others
<1>4. CASE UpdateMissing(t)
  <2>1. pc'[t] = "missing" /\ Others(t) BY <1>4, Moves DEF UpdateMissing, Others
  <2> QED BY <1>4, <2>1 DEF UpdateMissing, Quiet
<1> QED BY <1>1, <1>2, <1>3, <1>4

LEMMA NoRights ==
  \A s \in Sandboxes, id \in Ids : s \notin PkgDeps(id) => Rights(s, id) = {}
  BY DEF PkgDeps, Rights

\* A step that concerns one page, in the hands of thread t or of nobody.
LEMMA PageStep ==
  ASSUME TypeOK, PageInv, NEW t \in Ts, NEW p \in Pages, Others(t), crash = "none",
         pc[t] \in HandPcs => arg[t].page = p,
         pc'[t] \in HandPcs => arg'[t].page = p,
         \A u \in Ts \ {t} : pc[u] \in HandPcs => arg[u].page # p,
         \A q \in Pages \ {p} : /\ owner'[q] = owner[q]
                               /\ \A s \in Sandboxes : pte'[s][q] = pte[s][q],
         Trans(t)',
         pc'[t] \notin HandPcs => \A s \in Sandboxes : pte'[s][p] = Rights(s, owner'[p])
  PROVE  PageInv'
<1>1. HandInv'
  BY DEF PageInv, HandInv, Others
<1>2. PagesFollowOwner'
  <2> SUFFICES ASSUME NEW s \in Sandboxes, NEW q \in Pages, ~InHand(q)'
               PROVE  pte'[s][q] = Rights(s, owner'[q])
    BY DEF PagesFollowOwner, Rights
  <2>1. CASE q = p
    <3>1. pc'[t] \notin HandPcs BY <2>1 DEF InHand, HandPcs
    <3> QED BY <2>1, <3>1
  <2>2. CASE q # p
    <3>1. ~InHand(q) BY <2>2 DEF InHand, HandPcs, Others
    <3>2. pte[s][q] = Rights(s, owner[q]) BY <3>1 DEF PageInv, PagesFollowOwner
    <3> QED BY <2>2, <3>2
  <2> QED BY <2>1, <2>2
<1>3. ASSUME NEW u \in Ts \ {t} PROVE Trans(u)'
  <2>1. CASE pc'[u] \in HandPcs
    <3>1. pc'[u] = pc[u] /\ arg'[u] = arg[u] BY DEF Others
    <3>2. Trans(u) BY DEF PageInv
    <3>3. arg[u].page # p /\ arg[u].page \in Pages BY <2>1, <3>1, OneField
    <3>4. /\ owner'[arg[u].page] = owner[arg[u].page]
          /\ \A s \in Sandboxes : pte'[s][arg[u].page] = pte[s][arg[u].page]
      BY <3>3
    <3>5. ASSUME pc[u] \in {"tlock", "off"}
          PROVE  /\ arg[u].todo \subseteq PkgDeps(owner'[arg[u].page])
                 /\ \A s \in Sandboxes : pte'[s][arg[u].page] =
                      IF s \in arg[u].todo THEN Rights(s, owner'[arg[u].page]) ELSE {}
      BY <3>2, <3>4, <3>5 DEF Trans
    <3>6. ASSUME pc[u] = "on"
          PROVE  /\ arg[u].todo \subseteq PkgDeps(arg[u].new)
                 /\ \A s \in Sandboxes : pte'[s][arg[u].page] =
                      IF s \in arg[u].todo THEN {} ELSE Rights(s, arg[u].new)
      BY <3>2, <3>4, <3>6 DEF Trans
    <3> QED BY <3>1, <3>5, <3>6 DEF Trans, Rights, PkgDeps
  <2>2. CASE pc'[u] \notin HandPcs BY <2>2 DEF Trans, HandPcs
  <2> QED BY <2>1, <2>2
<1> QED BY <1>1, <1>2, <1>3 DEF PageInv

LEMMA TransferPages ==
  ASSUME TypeOK, PageInv, NEW t \in Ts, NEW p \in Pages, NEW id \in Ids,
         Transfer(t, p, id)
  PROVE  PageInv'
<1> USE DEF At
<1>1. /\ crash = "none" /\ pc[t] = "user" /\ ~InHand(p)
      /\ pte' = pte
  BY DEF Transfer
<1>2. \A u \in Ts : pc[u] \in HandPcs => arg[u].page # p
  BY <1>1 DEF InHand, HandPcs
<1>3. \A s \in Sandboxes : pte[s][p] = Rights(s, owner[p])
  BY <1>1 DEF PageInv, PagesFollowOwner
<1>4. owner[p] \in Ids BY DEF TypeOK
<1>5. CASE PkgDeps(owner[p]) \cup PkgDeps(id) = {}
  <2>1. owner' = [owner EXCEPT ![p] = id] /\ UNCHANGED <<pc, arg>>
    BY <1>5 DEF Transfer
  <2>2. owner'[p] = id /\ \A q \in Pages \ {p} : owner'[q] = owner[q]
    BY <2>1 DEF TypeOK
  <2>3. \A s \in Sandboxes : Rights(s, owner[p]) = {} /\ Rights(s, id) = {}
    BY <1>4, <1>5, NoRights
  <2>4. Trans(t)' BY <1>1, <2>1 DEF Trans
  <2>5. Others(t) BY <2>1 DEF Others
  <2> QED BY <1>1, <1>2, <1>3, <2>1, <2>2, <2>3, <2>4, <2>5, PageStep DEF HandPcs
<1>6. CASE PkgDeps(owner[p]) \cup PkgDeps(id) # {}
  <2>1. /\ Goto(t, "tlock")
        /\ Set(t, [Idle EXCEPT !.page = p, !.new = id, !.todo = PkgDeps(owner[p])])
        /\ owner' = owner
    BY <1>6 DEF Transfer, Unmapping
  <2>2. pc'[t] = "tlock" /\ Others(t)
        /\ arg'[t] = [Idle EXCEPT !.page = p, !.new = id, !.todo = PkgDeps(owner[p])]
    BY <2>1, Moves DEF Others
  <2>3. arg'[t].page = p /\ arg'[t].todo = PkgDeps(owner[p])
    BY <2>2, IdleType DEF Args
  <2>4. Trans(t)'
    <3>1. \A s \in Sandboxes :
            pte[s][p] = IF s \in PkgDeps(owner[p]) THEN Rights(s, owner[p]) ELSE {}
      BY <1>3, <1>4, NoRights
    <3> QED BY <1>1, <2>1, <2>2, <2>3, <3>1 DEF Trans, Rights, PkgDeps
  <2> QED BY <1>1, <1>2, <2>1, <2>2, <2>3, <2>4, PageStep DEF HandPcs
<1> QED BY <1>5, <1>6

LEMMA TransferStepPages ==
  ASSUME TypeOK, PageInv, NEW t \in Ts,
         TransferLock(t) \/ ToggleOff(t) \/ ToggleOn(t) \/ TransferUnlock(t)
  PROVE  PageInv'
<1> USE DEF At
<1> DEFINE p == arg[t].page
           new == arg[t].new
<1>1. /\ crash = "none" /\ pc[t] \in HandPcs
      /\ p \in Pages /\ new \in Ids /\ owner[p] \in Ids
      /\ arg[t].todo \subseteq Sandboxes
  BY OneField
     DEF TransferLock, Acquire, ToggleOff, ToggleOn, TransferUnlock, HandPcs, TypeOK
<1>2. \A u \in Ts \ {t} : pc[u] \in HandPcs => arg[u].page # p
  BY <1>1 DEF PageInv, HandInv
<1>3. Trans(t) BY DEF PageInv
<1>4. ASSUME NEW s \in Sandboxes, NEW X, pte' = [pte EXCEPT ![s][p] = X]
      PROVE  /\ \A v \in Sandboxes : pte'[v][p] = IF v = s THEN X ELSE pte[v][p]
             /\ \A q \in Pages \ {p}, v \in Sandboxes : pte'[v][q] = pte[v][q]
  BY <1>1, <1>4 DEF TypeOK
<1>5. CASE TransferLock(t)
  <2>1. pc[t] = "tlock" /\ pc'[t] = "off" /\ Others(t)
        /\ UNCHANGED <<owner, pte, arg>>
    BY <1>5, Moves DEF TransferLock, Acquire, Others, heapVars
  <2>2. Trans(t)' BY <1>3, <2>1 DEF Trans, Rights, PkgDeps
  <2> QED BY <1>1, <1>2, <2>1, <2>2, PageStep DEF HandPcs
<1>6. CASE ToggleOff(t)
  <2>1. pc[t] = "off" /\ UNCHANGED owner BY <1>6 DEF ToggleOff
  <2>2. CASE arg[t].todo = {}
    <3>1. /\ Set(t, [arg[t] EXCEPT !.todo = PkgDeps(new)])
          /\ Goto(t, "on") /\ UNCHANGED pte
      BY <1>6, <2>2 DEF ToggleOff
    <3>2. pc'[t] = "on" /\ Others(t) /\ arg'[t] = [arg[t] EXCEPT !.todo = PkgDeps(new)]
      BY <3>1, Moves DEF Others
    <3>3. arg'[t].todo = PkgDeps(new) /\ arg'[t].page = p /\ arg'[t].new = new
      BY <3>2, OneField DEF Args
    <3>4. \A s \in Sandboxes : pte[s][p] = {} BY <1>3, <2>1, <2>2 DEF Trans
    <3>5. \A s \in Sandboxes :
            pte[s][p] = IF s \in PkgDeps(new) THEN {} ELSE Rights(s, new)
      BY <1>1, <3>4, NoRights
    <3>6. Trans(t)'
      BY <3>1, <3>2, <3>3, <3>5 DEF Trans, Rights, PkgDeps
    <3> QED BY <1>1, <1>2, <2>1, <3>1, <3>2, <3>3, <3>6, PageStep DEF HandPcs
  <2>3. CASE arg[t].todo # {}
    <3>1. PICK s \in arg[t].todo :
            /\ pte' = [pte EXCEPT ![s][p] = {}]
            /\ Set(t, [arg[t] EXCEPT !.todo = @ \ {s}])
            /\ UNCHANGED pc
      BY <1>6, <2>3 DEF ToggleOff
    <3>2. pc'[t] = "off" /\ Others(t)
          /\ arg'[t] = [arg[t] EXCEPT !.todo = arg[t].todo \ {s}]
      BY <2>1, <3>1, Moves DEF Others
    <3>3. arg'[t].todo = arg[t].todo \ {s} /\ arg'[t].page = p
      BY <3>2, OneField DEF Args
    <3>4. /\ \A v \in Sandboxes : pte'[v][p] = IF v = s THEN {} ELSE pte[v][p]
          /\ \A q \in Pages \ {p}, v \in Sandboxes : pte'[v][q] = pte[v][q]
      BY <1>1, <1>4, <3>1
    <3>5. Trans(t)'
      <4>1. /\ arg[t].todo \subseteq PkgDeps(owner[p])
            /\ \A v \in Sandboxes :
                 pte[v][p] = IF v \in arg[t].todo THEN Rights(v, owner[p]) ELSE {}
        BY <1>3, <2>1 DEF Trans
      <4>2. \A v \in Sandboxes : pte'[v][p] =
              IF v \in arg[t].todo \ {s} THEN Rights(v, owner[p]) ELSE {}
        BY <3>4, <4>1
      <4> HIDE DEF p
      <4> QED BY <2>1, <3>2, <3>3, <4>1, <4>2 DEF Trans, Rights, PkgDeps
    <3> QED BY <1>1, <1>2, <2>1, <3>2, <3>3, <3>4, <3>5, PageStep DEF HandPcs
  <2> QED BY <2>2, <2>3
<1>7. CASE ToggleOn(t)
  <2>1. pc[t] = "on" /\ UNCHANGED <<owner, pc>> BY <1>7 DEF ToggleOn
  <2>2. PICK s \in arg[t].todo :
          /\ pte' = [pte EXCEPT ![s][p] = Granted(s, new) \cup {"R"}]
          /\ IF "R" \in Granted(s, new)
             THEN Set(t, [arg[t] EXCEPT !.todo = @ \ {s}]) /\ UNCHANGED crash
             ELSE crash' = "flags" /\ UNCHANGED arg
    BY <1>7 DEF ToggleOn
  <2>3. /\ \A v \in Sandboxes :
             pte'[v][p] = IF v = s THEN Granted(s, new) \cup {"R"} ELSE pte[v][p]
        /\ \A q \in Pages \ {p}, v \in Sandboxes : pte'[v][q] = pte[v][q]
    BY <1>1, <1>4, <2>2
  <2>4. CASE "R" \in Granted(s, new)
    <3>1. Set(t, [arg[t] EXCEPT !.todo = @ \ {s}]) BY <2>2, <2>4
    <3>2. pc'[t] = "on" /\ Others(t)
          /\ arg'[t] = [arg[t] EXCEPT !.todo = arg[t].todo \ {s}]
      BY <2>1, <3>1, Moves DEF Others
    <3>3. arg'[t].todo = arg[t].todo \ {s} /\ arg'[t].page = p /\ arg'[t].new = new
      BY <3>2, OneField DEF Args
    <3>4. Trans(t)'
      <4>1. /\ arg[t].todo \subseteq PkgDeps(new)
            /\ \A v \in Sandboxes :
                 pte[v][p] = IF v \in arg[t].todo THEN {} ELSE Rights(v, new)
        BY <1>1, <1>3, <2>1 DEF Trans
      <4>2. Granted(s, new) \cup {"R"} = Rights(s, new)
        BY <2>4, <4>1 DEF Granted, Rights, PkgDeps
      <4>3. \A v \in Sandboxes : pte'[v][p] =
              IF v \in arg[t].todo \ {s} THEN {} ELSE Rights(v, new)
        BY <2>3, <4>1, <4>2
      <4> HIDE DEF p, new
      <4> QED BY <3>2, <3>3, <4>1, <4>3 DEF Trans, Rights, PkgDeps
    <3> QED BY <1>1, <1>2, <2>1, <2>3, <3>2, <3>3, <3>4, PageStep DEF HandPcs
  <2>5. CASE "R" \notin Granted(s, new)
    <3>1. crash' = "flags" /\ UNCHANGED arg BY <2>2, <2>5
    <3>2. Trans(t)' BY <2>1, <3>1 DEF Trans
    <3>3. Others(t) BY <2>1, <3>1 DEF Others
    <3> QED BY <1>1, <1>2, <2>1, <2>3, <3>1, <3>2, <3>3, PageStep DEF HandPcs
  <2> QED BY <2>4, <2>5
<1>8. CASE TransferUnlock(t)
  <2>1. /\ pc[t] = "on" /\ arg[t].todo = {} /\ UNCHANGED pte
        /\ owner' = [owner EXCEPT ![p] = new]
        /\ Goto(t, "user") /\ Set(t, Idle)
    BY <1>8 DEF TransferUnlock
  <2>2. pc'[t] = "user" /\ Others(t) BY <2>1, Moves DEF Others
  <2>3. owner'[p] = new /\ \A q \in Pages \ {p} : owner'[q] = owner[q]
    BY <1>1, <2>1 DEF TypeOK
  <2>4. \A s \in Sandboxes : pte[s][p] = Rights(s, new)
    BY <1>1, <1>3, <2>1 DEF Trans
  <2>5. Trans(t)' BY <2>2 DEF Trans
  <2> HIDE DEF p, new
  <2>6. p = arg[t].page BY DEF p
  <2> QED BY <1>1, <1>2, <2>1, <2>2, <2>3, <2>4, <2>5, <2>6, PageStep DEF HandPcs
<1> QED BY <1>5, <1>6, <1>7, <1>8

LEMMA PageInit == Init => PageInv
<1> SUFFICES ASSUME Init PROVE PageInv
  OBVIOUS
<1>1. HandInv /\ \A t \in Ts : Trans(t) BY DEF Init, HandInv, HandPcs, Trans
<1>2. \A s \in Sandboxes : Rights(s, RUNTIME) = Heap
  BY ViewsAssumption DEF Rights, Heap
<1>3. PagesFollowOwner BY <1>2 DEF Init, PagesFollowOwner
<1> QED BY <1>1, <1>3 DEF PageInv

LEMMA PageNext == TypeOK /\ PageInv /\ [Next]_vars => PageInv'
<1> SUFFICES ASSUME TypeOK, PageInv, [Next]_vars PROVE PageInv'
  OBVIOUS
<1>1. CASE Boot BY <1>1, QuietBoot, PageFrame, ViewsAssumption
<1>2. ASSUME NEW t \in Ts, Step(t) PROVE PageInv'
  <2>1. CASE TransferLock(t) \/ ToggleOff(t) \/ ToggleOn(t) \/ TransferUnlock(t)
    BY <2>1, TransferStepPages
  <2>2. CASE ~(TransferLock(t) \/ ToggleOff(t) \/ ToggleOn(t) \/ TransferUnlock(t))
    <3>1. Quiet(t) \/ Stops
      BY <1>2, <2>2, QuietPool, QuietGrowth, QuietMissing DEF Step
    <3> QED BY <3>1, PageFrame, PageStops
  <2> QED BY <2>1, <2>2
<1>3. ASSUME NEW t \in Ts, Begin(t) PROVE PageInv'
  BY <1>3, QuietBegin, PageFrame, TransferPages DEF Begin
<1>4. CASE UNCHANGED vars BY <1>4, PageUnchanged DEF vars
<1> QED BY <1>1, <1>2, <1>3, <1>4 DEF Next, Stopped

-----------------------------------------------------------------------------
(* The memory every space must have.                                        *)

LEMMA SeesRuntime == PkgDeps(RUNTIME) = Sandboxes
  BY ViewsAssumption DEF PkgDeps

LEMMA GrowingAdds == \A t \in Ts : Growing(t) => Adding(t)
  BY DEF Growing, Adding

LEMMA ExtendRegions ==
  ASSUME TypeOK, NEW a \in Spaces, NEW x, NEW heap, Extend(a, x, heap)
  PROVE  /\ regions'[a] = regions[a] \cup {x}
         /\ \A b \in Spaces \ {a} : regions'[b] = regions[b]
  BY DEF Extend, TypeOK

LEMMA RegionStops == ASSUME RegionInv, Stops PROVE RegionInv'
<1> PICK why \in {"emr", "bitmap", "exists", "nilslot", "updates", "flags",
                  "bluepill"} : Panic(why)
  BY DEF Stops
<1>1. crash' # "none" /\ UNCHANGED <<boot, hook, regions, pc, arg>> BY DEF Panic
<1> QED BY <1>1 DEF RegionInv, BootInv, Adding, ViewsWithinGod, InGod, Growing, Covered

LEMMA RegionUnchanged ==
  ASSUME RegionInv, UNCHANGED <<boot, hook, regions, pc, arg, crash>> PROVE RegionInv'
  BY DEF RegionInv, BootInv, Adding, ViewsWithinGod, InGod, Growing, Covered, Will

\* A step of thread t, after which every area that a view lacks was already
\* missing and is not thread t's business, or is thread t's business now.
LEMMA RegionStep ==
  ASSUME TypeOK, RegionInv, NEW t \in Ts, Others(t), crash = "none",
         UNCHANGED <<boot, hook>>,
         Adding(t)' => Adding(t) \/ boot.step \notin Early \cup {"hooks"},
         regions[GOD] \subseteq regions'[GOD],
         \A s \in Sandboxes : regions'[s] \subseteq regions'[GOD],
         boot.step \in Early => \A s \in Sandboxes : regions'[s] = regions[s],
         Growing(t)' => arg'[t].area \in regions'[GOD],
         \A s \in Sandboxes : \A a \in regions'[GOD] \ regions'[s] :
           \/ a \in regions[GOD] \ regions[s] /\ ~(Will(t, s) /\ arg[t].area = a)
           \/ Will(t, s)' /\ arg'[t].area = a
  PROVE  RegionInv'
<1>1. \A u \in Ts \ {t} : /\ Adding(u)' <=> Adding(u)
                          /\ Growing(u)' <=> Growing(u)
                          /\ \A s \in Sandboxes : Will(u, s)' <=> Will(u, s)
                          /\ arg'[u] = arg[u]
  BY DEF Others, Adding, Growing, Will
<1>2. BootInv'
  BY <1>1 DEF RegionInv, BootInv
<1>3. ViewsWithinGod' BY DEF ViewsWithinGod
<1>4. InGod' BY <1>1 DEF RegionInv, InGod
<1>5. Covered'
  <2> SUFFICES ASSUME boot.step \notin Early, NEW s \in Sandboxes,
                      NEW a \in regions'[GOD] \ regions'[s]
               PROVE  \E u \in Ts : Will(u, s)' /\ arg'[u].area = a
    BY DEF Covered
  <2>1. CASE Will(t, s)' /\ arg'[t].area = a BY <2>1
  <2>2. CASE a \in regions[GOD] \ regions[s] /\ ~(Will(t, s) /\ arg[t].area = a)
    <3>1. PICK u \in Ts : Will(u, s) /\ arg[u].area = a
      BY <2>2 DEF RegionInv, Covered
    <3>2. u # t BY <2>2, <3>1
    <3> QED BY <1>1, <3>1, <3>2
  <2> QED BY <2>1, <2>2
<1> QED BY <1>2, <1>3, <1>4, <1>5 DEF RegionInv

\* A step that adds nothing, of a thread that has nothing left to add or keeps it.
LEMMA RegionFrame ==
  ASSUME TypeOK, RegionInv, NEW t \in Ts, Others(t), crash = "none",
         UNCHANGED <<boot, hook, regions>>,
         Adding(t)' => Adding(t) \/ boot.step \notin Early \cup {"hooks"},
         Growing(t)' => Growing(t) /\ arg'[t].area = arg[t].area,
         \A s \in Sandboxes : Will(t, s) => Will(t, s)'
  PROVE  RegionInv'
<1>1. \A s \in Sandboxes : regions'[s] \subseteq regions'[GOD]
  BY DEF RegionInv, ViewsWithinGod
<1>2. Growing(t)' => arg'[t].area \in regions'[GOD]
  BY DEF RegionInv, InGod
<1>3. ASSUME NEW s \in Sandboxes, NEW a \in regions'[GOD] \ regions'[s]
      PROVE  \/ a \in regions[GOD] \ regions[s] /\ ~(Will(t, s) /\ arg[t].area = a)
             \/ Will(t, s)' /\ arg'[t].area = a
  <2>1. Will(t, s)' => arg'[t].area = arg[t].area BY DEF Will
  <2> QED BY <2>1
<1> QED BY <1>1, <1>2, <1>3, RegionStep

\* A step of a thread that is not growing the spaces before it nor after it.
LEMMA RegionIdle ==
  ASSUME TypeOK, RegionInv, NEW t \in Ts, Others(t), crash = "none",
         UNCHANGED <<boot, hook, regions>>,
         Adding(t)' => Adding(t) \/ boot.step \notin Early \cup {"hooks"},
         ~Growing(t), ~Growing(t)'
  PROVE  RegionInv'
<1>1. \A s \in Sandboxes : ~Will(t, s) BY DEF Will
<1> QED BY <1>1, RegionFrame

LEMMA RegionBoot == ASSUME TypeOK, RegionInv, Boot PROVE RegionInv'
<1> USE DEF At
<1>1. crash = "none" /\ pc[Main] = "user" /\ Main \in Ts /\ Others(Main)
  BY QuietBoot, ViewsAssumption
     DEF Boot, RegisterEmergencyGrowth, InitializeGod, CreateViews, LitterboxHooks,
         UpdateAll, BootStep, Quiet
<1>2. \A u \in Ts \ {Main} : /\ Adding(u)' <=> Adding(u)
                             /\ Growing(u)' <=> Growing(u)
                             /\ \A s \in Sandboxes : Will(u, s)' <=> Will(u, s)
                             /\ arg'[u] = arg[u]
  BY <1>1 DEF Others, Adding, Growing, Will
<1>3. ~Adding(Main) /\ ~Growing(Main) BY <1>1 DEF Adding, Growing
<1>4. ASSUME NEW f, NEW l, BootStep(f, l) PROVE boot.step = f /\ boot'.step = l
  BY <1>4 DEF BootStep, TypeOK
<1>5. CASE RegisterEmergencyGrowth
  <2>1. /\ boot.step = "register" /\ boot'.step = "parse" /\ hook' = "emergency"
        /\ UNCHANGED <<regions, pc, arg>>
    BY <1>4, <1>5 DEF RegisterEmergencyGrowth
  <2> QED BY <2>1 DEF RegionInv, BootInv, Adding, ViewsWithinGod, InGod, Growing,
                      Covered, Early
<1>6. CASE InitializeGod
  <2>1. /\ boot.step = "parse" /\ boot'.step = "views" /\ hook' = hook
        /\ regions' = [regions EXCEPT ![GOD] = mapped]
        /\ StartReplenish(Main, GOD, Idle, "user")
    BY <1>4, <1>6 DEF InitializeGod
  <2>2. pc'[Main] = "replenish" /\ arg'[Main].cont = "user"
    <3>1. Main \in Ts /\ GOD \in Spaces BY ViewsAssumption DEF Spaces
    <3> QED BY <2>1, <3>1, ReplenishFields, IdleType
  <2>3. ~Adding(Main)' /\ ~Growing(Main)' BY <2>2 DEF Adding, Growing
  <2>4. \A s \in Sandboxes : regions'[s] = regions[s] /\ regions[s] = {}
    BY <2>1, ViewsAssumption DEF TypeOK, Spaces, RegionInv, BootInv, Early
  <2>5. \A u \in Ts : ~Adding(u)' /\ ~Growing(u)'
    BY <1>2, <2>1, <2>3, GrowingAdds DEF RegionInv, BootInv, Early
  <2>6. BootInv' BY <2>1, <2>4, <2>5 DEF RegionInv, BootInv, Early
  <2>7. ViewsWithinGod' BY <2>4 DEF ViewsWithinGod
  <2> QED BY <2>1, <2>5, <2>6, <2>7 DEF RegionInv, InGod, Covered, Early
<1>7. CASE CreateViews
  <2>1. /\ boot.step = "views" /\ boot'.step = "hooks" /\ UNCHANGED <<hook, pc, arg>>
        /\ regions' = [a \in Spaces |-> regions[GOD]]
    BY <1>4, <1>7 DEF CreateViews
  <2>2. \A u \in Ts : ~Adding(u)' /\ ~Growing(u)'
    BY <2>1, GrowingAdds DEF RegionInv, BootInv, Early, Adding, Growing
  <2>3. \A s \in Sandboxes : regions'[s] = regions'[GOD] BY <2>1 DEF Spaces
  <2>4. BootInv' BY <2>1, <2>2 DEF RegionInv, BootInv, Early
  <2>5. ViewsWithinGod' BY <2>3 DEF ViewsWithinGod
  <2>6. InGod' BY <2>2 DEF InGod
  <2>7. Covered' BY <2>3 DEF Covered
  <2> QED BY <2>4, <2>5, <2>6, <2>7 DEF RegionInv
<1>8. CASE LitterboxHooks
  <2>1. /\ boot.step = "hooks" /\ boot'.step = "updates" /\ hook' = "growth"
        /\ UNCHANGED <<regions, pc, arg, crash>>
    BY <1>4, <1>8 DEF LitterboxHooks, BootStep
  <2> QED BY <2>1 DEF RegionInv, BootInv, Adding, ViewsWithinGod, InGod, Growing,
                      Covered, Will, Early
<1>9. CASE UpdateAll
  <2>1. /\ boot.step = "updates" /\ boot'.step \in {"updates", "done"}
        /\ UNCHANGED <<hook, regions, crash>>
        /\ pc'[Main] \in {"user", "lock"}
    BY <1>1, <1>9, Moves DEF UpdateAll, TypeOK
  <2>2. ~Growing(Main)' BY <2>1 DEF Growing
  <2>3. BootInv' BY <2>1 DEF BootInv, Early
  <2>4. ViewsWithinGod' BY <2>1 DEF RegionInv, ViewsWithinGod
  <2>5. InGod' BY <1>2, <2>1, <2>2 DEF RegionInv, InGod
  <2>6. Covered'
    <3> SUFFICES ASSUME NEW s \in Sandboxes, NEW a \in regions'[GOD] \ regions'[s]
                 PROVE  \E u \in Ts : Will(u, s)' /\ arg'[u].area = a
      BY DEF Covered
    <3>1. PICK u \in Ts : Will(u, s) /\ arg[u].area = a
      BY <1>1, <2>1 DEF RegionInv, Covered, Early
    <3>2. u # Main BY <1>3, <3>1 DEF Will
    <3> QED BY <1>2, <3>1, <3>2
  <2> QED BY <2>3, <2>4, <2>5, <2>6 DEF RegionInv
<1> QED BY <1>5, <1>6, <1>7, <1>8, <1>9 DEF Boot

LEMMA RegionPool ==
  ASSUME TypeOK, RegionInv, NEW t \in Ts, Replenish(t) \/ AllocBitmap(t)
  PROVE  RegionInv'
<1> USE DEF At, bootVars
<1>1. CASE Stops BY <1>1, RegionStops
<1>2. CASE ~Stops
  <2>1. Quiet(t) /\ UNCHANGED <<boot, hook, regions>>
    BY <1>2, QuietPool DEF Replenish, AllocBitmap, Stops
  <2>2. /\ arg'[t].todo = arg[t].todo /\ arg'[t].space = arg[t].space
        /\ arg'[t].cont = arg[t].cont /\ arg'[t].area = arg[t].area
    <3>1. \/ arg' = arg
          \/ arg'[t] = [arg[t] EXCEPT !.slot = arg[t].slot + 1]
      BY <1>2, Moves DEF Replenish, AllocBitmap, Stops
    <3> QED BY <3>1, OneField DEF Args
  <2>3. pc[t] \in {"replenish", "bitmap"} BY DEF Replenish, AllocBitmap
  <2>4. pc'[t] \in {arg[t].cont, "replenish", "bitmap"}
    BY <1>2, <2>3, Moves DEF Replenish, AllocBitmap, Stops
  <2>5. pc'[t] = arg[t].cont => pc'[t] \in {"user", "missgod", "missview"}
    BY OneField
  <2>6. Growing(t)' <=> Growing(t)
    BY <2>2, <2>3, <2>4, <2>5 DEF Growing
  <2>7. Adding(t)' => Adding(t)
    BY <2>2, <2>3, <2>4, <2>5 DEF Adding
  <2>8. \A s \in Sandboxes : Will(t, s) => Will(t, s)'
    BY <2>2, <2>3, <2>4, <2>5, <2>6 DEF Will
  <2> QED BY <2>1, <2>2, <2>6, <2>7, <2>8, RegionFrame DEF Quiet
<1> QED BY <1>1, <1>2

\* Thread t makes the region for its area in the space of view s.
LEMMA RegionView ==
  ASSUME TypeOK, RegionInv, NEW t \in Ts, NEW s \in Sandboxes, NEW heap,
         ExtendView(s, arg[t].area, heap), Others(t), crash = "none",
         Growing(t), UNCHANGED <<boot, hook>>, Adding(t)' => Adding(t),
         arg'[t].area = arg[t].area,
         \A v \in Sandboxes \ {s} : Will(t, v) => Will(t, v)'
  PROVE  RegionInv'
<1> DEFINE a == arg[t].area
<1>1. s \in Spaces /\ GOD \in Spaces /\ s # GOD BY ViewsAssumption DEF Spaces
<1>2. /\ regions'[s] = regions[s] \cup {a}
      /\ \A b \in Spaces \ {s} : regions'[b] = regions[b]
  BY <1>1, ExtendRegions DEF ExtendView
<1>3. regions'[GOD] = regions[GOD] /\ a \in regions[GOD]
  BY <1>1, <1>2 DEF RegionInv, InGod
<1>4. \A v \in Sandboxes : regions'[v] \subseteq regions'[GOD]
  BY <1>2, <1>3 DEF RegionInv, ViewsWithinGod, Spaces
<1>5. boot.step \notin Early BY GrowingAdds DEF RegionInv, BootInv
<1>6. ASSUME NEW v \in Sandboxes, NEW x \in regions'[GOD] \ regions'[v]
      PROVE  \/ x \in regions[GOD] \ regions[v] /\ ~(Will(t, v) /\ a = x)
             \/ Will(t, v)' /\ arg'[t].area = x
  <2>1. x \in regions[GOD] \ regions[v] BY <1>2, <1>3 DEF Spaces
  <2>2. v = s => x # a BY <1>2
  <2> QED BY <2>1, <2>2
<1>7. Growing(t)' => arg'[t].area \in regions'[GOD] BY <1>3
<1> QED BY <1>3, <1>4, <1>5, <1>6, <1>7, RegionStep

\* Thread t makes the region for its area in God's space and is left with all
\* the views.
LEMMA RegionGod ==
  ASSUME TypeOK, RegionInv, NEW t \in Ts, NEW heap, Extend(GOD, arg[t].area, heap),
         Others(t), crash = "none", ~Growing(t), Adding(t), Growing(t)',
         UNCHANGED <<boot, hook>>, arg'[t].area = arg[t].area,
         \A v \in Sandboxes : Will(t, v)'
  PROVE  RegionInv'
<1> DEFINE a == arg[t].area
<1>1. GOD \in Spaces /\ GOD \notin Sandboxes BY ViewsAssumption DEF Spaces
<1>2. /\ regions'[GOD] = regions[GOD] \cup {a}
      /\ \A s \in Sandboxes : regions'[s] = regions[s]
  BY <1>1, ExtendRegions DEF Spaces
<1>3. \A v \in Sandboxes : regions'[v] \subseteq regions'[GOD]
  BY <1>2 DEF RegionInv, ViewsWithinGod
<1>4. ASSUME NEW v \in Sandboxes, NEW x \in regions'[GOD] \ regions'[v]
      PROVE  \/ x \in regions[GOD] \ regions[v] /\ ~(Will(t, v) /\ a = x)
             \/ Will(t, v)' /\ arg'[t].area = x
  <2>1. x = a \/ x \in regions[GOD] \ regions[v] BY <1>2
  <2>2. ~Will(t, v) BY DEF Will
  <2> QED BY <2>1, <2>2
<1>5. Growing(t)' => arg'[t].area \in regions'[GOD] BY <1>2
<1> QED BY <1>2, <1>3, <1>4, <1>5, RegionStep

LEMMA RegionGrowth ==
  ASSUME TypeOK, RegionInv, NEW t \in Ts,
         \/ CallHook(t) \/ EmergencyGrowth(t)
         \/ GrowthLock(t) \/ GrowGod(t) \/ GrowView(t) \/ GrowthUnlock(t)
  PROVE  RegionInv'
<1> USE DEF At, bootVars
<1>1. CASE Stops BY <1>1, RegionStops
<1> SUFFICES ASSUME ~Stops PROVE RegionInv'
  BY <1>1
<1>2. Quiet(t) BY QuietGrowth
<1>3. Others(t) /\ crash = "none" BY <1>2 DEF Quiet
<1>4. CASE CallHook(t)
  <2>1. pc[t] = "hook" /\ UNCHANGED <<boot, hook, regions>> BY <1>4 DEF CallHook
  <2>2. \/ pc'[t] \in {"hook", "user", "emergency"}
        \/ pc'[t] = "lock" /\ hook = "growth"
    BY <1>4, Moves, NextCallMoves DEF CallHook
  <2>3. ~Growing(t) /\ ~Growing(t)' BY <2>1, <2>2 DEF Growing
  <2>4. Adding(t)' => boot.step \notin Early \cup {"hooks"}
    BY <2>2 DEF Adding, RegionInv, BootInv
  <2> QED BY <1>3, <2>1, <2>3, <2>4, RegionIdle
<1>5. CASE EmergencyGrowth(t)
  <2>1. /\ pc[t] = "emergency" /\ UNCHANGED <<boot, hook, regions>>
        /\ pc'[t] \in {"hook", "user"}
    BY <1>5, NextCallMoves DEF EmergencyGrowth, Stops
  <2>2. ~Growing(t) /\ ~Growing(t)' /\ ~Adding(t)' BY <2>1 DEF Growing, Adding
  <2> QED BY <1>3, <2>1, <2>2, RegionIdle
<1>6. CASE GrowthLock(t)
  <2>1. /\ pc[t] = "lock" /\ UNCHANGED <<boot, hook, regions>>
        /\ pc'[t] = "growgod"
    BY <1>6, Moves DEF GrowthLock, Acquire
  <2>2. ~Growing(t) /\ ~Growing(t)' /\ Adding(t) BY <2>1 DEF Growing, Adding
  <2> QED BY <1>3, <2>1, <2>2, RegionIdle
<1>7. CASE GrowGod(t)
  <2>1. /\ pc[t] = "growgod" /\ Extend(GOD, arg[t].area, arg[t].heap)
        /\ Set(t, [arg[t] EXCEPT !.todo = PkgDeps(RUNTIME)])
        /\ Goto(t, "growviews")
        /\ UNCHANGED <<boot, hook>>
    BY <1>7, ExtendFailsStops DEF GrowGod
  <2>2. /\ pc'[t] = "growviews"
        /\ arg'[t] = [arg[t] EXCEPT !.todo = Sandboxes]
    BY <2>1, Moves, SeesRuntime
  <2>3. arg'[t].todo = Sandboxes /\ arg'[t].area = arg[t].area
    BY <2>2, OneField DEF Args
  <2>4. /\ ~Growing(t) /\ Adding(t) /\ Growing(t)'
        /\ \A v \in Sandboxes : Will(t, v)'
    BY <2>1, <2>2, <2>3 DEF Growing, Adding, Will
  <2> QED BY <1>3, <2>1, <2>3, <2>4, RegionGod
<1>8. CASE GrowView(t)
  <2>1. PICK s \in arg[t].todo :
          \/ ExtendViewFails(s, arg[t].area, arg[t].heap)
          \/ /\ ExtendView(s, arg[t].area, arg[t].heap)
             /\ Set(t, [arg[t] EXCEPT !.todo = @ \ {s}])
             /\ UNCHANGED <<bootVars, mapped, heapVars, godMu, at, pc, crash>>
    BY <1>8 DEF GrowView
  <2>2. /\ ExtendView(s, arg[t].area, arg[t].heap)
        /\ Set(t, [arg[t] EXCEPT !.todo = @ \ {s}])
        /\ UNCHANGED <<boot, hook, pc>>
    BY <2>1, ExtendFailsStops
  <2>3. pc[t] = "growviews" BY <1>8 DEF GrowView
  <2>4. arg'[t] = [arg[t] EXCEPT !.todo = arg[t].todo \ {s}] BY <2>2, Moves
  <2>5. arg'[t].todo = arg[t].todo \ {s} /\ arg'[t].area = arg[t].area
    BY <2>4, OneField DEF Args
  <2>6. Growing(t) /\ (Adding(t)' => Adding(t)) BY <2>2, <2>3 DEF Growing, Adding
  <2>7. \A v \in Sandboxes \ {s} : Will(t, v) => Will(t, v)'
    BY <2>2, <2>3, <2>5 DEF Will, Growing
  <2>8. s \in Sandboxes BY OneField
  <2> QED BY <1>3, <2>2, <2>5, <2>6, <2>7, <2>8, RegionView
<1>9. CASE GrowthUnlock(t)
  <2>1. /\ pc[t] = "growviews" /\ arg[t].todo = {} /\ UNCHANGED <<boot, hook, regions>>
        /\ pc'[t] \in {"hook", "user"}
    BY <1>9, NextCallMoves DEF GrowthUnlock
  <2>2. ~Growing(t)' /\ ~Adding(t)' /\ \A s \in Sandboxes : ~Will(t, s)
    BY <2>1 DEF Growing, Adding, Will
  <2> QED BY <1>3, <2>1, <2>2, RegionFrame
<1> QED BY <1>4, <1>5, <1>6, <1>7, <1>8, <1>9

LEMMA RegionMissing ==
  ASSUME TypeOK, RegionInv, NEW t \in Ts,
         \/ NextMissing(t) \/ MissingInGod(t) \/ NextView(t) \/ MissingInView(t)
         \/ EndMissing(t)
  PROVE  RegionInv'
<1> USE DEF At, bootVars
<1>1. CASE Stops BY <1>1, RegionStops
<1> SUFFICES ASSUME ~Stops PROVE RegionInv'
  BY <1>1
<1>2. Quiet(t) BY QuietMissing
<1>3. Others(t) /\ crash = "none" BY <1>2 DEF Quiet
<1>4. CASE NextMissing(t)
  <2>1. pc[t] = "missing" /\ UNCHANGED <<boot, hook, regions>> BY <1>4 DEF NextMissing
  <2>2. ~Growing(t) /\ Adding(t) BY <2>1 DEF Growing, Adding
  <2>3. PICK a \in arg[t].missing :
          LET r == [arg[t] EXCEPT !.missing = @ \ {a}, !.area = a]
          IN  IF a \in regions[GOD] THEN Set(t, r) /\ UNCHANGED pc
                                    ELSE StartReplenish(t, GOD, r, "missgod")
    BY <1>4 DEF NextMissing
  <2>4. ~Growing(t)'
    <3>1. CASE a \in regions[GOD]
      <4>1. pc'[t] = "missing" BY <2>1, <2>3, <3>1
      <4> QED BY <4>1 DEF Growing
    <3>2. CASE a \notin regions[GOD]
      <4> DEFINE q == [arg[t] EXCEPT !.missing = arg[t].missing \ {a}]
                 r == [arg[t] EXCEPT !.missing = @ \ {a}, !.area = a]
      <4>1. a \in Areas /\ arg[t].missing \ {a} \in SUBSET Areas BY OneField
      <4>2. q \in Args BY <4>1, OneField, FieldTypes
      <4>3. [q EXCEPT !.area = a] \in Args
        <5> HIDE DEF q
        <5> QED BY <4>1, <4>2, FieldTypes
      <4>4. r \in Args
        <5>1. r = [q EXCEPT !.area = a] OBVIOUS
        <5> QED BY <4>3, <5>1
      <4>5. StartReplenish(t, GOD, r, "missgod") BY <2>3, <3>2
      <4> HIDE DEF r
      <4>6. pc'[t] = "replenish" /\ arg'[t].cont = "missgod"
        <5>1. GOD \in Spaces BY DEF Spaces
        <5> QED BY <4>4, <4>5, <5>1, ReplenishFields
      <4> QED BY <4>6 DEF Growing
    <3> QED BY <3>1, <3>2
  <2> QED BY <1>3, <2>1, <2>2, <2>4, RegionIdle
<1>5. CASE MissingInGod(t)
  <2>1. /\ pc[t] = "missgod" /\ Extend(GOD, arg[t].area, FALSE)
        /\ Set(t, [arg[t] EXCEPT !.todo = Sandboxes])
        /\ Goto(t, "missviews")
        /\ UNCHANGED <<boot, hook>>
    BY <1>5, ExtendFailsStops DEF MissingInGod
  <2>2. /\ pc'[t] = "missviews"
        /\ arg'[t] = [arg[t] EXCEPT !.todo = Sandboxes]
    BY <2>1, Moves
  <2>3. arg'[t].todo = Sandboxes /\ arg'[t].area = arg[t].area
    BY <2>2, OneField DEF Args
  <2>4. /\ ~Growing(t) /\ Adding(t) /\ Growing(t)'
        /\ \A v \in Sandboxes : Will(t, v)'
    BY <2>1, <2>2, <2>3 DEF Growing, Adding, Will
  <2> QED BY <1>3, <2>1, <2>3, <2>4, RegionGod
<1>6. CASE NextView(t)
  <2>1. pc[t] = "missviews" /\ UNCHANGED <<boot, hook, regions>> BY <1>6 DEF NextView
  <2>2. CASE arg[t].todo = {}
    <3>1. Goto(t, "missing") /\ UNCHANGED arg BY <1>6, <2>2 DEF NextView
    <3>2. pc'[t] = "missing" BY <3>1, Moves
    <3>3. Adding(t) /\ ~Growing(t)' /\ \A s \in Sandboxes : ~Will(t, s)
      BY <2>1, <2>2, <3>2 DEF Adding, Growing, Will
    <3> QED BY <1>3, <2>1, <3>3, RegionFrame
  <2>3. CASE arg[t].todo # {}
    <3>1. PICK s \in arg[t].todo :
            StartReplenish(t, s, [arg[t] EXCEPT !.todo = @ \ {s}], "missview")
      BY <1>6, <2>3 DEF NextView
    <3>2. arg[t].todo \ {s} \in SUBSET Sandboxes BY OneField
    <3> DEFINE r == [arg[t] EXCEPT !.todo = arg[t].todo \ {s}]
    <3>3. r \in Args BY <3>2, OneField
    <3>4. r.todo = arg[t].todo \ {s} /\ r.area = arg[t].area BY OneField DEF Args
    <3>5. StartReplenish(t, s, r, "missview") BY <3>1
    <3> HIDE DEF r
    <3>6. /\ pc'[t] = "replenish" /\ arg'[t].cont = "missview"
          /\ arg'[t].space = s /\ arg'[t].todo = arg[t].todo \ {s}
          /\ arg'[t].area = arg[t].area
      <4>1. s \in Spaces BY <3>1, OneField DEF Spaces
      <4> QED BY <3>3, <3>4, <3>5, <4>1, ReplenishFields
    <3>7. Adding(t) /\ Growing(t) BY <2>1 DEF Adding, Growing
    <3>8. \A v \in Sandboxes : Will(t, v) => Will(t, v)'
      BY <2>1, <3>6 DEF Will, Growing
    <3> QED BY <1>3, <2>1, <3>6, <3>7, <3>8, RegionFrame
  <2> QED BY <2>2, <2>3
<1>7. CASE MissingInView(t)
  <2> DEFINE s == arg[t].space
  <2>1. /\ pc[t] = "missview" /\ ExtendView(s, arg[t].area, FALSE)
        /\ Goto(t, "missviews")
        /\ UNCHANGED <<boot, hook, arg>>
    BY <1>7, ExtendFailsStops DEF MissingInView
  <2>2. pc'[t] = "missviews" BY <2>1, Moves
  <2>3. Growing(t) /\ Adding(t) BY <2>1 DEF Growing, Adding
  <2>4. \A v \in Sandboxes \ {s} : Will(t, v) => Will(t, v)'
    BY <2>1, <2>2 DEF Will, Growing
  <2>5. CASE s \in Sandboxes
    BY <1>3, <2>1, <2>3, <2>4, <2>5, RegionView
  <2>6. CASE s = GOD
    <3>1. arg[t].area \in regions[GOD] BY <2>3 DEF RegionInv, InGod
    <3> QED BY <2>1, <2>6, <3>1 DEF ExtendView
  <2> QED BY <2>5, <2>6, OneField DEF Spaces
<1>8. CASE EndMissing(t)
  <2>1. /\ pc[t] = "missing" /\ UNCHANGED <<boot, hook, regions>>
        /\ pc'[t] = "user"
    BY <1>8, Moves DEF EndMissing, Stops
  <2>2. ~Growing(t) /\ ~Growing(t)' /\ ~Adding(t)' BY <2>1 DEF Growing, Adding
  <2> QED BY <1>3, <2>1, <2>2, RegionIdle
<1> QED BY <1>4, <1>5, <1>6, <1>7, <1>8

LEMMA RegionTransfer ==
  ASSUME TypeOK, RegionInv, NEW t \in Ts,
         \/ \E p \in Pages, id \in Ids : Transfer(t, p, id)
         \/ TransferLock(t) \/ ToggleOff(t) \/ ToggleOn(t) \/ TransferUnlock(t)
  PROVE  RegionInv'
<1> USE DEF At, bootVars, HandPcs
<1>1. /\ crash = "none" /\ pc[t] \in HandPcs \cup {"user"}
      /\ UNCHANGED <<boot, hook, regions>>
  BY DEF Transfer, TransferLock, Acquire, ToggleOff, ToggleOn, TransferUnlock
<1>2. pc'[t] \in HandPcs \cup {"user"} /\ Others(t)
  <2>1. CASE \E p \in Pages, id \in Ids : Transfer(t, p, id)
    BY <2>1, Moves DEF Transfer, Others
  <2>2. CASE TransferLock(t) BY <2>2, Moves DEF TransferLock, Acquire, Others
  <2>3. CASE ToggleOff(t) BY <2>3, Moves DEF ToggleOff, Others
  <2>4. CASE ToggleOn(t) BY <2>4, Moves DEF ToggleOn, Others
  <2>5. CASE TransferUnlock(t) BY <2>5, Moves DEF TransferUnlock, Others
  <2> QED BY <2>1, <2>2, <2>3, <2>4, <2>5
<1>3. ~Growing(t) /\ ~Growing(t)' /\ ~Adding(t)' BY <1>1, <1>2 DEF Growing, Adding
<1> QED BY <1>1, <1>2, <1>3, RegionIdle

LEMMA RegionBegin ==
  ASSUME TypeOK, RegionInv, NEW t \in Ts,
         (\E a \in Areas : Mmap(t, a)) \/ Prolog(t) \/ Epilog(t) \/ UpdateMissing(t)
  PROVE  RegionInv'
<1> USE DEF At, bootVars
<1>1. Others(t) /\ crash = "none" BY QuietBegin DEF Quiet
<1>2. pc[t] = "user" /\ UNCHANGED <<boot, hook, regions>>
  BY DEF Mmap, Prolog, Epilog, UpdateMissing
<1>3. ~Growing(t) /\ ~Adding(t) BY <1>2 DEF Growing, Adding
<1>4. CASE \E a \in Areas : Mmap(t, a)
  <2>1. pc'[t] = "hook" BY <1>4, Moves DEF Mmap
  <2> QED BY <1>1, <1>2, <1>3, <2>1, RegionIdle DEF Growing, Adding
<1>5. CASE Prolog(t)
  <2>1. \/ pc'[t] = "user"
        \/ pc'[t] = "replenish" /\ arg'[t].cont = "user"
    <3>1. CASE at[t] = "host"
      <4>1. GOD \in Spaces BY DEF Spaces
      <4>2. StartReplenish(t, GOD, Idle, "user") BY <1>5, <3>1 DEF Prolog
      <4> QED BY <4>1, <4>2, ReplenishFields, IdleType
    <3>2. CASE at[t] # "host" BY <1>2, <1>5, <3>2 DEF Prolog
    <3> QED BY <3>1, <3>2
  <2> QED BY <1>1, <1>2, <1>3, <2>1, RegionIdle DEF Growing, Adding
<1>6. CASE Epilog(t)
  <2>1. pc'[t] = "user" BY <1>2, <1>6 DEF Epilog
  <2> QED BY <1>1, <1>2, <1>3, <2>1, RegionIdle DEF Growing, Adding
<1>7. CASE UpdateMissing(t)
  <2>1. pc'[t] = "missing" /\ boot.step = "done"
    BY <1>7, Moves DEF UpdateMissing
  <2>2. ~Growing(t)' BY <2>1 DEF Growing
  <2> QED BY <1>1, <1>2, <1>3, <2>1, <2>2, RegionIdle DEF Early
<1> QED BY <1>4, <1>5, <1>6, <1>7

LEMMA RegionInit == Init => RegionInv
<1> SUFFICES ASSUME Init PROVE RegionInv
  OBVIOUS
<1>1. boot.step = "register" /\ \A t \in Ts : pc[t] = "user" BY DEF Init
<1>2. \A a \in Spaces : regions[a] = {} BY DEF Init
<1>3. BootInv BY <1>1, <1>2 DEF Init, BootInv, Adding, Spaces
<1>4. ViewsWithinGod BY <1>2 DEF ViewsWithinGod, Spaces
<1>5. InGod BY <1>1 DEF InGod, Growing
<1>6. Covered BY <1>1 DEF Covered, Early
<1> QED BY <1>3, <1>4, <1>5, <1>6 DEF RegionInv

LEMMA RegionNext == TypeOK /\ RegionInv /\ [Next]_vars => RegionInv'
<1> SUFFICES ASSUME TypeOK, RegionInv, [Next]_vars PROVE RegionInv'
  OBVIOUS
<1>1. CASE Boot BY <1>1, RegionBoot
<1>2. ASSUME NEW t \in Ts, Step(t) PROVE RegionInv'
  BY <1>2, RegionPool, RegionGrowth, RegionTransfer, RegionMissing DEF Step
<1>3. ASSUME NEW t \in Ts, Begin(t) PROVE RegionInv'
  BY <1>3, RegionBegin, RegionTransfer DEF Begin
<1>4. CASE UNCHANGED vars BY <1>4, RegionUnchanged DEF vars
<1> QED BY <1>1, <1>2, <1>3, <1>4 DEF Next, Stopped

-----------------------------------------------------------------------------
(* The theorems.                                                            *)

\* What a thread has done to the page it hands over, and what is still to be
\* added to each space, are known in every reachable state.
THEOREM Inductive == Spec => []IInv
<1>1. Init => IInv BY InitType, PageInit, RegionInit DEF IInv
<1>2. IInv /\ [Next]_vars => IInv' BY TypeStep, PageNext, RegionNext DEF IInv
<1> QED BY <1>1, <1>2, PTL DEF Spec

\* Every variable keeps its type; at most NUpd growths wait in Updates.
THEOREM TypeCorrect == Spec => []TypeOK
<1>1. IInv => TypeOK BY DEF IInv
<1> QED BY <1>1, Inductive, PTL

\* A heap page that is not changing hands is mapped in exactly the views that
\* see its owner, with their rights (Transfer).
THEOREM PagesFollow == Spec => []PagesFollowOwner
<1>1. IInv => PagesFollowOwner BY DEF IInv, PageInv
<1> QED BY <1>1, Inductive, PTL

\* At no point of a Transfer does a view grant more on a page than its rights on
\* the old owner or on the new one.
THEOREM NotExposed == Spec => []NeverExposed
<1>1. ASSUME IInv, crash = "none", NEW s \in Sandboxes, NEW p \in Pages
      PROVE  \/ pte[s][p] \subseteq Rights(s, owner[p])
             \/ \E t \in Ts : /\ pc[t] = "on" /\ arg[t].page = p
                              /\ pte[s][p] \subseteq Rights(s, arg[t].new)
  <2>1. CASE ~InHand(p) BY <1>1, <2>1 DEF IInv, PageInv, PagesFollowOwner
  <2>2. CASE InHand(p)
    <3>1. PICK t \in Ts : pc[t] \in {"tlock", "off", "on"} /\ arg[t].page = p
      BY <2>2 DEF InHand
    <3>2. Trans(t) BY <1>1 DEF IInv, PageInv
    <3>3. CASE pc[t] \in {"tlock", "off"} BY <3>1, <3>2, <3>3 DEF Trans
    <3>4. CASE pc[t] = "on" BY <1>1, <3>1, <3>2, <3>4 DEF Trans
    <3> QED BY <3>1, <3>3, <3>4
  <2> QED BY <2>1, <2>2
<1>2. IInv => NeverExposed BY <1>1 DEF NeverExposed
<1> QED BY <1>2, Inductive, PTL

\* No view has a region God's space lacks (RuntimeGrowth, UpdateMissing).
THEOREM WithinGod == Spec => []ViewsWithinGod
<1>1. IInv => ViewsWithinGod BY DEF IInv, RegionInv
<1> QED BY <1>1, Inductive, PTL

\* When no thread is growing the spaces all views have the memory God's has
\* (RuntimeGrowth, UpdateMissing, UpdateAll).
THEOREM Consistent == Spec => []ViewsConsistent
<1>1. ASSUME IInv, crash = "none", boot.step \notin {"register", "parse", "views"},
             \A t \in Ts : ~Growing(t), NEW s \in Sandboxes
      PROVE  regions[s] = regions[GOD]
  <2>1. regions[s] \subseteq regions[GOD] BY <1>1 DEF IInv, RegionInv, ViewsWithinGod
  <2>2. \A a \in regions[GOD] \ regions[s] : \E t \in Ts : Will(t, s)
    BY <1>1 DEF IInv, RegionInv, Covered, Early
  <2>3. \A t \in Ts : ~Will(t, s) BY <1>1 DEF Will
  <2> QED BY <2>1, <2>2, <2>3
<1>2. IInv => ViewsConsistent BY <1>1 DEF ViewsConsistent
<1> QED BY <1>2, Inductive, PTL
=============================================================================
