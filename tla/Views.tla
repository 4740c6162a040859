-------------------------------- MODULE Views --------------------------------
(***************************************************************************)
(* The address spaces of the VT-x backend while the process changes under   *)
(* them: God's (the whole process) and one view per enclosure.              *)
(*                                                                          *)
(* Memory the runtime maps must be added to God's space and to the views of *)
(* all enclosures that see the runtime.  A growth cannot allocate, so each  *)
(* space keeps a pool of region descriptors, EMR; Replenish fills it slot   *)
(* by slot and without the lock.  Growths that happen while the spaces are  *)
(* being built are queued and applied by UpdateAll.  Heap pages that change *)
(* hands are unmapped from the views of one package and mapped in those of  *)
(* another.  RuntimeGrowth and Transfer hold GodMu; UpdateMissing does not. *)
(*                                                                          *)
(* Abstracted: the page tables and the arenas they are cut from, guest      *)
(* physical addresses and the KVM slots; which enclosure a thread is in and *)
(* how it switches (EncSwitch); when a page is handed over (SpanHeap).      *)
(***************************************************************************)
EXTENDS Naturals, Sequences, FiniteSets, FiniteSetsExt

CONSTANTS
  Ts,         \* threads
  Main,       \* the one that initialises the backend
  Sandboxes,
  Ids,        \* package ids
  RUNTIME,    \* id 0
  View,       \* SandboxMemory.View: the rights on each package an enclosure sees
  Pages,      \* heap pages the program has at start
  Areas,      \* memory areas it maps later
  HeapAreas,  \* those of them that are heap arenas
  NEMR,       \* len(EMR), 50 in the source
  NUpd,       \* len(EUpdates), 50 in the source
  NoT, GOD

Heap == {"R", "W"}      \* HEAP_VAL

ASSUME ViewsAssumption ==
  /\ Main \in Ts /\ NoT \notin Ts /\ RUNTIME \in Ids
  /\ GOD \notin Sandboxes
  /\ View \in [Sandboxes -> UNION {[D -> SUBSET {"R", "W", "X"}] : D \in SUBSET Ids}]
  \* every enclosure depends on the runtime, which has the default rights
  /\ \A s \in Sandboxes : RUNTIME \in DOMAIN View[s] /\ Heap \subseteq View[s][RUNTIME]
  /\ Areas # {} /\ Pages # {}
  /\ HeapAreas \subseteq Areas /\ NEMR \in Nat \ {0} /\ NUpd \in Nat

Spaces == Sandboxes \cup {GOD}
PkgDeps(id) == {s \in Sandboxes : id \in DOMAIN View[s]}

VARIABLES
  boot,     \* the main thread's progress in Initialize
  hook,     \* runtimeGrowth
  updates,  \* Updates, filled by EmergencyGrowth from EUpdates
  mapped,   \* the areas the process has (what /proc/self/maps lists)
  regions,  \* the areas each space has a region for
  emr,      \* the pool of each space
  owner,    \* the package a heap page was last handed to
  pte,      \* what each view grants on a heap page
  godMu,
  at,       \* where a thread executes: on the host, in the VM, in an enclosure
  pc, arg,  \* the call a thread is in, and its locals
  crash     \* the panic that stopped the process

vars == <<boot, hook, updates, mapped, regions, emr, owner, pte, godMu, at,
          pc, arg, crash>>

bootVars == <<boot, hook, updates>>
heapVars == <<owner, pte>>

Idle == [area |-> CHOOSE a \in Areas : TRUE, heap |-> FALSE, calls |-> 0,
         todo |-> {}, page |-> CHOOSE p \in Pages : TRUE, new |-> RUNTIME,
         space |-> GOD, slot |-> 1, cont |-> "user", missing |-> {}, ret |-> "host"]

Init ==
  /\ boot    = [step |-> "register", walk |-> 1]
  /\ hook    = "nil"
  /\ updates = <<>>
  /\ mapped  = {}
  /\ regions = [a \in Spaces |-> {}]
  /\ emr     = [a \in Spaces |-> [i \in 1 .. NEMR |-> "nil"]]
  /\ owner   = [p \in Pages |-> RUNTIME]
  /\ pte     = [s \in Sandboxes |-> [p \in Pages |-> Heap]]
  /\ godMu   = NoT
  /\ at      = [t \in Ts |-> "host"]
  /\ pc      = [t \in Ts |-> "user"]
  /\ arg     = [t \in Ts |-> Idle]
  /\ crash   = "none"

\* A thread is at a point of its call, in a process that still runs.
At(t, l)   == crash = "none" /\ pc[t] = l
Goto(t, l) == pc' = [pc EXCEPT ![t] = l]
Set(t, r)  == arg' = [arg EXCEPT ![t] = r]
Panic(why) ==
  /\ crash' = why
  /\ UNCHANGED <<boot, hook, updates, mapped, regions, emr, owner, pte, godMu,
                 at, pc, arg>>

-----------------------------------------------------------------------------
(* The pools.                                                               *)

Filled(a) == {i \in 1 .. NEMR : emr[a][i] # "nil"}

\* AcquireEMR: the first descriptor of the pool, for a region of area x.
\* Extend and Extend2 panic on a heap region whose descriptor has no bitmap.
Extend(a, x, heap) ==
  LET i == Min(Filled(a))
  IN  /\ Filled(a) # {}
      /\ ~(heap /\ emr[a][i] = "bare")
      /\ emr' = [emr EXCEPT ![a][i] = "nil"]
      /\ regions' = [regions EXCEPT ![a] = @ \cup {x}]

ExtendFails(a, heap) ==
  \/ Filled(a) = {} /\ Panic("emr")
  \/ /\ Filled(a) # {} /\ heap /\ emr[a][Min(Filled(a))] = "bare"
     /\ Panic("bitmap")

\* ExtendRuntime
ExtendView(s, x, heap) == x \notin regions[s] /\ Extend(s, x, heap)
ExtendViewFails(s, x, heap) ==
  \/ x \in regions[s] /\ Panic("exists")
  \/ x \notin regions[s] /\ ExtendFails(s, heap)

StartReplenish(t, a, r, next) ==
  /\ Goto(t, "replenish")
  /\ Set(t, [r EXCEPT !.space = a, !.slot = 1, !.cont = next])

\* Replenish: a new descriptor goes into an empty slot ...
Replenish(t) ==
  LET a == arg[t].space
      i == arg[t].slot
  IN  /\ At(t, "replenish")
      /\ \/ /\ i > NEMR
            /\ Goto(t, arg[t].cont)
            /\ UNCHANGED <<emr, arg>>
         \/ /\ i <= NEMR /\ emr[a][i] # "nil"
            /\ Set(t, [arg[t] EXCEPT !.slot = i + 1])
            /\ UNCHANGED <<emr, pc>>
         \/ /\ i <= NEMR /\ emr[a][i] = "nil"
            /\ emr' = [emr EXCEPT ![a][i] = "bare"]
            /\ Goto(t, "bitmap")
            /\ UNCHANGED arg
      /\ UNCHANGED <<bootVars, mapped, regions, heapVars, godMu, at, crash>>

\* ... and gets its bitmap there, if nobody has taken it meanwhile.
AllocBitmap(t) ==
  LET a == arg[t].space
      i == arg[t].slot
  IN  /\ At(t, "bitmap")
      /\ \/ emr[a][i] = "nil" /\ Panic("nilslot")
         \/ /\ emr[a][i] # "nil"
            /\ emr' = [emr EXCEPT ![a][i] = "full"]
            /\ Set(t, [arg[t] EXCEPT !.slot = i + 1])
            /\ Goto(t, "replenish")
            /\ UNCHANGED <<bootVars, mapped, regions, heapVars, godMu, at, crash>>

-----------------------------------------------------------------------------
(* Initialize: InitializeGod, the views, LitterboxHooks, UpdateAll.         *)

BootStep(from, to) ==
  /\ boot.step = from /\ At(Main, "user")
  /\ boot' = [boot EXCEPT !.step = to]
  /\ UNCHANGED <<updates, mapped, owner, pte, godMu, at, crash>>

RegisterEmergencyGrowth ==
  /\ BootStep("register", "parse")
  /\ hook' = "emergency"
  /\ UNCHANGED <<regions, emr, pc, arg>>

\* The regions of GodAS are those /proc/self/maps lists.
InitializeGod ==
  /\ BootStep("parse", "views")
  /\ regions' = [regions EXCEPT ![GOD] = mapped]
  /\ StartReplenish(Main, GOD, Idle, "user")
  /\ UNCHANGED <<hook, emr>>

\* Copy and ApplyDomain, for every enclosure; the pools are not copied.
CreateViews ==
  /\ BootStep("views", "hooks")
  /\ regions' = [a \in Spaces |-> regions[GOD]]
  /\ UNCHANGED <<hook, emr, pc, arg>>

LitterboxHooks ==
  /\ BootStep("hooks", "updates")
  /\ hook' = "growth"
  /\ UNCHANGED <<regions, emr, pc, arg>>

\* UpdateAll calls RuntimeGrowth for each update.
UpdateAll ==
  /\ boot.step = "updates" /\ At(Main, "user")
  /\ \/ /\ boot.walk <= Len(updates)
        /\ boot' = [boot EXCEPT !.walk = @ + 1]
        /\ LET a == updates[boot.walk]
           IN  Set(Main, [Idle EXCEPT !.area = a, !.heap = a \in HeapAreas,
                                      !.calls = 1])
        /\ Goto(Main, "lock")
     \/ /\ boot.walk > Len(updates)
        /\ boot' = [boot EXCEPT !.step = "done"]
        /\ UNCHANGED <<pc, arg>>
  /\ UNCHANGED <<hook, updates, mapped, regions, emr, heapVars, godMu, at, crash>>

-----------------------------------------------------------------------------
(* The runtime maps memory and calls its hook.                              *)

\* sysMmap.  A heap arena is reserved by sysReserve, which calls the hook a
\* second time, and then mapped by sysMap, a third.
Mmap(t, a) ==
  /\ At(t, "user") /\ a \notin mapped
  /\ mapped' = mapped \cup {a}
  /\ Goto(t, "hook")
  /\ Set(t, [Idle EXCEPT !.area = a, !.calls = IF a \in HeapAreas THEN 3 ELSE 1])
  /\ UNCHANGED <<bootVars, regions, emr, heapVars, godMu, at, crash>>

NextCall(t) ==
  IF arg[t].calls > 1
  THEN Goto(t, "hook") /\ Set(t, [arg[t] EXCEPT !.calls = @ - 1])
  ELSE Goto(t, "user") /\ Set(t, Idle)

\* if runtimeGrowth != nil { runtimeGrowth(...) }
CallHook(t) ==
  /\ At(t, "hook")
  /\ \/ hook = "nil" /\ NextCall(t)
     \/ /\ hook # "nil"
        /\ Goto(t, IF hook = "growth" THEN "lock" ELSE "emergency")
        /\ Set(t, [arg[t] EXCEPT !.heap = arg[t].calls = 2])
  /\ UNCHANGED <<bootVars, mapped, regions, emr, heapVars, godMu, at, crash>>

\* acquireUpdate
UpdatesFullOffByOne == Len(updates) > NUpd
UpdatesFull == Len(updates) >= NUpd

EmergencyGrowth(t) ==
  /\ At(t, "emergency")
  /\ \/ UpdatesFull /\ Panic("updates")
     \/ /\ ~UpdatesFull
        /\ updates' = Append(updates, arg[t].area)
        /\ NextCall(t)
        /\ UNCHANGED <<boot, hook, mapped, regions, emr, heapVars, godMu, at, crash>>

Acquire(t, from, to) ==
  /\ At(t, from) /\ godMu = NoT
  /\ godMu' = t
  /\ Goto(t, to)
  /\ UNCHANGED <<bootVars, mapped, regions, emr, heapVars, at, arg, crash>>

GrowthLock(t) == Acquire(t, "lock", "growgod")

GrowGodUnlinked(t) ==
  /\ At(t, "growgod") /\ Filled(GOD) # {}
  /\ emr' = [emr EXCEPT ![GOD][Min(Filled(GOD))] = "nil"]
  /\ Set(t, [arg[t] EXCEPT !.todo = PkgDeps(RUNTIME)])
  /\ Goto(t, "growviews")
  /\ UNCHANGED <<bootVars, mapped, regions, heapVars, godMu, at, crash>>

GrowGod(t) ==
  /\ At(t, "growgod")
  /\ \/ ExtendFails(GOD, arg[t].heap)
     \/ /\ Extend(GOD, arg[t].area, arg[t].heap)
        /\ Set(t, [arg[t] EXCEPT !.todo = PkgDeps(RUNTIME)])
        /\ Goto(t, "growviews")
        /\ UNCHANGED <<bootVars, mapped, heapVars, godMu, at, crash>>

GrowViewOnce(t) ==
  /\ At(t, "growviews")
  /\ \E s \in arg[t].todo :
       \/ ExtendViewFails(s, arg[t].area, arg[t].heap)
       \/ /\ ExtendView(s, arg[t].area, arg[t].heap)
          /\ Set(t, [arg[t] EXCEPT !.todo = {}])
          /\ UNCHANGED <<bootVars, mapped, heapVars, godMu, at, pc, crash>>

GrowView(t) ==
  /\ At(t, "growviews")
  /\ \E s \in arg[t].todo :
       \/ ExtendViewFails(s, arg[t].area, arg[t].heap)
       \/ /\ ExtendView(s, arg[t].area, arg[t].heap)
          /\ Set(t, [arg[t] EXCEPT !.todo = @ \ {s}])
          /\ UNCHANGED <<bootVars, mapped, heapVars, godMu, at, pc, crash>>

GrowthUnlock(t) ==
  /\ At(t, "growviews") /\ arg[t].todo = {}
  /\ godMu' = NoT
  /\ NextCall(t)
  /\ UNCHANGED <<bootVars, mapped, regions, emr, heapVars, at, crash>>

-----------------------------------------------------------------------------
(* A heap page goes from one package to another.                            *)

InHand(p) == \E t \in Ts : pc[t] \in {"tlock", "off", "on"} /\ arg[t].page = p

\* The views Transfer unmaps the page from, and the rights it maps it with.
UnmappingNew(old, new) == PkgDeps(new)
Unmapping(old, new) == PkgDeps(old)
GrantedHeap(s, id) == Heap
Granted(s, id) == View[s][id] \cap Heap

\* The id of the span changes before the backend is told.
Transfer(t, p, id) ==
  /\ hook = "growth" /\ At(t, "user")
  /\ ~InHand(p) /\ id # owner[p]
  /\ IF PkgDeps(owner[p]) \cup PkgDeps(id) = {}
     THEN owner' = [owner EXCEPT ![p] = id] /\ UNCHANGED <<pc, arg>>
     ELSE /\ Goto(t, "tlock")
          /\ Set(t, [Idle EXCEPT !.page = p, !.new = id,
                                 !.todo = Unmapping(owner[p], id)])
          /\ UNCHANGED owner
  /\ UNCHANGED <<bootVars, mapped, regions, emr, pte, godMu, at, crash>>

TransferLock(t) == Acquire(t, "tlock", "off")

ToggleOffRestarts(t) ==
  /\ At(t, "off")
  /\ \/ \E s \in arg[t].todo :
          /\ pte' = [pte EXCEPT ![s][arg[t].page] = {}]
          /\ UNCHANGED <<pc, arg>>
     \/ /\ arg[t].todo = {}
        /\ Set(t, [arg[t] EXCEPT !.todo = PkgDeps(arg[t].new)])
        /\ Goto(t, "on")
        /\ UNCHANGED pte
  /\ UNCHANGED <<bootVars, mapped, regions, emr, owner, godMu, at, crash>>

ToggleOff(t) ==
  /\ At(t, "off")
  /\ \/ \E s \in arg[t].todo :
          /\ pte' = [pte EXCEPT ![s][arg[t].page] = {}]
          /\ Set(t, [arg[t] EXCEPT !.todo = @ \ {s}])
          /\ UNCHANGED pc
     \/ /\ arg[t].todo = {}
        /\ Set(t, [arg[t] EXCEPT !.todo = PkgDeps(arg[t].new)])
        /\ Goto(t, "on")
        /\ UNCHANGED pte
  /\ UNCHANGED <<bootVars, mapped, regions, emr, owner, godMu, at, crash>>

\* Toggle makes the entry present whatever the rights are, and checks then that
\* its flags are those asked for: a view without rights (U) fails.
ToggleOn(t) ==
  /\ At(t, "on")
  /\ \E s \in arg[t].todo :
       LET prot == Granted(s, arg[t].new)
       IN  /\ pte' = [pte EXCEPT ![s][arg[t].page] = prot \cup {"R"}]
           /\ IF "R" \in prot
              THEN Set(t, [arg[t] EXCEPT !.todo = @ \ {s}]) /\ UNCHANGED crash
              ELSE crash' = "flags" /\ UNCHANGED arg
  /\ UNCHANGED <<bootVars, mapped, regions, emr, owner, godMu, at, pc>>

TransferUnlock(t) ==
  /\ At(t, "on") /\ arg[t].todo = {}
  /\ owner' = [owner EXCEPT ![arg[t].page] = arg[t].new]
  /\ godMu' = NoT
  /\ Goto(t, "user") /\ Set(t, Idle)
  /\ UNCHANGED <<bootVars, mapped, regions, emr, pte, at, crash>>

-----------------------------------------------------------------------------
(* Entering and leaving enclosures, and UpdateMissing.                      *)

\* Prolog replenishes God's pool when the thread is not in the VM yet.
Prolog(t) ==
  /\ boot.step = "done" /\ At(t, "user") /\ at[t] \in {"host", "vm"}
  /\ at' = [at EXCEPT ![t] = "enclosure"]
  /\ IF at[t] = "host" THEN StartReplenish(t, GOD, Idle, "user")
                       ELSE UNCHANGED <<pc, arg>>
  /\ UNCHANGED <<bootVars, mapped, regions, emr, heapVars, godMu, crash>>

Epilog(t) ==
  /\ At(t, "user") /\ at[t] = "enclosure"
  /\ at' = [at EXCEPT ![t] = "vm"]
  /\ UNCHANGED <<bootVars, mapped, regions, emr, heapVars, godMu, pc, arg, crash>>

\* tryRedpill leaves the VM; then the areas of the process are read again.
UpdateMissing(t) ==
  /\ boot.step = "done" /\ At(t, "user")
  /\ at' = [at EXCEPT ![t] = "host"]
  /\ Goto(t, "missing")
  /\ Set(t, [Idle EXCEPT !.missing = mapped, !.ret = at[t]])
  /\ UNCHANGED <<bootVars, mapped, regions, emr, heapVars, godMu, crash>>

\* Only God is asked whether an area is missing.
NextMissing(t) ==
  /\ At(t, "missing")
  /\ \E a \in arg[t].missing :
       LET r == [arg[t] EXCEPT !.missing = @ \ {a}, !.area = a]
       IN  IF a \in regions[GOD] THEN Set(t, r) /\ UNCHANGED pc
                                 ELSE StartReplenish(t, GOD, r, "missgod")
  /\ UNCHANGED <<bootVars, mapped, regions, emr, heapVars, godMu, at, crash>>

MissingInGod(t) ==
  /\ At(t, "missgod")
  /\ \/ ExtendFails(GOD, FALSE)
     \/ /\ Extend(GOD, arg[t].area, FALSE)
        /\ Set(t, [arg[t] EXCEPT !.todo = Sandboxes])
        /\ Goto(t, "missviews")
        /\ UNCHANGED <<bootVars, mapped, heapVars, godMu, at, crash>>

NextView(t) ==
  /\ At(t, "missviews")
  /\ \/ \E s \in arg[t].todo :
          StartReplenish(t, s, [arg[t] EXCEPT !.todo = @ \ {s}], "missview")
     \/ arg[t].todo = {} /\ Goto(t, "missing") /\ UNCHANGED arg
  /\ UNCHANGED <<bootVars, mapped, regions, emr, heapVars, godMu, at, crash>>

MissingInView(t) ==
  LET s == arg[t].space
  IN  /\ At(t, "missview")
      /\ \/ ExtendViewFails(s, arg[t].area, FALSE)
         \/ /\ ExtendView(s, arg[t].area, FALSE)
            /\ Goto(t, "missviews")
            /\ UNCHANGED <<bootVars, mapped, heapVars, godMu, at, arg, crash>>

\* tryBluepill goes back only to an enclosure, and checks for the vCPU that
\* tryRedpill has taken from the thread.
EndMissing(t) ==
  /\ At(t, "missing") /\ arg[t].missing = {}
  /\ \/ arg[t].ret = "enclosure" /\ Panic("bluepill")
     \/ /\ arg[t].ret # "enclosure"
        /\ Goto(t, "user") /\ Set(t, Idle)
        /\ UNCHANGED <<bootVars, mapped, regions, emr, heapVars, godMu, at, crash>>

-----------------------------------------------------------------------------
\* What a thread does once it has begun a call.
Step(t) ==
  \/ Replenish(t) \/ AllocBitmap(t)
  \/ CallHook(t) \/ EmergencyGrowth(t)
  \/ GrowthLock(t) \/ GrowGod(t) \/ GrowView(t) \/ GrowthUnlock(t)
  \/ TransferLock(t) \/ ToggleOff(t) \/ ToggleOn(t) \/ TransferUnlock(t)
  \/ NextMissing(t) \/ MissingInGod(t) \/ NextView(t) \/ MissingInView(t)
  \/ EndMissing(t)

Boot ==
  \/ RegisterEmergencyGrowth \/ InitializeGod \/ CreateViews \/ LitterboxHooks
  \/ UpdateAll

Begin(t) ==
  \/ \E a \in Areas : Mmap(t, a)
  \/ \E p \in Pages, id \in Ids : Transfer(t, p, id)
  \/ Prolog(t) \/ Epilog(t) \/ UpdateMissing(t)

Stopped == crash # "none" /\ UNCHANGED vars

Next ==
  \/ Boot
  \/ \E t \in Ts : Step(t) \/ Begin(t)
  \/ Stopped

Spec == Init /\ [][Next]_vars

\* A thread in a call of the backend goes on: nothing in it blocks but GodMu.
Fairness == \A t \in Ts : WF_vars(Step(t))
FairSpec == Spec /\ Fairness

-----------------------------------------------------------------------------
(* Properties.                                                              *)

Rights(s, id) == IF id \in DOMAIN View[s] THEN View[s][id] \cap Heap ELSE {}

Pcs == {"user", "replenish", "bitmap", "hook", "emergency", "lock", "growgod",
        "growviews", "tlock", "off", "on", "missing", "missgod", "missviews",
        "missview"}
Args == [area : Areas, heap : BOOLEAN, calls : 0 .. 3, todo : SUBSET Sandboxes,
         page : Pages, new : Ids, space : Spaces, slot : Nat \ {0},
         cont : {"user", "missgod", "missview"}, missing : SUBSET Areas,
         ret : {"host", "vm", "enclosure"}]

TypeOK ==
  /\ boot \in [step : {"register", "parse", "views", "hooks", "updates", "done"},
               walk : Nat \ {0}]
  /\ hook \in {"nil", "emergency", "growth"}
  /\ updates \in Seq(Areas) /\ Len(updates) <= NUpd
  /\ mapped \subseteq Areas
  /\ regions \in [Spaces -> SUBSET Areas]
  /\ emr \in [Spaces -> [1 .. NEMR -> {"nil", "bare", "full"}]]
  /\ owner \in [Pages -> Ids]
  /\ pte \in [Sandboxes -> [Pages -> SUBSET Heap]]
  /\ godMu \in Ts \cup {NoT}
  /\ at \in [Ts -> {"host", "vm", "enclosure"}]
  /\ pc \in [Ts -> Pcs] /\ arg \in [Ts -> Args]
  /\ crash \in {"none", "emr", "bitmap", "exists", "nilslot", "updates", "flags",
                "bluepill"}

\* A heap page no thread is handing over is mapped in exactly the views that
\* see its owner, with the rights they have on it (Transfer, two loops over
\* PkgDeps while other threads grow, transfer and replenish).
PagesFollowOwner ==
  \A s \in Sandboxes, p \in Pages : ~InHand(p) => pte[s][p] = Rights(s, owner[p])

\* Nor while a page changes hands does a view get it that sees neither its old
\* nor its new owner, or more of it than one of the two allows.
NeverExposed ==
  crash = "none" => \A s \in Sandboxes, p \in Pages :
    \/ pte[s][p] \subseteq Rights(s, owner[p])
    \/ \E t \in Ts : /\ pc[t] = "on" /\ arg[t].page = p
                     /\ pte[s][p] \subseteq Rights(s, arg[t].new)

\* No view has memory that God's space lacks: in God's space code outside
\* enclosures, the runtime and the collector must reach everything.
ViewsWithinGod == \A s \in Sandboxes : regions[s] \subseteq regions[GOD]

\* Whenever no thread is growing the spaces or looking for missing areas, all
\* views have the memory God's has, whichever way those interleaved before.
Growing(t) ==
  \/ pc[t] \in {"growviews", "missviews", "missview"}
  \/ pc[t] \in {"replenish", "bitmap"} /\ arg[t].cont = "missview"
ViewsConsistent ==
  /\ crash = "none" /\ boot.step \notin {"register", "parse", "views"}
  /\ \A t \in Ts : ~Growing(t)
  => \A s \in Sandboxes : regions[s] = regions[GOD]

\* GodMu is never kept: its holder releases it on every path, unless the
\* process stops.
LockReleased == \A t \in Ts : godMu = t ~> godMu # t \/ crash # "none"

\* A growth finds a descriptor ("Used for emergency runtime growth").
GrowthServed == crash # "emr"
=============================================================================
