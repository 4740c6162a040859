# A TLA+ model of enclosures

The repository extends the Go tool chain with *enclosures*: closures declared
with the packages they may access and the system calls they may make.  A
compiled program carries the memory view of each enclosure, and a run-time
backend (Intel VT-x or MPK) enforces it while the Go scheduler and the Go heap
go on moving goroutines between threads and memory between packages.  This
directory models the parts of that program where several actors meet.

## Inventory

| Component | State | Operations | What makes it hard |
|---|---|---|---|
| VT-x switching: `gosb/vtx/vtx.go`, `platform/kvm/` | pool of vCPUs (`VCPU.state`, CR3, `Memview`, `Sysfilter`), which thread is in guest mode | `Prolog`, `Epilog`, `Execute`, `Machine.Get`, bluepill, redpill | threads enter and leave vCPUs at any time; the vCPU survives the goroutine that claimed it |
| Ids in the runtime: `runtime/gosb.go`, `proc.go` | `g.sbid`, `m.sbid`, `g0.sbid`, `g0.vcpu` | `execute`, `newproc1`, `goexit0`, `newm1`, `AssignSbId`, `GetmSbIds` | descriptors are recycled, goroutines migrate, hooks run on g or on g0 |
| Per-package heap: `runtime/gosb3.go`, `malloc.go`, `mcache.go`, `mcentral.go`, `mheap.go`, `mgcsweep.go` | `mspan.id`, `dirty`, `oldid`, `m.toclean`, the lists and the free spans | `mallocgc`, `cacheSpan`, `setId`, `releasem`, sweep, free, coalesce | registration is deferred; spans split, merge and are recycled with their id |
| MPK backend: `gosb/mpk/` | package to key, PKRU per enclosure and per thread | `Init`, `Transfer`, `Prolog`, `Epilog`, `Execute`, `mstart` | sixteen keys for any number of packages; two groupings in random order must fit together; PKRU stays with the thread |
| Address spaces: `gosb/gosb.go`, `vtx/vtx.go`, `platform/memview/`, `runtime/cgo_mmap.go` | the regions of each view, its pool of descriptors, page-table entries, `Updates`, `GodMu` | `Initialize`, `RuntimeGrowth`, `EmergencyGrowth`, `UpdateAll`, `Transfer`, `Replenish`, `UpdateMissing` | a growth may not allocate; hooks are replaced while other threads call them; one lock, which not all take |
| Guest physical memory: `platform/memview/free_space_allocator.go`, `memview.go`, `full_space.go`, `kvm/gosb_specifics.go`, `vtx/dynamic.go` | `FreeSpace`, the arenas of page tables (`All`, `Current`, `Dirties`), `Span.GPA` of each region, KVM's slots | `Malloc`, `NewPTEs2`, `Seal`, `SetAllEPTSlots`, `UpdateEPTSlots`, `MapArenas`, `DynSetEPTRegion` | to map takes page tables, which may take an arena, which must be mapped in every space and needs a slot |
| Memory areas: `gosb/commons/vmarea*.go`, `list.go` | sorted lists of areas with rights | `Map`, `Unmap`, `Coalesce`, `Mirror` | splitting and trimming while walking |
| Linker and loader: `ld/gosb2.go`, `ld/data.go`, `objfile/gosb.go`, `gosb/gosb.go` | `Bloats`, the domains, addresses of sections; packages, `SandboxMemory.Static`, `PcToPkg` | `computeBloats`, `gosb_generateDomains`, `gosb_reorderSymbols`, `gosb_dumpPackages`, `loadPackages`, `loadSandboxes`, `createFakePackage`, `PcToId` | two walks over maps in random order; symbols are moved and aligned after alignments have been computed; pages against bytes |
| Grouping and views: `gosb/globals/algo.go` | packages per group and per view | `AggregatePackages`, `ComputeMemoryView` | everything else trusts it |
| Dynamic LitterBox: `LitterBox/src/main.go`, `gosb/dynamic.go`, `vtx/dynamic.go`, its callers in `cpython/` | stack of ids, packages and imports known so far, an address space per enclosure, `VCPU.Memview` | `SB_Prolog`, `SB_Epilog`, `SB_switch_rt`, `SB_switch_in`, `SB_AddSection`, `SB_RegisterGrowth`, ... | packages, imports and memory become known while enclosures run; the view is frozen at the first Prolog, memory is not |
| Compiler syntax, configuration, ring 0, simulation | | | not modelled: see `PROJECT.json` |

How they interact: the compiler wraps an enclosure's body in `sandbox_prolog`
and `sandbox_epilog`, hooks the backend installs with `LitterboxHooks`.  The
scheduler calls `Execute(g.sbid)` before it resumes a goroutine, and
`Execute("fuck")` before it clones a thread.  The allocator calls `Transfer`
when a span changes package; `Transfer` edits the views' page tables, which the
vCPUs use as they run.  The linker decides which packages have pages of their
own and where; the loader makes the views of it that both backends enforce.
LitterBox drives the same backends for an interpreter, which tells it at run
time what the linker would have.

What makes each correct: a goroutine's code executes in its enclosure's view,
wherever it is scheduled, under its filter; no two threads share a vCPU; the
hooks' own assertions hold; a span holds objects of one package; the backend
learns of every change of owner before the object is used, and only of real
ones; a package's pages are in the views that may access it and in no others;
a PKRU value grants what the enclosure's view says, on sections and heap alike;
an address space, however it was put together, is one map from pages to rights;
what the process maps is in God's space and in every view that needs it; a
domain is the closure of what an enclosure names, and the pages it is given hold
the symbols of those packages only.

## Modules

`Enclosures` is the abstract specification: goroutines, the stack of enclosures
each has entered, the thread each runs on and the address space that thread
sees.  It knows no vCPU, no id and no hook.

`EncSwitch` is the detailed one.  Correspondence with the code:

| Model | Code |
|---|---|
| `gstat`, `gsb` | `g.atomicstatus` (four values), `g.sbid` |
| `gbase`, `frames` | what the program means: the domain a goroutine was created in and the enclosures it has entered; never read by a hook |
| `pc`, `curg`, `goal` | where a thread is, `m.curg`, the view it is about to enter |
| `msb`, `g0sb`, `vcpu` | `m.sbid`, `m.g0.sbid`, `m.g0.vcpu` |
| `vstate`, `vcr3`, `vattr`, `guest` | `VCPU.state`, its CR3, `Memview` with `Sysfilter`, whether the thread is in guest mode |
| `PrologSwitch`, `PrologGet`, `PrologEnter`, `Epilog` | `vtx.Prolog`, `vtx.Epilog`, `KVM.SwitchToUser`, `bluepillHandler` |
| `ExecuteSame`, `ExecuteSwitch`, `ExecuteGet`, `ExecuteEnter`, `ExecuteFails` | `execute` in `proc.go` with `vtx.Execute` |
| `Park`, `Ready`, `GoExit`, `Newproc`, `EnterSyscall`, `ExitSyscall`, `ExitSyscall0` | the scheduler's functions of those names |
| `CloneExit`, `CloneSpawn` | `newm`, `newm1` and `Execute("fuck")`, around RED_EXIT |

A hook is one step, as it is nosplit and touches its own thread's state, except
where another thread can get in: a vCPU is claimed before the thread enters it,
and is Ready again before the thread's `g0.vcpu` is cleared.  Every `Check`,
`throw` and `panic` of these paths is a step to a stopped state, with its name
in `crash`.  Host code sees what God's address space shows, so both are the
view `GOD`.  `INSTANCE Enclosures` in `EncSwitch` is the refinement mapping; a
goroutine waiting for its vCPU in Prolog still executes the calling code.

`SpanHeap` models the heap's ownership of pages.  A record per `mspan` holds its
extent, `sid` (`span.id`), `oldid`, `dirty`, `nz` (`needzero`), `scav`, the
number of objects in it and the packages they belong to (only the number is in
the code, as `allocCount`) and the list or cache it is in.  `pool` is spanalloc's free list,
last in first out.  `maps` is the backend: the enclosures whose views map
each page.  `Transfer` is `vtx.Transfer`: it takes pages out of the views of all
enclosures in `PkgDeps[old]`, however they got there, and puts them in those of
`PkgDeps[new]`; all enclosures see the runtime, so a transfer from id 0 first
clears a page everywhere.  `mallocgc` is two steps: up to the object
(`MallocCached`, `MallocCentral`, `MallocGrow`, `MallocLarge`) and from there to
its last `releasem` (`MallocEnd`), which does the registration left in
`m.toclean`.  In between every other thread, the sweeper and the scavenger may
step.  The span under allocation is private, so the parts of one half need not
be separated.

`MPKKeys` models what the MPK backend computes before the program runs and the
retagging of pages afterwards.  The configuration (`given`) is chosen at the
start; the groupings of `AggregatePackages` (`AggregateGroup`, `Aggregated`) and
of `mpk.Init` (`KeyGroup`, `Grouped`) take packages one at a time in any order,
as Go walks maps; `AllocateKey` is a turn of `allocateKey` with `tagPackage`,
`ComputePKRU` the rest of `Init`.  `sect` and `tag` are the keys of sections and
of heap pages, `sbPKRU` a field per key for each enclosure.  `Transfer` is
`mallocgc`'s choice of an id followed by `mpk.Transfer`.  Rights are sets of
`"R"`, `"W"`, `"X"`; the key 0 is everybody's.

`MPKSwitch` models the MPK hooks under the scheduler of `EncSwitch`: the same
actions without vCPUs, the register `pkru` of each thread, `Clone` (a thread
inherits the register of the one that clones it, and no hook runs) and `MStart`.
A register value is named after the enclosure it was computed for; `MPKKeys`
says what it grants.  It is refined to the same `Enclosures`.  `MPK` declares
what the two have in common, the set of enclosures, and the names of `MPKKeys`'
specification start with `Keys`, so that `MPKProofs` can extend both.

`VMAreas` models `gosb/commons` on sequences of areas, in bytes: `SectVMA`,
`Coalesce`, `MapIn`, `Unmap`, `MapAll`, `UnmapAll`, `Mirror`.  Each loop of the
code is a `Loop` of one turn: `Absorb` (the cursor of `Coalesce` meets the next
area), `Cut` (the four cases of `Unmap`), `MapTurn`, `MirrorTurn`.  Its actions
apply these to the lists of a program; `Load` is `PackageToVMAreas` with
`Convert`, where areas with one address may be sorted either way
(`SortedAreas`).  `PageMaps` is the abstract specification: a function from
pages to rights per space.  `panicked` stands for the panic of `merge`.

`Views` models the address spaces of the VT-x backend.

| Model | Code |
|---|---|
| `boot`, `hook`, `updates` | how far `Initialize` has got, the runtime's `runtimeGrowth`, `Updates` with the slots of `EUpdates` |
| `mapped`, `regions`, `emr` | `/proc/self/maps`, `Regions` of each space, its `EMR` pool: a slot is nil, a descriptor without its bitmap (`"bare"`) or one with |
| `owner`, `pte` | the id a span's page was last handed to, what each view's page tables grant on it |
| `godMu`, `pc`, `arg`, `at` | `GodMu`, the call a thread is in and its locals, whether it executes on the host, in the VM or in an enclosure |
| `BootStep` with its steps | `InitializeGod`, `vtx.Init`, `LitterboxHooks`, `UpdateAll` in the order of `Initialize` |
| `Mmap`, `CallHook`, `EmergencyGrowth`, `GrowthLock` ... `GrowthUnlock` | `sysReserve`, `sysMap` and `mmap` up to the hook, then `RuntimeGrowth` view by view |
| `Transfer` ... `TransferUnlock` | `vtx.Transfer`: the old package's views lose the page one by one, the new one's get it |
| `Replenish`, `AllocBitmap`, `Prolog`, `Epilog` | the pools are filled slot by slot, without the lock |
| `UpdateMissing` ... `EndMissing` | `tryRedpill`, `UpdateMissing` and `tryBluepill` |

A step ends where another thread can get in: at the lock, after each view, after
each slot.  Every panic and `Check` is a step to a stopped process.

`LitterBox` models the library and the dynamic VT-x backend, with the
interpreter reduced to the calls it makes.

| Model | Code |
|---|---|
| `stack` | `StackIds` |
| `pkg`, `deps`, `sects`, `sstat`, `sdeps` | what is registered: `AllPackages` and ids, `P2PDeps`, `Sects`, `Sandboxes`, `SandboxDeps` |
| `cview`, `iview` | `Config.View` by name and `View` by id |
| `pc`, `toadd`, `result` | the worklist of `ComputeMemoryView`, one package per step (`Visit`), since it is taken in the order of a Go map |
| `god`, `built`, `maps`, `owner` | whether `GodAS` exists, `mv.Views`, what each space grants on each area, whose the area is |
| `inside`, `cr3`, `memview`, `switched` | whether the thread is in the VM, CR3, `VCPU.Memview`, how deep `SB_switch_rt` is |
| `by` | a history: in which enclosure an area was added; no operation reads it |

`GuestMemory` models the level below: guest physical addresses, the arenas page
tables are cut from and KVM's slots, for both backends.

| Model | Code |
|---|---|
| `free`, `Candidates`, `Eaten` | `FreeSpace`, after `Mirror`; the search and the cut of `Malloc` |
| `arenas`, `room`, `dirty` | `PageTableAllocator`: `All`, the room left in `Current`, the arenas with `Dirty` (`Dirties` is their number) |
| `gpa`, `built` | `Span.GPA` of each space's region for an area, `Views` |
| `tables`, `amap` | in which arenas a space's page tables are, which arenas it maps |
| `slots`, `aslots` | what `setEPTRegion` has told KVM, of areas and of arenas |
| `stage`, `who`, `left`, `upd`, `area` | how far `Init`, `DProlog`, `RuntimeGrowth` or `DynTransfer` has got |
| `InitializeGod`, `NewRoot`, `VMAToMemoryRegion`, `CopyGod`, `ViewBuilt` | `InitializeGod` and `Copy` with `ApplyDomain` |
| `Walk` | `NewPTEs2`, called while a mapping is made |
| `CreateVirtualMachine`, `RegisterArena`, `DefaultMap`, `ArenaRegistered`, `ArenasMapped` | `SetAllEPTSlots` and `Seal`, the loop of `UpdateEPTSlots`, `MapArenas` |
| `GrowGod`, `GrowView`, `GrowthDone` | `Extend`, `Extend2` and the slot for the new area |

A mapping is several steps, since how many page tables it takes depends on the
addresses; the model lets it take any number at any of these moments.

`Linker` models the two walks of the linker, the layout of symbols and the
loader.

| Model | Code |
|---|---|
| `decl`, `Deps`, `wants` | `PackageDecl`, `PackageDeps`, what the object files say of each enclosure |
| `calls`, `seen` | the pending calls of `gosb_walkTransDeps` (a set: any order, a superset of the recursion's), what its `check` has seen |
| `bloats`, `domains` | the keys of `Bloats`, `Pkgs` of each `SandboxDomain` |
| `kind`, `group`, `last`, `open` | the loop over symbol kinds, the owner of the last symbol, the last page and whether it has room |
| `sect` | first and last page of an owner's symbols of a kind: `toSym` with the addresses `gosb_dumpPackages` writes |
| `holds` | a record of the run: whose symbols are on a page |
| `Static`, `FakePages`, `Common`, `PcToId` | operators: what `loadSandboxes`, `createFakePackage`, `loadPackages` and `PcToId` compute from the sections |

`Place` lays down one symbol: it starts on the page left open, unless its
alignment forbids that, or on the next, and may cover several.  The first
symbol of a bloated package in a kind is aligned to a page, as are enclosures'
functions, stack objects and `runtime.pclntab`; trusted symbols are not, and
sections of a kind were aligned before the reordering.  So trusted symbols may
begin on the page on which the last package of the kind before ended, except
where a segment begins (`NewSegment`).

The modules named `MC...` give constants their values and the symmetry sets.
`EncSwitchProofs`, `MPKProofs` (of `MPKKeys` and `MPKSwitch`), `VMAreasProofs`,
`ViewsProofs`, `LitterBoxProofs`, `SpanHeapProofs`, `LinkerProofs` and
`GuestMemoryProofs` hold the proofs.  A definition in front of one whose name it extends
(`StartsPageAlone` before `StartsPage`) is a faulty variant, with a bug the
code might have had; no specification uses it, and put in the other's place it
breaks a property.

## Runs

| Run | Instance | Result |
|---|---|---|
| `EncSwitch` | 3 goroutines, 3 threads, 2 vCPUs, 2 enclosures, GOMAXPROCS 2, no nesting, cloning from g0 | the abstract specification is implemented, the four invariants hold, 844,549 states |
| `EncSwitchClone` | cloning under a running goroutine allowed | `SbIdsMatch` violated |
| `SpanHeap` | 2 threads, the runtime and one package, which one of 2 enclosures sees, 3 pages, 3 descriptors, 2 objects per span, one outer lock | all seven properties hold, 864,755 states |
| `SpanHeapStale` | 1 thread, 2 packages, each seen by one of 2 enclosures | `PagesFollowSpan` violated |
| `MPKKeys` | 2 enclosures, 2 packages and the enclosures' own, views with four kinds of rights or none, 3 keys, 1 page | all four properties hold, 219,474 states |
| `MPKSwitch` | 3 goroutines, 3 threads, 2 enclosures, GOMAXPROCS 2, no nesting, cloning anywhere | the abstract specification is implemented, `NoCrash` holds, 121,712 states |
| `VMAreas` | 2 lists, 4 pages of 2 bytes, limit at page 3, rights R and RW | the page maps are implemented and the invariants hold, 6,642 states |
| `Views` | 2 threads, 2 enclosures, 3 packages, 1 page, 2 areas of which one is a heap arena, pools of 2, one slot for delayed growths | five invariants and `LockReleased` hold, 1,013,900 states |
| `ViewsGrowth` | the same | `GrowthServed` violated |
| `LitterBox` | 2 enclosures, 3 packages, 2 areas, nesting 2, one switch to God's space | four invariants and `ViewComputed` hold, 2,077,458 states |
| `GuestMemory` | both backends, 2 enclosures, 3 areas at the start, 2 later, 19 pages below the limit, arenas of 3 page tables, 7 slots | the four invariants hold, 449,214 states |
| `Linker` | 2 enclosures, 5 packages, one name without a package, 4 kinds of symbols on 5 pages, symbols of up to 2 pages | all three properties hold, 846,851 states |

Each module has a type invariant `TypeOK` (`KeysTypeOK` in `MPKKeys`).  The runs of `SpanHeap`, `MPKKeys`,
`VMAreas` and `Views` check theirs; the others' are proved for every value of
the constants (`TypeCorrect`) and not checked again.

Bounds.  Two goroutines and three threads let a goroutine migrate while another
takes its thread and vCPU and a third thread is being cloned; the third
goroutine lets one be created from a recycled descriptor meanwhile.  Two
enclosures tell "some enclosure" from "the right one".  Two vCPUs for three
threads is a pool too small, so that `Machine.Get` both
succeeds, with a vCPU another thread gave back, and fails.  Three pages and three
descriptors are the least where a two-page span, a neighbour and a recycled
descriptor exist together; two owners tell right from wrong, since no span has
three.  `MaxDepth`, `NPages` and `MaxLocks` are the bounds in the guards; in
`EncSwitch` every other quantity is bounded by its constant set.

Two packages and two enclosures' own make up to four groups for three keys, so
initialisation succeeds and fails; all 625 configurations times two kinds of
page are initial states, and one page passes through every sequence of owners.
Four pages give every case of `Unmap` and lists of up to four areas; a page of
two bytes has sections that end in its middle; the limit is below the last
page, as `Mirror` handles both sides.  `Load` is bounded to the start, when
all lists are empty, and to two sections.

In `Views` two threads are enough for every race of the code that was found,
all of which are between two calls; pools of two descriptors are emptied by one
growth of a heap arena, which calls the hook three times, and one slot for
delayed growths overflows at the second.  One enclosure has restricted rights
on a package, the other names it without rights.  In `LitterBox` two areas, each
mapped once, may be two sections of one package, or a section and growth of the
runtime, and three packages give a chain of a
nested package and a circular import; `MaxNest` and `MaxSwitch` bound what the
program may nest.  In `Linker` five pages let two kinds meet on a page with a
package on each side, and a function of two pages stand beside stack objects of
one; `MaxPage` and `MaxSpan` bound the layout, which may end early (`Done`).

In `GuestMemory` one area lies below the limit, one across it and one beyond, so
`Assign` takes both branches.  An arena has three page tables and a mapping
takes any number, so one that is under way asks for an arena, and mapping that
arena for another.  Free space and slots (`Limit`, `MaxSlots`) are enough for
both enclosures and both later areas if mappings take few page tables, and run
out if they do not; KVM's own limits are larger.  In the static backend no area
is added once there is a view, as `ViewsGrowth` shows why.

### Where the code and what is said of it disagree

* `EncSwitchClone`: `newm1` runs `Execute("fuck")` on g0 also when a goroutine
  in an enclosure caused it (`go` statement, wake-up).  Thread ids are reset,
  `g.sbid` is not, and `GetmSbIds` throws "sbids do not match." at that
  goroutine's next hook.
* `SpanHeapStale`: the pages of a large object of package A are in A's view only;
  the object dies, and the two-page span is free, still with A's id.  The runtime
  asks for one page: the span is split, the descriptor for its first page is a
  blank one that says id 0, and so `setId` finds nothing to do.  The runtime's
  object lies on a page that the view of B, which sees the runtime, does not map.
  The fault is in the id and not in the transfer: had the span been split for
  B, `vtx.Transfer` from 0 to B would have taken the page out of all views first.
  With `\subseteq` for `=` the property fails as well, the other way round: a new
  page, in all views, merges with A's free span and is handed out with A's id,
  without a transfer and hence visible to B.  A recycled descriptor may also carry
  the id of a third package, and then the pages leave that one's views only.
* `ViewsGrowth`: a growth needs a descriptor from God's pool and one from the
  pool of each view, but only God's is ever filled: `Copy` leaves a view's empty
  and `Replenish` of a view is called only by `UpdateMissing`, which nothing in
  the repository calls.  The first growth after the views exist panics in
  `AcquireEMR`.

Other places where the code and its comments part, which no run singles out:

* `Epilog` leaves `Memview` and `Sysfilter` of the enclosure on the vCPU, unlike
  `Execute("")` and `DEpilog`.  `FilterMatches` is about code inside enclosures
  and holds.
* `Prolog` accepts a call from inside an enclosure and the inner `Epilog` returns
  to God; the outer `Epilog` then fails its check of the id.  The TODO at
  `vtx.go:88` knows; the runs and proofs keep to programs that do not nest.
* Idle and blocked threads keep their vCPU, so the number in use is not bounded
  by GOMAXPROCS, from which the pool is sized.  `Machine.Get` says that its
  failure "should be impossible"; `OnlyPoolFails` says that nothing else fails.
* `createFakePackage` gives stack objects the size of the enclosure's function
  (`gosb.go:325`, `:334`): a function of more than a page makes pages behind
  them visible.  `SeesOnlyDomain` names them.
* `loadPackages` rounds the trusted package's sections down at their start and
  their sizes up, which can lose the last page of one that starts in the middle
  of a page; `updateTrusted` says that the linker's numbers are not accurate
  there, and nothing reads the result after it.
* `Extend`, which the static `RuntimeGrowth` uses, makes no slot for the region
  (`memview.go:289`, a TODO), and the fault path that might is commented out.
  `Backed` says of the static backend that it holds for the areas of the start.
* `mpk.Transfer` returns without retagging when the new package
  has no key (no enclosure sees it, or its id is -1).  The page stays accessible
  to the enclosures of its previous package; the comment says that a page is
  transferred "from one package to another".  `HeapMatchesViews` is about
  packages in some enclosure's view, and holds.
* A section added to a package after an enclosure's first Prolog is mapped in
  its space with the rights of the heap, whatever the configuration says
  (`vtx/dynamic.go:142`, `:157`, a TODO at `:215`).

Hazards of the code that no property is about:

* Enclosures that nest in one goroutine, as above.
* `sysReserve`, `mmap` and `sysMap` call the growth hook for one area, and a
  second region for an area a view has panics (`Mmap`, `ExtendViewFails`).
* `Toggle` makes an entry present and then checks its flags
  (`memview.go:627`): a page given to a package that a view names without rights
  stops the process with the entry readable (`ToggleOn`).
* `mmap` calls the growth hook before its caller looks at the error
  (`cgo_mmap.go:53`), and `sysReserve` reports the address it asked for and not
  the one it got (`mem_linux.go:161`): a mapping that fails, or is placed
  elsewhere, makes a region where there is no memory.  `Views` has neither.
* `Replenish` races with a growth for a slot and stops the process
  (`AllocBitmap`, `ExtendFails`).
* Trusted symbols that begin a kind may share the page on which a package's
  symbols of the kind before end, and are seen with it (`data.go:1301`).
  `SeesOnlyDomain` excepts them, as it does the pages behind stack objects;
  `HeapMatchesViews` excepts what `mpk.Transfer` leaves behind.
* A growth that read the old hook and appends to `Updates` after `UpdateAll` has
  walked it is never served.
* `cpython`'s allocator unmaps an arena and tells nobody
  (`smalloc-lib/state.c:44`, `Munmap`).
* `ExtendSpace` adds an area to the `Static` of each enclosure, which is nil for
  one that is registered and not entered (`gosb/dynamic.go:261`,
  `RegisterGrowth`).
* A later area below the limit keeps its address, which `Malloc` may have given
  to an arena (`memview.go:281`; `GuestAssumption` leaves it out).

## Fairness

`Views` has weak fairness of each thread's calls (`FairSpec`): a thread that has
started a growth or a transfer goes on, since it runs host or runtime code that
blocks on nothing but `GodMu`.  Nothing makes a program start a call.
`LockReleased` says that who takes `GodMu` gives it back, unless the process
stops.  `LitterBox` has weak fairness of the next step of the computation of a
view (one thread, no blocking call); `ViewComputed` says that it ends, imports
being circular or not.

The others have none: there everything checked is safety, and a hook or an
allocation may always take longer.  Deadlock is checked in every run; the only
states without a step of a thread are a process that crashed, one with no
goroutine left (`Stop` in `EncSwitch`), a link that has ended (`Done` in
`Linker`), and a program at rest or stopped (`Rest` in `GuestMemory`, whose
threads need not map anything).

## Proofs

### VT-x switching

The theorems are for every number of goroutines, threads, vCPUs, enclosures and
every GOMAXPROCS, under `Limits`: no nested enclosures, and threads cloned from
g0 between goroutines.  Both are needed: without the first an outer `Epilog`
fails its check of the id, without the second the run `EncSwitchClone` is a
counterexample.  The constants' assumptions
are `IdAssumption` and `BoundAssumption` in `EncSwitch`.

`EncSwitchProofs` proves `[]IInv`, where `IInv` strengthens the type invariant
by:

* `StopInv`: once crashed, every thread is stopped, and the crash is the pool's;
* `RunInv`: a goroutine runs on one thread, and on that only while its status
  says so;
* `DepthInv`: with `MaxDepth` at most one, a goroutine in an enclosure it was
  created in has no frames, and one outside at most one;
* `IdInv`: which of the three ids agree at each `pc`, and with what;
* `ViewInv`: at each `pc`, what CR3 and the attributes of the thread's vCPU are
  in terms of the thread's id, which is why `Execute` may return early when the
  ids match;
* `OwnInv`: a vCPU is User or Guest exactly for the thread that holds it.

None of `Confined`, `FilterMatches`, `SbIdsFollow` or `SbIdsAgree` is inductive:
a thread between goroutines has a view and ids that only matter when a
goroutine is next put on it, and the invariants say nothing of those.  There is
a lemma per action; theorems `TypeCorrect`, `Confinement`, `Filtering`,
`IdsFollow`, `IdsAgree`, `Exclusion` and `NoFailedCheck` follow from it.

Its last part proves `Spec => Enclosed` (`Implements`): each action maps to an
abstract action or a stutter, with `IInv` to say what the thread sees.

### MPK switching

The second part of `MPKProofs` proves an inductive invariant of the same kind: ids agree at
each `pc`, a thread that runs a goroutine has the PKRU of the goroutine's
domain, and a thread between goroutines may have anything, since `Execute`
always writes.  `Implements` is `Spec => Enclosed`.  The only limit is
`MaxDepth` at most one: `Epilog` gives all rights, so with nesting the outer
enclosure would go on with them.  Cloning under a goroutine needs no
limit here.

### MPK keys

The first part of `MPKProofs` has no limit beside `MPKAssumption`: packages and enclosures
are finite in number, and rights are those the configuration can state.  The
invariant follows the stages of initialisation:

* `ShapeInv`, `IdsInv`: types, and what `rtIds` says once a package has an id:
  two packages with one id have the same view in every enclosure;
* `GroupsInv`: `sbProts` has, for an enclosure, exactly the groups it sees, each
  with the protection of every member, and every viewed package but the runtime
  is in a group or still left;
* `KeysInv`: keys go to groups in order, and a section has the key of a group
  that its package is in;
* `HeapInv`: a page has the key of the package its span is for, if that has one,
  and key 0 if it is the runtime's.

`SectionsProtected` follows from the groups and keys.  `HeapProtected` also
needs that the two groupings agree: equal rights in the configuration give
equal MPK protection, so packages with one heap id have one key.  `KindsInv`
says in addition that groups are of different kinds; `KeysSuffice` then maps
groups one to one to the kinds of packages and compares cardinalities.

### MPK keys and switching together

`ThreadsContained` is about `KeysSpec /\ Spec`, where the heap hands out pages
while the scheduler moves goroutines: a thread that runs a goroutine of an
enclosure has that enclosure's value in its register, and this value grants, on
the sections of every package that some enclosure sees and on every heap page
that may hold its objects, exactly the reading and writing that the enclosure's
view allows (a PKRU value cannot forbid execution).  `Enclosed` alone speaks of names of
values, and `SectionsMatchViews` and `HeapMatchesViews` of values no thread has
yet.  It needs the invariants of both halves; no run composes them.

### Memory areas

`VMAreasProofs`, from `VMAssumption` (the numbers are positive, and the mark
`NONE` of a page without rights is not itself a set of rights): for lists of any
length, any number of them, any size and number of pages and any rights.

Every operation is a loop, so what it computes needs induction, and the
library's induction theorems take a predicate, which cannot be given here.  The
module has its own principle instead, about a *set* of numbers: `Least` is
well-foundedness of `<` (a set without a least element is empty), from which
`Naturals` and `Upto` follow.  The set is that of the numbers of turns after
which something holds.  `RunExists` and `RunIs` say that a loop whose turns keep
a type has one run; `CoalesceTurns`, `TrimTurns`, `MapAllTurns`, `UnmapAllTurns`
and `MirrorTurns` apply them to the five loops.

The argument is in terms of the addresses a list has (`Has(list, x, q)`: some
area of it has address `x` and rights `q`):

* `Canon`: the areas are sorted, disjoint, and neighbours that touch differ in
  their rights.  `Good` adds that areas are whole pages inside the bound.
  The invariant `IInv` is that every list is `Good`.
* `CoalesceIs`: a sorted list becomes `Canon` with the same addresses, or two of
  its areas clash, and then it panics.  `MapInIs` follows with `PositionIs`.
* `TrimIs` and `UnmapIs`: what is left is what the area has not, also when an area
  is split, and mapping the upper half never panics.
* `MapAllIs`, `UnmapAllIs`, `MirrorIs`: the same of the loops over another list.
* `SortedIs` and `LoadGood`: in whatever order areas with one address are sorted,
  the list has the same addresses, and it panics or not.
* `RightsAre` and the lemmas after it: from addresses to pages.

`Canonical` is not inductive: it does not say that areas start and end on pages,
nor that those further apart are disjoint.  `Implements` has a step per action;
a panic is a step of `PageMaps` in which two ranges disagree on a page.
`OneListPerMap` adds that the refinement mapping loses nothing: lists with the
same rights on every page are equal, since of two areas that begin alike the
shorter would have to be followed by one it should have been merged with
(`EndsAlike`).

### Address spaces

`ViewsProofs`, from `ViewsAssumption` (every enclosure sees the runtime with at
least the rights of the heap, as every package depends on it).  Two parts:

* `PageInv`: no two threads have one page in hand (`HandInv`), as a page has one
  owner and is handed over by the thread that holds its span, so what a
  `Transfer` has done so far to the entries of its page (`Trans`) survives the
  steps of others.  `PagesFollowOwner` says nothing of a page in hand and needs
  `Trans` to say it again when the page is put down; `NeverExposed` follows.
* `RegionInv`: an area that God's space has and a view lacks is one that a
  thread has still to add to that view (`Covered`), and none is added to a view
  before God's space has it (`InGod`); `BootInv` says that nothing is added
  before the views exist.  `ViewsWithinGod` and `ViewsConsistent` follow.

### Dynamic backend

`LitterBoxProofs`, from `LitterBoxAssumption`.  `ViewInv` is the invariant of the
worklist: roots are known, what is known is reachable, and what a finished
package depends on is known, so an empty worklist leaves the closure.  `SectInv`
says whose each area is, and that God's space has all that is in use, so a space
copied from it is right at the start.  `Confined` itself is part of the
invariant, as `memview` decides where a section added later goes; `BuiltInv`
says that spaces exist only once the thread is in the VM.

### Guest physical memory

`GuestMemoryProofs`, from `GuestAssumption` (areas do not overlap, and those
mapped later are above the limit, where `mmap` puts them).

* `AllocInv`: free areas are apart from each other, from what is given and from
  the areas below the limit.  `Malloc` gives a part of a free area and leaves the
  rest (lemma `Carve`), so `Disjoint` keeps.
* `ArenaInv`: an arena that is not dirty and made before the machine is mapped in
  every space that is not just being made, and has its slot; a new one is dirty
  until `UpdateEPTSlots` has dealt with it.  Arenas appear while they are mapped,
  which is why the loop's end (`dirty = {}`) matters and not that it ran.  In the
  static backend none appears once there is a machine (`Danger`).
* `StageInv`, `CopyInv`, `SlotInv`: which spaces exist and have a region at each
  stage, that theirs have God's address, and that KVM has God's.

`TablesReachable` needs, for the last space, the check in `MapArenas` that God's
space has all arenas too.

### Heap

`SpanHeapProofs`, from `HeapAssumption`.  The page heap is a value that the
operations take and return, so the lemmas about merging, splitting, growing and
scavenging are about operators: each keeps `Part` (the live spans partition the
arena below `brk`, the free list has the other descriptors, once each) and
`Apart` (no two free spans that could be merged side by side).  With as many
descriptors as pages a pigeonhole argument gives that the free list is not
empty when one is taken.  `ClaimInv`, `LockInv` and `VarInv` say what a thread in
the middle of `mallocgc` has a claim on: the span in its hand is in its own cache
or large, and in no other hand, so no other thread splits, sweeps or registers
it.  `CleanInv` says that the span to be registered is the one in hand, at the
lock depth of its `mallocgc`.  `Registered` alone is not inductive: it does not say at
which depth a pending registration will be done, nor for which span.
`Homogeneous` is part of the invariant, and keeps only with `ClaimInv`.
`OneCachedSpan` counts spans; `OneInv` says the same without a cardinality.
`NoThrow` and `MapsOnlyOwned` follow from `CleanInv`; the latter also needs what a
transfer does to the views of one page (`TransferIs`).

### Linker

`LinkerProofs`, from `LinkerAssumption` and `OwnerAssumption` (owners of
different kinds are different, names are ordered, gosb imports the runtime, the
text begins a segment).

* `BloatInv`: while calls are to be made, every import of a name in `Bloats` is in
  `Bloats` or called for.  At the end `Bloats` is closed under imports and has
  the runtime, so the second walk finds each package, also for a name that
  reads the id 0.
* `DomainInv`: the same of the walk of one domain, and that every closed set has
  all that is seen or called for; `Settled` is the result, `DomainsRight`.
* `OrderInv`: what of the current kind can have been placed before the current
  group, from which a new group has nothing yet: the symbols of a package are
  contiguous.
* `BehindInv`, `ApartInv`, `HoldsInv`: the current group lies behind all else,
  sections are apart but where trusted symbols begin a kind, a page is in the
  section of each symbol it holds.  `SeesOnlyDomain` and `Attributed` compare
  two sections that have one page.

### Only model-checked

Liveness (`LockReleased`, `ViewComputed`) is, as `ENABLED` is out of the provers'
reach.  So are the three properties of the runs that expect a violation.  Every
other property of a run is proved.

## Not modelled, and why

In `EncSwitch`: the run queues and stealing (any runnable goroutine may be
picked, a superset), thread locking and the template thread, signals, page
faults, statistics, `tryInHost`.  `MaxDepth` bounds what a program may nest.  In
`SpanHeap`: the mark phase (any object may be found dead once nobody allocates
from its span, a superset), list order (any span the loops accept), the tiny
allocator (a cached span with a finer cursor), manually managed spans, more than
one size class, huge pages, the rights with which a view maps a page (`Views` has
them), arenas (the one arena is mapped for the runtime from
the start, as `sysReserve` reports it), the throws about id -1.  `m.nester` and
`span.oldid` are reset when they lose their meaning.

In `MPKKeys`: the section of `main.main.stkobj`, which every enclosure's own
package lists and the last one tagged keeps, and rounding of sections that share
a page; views are taken to give the runtime in full, as its memory has key 0 for
everybody; spans keep their ids (`SpanHeap` shows when they do not), and a
transfer is not deferred; `Register`, which `setId` never reaches, as every caller
moves the span.  In `MPKSwitch`: as in `EncSwitch`, and ids unknown to the
backend, which hooks ignore with a message.  In `VMAreas`: the pointers of the
doubly linked list, sections that do not start on a page (rejected by a panic),
the `USER_VAL` bit, the panic in the middle of a `MapArea` (the process is gone).

In `Views`: what `GuestMemory` models, page faults (the handler throws; what
would map a page on demand is commented out); mappings that fail or are placed
elsewhere than asked; a stale old id: a transfer names the page's last owner,
which `SpanHeapStale` shows the heap does not always do, so `PagesFollowOwner`
and `NeverExposed` say what the backend does with calls that are right; `Transfer` and the growth see a heap page's entries, not
the entries of an area.  The model has the panics that races of the start
lead to (a delayed growth that finds no slot, a second region for one area, a
descriptor without bitmap), but the properties speak of a process that runs on.

In `GuestMemory`: which page tables a mapping takes and their entries, rights,
the return of memory (nothing is freed), `UpdateMissing` (never called), growth
while a space is being made (the static backend queues it, as in `Views`; the
dynamic one has one thread), a later area below the limit, where its address may
already be given away.

In `LitterBox`: names that stand for a longer one by their suffix, names that
are registered twice, the helpers for reference counts, what the collector
touches in God's space, system-call filters, the dynamic MPK backend (a stub: it
writes no PKRU and allocates no key), the reuse
of an address after `munmap`, the assertion of `mh_stack_pop`, which a release
build drops.

In `Linker`: rights and their encoding, symbols inside others and empty ones,
trampolines, the text sections of an external linker, `updateTrusted`, an
enclosure without a function in the symbol table.  `runtime/cgo2` has pages
although it is no package; that gosb imports the runtime (`gosb/gosb.go:11`) is
an assumption, without which its walk would stop the link.

The rest of the Go tool chain and of CPython, which the repository contains in
full, is not the subject: only what the enclosures changed is.

The components without a module are listed with reasons in `PROJECT.json`.

## Plan

Done: the VT-x and MPK hooks under the scheduler, the heap's spans, the MPK
keys, the areas, the address spaces and the guest physical memory under them,
the dynamic backend and the linker, with proofs of every safety property and the
three refinements.  Left, in this order:

1. `EncSwitch`: `tryRedpill` and `tryBluepill` (now only in `Views`), the
   system-call handler's use of the attributes and of the configured filters.
2. `Views` with `SpanHeap`: one specification in which `maps` is the page-table
   entries and the old id comes from the span, stale or not, instead of two with
   the same interface.  Failed mappings.
3. Proofs: that the free space `GuestMemory` starts from is what `Mirror` gives
   (`MirrorIsComplement`); and for VT-x what `ThreadsContained` is for MPK, from
   `Confined` and `PagesFollowOwner`.
