------------------------------ MODULE LitterBox ------------------------------
(***************************************************************************)
(* LitterBox, the library a Python interpreter calls to run code in an      *)
(* enclosure, over the dynamic VT-x backend.                                *)
(*                                                                          *)
(* Packages, their imports and their memory become known while the program  *)
(* runs.  The first Prolog of an enclosure computes what it sees from the   *)
(* imports known by then and builds its address space from God's; sections  *)
(* added later are mapped in the spaces that exist.  The interpreter leaves *)
(* the enclosure's space for a moment (SB_switch_rt, SB_switch_in) to touch *)
(* reference counts and to collect.  Everything runs on one thread.         *)
(*                                                                          *)
(* Abstracted: names are ids (a suffix that stands for a full name, and a   *)
(* name registered twice, are left out); the order of AllPackages; page     *)
(* tables, guest physical addresses and KVM slots; system call filters.     *)
(* The interpreter and its allocator are modelled from their calls.         *)
(***************************************************************************)
EXTENDS Naturals, Sequences

CONSTANTS
  Sandboxes,
  Pkgs,           \* packages, each with its name and its id
  MAIN,           \* "__main__", PythonFix
  PythonRuntime,  \* packages every enclosure gets the default rights on
  Conf,           \* the memory view in each enclosure's configuration
  Imports,        \* the dependencies the program may register
  SubOf,          \* the pairs of a package and one nested in it ("n." is a prefix)
  Deps,           \* the packages that may be registered as dependencies of each
  Areas,          \* areas of memory, each mapped once
  MaxNest,        \* how deep enclosures may nest
  MaxSwitch,      \* and how deep switches to God's space
  GOD, HOST,      \* God's address space, and the host's
  NOBODY, FREED, RT

Perms  == SUBSET {"R", "W", "X", "USER"}
DVal   == {"R", "W", "X", "USER"}   \* D_VAL
DefVal == {"R", "W", "X"}           \* DEF_VAL
Heap   == {"R", "W"}                \* HEAP_VAL

Views == UNION {[S -> Perms] : S \in SUBSET Pkgs}
NoView == [k \in {} |-> {}]

ASSUME LitterBoxAssumption ==
  /\ MAIN \in Pkgs /\ PythonRuntime \subseteq Pkgs
  /\ Conf \in [Sandboxes -> Views]
  /\ Imports \subseteq Pkgs \X Pkgs /\ SubOf \subseteq Pkgs \X Pkgs
  /\ Deps \in [Sandboxes -> SUBSET Pkgs]
  /\ MaxNest \in Nat /\ MaxSwitch \in Nat
  /\ GOD \notin Sandboxes /\ HOST \notin Sandboxes \cup {GOD}
  /\ NOBODY \notin Pkgs /\ FREED \notin Pkgs /\ RT \notin Pkgs
  /\ NOBODY # FREED /\ NOBODY # RT /\ FREED # RT

VARIABLES
  stack,    \* StackIds
  pkg,      \* what is registered of a package: nothing, its id ("module"), its name
  deps,     \* P2PDeps, as a set of pairs
  sects,    \* Sects of each package
  sstat,    \* an enclosure is unknown, registered or entered
  sdeps,    \* SandboxDeps
  cview,    \* Config.View
  iview,    \* View, by id
  pc,       \* whether the call in progress is computing a view
  toadd, result,
  owner,    \* whose each area of the process is
  god,      \* whether GodAS exists
  maps,     \* what each address space grants on an area
  built,    \* the enclosures with an address space (mv.Views)
  inside,   \* whether the thread is in the VM
  cr3, memview,
  switched, \* how many SB_switch_rt the program has not ended yet
  by,       \* history: the enclosure a package's area was added in
  crash

callVars == <<pc, toadd, result>>
pkgVars  == <<pkg, deps, sects>>
sbVars   == <<sstat, sdeps, cview, iview>>
memVars  == <<owner, by, god, maps, built>>
cpuVars  == <<inside, cr3, memview, switched>>
vars == <<stack, callVars, pkgVars, sbVars, memVars, cpuVars, crash>>

Spaces == Sandboxes \cup {GOD}

Init ==
  /\ stack = <<>>
  /\ pkg   = [k \in Pkgs |-> IF k = MAIN THEN "named" ELSE "none"]
  /\ deps  = {} /\ sects = [k \in Pkgs |-> {}]
  /\ sstat = [s \in Sandboxes |-> "none"] /\ sdeps = [s \in Sandboxes |-> {}]
  /\ cview = [s \in Sandboxes |-> NoView] /\ iview = [s \in Sandboxes |-> NoView]
  /\ pc    = "user" /\ toadd = {} /\ result = NoView
  /\ owner = [a \in Areas |-> NOBODY] /\ by = [a \in Areas |-> GOD]
  /\ god   = FALSE /\ built = {}
  /\ maps  = [v \in Spaces |-> [a \in Areas |-> {}]]
  /\ inside = FALSE /\ cr3 = HOST /\ memview = GOD /\ switched = 0
  /\ crash = "none"

\* The program makes a call (it makes one at a time).
Calls == crash = "none" /\ pc = "user"
Panic(why) == crash' = why

\* getid
Top == IF stack = <<>> THEN GOD ELSE stack[Len(stack)]
Named == {k \in Pkgs : pkg[k] = "named"}

-----------------------------------------------------------------------------
(* Registration.                                                            *)

\* DynRegisterId, under the name "module" first or at once under its own.
RegisterId(k, as) ==
  /\ Calls
  /\ \/ pkg[k] = "none"
     \/ pkg[k] = "module" /\ as = "named"
  /\ pkg' = [pkg EXCEPT ![k] = as]
  /\ UNCHANGED <<stack, callVars, deps, sects, sbVars, memVars, cpuVars, crash>>

AddDependency(e) ==
  /\ Calls /\ e \notin deps
  /\ deps' = deps \cup {e}
  /\ UNCHANGED <<stack, callVars, pkg, sects, sbVars, memVars, cpuVars, crash>>

RegisterSandbox(s) ==
  /\ Calls /\ sstat[s] = "none"
  /\ sstat' = [sstat EXCEPT ![s] = "registered"]
  /\ cview' = [cview EXCEPT ![s] =
                 [k \in DOMAIN Conf[s] \cup PythonRuntime |->
                    IF k \in DOMAIN Conf[s] THEN Conf[s][k] ELSE DVal]]
  /\ UNCHANGED <<stack, callVars, pkgVars, sdeps, iview, memVars, cpuVars, crash>>

RegisterSandboxDependency(s, k) ==
  /\ Calls /\ sstat[s] # "entered" /\ k \notin sdeps[s]
  /\ sdeps' = [sdeps EXCEPT ![s] = @ \cup {k}]
  /\ UNCHANGED <<stack, callVars, pkgVars, sstat, cview, iview, memVars, cpuVars,
                 crash>>

-----------------------------------------------------------------------------
(* Memory.                                                                  *)

\* Extend and Extend2: the area is mapped with the rights of the heap.
MapIn(vs, a) ==
  maps' = [v \in Spaces |-> IF v \in vs THEN [maps[v] EXCEPT ![a] = Heap]
                                        ELSE maps[v]]

\* A space that does not see the package gets the section only when the code
\* in it is the one adding it.
MapsSectionOwn(v, k) == memview = v
MapsSection(v, k) == k \in DOMAIN iview[v] \/ ~inside \/ memview = v

\* The allocator maps an arena for a package and has it registered.
AddSection(k, a) ==
  /\ Calls /\ owner[a] = NOBODY /\ pkg[k] # "none"
  /\ owner' = [owner EXCEPT ![a] = k]
  /\ by'    = [by EXCEPT ![a] = Top]
  /\ sects' = [sects EXCEPT ![k] = @ \cup {a}]
  /\ IF god THEN MapIn({GOD} \cup {v \in built : MapsSection(v, k)}, a)
            ELSE UNCHANGED maps
  /\ UNCHANGED <<stack, callVars, pkg, deps, sbVars, god, built, cpuVars, crash>>

\* ExtendSpace adds the area also to the Static of every enclosure, which is
\* nil until the enclosure is entered.
RegisterGrowth(a) ==
  /\ Calls /\ owner[a] = NOBODY
  /\ owner' = [owner EXCEPT ![a] = RT]
  /\ IF god THEN MapIn({GOD} \cup built, a) ELSE UNCHANGED maps
  /\ IF \E s \in Sandboxes : sstat[s] = "registered" THEN Panic("static")
                                                     ELSE UNCHANGED crash
  /\ UNCHANGED <<stack, callVars, pkgVars, sbVars, by, god, built, cpuVars>>

\* The allocator gives an arena back and tells nobody.
Munmap(a) ==
  /\ Calls /\ owner[a] \in Pkgs
  /\ owner' = [owner EXCEPT ![a] = FREED]
  /\ by'    = [by EXCEPT ![a] = GOD]
  /\ UNCHANGED <<stack, callVars, pkgVars, sbVars, god, maps, built, cpuVars,
                 crash>>

-----------------------------------------------------------------------------
(* Entering and leaving enclosures.                                         *)

\* dprolog: into the VM if the thread is not there, then the enclosure's space.
EnterKeepsView(s) == inside' = TRUE /\ cr3' = s /\ UNCHANGED memview
Enter(s) == inside' = TRUE /\ cr3' = s /\ memview' = s

PrologAgain(s) ==
  /\ Calls /\ sstat[s] = "entered" /\ Len(stack) < MaxNest /\ switched = 0
  /\ stack' = Append(stack, s)
  /\ Enter(s)
  /\ UNCHANGED <<callVars, pkgVars, sbVars, memVars, switched, crash>>

\* PNames, and fixDependencies: a package depends on those nested in it.
PNames == {k \in Pkgs : pkg[k] = "named" \/ \E e \in deps : k \in {e[1], e[2]}}
Nested == {e \in SubOf : e[1] \in PNames /\ e[2] \in PNames}

\* The first time, dependencies without a name are dropped and the view is
\* computed from the others and the packages the configuration names.
Prolog(s) ==
  /\ Calls /\ sstat[s] = "registered" /\ Len(stack) < MaxNest /\ switched = 0
  /\ stack' = Append(stack, s)
  /\ sdeps' = [sdeps EXCEPT ![s] = @ \cap Named]
  /\ deps'  = deps \cup Nested
  /\ pc'    = "view"
  /\ toadd' = sdeps'[s] \cup DOMAIN cview[s]
  /\ result' = NoView
  /\ UNCHANGED <<pkg, sects, sstat, cview, iview, memVars, cpuVars, crash>>

Extend(f, k, x) == [j \in DOMAIN f \cup {k} |-> IF j = k THEN x ELSE f[j]]
VisitedNever(k) == FALSE
Visited(k) == k \in DOMAIN result
DepsOfSwapped(k) == {j \in Pkgs : <<j, k>> \in deps}
DepsOf(k) == {j \in Pkgs : <<k, j>> \in deps}
Restricted(s, k) == IF k \in DOMAIN cview[s] THEN cview[s][k] ELSE DVal

\* ComputeMemoryView: one turn of its loop, on any name of toadd.
Visit(k) ==
  /\ crash = "none" /\ pc = "view" /\ k \in toadd
  /\ IF Visited(k)
     THEN toadd' = toadd \ {k} /\ UNCHANGED result
     ELSE /\ toadd'  = (toadd \ {k}) \cup DepsOf(k)
          /\ result' = Extend(result, k, Restricted(Top, k))
  /\ UNCHANGED <<stack, pc, pkgVars, sbVars, memVars, cpuVars, crash>>

\* The names of the view that have an id; __main__ with the default rights.
ById == [k \in (DOMAIN result \cap Named) \cup {MAIN} |->
           IF k = MAIN THEN DVal ELSE result[k]]

\* disablePkgs: what the space of an enclosure, a copy of God's, grants on the
\* sections of a package.
LeavesPkg(k) == /\ k \in Named
                /\ \/ k \in DOMAIN result /\ result[k] = DefVal
                   \/ k \in DOMAIN ById /\ ById[k] = DefVal
PkgRights(k) == IF k \in DOMAIN ById THEN ById[k] \ {"USER"} ELSE {}
Toggled == {k \in Pkgs : pkg[k] # "none" /\ ~LeavesPkg(k)}
Space(g) ==
  [a \in Areas |-> IF \E k \in Toggled : a \in sects[k]
                   THEN PkgRights(CHOOSE k \in Toggled : a \in sects[k])
                   ELSE g[a]]

\* InitializeGod maps what the process has.
GodSpace == IF god THEN maps[GOD]
            ELSE [a \in Areas |-> IF owner[a] \in {NOBODY, FREED} THEN {} ELSE Heap]

\* The rest of the first Prolog.  A section that was freed before God's space
\* was built is in no region: ToggleDyn panics.
BuildView ==
  LET s == Top
  IN  /\ crash = "none" /\ pc = "view" /\ toadd = {}
      /\ cview' = [cview EXCEPT ![s] = result]
      /\ iview' = [iview EXCEPT ![s] = ById]
      /\ sstat' = [sstat EXCEPT ![s] = "entered"]
      /\ god' = TRUE
      /\ IF \E k \in Toggled : \E a \in sects[k] : GodSpace[a] = {}
         THEN /\ Panic("toggle")
              /\ maps' = [maps EXCEPT ![GOD] = GodSpace]
              /\ UNCHANGED <<built, inside, cr3, memview>>
         ELSE /\ maps' = [maps EXCEPT ![GOD] = GodSpace, ![s] = Space(GodSpace)]
              /\ built' = built \cup {s}
              /\ Enter(s)
              /\ UNCHANGED crash
      /\ pc' = "user" /\ result' = NoView
      /\ UNCHANGED <<stack, toadd, pkgVars, sdeps, owner, by, switched>>

\* DEpilog: only the outermost enclosure can be left.
ToGodKeepsView == cr3' = GOD /\ UNCHANGED memview
ToGod == cr3' = GOD /\ memview' = GOD

Epilog ==
  /\ Calls /\ stack # <<>> /\ switched = 0
  /\ \/ /\ Len(stack) > 1
        /\ Panic("nested") /\ UNCHANGED <<stack, cr3, memview>>
     \/ /\ Len(stack) = 1
        /\ stack' = <<>> /\ ToGod /\ UNCHANGED crash
  /\ UNCHANGED <<callVars, pkgVars, sbVars, memVars, inside, switched>>

\* The interpreter works in God's space and comes back; the pairs nest when
\* code runs during a collection.
SwitchRt ==
  /\ Calls /\ stack # <<>> /\ switched < MaxSwitch
  /\ switched' = switched + 1
  /\ cr3' = IF inside THEN GOD ELSE cr3
  /\ UNCHANGED <<stack, callVars, pkgVars, sbVars, memVars, inside, memview, crash>>

\* DynGoBack
SwitchIn ==
  /\ Calls /\ switched > 0
  /\ switched' = switched - 1
  /\ cr3' = IF inside THEN memview ELSE cr3
  /\ UNCHANGED <<stack, callVars, pkgVars, sbVars, memVars, inside, memview, crash>>

-----------------------------------------------------------------------------
Call ==
  \/ \E k \in Pkgs, as \in {"module", "named"} : RegisterId(k, as)
  \/ \E e \in Imports : AddDependency(e)
  \/ \E s \in Sandboxes : \/ RegisterSandbox(s) \/ Prolog(s) \/ PrologAgain(s)
                          \/ \E k \in Deps[s] : RegisterSandboxDependency(s, k)
  \/ \E a \in Areas : \/ \E k \in Pkgs : AddSection(k, a)
                      \/ RegisterGrowth(a) \/ Munmap(a)
  \/ Epilog \/ SwitchRt \/ SwitchIn

\* What a call does once begun.
Step == (\E k \in Pkgs : Visit(k)) \/ BuildView

\* The program may end at any call, and a failed check ends it.
Stop == (pc = "user" \/ crash # "none") /\ UNCHANGED vars

Next == Call \/ Step \/ Stop

Spec == Init /\ [][Next]_vars
FairSpec == Spec /\ WF_vars(Step)

-----------------------------------------------------------------------------
(* Properties.                                                              *)

TypeOK ==
  /\ stack \in Seq(Sandboxes)
  /\ pkg \in [Pkgs -> {"none", "module", "named"}]
  /\ deps \subseteq Pkgs \X Pkgs
  /\ sects \in [Pkgs -> SUBSET Areas]
  /\ sstat \in [Sandboxes -> {"none", "registered", "entered"}]
  /\ sdeps \in [Sandboxes -> SUBSET Pkgs]
  /\ cview \in [Sandboxes -> Views] /\ iview \in [Sandboxes -> Views]
  /\ pc \in {"user", "view"} /\ toadd \subseteq Pkgs /\ result \in Views
  /\ owner \in [Areas -> Pkgs \cup {NOBODY, FREED, RT}]
  /\ god \in BOOLEAN /\ built \subseteq Sandboxes
  /\ maps \in [Spaces -> [Areas -> SUBSET DefVal]]
  /\ inside \in BOOLEAN
  /\ cr3 \in Spaces \cup {HOST} /\ memview \in Spaces /\ switched \in Nat
  /\ by \in [Areas -> Spaces]
  /\ crash \in {"none", "static", "toggle", "nested"}

\* Code of an enclosure runs in its own address space, or in God's while the
\* interpreter has asked for it; code outside in neither an enclosure's space
\* nor one an earlier enclosure has left behind (dprolog, DEpilog, DynToGod,
\* DynGoBack, and the Memview they go by).
Confined ==
  crash = "none" /\ pc = "user" =>
    IF stack = <<>> THEN memview = GOD /\ cr3 = IF inside THEN GOD ELSE HOST
    ELSE /\ inside /\ memview = Top
         /\ cr3 = Top \/ (cr3 = GOD /\ switched > 0)

\* The view computed for an enclosure has exactly the packages its own ones and
\* those of its configuration depend on, through any chain of imports, and the
\* configured rights on them, whatever order the loop takes them in.
Closed(S) == \A e \in deps : e[1] \in S => e[2] \in S
Roots == sdeps[Top] \cup DOMAIN cview[Top]
Reachable == {k \in Pkgs : \A S \in SUBSET Pkgs : Roots \subseteq S /\ Closed(S) => k \in S}
ViewComplete ==
  pc = "view" /\ toadd = {} => result = [k \in Reachable |-> Restricted(Top, k)]

\* An enclosure's space has no section of a package the enclosure does not see,
\* unless the enclosure's own code added it (AddSection from any place, before
\* or after the space is built; it relies on Memview being reset on the way out).
SeesOnly ==
  \A s \in built, a \in Areas :
    maps[s][a] # {} /\ owner[a] \in Pkgs => owner[a] \in DOMAIN iview[s] \/ by[a] = s

\* It has every section of a package it sees, with all the rights it has on the
\* package, and what the runtime mapped, whether it was added before God's space
\* was built, before this one or after.
SeesAll ==
  \A s \in built, a \in Areas :
    /\ owner[a] = RT => maps[s][a] = Heap
    /\ owner[a] \in DOMAIN iview[s] =>
         iview[s][owner[a]] \cap Heap \subseteq maps[s][a]

\* The computation of a view ends, imports in circles included.
ViewComputed == pc = "view" ~> pc = "user"
=============================================================================
