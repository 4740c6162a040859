--------------------------- MODULE LitterBoxProofs ---------------------------
(***************************************************************************)
(* Proofs about LitterBox: the types, which space the code of an enclosure  *)
(* runs in, the view computed for it and what its address space has, for    *)
(* any packages, imports, configurations, enclosures and areas.             *)
(*                                                                          *)
(* The loop that computes a view never leaves the packages reachable from   *)
(* its roots and never forgets one it must still visit (ViewInv).  An area  *)
(* is the section of one package at most, and God's space has all that is   *)
(* in use (SectInv), so a space copied from it is right from the start; it  *)
(* stays so because Memview is the space of the code that adds a section    *)
(* (Confined), and spaces exist only once the thread is in the VM           *)
(* (BuiltInv).                                                              *)
(***************************************************************************)
EXTENDS LitterBox, TLAPS

StackInv ==
  /\ stack = <<>> => switched = 0
  /\ pc = "view" => /\ crash = "none" /\ stack # <<>> /\ switched = 0
                    /\ sstat[Top] = "registered"

Known == DOMAIN result \cup toadd
ViewInv ==
  pc = "view" =>
    /\ Roots \subseteq Known /\ Known \subseteq Reachable
    /\ \A k \in DOMAIN result : DepsOf(k) \subseteq Known
    /\ \A k \in DOMAIN result : result[k] = Restricted(Top, k)

SectInv ==
  \A a \in Areas :
    /\ owner[a] \in Pkgs => a \in sects[owner[a]] /\ pkg[owner[a]] # "none"
    /\ \A k \in Pkgs : a \in sects[k] => owner[a] \in {k, FREED}
    /\ owner[a] = NOBODY => \A v \in Spaces : maps[v][a] = {}
    /\ god /\ owner[a] \in Pkgs \cup {RT} => maps[GOD][a] = Heap

BuiltInv ==
  /\ built # {} => god /\ inside
  /\ \A s \in built : sstat[s] = "entered"

IInv == /\ TypeOK /\ StackInv /\ Confined /\ ViewInv
        /\ SectInv /\ BuiltInv /\ SeesOnly /\ SeesAll

-----------------------------------------------------------------------------
(* Types.                                                                   *)

LEMMA ViewType ==
  ASSUME NEW f \in Views
  PROVE  /\ DOMAIN f \subseteq Pkgs /\ f = [k \in DOMAIN f |-> f[k]]
         /\ \A k \in DOMAIN f : f[k] \in Perms
<1> PICK S \in SUBSET Pkgs : f \in [S -> Perms] BY DEF Views
<1> QED OBVIOUS

LEMMA IsView ==
  ASSUME NEW S \in SUBSET Pkgs, NEW f \in [S -> Perms] PROVE f \in Views
  BY DEF Views

LEMMA NoViewType == NoView \in Views
<1>1. NoView \in [{} -> Perms] BY DEF NoView
<1> QED BY <1>1, IsView

LEMMA TopType ==
  ASSUME TypeOK, stack # <<>> PROVE Top \in Sandboxes
  BY DEF TypeOK, Top

LEMMA ExtendType ==
  ASSUME NEW f \in Views, NEW k \in Pkgs, NEW x \in Perms
  PROVE  Extend(f, k, x) \in Views
<1>1. DOMAIN f \cup {k} \in SUBSET Pkgs BY ViewType
<1>2. Extend(f, k, x) \in [DOMAIN f \cup {k} -> Perms] BY ViewType DEF Extend
<1> QED BY <1>1, <1>2, IsView

LEMMA RestrictedType ==
  ASSUME TypeOK, NEW s \in Sandboxes, NEW k \in Pkgs
  PROVE  Restricted(s, k) \in Perms
<1>1. cview[s] \in Views BY DEF TypeOK
<1>2. DVal \in Perms BY DEF DVal, Perms
<1> QED BY <1>1, <1>2, ViewType DEF Restricted

LEMMA ByIdType == ASSUME TypeOK PROVE ById \in Views
<1>1. result \in Views BY DEF TypeOK
<1>2. DVal \in Perms BY DEF DVal, Perms
<1>3. (DOMAIN result \cap Named) \cup {MAIN} \in SUBSET Pkgs
  BY <1>1, ViewType, LitterBoxAssumption
<1>4. ById \in [(DOMAIN result \cap Named) \cup {MAIN} -> Perms]
  BY <1>1, <1>2, ViewType DEF ById
<1> QED BY <1>3, <1>4, IsView

LEMMA PkgRightsType ==
  ASSUME TypeOK, NEW k PROVE PkgRights(k) \in SUBSET DefVal
<1>1. ById \in Views BY ByIdType
<1> QED BY <1>1, ViewType DEF PkgRights, DefVal, Perms

LEMMA GodSpaceType == ASSUME TypeOK PROVE GodSpace \in [Areas -> SUBSET DefVal]
<1>1. Heap \in SUBSET DefVal BY DEF Heap, DefVal
<1>2. maps[GOD] \in [Areas -> SUBSET DefVal] BY DEF TypeOK, Spaces
<1> QED BY <1>1, <1>2 DEF GodSpace

LEMMA SpaceType ==
  ASSUME TypeOK, NEW g \in [Areas -> SUBSET DefVal]
  PROVE  Space(g) \in [Areas -> SUBSET DefVal]
<1>1. \A k : PkgRights(k) \in SUBSET DefVal BY PkgRightsType
<1> QED BY <1>1 DEF Space

LEMMA MapInType ==
  ASSUME TypeOK, NEW vs, NEW a \in Areas, MapIn(vs, a)
  PROVE  maps' \in [Spaces -> [Areas -> SUBSET DefVal]]
<1>1. Heap \in SUBSET DefVal BY DEF Heap, DefVal
<1> QED BY <1>1 DEF MapIn, TypeOK

LEMMA TypeInit == Init => TypeOK
<1> SUFFICES ASSUME Init PROVE TypeOK
  OBVIOUS
<1>1. NoView \in Views BY NoViewType
<1>2. /\ cview \in [Sandboxes -> Views] /\ iview \in [Sandboxes -> Views]
      /\ result \in Views
  BY <1>1 DEF Init
<1>3. /\ maps \in [Spaces -> [Areas -> SUBSET DefVal]]
      /\ by \in [Areas -> Spaces] /\ cr3 \in Spaces \cup {HOST} /\ memview \in Spaces
  BY DEF Init, Spaces
<1>4. /\ pkg \in [Pkgs -> {"none", "module", "named"}]
      /\ sects \in [Pkgs -> SUBSET Areas] /\ deps \subseteq Pkgs \X Pkgs
      /\ owner \in [Areas -> Pkgs \cup {NOBODY, FREED, RT}]
      /\ toadd \subseteq Pkgs
  BY DEF Init
<1>5. /\ sstat \in [Sandboxes -> {"none", "registered", "entered"}]
      /\ sdeps \in [Sandboxes -> SUBSET Pkgs] /\ built \subseteq Sandboxes
      /\ stack \in Seq(Sandboxes)
  BY DEF Init
<1> QED BY <1>2, <1>3, <1>4, <1>5 DEF Init, TypeOK

\* What registration leaves alone.
StaysPut == UNCHANGED <<stack, callVars, memVars, cpuVars, crash>>

LEMMA TypeRegister ==
  ASSUME TypeOK,
         \/ \E k \in Pkgs, as \in {"module", "named"} : RegisterId(k, as)
         \/ \E e \in Imports : AddDependency(e)
         \/ \E s \in Sandboxes : \/ RegisterSandbox(s)
                                 \/ \E k \in Deps[s] : RegisterSandboxDependency(s, k)
  PROVE  TypeOK' /\ StaysPut
<1> USE DEF StaysPut, callVars, pkgVars, sbVars, memVars, cpuVars
<1>1. ASSUME NEW k \in Pkgs, NEW as \in {"module", "named"}, RegisterId(k, as)
      PROVE  TypeOK' /\ StaysPut
  BY <1>1 DEF RegisterId, TypeOK
<1>2. ASSUME NEW e \in Imports, AddDependency(e) PROVE TypeOK' /\ StaysPut
  BY <1>2, LitterBoxAssumption DEF AddDependency, TypeOK
<1>3. ASSUME NEW s \in Sandboxes, RegisterSandbox(s) PROVE TypeOK' /\ StaysPut
  <2> DEFINE f == [k \in DOMAIN Conf[s] \cup PythonRuntime |->
                     IF k \in DOMAIN Conf[s] THEN Conf[s][k] ELSE DVal]
  <2>1. f \in Views
    <3>1. Conf[s] \in Views BY LitterBoxAssumption
    <3>2. DVal \in Perms BY DEF DVal, Perms
    <3>3. DOMAIN Conf[s] \cup PythonRuntime \in SUBSET Pkgs
      BY <3>1, ViewType, LitterBoxAssumption
    <3>4. f \in [DOMAIN Conf[s] \cup PythonRuntime -> Perms] BY <3>1, <3>2, ViewType
    <3> QED BY <3>3, <3>4, IsView
  <2>2. cview' = [cview EXCEPT ![s] = f] BY <1>3 DEF RegisterSandbox
  <2> HIDE DEF f
  <2>3. cview' \in [Sandboxes -> Views] BY <2>1, <2>2 DEF TypeOK
  <2> QED BY <1>3, <2>3 DEF RegisterSandbox, TypeOK
<1>4. ASSUME NEW s \in Sandboxes, NEW k \in Deps[s], RegisterSandboxDependency(s, k)
      PROVE  TypeOK' /\ StaysPut
  <2>1. k \in Pkgs BY LitterBoxAssumption
  <2> QED BY <1>4, <2>1 DEF RegisterSandboxDependency, TypeOK
<1> QED BY <1>1, <1>2, <1>3, <1>4

LEMMA TypeMemory ==
  ASSUME TypeOK, NEW a \in Areas,
         (\E k \in Pkgs : AddSection(k, a)) \/ RegisterGrowth(a) \/ Munmap(a)
  PROVE  TypeOK'
<1> USE DEF callVars, pkgVars, sbVars, memVars, cpuVars
<1>1. ASSUME NEW k \in Pkgs, AddSection(k, a) PROVE TypeOK'
  <2>1. maps' \in [Spaces -> [Areas -> SUBSET DefVal]]
    BY <1>1, MapInType DEF AddSection, TypeOK
  <2>2. Top \in Spaces BY TopType DEF Top, Spaces
  <2> QED BY <1>1, <2>1, <2>2 DEF AddSection, TypeOK
<1>2. CASE RegisterGrowth(a)
  <2>1. maps' \in [Spaces -> [Areas -> SUBSET DefVal]]
    BY <1>2, MapInType DEF RegisterGrowth, TypeOK
  <2> QED BY <1>2, <2>1 DEF RegisterGrowth, Panic, TypeOK
<1>3. CASE Munmap(a) BY <1>3 DEF Munmap, TypeOK, Spaces
<1> QED BY <1>1, <1>2, <1>3

LEMMA TypeProlog ==
  ASSUME TypeOK, NEW s \in Sandboxes, Prolog(s) \/ PrologAgain(s)
  PROVE  TypeOK' /\ stack' # <<>> /\ Top' = s
<1> USE DEF callVars, pkgVars, sbVars, memVars, cpuVars
<1>1. stack' = Append(stack, s) BY DEF Prolog, PrologAgain
<1>2. stack' \in Seq(Sandboxes) /\ stack' # <<>> /\ Top' = s
  BY <1>1 DEF TypeOK, Top
<1>3. CASE PrologAgain(s)
  BY <1>2, <1>3 DEF PrologAgain, Enter, TypeOK, Spaces
<1>4. CASE Prolog(s)
  <2>1. sdeps' \in [Sandboxes -> SUBSET Pkgs] BY <1>4 DEF Prolog, TypeOK
  <2>2. deps' \subseteq Pkgs \X Pkgs
    BY <1>4, LitterBoxAssumption DEF Prolog, TypeOK, Nested
  <2>3. toadd' \subseteq Pkgs
    <3>1. cview[s] \in Views BY DEF TypeOK
    <3> QED BY <1>4, <2>1, <3>1, ViewType DEF Prolog
  <2>4. result' \in Views BY <1>4, NoViewType DEF Prolog
  <2> QED BY <1>2, <1>4, <2>1, <2>2, <2>3, <2>4 DEF Prolog, TypeOK
<1> QED BY <1>2, <1>3, <1>4

LEMMA TypeVisit ==
  ASSUME TypeOK, StackInv, NEW k \in Pkgs, Visit(k) PROVE TypeOK'
<1> USE DEF callVars, pkgVars, sbVars, memVars, cpuVars
<1>1. toadd' \subseteq Pkgs BY DEF Visit, DepsOf, TypeOK
<1>2. result' \in Views
  <2>1. Top \in Sandboxes BY TopType DEF Visit, StackInv
  <2>2. Restricted(Top, k) \in Perms BY <2>1, RestrictedType
  <2>3. result \in Views BY DEF TypeOK
  <2> QED BY <2>2, <2>3, ExtendType DEF Visit
<1> QED BY <1>1, <1>2 DEF Visit, TypeOK

LEMMA TypeBuild == ASSUME TypeOK, StackInv, BuildView PROVE TypeOK'
<1> USE DEF callVars, pkgVars, sbVars, memVars, cpuVars
<1>1. Top \in Sandboxes BY TopType DEF BuildView, StackInv
<1>2. GodSpace \in [Areas -> SUBSET DefVal] BY GodSpaceType
<1>3. Space(GodSpace) \in [Areas -> SUBSET DefVal] BY <1>2, SpaceType
<1>4. maps' \in [Spaces -> [Areas -> SUBSET DefVal]]
  <2> DEFINE g == GodSpace
             n == Space(GodSpace)
  <2>1. \/ maps' = [maps EXCEPT ![GOD] = g]
        \/ maps' = [maps EXCEPT ![GOD] = g, ![Top] = n]
    BY DEF BuildView
  <2> HIDE DEF g, n
  <2> QED BY <1>2, <1>3, <2>1 DEF TypeOK, g, n
<1>5. result \in Views /\ ById \in Views /\ NoView \in Views
  BY ByIdType, NoViewType DEF TypeOK
<1>6. cview' \in [Sandboxes -> Views] /\ iview' \in [Sandboxes -> Views]
  BY <1>5 DEF BuildView, TypeOK
<1>7. /\ built' \subseteq Sandboxes /\ inside' \in BOOLEAN
      /\ cr3' \in Spaces \cup {HOST} /\ memview' \in Spaces
      /\ crash' \in {"none", "static", "toggle", "nested"}
  BY <1>1 DEF BuildView, Panic, Enter, Spaces, TypeOK
<1> QED BY <1>4, <1>5, <1>6, <1>7 DEF BuildView, TypeOK

LEMMA TypeSwitch ==
  ASSUME TypeOK, Epilog \/ SwitchRt \/ SwitchIn PROVE TypeOK'
<1> USE DEF callVars, pkgVars, sbVars, memVars, cpuVars, Spaces
<1>1. CASE Epilog
  <2>1. stack' \in Seq(Sandboxes)
    <3>1. stack' = stack \/ stack' = <<>> BY <1>1 DEF Epilog
    <3>2. <<>> \in Seq(Sandboxes) OBVIOUS
    <3> QED BY <3>1, <3>2 DEF TypeOK
  <2>2. cr3' \in Spaces \cup {HOST} /\ memview' \in Spaces
    BY <1>1 DEF Epilog, ToGod, TypeOK
  <2>3. crash' \in {"none", "static", "toggle", "nested"}
    BY <1>1 DEF Epilog, Panic, TypeOK
  <2> QED BY <1>1, <2>1, <2>2, <2>3 DEF Epilog, TypeOK
<1>2. CASE SwitchRt BY <1>2 DEF SwitchRt, TypeOK
<1>3. CASE SwitchIn
  <2>1. switched' \in Nat BY <1>3 DEF SwitchIn, TypeOK
  <2>2. cr3' \in Spaces \cup {HOST} BY <1>3 DEF SwitchIn, TypeOK
  <2> QED BY <1>3, <2>1, <2>2 DEF SwitchIn, TypeOK
<1> QED BY <1>1, <1>2, <1>3

-----------------------------------------------------------------------------
(* Where the thread executes.                                               *)

LEMMA WhereFrame ==
  ASSUME StackInv, Confined, UNCHANGED <<stack, pc, cpuVars, crash>>,
         pc = "view" => UNCHANGED sstat
  PROVE  StackInv' /\ Confined'
  BY DEF StackInv, Confined, Top, cpuVars

LEMMA WhereProlog ==
  ASSUME TypeOK, StackInv, Confined, NEW s \in Sandboxes, Prolog(s) \/ PrologAgain(s)
  PROVE  StackInv' /\ Confined'
<1>1. TypeOK' /\ stack' # <<>> /\ Top' = s BY TypeProlog
<1>2. CASE Prolog(s)
  BY <1>1, <1>2 DEF Prolog, Calls, StackInv, Confined, cpuVars
<1>3. CASE PrologAgain(s)
  BY <1>1, <1>3 DEF PrologAgain, Enter, Calls, callVars, StackInv, Confined
<1> QED BY <1>2, <1>3

LEMMA WhereBuild ==
  ASSUME TypeOK, StackInv, Confined, BuildView PROVE StackInv' /\ Confined'
<1>1. stack # <<>> /\ switched = 0 /\ stack' = stack /\ switched' = 0 /\ pc' = "user"
  BY DEF BuildView, StackInv
<1>2. crash' = "none" => inside' /\ cr3' = Top /\ memview' = Top
  BY DEF BuildView, Panic, Enter
<1>3. Top' = Top BY <1>1 DEF Top
<1> QED BY <1>1, <1>2, <1>3 DEF StackInv, Confined

LEMMA WhereSwitch ==
  ASSUME TypeOK, StackInv, Confined, Epilog \/ SwitchRt \/ SwitchIn
  PROVE  StackInv' /\ Confined'
<1>1. crash = "none" /\ pc = "user" /\ pc' = "user" /\ inside' = inside
  BY DEF Epilog, SwitchRt, SwitchIn, Calls, callVars
<1>2. CASE Epilog
  <2>1. CASE Panic("nested") /\ stack' = stack
    <3>1. crash' # "none" /\ switched' = 0 BY <1>2, <2>1 DEF Epilog, Panic
    <3> QED BY <1>1, <3>1 DEF StackInv, Confined
  <2>2. CASE Len(stack) = 1
    <3>1. stack # <<>> BY <1>2 DEF Epilog
    <3> QED BY <1>1, <1>2, <2>2, <3>1 DEF Epilog, ToGod, StackInv, Confined
  <2> QED BY <1>2, <2>1, <2>2 DEF Epilog
<1>3. CASE SwitchRt
  <2>1. switched' = switched + 1 /\ switched' > 0 BY <1>3 DEF SwitchRt, TypeOK
  <2>2. Top' = Top BY <1>3 DEF SwitchRt, Top
  <2> QED BY <1>1, <1>3, <2>1, <2>2 DEF SwitchRt, StackInv, Confined
<1>4. CASE SwitchIn
  <2>1. Top' = Top BY <1>4 DEF SwitchIn, Top
  <2>2. stack # <<>> BY <1>4 DEF SwitchIn, StackInv
  <2> QED BY <1>1, <1>4, <2>1, <2>2 DEF SwitchIn, StackInv, Confined
<1> QED BY <1>2, <1>3, <1>4

-----------------------------------------------------------------------------
(* The view of an enclosure.                                                *)

LEMMA ViewFrame ==
  ASSUME ViewInv, UNCHANGED <<stack, callVars>>,
         pc = "view" => UNCHANGED <<deps, sdeps, cview>>
  PROVE  ViewInv'
<1> SUFFICES ASSUME pc' = "view" PROVE ViewInv'
  BY DEF ViewInv
<1>1. UNCHANGED <<stack, toadd, result, pc, deps, sdeps, cview>> BY DEF callVars
<1> QED BY <1>1 DEF ViewInv, Known, Roots, Reachable, Closed, DepsOf, Restricted, Top

LEMMA ViewProlog ==
  ASSUME TypeOK, NEW s \in Sandboxes, Prolog(s) PROVE ViewInv'
<1>1. TypeOK' /\ Top' = s BY TypeProlog
<1>2. toadd' = sdeps'[s] \cup DOMAIN cview[s] /\ cview' = cview BY DEF Prolog
<1>3. DOMAIN result' = {} BY DEF Prolog, NoView
<1>4. toadd' = Roots' BY <1>1, <1>2 DEF Roots
<1>5. Known' = Roots' BY <1>3, <1>4 DEF Known
<1>6. Roots' \subseteq Reachable' BY <1>1, <1>4 DEF Reachable, TypeOK
<1> QED BY <1>3, <1>5, <1>6 DEF ViewInv

LEMMA ReachableClosed ==
  ASSUME TypeOK PROVE Closed(Reachable)
  BY DEF Reachable, Closed, TypeOK

LEMMA ViewVisit ==
  ASSUME TypeOK, StackInv, ViewInv, NEW k \in Pkgs, Visit(k) PROVE ViewInv'
<1> USE DEF Visit
<1>1. pc = "view" /\ UNCHANGED <<stack, pc, deps, sdeps, cview>>
  BY DEF pkgVars, sbVars
<1>2. Roots' = Roots /\ Top' = Top /\ Reachable' = Reachable
  BY <1>1 DEF Roots, Top, Reachable, Closed
<1>3. \A j : DepsOf(j)' = DepsOf(j) /\ Restricted(Top, j)' = Restricted(Top, j)
  BY <1>1, <1>2 DEF DepsOf, Restricted
<1>4. CASE Visited(k)
  <2>1. Known' = Known /\ result' = result BY <1>4 DEF Known, Visited
  <2> QED BY <1>1, <1>2, <1>3, <2>1 DEF ViewInv
<1>5. CASE ~Visited(k)
  <2>1. toadd' = (toadd \ {k}) \cup DepsOf(k) BY <1>5
  <2>2. result' = Extend(result, k, Restricted(Top, k)) BY <1>5
  <2>3. DOMAIN result' = DOMAIN result \cup {k} BY <2>2 DEF Extend
  <2>4. Known' = Known \cup DepsOf(k) BY <2>1, <2>3 DEF Known
  <2>5. DepsOf(k) \subseteq Reachable
    <3>1. k \in Reachable BY <1>1 DEF ViewInv, Known
    <3> QED BY <3>1, ReachableClosed DEF Closed, DepsOf
  <2>6. \A j \in DOMAIN result' : result'[j] = Restricted(Top, j)
    BY <1>1, <2>2, <2>3 DEF Extend, ViewInv
  <2>7. Roots \subseteq Known' /\ Known' \subseteq Reachable
    BY <1>1, <2>4, <2>5 DEF ViewInv
  <2>8. \A j \in DOMAIN result' : DepsOf(j) \subseteq Known'
    BY <1>1, <2>3, <2>4 DEF ViewInv
  <2> QED BY <1>1, <1>2, <1>3, <2>6, <2>7, <2>8 DEF ViewInv
<1> QED BY <1>4, <1>5

LEMMA ViewDone == ASSUME TypeOK, ViewInv PROVE ViewComplete
<1> SUFFICES ASSUME pc = "view", toadd = {}
             PROVE  result = [k \in Reachable |-> Restricted(Top, k)]
  BY DEF ViewComplete
<1>1. Known = DOMAIN result /\ DOMAIN result \subseteq Pkgs
  BY ViewType DEF Known, TypeOK
<1>2. Closed(DOMAIN result)
  <2> SUFFICES ASSUME NEW e \in deps, e[1] \in DOMAIN result PROVE e[2] \in DOMAIN result
    BY DEF Closed
  <2>1. e = <<e[1], e[2]>> /\ e[2] \in Pkgs BY DEF TypeOK
  <2>2. e[2] \in DepsOf(e[1]) BY <2>1 DEF DepsOf
  <2> QED BY <1>1, <2>2 DEF ViewInv
<1>3. Reachable \subseteq DOMAIN result BY <1>1, <1>2 DEF ViewInv, Reachable
<1>4. DOMAIN result = Reachable BY <1>1, <1>3 DEF ViewInv
<1>5. result = [k \in DOMAIN result |-> result[k]] BY ViewType DEF TypeOK
<1>6. \A k \in Reachable : result[k] = Restricted(Top, k) BY <1>4 DEF ViewInv
<1> QED BY <1>4, <1>5, <1>6

-----------------------------------------------------------------------------
(* What the spaces have.                                                    *)

AreaInv == SectInv /\ BuiltInv /\ SeesOnly /\ SeesAll

LEMMA AreaFrame ==
  ASSUME AreaInv, UNCHANGED <<memVars, sects, iview, inside>>,
         \A k \in Pkgs : pkg[k] # "none" => pkg'[k] # "none",
         \A s \in Sandboxes : sstat[s] = "entered" => sstat'[s] = "entered",
         TypeOK
  PROVE  AreaInv'
<1> USE DEF memVars
<1>1. SectInv' BY DEF AreaInv, SectInv
<1>2. BuiltInv' BY DEF AreaInv, BuiltInv, TypeOK
<1>3. SeesOnly' /\ SeesAll' BY DEF AreaInv, SeesOnly, SeesAll
<1> QED BY <1>1, <1>2, <1>3 DEF AreaInv

LEMMA MapInValue ==
  ASSUME TypeOK, NEW vs, NEW a \in Areas, MapIn(vs, a)
  PROVE  \A v \in Spaces, b \in Areas :
           maps'[v][b] = IF v \in vs /\ b = a THEN Heap ELSE maps[v][b]
  BY DEF MapIn, TypeOK

LEMMA AreaAdd ==
  ASSUME TypeOK, Confined, AreaInv, NEW k \in Pkgs, NEW a \in Areas, AddSection(k, a)
  PROVE  AreaInv'
<1> DEFINE vs == {GOD} \cup {v \in built : MapsSection(v, k)}
<1> USE LitterBoxAssumption
<1>1. /\ crash = "none" /\ pc = "user" /\ owner[a] = NOBODY /\ pkg[k] # "none"
      /\ owner' = [owner EXCEPT ![a] = k] /\ by' = [by EXCEPT ![a] = Top]
      /\ sects' = [sects EXCEPT ![k] = @ \cup {a}]
      /\ UNCHANGED <<pkg, sstat, iview, god, built, inside>>
  BY DEF AddSection, Calls, sbVars, cpuVars
<1>2. ASSUME NEW v \in Spaces, NEW b \in Areas
      PROVE  maps'[v][b] = IF god /\ v \in vs /\ b = a THEN Heap ELSE maps[v][b]
  <2>1. CASE god
    <3>1. MapIn(vs, a) BY <2>1 DEF AddSection
    <3> HIDE DEF vs
    <3> QED BY <2>1, <3>1, MapInValue
  <2>2. CASE ~god BY <2>2 DEF AddSection
  <2> QED BY <2>1, <2>2
<1>3. /\ owner'[a] = k /\ by'[a] = Top
      /\ \A b \in Areas \ {a} : owner'[b] = owner[b] /\ by'[b] = by[b]
      /\ \A j \in Pkgs : sects'[j] = IF j = k THEN sects[j] \cup {a} ELSE sects[j]
  BY <1>1 DEF TypeOK
<1>4. SectInv'
  <2> SUFFICES ASSUME NEW b \in Areas
               PROVE /\ owner'[b] \in Pkgs => b \in sects'[owner'[b]] /\ pkg'[owner'[b]] # "none"
                     /\ \A j \in Pkgs : b \in sects'[j] => owner'[b] \in {j, FREED}
                     /\ owner'[b] = NOBODY => \A v \in Spaces : maps'[v][b] = {}
                     /\ god' /\ owner'[b] \in Pkgs \cup {RT} => maps'[GOD][b] = Heap
    BY DEF SectInv
  <2>1. CASE b = a
    <3>1. \A j \in Pkgs : a \notin sects[j] BY <1>1 DEF AreaInv, SectInv
    <3>2. GOD \in Spaces BY DEF Spaces
    <3> QED BY <1>1, <1>2, <1>3, <2>1, <3>1, <3>2
  <2>2. CASE b # a
    <3>1. GOD \in Spaces BY DEF Spaces
    <3> QED BY <1>1, <1>2, <1>3, <2>2, <3>1 DEF AreaInv, SectInv
  <2> QED BY <2>1, <2>2
<1>5. BuiltInv' BY <1>1 DEF AreaInv, BuiltInv
<1>6. ASSUME NEW s \in built
      PROVE  /\ s \in Sandboxes /\ s \in Spaces /\ s # GOD /\ god /\ inside
             /\ maps[s][a] = {}
  BY <1>1, <1>6 DEF AreaInv, BuiltInv, SectInv, TypeOK, Spaces
<1>7. SeesOnly'
  <2> SUFFICES ASSUME NEW s \in built, NEW b \in Areas,
                      maps'[s][b] # {}, owner'[b] \in Pkgs
               PROVE  owner'[b] \in DOMAIN iview[s] \/ by'[b] = s
    BY <1>1 DEF SeesOnly
  <2>1. CASE b = a
    <3>1. s \in vs BY <1>2, <1>6, <2>1
    <3>2. k \in DOMAIN iview[s] \/ memview = s BY <1>6, <3>1 DEF MapsSection
    <3>3. memview \in {GOD, Top} BY <1>1 DEF Confined
    <3> QED BY <1>3, <1>6, <2>1, <3>2, <3>3
  <2>2. CASE b # a BY <1>2, <1>3, <1>6, <2>2 DEF AreaInv, SeesOnly
  <2> QED BY <2>1, <2>2
<1>8. SeesAll'
  <2> SUFFICES ASSUME NEW s \in built, NEW b \in Areas
               PROVE  /\ owner'[b] = RT => maps'[s][b] = Heap
                      /\ owner'[b] \in DOMAIN iview[s] =>
                           iview[s][owner'[b]] \cap Heap \subseteq maps'[s][b]
    BY <1>1 DEF SeesAll
  <2>1. CASE b = a
    <3>1. k \in DOMAIN iview[s] => maps'[s][a] = Heap
      BY <1>2, <1>6 DEF MapsSection
    <3> QED BY <1>3, <2>1, <3>1
  <2>2. CASE b # a BY <1>2, <1>3, <1>6, <2>2 DEF AreaInv, SeesAll
  <2> QED BY <2>1, <2>2
<1> QED BY <1>4, <1>5, <1>7, <1>8 DEF AreaInv

LEMMA AreaGrowth ==
  ASSUME TypeOK, AreaInv, NEW a \in Areas, RegisterGrowth(a)
  PROVE  AreaInv'
<1> USE LitterBoxAssumption
<1>1. /\ owner[a] = NOBODY /\ owner' = [owner EXCEPT ![a] = RT]
      /\ UNCHANGED <<pkg, sects, sstat, iview, by, god, built, inside>>
  BY DEF RegisterGrowth, pkgVars, sbVars, cpuVars
<1>2. ASSUME NEW v \in Spaces, NEW b \in Areas
      PROVE  maps'[v][b] = IF god /\ v \in {GOD} \cup built /\ b = a THEN Heap
                                                                  ELSE maps[v][b]
  BY MapInValue DEF RegisterGrowth
<1>3. owner'[a] = RT /\ \A b \in Areas \ {a} : owner'[b] = owner[b]
  BY <1>1 DEF TypeOK
<1>4. SectInv'
  <2> SUFFICES ASSUME NEW b \in Areas
               PROVE /\ owner'[b] \in Pkgs => b \in sects[owner'[b]] /\ pkg[owner'[b]] # "none"
                     /\ \A j \in Pkgs : b \in sects[j] => owner'[b] \in {j, FREED}
                     /\ owner'[b] = NOBODY => \A v \in Spaces : maps'[v][b] = {}
                     /\ god /\ owner'[b] \in Pkgs \cup {RT} => maps'[GOD][b] = Heap
    BY <1>1 DEF SectInv
  <2>1. GOD \in Spaces BY DEF Spaces
  <2>2. CASE b = a
    <3>1. \A j \in Pkgs : a \notin sects[j] BY <1>1 DEF AreaInv, SectInv
    <3> QED BY <1>2, <1>3, <2>1, <2>2, <3>1
  <2>3. CASE b # a BY <1>2, <1>3, <2>1, <2>3 DEF AreaInv, SectInv
  <2> QED BY <2>2, <2>3
<1>5. BuiltInv' BY <1>1 DEF AreaInv, BuiltInv
<1>6. ASSUME NEW s \in built PROVE s \in Spaces /\ god
  BY <1>6 DEF AreaInv, BuiltInv, TypeOK, Spaces
<1>7. SeesOnly'
  <2> SUFFICES ASSUME NEW s \in built, NEW b \in Areas,
                      maps'[s][b] # {}, owner'[b] \in Pkgs
               PROVE  owner'[b] \in DOMAIN iview[s] \/ by[b] = s
    BY <1>1 DEF SeesOnly
  <2> QED BY <1>2, <1>3, <1>6 DEF AreaInv, SeesOnly
<1>8. SeesAll'
  <2> SUFFICES ASSUME NEW s \in built, NEW b \in Areas
               PROVE  /\ owner'[b] = RT => maps'[s][b] = Heap
                      /\ owner'[b] \in DOMAIN iview[s] =>
                           iview[s][owner'[b]] \cap Heap \subseteq maps'[s][b]
    BY <1>1 DEF SeesAll
  <2>1. CASE b = a BY <1>2, <1>3, <1>6, <2>1
  <2>2. CASE b # a BY <1>2, <1>3, <1>6, <2>2 DEF AreaInv, SeesAll
  <2> QED BY <2>1, <2>2
<1> QED BY <1>4, <1>5, <1>7, <1>8 DEF AreaInv

LEMMA AreaMunmap ==
  ASSUME TypeOK, AreaInv, NEW a \in Areas, Munmap(a) PROVE AreaInv'
<1> USE LitterBoxAssumption
<1>1. /\ owner[a] \in Pkgs /\ owner' = [owner EXCEPT ![a] = FREED]
      /\ by' = [by EXCEPT ![a] = GOD]
      /\ UNCHANGED <<pkg, sects, sstat, iview, god, maps, built, inside>>
  BY DEF Munmap, pkgVars, sbVars, cpuVars
<1>2. /\ owner'[a] = FREED
      /\ \A b \in Areas \ {a} : owner'[b] = owner[b] /\ by'[b] = by[b]
  BY <1>1 DEF TypeOK
<1>3. SectInv' BY <1>1, <1>2 DEF AreaInv, SectInv
<1>4. BuiltInv' BY <1>1 DEF AreaInv, BuiltInv
<1>5. SeesOnly' BY <1>1, <1>2 DEF AreaInv, SeesOnly
<1>6. SeesAll'
  <2> SUFFICES ASSUME NEW s \in built, NEW b \in Areas
               PROVE  /\ owner'[b] = RT => maps[s][b] = Heap
                      /\ owner'[b] \in DOMAIN iview[s] =>
                           iview[s][owner'[b]] \cap Heap \subseteq maps[s][b]
    BY <1>1 DEF SeesAll
  <2>1. s \in Sandboxes /\ iview[s] \in Views BY DEF TypeOK
  <2>2. FREED \notin DOMAIN iview[s] BY <2>1, ViewType
  <2> QED BY <1>2, <2>2 DEF AreaInv, SeesAll
<1> QED BY <1>3, <1>4, <1>5, <1>6 DEF AreaInv

\* What a space built now would have.
LEMMA BuiltSpace ==
  ASSUME TypeOK, SectInv, NEW b \in Areas
  PROVE  /\ owner[b] \in Pkgs \cup {RT} => GodSpace[b] = Heap
         /\ owner[b] = NOBODY => GodSpace[b] = {}
         /\ owner[b] \in Pkgs =>
              Space(GodSpace)[b] = IF owner[b] \in Toggled THEN PkgRights(owner[b]) ELSE Heap
         /\ owner[b] = RT => Space(GodSpace)[b] = Heap
         /\ owner[b] = NOBODY => Space(GodSpace)[b] = {}
<1> USE LitterBoxAssumption
<1>1. /\ owner[b] \in Pkgs \cup {RT} => GodSpace[b] = Heap
      /\ owner[b] = NOBODY => GodSpace[b] = {}
  BY DEF GodSpace, SectInv, Spaces
<1> DEFINE g == GodSpace
           in == \E k \in Toggled : b \in sects[k]
           c == CHOOSE k \in Toggled : b \in sects[k]
<1>2. Space(g)[b] = IF in THEN PkgRights(c) ELSE g[b] BY DEF Space
<1>3. \A k \in Toggled : b \in sects[k] => owner[b] \in {k, FREED} BY DEF SectInv, Toggled
<1>4. in => c \in Toggled /\ b \in sects[c] OBVIOUS
<1>5. Toggled \subseteq Pkgs BY DEF Toggled
<1>6. CASE owner[b] \in Pkgs
  <2>1. b \in sects[owner[b]] BY <1>6 DEF SectInv
  <2>2. in => c = owner[b] BY <1>3, <1>4, <1>6
  <2>3. in <=> owner[b] \in Toggled BY <1>3, <1>6, <2>1
  <2> HIDE DEF g, in, c
  <2>4. Space(g)[b] = IF owner[b] \in Toggled THEN PkgRights(owner[b]) ELSE g[b]
    BY <1>2, <2>2, <2>3
  <2> QED BY <1>1, <1>6, <2>4 DEF g
<1>7. CASE owner[b] \in {RT, NOBODY}
  <2>1. ~in BY <1>3, <1>5, <1>7
  <2> HIDE DEF g, in
  <2>2. Space(g)[b] = g[b] BY <1>2, <2>1
  <2> QED BY <1>1, <1>7, <2>2 DEF g
<1> QED BY <1>1, <1>6, <1>7

LEMMA AreaBuild ==
  ASSUME TypeOK, StackInv, AreaInv, BuildView PROVE AreaInv'
<1> USE LitterBoxAssumption
<1> DEFINE s == Top
           g == GodSpace
           n == Space(GodSpace)
<1>1. s \in Sandboxes /\ sstat[s] = "registered"
  BY TopType DEF BuildView, StackInv
<1>2. /\ iview' = [iview EXCEPT ![s] = ById] /\ sstat' = [sstat EXCEPT ![s] = "entered"]
      /\ god' = TRUE /\ UNCHANGED <<pkg, sects, owner, by>>
  BY DEF BuildView, pkgVars
<1>3. \/ /\ maps' = [maps EXCEPT ![GOD] = g]
         /\ UNCHANGED <<built, inside>>
      \/ /\ maps' = [maps EXCEPT ![GOD] = g, ![s] = n]
         /\ built' = built \cup {s} /\ inside' = TRUE
  BY DEF BuildView, Enter
<1> HIDE DEF s, g, n
<1>4. s \notin built /\ s # GOD /\ s \in Spaces /\ GOD \in Spaces
  BY <1>1 DEF AreaInv, BuiltInv, Spaces
<1>5. /\ maps'[GOD] = g /\ maps'[s] \in {maps[s], n}
      /\ \A v \in Spaces \ {s, GOD} : maps'[v] = maps[v]
      /\ s \in built' => maps'[s] = n
      /\ built' \subseteq built \cup {s} /\ (built' # built => inside')
  BY <1>3, <1>4 DEF TypeOK
<1>6. ASSUME NEW b \in Areas
      PROVE  /\ owner[b] \in Pkgs \cup {RT} => g[b] = Heap
             /\ owner[b] = NOBODY => g[b] = {} /\ n[b] = {}
             /\ owner[b] \in Pkgs =>
                  n[b] = IF owner[b] \in Toggled THEN PkgRights(owner[b]) ELSE Heap
             /\ owner[b] = RT => n[b] = Heap
  BY BuiltSpace DEF AreaInv, g, n
<1>7. SectInv'
  <2> SUFFICES ASSUME NEW b \in Areas
               PROVE /\ owner[b] \in Pkgs => b \in sects[owner[b]] /\ pkg[owner[b]] # "none"
                     /\ \A j \in Pkgs : b \in sects[j] => owner[b] \in {j, FREED}
                     /\ owner[b] = NOBODY => \A v \in Spaces : maps'[v][b] = {}
                     /\ owner[b] \in Pkgs \cup {RT} => maps'[GOD][b] = Heap
    BY <1>2 DEF SectInv
  <2> QED BY <1>4, <1>5, <1>6 DEF AreaInv, SectInv
<1>8. BuiltInv'
  <2>1. built' # {} => inside' BY <1>3, <1>5 DEF AreaInv, BuiltInv
  <2>2. \A v \in built' : sstat'[v] = "entered"
    BY <1>1, <1>2, <1>5 DEF AreaInv, BuiltInv, TypeOK
  <2> QED BY <1>2, <2>1, <2>2 DEF BuiltInv
<1>9. ASSUME NEW v \in built', v # s
      PROVE  v \in built /\ v \in Sandboxes /\ maps'[v] = maps[v] /\ iview'[v] = iview[v]
  BY <1>2, <1>5, <1>9 DEF TypeOK, Spaces
<1>10. iview'[s] = ById BY <1>1, <1>2 DEF TypeOK
<1>11. SeesOnly'
  <2> SUFFICES ASSUME NEW v \in built', NEW b \in Areas,
                      maps'[v][b] # {}, owner[b] \in Pkgs
               PROVE  owner[b] \in DOMAIN iview'[v] \/ by[b] = v
    BY <1>2 DEF SeesOnly
  <2>1. CASE v = s
    <3>1. n[b] # {} BY <1>5, <2>1
    <3>2. CASE owner[b] \in Toggled
      <4>1. PkgRights(owner[b]) # {} BY <1>6, <3>1, <3>2
      <4> QED BY <1>10, <2>1, <4>1 DEF PkgRights
    <3>3. CASE owner[b] \notin Toggled
      <4>1. pkg[owner[b]] # "none" BY DEF AreaInv, SectInv
      <4>2. LeavesPkg(owner[b]) BY <3>3, <4>1 DEF Toggled
      <4>3. owner[b] \in DOMAIN ById BY <4>2 DEF LeavesPkg, ById
      <4> QED BY <1>10, <2>1, <4>3
    <3> QED BY <3>2, <3>3
  <2>2. CASE v # s BY <1>9, <2>2 DEF AreaInv, SeesOnly
  <2> QED BY <2>1, <2>2
<1>12. SeesAll'
  <2> SUFFICES ASSUME NEW v \in built', NEW b \in Areas
               PROVE  /\ owner[b] = RT => maps'[v][b] = Heap
                      /\ owner[b] \in DOMAIN iview'[v] =>
                           iview'[v][owner[b]] \cap Heap \subseteq maps'[v][b]
    BY <1>2 DEF SeesAll
  <2>1. CASE v = s
    <3>1. maps'[v][b] = n[b] BY <1>5, <2>1
    <3>2. ASSUME owner[b] \in DOMAIN ById PROVE ById[owner[b]] \cap Heap \subseteq n[b]
      <4>1. owner[b] \in Pkgs BY <3>2, ByIdType, ViewType
      <4>2. ById[owner[b]] \cap Heap \subseteq PkgRights(owner[b])
        BY <3>2 DEF PkgRights, Heap
      <4> QED BY <1>6, <4>1, <4>2
    <3> QED BY <1>6, <1>10, <2>1, <3>1, <3>2
  <2>2. CASE v # s BY <1>9, <2>2 DEF AreaInv, SeesAll
  <2> QED BY <2>1, <2>2
<1> QED BY <1>7, <1>8, <1>11, <1>12 DEF AreaInv

-----------------------------------------------------------------------------
LEMMA InitInv == Init => IInv
<1> SUFFICES ASSUME Init PROVE IInv
  OBVIOUS
<1>1. /\ stack = <<>> /\ switched = 0 /\ pc = "user" /\ built = {} /\ ~god
      /\ memview = GOD /\ cr3 = HOST /\ ~inside
  BY DEF Init
<1>2. SectInv BY LitterBoxAssumption DEF Init, SectInv
<1>3. StackInv /\ Confined /\ ViewInv /\ BuiltInv /\ SeesOnly /\ SeesAll
  BY <1>1 DEF StackInv, Confined, ViewInv, BuiltInv, SeesOnly, SeesAll
<1> QED BY <1>2, <1>3, TypeInit DEF IInv

LEMMA NextInv == IInv /\ [Next]_vars => IInv'
<1> SUFFICES ASSUME IInv, [Next]_vars PROVE IInv'
  OBVIOUS
<1> USE DEF IInv
<1>1. AreaInv BY DEF AreaInv
<1>2. CASE UNCHANGED vars
  <2>1. TypeOK' BY <1>2 DEF vars, callVars, pkgVars, sbVars, memVars, cpuVars, TypeOK
  <2> USE <1>2 DEF vars, callVars, pkgVars, sbVars, cpuVars
  <2>2. StackInv' /\ Confined' BY WhereFrame
  <2>3. ViewInv' BY ViewFrame
  <2>4. AreaInv' BY <1>1, AreaFrame
  <2> QED BY <2>1, <2>2, <2>3, <2>4 DEF AreaInv
<1>3. CASE \/ \E k \in Pkgs, as \in {"module", "named"} : RegisterId(k, as)
           \/ \E e \in Imports : AddDependency(e)
           \/ \E s \in Sandboxes : \/ RegisterSandbox(s)
                                   \/ \E k \in Deps[s] : RegisterSandboxDependency(s, k)
  <2>1. TypeOK' /\ StaysPut BY <1>3, TypeRegister
  <2>2. pc = "user" /\ pc' = pc
    BY <1>3, <2>1 DEF RegisterId, AddDependency, RegisterSandbox,
                      RegisterSandboxDependency, Calls, StaysPut, callVars
  <2>3. /\ UNCHANGED <<sects, iview>>
        /\ \A k \in Pkgs : pkg[k] # "none" => pkg'[k] # "none"
        /\ \A s \in Sandboxes : sstat[s] = "entered" => sstat'[s] = "entered"
    BY <1>3 DEF RegisterId, AddDependency, RegisterSandbox,
                RegisterSandboxDependency, sbVars, pkgVars, TypeOK
  <2>4. StackInv' /\ Confined' BY <2>1, <2>2, WhereFrame DEF StaysPut
  <2>5. ViewInv' BY <2>2 DEF ViewInv
  <2>6. AreaInv' BY <1>1, <2>1, <2>3, AreaFrame DEF StaysPut, cpuVars
  <2> QED BY <2>1, <2>4, <2>5, <2>6 DEF AreaInv
<1>4. ASSUME NEW a \in Areas,
             (\E k \in Pkgs : AddSection(k, a)) \/ RegisterGrowth(a) \/ Munmap(a)
      PROVE  IInv'
  <2>1. TypeOK' BY <1>4, TypeMemory
  <2>2. pc = "user" /\ pc' = pc /\ UNCHANGED <<stack, cpuVars>>
    BY <1>4 DEF AddSection, RegisterGrowth, Munmap, Calls, callVars
  <2>3. crash' = crash \/ crash' # "none"
    BY <1>4 DEF AddSection, RegisterGrowth, Munmap, Panic
  <2>4. StackInv' /\ Confined'
    BY <2>2, <2>3 DEF StackInv, Confined, Top, cpuVars
  <2>5. ViewInv' BY <2>2 DEF ViewInv
  <2>6. AreaInv' BY <1>1, <1>4, AreaAdd, AreaGrowth, AreaMunmap
  <2> QED BY <2>1, <2>4, <2>5, <2>6 DEF AreaInv
<1>5. ASSUME NEW s \in Sandboxes, Prolog(s) PROVE IInv'
  <2>1. TypeOK' BY <1>5, TypeProlog
  <2>2. StackInv' /\ Confined' BY <1>5, WhereProlog
  <2>3. ViewInv' BY <1>5, ViewProlog
  <2>4. AreaInv' BY <1>1, <1>5, AreaFrame DEF Prolog, cpuVars
  <2> QED BY <2>1, <2>2, <2>3, <2>4 DEF AreaInv
<1>6. ASSUME NEW s \in Sandboxes, PrologAgain(s) PROVE IInv'
  <2>1. TypeOK' BY <1>6, TypeProlog
  <2>2. StackInv' /\ Confined' BY <1>6, WhereProlog
  <2>3. pc' # "view" BY <1>6 DEF PrologAgain, Calls, callVars
  <2>4. ViewInv' BY <2>3 DEF ViewInv
  <2>5. /\ UNCHANGED <<memVars, sects, iview, pkg, sstat>>
        /\ inside' = TRUE
    BY <1>6 DEF PrologAgain, Enter, sbVars, pkgVars
  <2>6. AreaInv'
    BY <1>1, <2>5 DEF AreaInv, SectInv, BuiltInv, SeesOnly, SeesAll, memVars
  <2> QED BY <2>1, <2>2, <2>4, <2>6 DEF AreaInv
<1>7. ASSUME NEW k \in Pkgs, Visit(k) PROVE IInv'
  <2>1. TypeOK' BY <1>7, TypeVisit
  <2>2. StackInv' /\ Confined' BY <1>7, WhereFrame DEF Visit, sbVars
  <2>3. ViewInv' BY <1>7, ViewVisit
  <2>4. AreaInv' BY <1>1, <1>7, AreaFrame DEF Visit, pkgVars, sbVars, cpuVars
  <2> QED BY <2>1, <2>2, <2>3, <2>4 DEF AreaInv
<1>8. CASE BuildView
  <2>1. TypeOK' BY <1>8, TypeBuild
  <2>2. StackInv' /\ Confined' BY <1>8, WhereBuild
  <2>3. ViewInv' BY <1>8 DEF BuildView, ViewInv
  <2>4. AreaInv' BY <1>1, <1>8, AreaBuild
  <2> QED BY <2>1, <2>2, <2>3, <2>4 DEF AreaInv
<1>9. CASE Epilog \/ SwitchRt \/ SwitchIn
  <2>1. TypeOK' BY <1>9, TypeSwitch
  <2>2. StackInv' /\ Confined' BY <1>9, WhereSwitch
  <2>3. /\ pc' # "view"
        /\ UNCHANGED <<memVars, sects, iview, pkg, sstat, inside>>
    BY <1>9 DEF Epilog, SwitchRt, SwitchIn, Calls, callVars, sbVars, pkgVars
  <2>4. ViewInv' BY <2>3 DEF ViewInv
  <2>5. AreaInv' BY <1>1, <2>3, AreaFrame
  <2> QED BY <2>1, <2>2, <2>4, <2>5 DEF AreaInv
<1> QED BY <1>2, <1>3, <1>4, <1>5, <1>6, <1>7, <1>8, <1>9 DEF Next, Call, Step, Stop

\* The inductive invariant.
THEOREM Inductive == Spec => []IInv
<1> QED BY InitInv, NextInv, PTL DEF Spec

\* Every variable keeps its type.
THEOREM TypeCorrect == Spec => []TypeOK
<1>1. IInv => TypeOK BY DEF IInv
<1> QED BY <1>1, Inductive, PTL

\* Code of an enclosure runs in its own address space, or in God's between
\* SB_switch_rt and SB_switch_in (dprolog, DEpilog, DynToGod, DynGoBack).
THEOREM Confinement == Spec => []Confined
<1>1. IInv => Confined BY DEF IInv
<1> QED BY <1>1, Inductive, PTL

\* The view of an enclosure has exactly the packages reachable from its roots
\* (ComputeMemoryView), for any imports, circular ones included.
THEOREM ViewIsClosure == Spec => []ViewComplete
<1>1. IInv => ViewComplete BY ViewDone DEF IInv
<1> QED BY <1>1, Inductive, PTL

\* The space of an enclosure has no section of a package it does not see that
\* it did not add itself (DynTransfer, disablePkgs).
THEOREM NothingHidden == Spec => []SeesOnly
<1>1. IInv => SeesOnly BY DEF IInv
<1> QED BY <1>1, Inductive, PTL

\* It has all sections of the packages it sees, with the rights it has on them.
THEOREM NothingMissing == Spec => []SeesAll
<1>1. IInv => SeesAll BY DEF IInv
<1> QED BY <1>1, Inductive, PTL
=============================================================================
