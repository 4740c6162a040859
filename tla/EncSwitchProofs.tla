-------------------------- MODULE EncSwitchProofs --------------------------
(***************************************************************************)
(* The safety of EncSwitch for every number of goroutines, threads,         *)
(* enclosures and vCPUs.  Two limits of the code are assumptions: programs  *)
(* do not nest enclosures (an inner Epilog returns to God, and the outer's  *)
(* check of the id fails), and no thread clones another while it runs a     *)
(* goroutine (the run EncSwitchClone shows why).                            *)
(***************************************************************************)
EXTENDS EncSwitch, TLAPS, SequenceTheorems

Limits == MaxDepth \in {0, 1} /\ CloneFrom \subseteq {"sched"}

Busy   == {"user", "syscall", "prolog", "exec"}
Stable == {"sched", "user", "syscall"}
Claims == {"prolog", "exec"}
Owns(m) == guest[m] \/ pc[m] \in Claims
View(d) == IF d = OUT THEN GOD ELSE d

\* After a crash no thread runs; before it none is stopped.
StopInv == \A m \in Ms : (pc[m] = "stopped") <=> (crash # "none")

\* A thread runs one goroutine, and a goroutine runs on one thread.
RunInv ==
  \A m \in Ms :
    /\ pc[m] \in Busy =>
         /\ curg[m] \in Gs /\ gstat[curg[m]] = "running"
         /\ \A n \in Ms \ {m} : pc[n] \in Busy => curg[n] # curg[m]
    /\ pc[m] \in {"none", "cloning", "sched", "bail"} => curg[m] = NoG

\* Programs nest no enclosures.
DepthInv ==
  \A g \in Gs : \/ frames[g] = <<>>
                \/ gbase[g] = OUT /\ \E s \in Sandboxes : frames[g] = <<s>>

\* The ids of goroutines that wait, and of goroutines a thread has at hand.
IdInv ==
  /\ \A g \in Gs : gstat[g] \in {"runnable", "waiting"} => gsb[g] = Domain(g)
  /\ \A m \in Ms :
       /\ msb[m] = g0sb[m]
       /\ pc[m] \in Stable => msb[m] \in Domains
       /\ pc[m] \in {"user", "syscall"} =>
            gsb[curg[m]] = Domain(curg[m]) /\ msb[m] = gsb[curg[m]]
       /\ pc[m] = "exec" =>
            gsb[curg[m]] = Domain(curg[m]) /\ goal[m] = gsb[curg[m]]
       /\ pc[m] = "prolog" => gbase[curg[m]] = OUT /\ frames[curg[m]] = <<>>

\* Between hooks a thread is in the machine exactly when it holds a vCPU, and
\* the vCPU's CR3 and attributes are those of the thread's id.
ViewInv ==
  \A m \in Ms :
    /\ pc[m] \in {"none", "cloning"} =>
         vcpu[m] = NoV /\ msb[m] = OUT
    /\ pc[m] \in {"none", "cloning", "bail"} => ~guest[m]
    /\ pc[m] \in Claims => ~guest[m] /\ goal[m] \in Sandboxes
    /\ pc[m] \in Stable =>
         /\ guest[m] <=> vcpu[m] # NoV
         /\ msb[m] # OUT => vcpu[m] # NoV
         /\ vcpu[m] # NoV => vcr3[vcpu[m]] = View(msb[m])
         /\ msb[m] # OUT => vattr[vcpu[m]] = msb[m]

\* Who owns a vCPU owns it alone, and its state says so.
OwnInv ==
  \A m \in Ms :
    Owns(m) =>
      /\ vcpu[m] \in VCPUs
      /\ vstate[vcpu[m]] = IF guest[m] THEN "Guest" ELSE "User"
      /\ \A n \in Ms \ {m} : Owns(n) => vcpu[n] # vcpu[m]

IInv == TypeOK /\ StopInv /\ RunInv /\ DepthInv /\ IdInv /\ ViewInv /\ OwnInv

-----------------------------------------------------------------------------
(* What the operators give.                                                 *)

LEMMA DomainTyped ==
  ASSUME TypeOK, DepthInv, NEW g \in Gs PROVE Domain(g) \in Domains
BY DEF TypeOK, DepthInv, Domain, Domains

LEMMA DomainKept ==
  ASSUME UNCHANGED <<gbase, frames>> PROVE \A g \in Gs : Domain(g)' = Domain(g)
BY DEF Domain

LEMMA PushPop ==
  ASSUME NEW s
  PROVE  /\ Append(<<>>, s) = <<s>> /\ <<s>> # <<>>
         /\ SubSeq(<<s>>, 1, Len(<<s>>) - 1) = <<>>
OBVIOUS

LEMMA CallsFromOutside ==
  ASSUME Limits, IInv, NEW m \in Ms, CanEnter(m)
  PROVE  curg[m] \in Gs /\ gbase[curg[m]] = OUT /\ frames[curg[m]] = <<>>
<1>1. curg[m] \in Gs BY DEF IInv, RunInv, Busy, CanEnter
<1>2. Nesting(curg[m]) < 1
  <2>1. Len(frames[curg[m]]) \in Nat BY <1>1 DEF IInv, TypeOK
  <2>2. CASE gbase[curg[m]] = OUT BY <2>1, <2>2 DEF Limits, CanEnter, Nesting
  <2>3. CASE gbase[curg[m]] # OUT BY <2>1, <2>3 DEF Limits, CanEnter, Nesting
  <2> QED BY <2>2, <2>3
<1>3. ASSUME NEW s \in Sandboxes, frames[curg[m]] = <<s>> PROVE FALSE
  <2>1. Len(frames[curg[m]]) = 1 BY <1>3
  <2> QED BY <1>2, <2>1 DEF Nesting
<1>4. frames[curg[m]] = <<>> BY <1>1, <1>3 DEF IInv, DepthInv
<1> QED BY <1>1, <1>2, <1>4 DEF Nesting

-----------------------------------------------------------------------------
(* Every action preserves the invariant.                                    *)

LEMMA CrashStep ==
  ASSUME IInv, NEW w \in Crashes \ {"none"}, Crash(w) PROVE IInv'
<1> USE DEF IInv, Crash, gvars, mvars, vvars
<1>1. TypeOK' BY DEF TypeOK, Pcs, Crashes
<1>2. StopInv' BY DEF StopInv, TypeOK
<1>3. RunInv' BY DEF RunInv, Busy, TypeOK
<1>4. DepthInv' BY DEF DepthInv
<1>5. IdInv' BY DomainKept DEF IdInv, Stable, TypeOK
<1>6. ViewInv' BY DEF ViewInv, Stable, Claims, TypeOK
<1>7. OwnInv' BY DEF OwnInv, Owns, Claims, TypeOK
<1> QED BY <1>1, <1>2, <1>3, <1>4, <1>5, <1>6, <1>7

LEMMA ParkStep ==
  ASSUME IInv, NEW m \in Ms, Park(m) PROVE IInv'
<1> USE DEF IInv, Park, gvars, mvars, vvars
<1>1. TypeOK' BY DEF TypeOK, Pcs
<1>2. StopInv' BY DEF StopInv, TypeOK
<1>3. RunInv' BY IdAssumption DEF RunInv, Busy, TypeOK
<1>4. DepthInv' BY DEF DepthInv
<1>5. IdInv' BY DomainKept DEF IdInv, Stable, TypeOK, RunInv, Busy
<1>6. ViewInv' BY DEF ViewInv, Stable, Claims, TypeOK, View
<1>7. OwnInv' BY DEF OwnInv, Owns, Claims, TypeOK
<1> QED BY <1>1, <1>2, <1>3, <1>4, <1>5, <1>6, <1>7

LEMMA EnterSyscallStep ==
  ASSUME IInv, NEW m \in Ms, EnterSyscall(m) PROVE IInv'
<1> USE DEF IInv, EnterSyscall, gvars, mvars, vvars
<1>1. TypeOK' BY DEF TypeOK, Pcs
<1>2. StopInv' BY DEF StopInv, TypeOK
<1>3. RunInv' BY IdAssumption DEF RunInv, Busy, TypeOK
<1>4. DepthInv' BY DEF DepthInv, TypeOK
<1>5. IdInv' BY DomainKept DEF IdInv, Stable, TypeOK, RunInv, Busy
<1>6. ViewInv' BY DEF ViewInv, Stable, Claims, TypeOK, View
<1>7. OwnInv' BY DEF OwnInv, Owns, Claims, TypeOK
<1> QED BY <1>1, <1>2, <1>3, <1>4, <1>5, <1>6, <1>7

LEMMA ExitSyscallStep ==
  ASSUME IInv, NEW m \in Ms, ExitSyscall(m) PROVE IInv'
<1> USE DEF IInv, ExitSyscall, gvars, mvars, vvars
<1>1. TypeOK' BY DEF TypeOK, Pcs
<1>2. StopInv' BY DEF StopInv, TypeOK
<1>3. RunInv' BY IdAssumption DEF RunInv, Busy, TypeOK
<1>4. DepthInv' BY DEF DepthInv, TypeOK
<1>5. IdInv' BY DomainKept DEF IdInv, Stable, TypeOK, RunInv, Busy
<1>6. ViewInv' BY DEF ViewInv, Stable, Claims, TypeOK, View
<1>7. OwnInv' BY DEF OwnInv, Owns, Claims, TypeOK
<1> QED BY <1>1, <1>2, <1>3, <1>4, <1>5, <1>6, <1>7

LEMMA ExitSyscall0Step ==
  ASSUME IInv, NEW m \in Ms, ExitSyscall0(m) PROVE IInv'
<1> USE DEF IInv, ExitSyscall0, gvars, mvars, vvars
<1>1. TypeOK' BY DEF TypeOK, Pcs
<1>2. StopInv' BY DEF StopInv, TypeOK
<1>3. RunInv' BY IdAssumption DEF RunInv, Busy, TypeOK
<1>4. DepthInv' BY DEF DepthInv, TypeOK
<1>5. IdInv' BY DomainKept DEF IdInv, Stable, TypeOK, RunInv, Busy
<1>6. ViewInv' BY DEF ViewInv, Stable, Claims, TypeOK, View
<1>7. OwnInv' BY DEF OwnInv, Owns, Claims, TypeOK
<1> QED BY <1>1, <1>2, <1>3, <1>4, <1>5, <1>6, <1>7

LEMMA ReadyStep ==
  ASSUME IInv, NEW g \in Gs, Ready(g) PROVE IInv'
<1> USE DEF IInv, Ready, gvars, mvars, vvars
<1>1. TypeOK' BY DEF TypeOK, Pcs
<1>2. StopInv' BY DEF StopInv, TypeOK
<1>3. RunInv' BY IdAssumption DEF RunInv, Busy, TypeOK
<1>4. DepthInv' BY DEF DepthInv, TypeOK
<1>5. IdInv' BY DomainKept DEF IdInv, Stable, TypeOK, RunInv, Busy
<1>6. ViewInv' BY DEF ViewInv, Stable, Claims, TypeOK, View
<1>7. OwnInv' BY DEF OwnInv, Owns, Claims, TypeOK
<1> QED BY <1>1, <1>2, <1>3, <1>4, <1>5, <1>6, <1>7

LEMMA StopStep ==
  ASSUME IInv, Stop PROVE IInv'
<1> USE DEF IInv, Stop, vars, gvars, mvars, vvars
<1>1. TypeOK' BY DEF TypeOK, Pcs
<1>2. StopInv' BY DEF StopInv, TypeOK
<1>3. RunInv' BY IdAssumption DEF RunInv, Busy, TypeOK
<1>4. DepthInv' BY DEF DepthInv, TypeOK
<1>5. IdInv' BY DomainKept DEF IdInv, Stable, TypeOK, RunInv, Busy
<1>6. ViewInv' BY DEF ViewInv, Stable, Claims, TypeOK, View
<1>7. OwnInv' BY DEF OwnInv, Owns, Claims, TypeOK
<1> QED BY <1>1, <1>2, <1>3, <1>4, <1>5, <1>6, <1>7

LEMMA GoExitStep ==
  ASSUME IInv, NEW m \in Ms, GoExit(m) PROVE IInv'
<1> USE DEF IInv, GoExit, gvars, mvars, vvars
<1>1. TypeOK' BY DEF TypeOK, Pcs, RunInv, Busy, Domains
<1>2. StopInv' BY DEF StopInv, TypeOK
<1>3. RunInv' BY IdAssumption DEF RunInv, Busy, TypeOK
<1>4. DepthInv' BY DEF DepthInv, TypeOK, RunInv, Busy
<1>5. IdInv' BY DEF IdInv, Stable, TypeOK, RunInv, Busy, Domain
<1>6. ViewInv' BY DEF ViewInv, Stable, Claims, TypeOK, View
<1>7. OwnInv' BY DEF OwnInv, Owns, Claims, TypeOK
<1> QED BY <1>1, <1>2, <1>3, <1>4, <1>5, <1>6, <1>7

LEMMA NewprocStep ==
  ASSUME IInv, NEW m \in Ms, NEW c \in Gs, Newproc(m, c) PROVE IInv'
<1> USE DEF IInv, Newproc, gvars, mvars, vvars, InheritedSbId
<1>a. curg[m] \in Gs /\ Domain(curg[m]) \in Domains
  BY DomainTyped DEF RunInv, Busy
<1>b. \A g \in Gs : Domain(g)' = IF g = c THEN Domain(curg[m]) ELSE Domain(g)
  BY DEF Domain, TypeOK
<1>1. TypeOK' BY <1>a DEF TypeOK, SbIds
<1>2. StopInv' BY DEF StopInv, TypeOK
<1>3. RunInv' BY IdAssumption DEF RunInv, Busy, TypeOK
<1>4. DepthInv' BY DEF DepthInv, TypeOK
<1>5. IdInv' BY <1>a, <1>b DEF IdInv, Stable, TypeOK, RunInv, Busy
<1>6. ViewInv' BY DEF ViewInv, Stable, Claims, TypeOK, View
<1>7. OwnInv' BY DEF OwnInv, Owns, Claims, TypeOK
<1> QED BY <1>1, <1>2, <1>3, <1>4, <1>5, <1>6, <1>7

LEMMA PrologSwitchStep ==
  ASSUME IInv, Limits, NEW m \in Ms, NEW s \in Sandboxes, PrologSwitch(m, s) PROVE IInv'
<1> USE DEF IInv, PrologSwitch, gvars, mvars, vvars, CanEnter, WriteCR3, SetVCPUAttributes, AssignSbIdUser
<1>a. curg[m] \in Gs /\ gbase[curg[m]] = OUT /\ frames[curg[m]] = <<>>
  BY CallsFromOutside
<1>b. frames' = [frames EXCEPT ![curg[m]] = <<s>>]
  BY <1>a, PushPop DEF TypeOK
<1>c. \A g \in Gs : Domain(g)' = IF g = curg[m] THEN s ELSE Domain(g)
  BY <1>a, <1>b, PushPop DEF Domain, TypeOK
<1>1. TypeOK' BY <1>a, <1>b DEF TypeOK, SbIds, Views
<1>2. StopInv' BY DEF StopInv, TypeOK
<1>3. RunInv' BY IdAssumption DEF RunInv, Busy, TypeOK
<1>4. DepthInv' BY <1>a, <1>b DEF DepthInv, TypeOK
<1>5. IdInv' BY <1>a, <1>c DEF IdInv, Stable, TypeOK, RunInv, Busy, Domains
<1>6. ViewInv' BY IdAssumption DEF ViewInv, Stable, Claims, TypeOK, View, OwnInv, Owns
<1>7. OwnInv' BY DEF OwnInv, Owns, Claims, TypeOK
<1> QED BY <1>1, <1>2, <1>3, <1>4, <1>5, <1>6, <1>7

LEMMA ExecuteSameStep ==
  ASSUME IInv, NEW m \in Ms, NEW g \in Gs, ExecuteSame(m, g) PROVE IInv'
<1> USE DEF IInv, ExecuteSame, Dispatch, SbIdsAgreeG0, SameContext, gvars, mvars, vvars
<1>1. TypeOK' BY DEF TypeOK, Pcs
<1>2. StopInv' BY DEF StopInv, TypeOK
<1>3. RunInv' BY IdAssumption DEF RunInv, Busy, TypeOK
<1>4. DepthInv' BY DEF DepthInv, TypeOK
<1>5. IdInv' BY DomainKept DEF IdInv, Stable, TypeOK, RunInv, Busy
<1>6. ViewInv' BY DEF ViewInv, Stable, Claims, TypeOK, View
<1>7. OwnInv' BY DEF OwnInv, Owns, Claims, TypeOK
<1> QED BY <1>1, <1>2, <1>3, <1>4, <1>5, <1>6, <1>7

LEMMA ExecuteSwitchStep ==
  ASSUME IInv, NEW m \in Ms, NEW g \in Gs, ExecuteSwitch(m, g) PROVE IInv'
<1> USE DEF IInv, ExecuteSwitch, ViewForId, Dispatch, SbIdsAgreeG0, SameContext, WriteCR3, SetVCPUAttributes, AssignSbIdG0, gvars, mvars, vvars
<1>a. gsb[g] = Domain(g) /\ gsb[g] \in Domains
  BY DomainTyped DEF IdInv
<1>1. TypeOK' BY IdAssumption, <1>a DEF TypeOK, Pcs, SbIds, Views, Domains
<1>2. StopInv' BY DEF StopInv, TypeOK
<1>3. RunInv' BY IdAssumption DEF RunInv, Busy, TypeOK
<1>4. DepthInv' BY DEF DepthInv, TypeOK
<1>5. IdInv' BY DomainKept, <1>a DEF IdInv, Stable, TypeOK, RunInv, Busy, Domains
<1>6. ViewInv' BY IdAssumption, <1>a DEF ViewInv, Stable, Claims, TypeOK, View, OwnInv, Owns, Domains
<1>7. OwnInv' BY DEF OwnInv, Owns, Claims, TypeOK
<1> QED BY <1>1, <1>2, <1>3, <1>4, <1>5, <1>6, <1>7

LEMMA CloneSpawnStep ==
  ASSUME IInv, NEW m \in Ms, NEW m2 \in Ms, CloneSpawn(m, m2) PROVE IInv'
<1> USE DEF IInv, CloneSpawn, AssignSbIdG0, ForgetVcpu, gvars, mvars, vvars
<1>1. TypeOK' BY DEF TypeOK, Pcs, SbIds
<1>2. StopInv' BY DEF StopInv, TypeOK
<1>3. RunInv' BY IdAssumption DEF RunInv, Busy, TypeOK
<1>4. DepthInv' BY DEF DepthInv, TypeOK
<1>5. IdInv' BY DomainKept DEF IdInv, Stable, TypeOK, RunInv, Busy, Domains, ViewInv
<1>6. ViewInv' BY IdAssumption DEF ViewInv, Stable, Claims, TypeOK, View
<1>7. OwnInv' BY DEF OwnInv, Owns, ViewInv, Claims, TypeOK
<1> QED BY <1>1, <1>2, <1>3, <1>4, <1>5, <1>6, <1>7

LEMMA PrologGetStep ==
  ASSUME Limits, IInv, NEW m \in Ms, NEW s \in Sandboxes, PrologGet(m, s)
  PROVE  IInv'
<1>1. CASE PoolEmpty /\ Crash("pool") BY <1>1, CrashStep DEF Crashes
<1>2. CASE ~(PoolEmpty /\ Crash("pool"))
  <2> USE <1>2 DEF IInv, PrologGet, GetVcpu, Claimable, AssignSbIdUser, CanEnter
  <2>a. curg[m] \in Gs /\ gbase[curg[m]] = OUT /\ frames[curg[m]] = <<>>
    BY CallsFromOutside
  <2>b. PICK v \in VCPUs :
          /\ GetVcpu(m, v) /\ AssignSbIdUser(m, GOD)
          /\ pc' = [pc EXCEPT ![m] = "prolog"] /\ goal' = [goal EXCEPT ![m] = s]
          /\ UNCHANGED <<gstat, gbase, frames, curg, guest, vcr3, vattr, crash>>
    OBVIOUS
  <2>1. TypeOK' BY <2>b DEF TypeOK, Pcs, SbIds, Domains
  <2>2. StopInv' BY <2>b DEF StopInv, TypeOK
  <2>3. RunInv' BY <2>b DEF RunInv, Busy, TypeOK
  <2>4. DepthInv' BY <2>b DEF DepthInv
  <2>5. IdInv' BY <2>a, <2>b, DomainKept DEF IdInv, Stable, TypeOK, RunInv, Busy, Domains
  <2>6. ViewInv' BY IdAssumption, <2>b DEF ViewInv, Stable, Claims, TypeOK, View
  <2>7. OwnInv' BY <2>b DEF OwnInv, Owns, Stable, Claims, ViewInv, TypeOK
  <2> QED BY <2>1, <2>2, <2>3, <2>4, <2>5, <2>6, <2>7
<1> QED BY <1>1, <1>2

LEMMA PrologEnterStep ==
  ASSUME IInv, NEW m \in Ms, PrologEnter(m) PROVE IInv'
<1>1. CASE ~(vstate[vcpu[m]] = "User")
  BY <1>1, CrashStep DEF PrologEnter, Crashes, EnterGuest
<1>2. CASE vstate[vcpu[m]] = "User"
  <2>0. /\ pc[m] = "prolog" /\ pc' = [pc EXCEPT ![m] = "user"]
        /\ goal' = [goal EXCEPT ![m] = OUT]
        /\ vstate' = [vstate EXCEPT ![vcpu[m]] = "Guest"]
        /\ guest' = [guest EXCEPT ![m] = TRUE]
        /\ vcr3' = [vcr3 EXCEPT ![vcpu[m]] = goal[m]]
        /\ vattr' = [vattr EXCEPT ![vcpu[m]] = goal[m]]
        /\ gsb' = [gsb EXCEPT ![curg[m]] = goal[m]]
        /\ msb' = [msb EXCEPT ![m] = goal[m]] /\ g0sb' = [g0sb EXCEPT ![m] = goal[m]]
        /\ frames' = [frames EXCEPT ![curg[m]] = Append(@, goal[m])]
        /\ UNCHANGED <<gstat, gbase, curg, vcpu, crash>>
    BY <1>2 DEF PrologEnter, EnterGuest, SetVCPUAttributes, AssignSbIdUser
  <2> USE <1>2, <2>0 DEF IInv
  <2>a. /\ curg[m] \in Gs /\ gbase[curg[m]] = OUT /\ frames[curg[m]] = <<>>
        /\ goal[m] \in Sandboxes
    BY DEF RunInv, Busy, IdInv, ViewInv, Claims
  <2>b. frames' = [frames EXCEPT ![curg[m]] = <<goal[m]>>]
    BY <2>a, PushPop DEF TypeOK
  <2>c. \A g \in Gs : Domain(g)' = IF g = curg[m] THEN goal[m] ELSE Domain(g)
    BY <2>a, <2>b, PushPop DEF Domain, TypeOK
  <2>1. TypeOK'
    <3>1. frames' \in [Gs -> Seq(Sandboxes)] BY <2>a, <2>b DEF TypeOK
    <3>2. /\ vcr3' \in [VCPUs -> Views] /\ vattr' \in [VCPUs -> Views]
          /\ vstate' \in [VCPUs -> {"Ready", "User", "Guest"}]
      BY <2>a DEF TypeOK, Views
    <3>3. gsb' \in [Gs -> SbIds] /\ msb' \in [Ms -> SbIds] /\ g0sb' \in [Ms -> SbIds]
      BY <2>a DEF TypeOK, SbIds
    <3>4. /\ pc' \in [Ms -> Pcs] /\ goal' \in [Ms -> Domains]
          /\ guest' \in [Ms -> BOOLEAN]
      BY DEF TypeOK, Pcs, Domains
    <3> QED BY <3>1, <3>2, <3>3, <3>4 DEF TypeOK
  <2>2. StopInv' BY DEF StopInv, TypeOK
  <2>3. RunInv' BY DEF RunInv, Busy, TypeOK
  <2>4. DepthInv' BY <2>a, <2>b DEF DepthInv, TypeOK
  <2>5. IdInv' BY <2>a, <2>c DEF IdInv, Stable, Domains, TypeOK, RunInv, Busy
  <2>6. ViewInv' BY IdAssumption, <2>a DEF ViewInv, Stable, Claims, TypeOK, View, OwnInv, Owns
  <2>7. OwnInv' BY DEF OwnInv, Owns, Claims, TypeOK, ViewInv
  <2> QED BY <2>1, <2>2, <2>3, <2>4, <2>5, <2>6, <2>7
<1> QED BY <1>1, <1>2

LEMMA EpilogStep ==
  ASSUME IInv, NEW m \in Ms, Epilog(m) PROVE IInv'
<1>1. CASE ~(SbIdsAgreeUser(m) /\ vcpu[m] # NoV /\ msb[m] = Domain(curg[m]))
  BY <1>1, CrashStep DEF Epilog, Crashes
<1>2. CASE SbIdsAgreeUser(m) /\ vcpu[m] # NoV /\ msb[m] = Domain(curg[m])
  <2>0. /\ pc[m] = "user" /\ frames[curg[m]] # <<>>
        /\ vcr3' = IF guest[m] THEN [vcr3 EXCEPT ![vcpu[m]] = GOD] ELSE vcr3
        /\ gsb' = [gsb EXCEPT ![curg[m]] = OUT]
        /\ msb' = [msb EXCEPT ![m] = OUT] /\ g0sb' = [g0sb EXCEPT ![m] = OUT]
        /\ frames' = [frames EXCEPT ![curg[m]] = SubSeq(@, 1, Len(@) - 1)]
        /\ UNCHANGED <<gstat, gbase, pc, curg, goal, vcpu, guest, vstate, vattr, crash>>
    BY <1>2 DEF Epilog, WriteCR3, AssignSbIdUser
  <2> USE <1>2, <2>0 DEF IInv
  <2>a. PICK s \in Sandboxes :
          curg[m] \in Gs /\ gbase[curg[m]] = OUT /\ frames[curg[m]] = <<s>>
    BY DEF RunInv, Busy, DepthInv
  <2>b. frames' = [frames EXCEPT ![curg[m]] = <<>>]
    BY <2>a, PushPop DEF TypeOK
  <2>c. \A g \in Gs : Domain(g)' = IF g = curg[m] THEN OUT ELSE Domain(g)
    BY <2>a, <2>b DEF Domain, TypeOK
  <2>1. TypeOK' BY <2>a, <2>b DEF TypeOK, Pcs, SbIds, Views, Domains
  <2>2. StopInv' BY DEF StopInv, TypeOK
  <2>3. RunInv' BY IdAssumption DEF RunInv, Busy, TypeOK
  <2>4. DepthInv' BY <2>a, <2>b DEF DepthInv, TypeOK
  <2>5. IdInv' BY <2>a, <2>c DEF IdInv, Stable, Domains, TypeOK, RunInv, Busy
  <2>6. ViewInv' BY IdAssumption, <2>a DEF ViewInv, Stable, Claims, TypeOK, View, OwnInv, Owns
  <2>7. OwnInv' BY DEF OwnInv, Owns, Claims, TypeOK
  <2> QED BY <2>1, <2>2, <2>3, <2>4, <2>5, <2>6, <2>7
<1> QED BY <1>1, <1>2

LEMMA ExecuteEnterStep ==
  ASSUME IInv, NEW m \in Ms, ExecuteEnter(m) PROVE IInv'
<1>1. CASE ~(vstate[vcpu[m]] = "User")
  BY <1>1, CrashStep DEF ExecuteEnter, Crashes, EnterGuest
<1>2. CASE vstate[vcpu[m]] = "User"
  <2>0. /\ pc[m] = "exec" /\ pc' = [pc EXCEPT ![m] = "user"]
        /\ goal' = [goal EXCEPT ![m] = OUT]
        /\ vstate' = [vstate EXCEPT ![vcpu[m]] = "Guest"]
        /\ guest' = [guest EXCEPT ![m] = TRUE]
        /\ vcr3' = [vcr3 EXCEPT ![vcpu[m]] = goal[m]]
        /\ vattr' = [vattr EXCEPT ![vcpu[m]] = goal[m]]
        /\ msb' = [msb EXCEPT ![m] = goal[m]] /\ g0sb' = [g0sb EXCEPT ![m] = goal[m]]
        /\ UNCHANGED <<gstat, gbase, frames, gsb, curg, vcpu, crash>>
    BY <1>2 DEF ExecuteEnter, EnterGuest, SetVCPUAttributes, AssignSbIdG0
  <2> USE <1>2, <2>0 DEF IInv
  <2>a. goal[m] \in Sandboxes BY DEF ViewInv, Claims
  <2>1. TypeOK' BY <2>a DEF TypeOK, Pcs, SbIds, Views, Domains
  <2>2. StopInv' BY DEF StopInv, TypeOK
  <2>3. RunInv' BY IdAssumption DEF RunInv, Busy, TypeOK
  <2>4. DepthInv' BY DEF DepthInv, TypeOK
  <2>5. IdInv' BY <2>a, DomainKept DEF IdInv, Stable, Domains, TypeOK, RunInv, Busy
  <2>6. ViewInv' BY IdAssumption, <2>a DEF ViewInv, Stable, Claims, TypeOK, View, OwnInv, Owns
  <2>7. OwnInv' BY DEF OwnInv, Owns, Claims, TypeOK, ViewInv
  <2> QED BY <2>1, <2>2, <2>3, <2>4, <2>5, <2>6, <2>7
<1> QED BY <1>1, <1>2

LEMMA CloneExitStep ==
  ASSUME Limits, IInv, NEW m \in Ms, NEW m2 \in Ms, CloneExit(m, m2) PROVE IInv'
<1>1. CASE ~(SbIdsAgreeG0(m) /\ (msb[m] = OUT \/ vcpu[m] # NoV))
  BY <1>1, CrashStep DEF CloneExit, Crashes
<1>2. CASE SbIdsAgreeG0(m) /\ (msb[m] = OUT \/ vcpu[m] # NoV)
  <2>0. /\ pc[m] \in CloneFrom /\ pc[m2] = "none"
        /\ \/ /\ vcpu[m] # NoV
              /\ vstate' = [vstate EXCEPT ![vcpu[m]] = "Ready"]
              /\ guest' = [guest EXCEPT ![m] = FALSE]
           \/ vcpu[m] = NoV /\ UNCHANGED <<vstate, guest>>
        /\ pc' = [pc EXCEPT ![m] = "bail", ![m2] = "cloning"]
        /\ UNCHANGED <<gstat, gbase, frames, gsb, curg, goal, msb, g0sb, vcpu>>
        /\ UNCHANGED <<vcr3, vattr, crash>>
    BY <1>2 DEF CloneExit, LeaveGuest, gvars
  <2> USE <1>2, <2>0 DEF IInv
  <2>a. pc[m] = "sched" BY DEF Limits
  <2>1. TypeOK' BY DEF TypeOK, Pcs
  <2>2. StopInv' BY DEF StopInv, TypeOK
  <2>3. RunInv' BY <2>a DEF RunInv, Busy, TypeOK
  <2>4. DepthInv' BY DEF DepthInv, TypeOK
  <2>5. IdInv' BY <2>a, DomainKept DEF IdInv, Stable, Domains, TypeOK, RunInv, Busy
  <2>6. ViewInv' BY <2>a DEF ViewInv, Stable, Claims, TypeOK, View, OwnInv, Owns
  <2>7. OwnInv' BY <2>a DEF OwnInv, Owns, Stable, Claims, TypeOK, ViewInv
  <2> QED BY <2>1, <2>2, <2>3, <2>4, <2>5, <2>6, <2>7
<1> QED BY <1>1, <1>2

LEMMA ExecuteGetStep ==
  ASSUME IInv, NEW m \in Ms, NEW g \in Gs, ExecuteGet(m, g) PROVE IInv'
<1> USE DEF IInv, ExecuteGet, Dispatch, GetVcpu, Claimable, SameContext, AssignSbIdG0, gvars, mvars
<1>a. gsb[g] = Domain(g) /\ gsb[g] \in Sandboxes BY DomainTyped DEF IdInv, Domains
<1>b. PICK v \in VCPUs : GetVcpu(m, v) OBVIOUS
<1>1. TypeOK' BY <1>a, <1>b DEF TypeOK, Pcs, SbIds, Domains
<1>2. StopInv' BY DEF StopInv, TypeOK
<1>3. RunInv' BY IdAssumption DEF RunInv, Busy, TypeOK
<1>4. DepthInv' BY DEF DepthInv
<1>5. IdInv' BY <1>a, DomainKept DEF IdInv, Stable, TypeOK, RunInv, Busy, Domains
<1>6. ViewInv' BY IdAssumption, <1>a, <1>b DEF ViewInv, Stable, Claims, TypeOK, View
<1>7. OwnInv' BY <1>b DEF OwnInv, Owns, Stable, Claims, ViewInv, TypeOK
<1> QED BY <1>1, <1>2, <1>3, <1>4, <1>5, <1>6, <1>7

LEMMA ExecuteFailsStep ==
  ASSUME IInv, NEW m \in Ms, NEW g \in Gs, ExecuteFails(m, g) PROVE IInv'
BY CrashStep DEF ExecuteFails, Crashes

-----------------------------------------------------------------------------
(* The results.                                                             *)

LEMMA InitInv == Init => IInv
<1> SUFFICES ASSUME Init PROVE IInv OBVIOUS
<1> USE IdAssumption DEF Init
<1>1. TypeOK
  BY DEF TypeOK, Domains, SbIds, Views, Pcs, Crashes
<1>2. StopInv /\ RunInv /\ DepthInv
  BY DEF StopInv, RunInv, DepthInv, Busy
<1>3. IdInv BY DEF IdInv, Stable, Domains, Domain
<1>4. ViewInv /\ OwnInv
  BY DEF ViewInv, OwnInv, Owns, Stable, Claims
<1> QED BY <1>1, <1>2, <1>3, <1>4 DEF IInv

LEMMA NextInv == ASSUME Limits, IInv, [Next]_vars PROVE IInv'
<1>1. CASE UNCHANGED vars BY <1>1, StopStep DEF IInv, TypeOK, StopInv, RunInv,
  DepthInv, IdInv, ViewInv, OwnInv, vars, gvars, mvars, vvars, Owns, Domain
<1>2. ASSUME NEW m \in Ms, GoroutineStep(m) PROVE IInv'
  BY <1>2, PrologSwitchStep, PrologGetStep, PrologEnterStep, EpilogStep,
     ParkStep, GoExitStep, EnterSyscallStep, ExitSyscallStep, ExitSyscall0Step,
     NewprocStep DEF GoroutineStep
<1>3. ASSUME NEW m \in Ms, SchedulerStep(m) PROVE IInv'
  BY <1>3, ExecuteSameStep, ExecuteSwitchStep, ExecuteGetStep, ExecuteEnterStep,
     ExecuteFailsStep, CloneExitStep, CloneSpawnStep DEF SchedulerStep
<1>4. ASSUME NEW g \in Gs, Ready(g) PROVE IInv' BY <1>4, ReadyStep
<1>5. CASE Stop BY <1>5, StopStep
<1> QED BY <1>1, <1>2, <1>3, <1>4, <1>5 DEF Next

\* The strengthened invariant of the hooks and the scheduler.
THEOREM Inductive == ASSUME Limits PROVE Spec => []IInv
<1>1. Init => IInv BY InitInv
<1>2. IInv /\ [Next]_vars => IInv' BY NextInv
<1> QED BY <1>1, <1>2, PTL DEF Spec

\* Every variable of the model keeps its type.
THEOREM TypeCorrect == ASSUME Limits PROVE Spec => []TypeOK
BY Inductive, PTL DEF IInv

\* Every thread that runs a goroutine sees the address space of the enclosure
\* whose code the goroutine is in, and God's outside of all (Prolog, Epilog,
\* Execute and newm1 together).
THEOREM Confinement == ASSUME Limits PROVE Spec => []Confined
<1>1. IInv => Confined
  BY DEF IInv, Confined, Running, ViewOf, ViewInv, IdInv, RunInv, OwnInv, Owns,
         Busy, Stable, View
<1> QED BY <1>1, Inductive, PTL

\* The Memview and Sysfilter that serve an enclosure's faults and system calls
\* are its own.
THEOREM Filtering == ASSUME Limits PROVE Spec => []FilterMatches
<1>1. IInv => FilterMatches
  BY DEF IInv, FilterMatches, Running, ViewInv, IdInv, Stable
<1> QED BY <1>1, Inductive, PTL

\* execute() can restore a waiting goroutine's view from g.sbid alone.
THEOREM IdsFollow == ASSUME Limits PROVE Spec => []SbIdsFollow
<1>1. IInv => SbIdsFollow BY DEF IInv, SbIdsFollow, IdInv
<1> QED BY <1>1, Inductive, PTL

\* A thread, its goroutine and its g0 never disagree on the sandbox.
THEOREM IdsAgree == ASSUME Limits PROVE Spec => []SbIdsAgree
<1>1. IInv => SbIdsAgree
  BY DEF IInv, SbIdsAgree, SbIdsAgreeUser, Running, IdInv
<1> QED BY <1>1, Inductive, PTL

\* No two threads execute on one vCPU, and Machine.Get cannot hand out one
\* that is in use.
THEOREM Exclusion == ASSUME Limits PROVE Spec => []VcpuExclusive
<1>1. IInv => VcpuExclusive
  BY DEF IInv, VcpuExclusive, OwnInv, Owns, Claims
<1> QED BY <1>1, Inductive, PTL

LEMMA OnlyPoolStep ==
  ASSUME Limits, IInv, OnlyPoolFails, [Next]_vars PROVE OnlyPoolFails'
<1> USE DEF OnlyPoolFails
<1>1. CASE crash' = crash BY <1>1
<1>2. ASSUME NEW m \in Ms, PrologEnter(m) \/ ExecuteEnter(m) PROVE OnlyPoolFails'
  <2>1. vstate[vcpu[m]] = "User"
    BY <1>2 DEF IInv, OwnInv, ViewInv, Owns, Claims, PrologEnter, ExecuteEnter
  <2> QED BY <1>2, <2>1 DEF PrologEnter, ExecuteEnter
<1>3. ASSUME NEW m \in Ms, Epilog(m) PROVE OnlyPoolFails'
  <2>1. PICK s \in Sandboxes :
          curg[m] \in Gs /\ gbase[curg[m]] = OUT /\ frames[curg[m]] = <<s>>
    BY <1>3 DEF Epilog, IInv, RunInv, Busy, DepthInv
  <2>2. Domain(curg[m]) = s /\ s # OUT BY <2>1, PushPop, IdAssumption DEF Domain
  <2>3. SbIdsAgreeUser(m) /\ msb[m] = Domain(curg[m])
    BY <1>3 DEF Epilog, SbIdsAgreeUser, IInv, IdInv
  <2>4. vcpu[m] # NoV BY <1>3, <2>2, <2>3 DEF Epilog, IInv, ViewInv, Stable
  <2> QED BY <1>3, <2>3, <2>4 DEF Epilog
<1>4. ASSUME NEW m \in Ms, NEW m2 \in Ms, CloneExit(m, m2) PROVE OnlyPoolFails'
  <2>1. SbIdsAgreeG0(m) /\ (msb[m] = OUT \/ vcpu[m] # NoV)
    BY <1>4 DEF Limits, CloneExit, SbIdsAgreeG0, IInv, IdInv, ViewInv, Stable
  <2> QED BY <1>4, <2>1 DEF CloneExit
<1>5. ASSUME NEW m \in Ms, NEW g \in Gs, ExecuteFails(m, g) PROVE OnlyPoolFails'
  <2>1. SbIdsAgreeG0(m) /\ (msb[m] = OUT \/ vcpu[m] # NoV)
    BY <1>5 DEF ExecuteFails, SbIdsAgreeG0, IInv, IdInv, ViewInv, Stable
  <2> QED BY <1>5, <2>1 DEF ExecuteFails, Crash
<1>6. ASSUME NEW m \in Ms, NEW s \in Sandboxes, PrologGet(m, s)
      PROVE  OnlyPoolFails'
  BY <1>6 DEF PrologGet, Crash
<1>7. ASSUME NEW m \in Ms, GoroutineStep(m) PROVE OnlyPoolFails'
  BY <1>1, <1>2, <1>3, <1>6, <1>7
  DEF GoroutineStep, PrologSwitch, Park, GoExit, EnterSyscall, ExitSyscall,
      ExitSyscall0, Newproc
<1>8. ASSUME NEW m \in Ms, SchedulerStep(m) PROVE OnlyPoolFails'
  BY <1>1, <1>2, <1>4, <1>5, <1>8
  DEF SchedulerStep, ExecuteSame, ExecuteSwitch, ExecuteGet, CloneSpawn
<1> QED BY <1>1, <1>7, <1>8 DEF Next, Ready, Stop, vars

\* Every throw and Check of the hooks holds, but for the pool's size.
THEOREM NoFailedCheck == ASSUME Limits PROVE Spec => []OnlyPoolFails
<1>1. Init => OnlyPoolFails BY DEF Init, OnlyPoolFails
<1>2. IInv /\ OnlyPoolFails /\ [Next]_vars => OnlyPoolFails' BY OnlyPoolStep
<1> QED BY <1>1, <1>2, Inductive, PTL DEF Spec
-----------------------------------------------------------------------------
(* The hooks and the scheduler implement Enclosures.  What a thread sees is, *)
(* by the invariant, a function of the goroutine it runs: so each action     *)
(* needs to account only for what it does to goroutines.                     *)

\* The abstract state, as E's substitution defines it.
Alive == {g \in Gs : gstat[g] # "dead"}
On    == [m \in Ms |-> IF Executing(m) THEN curg[m] ELSE NoG]
Sees  == [m \in Ms |-> IF Executing(m) THEN ViewOf(m) ELSE GOD]

DomainView(g) == E!ViewFor(E!Top(gbase[g], frames[g]))

\* A thread runs a goroutine of Gs that no other thread runs, or none.
OnOK ==
  \A m \in Ms :
    /\ Executing(m) => /\ On[m] = curg[m] /\ On[m] \in Gs /\ On[m] # NoG
                       /\ gstat[On[m]] = "running"
    /\ ~Executing(m) => On[m] = NoG

\* What a thread sees follows from the goroutine it runs.
SeesOK == Sees = [m \in Ms |-> IF On[m] = NoG THEN GOD ELSE DomainView(On[m])]

LEMMA OnIs == IInv => OnOK
BY IdAssumption DEF IInv, OnOK, On, Executing, RunInv, Busy

LEMMA SeesIs == IInv => SeesOK
<1> SUFFICES ASSUME IInv, NEW m \in Ms
             PROVE  Sees[m] = IF On[m] = NoG THEN GOD ELSE DomainView(On[m])
  BY DEF SeesOK, Sees
<1>1. CASE ~Executing(m) BY <1>1, OnIs DEF Sees, OnOK
<1>2. CASE Executing(m) /\ pc[m] # "prolog"
  <2>1. On[m] = curg[m] /\ On[m] # NoG BY <1>2, OnIs DEF OnOK
  <2>2. ViewOf(m) = View(Domain(curg[m]))
    BY <1>2 DEF IInv, Executing, ViewOf, ViewInv, IdInv, Stable, View
  <2> QED BY <1>2, <2>1, <2>2 DEF Sees, View, Domain, DomainView, E!ViewFor, E!Top
<1>3. CASE pc[m] = "prolog"
  <2>1. On[m] = curg[m] /\ On[m] # NoG BY <1>3, OnIs DEF Executing, OnOK
  <2>2. ~guest[m] /\ gbase[curg[m]] = OUT /\ frames[curg[m]] = <<>>
    BY <1>3 DEF IInv, ViewInv, IdInv, Claims
  <2> QED BY <1>3, <2>1, <2>2 DEF Sees, Executing, ViewOf, DomainView,
                                  E!ViewFor, E!Top
<1> QED BY <1>1, <1>2, <1>3

LEMMA NextIs == IInv' => OnOK' /\ SeesOK'
BY OnIs, SeesIs, PTL

-----------------------------------------------------------------------------
(* Steps the abstract specification does not see, and the steps it does.    *)

LEMMA Stutter ==
  ASSUME IInv, IInv', UNCHANGED <<Alive, gbase, frames, On>>
  PROVE  UNCHANGED E!avars
<1>1. \A m \in Ms : On[m] # NoG => On[m] \in Gs BY OnIs DEF OnOK
<1>2. \A g \in Gs : DomainView(g)' = DomainView(g)
  BY DEF DomainView, E!ViewFor, E!Top
<1>3. Sees' = Sees BY <1>1, <1>2, SeesIs, NextIs DEF SeesOK
<1> QED BY <1>3 DEF E!avars, Alive, On, Sees

\* A thread stops running its goroutine.
LEMMA Yields ==
  ASSUME IInv, IInv', NEW m \in Ms, Executing(m),
         On' = [On EXCEPT ![m] = NoG], UNCHANGED <<Alive, gbase, frames>>
  PROVE  E!Yield(m)
<1>1. ASSUME NEW n \in Ms PROVE Sees'[n] = IF n = m THEN GOD ELSE Sees[n]
  <2>1. CASE n = m BY <2>1, NextIs DEF SeesOK, On
  <2>2. CASE n # m
    <3>1. On'[n] = On[n] BY <2>2 DEF On
    <3> QED BY <2>2, <3>1, SeesIs, NextIs DEF SeesOK, DomainView, E!ViewFor, E!Top
  <2> QED BY <2>1, <2>2
<1>2. Sees' = [Sees EXCEPT ![m] = GOD] BY <1>1 DEF Sees
<1> QED BY <1>2, OnIs DEF E!Yield, Alive, On, Sees, OnOK

\* A thread starts to run goroutine g.
LEMMA Runs ==
  ASSUME IInv, IInv', NEW m \in Ms, NEW g \in Gs, ~Executing(m),
         gstat[g] # "dead", \A n \in Ms : On[n] # g,
         On' = [On EXCEPT ![m] = g], UNCHANGED <<Alive, gbase, frames>>
  PROVE  E!Run(m, g)
<1>1. ASSUME NEW n \in Ms
      PROVE  Sees'[n] = IF n = m THEN DomainView(g) ELSE Sees[n]
  <2>1. CASE n = m
    <3>1. On'[m] = g /\ g # NoG BY IdAssumption DEF On
    <3> QED BY <2>1, <3>1, NextIs DEF SeesOK, DomainView, E!ViewFor, E!Top
  <2>2. CASE n # m
    <3>1. On'[n] = On[n] BY <2>2 DEF On
    <3> QED BY <2>2, <3>1, SeesIs, NextIs DEF SeesOK, DomainView, E!ViewFor, E!Top
  <2> QED BY <2>1, <2>2
<1>2. Sees' = [Sees EXCEPT ![m] = DomainView(g)] BY <1>1 DEF Sees
<1> QED BY <1>2, OnIs DEF E!Run, Alive, On, Sees, OnOK, DomainView

\* A crash leaves no thread running.
LEMMA Halts ==
  ASSUME IInv, IInv', NEW w, Crash(w) PROVE E!Halt
<1>1. \A m \in Ms : ~Executing(m)' BY DEF Executing, Crash
<1>2. On' = [m \in Ms |-> NoG] /\ Sees' = [m \in Ms |-> GOD]
  BY <1>1 DEF On, Sees
<1> QED BY <1>2 DEF E!Halt, On, Sees, Crash, gvars

\* Goroutine g of thread m comes to stand in another frame.
LEMMA Steps ==
  ASSUME IInv, IInv', NEW m \in Ms, Executing(m),
         UNCHANGED <<Alive, gbase, On>>,
         \A g \in Gs \ {On[m]} : frames'[g] = frames[g]
  PROVE  Sees' = [Sees EXCEPT ![m] = DomainView(On[m])']
<1>1. ASSUME NEW n \in Ms
      PROVE  Sees'[n] = IF n = m THEN DomainView(On[m])' ELSE Sees[n]
  <2>1. CASE n = m
    BY <2>1, OnIs, NextIs DEF SeesOK, OnOK, DomainView, E!ViewFor, E!Top
  <2>2. CASE n # m
    <3>1. On[n] # NoG => On[n] # On[m] /\ On[n] \in Gs
      BY <2>2, OnIs DEF OnOK, IInv, RunInv, Busy, Executing
    <3> QED BY <2>2, <3>1, SeesIs, NextIs DEF SeesOK, DomainView, E!ViewFor, E!Top
  <2> QED BY <2>1, <2>2
<1> QED BY <1>1 DEF Sees

LEMMA Enters ==
  ASSUME IInv, IInv', NEW m \in Ms, NEW s \in Sandboxes, Executing(m),
         UNCHANGED <<Alive, gbase, On>>,
         frames' = [frames EXCEPT ![On[m]] = Append(@, s)]
  PROVE  E!Enter(m, s)
<1>1. On[m] \in Gs /\ On[m] # NoG /\ frames[On[m]] \in Seq(Sandboxes)
  BY OnIs DEF OnOK, IInv, TypeOK
<1>2. DomainView(On[m])' = s
  <2>1. frames'[On[m]] = Append(frames[On[m]], s) BY <1>1 DEF IInv, TypeOK
  <2>2. ASSUME NEW q \in Seq(Sandboxes)
        PROVE  Append(q, s) # <<>> /\ Append(q, s)[Len(Append(q, s))] = s
    BY AppendProperties
  <2>3. frames'[On'[m]] # <<>> /\ frames'[On'[m]][Len(frames'[On'[m]])] = s
    BY <1>1, <2>1, <2>2
  <2> QED BY <2>3, IdAssumption DEF DomainView, E!ViewFor, E!Top
<1> QED BY <1>1, <1>2, Steps DEF E!Enter, Alive, On, Sees

-----------------------------------------------------------------------------
(* Each action of EncSwitch, as a step of Enclosures.                       *)

LEMMA EnteringSteps ==
  ASSUME Limits, IInv, IInv', NEW m \in Ms, NEW s \in Sandboxes,
         PrologSwitch(m, s) \/ PrologGet(m, s) \/ PrologEnter(m)
  PROVE  [E!ANext]_E!avars
<1>1. CASE PrologSwitch(m, s)
  <2>1. Executing(m) /\ On[m] = curg[m] BY <1>1 DEF PrologSwitch, CanEnter, Executing, On
  <2>2. UNCHANGED <<Alive, gbase, On>> BY <1>1 DEF PrologSwitch, Alive, On, Executing
  <2>3. E!Enter(m, s) BY <1>1, <2>1, <2>2, Enters DEF PrologSwitch
  <2> QED BY <2>3 DEF E!ANext
<1>2. CASE PrologGet(m, s)
  <2>1. CASE PoolEmpty /\ Crash("pool") BY <2>1, Halts DEF E!ANext
  <2>2. CASE ~(PoolEmpty /\ Crash("pool"))
    <3>1. /\ UNCHANGED <<gstat, gbase, frames, curg>> /\ pc[m] = "user"
          /\ pc' = [pc EXCEPT ![m] = "prolog"]
      BY <1>2, <2>2 DEF PrologGet, CanEnter
    <3>2. UNCHANGED <<Alive, gbase, frames, On>>
      BY <3>1 DEF Alive, On, Executing, IInv, TypeOK
    <3> QED BY <3>2, Stutter
  <2> QED BY <2>1, <2>2
<1>3. CASE PrologEnter(m)
  <2>1. CASE vstate[vcpu[m]] # "User" BY <1>3, <2>1, Halts DEF PrologEnter, EnterGuest, E!ANext
  <2>2. CASE vstate[vcpu[m]] = "User"
    <3>1. /\ UNCHANGED <<gstat, gbase, curg>> /\ pc[m] = "prolog"
          /\ pc' = [pc EXCEPT ![m] = "user"]
          /\ frames' = [frames EXCEPT ![curg[m]] = Append(@, goal[m])]
      BY <1>3, <2>2 DEF PrologEnter
    <3>2. Executing(m) /\ On[m] = curg[m] BY <3>1 DEF Executing, On
    <3>3. UNCHANGED <<Alive, gbase, On>>
      BY <3>1 DEF Alive, On, Executing, IInv, TypeOK
    <3>4. goal[m] \in Sandboxes BY <3>1 DEF IInv, ViewInv, Claims
    <3>5. E!Enter(m, goal[m]) BY <3>1, <3>2, <3>3, <3>4, Enters
    <3> QED BY <3>4, <3>5 DEF E!ANext
  <2> QED BY <2>1, <2>2
<1> QED BY <1>1, <1>2, <1>3

LEMMA LeavingStep ==
  ASSUME IInv, IInv', NEW m \in Ms, Epilog(m) PROVE [E!ANext]_E!avars
<1>1. CASE ~(SbIdsAgreeUser(m) /\ vcpu[m] # NoV /\ msb[m] = Domain(curg[m]))
  BY <1>1, Halts DEF Epilog, E!ANext
<1>2. CASE SbIdsAgreeUser(m) /\ vcpu[m] # NoV /\ msb[m] = Domain(curg[m])
  <2>1. /\ UNCHANGED <<gstat, gbase, curg, pc>> /\ pc[m] = "user"
        /\ frames[curg[m]] # <<>>
        /\ frames' = [frames EXCEPT ![curg[m]] = SubSeq(@, 1, Len(@) - 1)]
    BY <1>2 DEF Epilog
  <2>2. Executing(m) /\ On[m] = curg[m] BY <2>1 DEF Executing, On
  <2>3. UNCHANGED <<Alive, gbase, On>> BY <2>1 DEF Alive, On, Executing
  <2>4. Sees' = [Sees EXCEPT ![m] = DomainView(On[m])']
    BY <2>1, <2>2, <2>3, Steps
  <2>5. E!Leave(m)
    BY <2>1, <2>2, <2>3, <2>4, OnIs DEF E!Leave, Alive, On, Sees, OnOK, DomainView
  <2> QED BY <2>5 DEF E!ANext
<1> QED BY <1>1, <1>2

LEMMA CreatingSteps ==
  ASSUME IInv, IInv', NEW m \in Ms, NEW c \in Gs, Newproc(m, c) \/ GoExit(m)
  PROVE  [E!ANext]_E!avars
<1>1. CASE Newproc(m, c)
  <2>1. /\ pc[m] = "user" /\ gstat[c] = "dead" /\ UNCHANGED <<pc, curg>>
        /\ gstat' = [gstat EXCEPT ![c] = "runnable"]
        /\ gbase' = [gbase EXCEPT ![c] = Domain(curg[m])]
        /\ frames' = [frames EXCEPT ![c] = <<>>]
    BY <1>1 DEF Newproc, mvars
  <2>2. Executing(m) /\ On[m] = curg[m] BY <2>1 DEF Executing, On
  <2>3. Alive' = Alive \cup {c} /\ On' = On
    BY <2>1 DEF Alive, On, Executing, IInv, TypeOK
  <2>4. \A n \in Ms : On[n] # NoG => On[n] \in Gs \ {c} BY <2>1, OnIs DEF OnOK
  <2>5. \A g \in Gs \ {c} : DomainView(g)' = DomainView(g)
    BY <2>1 DEF DomainView, E!ViewFor, E!Top, IInv, TypeOK
  <2>6. Sees' = Sees BY <2>3, <2>4, <2>5, SeesIs, NextIs DEF SeesOK
  <2>7. E!Spawn(m, c)
    BY <2>1, <2>2, <2>3, <2>6, OnIs
    DEF E!Spawn, Alive, On, Sees, OnOK, Domain, E!Top
  <2> QED BY <2>7 DEF E!ANext
<1>2. CASE GoExit(m)
  <2>1. /\ pc[m] = "user" /\ frames[curg[m]] = <<>>
        /\ gstat' = [gstat EXCEPT ![curg[m]] = "dead"]
        /\ gbase' = [gbase EXCEPT ![curg[m]] = OUT]
        /\ curg' = [curg EXCEPT ![m] = NoG] /\ pc' = [pc EXCEPT ![m] = "sched"]
        /\ UNCHANGED frames
    BY <1>2 DEF GoExit
  <2>2. Executing(m) /\ On[m] = curg[m] BY <2>1 DEF Executing, On
  <2>3. On' = [On EXCEPT ![m] = NoG] BY <2>1 DEF On, Executing, IInv, TypeOK
  <2>4. Alive' = Alive \ {On[m]}
    BY <2>1, <2>2, OnIs DEF Alive, OnOK, IInv, TypeOK
  <2>5. ASSUME NEW n \in Ms PROVE Sees'[n] = IF n = m THEN GOD ELSE Sees[n]
    <3>1. CASE n = m BY <3>1, <2>3, NextIs DEF SeesOK, On
    <3>2. CASE n # m
      <4>1. On'[n] = On[n] BY <3>2, <2>3 DEF On
      <4>2. On[n] # NoG => On[n] # On[m] /\ On[n] \in Gs
        BY <3>2, <2>2, OnIs DEF OnOK, IInv, RunInv, Busy, Executing
      <4> QED BY <2>1, <2>2, <3>2, <4>1, <4>2, SeesIs, NextIs
              DEF SeesOK, DomainView, E!ViewFor, E!Top
    <3> QED BY <3>1, <3>2
  <2>6. Sees' = [Sees EXCEPT ![m] = GOD] BY <2>5 DEF Sees
  <2>7. E!Finish(m)
    BY <2>1, <2>2, <2>3, <2>4, <2>6, OnIs DEF E!Finish, Alive, On, Sees, OnOK
  <2> QED BY <2>7 DEF E!ANext
<1> QED BY <1>1, <1>2

LEMMA SchedulingSteps ==
  ASSUME IInv, IInv', NEW m \in Ms, NEW g \in Gs,
         ExecuteSame(m, g) \/ ExecuteSwitch(m, g) \/ ExecuteGet(m, g)
           \/ ExecuteFails(m, g) \/ ExecuteEnter(m)
  PROVE  [E!ANext]_E!avars
<1>1. ASSUME Dispatch(m, g)
      PROVE  /\ UNCHANGED <<Alive, gbase, frames>> /\ ~Executing(m)
             /\ gstat[g] # "dead" /\ \A n \in Ms : On[n] # g
  BY <1>1, OnIs, IdAssumption DEF Dispatch, Alive, Executing, OnOK, On, IInv, TypeOK
<1>2. CASE ExecuteSame(m, g) \/ ExecuteSwitch(m, g)
  <2>1. Dispatch(m, g) /\ pc' = [pc EXCEPT ![m] = "user"]
    BY <1>2 DEF ExecuteSame, ExecuteSwitch, ViewForId
  <2>2. On' = [On EXCEPT ![m] = g]
    BY <2>1 DEF Dispatch, On, Executing, IInv, TypeOK
  <2>3. E!Run(m, g) BY <1>1, <2>1, <2>2, Runs
  <2> QED BY <2>3 DEF E!ANext
<1>3. CASE ExecuteGet(m, g)
  <2>1. Dispatch(m, g) /\ pc' = [pc EXCEPT ![m] = "exec"] BY <1>3 DEF ExecuteGet
  <2>2. On' = On BY <2>1 DEF Dispatch, On, Executing, IInv, TypeOK
  <2> QED BY <1>1, <2>1, <2>2, Stutter
<1>4. CASE ExecuteFails(m, g) BY <1>4, Halts DEF ExecuteFails, E!ANext
<1>5. CASE ExecuteEnter(m)
  <2>1. CASE vstate[vcpu[m]] # "User"
    BY <1>5, <2>1, Halts DEF ExecuteEnter, EnterGuest, E!ANext
  <2>2. CASE vstate[vcpu[m]] = "User"
    <3>1. /\ UNCHANGED <<gstat, gbase, frames, curg>> /\ pc[m] = "exec"
          /\ pc' = [pc EXCEPT ![m] = "user"]
      BY <1>5, <2>2 DEF ExecuteEnter
    <3>2. PICK h \in Gs : curg[m] = h /\ gstat[h] = "running" /\ ~Executing(m)
      BY <3>1 DEF IInv, RunInv, Busy, Executing
    <3>3. \A n \in Ms : On[n] # h
      BY <3>1, <3>2, IdAssumption DEF IInv, RunInv, Busy, Executing, On
    <3>4. On' = [On EXCEPT ![m] = h]
      BY <3>1, <3>2 DEF On, Executing, IInv, TypeOK
    <3>5. E!Run(m, h) BY <3>1, <3>2, <3>3, <3>4, Runs DEF Alive
    <3> QED BY <3>5 DEF E!ANext
  <2> QED BY <2>1, <2>2
<1> QED BY <1>2, <1>3, <1>4, <1>5

LEMMA YieldingSteps ==
  ASSUME IInv, IInv', NEW m \in Ms, Park(m) \/ ExitSyscall0(m)
  PROVE  [E!ANext]_E!avars
<1>1. /\ Executing(m) /\ UNCHANGED <<gbase, frames>>
      /\ \E st \in {"waiting", "runnable"} : gstat' = [gstat EXCEPT ![curg[m]] = st]
      /\ curg' = [curg EXCEPT ![m] = NoG] /\ pc' = [pc EXCEPT ![m] = "sched"]
  BY DEF Park, ExitSyscall0, Executing
<1>2. On' = [On EXCEPT ![m] = NoG] BY <1>1 DEF On, Executing, IInv, TypeOK
<1>3. Alive' = Alive
  <2>1. curg[m] \in Gs /\ gstat[curg[m]] = "running" BY <1>1, OnIs DEF OnOK
  <2>2. \A g \in Gs : gstat'[g] = "dead" <=> gstat[g] = "dead"
    BY <1>1, <2>1 DEF IInv, TypeOK
  <2> QED BY <2>2 DEF Alive
<1> QED BY <1>1, <1>2, <1>3, Yields DEF E!ANext

\* Waking a goroutine, changing between code and system call, cloning a thread
\* and stopping change nothing a program can tell.
LEMMA InternalSteps ==
  ASSUME Limits, IInv, IInv', NEW m \in Ms, NEW m2 \in Ms, NEW g \in Gs,
         \/ EnterSyscall(m) \/ ExitSyscall(m) \/ Ready(g) \/ Stop
         \/ CloneExit(m, m2) \/ CloneSpawn(m, m2)
  PROVE  [E!ANext]_E!avars
<1>1. CASE EnterSyscall(m) \/ ExitSyscall(m)
  <2>1. UNCHANGED <<Alive, gbase, frames, On>>
    BY <1>1 DEF EnterSyscall, ExitSyscall, gvars, Alive, On, Executing, IInv, TypeOK
  <2> QED BY <2>1, Stutter
<1>2. CASE Ready(g)
  <2>1. UNCHANGED <<Alive, gbase, frames, On>>
    BY <1>2 DEF Ready, mvars, Alive, On, Executing, IInv, TypeOK
  <2> QED BY <2>1, Stutter
<1>3. CASE Stop
  <2>1. UNCHANGED <<Alive, gbase, frames, On>>
    BY <1>3 DEF Stop, vars, gvars, mvars, Alive, On, Executing
  <2> QED BY <2>1, Stutter
<1>4. CASE CloneExit(m, m2)
  <2>1. CASE ~(SbIdsAgreeG0(m) /\ (msb[m] = OUT \/ vcpu[m] # NoV))
    BY <1>4, <2>1, Halts DEF CloneExit, E!ANext
  <2>2. CASE SbIdsAgreeG0(m) /\ (msb[m] = OUT \/ vcpu[m] # NoV)
    <3>1. /\ pc[m] = "sched" /\ pc[m2] = "none" /\ UNCHANGED <<gstat, gbase, frames, curg>>
          /\ pc' = [pc EXCEPT ![m] = "bail", ![m2] = "cloning"]
      BY <1>4, <2>2 DEF CloneExit, Limits, gvars
    <3>2. UNCHANGED <<Alive, gbase, frames, On>>
      BY <3>1 DEF Alive, On, Executing, IInv, TypeOK
    <3> QED BY <3>2, Stutter
  <2> QED BY <2>1, <2>2
<1>5. CASE CloneSpawn(m, m2)
  <2>1. /\ pc[m] = "bail" /\ pc[m2] = "cloning" /\ UNCHANGED <<gstat, gbase, frames, curg>>
        /\ pc' = [pc EXCEPT ![m]  = IF curg[m] = NoG THEN "sched" ELSE "user",
                            ![m2] = "sched"]
    BY <1>5 DEF CloneSpawn
  <2>2. curg[m] = NoG BY <2>1 DEF IInv, RunInv
  <2>3. UNCHANGED <<Alive, gbase, frames, On>>
    BY <2>1, <2>2 DEF Alive, On, Executing, IInv, TypeOK
  <2> QED BY <2>3, Stutter
<1> QED BY <1>1, <1>2, <1>3, <1>4, <1>5

-----------------------------------------------------------------------------
LEMMA InitRefines == Init => E!AInit
<1> SUFFICES ASSUME Init PROVE E!AInit OBVIOUS
<1>1. {g \in Gs : gstat[g] # "dead"} = {MainG} BY IdAssumption DEF Init
<1>2. On = [n \in Ms |-> IF n = M0 THEN MainG ELSE NoG]
  BY IdAssumption DEF Init, On, Executing
<1>3. Sees = [n \in Ms |-> GOD] BY DEF Init, Sees, Executing, ViewOf
<1> QED BY <1>1, <1>2, <1>3, IdAssumption DEF E!AInit, Init, On, Sees

LEMMA NextRefines ==
  ASSUME Limits, IInv, IInv', [Next]_vars PROVE [E!ANext]_E!avars
<1>1. CASE UNCHANGED vars
  <2>1. UNCHANGED <<Alive, gbase, frames, On>>
    BY <1>1 DEF vars, gvars, mvars, Alive, On, Executing
  <2> QED BY <2>1, Stutter
<1>2. ASSUME NEW m \in Ms, GoroutineStep(m) PROVE [E!ANext]_E!avars
  <2>1. CASE \E s \in Sandboxes : PrologSwitch(m, s) \/ PrologGet(m, s)
    BY <2>1, EnteringSteps
  <2>2. CASE PrologEnter(m)
    <3>1. goal[m] \in Sandboxes BY <2>2 DEF PrologEnter, IInv, ViewInv, Claims
    <3> QED BY <2>2, <3>1, EnteringSteps
  <2>3. CASE Epilog(m) BY <2>3, LeavingStep
  <2>4. CASE GoExit(m) \/ \E c \in Gs : Newproc(m, c)
    BY <2>4, CreatingSteps, IdAssumption
  <2>5. CASE Park(m) \/ ExitSyscall0(m) BY <2>5, YieldingSteps
  <2>6. CASE EnterSyscall(m) \/ ExitSyscall(m)
    BY <2>6, InternalSteps, IdAssumption
  <2> QED BY <1>2, <2>1, <2>2, <2>3, <2>4, <2>5, <2>6 DEF GoroutineStep
<1>3. ASSUME NEW m \in Ms, SchedulerStep(m) PROVE [E!ANext]_E!avars
  <2>1. CASE \/ \E g \in Gs : \/ ExecuteSame(m, g) \/ ExecuteSwitch(m, g)
                              \/ ExecuteGet(m, g) \/ ExecuteFails(m, g)
             \/ ExecuteEnter(m)
    BY <2>1, SchedulingSteps, IdAssumption
  <2>2. CASE \E m2 \in Ms : CloneExit(m, m2) \/ CloneSpawn(m, m2)
    BY <2>2, InternalSteps, IdAssumption
  <2> QED BY <1>3, <2>1, <2>2 DEF SchedulerStep
<1>4. CASE \E g \in Gs : Ready(g) BY <1>4, InternalSteps, IdAssumption
<1>5. CASE Stop BY <1>5, InternalSteps, IdAssumption
<1> QED BY <1>1, <1>2, <1>3, <1>4, <1>5 DEF Next

\* The hooks of the VT-x backend and the scheduler around them implement what
\* enclosures promise.
THEOREM Implements == ASSUME Limits PROVE Spec => Enclosed
<1>1. Init => E!AInit BY InitRefines
<1>2. IInv /\ IInv' /\ [Next]_vars => [E!ANext]_E!avars BY NextRefines
<1> QED BY <1>1, <1>2, Inductive, PTL DEF Spec, Enclosed, E!ASpec
=============================================================================
