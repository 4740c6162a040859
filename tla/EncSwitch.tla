----------------------------- MODULE EncSwitch -----------------------------
(***************************************************************************)
(* How the VT-x backend keeps each goroutine inside its enclosure while     *)
(* the Go scheduler moves goroutines between threads (Ms) and threads       *)
(* enter, switch and leave virtual CPUs.                                    *)
(*                                                                          *)
(* Three notions of "current sandbox" must stay in step:                    *)
(*   - what the program means: the enclosure whose body the goroutine runs  *)
(*     (gbase and frames below);                                            *)
(*   - what the runtime records: g.sbid, m.sbid and m.g0.sbid;              *)
(*   - what the hardware enforces: whether the thread is in guest mode and, *)
(*     if so, the CR3 of its vCPU, with the vCPU's Memview and Sysfilter.   *)
(*                                                                          *)
(* The hooks run without preemption points (they are nosplit), so a hook is *)
(* one step, except where it lets another thread in: a vCPU becomes Ready   *)
(* inside RED_EXIT, before the runtime forgets it, and a vCPU is claimed    *)
(* in Machine.Get before the thread enters guest mode.                      *)
(***************************************************************************)
EXTENDS Naturals, Sequences, FiniteSets

CONSTANTS
  Gs,         \* goroutine descriptors (g), reused when dead
  Ms,         \* operating-system threads (m), started or not yet
  Sandboxes,  \* ids of the enclosures of the program
  VCPUs,      \* the machine's pool of vCPUs
  Procs,      \* GOMAXPROCS: how many threads may run Go code at once
  MaxDepth,   \* bound on how deep a program nests enclosures
  CloneFrom,  \* where newm1 is called: "sched" (g0 between goroutines)
              \* and "user" (under a running goroutine, from newproc or ready)
  OUT,        \* _OUT_MODE, the id "" of code outside every enclosure
  GOD,        \* the id "God" and the full address space GodAS
  NoG, NoV,   \* no goroutine, no vCPU (g0.vcpu = 0)
  MainG, M0   \* the goroutine and the thread that ran Initialize

ASSUME IdAssumption ==
  /\ OUT # GOD /\ OUT \notin Sandboxes /\ GOD \notin Sandboxes
  /\ NoG \notin Gs /\ NoV \notin VCPUs
  /\ MainG \in Gs /\ M0 \in Ms
ASSUME BoundAssumption ==
  /\ Procs \in Nat \ {0} /\ MaxDepth \in Nat
  /\ CloneFrom \subseteq {"sched", "user"}

VARIABLES
  gstat,   \* g.atomicstatus
  gbase,   \* the domain a goroutine was created in (what the program means)
  frames,  \* the enclosures it has entered since and not left
  gsb,     \* g.sbid
  pc,      \* where each thread is: see Pcs
  curg,    \* m.curg
  goal,    \* the sandbox a thread is entering while it is between two steps
  msb,     \* m.sbid
  g0sb,    \* m.g0.sbid
  vcpu,    \* m.g0.vcpu
  guest,   \* the thread executes in guest mode
  vstate,  \* VCPU.state
  vcr3,    \* the CR3 register of the vCPU
  vattr,   \* VCPU.Memview and VCPU.Sysfilter (always assigned together)
  crash    \* the throw, panic or failed Check that stopped the process

gvars == <<gstat, gbase, frames, gsb>>
mvars == <<pc, curg, goal, msb, g0sb, vcpu, guest>>
vvars == <<vstate, vcr3, vattr>>
vars  == <<gvars, mvars, vvars, crash>>

\* A domain is where code means to run; a view is an address space.
Domains == Sandboxes \cup {OUT}
Views   == Sandboxes \cup {GOD}
SbIds   == Sandboxes \cup {OUT, GOD}

\* "none": not started; "sched": on g0 between goroutines; "user": running
\* curg; "syscall": curg blocked in a system call, the P handed off;
\* "prolog", "exec": vCPU claimed, guest mode not entered yet; "bail": out of
\* guest mode by RED_EXIT, g0.vcpu not cleared yet; "cloning": allocm has made
\* the m, its thread does not run yet; "stopped": the process crashed.
Pcs == {"none", "sched", "user", "syscall", "prolog", "exec", "bail",
        "cloning", "stopped"}
Crashes == {"none", "sbids", "novcpu", "epilog", "pool", "state"}

\* The enclosure whose code goroutine g is running.
Domain(g) == IF frames[g] = <<>> THEN gbase[g] ELSE frames[g][Len(frames[g])]
Nesting(g) == Len(frames[g]) + (IF gbase[g] = OUT THEN 0 ELSE 1)

Running(m) == pc[m] \in {"user", "syscall"}
FreeP == Cardinality({m \in Ms : pc[m] \in {"user", "prolog", "exec"}}) < Procs

Init ==
  /\ gstat  = [g \in Gs |-> IF g = MainG THEN "running" ELSE "dead"]
  /\ gbase  = [g \in Gs |-> OUT]
  /\ frames = [g \in Gs |-> <<>>]
  /\ gsb    = [g \in Gs |-> OUT]
  /\ pc     = [m \in Ms |-> IF m = M0 THEN "user" ELSE "none"]
  /\ curg   = [m \in Ms |-> IF m = M0 THEN MainG ELSE NoG]
  /\ goal   = [m \in Ms |-> OUT]
  /\ msb    = [m \in Ms |-> OUT]
  /\ g0sb   = [m \in Ms |-> OUT]
  /\ vcpu   = [m \in Ms |-> NoV]
  /\ guest  = [m \in Ms |-> FALSE]
  /\ vstate = [v \in VCPUs |-> "Ready"]
  /\ vcr3   = [v \in VCPUs |-> GOD]
  /\ vattr  = [v \in VCPUs |-> GOD]
  /\ crash  = "none"

-----------------------------------------------------------------------------
(* The pieces the hooks are made of.  Each constrains the variables named.  *)

\* A throw, panic or failed Check: the process stops where it is.
Crash(why) ==
  /\ crash' = why
  /\ pc' = [m \in Ms |-> "stopped"]
  /\ UNCHANGED <<gvars, curg, goal, msb, g0sb, vcpu, guest, vvars>>

\* AssignSbId on a user stack sets g, m and g0; on g0 it sets m and g0.
AssignSbIdUser(m, id) ==
  /\ gsb'  = [gsb EXCEPT ![curg[m]] = id]
  /\ msb'  = [msb EXCEPT ![m] = id]
  /\ g0sb' = [g0sb EXCEPT ![m] = id]

AssignSbIdG0(m, id) ==
  /\ msb'  = [msb EXCEPT ![m] = id]
  /\ g0sb' = [g0sb EXCEPT ![m] = id]
  /\ UNCHANGED gsb

\* GetmSbIds throws unless the three ids (two on g0) are equal.
SbIdsAgreeUser(m) == gsb[curg[m]] = msb[m] /\ msb[m] = g0sb[m]
SbIdsAgreeG0(m)   == msb[m] = g0sb[m]

\* Redpill and RedSwitch are system call -1: inside the guest the ring 0 stub
\* rewrites CR3, on the host the kernel refuses the call and nothing changes.
\* Mutant: only the runtime's ids change, the page tables stay.
WriteCR3Skipped(m, view) == vcr3' = vcr3
WriteCR3(m, view) ==
  vcr3' = IF guest[m] THEN [vcr3 EXCEPT ![vcpu[m]] = view] ELSE vcr3

\* Mutant: Memview and Sysfilter are left as the previous user set them.
SetVCPUAttributesSkipped(v, view) == vattr' = vattr
SetVCPUAttributes(v, view) == vattr' = [vattr EXCEPT ![v] = view]

\* Mutant: a plain load in place of the compare-and-swap from VCPUReady.
ClaimableLoose(v) == vstate[v] # "Guest"
Claimable(v) == vstate[v] = "Ready"

\* Machine.Get and the head of KVM.SwitchToUser: claim a vCPU, take the id God.
GetVcpu(m, v) ==
  /\ Claimable(v)
  /\ vstate' = [vstate EXCEPT ![v] = "User"]
  /\ vcpu'   = [vcpu EXCEPT ![m] = v]

PoolEmpty == \A v \in VCPUs : ~Claimable(v)

\* bluepill: the signal handler swaps the state to Guest|User and runs the
\* vCPU, whose CR3 is the one it was left with; then RedSwitch sets it.
EnterGuest(m, view) ==
  /\ vstate[vcpu[m]] = "User"
  /\ vstate' = [vstate EXCEPT ![vcpu[m]] = "Guest"]
  /\ guest'  = [guest EXCEPT ![m] = TRUE]
  /\ vcr3'   = [vcr3 EXCEPT ![vcpu[m]] = view]
  /\ SetVCPUAttributes(vcpu[m], view)

\* RED_EXIT: the handler bails out of the guest and makes the vCPU Ready.
LeaveGuest(m) ==
  /\ vstate' = [vstate EXCEPT ![vcpu[m]] = "Ready"]
  /\ guest'  = [guest EXCEPT ![m] = FALSE]

-----------------------------------------------------------------------------
(* A goroutine calls and leaves an enclosure.                               *)

CanEnter(m) == pc[m] = "user" /\ Nesting(curg[m]) < MaxDepth

\* Prolog on a thread that already holds a vCPU: switch views and go on.
PrologSwitch(m, s) ==
  /\ CanEnter(m) /\ vcpu[m] # NoV
  /\ WriteCR3(m, s)
  /\ SetVCPUAttributes(vcpu[m], s)
  /\ AssignSbIdUser(m, s)
  /\ frames' = [frames EXCEPT ![curg[m]] = Append(@, s)]
  /\ UNCHANGED <<gstat, gbase, pc, curg, goal, vcpu, guest, vstate, crash>>

\* Prolog on a thread outside the machine: claim a vCPU first.
PrologGet(m, s) ==
  /\ CanEnter(m) /\ vcpu[m] = NoV
  /\ \/ PoolEmpty /\ Crash("pool")
     \/ \E v \in VCPUs :
          /\ GetVcpu(m, v)
          /\ AssignSbIdUser(m, GOD)
          /\ pc'   = [pc EXCEPT ![m] = "prolog"]
          /\ goal' = [goal EXCEPT ![m] = s]
          /\ UNCHANGED <<gstat, gbase, frames, curg, guest, vcr3, vattr, crash>>

PrologEnter(m) ==
  /\ pc[m] = "prolog"
  /\ \/ vstate[vcpu[m]] # "User" /\ Crash("state")
     \/ /\ EnterGuest(m, goal[m])
        /\ AssignSbIdUser(m, goal[m])
        /\ frames' = [frames EXCEPT ![curg[m]] = Append(@, goal[m])]
        /\ pc'   = [pc EXCEPT ![m] = "user"]
        /\ goal' = [goal EXCEPT ![m] = OUT]
        /\ UNCHANGED <<gstat, gbase, curg, vcpu, crash>>

\* Epilog of the enclosure on top.  It returns to God's CR3 and keeps the
\* vCPU, but leaves Memview and Sysfilter as the enclosure had them.
Epilog(m) ==
  /\ pc[m] = "user" /\ frames[curg[m]] # <<>>
  /\ \/ ~SbIdsAgreeUser(m) /\ Crash("sbids")
     \/ SbIdsAgreeUser(m) /\ vcpu[m] = NoV /\ Crash("novcpu")
     \/ /\ SbIdsAgreeUser(m) /\ vcpu[m] # NoV
        /\ msb[m] # Domain(curg[m])
        /\ Crash("epilog")
     \/ /\ SbIdsAgreeUser(m) /\ vcpu[m] # NoV
        /\ msb[m] = Domain(curg[m])
        /\ WriteCR3(m, GOD)
        /\ AssignSbIdUser(m, OUT)
        /\ frames' = [frames EXCEPT
             ![curg[m]] = SubSeq(@, 1, Len(@) - 1)]
        /\ UNCHANGED <<gstat, gbase, pc, curg, goal, vcpu, guest, vstate,
                       vattr, crash>>

-----------------------------------------------------------------------------
(* The scheduler: execute(gp) with its hook, and what leads to it.          *)

\* Mutant: a thread that holds a vCPU is taken to be in the right context.
SameContextLoose(m, g) == vcpu[m] # NoV \/ msb[m] = gsb[g]
SameContext(m, g) == msb[m] = gsb[g]

Dispatch(m, g) ==
  /\ pc[m] = "sched" /\ gstat[g] = "runnable" /\ FreeP
  /\ gstat' = [gstat EXCEPT ![g] = "running"]
  /\ curg'  = [curg EXCEPT ![m] = g]
  /\ UNCHANGED <<gbase, frames>>

\* Execute finds the thread in the goroutine's context already.
ExecuteSame(m, g) ==
  /\ Dispatch(m, g)
  /\ SbIdsAgreeG0(m) /\ (msb[m] = OUT \/ vcpu[m] # NoV)
  /\ SameContext(m, g)
  /\ pc' = [pc EXCEPT ![m] = "user"]
  /\ UNCHANGED <<gsb, goal, msb, g0sb, vcpu, guest, vvars, crash>>

\* Execute runs a goroutine that is in no enclosure in God's view.
ViewForId(id) == IF id = OUT THEN GOD ELSE id

\* Execute switches view inside the machine.
ExecuteSwitch(m, g) ==
  LET view == ViewForId(gsb[g])
  IN  /\ Dispatch(m, g)
      /\ SbIdsAgreeG0(m) /\ ~SameContext(m, g) /\ vcpu[m] # NoV
      /\ WriteCR3(m, view)
      /\ SetVCPUAttributes(vcpu[m], view)
      /\ AssignSbIdG0(m, gsb[g])
      /\ pc' = [pc EXCEPT ![m] = "user"]
      /\ UNCHANGED <<goal, vcpu, guest, vstate, crash>>

\* Execute of a sandboxed goroutine on a thread outside the machine.
ExecuteGet(m, g) ==
  /\ SbIdsAgreeG0(m) /\ msb[m] = OUT /\ vcpu[m] = NoV /\ ~SameContext(m, g)
  /\ Dispatch(m, g)
  /\ \E v \in VCPUs : GetVcpu(m, v)
  /\ AssignSbIdG0(m, GOD)
  /\ pc'   = [pc EXCEPT ![m] = "exec"]
  /\ goal' = [goal EXCEPT ![m] = gsb[g]]
  /\ UNCHANGED <<guest, vcr3, vattr, crash>>

ExecuteEnter(m) ==
  /\ pc[m] = "exec"
  /\ \/ vstate[vcpu[m]] # "User" /\ Crash("state")
     \/ /\ EnterGuest(m, goal[m])
        /\ AssignSbIdG0(m, goal[m])
        /\ pc'   = [pc EXCEPT ![m] = "user"]
        /\ goal' = [goal EXCEPT ![m] = OUT]
        /\ UNCHANGED <<gstat, gbase, frames, curg, vcpu, crash>>

\* The ways Execute stops the process: ids that differ, a sandbox id without
\* a vCPU, no vCPU to claim.
ExecuteFails(m, g) ==
  /\ pc[m] = "sched" /\ gstat[g] = "runnable" /\ FreeP
  /\ \/ ~SbIdsAgreeG0(m) /\ Crash("sbids")
     \/ /\ SbIdsAgreeG0(m) /\ msb[m] # OUT /\ vcpu[m] = NoV
        /\ Crash("novcpu")
     \/ /\ SbIdsAgreeG0(m) /\ msb[m] = OUT /\ vcpu[m] = NoV
        /\ ~SameContext(m, g) /\ PoolEmpty
        /\ Crash("pool")

\* The goroutine blocks (waiting) or yields (runnable); g0 takes over with
\* the ids and the vCPU as they are.
Park(m) ==
  /\ pc[m] = "user"
  /\ \E st \in {"waiting", "runnable"} : gstat' = [gstat EXCEPT ![curg[m]] = st]
  /\ curg' = [curg EXCEPT ![m] = NoG]
  /\ pc'   = [pc EXCEPT ![m] = "sched"]
  /\ UNCHANGED <<gbase, frames, gsb, goal, msb, g0sb, vcpu, guest, vvars, crash>>

Ready(g) ==
  /\ gstat[g] = "waiting" /\ crash = "none"
  /\ gstat' = [gstat EXCEPT ![g] = "runnable"]
  /\ UNCHANGED <<gbase, frames, gsb, mvars, vvars, crash>>

\* goexit: the descriptor goes to the free list with its sbid as it is.
GoExit(m) ==
  /\ pc[m] = "user" /\ frames[curg[m]] = <<>>
  /\ gstat' = [gstat EXCEPT ![curg[m]] = "dead"]
  /\ gbase' = [gbase EXCEPT ![curg[m]] = OUT]
  /\ curg'  = [curg EXCEPT ![m] = NoG]
  /\ pc'    = [pc EXCEPT ![m] = "sched"]
  /\ UNCHANGED <<frames, gsb, goal, msb, g0sb, vcpu, guest, vvars, crash>>

\* newproc1 runs on g0: the id it hands down is g0's.
InheritedSbId(m, c) == g0sb[m]

Newproc(m, c) ==
  /\ pc[m] = "user" /\ gstat[c] = "dead"
  /\ gstat'  = [gstat EXCEPT ![c] = "runnable"]
  /\ gsb'    = [gsb EXCEPT ![c] = InheritedSbId(m, c)]
  /\ gbase'  = [gbase EXCEPT ![c] = Domain(curg[m])]
  /\ frames' = [frames EXCEPT ![c] = <<>>]
  /\ UNCHANGED <<mvars, vvars, crash>>

EnterSyscall(m) ==
  /\ pc[m] = "user"
  /\ pc' = [pc EXCEPT ![m] = "syscall"]
  /\ UNCHANGED <<gvars, curg, goal, msb, g0sb, vcpu, guest, vvars, crash>>

ExitSyscall(m) ==
  /\ pc[m] = "syscall" /\ FreeP
  /\ pc' = [pc EXCEPT ![m] = "user"]
  /\ UNCHANGED <<gvars, curg, goal, msb, g0sb, vcpu, guest, vvars, crash>>

\* exitsyscall found no P: the goroutine is queued and the thread schedules.
ExitSyscall0(m) ==
  /\ pc[m] = "syscall"
  /\ gstat' = [gstat EXCEPT ![curg[m]] = "runnable"]
  /\ curg'  = [curg EXCEPT ![m] = NoG]
  /\ pc'    = [pc EXCEPT ![m] = "sched"]
  /\ UNCHANGED <<gbase, frames, gsb, goal, msb, g0sb, vcpu, guest, vvars, crash>>

-----------------------------------------------------------------------------
(* newm1: the thread must not be in the machine when it clones, so it calls *)
(* Execute(_FUCK_MODE) on g0 first.                                         *)

CloneExit(m, m2) ==
  /\ pc[m] \in CloneFrom /\ pc[m2] = "none"
  /\ \/ ~SbIdsAgreeG0(m) /\ Crash("sbids")
     \/ SbIdsAgreeG0(m) /\ msb[m] # OUT /\ vcpu[m] = NoV /\ Crash("novcpu")
     \/ /\ SbIdsAgreeG0(m) /\ (msb[m] = OUT \/ vcpu[m] # NoV)
        /\ IF vcpu[m] # NoV THEN LeaveGuest(m) ELSE UNCHANGED <<vstate, guest>>
        /\ pc' = [pc EXCEPT ![m] = "bail", ![m2] = "cloning"]
        /\ UNCHANGED <<gvars, curg, goal, msb, g0sb, vcpu, vcr3, vattr, crash>>

\* Mutant: the runtime goes on believing the thread holds its vCPU.
ForgetVcpuSkipped(m) == vcpu' = vcpu
ForgetVcpu(m) == vcpu' = [vcpu EXCEPT ![m] = NoV]

CloneSpawn(m, m2) ==
  /\ pc[m] = "bail" /\ pc[m2] = "cloning"
  /\ AssignSbIdG0(m, OUT)
  /\ ForgetVcpu(m)
  /\ pc' = [pc EXCEPT ![m]  = IF curg[m] = NoG THEN "sched" ELSE "user",
                      ![m2] = "sched"]
  /\ UNCHANGED <<gstat, gbase, frames, curg, goal, guest, vvars, crash>>

-----------------------------------------------------------------------------
GoroutineStep(m) ==
  \/ \E s \in Sandboxes : PrologSwitch(m, s) \/ PrologGet(m, s)
  \/ PrologEnter(m) \/ Epilog(m)
  \/ Park(m) \/ GoExit(m)
  \/ EnterSyscall(m) \/ ExitSyscall(m) \/ ExitSyscall0(m)
  \/ \E c \in Gs : Newproc(m, c)

SchedulerStep(m) ==
  \/ \E g \in Gs : \/ ExecuteSame(m, g) \/ ExecuteSwitch(m, g)
                   \/ ExecuteGet(m, g) \/ ExecuteFails(m, g)
  \/ ExecuteEnter(m)
  \/ \E m2 \in Ms : CloneExit(m, m2) \/ CloneSpawn(m, m2)

\* The process has crashed or has nothing left to run.  Every other state
\* has a step, or TLC reports a deadlock.
Stop ==
  /\ crash # "none" \/ \A g \in Gs : gstat[g] = "dead"
  /\ UNCHANGED vars

Next ==
  \/ \E m \in Ms : GoroutineStep(m) \/ SchedulerStep(m)
  \/ \E g \in Gs : Ready(g)
  \/ Stop

Spec == Init /\ [][Next]_vars

-----------------------------------------------------------------------------
(* What must hold.                                                          *)

\* Every variable keeps its type: a thread between goroutines has none.
TypeOK ==
  /\ gstat \in [Gs -> {"dead", "runnable", "running", "waiting"}]
  /\ gbase \in [Gs -> Domains] /\ gsb \in [Gs -> SbIds]
  /\ frames \in [Gs -> Seq(Sandboxes)]
  /\ pc \in [Ms -> Pcs] /\ curg \in [Ms -> Gs \cup {NoG}]
  /\ goal \in [Ms -> Domains]
  /\ msb \in [Ms -> SbIds] /\ g0sb \in [Ms -> SbIds]
  /\ vcpu \in [Ms -> VCPUs \cup {NoV}] /\ guest \in [Ms -> BOOLEAN]
  /\ vstate \in [VCPUs -> {"Ready", "User", "Guest"}]
  /\ vcr3 \in [VCPUs -> Views] /\ vattr \in [VCPUs -> Views]
  /\ crash \in Crashes

\* The address space a thread's memory accesses go through: the host's, which
\* shows everything as God does, or the one its vCPU's CR3 selects.
ViewOf(m) == IF guest[m] THEN vcr3[vcpu[m]] ELSE GOD

\* Code of an enclosure runs in guest mode in that enclosure's address space,
\* and code outside every enclosure never runs in one: whatever the hooks of
\* prolog, epilog, execute and newm did on this thread before.
Confined ==
  \A m \in Ms : Running(m) =>
    ViewOf(m) = IF Domain(curg[m]) = OUT THEN GOD ELSE Domain(curg[m])

\* While a thread runs an enclosure's code, the Memview and Sysfilter that its
\* vCPU's handlers consult (page faults, kvmSyscallHandler) are that
\* enclosure's, not what an earlier user of the vCPU left there.
FilterMatches ==
  \A m \in Ms : Running(m) /\ Domain(curg[m]) # OUT =>
    vcpu[m] # NoV /\ vattr[vcpu[m]] = Domain(curg[m])

\* A goroutine that waits for a thread carries in g.sbid the enclosure it
\* belongs to, however its descriptor, its creator or its last thread was
\* used before: execute() has nothing else to restore the view from.
SbIdsFollow ==
  \A g \in Gs : gstat[g] \in {"runnable", "waiting"} => gsb[g] = Domain(g)

\* A running goroutine, its thread and the thread's g0 agree on the sandbox
\* (GetmSbIds: "sbids do not match.").
SbIdsAgree == \A m \in Ms : Running(m) => SbIdsAgreeUser(m)

\* Two threads never execute on one vCPU, and a vCPU some thread executes on
\* or is about to enter is not up for grabs in Machine.Get.
VcpuExclusive ==
  \A m \in Ms :
    guest[m] \/ pc[m] \in {"prolog", "exec"} =>
      /\ vstate[vcpu[m]] = IF guest[m] THEN "Guest" ELSE "User"
      /\ \A n \in Ms \ {m} :
           guest[n] \/ pc[n] \in {"prolog", "exec"} => vcpu[n] # vcpu[m]

\* However short the pool is, running out of vCPUs is the only way the hooks
\* stop the process: every throw and Check that guards a vCPU's state, a
\* missing vCPU or the ids is never the one to fail.
OnlyPoolFails == crash \in {"none", "pool"}

\* GetmSbIds never throws "sbids do not match.".
SbIdsMatch == crash # "sbids"

\* The hooks and the scheduler implement what enclosures promise.  A goroutine
\* that waits for its vCPU in Prolog still runs the code that made the call.
Executing(m) == pc[m] \in {"user", "syscall", "prolog"}

E == INSTANCE Enclosures WITH
       alive <- {g \in Gs : gstat[g] # "dead"},
       base  <- gbase,
       stack <- frames,
       on    <- [m \in Ms |-> IF Executing(m) THEN curg[m] ELSE NoG],
       sees  <- [m \in Ms |-> IF Executing(m) THEN ViewOf(m) ELSE GOD]

Enclosed == E!ASpec
=============================================================================
