----------------------------- MODULE MPKSwitch -----------------------------
(***************************************************************************)
(* How the MPK backend keeps each goroutine inside its enclosure while the  *)
(* Go scheduler moves goroutines between threads (Ms).  There is no machine *)
(* to enter: what a thread may access is its PKRU register.  The register   *)
(* belongs to the thread, so whoever the thread runs next inherits it; and  *)
(* a cloned thread starts with its parent's.                                *)
(*                                                                          *)
(* The scheduler is the one of EncSwitch, the hooks are those of gosb/mpk.  *)
(* A PKRU value is named after the enclosure it is computed for (MPKKeys).  *)
(***************************************************************************)
EXTENDS MPK, Naturals, Sequences, FiniteSets

CONSTANTS
  Gs,         \* goroutine descriptors (g), reused when dead
  Ms,         \* operating-system threads (m), started or not yet
  Procs,      \* GOMAXPROCS: how many threads may run Go code at once
  MaxDepth,   \* bound on how deep a program nests enclosures
  OUT,        \* _OUT_MODE, the id "" of code outside every enclosure
  ALL,        \* AllRightsPKRU, the value for code outside
  NoG,        \* no goroutine
  MainG, M0   \* the goroutine and the thread that ran Initialize

ASSUME IdAssumption ==
  /\ OUT \notin Sandboxes /\ ALL \notin Sandboxes /\ OUT # ALL
  /\ NoG \notin Gs /\ MainG \in Gs /\ M0 \in Ms
ASSUME BoundAssumption == Procs \in Nat \ {0} /\ MaxDepth \in Nat

VARIABLES
  gstat,   \* g.atomicstatus
  gbase,   \* the domain a goroutine was created in (what the program means)
  frames,  \* the enclosures it has entered since and not left
  gsb,     \* g.sbid
  pc,      \* where each thread is: see Pcs
  curg,    \* m.curg
  msb,     \* m.sbid
  g0sb,    \* m.g0.sbid
  pkru,    \* the thread's PKRU register
  crash    \* the throw that stopped the process

gvars == <<gstat, gbase, frames, gsb>>
ids   == <<gsb, msb, g0sb>>
vars  == <<gvars, pc, curg, msb, g0sb, pkru, crash>>

Domains == Sandboxes \cup {OUT}

\* "none": not started; "sched": on g0 between goroutines; "user": running
\* curg; "syscall": curg blocked in a system call, the P handed off; "mstart":
\* cloned, mstart has not set the PKRU yet; "stopped": the process crashed.
Pcs == {"none", "mstart", "sched", "user", "syscall", "stopped"}

\* The enclosure whose code goroutine g is running.
Domain(g)  == IF frames[g] = <<>> THEN gbase[g] ELSE frames[g][Len(frames[g])]
Nesting(g) == Len(frames[g]) + (IF gbase[g] = OUT THEN 0 ELSE 1)

Running(m) == pc[m] \in {"user", "syscall"}
FreeP == Cardinality({m \in Ms : pc[m] = "user"}) < Procs

Init ==
  /\ gstat  = [g \in Gs |-> IF g = MainG THEN "running" ELSE "dead"]
  /\ gbase  = [g \in Gs |-> OUT]
  /\ frames = [g \in Gs |-> <<>>]
  /\ gsb    = [g \in Gs |-> OUT]
  /\ pc     = [m \in Ms |-> IF m = M0 THEN "user" ELSE "none"]
  /\ curg   = [m \in Ms |-> IF m = M0 THEN MainG ELSE NoG]
  /\ msb    = [m \in Ms |-> OUT]
  /\ g0sb   = [m \in Ms |-> OUT]
  /\ pkru   = [m \in Ms |-> ALL]
  /\ crash  = "none"

-----------------------------------------------------------------------------
(* The hooks.                                                               *)

\* AssignSbId on a user stack sets g, m and g0; on g0 it sets m and g0.
AssignSbIdUser(m, id) ==
  /\ gsb'  = [gsb EXCEPT ![curg[m]] = id]
  /\ msb'  = [msb EXCEPT ![m] = id]
  /\ g0sb' = [g0sb EXCEPT ![m] = id]

\* Mutant: m.g0 keeps the id of the goroutine that ran before.
AssignSbIdG0Partial(m, id) ==
  /\ msb' = [msb EXCEPT ![m] = id]
  /\ UNCHANGED <<g0sb, gsb>>
AssignSbIdG0(m, id) ==
  /\ msb'  = [msb EXCEPT ![m] = id]
  /\ g0sb' = [g0sb EXCEPT ![m] = id]
  /\ UNCHANGED gsb

\* GetmSbIds on g0 throws unless m and g0 agree.
SbIdsAgreeG0(m) == msb[m] = g0sb[m]

WritePKRU(m, value) == pkru' = [pkru EXCEPT ![m] = value]

Prolog(m, s) ==
  /\ pc[m] = "user" /\ Nesting(curg[m]) < MaxDepth
  /\ AssignSbIdUser(m, s)
  /\ WritePKRU(m, s)
  /\ frames' = [frames EXCEPT ![curg[m]] = Append(@, s)]
  /\ UNCHANGED <<gstat, gbase, pc, curg, crash>>

\* Epilog of the enclosure on top returns to no enclosure and all rights.
Epilog(m) ==
  /\ pc[m] = "user" /\ frames[curg[m]] # <<>>
  /\ AssignSbIdUser(m, OUT)
  /\ WritePKRU(m, ALL)
  /\ frames' = [frames EXCEPT ![curg[m]] = SubSeq(@, 1, Len(@) - 1)]
  /\ UNCHANGED <<gstat, gbase, pc, curg, crash>>

PKRUFor(id) == IF id = OUT THEN ALL ELSE id

\* Mutant: only enclosures have a value to write.
ExecutePKRUInside(m, id) ==
  IF id = OUT THEN UNCHANGED pkru ELSE WritePKRU(m, id)
\* mpk.Execute writes the register whatever id the thread had.
ExecutePKRU(m, id) == WritePKRU(m, PKRUFor(id))

-----------------------------------------------------------------------------
(* The scheduler.                                                           *)

\* A throw: the process stops where it is.
Crash(why) ==
  /\ crash' = why
  /\ pc' = [m \in Ms |-> "stopped"]
  /\ UNCHANGED <<gvars, curg, msb, g0sb, pkru>>

\* execute(gp) puts goroutine g on the thread and calls the hook.
Execute(m, g) ==
  /\ pc[m] = "sched" /\ gstat[g] = "runnable" /\ FreeP
  /\ \/ ~SbIdsAgreeG0(m) /\ Crash("sbids")
     \/ /\ SbIdsAgreeG0(m)
        /\ gstat' = [gstat EXCEPT ![g] = "running"]
        /\ curg'  = [curg EXCEPT ![m] = g]
        /\ pc'    = [pc EXCEPT ![m] = "user"]
        /\ ExecutePKRU(m, gsb[g])
        /\ AssignSbIdG0(m, gsb[g])
        /\ UNCHANGED <<gbase, frames, crash>>

\* The goroutine blocks (waiting) or yields (runnable).
Park(m) ==
  /\ pc[m] = "user"
  /\ \E st \in {"waiting", "runnable"} : gstat' = [gstat EXCEPT ![curg[m]] = st]
  /\ curg' = [curg EXCEPT ![m] = NoG]
  /\ pc'   = [pc EXCEPT ![m] = "sched"]
  /\ UNCHANGED <<gbase, frames, ids, pkru, crash>>

Ready(g) ==
  /\ gstat[g] = "waiting" /\ crash = "none"
  /\ gstat' = [gstat EXCEPT ![g] = "runnable"]
  /\ UNCHANGED <<gbase, frames, ids, pc, curg, pkru, crash>>

\* goexit: the descriptor goes to the free list with its sbid as it is.
GoExit(m) ==
  /\ pc[m] = "user" /\ frames[curg[m]] = <<>>
  /\ gstat' = [gstat EXCEPT ![curg[m]] = "dead"]
  /\ gbase' = [gbase EXCEPT ![curg[m]] = OUT]
  /\ curg'  = [curg EXCEPT ![m] = NoG]
  /\ pc'    = [pc EXCEPT ![m] = "sched"]
  /\ UNCHANGED <<frames, ids, pkru, crash>>

\* newproc1 runs on g0: the id it hands down is g0's.
InheritedSbId(m, c) == g0sb[m]

Newproc(m, c) ==
  /\ pc[m] = "user" /\ gstat[c] = "dead"
  /\ gstat'  = [gstat EXCEPT ![c] = "runnable"]
  /\ gsb'    = [gsb EXCEPT ![c] = InheritedSbId(m, c)]
  /\ gbase'  = [gbase EXCEPT ![c] = Domain(curg[m])]
  /\ frames' = [frames EXCEPT ![c] = <<>>]
  /\ UNCHANGED <<pc, curg, msb, g0sb, pkru, crash>>

EnterSyscall(m) ==
  /\ pc[m] = "user"
  /\ pc' = [pc EXCEPT ![m] = "syscall"]
  /\ UNCHANGED <<gvars, curg, msb, g0sb, pkru, crash>>

ExitSyscall(m) ==
  /\ pc[m] = "syscall" /\ FreeP
  /\ pc' = [pc EXCEPT ![m] = "user"]
  /\ UNCHANGED <<gvars, curg, msb, g0sb, pkru, crash>>

\* exitsyscall found no P: the goroutine is queued and the thread schedules.
ExitSyscall0(m) ==
  /\ pc[m] = "syscall"
  /\ gstat' = [gstat EXCEPT ![curg[m]] = "runnable"]
  /\ curg'  = [curg EXCEPT ![m] = NoG]
  /\ pc'    = [pc EXCEPT ![m] = "sched"]
  /\ UNCHANGED <<gbase, frames, ids, pkru, crash>>

\* newm1 calls no hook under MPK: the new thread has its parent's PKRU, on
\* g0 as well as under a goroutine, until mstart runs.
Clone(m, m2) ==
  /\ pc[m] \in {"sched", "user"} /\ pc[m2] = "none"
  /\ pkru' = [pkru EXCEPT ![m2] = pkru[m]]
  /\ pc'   = [pc EXCEPT ![m2] = "mstart"]
  /\ UNCHANGED <<gvars, curg, msb, g0sb, crash>>

MStart(m) ==
  /\ pc[m] = "mstart"
  /\ WritePKRU(m, ALL)
  /\ pc' = [pc EXCEPT ![m] = "sched"]
  /\ UNCHANGED <<gvars, curg, msb, g0sb, crash>>

-----------------------------------------------------------------------------
ThreadStep(m) ==
  \/ \E s \in Sandboxes : Prolog(m, s)
  \/ \E g \in Gs : Execute(m, g) \/ Newproc(m, g)
  \/ \E m2 \in Ms : Clone(m, m2)
  \/ Epilog(m) \/ Park(m) \/ GoExit(m) \/ MStart(m)
  \/ EnterSyscall(m) \/ ExitSyscall(m) \/ ExitSyscall0(m)

\* The process has crashed or has nothing left to run.
Stop ==
  /\ crash # "none" \/ \A g \in Gs : gstat[g] = "dead"
  /\ UNCHANGED vars

Next == (\E m \in Ms : ThreadStep(m)) \/ (\E g \in Gs : Ready(g)) \/ Stop

Spec == Init /\ [][Next]_vars

-----------------------------------------------------------------------------
(* What must hold.                                                          *)

\* Every variable keeps its type: a thread between goroutines has none.
TypeOK ==
  /\ gstat \in [Gs -> {"dead", "runnable", "running", "waiting"}]
  /\ gbase \in [Gs -> Domains] /\ gsb \in [Gs -> Domains]
  /\ frames \in [Gs -> Seq(Sandboxes)]
  /\ pc \in [Ms -> Pcs] /\ curg \in [Ms -> Gs \cup {NoG}]
  /\ msb \in [Ms -> Domains] /\ g0sb \in [Ms -> Domains]
  /\ pkru \in [Ms -> Sandboxes \cup {ALL}]
  /\ crash \in {"none", "sbids"}

\* A goroutine that waits for a thread carries in g.sbid the enclosure it
\* belongs to, however its descriptor, its creator or its last thread was
\* used before: execute() has nothing else to restore the rights from.
SbIdsFollow ==
  \A g \in Gs : gstat[g] \in {"runnable", "waiting"} => gsb[g] = Domain(g)

\* GetmSbIds never throws, although threads are cloned under goroutines that
\* are in an enclosure, which stops the VT-x backend.
NoCrash == crash = "none"

\* The hooks and the scheduler implement what enclosures promise, the rights
\* of a PKRU value standing for the address space.
E == INSTANCE Enclosures WITH
       GOD   <- ALL,
       alive <- {g \in Gs : gstat[g] # "dead"},
       base  <- gbase,
       stack <- frames,
       on    <- [m \in Ms |-> IF Running(m) THEN curg[m] ELSE NoG],
       sees  <- [m \in Ms |-> IF Running(m) THEN pkru[m] ELSE ALL]

Enclosed == E!ASpec
=============================================================================
