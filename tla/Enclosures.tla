----------------------------- MODULE Enclosures ----------------------------
(***************************************************************************)
(* What enclosures promise, without threads' ids, vCPUs or page tables:     *)
(* a goroutine runs its code in the address space of the innermost          *)
(* enclosure it has entered, from its first instruction to its last, on     *)
(* whatever thread the scheduler puts it.                                   *)
(***************************************************************************)
EXTENDS Naturals, Sequences

CONSTANTS Gs, Ms, Sandboxes, OUT, GOD, NoG

VARIABLES
  alive,  \* the goroutines that exist
  base,   \* the domain each was created in
  stack,  \* the enclosures it has entered since and not left
  on,     \* the goroutine each thread runs, NoG if none
  sees    \* the address space of the code each thread runs

avars == <<alive, base, stack, on, sees>>

Top(b, s) == IF s = <<>> THEN b ELSE s[Len(s)]
ViewFor(d) == IF d = OUT THEN GOD ELSE d

AInit ==
  /\ alive \in {{g} : g \in Gs}
  /\ base  = [g \in Gs |-> OUT] /\ stack = [g \in Gs |-> <<>>]
  /\ \E m \in Ms, g \in alive : on = [n \in Ms |-> IF n = m THEN g ELSE NoG]
  /\ sees  = [m \in Ms |-> GOD]

\* A goroutine calls an enclosure ...
Enter(m, s) ==
  /\ on[m] # NoG
  /\ stack' = [stack EXCEPT ![on[m]] = Append(@, s)]
  /\ sees'  = [sees EXCEPT ![m] = s]
  /\ UNCHANGED <<alive, base, on>>

\* ... and returns from it to where it was.
Leave(m) ==
  /\ on[m] # NoG /\ stack[on[m]] # <<>>
  /\ stack' = [stack EXCEPT ![on[m]] = SubSeq(@, 1, Len(@) - 1)]
  /\ sees'  = [sees EXCEPT ![m] = ViewFor(Top(base[on[m]], stack'[on[m]]))]
  /\ UNCHANGED <<alive, base, on>>

\* A goroutine belongs to the domain that creates it.
Spawn(m, c) ==
  /\ on[m] # NoG /\ c \notin alive
  /\ alive' = alive \cup {c}
  /\ base'  = [base EXCEPT ![c] = Top(base[on[m]], stack[on[m]])]
  /\ stack' = [stack EXCEPT ![c] = <<>>]
  /\ UNCHANGED <<on, sees>>

Finish(m) ==
  /\ on[m] # NoG /\ stack[on[m]] = <<>>
  /\ alive' = alive \ {on[m]}
  /\ base'  = [base EXCEPT ![on[m]] = OUT]
  /\ on'    = [on EXCEPT ![m] = NoG]
  /\ sees'  = [sees EXCEPT ![m] = GOD]
  /\ UNCHANGED stack

\* A goroutine starts or stops running on a thread: the thread sees what the
\* goroutine may see.
Run(m, g) ==
  /\ on[m] = NoG /\ g \in alive /\ \A n \in Ms : on[n] # g
  /\ on'   = [on EXCEPT ![m] = g]
  /\ sees' = [sees EXCEPT ![m] = ViewFor(Top(base[g], stack[g]))]
  /\ UNCHANGED <<alive, base, stack>>

Yield(m) ==
  /\ on[m] # NoG
  /\ on'   = [on EXCEPT ![m] = NoG]
  /\ sees' = [sees EXCEPT ![m] = GOD]
  /\ UNCHANGED <<alive, base, stack>>

\* The process stops rather than run code in the wrong address space.
Halt ==
  /\ on'   = [m \in Ms |-> NoG]
  /\ sees' = [m \in Ms |-> GOD]
  /\ UNCHANGED <<alive, base, stack>>

ANext ==
  \/ \E m \in Ms : \/ \E s \in Sandboxes : Enter(m, s)
                   \/ \E g \in Gs : Spawn(m, g) \/ Run(m, g)
                   \/ Leave(m) \/ Finish(m) \/ Yield(m)
  \/ Halt

ASpec == AInit /\ [][ANext]_avars
=============================================================================
