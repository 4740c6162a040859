------------------------------- MODULE Linker --------------------------------
(***************************************************************************)
(* What the linker writes about enclosures and what the program makes of   *)
(* it at its start.                                                        *)
(*                                                                         *)
(* The linker walks the imports of every package an enclosure names,       *)
(* first to find the packages that get pages of their own and then, per    *)
(* enclosure, to find its domain.  It lays symbols out package by package, *)
(* each package on a page of its own in each kind of symbol, and writes    *)
(* where they are.  The loader rounds that to pages, makes a package of    *)
(* each enclosure's function and its stack objects, and maps.              *)
(*                                                                         *)
(* Addresses are pages, and whether the last one is full: a symbol starts  *)
(* in the page left open or in the next, and ends on a page, full or not.  *)
(* Names are compared by Rank.  Left out: rights, symbols inside others,   *)
(* empty ones, trampolines, an external linker, the space of trusted code. *)
(***************************************************************************)
EXTENDS Naturals

CONSTANTS
  Pkgs,            \* packages the go command may build
  Deps,            \* and what each imports
  RUNTIME,         \* the package with id 0
  GOSB, CGO, CGO2, \* "gosb", "runtime/cgo", "runtime/cgo2"
  TYPENAME,        \* "type", a name of the compiler's that is no package
  Wanted,          \* names that enclosures may name
  Sandboxes,
  MAIN,            \* main.main, which has a stack object too
  TRUSTED,         \* every symbol of no bloated package: "non-bloat"
  PCLNTAB,         \* runtime.pclntab
  Rank,            \* the order of names
  NKinds,          \* kinds of symbols, in the order of their addresses
  RODATA, PCLN,    \* those of stack objects and of runtime.pclntab; STEXT is 1
  NewSegment,      \* the kinds that begin a segment, on a page
  MaxPage, MaxSpan, \* bounds: the last page, the pages a symbol goes on for
  NoSb, NOBODY

Kinds == 1..NKinds
STEXT == 1
Names == Pkgs \cup {CGO2, TYPENAME} \cup Wanted

ASSUME LinkerAssumption ==
  /\ {RUNTIME, GOSB, CGO} \subseteq Pkgs
  /\ CGO2 \notin Pkgs /\ TYPENAME \notin Pkgs /\ CGO2 # TYPENAME
  /\ Deps \in [Pkgs -> SUBSET Pkgs]
  /\ RUNTIME \in Deps[GOSB]       \* gosb/gosb.go:11
  /\ NoSb \notin Sandboxes /\ MAIN \notin Sandboxes
  /\ Rank \in [Names -> Nat]
  /\ \A m, n \in Names : Rank[m] = Rank[n] => m = n
  /\ NKinds \in Nat /\ {STEXT, RODATA, PCLN} \subseteq Kinds
  /\ STEXT # RODATA /\ STEXT # PCLN /\ RODATA # PCLN
  /\ STEXT \in NewSegment
  /\ MaxPage \in Nat /\ MaxSpan \in Nat

\* Whose a symbol is: a package's, nobody's in particular, or one kept alone.
Fn(s)  == <<"function", s>>
Stk(s) == <<"stkobj", s>>
Fns    == {Fn(s) : s \in Sandboxes}
Stks   == {Stk(s) : s \in Sandboxes \cup {MAIN}}
Owners == Names \cup {TRUSTED, PCLNTAB} \cup Fns \cup Stks

ASSUME OwnerAssumption ==
  /\ TRUSTED \notin Names \cup {PCLNTAB} \cup Fns \cup Stks
  /\ PCLNTAB \notin Names \cup Fns \cup Stks
  /\ (Fns \cup Stks) \cap Names = {}
  /\ NOBODY \notin Owners

VARIABLES
  phase,    \* "bloat", "domain", "layout", "done" or "fatal"
  decl,     \* the names in PackageDecl
  wants,    \* Packages and Extras of each enclosure
  bloats,   \* the names in Bloats
  calls,    \* calls of gosb_walkTransDeps still to be made
  seen,     \* what its check looks names up in
  cur, left, \* the enclosure whose domain is walked, those to come
  domains,  \* Pkgs of each SandboxDomain
  kind,     \* the kind of symbol being placed
  group,    \* the owner of the last one placed of it
  last, open, \* the last page with a symbol, whether it has room
  sect,     \* first and last page of each owner in each kind
  holds     \* whose symbols, of which kind, each page has (a record of the run)

walkVars   == <<bloats, calls, seen, cur, left, domains>>
layoutVars == <<kind, group, last, open, sect, holds>>
vars       == <<phase, decl, wants, walkVars, layoutVars>>

None == [first |-> 1, last |-> 0]

-----------------------------------------------------------------------------
(***************************************************************************)
(* Packages and domains                                                    *)
(***************************************************************************)

\* A name without an id reads the id 0, which is the runtime's.
Declared(n) == IF n \in decl THEN n ELSE RUNTIME

\* Mutant: cgo's package is not among the extra ones.
SegregatedNoCgo == (UNION {wants[s] : s \in Sandboxes}) \cup {GOSB, CGO2}
Segregated == (UNION {wants[s] : s \in Sandboxes}) \cup {GOSB, CGO, CGO2}
Extra == {GOSB} \cup (IF CGO \in decl THEN {CGO, CGO2} ELSE {})

Init ==
  /\ decl \in {d \in SUBSET Pkgs : /\ {RUNTIME, GOSB} \subseteq d
                                   /\ \A p \in d : Deps[p] \subseteq d}
  /\ wants \in [Sandboxes -> SUBSET Wanted]
  /\ phase = "bloat"
  /\ bloats = IF CGO \in decl THEN {CGO2} ELSE {}
  /\ calls = Segregated
  /\ seen = bloats
  /\ cur = NoSb /\ left = Sandboxes
  /\ domains = [s \in Sandboxes |-> {}]
  /\ kind = 1 /\ group = NOBODY /\ last = 0 /\ open = FALSE
  /\ sect = [o \in Owners |-> [k \in Kinds |-> None]]
  /\ holds = [g \in 1..MaxPage |-> {}]

\* The call for a name that is known, or that stands for no package, returns.
Return(n) ==
  /\ n \in calls
  /\ n = TYPENAME \/ n \in seen
  /\ calls' = calls \ {n}
  /\ UNCHANGED <<phase, decl, wants, bloats, seen, cur, left, domains, layoutVars>>

\* Otherwise it handles the name and calls for each import.
Handle(n, found) ==
  /\ n \in calls /\ n # TYPENAME /\ n \notin seen
  /\ seen' = seen \cup {found}
  /\ calls' = (calls \ {n}) \cup Deps[Declared(n)]
  /\ UNCHANGED <<phase, decl, wants, bloats, cur, left, domains, layoutVars>>

\* create, in computeBloats, goes by the id.
Create(n) == phase = "bloat" /\ Handle(n, Declared(n))

BloatsDone ==
  /\ phase = "bloat" /\ calls = {}
  /\ bloats' = seen
  /\ seen' = {}
  /\ phase' = "domain"
  /\ UNCHANGED <<decl, wants, calls, cur, left, domains, layoutVars>>

StartDomain(s) ==
  /\ phase = "domain" /\ cur = NoSb /\ s \in left
  /\ cur' = s
  /\ left' = left \ {s}
  /\ calls' = wants[s] \cup Extra
  /\ UNCHANGED <<phase, decl, wants, bloats, seen, domains, layoutVars>>

\* The check of gosb_generateDomains goes by the name.
Visit(n) == phase = "domain" /\ n \in bloats /\ Handle(n, n)

Missing(n) ==
  /\ phase = "domain" /\ n \in calls
  /\ n # TYPENAME /\ n \notin seen /\ n \notin bloats
  /\ phase' = "fatal"
  /\ UNCHANGED <<decl, wants, walkVars, layoutVars>>

DomainDone ==
  /\ phase = "domain" /\ cur # NoSb /\ calls = {}
  /\ domains' = [domains EXCEPT ![cur] = seen]
  /\ seen' = {}
  /\ cur' = NoSb
  /\ UNCHANGED <<phase, decl, wants, bloats, calls, left, layoutVars>>

DomainsDone ==
  /\ phase = "domain" /\ cur = NoSb /\ left = {}
  /\ phase' = "layout"
  /\ UNCHANGED <<decl, wants, walkVars, layoutVars>>

-----------------------------------------------------------------------------
(***************************************************************************)
(* Layout                                                                  *)
(***************************************************************************)

Bloated(o) == o \in bloats
Alone(o)   == o \in Fns \cup Stks

Occurs(o, k) ==
  \/ (o = TRUSTED \/ Bloated(o)) /\ k # PCLN
  \/ o = PCLNTAB /\ k = PCLN
  \/ o \in Fns /\ k = STEXT
  \/ o \in Stks /\ k = RODATA

\* The order of gosb_reorderSymbols: the symbols of no bloated package, those
\* of each bloated one, by name, and last those that are kept alone.
MayFollow(o) ==
  \/ group \in {NOBODY, TRUSTED}
  \/ Bloated(group) /\ Bloated(o) /\ Rank[group] <= Rank[o]
  \/ Alone(o)

\* Mutant: a bloated package's first symbol is placed like any other.
StartsPageAlone(o) ==
  \/ Alone(o) \/ o = PCLNTAB
  \/ group = NOBODY /\ kind \in NewSegment
\* Only the first symbol of a bloated package is put on a page of its own.
StartsPage(o) ==
  \/ o # TRUSTED /\ o # group
  \/ group = NOBODY /\ kind \in NewSegment

\* One symbol: where it starts, how many pages it goes on for, and whether it
\* leaves room on its last.  A stack object has a page at least.
Place(o) ==
  /\ phase = "layout" /\ Occurs(o, kind) /\ MayFollow(o)
  /\ o = group => ~Alone(o) /\ o # PCLNTAB
  /\ Alone(o) => sect[o][kind] = None
  /\ \E start \in {last, last + 1}, more \in 0..MaxSpan, room \in BOOLEAN :
       LET end == start + more IN
       /\ start = last => open /\ ~StartsPage(o)
       /\ end <= MaxPage
       /\ o \in Stks /\ room => more > 0
       /\ last' = end /\ open' = room
       /\ sect' = [sect EXCEPT ![o][kind] =
            [first |-> IF @ = None THEN start ELSE @.first, last |-> end]]
       /\ holds' = [g \in 1..MaxPage |->
            IF g \in start..end THEN holds[g] \cup {<<o, kind>>} ELSE holds[g]]
  /\ group' = o
  /\ UNCHANGED <<phase, decl, wants, walkVars, kind>>

\* Every enclosure has a function, and the program a runtime.pclntab.
KindDone ==
  /\ phase = "layout"
  /\ kind = STEXT => \A f \in Fns : sect[f][STEXT] # None
  /\ kind = PCLN => sect[PCLNTAB][PCLN] # None
  /\ IF kind < NKinds THEN kind' = kind + 1 /\ UNCHANGED phase
                      ELSE phase' = "done" /\ UNCHANGED kind
  /\ group' = NOBODY
  /\ UNCHANGED <<decl, wants, walkVars, last, open, sect, holds>>

\* The link ended, or the model's pages did.
Done == (phase \in {"done", "fatal"} \/ last = MaxPage) /\ UNCHANGED vars

Next ==
  \/ \E n \in Names : Return(n) \/ Create(n) \/ Visit(n) \/ Missing(n)
  \/ BloatsDone \/ DomainDone \/ DomainsDone
  \/ \E s \in Sandboxes : StartDomain(s)
  \/ \E o \in Owners : Place(o)
  \/ KindDone
  \/ Done

Spec == Init /\ [][Next]_vars

-----------------------------------------------------------------------------
(***************************************************************************)
(* What the loader makes of it                                             *)
(***************************************************************************)

PagesOf(o, k) == sect[o][k].first .. sect[o][k].last

PkgPages(p) == UNION {PagesOf(p, k) : k \in Kinds}

\* CommonVMAs: the backend's packages and runtime.pclntab.
Common == PkgPages(GOSB) \cup PagesOf(PCLNTAB, PCLN)

\* createFakePackage takes the length of the function for that of the stack
\* objects.
FnLength(s) == sect[Fn(s)][STEXT].last - sect[Fn(s)][STEXT].first
StkPages(s, t) ==
  IF sect[Stk(t)][RODATA] = None THEN {}
  ELSE sect[Stk(t)][RODATA].first .. sect[Stk(t)][RODATA].first + FnLength(s)
FakePages(s) ==
  PagesOf(Fn(s), STEXT) \cup StkPages(s, s) \cup StkPages(s, MAIN)

\* Static of an enclosure's SandboxMemory.
Static(s) ==
  (UNION {PkgPages(p) : p \in domains[s]}) \cup FakePages(s) \cup Common

\* Mutant: the end of a section is compared with <=.
PcToIdInclusive(g) ==
  {o \in bloats \cup Fns : g \in sect[o][STEXT].first .. sect[o][STEXT].last + 1}
\* The packages PcToId may take a page of text to be in; none is -1, which
\* is also the id of the trusted symbols' package.
PcToId(g) == {o \in bloats \cup Fns : g \in PagesOf(o, STEXT)}

-----------------------------------------------------------------------------
(***************************************************************************)
(* Properties                                                              *)
(***************************************************************************)

\* Types.
TypeOK ==
  /\ phase \in {"bloat", "domain", "layout", "done", "fatal"}
  /\ decl \subseteq Pkgs /\ wants \in [Sandboxes -> SUBSET Wanted]
  /\ bloats \subseteq Names /\ calls \subseteq Names /\ seen \subseteq Names
  /\ cur \in Sandboxes \cup {NoSb} /\ left \subseteq Sandboxes
  /\ domains \in [Sandboxes -> SUBSET Names]
  /\ kind \in Kinds /\ group \in Owners \cup {NOBODY}
  /\ last \in 0..MaxPage /\ open \in BOOLEAN
  /\ sect \in [Owners -> [Kinds -> [first : Nat, last : 0..MaxPage]]]
  /\ holds \in [1..MaxPage -> SUBSET (Owners \X Kinds)]

Roots(s) == (wants[s] \cup Extra) \ {TYPENAME}
Closed(s, S) == Roots(s) \subseteq S /\ \A n \in S : Deps[Declared(n)] \subseteq S
Reachable(s, S) ==
  Closed(s, S) /\ \A C \in SUBSET Names : Closed(s, C) => S \subseteq C

\* Whatever the order of the maps and of the walks, an enclosure's domain is
\* what can be reached from the packages it names, the backend and cgo, and
\* each of its packages has pages; and the link stops only for a name that
\* stands for no package.
DomainsRight ==
  /\ phase \in {"domain", "done"} =>
       \A s \in Sandboxes \ (left \cup {cur}) :
         Reachable(s, domains[s]) /\ domains[s] \subseteq bloats
  /\ phase = "fatal" =>
       \E s \in Sandboxes : wants[s] \ (decl \cup {TYPENAME}) # {}

\* The pages an enclosure is given have symbols of its domain and its own, and
\* others in two places only: the first symbols of a kind, when they belong to
\* no bloated package, share the page on which the kind before ended; and if
\* its function is longer than a page, pages behind its stack objects are given.
Behind(s) == UNION {StkPages(s, t) \ PagesOf(Stk(t), RODATA) : t \in {s, MAIN}}
SeesOnlyDomain ==
  phase = "done" =>
    \A s \in Sandboxes : \A g \in Static(s) \cap (1..MaxPage) : \A h \in holds[g] :
      \/ h[1] \in domains[s] \cup {PCLNTAB, Fn(s), Stk(s), Stk(MAIN)}
      \/ /\ h[1] = TRUSTED /\ h[2] \notin NewSegment
         /\ g = sect[TRUSTED][h[2]].first
      \/ g \in Behind(s)

\* A program counter is attributed to the package whose function it is in, or
\* to no package for a function that no bloated package has.
Attributed ==
  phase = "done" =>
    \A g \in 1..MaxPage : \A h \in holds[g] :
      h[2] = STEXT => PcToId(g) = {h[1]} \ {TRUSTED}

=============================================================================
