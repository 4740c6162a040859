---------------------------- MODULE LinkerProofs -----------------------------
(***************************************************************************)
(* Proofs about Linker, for any packages, imports, enclosures, names asked *)
(* for, kinds and sizes of symbols.                                        *)
(*                                                                         *)
(* The walk is proved with an invariant per phase: BloatInv says what of   *)
(* Bloats is still missing while calls are to be made, DomainInv the same  *)
(* of an enclosure's domain, Settled of the domains that are finished.     *)
(* The layout needs the order of what is placed in a kind (OrderInv) and   *)
(* where sections lie towards each other (ApartInv).                       *)
(***************************************************************************)
EXTENDS Linker, TLAPS

USE DEF STEXT

-----------------------------------------------------------------------------
(***************************************************************************)
(* The invariant                                                           *)
(***************************************************************************)

\* What a program declares is closed under imports.
DeclInv ==
  /\ decl \subseteq Pkgs /\ RUNTIME \in decl /\ GOSB \in decl
  /\ \A n \in decl : Deps[n] \subseteq decl

\* All that S must have when the calls in C are still to be made.
Covered(S, C) ==
  /\ CGO \in decl => CGO2 \in S
  /\ \A n \in Segregated \cap decl : n \in S \cup C
  /\ \A n \in S \ {CGO2} : n \in decl /\ Deps[n] \subseteq S \cup C

BloatInv ==
  /\ phase = "bloat" =>
       /\ cur = NoSb /\ left = Sandboxes
       /\ Covered(seen, calls)
  /\ phase # "bloat" => Covered(bloats, {})

\* The walk of one enclosure's domain.
DomainInv ==
  phase = "domain" =>
    /\ cur = NoSb => seen = {} /\ calls = {}
    /\ cur # NoSb =>
         /\ seen \subseteq bloats
         /\ calls \subseteq wants[cur] \cup Extra \cup bloats
         /\ Roots(cur) \subseteq seen \cup calls
         /\ \A n \in seen : n # TYPENAME /\ Deps[Declared(n)] \subseteq seen \cup calls
         /\ \A C \in SUBSET Names :
              Closed(cur, C) => (seen \cup calls) \ {TYPENAME} \subseteq C

Settled ==
  \A s \in Sandboxes \ (left \cup {cur}) :
    Reachable(s, domains[s]) /\ domains[s] \subseteq bloats

Finished == phase \in {"layout", "done"} => left = {} /\ cur = NoSb
Unknown  == phase = "fatal" =>
              \E s \in Sandboxes : wants[s] \ (decl \cup {TYPENAME}) # {}

Placed(o, k) == sect[o][k] # None

\* Sections are of the kinds placed so far and end before the last page does.
SectInv ==
  \A o \in Owners, k \in Kinds : Placed(o, k) =>
    /\ Occurs(o, k) /\ k <= kind
    /\ sect[o][k].first \in 1..MaxPage
    /\ sect[o][k].first <= sect[o][k].last
    /\ sect[o][k].last <= last

\* What can have been placed in this kind before the current group.
OrderInv ==
  /\ group # NOBODY => Placed(group, kind)
  /\ phase = "layout" =>
       \A o \in Owners : Placed(o, kind) =>
         /\ group # NOBODY
         /\ group = TRUSTED => o = TRUSTED
         /\ Bloated(group) => o = TRUSTED \/ (Bloated(o) /\ Rank[o] <= Rank[group])

\* Sections lie apart, but that trusted symbols may begin where another
\* section ends.
Seam(o, k, o2, k2) ==
  /\ o2 = TRUSTED /\ k2 \notin NewSegment /\ k2 # k
  /\ sect[o2][k2].first = sect[o][k].last
Apart(o, k, o2, k2) ==
  \/ sect[o2][k2].last < sect[o][k].first
  \/ sect[o][k].last < sect[o2][k2].first
  \/ Seam(o, k, o2, k2)
ApartInv ==
  \A o, o2 \in Owners, k, k2 \in Kinds :
    Placed(o, k) /\ Placed(o2, k2) /\ <<o, k>> # <<o2, k2>> /\ o # TRUSTED
      => Apart(o, k, o2, k2)

\* The group being placed lies behind everything else.
BehindInv ==
  group # NOBODY =>
    \A o \in Owners, k \in Kinds :
      Placed(o, k) /\ <<o, k>> # <<group, kind>> =>
        \/ sect[o][k].last < sect[group][kind].first
        \/ Seam(o, k, group, kind)

\* A page holds symbols of sections that have it.
HoldsInv ==
  \A g \in 1..MaxPage : \A h \in holds[g] : g \in PagesOf(h[1], h[2])

LayoutInv ==
  /\ open => last > 0
  /\ SectInv /\ OrderInv /\ ApartInv /\ BehindInv /\ HoldsInv
  /\ phase \in {"bloat", "domain"} =>
       group = NOBODY /\ (\A o \in Owners, k \in Kinds : ~Placed(o, k))

-----------------------------------------------------------------------------
(***************************************************************************)
(* The walks                                                               *)
(***************************************************************************)

WalkTypes ==
  /\ phase \in {"bloat", "domain", "layout", "done", "fatal"}
  /\ decl \subseteq Pkgs /\ wants \in [Sandboxes -> SUBSET Wanted]
  /\ bloats \subseteq Names /\ calls \subseteq Names /\ seen \subseteq Names
  /\ cur \in Sandboxes \cup {NoSb} /\ left \subseteq Sandboxes
  /\ domains \in [Sandboxes -> SUBSET Names]

WalkInv ==
  WalkTypes /\ DeclInv /\ BloatInv /\ DomainInv /\ Settled /\ Finished /\ Unknown

\* Every import of a name that is declared, or read as the runtime, is known.
LEMMA DepsTyped ==
  ASSUME DeclInv, NEW n
  PROVE  /\ Declared(n) \in decl
         /\ Deps[Declared(n)] \subseteq decl
         /\ Deps[Declared(n)] \subseteq Names
         /\ TYPENAME \notin Deps[Declared(n)]
         /\ Declared(n) \in Names /\ Declared(n) # TYPENAME /\ Declared(n) # CGO2
BY LinkerAssumption DEF DeclInv, Declared, Names

LEMMA SegregatedTyped ==
  ASSUME WalkTypes
  PROVE  /\ Segregated \subseteq Names /\ Extra \subseteq Names
         /\ TYPENAME \notin Extra
         /\ \A s \in Sandboxes : wants[s] \subseteq Names /\ wants[s] \subseteq Segregated
BY LinkerAssumption DEF WalkTypes, Segregated, Extra, Names

\* When the first walk is over every import of a name in Bloats is there.
LEMMA BloatsClosed ==
  ASSUME WalkTypes, DeclInv, Covered(bloats, {})
  PROVE  /\ Extra \subseteq bloats /\ GOSB \in bloats /\ RUNTIME \in bloats
         /\ \A n \in bloats : Deps[Declared(n)] \subseteq bloats
         /\ \A s \in Sandboxes : wants[s] \cap decl \subseteq bloats
         /\ TYPENAME \notin bloats
<1>1. \A n \in Segregated \cap decl : n \in bloats
  BY DEF Covered
<1>2. GOSB \in bloats
  BY <1>1 DEF Segregated, DeclInv
<1>3. GOSB # CGO2
  BY LinkerAssumption
<1>4. Deps[GOSB] \subseteq bloats
  BY <1>2, <1>3 DEF Covered
<1>5. RUNTIME \in bloats /\ RUNTIME # CGO2
  BY <1>4, LinkerAssumption
<1>6. Deps[RUNTIME] \subseteq bloats
  BY <1>5 DEF Covered
<1>7. ASSUME NEW n \in bloats PROVE Deps[Declared(n)] \subseteq bloats
  <2>1. CASE n = CGO2
    BY <2>1, <1>6, LinkerAssumption DEF Declared, DeclInv
  <2>2. CASE n # CGO2
    BY <2>2 DEF Covered, Declared
  <2> QED BY <2>1, <2>2
<1>8. Extra \subseteq bloats
  BY <1>1, <1>2 DEF Extra, Segregated, Covered
<1>9. TYPENAME \notin bloats
  BY LinkerAssumption DEF Covered, DeclInv
<1> QED BY <1>1, <1>2, <1>5, <1>7, <1>8, <1>9, SegregatedTyped

LEMMA WalkInit == Init => WalkInv
<1> SUFFICES ASSUME Init PROVE WalkInv
  OBVIOUS
<1>1. decl \subseteq Pkgs /\ wants \in [Sandboxes -> SUBSET Wanted]
  BY DEF Init
<1>2. Segregated \subseteq Names
  BY <1>1, LinkerAssumption DEF Segregated, Names
<1>3. WalkTypes
  BY <1>1, <1>2, LinkerAssumption DEF WalkTypes, Init, Names
<1>4. DeclInv
  BY DEF Init, DeclInv
<1>5. BloatInv
  BY LinkerAssumption DEF Init, BloatInv, Covered
<1>6. DomainInv /\ Settled /\ Finished /\ Unknown
  BY DEF Init, DomainInv, Settled, Finished, Unknown
<1> QED BY <1>3, <1>4, <1>5, <1>6 DEF WalkInv

\* A call that returns takes nothing away that is still needed.
LEMMA ReturnKeeps ==
  ASSUME WalkInv, NEW n \in Names, Return(n)
  PROVE  WalkInv'
<1> USE DEF WalkInv
<1>1. WalkTypes' /\ DeclInv'
  BY DEF Return, WalkTypes, DeclInv
<1>2. BloatInv'
  <2>1. ASSUME phase = "bloat" PROVE Covered(seen, calls)'
    BY <2>1, LinkerAssumption DEF Return, BloatInv, Covered, Segregated, DeclInv
  <2> QED BY <2>1 DEF Return, BloatInv, Covered, Segregated
<1>3. DomainInv'
  <2>1. CASE phase # "domain"
    BY <2>1 DEF Return, DomainInv
  <2>2. CASE phase = "domain" /\ cur = NoSb
    BY <2>2 DEF Return, DomainInv
  <2>3. CASE phase = "domain" /\ cur # NoSb
    <3>1. UNCHANGED <<phase, decl, wants, bloats, seen, cur>> /\ calls' = calls \ {n}
      BY DEF Return
    <3>2. n \in seen \/ n = TYPENAME
      BY DEF Return
    <3>3. calls' \subseteq wants[cur] \cup Extra \cup bloats
      BY <2>3, <3>1 DEF DomainInv
    <3>4. Roots(cur) \subseteq seen \cup calls'
      BY <2>3, <3>1, <3>2 DEF DomainInv, Roots
    <3>5. \A m \in seen : m # TYPENAME /\ Deps[Declared(m)] \subseteq seen \cup calls'
      BY <2>3, <3>1, <3>2, DepsTyped DEF DomainInv
    <3>6. \A C \in SUBSET Names :
            Closed(cur, C) => (seen \cup calls') \ {TYPENAME} \subseteq C
      BY <2>3, <3>1 DEF DomainInv
    <3> QED BY <2>3, <3>1, <3>3, <3>4, <3>5, <3>6
            DEF DomainInv, Roots, Extra, Closed, Declared
  <2> QED BY <2>1, <2>2, <2>3
<1>4. Settled' /\ Finished' /\ Unknown'
  BY DEF Return, Settled, Finished, Unknown, Reachable, Closed, Roots, Extra, Declared
<1> QED BY <1>1, <1>2, <1>3, <1>4
\* What has been proved of the finished domains and of Bloats is not touched.
LEMMA OldKept ==
  ASSUME WalkInv, UNCHANGED <<decl, wants, bloats, domains>>,
         left' \cup {cur'} = left \cup {cur}
  PROVE  Settled'
BY DEF WalkInv, Settled, Reachable, Closed, Roots, Extra, Declared

LEMMA CreateKeeps ==
  ASSUME WalkInv, NEW n \in Names, Create(n)
  PROVE  WalkInv'
<1> USE DEF WalkInv
<1> DEFINE m == Declared(n)
<1>1. /\ n \in calls /\ n # TYPENAME /\ n \notin seen /\ phase = "bloat"
      /\ seen' = seen \cup {m}
      /\ calls' = (calls \ {n}) \cup Deps[m]
      /\ UNCHANGED <<phase, decl, wants, bloats, cur, left, domains>>
  BY DEF Create, Handle
<1>2. m \in decl /\ Deps[m] \subseteq Names /\ m \in Names /\ m # CGO2
  BY DepsTyped
<1> HIDE DEF m
<1>3. WalkTypes' /\ DeclInv'
  BY <1>1, <1>2 DEF WalkTypes, DeclInv
<1>4. Covered(seen, calls)'
  <2>1. Covered(seen, calls)
    BY <1>1 DEF BloatInv
  <2>2. n \in decl => m = n
    BY DEF m, Declared
  <2>3. UNCHANGED Segregated
    BY <1>1 DEF Segregated
  <2>4. ASSUME NEW x \in seen', x # CGO2
        PROVE  x \in decl /\ Deps[x] \subseteq seen' \cup calls'
    BY <1>1, <1>2, <2>1, <2>2, <2>4 DEF Covered, DeclInv
  <2>5. ASSUME NEW x \in Segregated \cap decl PROVE x \in seen' \cup calls'
    BY <1>1, <2>1, <2>2 DEF Covered
  <2> QED BY <1>1, <2>1, <2>3, <2>4, <2>5 DEF Covered
<1>5. BloatInv'
  BY <1>1, <1>4 DEF BloatInv
<1>6. Settled'
  BY <1>1, OldKept
<1> QED BY <1>1, <1>3, <1>5, <1>6 DEF DomainInv, Finished, Unknown

LEMMA BloatsDoneKeeps ==
  ASSUME WalkInv, BloatsDone
  PROVE  WalkInv'
<1> USE DEF WalkInv
<1>1. WalkTypes' /\ DeclInv'
  BY DEF BloatsDone, WalkTypes, DeclInv
<1>2. Covered(bloats, {})'
  BY DEF BloatsDone, BloatInv, Covered, Segregated
<1>3. BloatInv' /\ DomainInv' /\ Finished' /\ Unknown'
  BY <1>2 DEF BloatsDone, BloatInv, DomainInv, Finished, Unknown
<1>4. Settled'
  BY DEF BloatsDone, BloatInv, Settled
<1> QED BY <1>1, <1>3, <1>4

LEMMA StartDomainKeeps ==
  ASSUME WalkInv, NEW s \in Sandboxes, StartDomain(s)
  PROVE  WalkInv'
<1> USE DEF WalkInv
<1>1. /\ phase = "domain" /\ cur = NoSb /\ s \in left /\ cur' = s
      /\ left' = left \ {s} /\ calls' = wants[s] \cup Extra
      /\ UNCHANGED <<phase, decl, wants, bloats, seen, domains>>
  BY DEF StartDomain
<1>2. WalkTypes' /\ DeclInv'
  BY <1>1, SegregatedTyped DEF WalkTypes, DeclInv
<1>3. BloatInv' /\ Finished' /\ Unknown'
  BY <1>1 DEF BloatInv, Covered, Segregated, Finished, Unknown
<1>4. DomainInv'
  <2>1. seen = {} /\ s # NoSb
    BY <1>1, LinkerAssumption DEF DomainInv
  <2>2. Extra' = Extra /\ Roots(cur)' = (wants[s] \cup Extra) \ {TYPENAME}
    BY <1>1 DEF Extra, Roots
  <2>3. \A C \in SUBSET Names : Closed(cur, C)' => (calls' \ {TYPENAME}) \subseteq C
    BY <1>1, <2>2 DEF Closed
  <2> QED BY <1>1, <2>1, <2>2, <2>3 DEF DomainInv
<1>5. Settled'
  <2>1. \A t \in Sandboxes : t \notin left' \cup {cur'} => t \notin left \cup {cur}
    BY <1>1, LinkerAssumption
  <2>2. \A t, S : Reachable(t, S)' = Reachable(t, S)
    BY <1>1 DEF Reachable, Closed, Roots, Extra, Declared
  <2> QED BY <1>1, <2>1, <2>2 DEF Settled
<1> QED BY <1>2, <1>3, <1>4, <1>5

LEMMA VisitKeeps ==
  ASSUME WalkInv, NEW n \in Names, Visit(n)
  PROVE  WalkInv'
<1> USE DEF WalkInv
<1> DEFINE D == Deps[Declared(n)]
<1>1. /\ n \in calls /\ n # TYPENAME /\ n \in bloats /\ phase = "domain"
      /\ seen' = seen \cup {n}
      /\ calls' = (calls \ {n}) \cup D
      /\ UNCHANGED <<phase, decl, wants, bloats, cur, left, domains>>
  BY DEF Visit, Handle
<1>2. D \subseteq Names /\ TYPENAME \notin D
  BY DepsTyped
<1>3. D \subseteq bloats
  BY <1>1, BloatsClosed DEF BloatInv
<1>4. WalkTypes' /\ DeclInv'
  BY <1>1, <1>2 DEF WalkTypes, DeclInv
<1>5. BloatInv' /\ Finished' /\ Unknown'
  BY <1>1 DEF BloatInv, Covered, Segregated, Finished, Unknown
<1>6. DomainInv'
  <2>1. cur # NoSb
    BY <1>1 DEF DomainInv
  <2>2. seen' \subseteq bloats /\ calls' \subseteq wants[cur] \cup Extra \cup bloats
    BY <1>1, <1>3, <2>1 DEF DomainInv
  <2>3. Roots(cur) \subseteq seen' \cup calls'
    BY <1>1, <2>1 DEF DomainInv
  <2>4. \A m \in seen' : m # TYPENAME /\ Deps[Declared(m)] \subseteq seen' \cup calls'
    BY <1>1, <2>1 DEF DomainInv
  <2>5. ASSUME NEW C \in SUBSET Names, Closed(cur, C)
        PROVE  (seen' \cup calls') \ {TYPENAME} \subseteq C
    <3>1. (seen \cup calls) \ {TYPENAME} \subseteq C
      BY <1>1, <2>1, <2>5 DEF DomainInv
    <3>2. n \in C
      BY <1>1, <3>1
    <3>3. D \subseteq C
      BY <2>5, <3>2 DEF Closed
    <3> QED BY <1>1, <3>1, <3>2, <3>3
  <2>6. /\ Extra' = Extra /\ Roots(cur)' = Roots(cur)
        /\ \A m : Declared(m)' = Declared(m)
        /\ \A C : Closed(cur, C)' = Closed(cur, C)
    BY <1>1 DEF Extra, Roots, Declared, Closed
  <2> HIDE DEF D
  <2> QED BY <1>1, <2>1, <2>2, <2>3, <2>4, <2>5, <2>6 DEF DomainInv
<1>7. Settled'
  BY <1>1, OldKept
<1> QED BY <1>4, <1>5, <1>6, <1>7

\* A package has no entry only if an enclosure asked for a name that is none.
LEMMA MissingKeeps ==
  ASSUME WalkInv, NEW n \in Names, Missing(n)
  PROVE  WalkInv'
<1> USE DEF WalkInv
<1>1. /\ phase = "domain" /\ n \in calls /\ n # TYPENAME /\ n \notin bloats
      /\ phase' = "fatal"
      /\ UNCHANGED <<decl, wants, bloats, calls, seen, cur, left, domains>>
  BY DEF Missing, walkVars
<1>2. cur \in Sandboxes /\ n \in wants[cur]
  BY <1>1, BloatsClosed DEF DomainInv, BloatInv, WalkTypes
<1>3. n \notin decl
  BY <1>1, <1>2, BloatsClosed DEF BloatInv
<1>4. Unknown'
  BY <1>1, <1>2, <1>3 DEF Unknown
<1>5. Settled'
  BY <1>1, OldKept
<1> QED BY <1>1, <1>4, <1>5
        DEF WalkTypes, DeclInv, BloatInv, Covered, Segregated, DomainInv, Finished

\* With no call left, what was seen is the least set that has the roots and
\* the imports of its members.
LEMMA DomainDoneKeeps ==
  ASSUME WalkInv, DomainDone
  PROVE  WalkInv'
<1> USE DEF WalkInv
<1>1. /\ phase = "domain" /\ cur # NoSb /\ calls = {}
      /\ domains' = [domains EXCEPT ![cur] = seen]
      /\ seen' = {} /\ cur' = NoSb
      /\ UNCHANGED <<phase, decl, wants, bloats, calls, left>>
  BY DEF DomainDone
<1>2. WalkTypes' /\ DeclInv'
  BY <1>1 DEF WalkTypes, DeclInv
<1>3. BloatInv' /\ Finished' /\ Unknown' /\ DomainInv'
  BY <1>1 DEF BloatInv, Covered, Segregated, Finished, Unknown, DomainInv
<1>4. Closed(cur, seen)
  BY <1>1 DEF DomainInv, Closed
<1>5. Reachable(cur, seen) /\ seen \subseteq bloats
  BY <1>1, <1>4 DEF DomainInv, Reachable
<1>6. \A s, S : Reachable(s, S)' = Reachable(s, S)
  BY <1>1 DEF Reachable, Closed, Roots, Extra, Declared
<1>7. Settled'
  BY <1>1, <1>5, <1>6 DEF Settled, WalkTypes
<1> QED BY <1>2, <1>3, <1>7

LEMMA DomainsDoneKeeps ==
  ASSUME WalkInv, DomainsDone
  PROVE  WalkInv'
<1> USE DEF WalkInv
<1>1. /\ phase = "domain" /\ cur = NoSb /\ left = {} /\ phase' = "layout"
      /\ UNCHANGED <<decl, wants, bloats, calls, seen, cur, left, domains>>
  BY DEF DomainsDone, walkVars
<1>2. Settled'
  BY <1>1, OldKept
<1> QED BY <1>1, <1>2 DEF WalkTypes, DeclInv, BloatInv, Covered, Segregated,
                          DomainInv, Finished, Unknown

\* Placing symbols leaves the walks' results alone.
LEMMA WalkUntouched ==
  ASSUME WalkInv, UNCHANGED <<decl, wants, walkVars>>,
         \/ UNCHANGED phase
         \/ phase = "layout" /\ phase' \in {"layout", "done"}
  PROVE  WalkInv'
<1> USE DEF WalkInv
<1>1. UNCHANGED <<decl, wants, bloats, calls, seen, cur, left, domains>>
  BY DEF walkVars
<1>2. Settled'
  BY <1>1, OldKept
<1>3. CASE UNCHANGED phase
  BY <1>1, <1>2, <1>3 DEF WalkTypes, DeclInv, BloatInv, Covered, Segregated,
     DomainInv, Finished, Unknown, Roots, Extra, Closed, Declared
<1>4. CASE phase = "layout" /\ phase' \in {"layout", "done"}
  BY <1>1, <1>2, <1>4 DEF WalkTypes, DeclInv, BloatInv, Covered, Segregated,
     DomainInv, Finished, Unknown
<1> QED BY <1>3, <1>4
-----------------------------------------------------------------------------
(***************************************************************************)
(* The layout                                                              *)
(***************************************************************************)

LayoutTypes ==
  /\ kind \in Kinds /\ group \in Owners \cup {NOBODY}
  /\ last \in 0..MaxPage /\ open \in BOOLEAN
  /\ sect \in [Owners -> [Kinds -> [first : Nat, last : 0..MaxPage]]]
  /\ holds \in [1..MaxPage -> SUBSET (Owners \X Kinds)]

LEMMA LayoutInit == Init => LayoutTypes /\ LayoutInv
<1> SUFFICES ASSUME Init PROVE LayoutTypes /\ LayoutInv
  OBVIOUS
<1>1. None \in [first : Nat, last : 0..MaxPage]
  BY LinkerAssumption DEF None
<1>2. \A o \in Owners, k \in Kinds : ~Placed(o, k)
  BY DEF Init, Placed
<1>3. LayoutTypes
  <2>1. [k \in Kinds |-> None] \in [Kinds -> [first : Nat, last : 0..MaxPage]]
    BY <1>1
  <2>2. sect \in [Owners -> [Kinds -> [first : Nat, last : 0..MaxPage]]]
    BY <2>1 DEF Init
  <2>3. holds \in [1..MaxPage -> SUBSET (Owners \X Kinds)]
    BY DEF Init
  <2>4. kind \in Kinds /\ last \in 0..MaxPage
    BY LinkerAssumption DEF Init, Kinds
  <2> QED BY <2>2, <2>3, <2>4 DEF Init, LayoutTypes
<1>4. HoldsInv
  BY DEF Init, HoldsInv
<1> QED BY <1>2, <1>3, <1>4
        DEF Init, LayoutInv, SectInv, OrderInv, ApartInv, BehindInv

\* Nothing is placed while packages are walked.
LEMMA WalkLayout ==
  ASSUME LayoutTypes, LayoutInv, phase \in {"bloat", "domain"},
         UNCHANGED layoutVars, phase' \in {"bloat", "domain", "layout", "fatal"}
  PROVE  LayoutTypes' /\ LayoutInv'
<1>1. UNCHANGED <<kind, group, last, open, sect, holds>>
  BY DEF layoutVars
<1>2. group' = NOBODY /\ \A o \in Owners, k \in Kinds : ~Placed(o, k)'
  BY <1>1 DEF LayoutInv, Placed
<1>3. LayoutTypes'
  BY <1>1 DEF LayoutTypes
<1>4. HoldsInv'
  BY <1>1 DEF LayoutInv, HoldsInv, PagesOf
<1>5. kind' \in Kinds
  BY <1>3 DEF LayoutTypes
<1> QED BY <1>1, <1>2, <1>3, <1>4, <1>5
        DEF LayoutInv, SectInv, OrderInv, ApartInv, BehindInv

\* An owner that is not the current group has nothing in this kind yet.
LEMMA NewGroup ==
  ASSUME WalkInv, LayoutTypes, LayoutInv, NEW o \in Owners, Place(o)
  PROVE  /\ o = group <=> Placed(o, kind)
         /\ group = NOBODY => \A x \in Owners : ~Placed(x, kind)
         /\ Bloated(o) => o # TRUSTED /\ ~Alone(o) /\ Rank[o] \in Nat
<1>1. o # NOBODY /\ kind \in Kinds
  BY OwnerAssumption DEF LayoutTypes
<1>2. phase = "layout" /\ MayFollow(o) /\ (Alone(o) => sect[o][kind] = None)
      /\ (o = group => ~Alone(o))
  BY DEF Place
<1>3. \A x : Bloated(x) => x \in Names /\ x # TRUSTED /\ ~Alone(x) /\ Rank[x] \in Nat
  BY LinkerAssumption, OwnerAssumption DEF WalkInv, WalkTypes, Bloated, Alone
<1>4. o = group => Placed(o, kind)
  BY <1>1 DEF LayoutInv, OrderInv
<1>5. group = NOBODY => \A x \in Owners : ~Placed(x, kind)
  BY <1>2 DEF LayoutInv, OrderInv
<1>6. ASSUME o # group PROVE ~Placed(o, kind)
  <2>1. CASE Alone(o)
    BY <2>1, <1>2 DEF Placed
  <2>2. CASE group = NOBODY
    BY <2>2, <1>5
  <2>3. CASE group = TRUSTED
    BY <2>3, <1>2, <1>6 DEF LayoutInv, OrderInv
  <2>4. CASE Bloated(group) /\ Bloated(o) /\ Rank[group] <= Rank[o]
    <3>1. Rank[group] # Rank[o]
      BY <2>4, <1>3, <1>6, LinkerAssumption
    <3>2. ~(Rank[o] <= Rank[group])
      BY <2>4, <3>1, <1>3
    <3> QED BY <2>4, <3>2, <1>2, <1>3 DEF LayoutInv, OrderInv
  <2> QED BY <2>1, <2>2, <2>3, <2>4, <1>2 DEF MayFollow
<1> QED BY <1>3, <1>4, <1>5, <1>6

\* What placing a symbol changes.
LEMMA PlaceEffect ==
  ASSUME WalkInv, LayoutTypes, LayoutInv, NEW o \in Owners, Place(o)
  PROVE  \E start \in 1..MaxPage, end \in 1..MaxPage :
           LET f == IF o = group THEN sect[o][kind].first ELSE start IN
           /\ start >= last /\ start <= end /\ f \in 1..MaxPage /\ f <= start
           /\ start = last => ~StartsPage(o)
           /\ last' = end /\ open' \in BOOLEAN /\ group' = o
           /\ sect' = [sect EXCEPT ![o][kind] = [first |-> f, last |-> end]]
           /\ holds' = [g \in 1..MaxPage |->
                IF g \in start..end THEN holds[g] \cup {<<o, kind>>} ELSE holds[g]]
<1>1. PICK start \in {last, last + 1}, more \in 0..MaxSpan, room \in BOOLEAN :
        /\ start = last => open /\ ~StartsPage(o)
        /\ start + more <= MaxPage
        /\ last' = start + more /\ open' = room
        /\ sect' = [sect EXCEPT ![o][kind] =
             [first |-> IF @ = None THEN start ELSE @.first, last |-> start + more]]
        /\ holds' = [g \in 1..MaxPage |->
             IF g \in start..(start + more) THEN holds[g] \cup {<<o, kind>>} ELSE holds[g]]
  BY DEF Place
<1>2. group' = o
  BY DEF Place
<1>3. last \in Nat /\ MaxPage \in Nat /\ MaxSpan \in Nat /\ kind \in Kinds
  BY LinkerAssumption DEF LayoutTypes
<1>4. start \in 1..MaxPage /\ start + more \in 1..MaxPage /\ start >= last /\ start <= start + more
  BY <1>1, <1>3 DEF LayoutInv
<1>5. o = group <=> sect[o][kind] # None
  BY NewGroup DEF Placed
<1>6. ASSUME o = group
      PROVE  sect[o][kind].first \in 1..MaxPage /\ sect[o][kind].first <= start
  <2>1. Placed(o, kind)
    BY <1>5, <1>6 DEF Placed
  <2>2. /\ sect[o][kind].first \in 1..MaxPage
        /\ sect[o][kind].first <= sect[o][kind].last /\ sect[o][kind].last <= last
    BY <2>1, <1>3 DEF LayoutInv, SectInv
  <2>3. sect[o][kind].last \in Nat
    BY <1>3 DEF LayoutTypes
  <2> QED BY <2>2, <2>3, <1>3, <1>4
<1> DEFINE f == IF o = group THEN sect[o][kind].first ELSE start
           end == start + more
<1>7. f \in 1..MaxPage /\ f <= start
  BY <1>4, <1>6, <1>3
<1>8. sect' = [sect EXCEPT ![o][kind] = [first |-> f, last |-> end]]
  BY <1>1, <1>5
<1> start \in 1..MaxPage /\ end \in 1..MaxPage
  BY <1>4
<1> WITNESS start \in 1..MaxPage, end \in 1..MaxPage
<1> QED BY <1>1, <1>2, <1>4, <1>7, <1>8

\* A symbol that is placed lies behind all others, but for trusted ones that
\* begin a kind.
LEMMA PlaceKeeps ==
  ASSUME WalkInv, LayoutTypes, LayoutInv, NEW o \in Owners, Place(o)
  PROVE  LayoutTypes' /\ LayoutInv'
<1>1. PICK start \in 1..MaxPage, end \in 1..MaxPage :
        LET f == IF o = group THEN sect[o][kind].first ELSE start IN
        /\ start >= last /\ start <= end /\ f \in 1..MaxPage /\ f <= start
        /\ start = last => ~StartsPage(o)
        /\ last' = end /\ open' \in BOOLEAN /\ group' = o
        /\ sect' = [sect EXCEPT ![o][kind] = [first |-> f, last |-> end]]
        /\ holds' = [g \in 1..MaxPage |->
             IF g \in start..end THEN holds[g] \cup {<<o, kind>>} ELSE holds[g]]
  BY PlaceEffect
<1> DEFINE f == IF o = group THEN sect[o][kind].first ELSE start
<1>2. start >= last /\ start <= end /\ f \in 1..MaxPage /\ f <= start
  BY <1>1
<1>3. last' = end /\ group' = o /\ open' \in BOOLEAN
  BY <1>1
<1>4. sect' = [sect EXCEPT ![o][kind] = [first |-> f, last |-> end]]
  BY <1>1
<1>5. /\ phase = "layout" /\ Occurs(o, kind) /\ MayFollow(o)
      /\ UNCHANGED <<phase, bloats, kind>>
  BY DEF Place, walkVars
<1>6. /\ o = group <=> Placed(o, kind)
      /\ group = NOBODY => \A x \in Owners : ~Placed(x, kind)
      /\ Bloated(o) => o # TRUSTED /\ ~Alone(o) /\ Rank[o] \in Nat
  BY NewGroup
<1>7. start = last => o = group \/ (o = TRUSTED /\ group = NOBODY /\ kind \notin NewSegment)
  <2>1. SUFFICES ASSUME start = last, o # group
        PROVE  o = TRUSTED /\ group = NOBODY /\ kind \notin NewSegment
    OBVIOUS
  <2>2. o = TRUSTED /\ ~(group = NOBODY /\ kind \in NewSegment)
    BY <2>1, <1>1 DEF StartsPage
  <2>3. group \in {NOBODY, TRUSTED}
    BY <2>2, <1>5, <1>6, OwnerAssumption DEF MayFollow, Alone
  <2> QED BY <2>1, <2>2, <2>3
<1>8. kind \in Kinds /\ MaxPage \in Nat /\ last \in Nat /\ o # NOBODY
  BY LinkerAssumption, OwnerAssumption DEF LayoutTypes
<1>9. \A x \in Owners, k \in Kinds :
        /\ sect[x][k].first \in Nat /\ sect[x][k].last \in Nat
        /\ Placed(x, k) => sect[x][k].last <= last
        /\ Placed(x, k) => sect[x][k].first <= sect[x][k].last
  BY <1>8 DEF LayoutTypes, LayoutInv, SectInv
<1> HIDE DEF f
<1>10. sect'[o][kind] = [first |-> f, last |-> end]
  BY <1>4, <1>8 DEF LayoutTypes
<1>11. Placed(o, kind)'
  BY <1>2, <1>5, <1>10, <1>8 DEF Placed, None
<1>12. \A x \in Owners, k \in Kinds : <<x, k>> # <<o, kind>> =>
         sect'[x][k] = sect[x][k] /\ (Placed(x, k)' <=> Placed(x, k))
  BY <1>4, <1>8 DEF LayoutTypes, Placed
<1>13. o = group => f = sect[o][kind].first
  BY DEF f
<1>14. o # group => f = start
  BY DEF f
<1>15. LayoutTypes'
  <2>1. [first |-> f, last |-> end] \in [first : Nat, last : 0..MaxPage]
    BY <1>2, <1>8
  <2>2. sect' \in [Owners -> [Kinds -> [first : Nat, last : 0..MaxPage]]]
    BY <1>4, <1>8, <2>1 DEF LayoutTypes
  <2>3. holds' \in [1..MaxPage -> SUBSET (Owners \X Kinds)]
    BY <1>1, <1>8 DEF LayoutTypes
  <2> QED BY <1>3, <1>5, <1>8, <2>2, <2>3 DEF LayoutTypes
<1>16. SectInv'
  <2>1. ASSUME NEW x \in Owners, NEW k \in Kinds, Placed(x, k)'
        PROVE  /\ Occurs(x, k)' /\ k <= kind'
               /\ sect'[x][k].first \in 1..MaxPage
               /\ sect'[x][k].first <= sect'[x][k].last
               /\ sect'[x][k].last <= last'
    <3>1. Occurs(x, k)' <=> Occurs(x, k)
      BY <1>5 DEF Occurs, Bloated
    <3>2. CASE <<x, k>> = <<o, kind>>
      BY <3>1, <3>2, <1>2, <1>3, <1>5, <1>8, <1>10 DEF Kinds
    <3>3. CASE <<x, k>> # <<o, kind>>
      <4>1. Placed(x, k) /\ sect'[x][k] = sect[x][k]
        BY <3>3, <2>1, <1>12
      <4> QED BY <4>1, <3>1, <1>2, <1>3, <1>5, <1>8, <1>9 DEF LayoutInv, SectInv
    <3> QED BY <3>2, <3>3
  <2> QED BY <2>1 DEF SectInv
<1>17. OrderInv'
  <2>1. ASSUME NEW x \in Owners, Placed(x, kind)'
        PROVE  /\ o = TRUSTED => x = TRUSTED
               /\ Bloated(o) => x = TRUSTED \/ (Bloated(x) /\ Rank[x] <= Rank[o])
    <3>1. CASE x = o
      BY <3>1, <1>6
    <3>2. CASE x # o
      <4>1. Placed(x, kind)
        BY <3>2, <2>1, <1>5, <1>12, <1>8 DEF Placed
      <4>2. /\ group # NOBODY
            /\ group = TRUSTED => x = TRUSTED
            /\ Bloated(group) => x = TRUSTED \/ (Bloated(x) /\ Rank[x] <= Rank[group])
        BY <4>1, <1>5 DEF LayoutInv, OrderInv
      <4>3. ~Alone(TRUSTED) /\ ~Bloated(TRUSTED)
        BY OwnerAssumption DEF Alone, WalkInv, WalkTypes, Bloated
      <4>4. \A y : Bloated(y) => Rank[y] \in Nat
        BY LinkerAssumption DEF WalkInv, WalkTypes, Bloated
      <4> QED BY <4>2, <4>3, <4>4, <1>5, <1>6 DEF MayFollow
    <3> QED BY <3>1, <3>2
  <2>2. \A x : Bloated(x)' <=> Bloated(x)
    BY <1>5 DEF Bloated
  <2> QED BY <2>1, <2>2, <1>3, <1>5, <1>8, <1>11 DEF OrderInv
<1>18. ASSUME NEW x \in Owners, NEW k \in Kinds, Placed(x, k)', <<x, k>> # <<o, kind>>
       PROVE  sect'[x][k].last < sect'[o][kind].first \/ Seam(x, k, o, kind)'
  <2>1. Placed(x, k) /\ sect'[x][k] = sect[x][k]
    BY <1>18, <1>12
  <2>2. CASE o = group
    <3>1. sect[x][k].last < sect[o][kind].first \/ Seam(x, k, o, kind)
      BY <2>1, <2>2, <1>18, <1>8 DEF LayoutInv, BehindInv
    <3>2. sect'[o][kind].first = sect[o][kind].first
      BY <2>2, <1>10, <1>13
    <3>3. CASE sect[x][k].last < sect[o][kind].first
      BY <2>1, <3>2, <3>3
    <3>4. CASE Seam(x, k, o, kind)
      BY <2>1, <3>2, <3>4, <1>5 DEF Seam
    <3> QED BY <3>1, <3>3, <3>4
  <2>3. CASE o # group
    <3>1. sect'[o][kind].first = start
      BY <2>3, <1>10, <1>14
    <3>2. sect[x][k].last \in Nat /\ sect[x][k].last <= last
      BY <2>1, <1>9
    <3>3. CASE start > last
      BY <2>1, <3>1, <3>2, <3>3, <1>8
    <3>4. CASE start = last
      <4>1. o = TRUSTED /\ kind \notin NewSegment /\ k # kind
        BY <2>1, <2>3, <3>4, <1>6, <1>7
      <4>2. CASE sect[x][k].last < last
        BY <2>1, <3>1, <3>4, <4>2
      <4>3. CASE sect[x][k].last = last
        BY <2>1, <3>1, <3>4, <4>1, <4>3, <1>5 DEF Seam
      <4> QED BY <3>2, <4>2, <4>3, <1>8
    <3> QED BY <3>3, <3>4, <1>2, <1>8
  <2> QED BY <2>2, <2>3
<1>19. BehindInv'
  BY <1>18, <1>3, <1>5 DEF BehindInv
<1>20. ApartInv'
  <2>1. SUFFICES ASSUME NEW x \in Owners, NEW y \in Owners, NEW k \in Kinds,
                        NEW l \in Kinds, Placed(x, k)', Placed(y, l)',
                        <<x, k>> # <<y, l>>, x # TRUSTED
                 PROVE  Apart(x, k, y, l)'
    BY DEF ApartInv
  <2>2. CASE <<y, l>> = <<o, kind>>
    BY <2>1, <2>2, <1>5, <1>18 DEF Apart, Seam
  <2>3. CASE <<x, k>> = <<o, kind>>
    <3>1. ~Seam(y, l, o, kind)'
      BY <2>1, <2>3 DEF Seam
    <3> QED BY <2>1, <2>3, <3>1, <1>18 DEF Apart
  <2>4. CASE <<y, l>> # <<o, kind>> /\ <<x, k>> # <<o, kind>>
    <3>1. Placed(x, k) /\ Placed(y, l) /\ sect'[x][k] = sect[x][k] /\ sect'[y][l] = sect[y][l]
      BY <2>1, <2>4, <1>12
    <3>2. Apart(x, k, y, l)
      BY <2>1, <3>1 DEF LayoutInv, ApartInv
    <3> QED BY <3>1, <3>2 DEF Apart, Seam
  <2> QED BY <2>2, <2>3, <2>4
<1>21. HoldsInv'
  <2>1. SUFFICES ASSUME NEW g \in 1..MaxPage, NEW h \in holds'[g]
                 PROVE  g \in PagesOf(h[1], h[2])'
    BY DEF HoldsInv
  <2>2. CASE h \in holds[g]
    <3>1. g \in PagesOf(h[1], h[2])
      BY <2>2 DEF LayoutInv, HoldsInv
    <3>2. h[1] \in Owners /\ h[2] \in Kinds /\ h = <<h[1], h[2]>>
      <4>1. holds[g] \subseteq Owners \X Kinds
        BY DEF LayoutTypes
      <4> QED BY <4>1, <2>2
    <3>3. CASE <<h[1], h[2]>> = <<o, kind>>
      <4>1. sect[o][kind].first <= g /\ g <= sect[o][kind].last
        BY <3>1, <3>3 DEF PagesOf
      <4>2. Placed(o, kind)
        BY <4>1 DEF Placed, None
      <4>3. f = sect[o][kind].first /\ sect[o][kind].last <= last
        BY <4>2, <1>6, <1>8, <1>9, <1>13
      <4>4. f <= g /\ g <= end
        BY <4>1, <4>3, <1>2, <1>8, <1>9
      <4> QED BY <3>3, <4>4, <1>2, <1>8, <1>10 DEF PagesOf
    <3>4. CASE <<h[1], h[2]>> # <<o, kind>>
      BY <3>1, <3>2, <3>4, <1>12 DEF PagesOf
    <3> QED BY <3>3, <3>4
  <2>3. CASE h \notin holds[g]
    <3>1. h = <<o, kind>> /\ g \in start..end
      BY <2>1, <2>3, <1>1
    <3>2. f <= g /\ g <= end
      BY <3>1, <1>2, <1>8
    <3> QED BY <3>1, <3>2, <1>2, <1>8, <1>10 DEF PagesOf
  <2> QED BY <2>2, <2>3
<1>22. open' => last' > 0
  BY <1>2, <1>3, <1>8
<1> QED BY <1>5, <1>15, <1>16, <1>17, <1>19, <1>20, <1>21, <1>22 DEF LayoutInv

\* The next kind has nothing yet.
LEMMA KindDoneKeeps ==
  ASSUME LayoutTypes, LayoutInv, KindDone
  PROVE  LayoutTypes' /\ LayoutInv'
<1>1. /\ phase = "layout" /\ phase' \in {"layout", "done"} /\ group' = NOBODY
      /\ phase' = "layout" => kind < NKinds /\ kind' = kind + 1
      /\ phase' = "done" => kind' = kind
      /\ UNCHANGED <<bloats, last, open, sect, holds>>
  BY DEF KindDone, walkVars
<1>2. kind \in Kinds /\ NKinds \in Nat
  BY LinkerAssumption DEF LayoutTypes
<1>3. kind' \in Kinds /\ kind <= kind'
  BY <1>1, <1>2 DEF Kinds
<1>4. LayoutTypes'
  BY <1>1, <1>3 DEF LayoutTypes
<1>5. SectInv'
  BY <1>1, <1>2, <1>3 DEF LayoutInv, SectInv, Placed, Occurs, Bloated, Kinds
<1>6. OrderInv'
  <2>1. ASSUME phase' = "layout", NEW o \in Owners PROVE ~Placed(o, kind)'
    <3>1. kind' = kind + 1 /\ ~(kind + 1 <= kind)
      BY <2>1, <1>1, <1>2 DEF Kinds
    <3>2. ~Placed(o, kind + 1)
      BY <3>1, <1>3 DEF LayoutInv, SectInv
    <3> QED BY <3>1, <3>2, <1>1 DEF Placed
  <2> QED BY <2>1, <1>1 DEF OrderInv
<1>7. BehindInv' /\ ApartInv' /\ HoldsInv' /\ (open' => last' > 0)
  BY <1>1 DEF LayoutInv, BehindInv, ApartInv, HoldsInv, Placed, Apart, Seam, PagesOf
<1> QED BY <1>1, <1>4, <1>5, <1>6, <1>7 DEF LayoutInv

-----------------------------------------------------------------------------
(***************************************************************************)
(* The invariant holds                                                     *)
(***************************************************************************)

IInv == WalkInv /\ LayoutTypes /\ LayoutInv

LEMMA IInvNext == IInv /\ [Next]_vars => IInv'
<1> SUFFICES ASSUME IInv, [Next]_vars PROVE IInv'
  OBVIOUS
<1> WalkInv /\ LayoutTypes /\ LayoutInv
  BY DEF IInv
<1>1. ASSUME WalkInv', phase \in {"bloat", "domain"}, UNCHANGED layoutVars,
             phase' \in {"bloat", "domain", "layout", "fatal"}
      PROVE  IInv'
  BY <1>1, WalkLayout DEF IInv
<1>2. ASSUME NEW n \in Names, Return(n) PROVE IInv'
  <2>1. WalkInv'
    BY <1>2, ReturnKeeps
  <2>2. CASE phase \in {"bloat", "domain"}
    BY <1>1, <1>2, <2>1, <2>2 DEF Return
  <2>3. CASE phase \notin {"bloat", "domain"}
    <3>1. UNCHANGED <<phase, bloats, kind, group, last, open, sect, holds>>
      BY <1>2 DEF Return, layoutVars
    <3> QED BY <2>1, <2>3, <3>1 DEF IInv, LayoutTypes, LayoutInv, SectInv, OrderInv,
               ApartInv, BehindInv, HoldsInv, Placed, Occurs, Bloated, Apart, Seam, PagesOf
  <2> QED BY <2>2, <2>3
<1>3. ASSUME NEW n \in Names, Create(n) PROVE IInv'
  BY <1>1, <1>3, CreateKeeps DEF Create, Handle
<1>4. ASSUME NEW n \in Names, Visit(n) PROVE IInv'
  BY <1>1, <1>4, VisitKeeps DEF Visit, Handle
<1>5. ASSUME NEW n \in Names, Missing(n) PROVE IInv'
  BY <1>1, <1>5, MissingKeeps DEF Missing
<1>6. CASE BloatsDone
  BY <1>1, <1>6, BloatsDoneKeeps DEF BloatsDone
<1>7. ASSUME NEW s \in Sandboxes, StartDomain(s) PROVE IInv'
  BY <1>1, <1>7, StartDomainKeeps DEF StartDomain
<1>8. CASE DomainDone
  BY <1>1, <1>8, DomainDoneKeeps DEF DomainDone
<1>9. CASE DomainsDone
  BY <1>1, <1>9, DomainsDoneKeeps DEF DomainsDone
<1>10. ASSUME NEW o \in Owners, Place(o) PROVE IInv'
  BY <1>10, PlaceKeeps, WalkUntouched DEF Place, IInv
<1>11. CASE KindDone
  <2>1. \/ UNCHANGED phase
        \/ phase = "layout" /\ phase' \in {"layout", "done"}
    BY <1>11 DEF KindDone
  <2> QED BY <1>11, <2>1, KindDoneKeeps, WalkUntouched DEF KindDone, IInv
<1>12. CASE UNCHANGED vars
  <2>1. WalkInv'
    BY <1>12, WalkUntouched DEF vars
  <2>2. UNCHANGED <<phase, bloats, kind, group, last, open, sect, holds>>
    BY <1>12 DEF vars, walkVars, layoutVars
  <2> QED BY <2>1, <2>2 DEF IInv, LayoutTypes, LayoutInv, SectInv, OrderInv,
             ApartInv, BehindInv, HoldsInv, Placed, Occurs, Bloated, Apart, Seam, PagesOf
<1> QED BY <1>2, <1>3, <1>4, <1>5, <1>6, <1>7, <1>8, <1>9, <1>10, <1>11, <1>12
        DEF Next, Done

\* The linker's walks and its layout keep the invariant this module builds.
THEOREM Inductive == Spec => []IInv
<1>1. Init => IInv
  BY WalkInit, LayoutInit DEF IInv
<1> QED BY <1>1, IInvNext, PTL DEF Spec

\* Names are packages or those the compiler knows, and a section has a first
\* and a last page the program has.
THEOREM TypeCorrect == Spec => []TypeOK
<1>1. IInv => TypeOK
  BY DEF IInv, WalkInv, WalkTypes, LayoutTypes, TypeOK
<1> QED BY <1>1, Inductive, PTL

-----------------------------------------------------------------------------
(***************************************************************************)
(* What follows from it                                                    *)
(***************************************************************************)

\* In whatever order names are met, gosb_generateDomains finds for an
\* enclosure the packages that can be reached from those it names, and stops
\* the link for no other reason than a name that is no package's.
THEOREM Domains == Spec => []DomainsRight
<1>1. IInv => DomainsRight
  BY DEF IInv, WalkInv, Settled, Unknown, DomainsRight
<1> QED BY <1>1, Inductive, PTL

\* Two owners share a page only where trusted symbols begin.
LEMMA SharedPage ==
  ASSUME LayoutTypes, LayoutInv,
         NEW x \in Owners, NEW y \in Owners, NEW k \in Kinds, NEW l \in Kinds,
         NEW g \in Nat, g \in PagesOf(x, k), g \in PagesOf(y, l), x # TRUSTED
  PROVE  \/ y = x /\ l = k
         \/ y = TRUSTED /\ l \notin NewSegment /\ g = sect[TRUSTED][l].first
<1>1. /\ sect[x][k].first \in Nat /\ sect[x][k].last \in 0..MaxPage
      /\ sect[y][l].first \in Nat /\ sect[y][l].last \in 0..MaxPage
  BY DEF LayoutTypes
<1>2. MaxPage \in Nat
  BY LinkerAssumption
<1>3. /\ sect[x][k].first <= g /\ g <= sect[x][k].last
      /\ sect[y][l].first <= g /\ g <= sect[y][l].last
  BY DEF PagesOf
<1>4. Placed(x, k) /\ Placed(y, l)
  BY <1>3 DEF Placed, None
<1>5. <<x, k>> = <<y, l>> \/ Apart(x, k, y, l)
  BY <1>4 DEF LayoutInv, ApartInv
<1>6. CASE Seam(x, k, y, l)
  BY <1>1, <1>2, <1>3, <1>6 DEF Seam
<1> QED BY <1>1, <1>2, <1>3, <1>5, <1>6 DEF Apart

\* The pages an enclosure can see hold its domain's symbols, its function's
\* and stack objects', or begin the trusted symbols of a kind.
THEOREM DomainPages == Spec => []SeesOnlyDomain
<1>1. IInv => SeesOnlyDomain
  <2> SUFFICES ASSUME IInv, phase = "done", NEW s \in Sandboxes,
                      NEW g \in Static(s) \cap (1..MaxPage), NEW h \in holds[g]
               PROVE  \/ h[1] \in domains[s] \cup {PCLNTAB, Fn(s), Stk(s), Stk(MAIN)}
                      \/ /\ h[1] = TRUSTED /\ h[2] \notin NewSegment
                         /\ g = sect[TRUSTED][h[2]].first
                      \/ g \in Behind(s)
    BY DEF SeesOnlyDomain
  <2>1. LayoutTypes /\ LayoutInv /\ WalkInv
    BY DEF IInv
  <2>2. g \in Nat /\ g \in PagesOf(h[1], h[2])
    BY <2>1, LinkerAssumption DEF LayoutInv, HoldsInv
  <2>3. h[1] \in Owners /\ h[2] \in Kinds
    <3>1. holds[g] \subseteq Owners \X Kinds
      BY <2>1 DEF LayoutTypes
    <3> QED BY <3>1
  <2>4. ASSUME NEW x \in Owners, NEW k \in Kinds, x # TRUSTED, g \in PagesOf(x, k)
        PROVE  \/ h[1] = x
               \/ /\ h[1] = TRUSTED /\ h[2] \notin NewSegment
                  /\ g = sect[TRUSTED][h[2]].first
    BY <2>1, <2>2, <2>3, <2>4, SharedPage
  <2>5. /\ domains[s] \subseteq Names /\ GOSB \in domains[s]
        /\ TRUSTED \notin domains[s]
    <3>1. s \notin left \cup {cur}
      BY <2>1, LinkerAssumption DEF WalkInv, Finished
    <3>2. Reachable(s, domains[s]) /\ domains[s] \subseteq Names
      BY <2>1, <3>1 DEF WalkInv, WalkTypes, Settled
    <3>3. GOSB \in domains[s]
      BY <3>2, LinkerAssumption DEF Reachable, Closed, Roots, Extra
    <3> QED BY <3>2, <3>3, OwnerAssumption
  <2>6. domains[s] \subseteq Owners
    BY <2>5 DEF Owners
  <2>7. /\ PCLNTAB \in Owners /\ PCLNTAB # TRUSTED
        /\ Fn(s) \in Owners /\ Fn(s) # TRUSTED
        /\ \A t \in {s, MAIN} : Stk(t) \in Owners /\ Stk(t) # TRUSTED
    BY OwnerAssumption DEF Owners, Fns, Stks
  <2>8. STEXT \in Kinds /\ RODATA \in Kinds /\ PCLN \in Kinds
    BY LinkerAssumption
  <2>9. CASE g \in UNION {PkgPages(p) : p \in domains[s]}
    <3>1. PICK p \in domains[s], k \in Kinds : g \in PagesOf(p, k)
      BY <2>9 DEF PkgPages
    <3> QED BY <3>1, <2>4, <2>5, <2>6
  <2>10. CASE g \in FakePages(s)
    <3>1. CASE g \in PagesOf(Fn(s), STEXT)
      BY <3>1, <2>4, <2>7, <2>8
    <3>2. ASSUME NEW t \in {s, MAIN}, g \in StkPages(s, t)
          PROVE  g \in PagesOf(Stk(t), RODATA) \/ g \in Behind(s)
      BY <3>2 DEF Behind
    <3>3. ASSUME NEW t \in {s, MAIN}, g \in PagesOf(Stk(t), RODATA)
          PROVE  \/ h[1] = Stk(t)
                 \/ /\ h[1] = TRUSTED /\ h[2] \notin NewSegment
                    /\ g = sect[TRUSTED][h[2]].first
      BY <3>3, <2>4, <2>7, <2>8
    <3> QED BY <2>10, <3>1, <3>2, <3>3 DEF FakePages
  <2>11. CASE g \in Common
    <3>1. CASE g \in PagesOf(PCLNTAB, PCLN)
      BY <3>1, <2>4, <2>7, <2>8
    <3>2. CASE g \in PkgPages(GOSB)
      <4>1. PICK k \in Kinds : g \in PagesOf(GOSB, k)
        BY <3>2 DEF PkgPages
      <4> QED BY <4>1, <2>4, <2>5, <2>6
    <3> QED BY <2>11, <3>1, <3>2 DEF Common
  <2> QED BY <2>9, <2>10, <2>11 DEF Static
<1> QED BY <1>1, Inductive, PTL

\* PcToId has one answer for a program counter: the bloated package or the
\* enclosure whose function is there, and none for trusted functions.
THEOREM Attribution == Spec => []Attributed
<1>1. IInv => Attributed
  <2> SUFFICES ASSUME IInv, phase = "done", NEW g \in 1..MaxPage,
                      NEW h \in holds[g], h[2] = STEXT
               PROVE  PcToId(g) = {h[1]} \ {TRUSTED}
    BY DEF Attributed
  <2>1. LayoutTypes /\ LayoutInv /\ WalkInv
    BY DEF IInv
  <2>2. g \in Nat /\ g \in PagesOf(h[1], STEXT)
    BY <2>1, LinkerAssumption DEF LayoutInv, HoldsInv
  <2>3. h[1] \in Owners /\ STEXT \in Kinds
    <3>1. holds[g] \subseteq Owners \X Kinds
      BY <2>1 DEF LayoutTypes
    <3> QED BY <3>1, LinkerAssumption
  <2>4. bloats \cup Fns \subseteq Owners /\ TRUSTED \notin bloats \cup Fns
    BY <2>1, OwnerAssumption DEF WalkInv, WalkTypes, Owners
  <2>5. ASSUME NEW o \in PcToId(g) PROVE o = h[1] /\ o # TRUSTED
    BY <2>1, <2>2, <2>3, <2>4, SharedPage, LinkerAssumption DEF PcToId
  <2>6. ASSUME h[1] # TRUSTED PROVE h[1] \in PcToId(g)
    <3>1. Placed(h[1], STEXT)
      BY <2>1, <2>2 DEF Placed, PagesOf, None
    <3>2. Occurs(h[1], STEXT)
      BY <2>1, <2>3, <3>1 DEF LayoutInv, SectInv
    <3>3. h[1] \in bloats \cup Fns
      BY <2>6, <3>2, LinkerAssumption DEF Occurs, Bloated
    <3> QED BY <3>3, <2>2 DEF PcToId
  <2> QED BY <2>5, <2>6
<1> QED BY <1>1, Inductive, PTL

=============================================================================
