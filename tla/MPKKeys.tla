------------------------------ MODULE MPKKeys ------------------------------
(***************************************************************************)
(* The MPK backend: packages that every enclosure sees alike share a        *)
(* protection key, each enclosure has a value of the PKRU register with its *)
(* rights on every key, and the heap's pages are given the key of the       *)
(* package they are handed to.                                              *)
(*                                                                          *)
(* Two computations group the packages, each in the random order of Go's    *)
(* maps: AggregatePackages gives the heap one id per group (rtIds), by the  *)
(* rights in the configuration; Init gives a key to each group, by the      *)
(* rights MPK can express, and leaves the runtime (id 0) on key 0, which    *)
(* every enclosure may use.  The heap then asks for pages by the first, and *)
(* Transfer answers with the second.                                        *)
(*                                                                          *)
(* A page's span keeps its id here until the page is handed on.  That the   *)
(* heap loses ids when it splits, merges and recycles spans is in SpanHeap. *)
(***************************************************************************)
EXTENDS MPK, Integers, Sequences, FiniteSets

CONSTANTS
  Pkgs,       \* ids of the packages enclosures may be given, or not
  Rights,     \* the rights a view may state: R, RX, RW, RWX or U (none)
  NKeys,      \* keys the kernel can allocate
  Pages       \* heap pages

RUNTIME == 0
UNKNOWN == -1
D_VAL   == {"R", "W", "X"}
NoView  == {"-"}   \* the package is not in the enclosure's view

All  == Pkgs \cup Sandboxes \cup {RUNTIME}
Keys == 0 .. NKeys

\* Enclosures are named by the (negative) ids of the packages that
\* createFakePackage makes of their functions.
ASSUME MPKAssumption ==
  /\ Pkgs \subseteq Nat \ {0} /\ IsFiniteSet(Pkgs)
  /\ Sandboxes \subseteq {i \in Int : i < UNKNOWN} /\ IsFiniteSet(Sandboxes)
  /\ Rights \subseteq {{}, {"R"}, {"R", "X"}, {"R", "W"}, D_VAL}
  /\ NKeys \in Nat

VARIABLES
  stage,    \* where initialisation is: see Stages
  given,    \* the rights each enclosure's configuration gives on packages
  left,     \* pkgAppearsIn, as the set of packages not grouped yet
  rtIds,    \* globals.RtIds
  groups,   \* pkgGroups
  sbProts,  \* per enclosure, the protection for each group it sees
  keys,     \* the key of each group allocated so far
  sect,     \* the key each package's sections are tagged with
  pkgKeys,  \* the backend's map from package to key
  sbPKRU,   \* the backend's map from enclosure to PKRU, a field per key
  own,      \* span.id of the span that holds the page
  tag       \* the key of the page

conf == <<given>>
init == <<left, rtIds, groups, sbProts, keys, sect, pkgKeys, sbPKRU>>
heap == <<own, tag>>
keyVars == <<stage, conf, init, heap>>

Stages == {"aggregate", "group", "allocate", "run", "panic"}

\* sb.View: its own function and the runtime in full, and what it is given.
View(s, p) ==
  IF p \in {s, RUNTIME} THEN D_VAL
  ELSE IF p \in Pkgs THEN given[s][p] ELSE NoView
Viewers(p) == {s \in Sandboxes : View(s, p) # NoView}
Viewed     == {p \in All : Viewers(p) # {}}

KeysInit ==
  /\ given \in [Sandboxes -> [Pkgs -> Rights \cup {NoView}]]
  /\ stage   = "aggregate"
  /\ left    = Viewed
  /\ rtIds   = <<>> /\ groups = <<>> /\ keys = <<>>
  /\ sbProts = [s \in Sandboxes |-> <<>>]
  /\ sect    = [p \in All |-> 0]
  /\ pkgKeys = <<>> /\ sbPKRU = <<>>
  /\ own \in [Pages -> {RUNTIME, UNKNOWN}]
  /\ tag     = [i \in Pages |-> 0]

\* The map f with the keys in S set to v, or added.
Assign(f, S, v) ==
  [x \in DOMAIN f \cup S |-> IF x \in S THEN v ELSE f[x]]

-----------------------------------------------------------------------------
(* globals.AggregatePackages.                                               *)

\* Mutant: only the enclosures that see the packages are compared.
CompatibleLoose(p, q) == Viewers(p) = Viewers(q)
Compatible(p, q) ==
  /\ Viewers(p) = Viewers(q)
  /\ \A s \in Viewers(p) : View(s, p) = View(s, q)

AggregateGroup(p) ==
  LET group == {q \in left : Compatible(p, q)}
  IN  /\ stage = "aggregate" /\ p \in left
      /\ left' = left \ group
      /\ \E id \in group : /\ \A q \in group : id <= q
                         /\ rtIds' = Assign(rtIds, group, id)
      /\ UNCHANGED <<stage, conf, groups, sbProts, keys, sect, pkgKeys,
                     sbPKRU, heap>>

Aggregated ==
  /\ stage = "aggregate" /\ left = {}
  /\ stage' = "group"
  /\ left'  = Viewed \ {RUNTIME}
  /\ UNCHANGED <<conf, rtIds, groups, sbProts, keys, sect, pkgKeys, sbPKRU,
                 heap>>

-----------------------------------------------------------------------------
(* mpk.Init.                                                                *)

ProtRWX == 0
ProtRX  == 2
ProtX   == 3

\* Mutant: the two bits of the read-only protection are swapped.
GetMPKProtSwapped(v) ==
  IF "W" \in v THEN ProtRWX ELSE IF "R" \in v THEN 1 ELSE ProtX
GetMPKProt(v) ==
  IF "W" \in v THEN ProtRWX ELSE IF "R" \in v THEN ProtRX ELSE ProtX

TestCompatibility(p, q) ==
  /\ Viewers(p) = Viewers(q)
  /\ \A s \in Viewers(p) : GetMPKProt(View(s, p)) = GetMPKProt(View(s, q))

\* Mutant: a group per package, however alike the others are.
GroupOfOne(p) == {p}
\* The packages that get a key together with p.
GroupOf(p) == {q \in left : TestCompatibility(p, q)}

KeyGroup(p) ==
  LET idx == Len(groups) + 1
  IN  /\ stage = "group" /\ p \in left
      /\ left'    = left \ GroupOf(p)
      /\ groups'  = Append(groups, GroupOf(p))
      /\ sbProts' = [s \in Sandboxes |->
           IF s \in Viewers(p)
             THEN Assign(sbProts[s], {idx}, GetMPKProt(View(s, p)))
             ELSE sbProts[s]]
      /\ UNCHANGED <<stage, conf, rtIds, keys, sect, pkgKeys, sbPKRU, heap>>

Grouped ==
  /\ stage = "group" /\ left = {}
  /\ stage' = "allocate"
  /\ UNCHANGED <<conf, init, heap>>

\* pkey_alloc returns the lowest free key; allocateKey tags the group's
\* sections with it before it asks for the next.
AllocateKey ==
  LET idx == Len(keys) + 1
  IN  /\ stage = "allocate" /\ idx <= Len(groups)
      /\ IF idx > NKeys
           THEN stage' = "panic" /\ UNCHANGED <<keys, sect>>
           ELSE /\ keys' = Append(keys, idx)
                /\ sect' = Assign(sect, groups[idx], idx)
                /\ UNCHANGED stage
      /\ UNCHANGED <<conf, left, rtIds, groups, sbProts, pkgKeys, sbPKRU, heap>>

NoRightsPKRU == [k \in Keys |-> IF k = 0 THEN ProtRWX ELSE ProtX]

\* Mutant: the rights are written one key too low.
PKRUOfShifted(s) ==
  [k \in Keys |->
     IF \E i \in DOMAIN sbProts[s] : keys[i] = k + 1
       THEN sbProts[s][CHOOSE i \in DOMAIN sbProts[s] : keys[i] = k + 1]
       ELSE NoRightsPKRU[k]]
\* PKRU.Update clears the key's two bits and sets them; the groups' keys
\* differ, so the order of the updates does not matter.
PKRUOf(s) ==
  [k \in Keys |->
     IF \E i \in DOMAIN sbProts[s] : keys[i] = k
       THEN sbProts[s][CHOOSE i \in DOMAIN sbProts[s] : keys[i] = k]
       ELSE NoRightsPKRU[k]]

\* computePKRU, and pkgKeys filled in; the hooks are then installed.
ComputePKRU ==
  /\ stage = "allocate" /\ Len(keys) = Len(groups)
  /\ stage'   = "run"
  /\ sbPKRU'  = [s \in Sandboxes |-> PKRUOf(s)]
  /\ pkgKeys' = [p \in UNION {groups[i] : i \in DOMAIN groups} |->
                   keys[CHOOSE i \in DOMAIN groups : p \in groups[i]]]
  /\ UNCHANGED <<conf, left, rtIds, groups, sbProts, keys, sect, heap>>

-----------------------------------------------------------------------------
(* The heap hands a page over: mallocgc's id, and the Transfer hook, at once *)
(* (setId defers it to the last releasem: SpanHeap).                        *)

\* mallocgc: packages no enclosure sees keep their own id.
HeapId(p) == IF p \in DOMAIN rtIds THEN rtIds[p] ELSE p

Keyed(id) == id \in DOMAIN pkgKeys

\* The keys differ, or the old id has none.
Retag(old, new) == ~Keyed(old) \/ pkgKeys[old] # pkgKeys[new]

\* The key the page has after mpk.Transfer.
KeyAfter(page, old, new) ==
  IF new = RUNTIME /\ old # RUNTIME THEN 0
  ELSE IF old # new /\ Keyed(new) /\ Retag(old, new) THEN pkgKeys[new]
  ELSE tag[page]

Transfer(page, p) ==
  /\ stage = "run"
  /\ tag' = [tag EXCEPT ![page] = KeyAfter(page, own[page], HeapId(p))]
  /\ own' = [own EXCEPT ![page] = HeapId(p)]
  /\ UNCHANGED <<stage, conf, init>>

-----------------------------------------------------------------------------
Panicked == stage = "panic" /\ UNCHANGED keyVars

KeysNext ==
  \/ \E p \in left : AggregateGroup(p) \/ KeyGroup(p)
  \/ Aggregated \/ Grouped \/ AllocateKey \/ ComputePKRU
  \/ \E page \in Pages, p \in All \cup {UNKNOWN} : Transfer(page, p)
  \/ Panicked

KeysSpec == KeysInit /\ [][KeysNext]_keyVars

-----------------------------------------------------------------------------
(* What must hold.                                                          *)

Prots == {ProtRWX, ProtRX, ProtX}

\* Every variable keeps its type; maps only hold what exists.
KeysTypeOK ==
  /\ stage \in Stages /\ left \subseteq All
  /\ DOMAIN rtIds \subseteq All /\ \A p \in DOMAIN rtIds : rtIds[p] \in All
  /\ groups \in Seq(SUBSET All) /\ keys \in Seq(Keys)
  /\ \A s \in Sandboxes : /\ DOMAIN sbProts[s] \subseteq DOMAIN groups
                          /\ \A i \in DOMAIN sbProts[s] : sbProts[s][i] \in Prots
  /\ sect \in [All -> Keys]
  /\ DOMAIN pkgKeys \subseteq All /\ \A p \in DOMAIN pkgKeys : pkgKeys[p] \in Keys
  /\ stage = "run" => sbPKRU \in [Sandboxes -> [Keys -> Prots]]
  /\ own \in [Pages -> All \cup {UNKNOWN}] /\ tag \in [Pages -> Keys]

\* PKRU's two bits for a key: access disabled, write disabled.
MayRead(s, k)  == sbPKRU[s][k] % 2 = 0
MayWrite(s, k) == sbPKRU[s][k] = ProtRWX

\* What enclosure s may do to memory with key k is what its view says of p.
Grants(s, k, p) ==
  /\ MayRead(s, k)  <=> "R" \in View(s, p)
  /\ MayWrite(s, k) <=> "W" \in View(s, p)

\* Once the backend runs, every enclosure can read and write the sections of
\* each package that some enclosure sees exactly as its own view says, and
\* those of packages other enclosures see not at all.
SectionsMatchViews ==
  stage = "run" =>
    \A s \in Sandboxes, p \in Viewed : Grants(s, sect[p], p)

\* The same of the heap: whatever the page's earlier owners, and although its
\* id and its key come from two groupings, an enclosure's rights on the page
\* are those its view has on every package that may hold objects there.
HeapMatchesViews ==
  stage = "run" =>
    \A page \in Pages, s \in Sandboxes, p \in Viewed :
      own[page] = HeapId(p) => Grants(s, tag[page], p)

\* What MPK can tell apart of the views of a package: all but execution.
Use(p) == [s \in Sandboxes |-> View(s, p) \ {"X"}]

\* Initialisation only panics for want of keys if there are more kinds of
\* packages than keys: in whatever order the maps are walked, packages share a
\* key whenever the same enclosures see them, with the same use of them.
PanicsOnlyIfShort ==
  stage = "panic" => Cardinality({Use(p) : p \in Viewed \ {RUNTIME}}) > NKeys
=============================================================================
