------------------------------ MODULE MPKProofs ------------------------------
(***************************************************************************)
(* The MPK backend.                                                         *)
(*                                                                          *)
(* MPKKeys for every set of packages, enclosures, views and pages: whatever *)
(* the order in which the maps are walked, once the backend runs the PKRU   *)
(* values, the sections' keys and the heap's keys say what the views say.   *)
(*                                                                          *)
(* MPKSwitch for every number of goroutines, threads and enclosures: the    *)
(* hooks of the MPK backend implement Enclosures.  One limit of the code is *)
(* an assumption, that programs do not nest enclosures; cloning a thread    *)
(* under a goroutine, which stops VT-x, needs none.                         *)
(*                                                                          *)
(* Both together: a thread may read and write what the view of the          *)
(* enclosure it runs allows, and nothing else (ThreadsContained).           *)
(***************************************************************************)
EXTENDS MPKKeys, MPKSwitch, SequenceTheorems, FiniteSetTheorems, TLAPS

-----------------------------------------------------------------------------
(* The keys.                                                                *)

Initialised == stage \in {"allocate", "run", "panic"}

\* The configuration, and what is known of the shape of the maps.
ShapeInv ==
  /\ stage \in Stages
  /\ given \in [Sandboxes -> [Pkgs -> Rights \cup {NoView}]]
  /\ left \subseteq Viewed /\ (stage # "aggregate" => RUNTIME \notin left)
  /\ groups \in Seq(SUBSET (Viewed \ {RUNTIME}))
  /\ sect \in [All -> Nat]
  /\ own \in [Pages -> All \cup {UNKNOWN}] /\ tag \in [Pages -> Keys]
  /\ DOMAIN sbProts = Sandboxes

\* Packages with one heap id are seen alike.
IdsInv ==
  /\ DOMAIN rtIds \subseteq Viewed
  /\ \A p \in DOMAIN rtIds : rtIds[p] \in Viewed /\ Compatible(p, rtIds[p])
  /\ stage = "aggregate" => Viewed \subseteq left \cup DOMAIN rtIds
  /\ stage # "aggregate" => DOMAIN rtIds = Viewed

\* An enclosure has a protection for exactly the groups it sees, and it is
\* that of each member.
Serves(i, p) ==
  \A s \in Sandboxes :
    /\ i \in DOMAIN sbProts[s] <=> s \in Viewers(p)
    /\ s \in Viewers(p) => sbProts[s][i] = GetMPKProt(View(s, p))

GroupsInv ==
  /\ stage = "aggregate" => groups = <<>>
  /\ \A s \in Sandboxes : DOMAIN sbProts[s] \subseteq DOMAIN groups
  /\ \A i \in DOMAIN groups : \A p \in groups[i] : Serves(i, p)
  /\ \A s \in Sandboxes : \A i \in DOMAIN sbProts[s] : sbProts[s][i] \in Prots
  /\ stage = "group" =>
       Viewed \ {RUNTIME} \subseteq left \cup UNION {groups[i] : i \in DOMAIN groups}
  /\ Initialised => Viewed \ {RUNTIME} = UNION {groups[i] : i \in DOMAIN groups}

\* The keys are handed out in the order of the groups, and tag their sections.
KeysInv ==
  /\ keys \in Seq(Nat) /\ Len(keys) <= Len(groups) /\ Len(keys) <= NKeys
  /\ \A i \in 1 .. Len(keys) : keys[i] = i
  /\ \A p \in All :
       \/ sect[p] = 0 /\ \A i \in 1 .. Len(keys) : p \notin groups[i]
       \/ sect[p] \in 1 .. Len(keys) /\ p \in groups[sect[p]]
  /\ stage = "run" => Len(keys) = Len(groups)

Programmed == sbPKRU = [s \in Sandboxes |-> PKRUOf(s)]

\* The page of a package with a key has that key, the runtime's has key 0.
HeapInv ==
  /\ stage # "run" => /\ pkgKeys = <<>>
                      /\ \A page \in Pages : own[page] \in {RUNTIME, UNKNOWN}
  /\ stage = "run" =>
       /\ DOMAIN pkgKeys = Viewed \ {RUNTIME}
       /\ \A p \in DOMAIN pkgKeys :
            pkgKeys[p] \in DOMAIN groups /\ p \in groups[pkgKeys[p]]
       /\ Programmed
  /\ \A page \in Pages :
       /\ own[page] = RUNTIME => tag[page] = 0
       /\ Keyed(own[page]) => tag[page] = pkgKeys[own[page]]

KeysIInv == ShapeInv /\ IdsInv /\ GroupsInv /\ KeysInv /\ HeapInv

-----------------------------------------------------------------------------
(* What the operators give.                                                 *)

\* The views are all of one configuration.
LEMMA ViewsKept ==
  ASSUME UNCHANGED given
  PROVE  /\ \A s, p : View(s, p)' = View(s, p)
         /\ \A p : Viewers(p)' = Viewers(p)
         /\ Viewed' = Viewed
<1>1. \A s, p : View(s, p)' = View(s, p) BY DEF View
<1>2. \A p : Viewers(p)' = Viewers(p) BY <1>1 DEF Viewers
<1>3. Viewed' = Viewed BY <1>2 DEF Viewed
<1> QED BY <1>1, <1>2, <1>3

LEMMA ConstantsTyped ==
  /\ RUNTIME \in All /\ RUNTIME = 0 /\ UNKNOWN \notin All
  /\ RUNTIME \notin Pkgs /\ RUNTIME \notin Sandboxes
  /\ Pkgs \cap Sandboxes = {}
BY MPKAssumption DEF RUNTIME, UNKNOWN, All

\* Nobody writes what he cannot read; the rights of a view are those MPK can
\* tell, up to execution.
LEMMA Protections ==
  ASSUME ShapeInv, NEW s \in Sandboxes, NEW p \in All
  PROVE  /\ GetMPKProt(View(s, p)) \in Prots
         /\ GetMPKProt(View(s, p)) % 2 = 0 <=> "R" \in View(s, p)
         /\ GetMPKProt(View(s, p)) = ProtRWX <=> "W" \in View(s, p)
<1>1. View(s, p) \in {{}, {"R"}, {"R", "X"}, {"R", "W"}, D_VAL, NoView}
  <2>1. p \in Pkgs => given[s][p] \in Rights \cup {NoView} BY DEF ShapeInv
  <2> QED BY <2>1, MPKAssumption DEF View
<1>2. "W" \in View(s, p) => "R" \in View(s, p) BY <1>1 DEF D_VAL, NoView
<1> QED BY <1>2 DEF GetMPKProt, ProtRWX, ProtRX, ProtX, Prots

LEMMA RuntimeView ==
  ASSUME NEW s \in Sandboxes
  PROVE  View(s, RUNTIME) = D_VAL /\ s \in Viewers(RUNTIME)
BY DEF View, Viewers, D_VAL, NoView

LEMMA ViewedAll == Viewed \subseteq All
BY DEF Viewed

\* The runtime's key is open to every enclosure.
LEMMA RuntimeKey ==
  ASSUME KeysIInv, stage = "run", NEW s \in Sandboxes
  PROVE  sbPKRU[s][0] = ProtRWX
<1>1. \A i \in DOMAIN sbProts[s] : keys[i] # 0
  BY DEF KeysIInv, GroupsInv, KeysInv, ShapeInv
<1>2. 0 \in Keys /\ NoRightsPKRU[0] = ProtRWX
  BY MPKAssumption DEF Keys, NoRightsPKRU
<1>3. PKRUOf(s)[0] = ProtRWX BY <1>1, <1>2 DEF PKRUOf
<1> QED BY <1>3 DEF KeysIInv, HeapInv, Programmed

\* A group's key is open to an enclosure as the group is.
LEMMA GroupKey ==
  ASSUME KeysIInv, stage = "run", NEW s \in Sandboxes,
         NEW i \in DOMAIN groups, NEW p \in groups[i]
  PROVE  sbPKRU[s][i] = GetMPKProt(View(s, p))
<1>1. i \in 1 .. Len(keys) /\ keys[i] = i /\ i \in Keys
  BY MPKAssumption DEF KeysIInv, ShapeInv, KeysInv, Keys
<1>2. Serves(i, p) BY DEF KeysIInv, GroupsInv
<1>3. sbPKRU[s][i] = PKRUOf(s)[i] BY DEF KeysIInv, HeapInv, Programmed
<1>4. \A j \in DOMAIN sbProts[s] : keys[j] = i <=> j = i
  BY <1>1 DEF KeysIInv, GroupsInv, KeysInv, ShapeInv
<1>5. CASE i \in DOMAIN sbProts[s]
  BY <1>1, <1>2, <1>3, <1>4, <1>5 DEF PKRUOf, Serves
<1>6. CASE i \notin DOMAIN sbProts[s]
  <2>1. View(s, p) = NoView BY <1>2, <1>6 DEF Serves, Viewers
  <2>2. NoRightsPKRU[i] = ProtX BY <1>1 DEF NoRightsPKRU
  <2>3. sbPKRU[s][i] = ProtX BY <1>1, <1>3, <1>4, <1>6, <2>2 DEF PKRUOf
  <2> QED BY <2>1, <2>3 DEF GetMPKProt, NoView
<1> QED BY <1>5, <1>6

\* So memory with a package's key is the package's.
LEMMA KeyGrants ==
  ASSUME KeysIInv, stage = "run", NEW s \in Sandboxes, NEW p \in Viewed, NEW k,
         \/ p = RUNTIME /\ k = 0
         \/ k \in DOMAIN groups /\ p \in groups[k]
  PROVE  Grants(s, k, p)
<1>1. sbPKRU[s][k] = GetMPKProt(View(s, p))
  <2>1. CASE p = RUNTIME /\ k = 0
    BY <2>1, RuntimeKey, RuntimeView DEF GetMPKProt, D_VAL
  <2>2. CASE k \in DOMAIN groups /\ p \in groups[k] BY <2>2, GroupKey
  <2> QED BY <2>1, <2>2
<1> QED BY <1>1, Protections, ViewedAll DEF Grants, MayRead, MayWrite, KeysIInv

-----------------------------------------------------------------------------
(* Every action preserves the invariant.                                    *)

LEMMA AggregateGroupStep ==
  ASSUME KeysIInv, NEW p \in left, AggregateGroup(p) PROVE KeysIInv'
<1> DEFINE group == {q \in left : Compatible(p, q)}
<1>1. PICK id \in group :
        /\ stage = "aggregate" /\ left' = left \ group
        /\ rtIds' = Assign(rtIds, group, id)
        /\ UNCHANGED <<stage, given, groups, sbProts, keys, sect, pkgKeys,
                       sbPKRU, own, tag>>
  BY DEF AggregateGroup, conf, heap
<1>2. ShapeInv' BY <1>1, ViewsKept DEF KeysIInv, ShapeInv
<1>3. IdsInv'
  <2>1. DOMAIN rtIds' = DOMAIN rtIds \cup group BY <1>1 DEF Assign
  <2>2. group \subseteq Viewed BY DEF KeysIInv, ShapeInv
  <2>3. ASSUME NEW q \in DOMAIN rtIds'
        PROVE  rtIds'[q] \in Viewed /\ Compatible(q, rtIds'[q])
    <3>1. CASE q \in group
      <4>1. rtIds'[q] = id BY <1>1, <3>1 DEF Assign
      <4> QED BY <2>2, <3>1, <4>1 DEF Compatible
    <3>2. CASE q \notin group
      <4>1. q \in DOMAIN rtIds /\ rtIds'[q] = rtIds[q]
        BY <1>1, <2>1, <3>2 DEF Assign
      <4> QED BY <4>1 DEF KeysIInv, IdsInv
    <3> QED BY <3>1, <3>2
  <2>4. Viewed \subseteq left' \cup DOMAIN rtIds'
    BY <1>1, <2>1 DEF KeysIInv, IdsInv
  <2>5. \A q, r : Compatible(q, r)' <=> Compatible(q, r)
    BY <1>1, ViewsKept DEF Compatible
  <2> QED BY <1>1, <2>1, <2>2, <2>3, <2>4, <2>5, ViewsKept DEF KeysIInv, IdsInv
<1>4. GroupsInv' /\ KeysInv' /\ HeapInv'
  BY <1>1, ViewsKept
  DEF KeysIInv, GroupsInv, Serves, KeysInv, HeapInv, Initialised, Keyed
<1> QED BY <1>2, <1>3, <1>4 DEF KeysIInv

LEMMA AggregatedStep == ASSUME KeysIInv, Aggregated PROVE KeysIInv'
<1> USE DEF Aggregated, conf, heap
<1>1. ShapeInv' BY ViewsKept DEF KeysIInv, ShapeInv, Stages
<1>2. IdsInv'
  <2>1. \A q, r : Compatible(q, r)' <=> Compatible(q, r)
    BY ViewsKept DEF Compatible
  <2> QED BY <2>1, ViewsKept DEF KeysIInv, IdsInv
<1>3. GroupsInv'
  BY ViewsKept DEF KeysIInv, GroupsInv, Serves, Initialised
<1>4. KeysInv' BY DEF KeysIInv, KeysInv
<1>5. HeapInv' BY DEF KeysIInv, HeapInv, Keyed
<1> QED BY <1>1, <1>2, <1>3, <1>4, <1>5 DEF KeysIInv

LEMMA KeyGroupStep ==
  ASSUME KeysIInv, NEW p \in left, KeyGroup(p) PROVE KeysIInv'
<1> DEFINE idx == Len(groups) + 1
           prot(s) == GetMPKProt(View(s, p))
<1>1. /\ stage = "group" /\ left' = left \ GroupOf(p)
      /\ groups' = Append(groups, GroupOf(p))
      /\ sbProts' = [s \in Sandboxes |->
           IF s \in Viewers(p) THEN Assign(sbProts[s], {idx}, prot(s))
                               ELSE sbProts[s]]
      /\ UNCHANGED <<stage, given, rtIds, keys, sect, pkgKeys, sbPKRU, own, tag>>
  BY DEF KeyGroup, conf, heap
<1> HIDE DEF idx, prot
<1>2. idx = Len(groups) + 1 /\ \A s \in Sandboxes : prot(s) = GetMPKProt(View(s, p))
  BY DEF idx, prot
<1>3. /\ Len(groups) \in Nat /\ DOMAIN groups = 1 .. Len(groups)
      /\ DOMAIN groups' = 1 .. idx /\ groups'[idx] = GroupOf(p)
      /\ \A i \in DOMAIN groups : groups'[i] = groups[i]
  BY <1>1, <1>2 DEF KeysIInv, ShapeInv
<1>4. idx \notin DOMAIN groups /\ DOMAIN groups' = DOMAIN groups \cup {idx}
  BY <1>2, <1>3
<1>5. p \in All /\ p \in Viewed BY ViewedAll DEF KeysIInv, ShapeInv
<1>6. GroupOf(p) \subseteq Viewed \ {RUNTIME} /\ p \in GroupOf(p)
  BY <1>1 DEF GroupOf, KeysIInv, ShapeInv, TestCompatibility
<1>7. ASSUME NEW s \in Sandboxes
      PROVE  /\ s \in Viewers(p) =>
                  /\ DOMAIN sbProts'[s] = DOMAIN sbProts[s] \cup {idx}
                  /\ sbProts'[s][idx] = GetMPKProt(View(s, p))
             /\ s \notin Viewers(p) => DOMAIN sbProts'[s] = DOMAIN sbProts[s]
             /\ idx \notin DOMAIN sbProts[s]
             /\ \A i \in DOMAIN sbProts[s] : sbProts'[s][i] = sbProts[s][i]
  <2>1. DOMAIN sbProts[s] \subseteq DOMAIN groups BY DEF KeysIInv, GroupsInv
  <2>2. idx \notin DOMAIN sbProts[s] BY <2>1, <1>4
  <2>3. sbProts'[s] = IF s \in Viewers(p) THEN Assign(sbProts[s], {idx}, prot(s))
                                          ELSE sbProts[s]
    BY <1>1
  <2> QED BY <1>2, <2>2, <2>3 DEF Assign
<1>8. ShapeInv'
  <2>1. groups' \in Seq(SUBSET (Viewed \ {RUNTIME}))
    BY <1>1, <1>6 DEF KeysIInv, ShapeInv
  <2>2. left' \subseteq Viewed /\ RUNTIME \notin left'
    BY <1>1 DEF KeysIInv, ShapeInv
  <2> QED BY <1>1, <2>1, <2>2, ViewsKept DEF KeysIInv, ShapeInv
<1>9. IdsInv'
  <2>1. \A q, r : Compatible(q, r)' <=> Compatible(q, r)
    BY <1>1, ViewsKept DEF Compatible
  <2> QED BY <1>1, <2>1, ViewsKept DEF KeysIInv, IdsInv
<1>10. GroupsInv'
  <2>1. ASSUME NEW i \in DOMAIN groups', NEW q \in groups'[i]
        PROVE  Serves(i, q)'
    <3>1. CASE i \in DOMAIN groups
      <4>1. Serves(i, q) BY <1>3, <3>1 DEF KeysIInv, GroupsInv
      <4>2. i # idx BY <1>4, <3>1
      <4>3. ASSUME NEW s \in Sandboxes
            PROVE  /\ i \in DOMAIN sbProts'[s] <=> s \in Viewers(q)
                   /\ s \in Viewers(q) => sbProts'[s][i] = GetMPKProt(View(s, q))
        BY <1>7, <4>1, <4>2 DEF Serves
      <4> QED BY <1>1, <4>3, ViewsKept DEF Serves
    <3>2. CASE i = idx
      <4>1. q \in GroupOf(p) BY <1>3, <3>2
      <4>2. /\ Viewers(p) = Viewers(q)
            /\ \A s \in Viewers(p) : GetMPKProt(View(s, p)) = GetMPKProt(View(s, q))
        BY <4>1 DEF GroupOf, TestCompatibility
      <4>3. ASSUME NEW s \in Sandboxes
            PROVE  /\ i \in DOMAIN sbProts'[s] <=> s \in Viewers(q)
                   /\ s \in Viewers(q) => sbProts'[s][i] = GetMPKProt(View(s, q))
        BY <1>7, <3>2, <4>2
      <4> QED BY <1>1, <4>3, ViewsKept DEF Serves
    <3> QED BY <1>4, <3>1, <3>2
  <2>2. ASSUME NEW s \in Sandboxes
        PROVE  /\ DOMAIN sbProts'[s] \subseteq DOMAIN groups'
               /\ \A i \in DOMAIN sbProts'[s] : sbProts'[s][i] \in Prots
    BY <1>4, <1>5, <1>7, Protections DEF KeysIInv, GroupsInv
  <2>3. Viewed \ {RUNTIME} \subseteq
          left' \cup UNION {groups'[i] : i \in DOMAIN groups'}
    <3>1. \A q \in Viewed \ {RUNTIME} :
            q \in left \/ \E i \in DOMAIN groups : q \in groups[i]
      BY <1>1 DEF KeysIInv, GroupsInv
    <3>2. \A q \in Viewed \ {RUNTIME} :
            q \in left' \/ \E i \in DOMAIN groups' : q \in groups'[i]
      BY <1>1, <1>3, <1>4, <3>1
    <3> QED BY <3>2
  <2>4. Viewed' = Viewed /\ ~Initialised' /\ stage' = "group"
    BY <1>1, ViewsKept DEF Initialised
  <2> QED BY <2>1, <2>2, <2>3, <2>4 DEF GroupsInv
<1>11. KeysInv'
  BY <1>1, <1>2, <1>3, <1>4 DEF KeysIInv, KeysInv, ShapeInv
<1>12. HeapInv' BY <1>1, ViewsKept DEF KeysIInv, HeapInv, Keyed
<1> QED BY <1>8, <1>9, <1>10, <1>11, <1>12 DEF KeysIInv

LEMMA GroupedStep == ASSUME KeysIInv, Grouped PROVE KeysIInv'
<1> USE DEF Grouped, conf, init, heap
<1>1. ShapeInv' BY ViewsKept DEF KeysIInv, ShapeInv, Stages
<1>2. IdsInv'
  <2>1. \A q, r : Compatible(q, r)' <=> Compatible(q, r)
    BY ViewsKept DEF Compatible
  <2> QED BY <2>1, ViewsKept DEF KeysIInv, IdsInv
<1>3. GroupsInv'
  <2>1. Viewed \ {RUNTIME} = UNION {groups[i] : i \in DOMAIN groups}
    BY DEF KeysIInv, GroupsInv, ShapeInv
  <2> QED BY <2>1, ViewsKept DEF KeysIInv, GroupsInv, Serves
<1>4. KeysInv' BY DEF KeysIInv, KeysInv
<1>5. HeapInv' BY DEF KeysIInv, HeapInv, Keyed
<1> QED BY <1>1, <1>2, <1>3, <1>4, <1>5 DEF KeysIInv

LEMMA AllocateKeyStep == ASSUME KeysIInv, AllocateKey PROVE KeysIInv'
<1> USE DEF conf, heap
<1>0. UNCHANGED <<given, left, rtIds, groups, sbProts, pkgKeys, sbPKRU, own, tag>>
      /\ stage = "allocate" /\ stage' \in {"allocate", "panic"}
  BY DEF AllocateKey
<1>2. IdsInv'
  <2>1. \A q, r : Compatible(q, r)' <=> Compatible(q, r)
    BY <1>0, ViewsKept DEF Compatible
  <2> QED BY <1>0, <2>1, ViewsKept DEF KeysIInv, IdsInv
<1>3. GroupsInv' BY <1>0, ViewsKept DEF KeysIInv, GroupsInv, Serves, Initialised
<1>4. HeapInv' BY <1>0 DEF KeysIInv, HeapInv, Keyed
<1>5. CASE UNCHANGED <<keys, sect>>
  <2>1. ShapeInv' BY <1>0, <1>5, ViewsKept DEF KeysIInv, ShapeInv, Stages
  <2>2. KeysInv' BY <1>0, <1>5 DEF KeysIInv, KeysInv
  <2> QED BY <1>2, <1>3, <1>4, <2>1, <2>2 DEF KeysIInv
<1>6. CASE ~UNCHANGED <<keys, sect>>
  <2> DEFINE idx == Len(keys) + 1
  <2>1. /\ idx <= Len(groups) /\ idx <= NKeys
        /\ keys' = Append(keys, idx)
        /\ sect' = Assign(sect, groups[idx], idx)
    BY <1>6, MPKAssumption DEF AllocateKey, KeysIInv, KeysInv, ShapeInv
  <2>2. Len(keys) \in Nat /\ idx \in Nat /\ idx \in DOMAIN groups
    BY <2>1 DEF KeysIInv, KeysInv, ShapeInv
  <2>3. groups[idx] \subseteq All BY <2>2, ViewedAll DEF KeysIInv, ShapeInv
  <2>4. sect' \in [All -> Nat]
        /\ \A p \in All : sect'[p] = IF p \in groups[idx] THEN idx ELSE sect[p]
    BY <2>1, <2>2, <2>3 DEF KeysIInv, ShapeInv, Assign
  <2>5. ShapeInv' BY <1>0, <2>4, ViewsKept DEF KeysIInv, ShapeInv, Stages
  <2>6. Len(keys') = idx /\ keys' \in Seq(Nat)
        /\ \A i \in 1 .. idx : keys'[i] = i
    BY <2>1, <2>2 DEF KeysIInv, KeysInv
  <2>7. ASSUME NEW p \in All
        PROVE  \/ sect'[p] = 0 /\ \A i \in 1 .. idx : p \notin groups[i]
               \/ sect'[p] \in 1 .. idx /\ p \in groups[sect'[p]]
    <3>1. CASE p \in groups[idx] BY <2>2, <2>4, <3>1
    <3>2. CASE p \notin groups[idx]
      <4>1. sect'[p] = sect[p] BY <2>4, <3>2
      <4>2. \A i \in 1 .. idx : i = idx \/ i \in 1 .. Len(keys) BY <2>2
      <4>3. 1 .. Len(keys) \subseteq 1 .. idx BY <2>2
      <4> QED BY <3>2, <4>1, <4>2, <4>3 DEF KeysIInv, KeysInv
    <3> QED BY <3>1, <3>2
  <2>8. KeysInv' BY <1>0, <2>1, <2>6, <2>7 DEF KeysInv
  <2> QED BY <1>2, <1>3, <1>4, <2>5, <2>8 DEF KeysIInv
<1> QED BY <1>5, <1>6

LEMMA ComputePKRUStep == ASSUME KeysIInv, ComputePKRU PROVE KeysIInv'
<1> USE DEF conf, heap
<1> DEFINE members == UNION {groups[i] : i \in DOMAIN groups}
           group(p) == CHOOSE i \in DOMAIN groups : p \in groups[i]
<1>1. /\ stage = "allocate" /\ stage' = "run" /\ Len(keys) = Len(groups)
      /\ sbPKRU' = [s \in Sandboxes |-> PKRUOf(s)]
      /\ pkgKeys' = [p \in members |-> keys[group(p)]]
      /\ UNCHANGED <<given, left, rtIds, groups, sbProts, keys, sect, own, tag>>
  BY DEF ComputePKRU
<1>2. ShapeInv' BY <1>1, ViewsKept DEF KeysIInv, ShapeInv, Stages
<1>3. IdsInv'
  <2>1. \A q, r : Compatible(q, r)' <=> Compatible(q, r)
    BY <1>1, ViewsKept DEF Compatible
  <2> QED BY <1>1, <2>1, ViewsKept DEF KeysIInv, IdsInv
<1>4. GroupsInv' BY <1>1, ViewsKept DEF KeysIInv, GroupsInv, Serves, Initialised
<1>5. KeysInv' BY <1>1 DEF KeysIInv, KeysInv
<1>6. HeapInv'
  <2>1. members = Viewed \ {RUNTIME} BY <1>1 DEF KeysIInv, GroupsInv, Initialised
  <2>2. DOMAIN pkgKeys' = Viewed' \ {RUNTIME} BY <1>1, <2>1, ViewsKept
  <2>3. ASSUME NEW p \in DOMAIN pkgKeys'
        PROVE  pkgKeys'[p] \in DOMAIN groups /\ p \in groups[pkgKeys'[p]]
    <3>1. pkgKeys'[p] = keys[group(p)] /\ p \in members BY <1>1
    <3>2. group(p) \in DOMAIN groups /\ p \in groups[group(p)] BY <3>1
    <3>3. keys[group(p)] = group(p)
      BY <1>1, <3>2 DEF KeysIInv, KeysInv, ShapeInv
    <3> QED BY <3>1, <3>2, <3>3
  <2>4. \A s : PKRUOf(s)' = PKRUOf(s) BY <1>1 DEF PKRUOf
  <2>5. \A page \in Pages :
          /\ own[page] = RUNTIME => tag[page] = 0
          /\ Keyed(own[page])' => tag[page] = pkgKeys'[own[page]]
    <3>1. \A page \in Pages : own[page] \notin DOMAIN pkgKeys'
      BY <1>1, <2>1, ViewedAll, ConstantsTyped DEF KeysIInv, HeapInv
    <3> QED BY <1>1, <3>1 DEF KeysIInv, HeapInv, Keyed
  <2>6. Programmed' BY <1>1, <2>4 DEF Programmed
  <2>7. \A page \in Pages :
          /\ own'[page] = RUNTIME => tag'[page] = 0
          /\ Keyed(own[page])' => tag'[page] = pkgKeys'[own'[page]]
    BY <1>1, <2>5
  <2>8. stage' = "run" /\ groups' = groups BY <1>1
  <2> QED BY <2>2, <2>3, <2>6, <2>7, <2>8 DEF HeapInv
<1> QED BY <1>2, <1>3, <1>4, <1>5, <1>6 DEF KeysIInv

LEMMA TransferStep ==
  ASSUME KeysIInv, NEW page \in Pages, NEW p \in All \cup {UNKNOWN}, Transfer(page, p)
  PROVE  KeysIInv'
<1> DEFINE new == HeapId(p)
<1>1. /\ stage = "run"
      /\ tag' = [tag EXCEPT ![page] = KeyAfter(page, own[page], new)]
      /\ own' = [own EXCEPT ![page] = new]
      /\ UNCHANGED <<stage, given, left, rtIds, groups, sbProts, keys, sect,
                     pkgKeys, sbPKRU>>
  BY DEF Transfer, conf, init
<1>2. new \in All \cup {UNKNOWN}
  BY ViewedAll DEF KeysIInv, IdsInv, HeapId
<1>3. RUNTIME \notin DOMAIN pkgKeys
      /\ \A q \in DOMAIN pkgKeys : pkgKeys[q] \in Keys
  <2>1. \A i \in DOMAIN groups : i \in Keys
    BY <1>1, MPKAssumption DEF KeysIInv, ShapeInv, KeysInv, Keys
  <2> QED BY <1>1, <2>1 DEF KeysIInv, HeapInv
<1>4. /\ KeyAfter(page, own[page], new) \in Keys
      /\ new = RUNTIME => KeyAfter(page, own[page], new) = 0
      /\ Keyed(new) => KeyAfter(page, own[page], new) = pkgKeys[new]
  <2>1. /\ own[page] = RUNTIME => tag[page] = 0
        /\ Keyed(own[page]) => tag[page] = pkgKeys[own[page]]
        /\ tag[page] \in Keys /\ 0 \in Keys
    BY MPKAssumption DEF KeysIInv, HeapInv, ShapeInv, Keys
  <2> QED BY <1>3, <2>1 DEF KeyAfter, Retag, Keyed
<1> HIDE DEF new
<1>5. ShapeInv' BY <1>1, <1>2, <1>4, ViewsKept DEF KeysIInv, ShapeInv
<1>6. IdsInv'
  <2>1. \A q, r : Compatible(q, r)' <=> Compatible(q, r)
    BY <1>1, ViewsKept DEF Compatible
  <2> QED BY <1>1, <2>1, ViewsKept DEF KeysIInv, IdsInv
<1>7. GroupsInv' BY <1>1, ViewsKept DEF KeysIInv, GroupsInv, Serves, Initialised
<1>8. KeysInv' BY <1>1 DEF KeysIInv, KeysInv
<1>9. HeapInv'
  <2>1. Programmed' <=> Programmed BY <1>1 DEF Programmed, PKRUOf
  <2>2. ASSUME NEW h \in Pages
        PROVE  /\ own'[h] = RUNTIME => tag'[h] = 0
               /\ Keyed(own[h])' => tag'[h] = pkgKeys[own'[h]]
    <3>1. CASE h = page
      BY <1>1, <1>4, <3>1 DEF KeysIInv, ShapeInv, Keyed
    <3>2. CASE h # page
      BY <1>1, <3>2 DEF KeysIInv, ShapeInv, HeapInv, Keyed
    <3> QED BY <3>1, <3>2
  <2>3. Viewed' = Viewed BY <1>1, ViewsKept
  <2> QED BY <1>1, <2>1, <2>2, <2>3 DEF KeysIInv, HeapInv
<1> QED BY <1>5, <1>6, <1>7, <1>8, <1>9 DEF KeysIInv

LEMMA KeysIdleStep == ASSUME KeysIInv, UNCHANGED keyVars PROVE KeysIInv'
<1> USE DEF keyVars, conf, init, heap
<1>1. ShapeInv' BY ViewsKept DEF KeysIInv, ShapeInv
<1>2. IdsInv'
  <2>1. \A q, r : Compatible(q, r)' <=> Compatible(q, r)
    BY ViewsKept DEF Compatible
  <2> QED BY <2>1, ViewsKept DEF KeysIInv, IdsInv
<1>3. GroupsInv' BY ViewsKept DEF KeysIInv, GroupsInv, Serves, Initialised
<1>4. KeysInv' BY DEF KeysIInv, KeysInv
<1>5. HeapInv'
  <2>1. Programmed' <=> Programmed BY DEF Programmed, PKRUOf
  <2> QED BY <2>1, ViewsKept DEF KeysIInv, HeapInv, Keyed
<1> QED BY <1>1, <1>2, <1>3, <1>4, <1>5 DEF KeysIInv

-----------------------------------------------------------------------------
(* The results.                                                             *)

LEMMA KeysInitInv == KeysInit => KeysIInv
<1> SUFFICES ASSUME KeysInit PROVE KeysIInv OBVIOUS
<1> USE DEF KeysInit
<1>1. ShapeInv
  <2>1. 0 \in Keys BY MPKAssumption DEF Keys
  <2> QED BY <2>1, ConstantsTyped DEF ShapeInv, Stages
<1>2. IdsInv BY DEF IdsInv
<1>3. GroupsInv BY DEF GroupsInv, Initialised
<1>4. KeysInv BY MPKAssumption DEF KeysInv
<1>5. HeapInv BY DEF HeapInv, Keyed
<1> QED BY <1>1, <1>2, <1>3, <1>4, <1>5 DEF KeysIInv

LEMMA KeysNextInv == ASSUME KeysIInv, [KeysNext]_keyVars PROVE KeysIInv'
BY AggregateGroupStep, AggregatedStep, KeyGroupStep, GroupedStep,
   AllocateKeyStep, ComputePKRUStep, TransferStep, KeysIdleStep DEF KeysNext, Panicked

\* The strengthened invariant of initialisation and of the heap's pages.
THEOREM KeysInductive == KeysSpec => []KeysIInv
<1>1. KeysInit => KeysIInv BY KeysInitInv
<1>2. KeysIInv /\ [KeysNext]_keyVars => KeysIInv' BY KeysNextInv
<1> QED BY <1>1, <1>2, PTL DEF KeysSpec

\* Every variable of the model keeps its type: no key is given out that the
\* kernel has not, and no PKRU field has a value the register cannot hold.
THEOREM KeysTypeCorrect == KeysSpec => []KeysTypeOK
<1>1. KeysIInv => KeysTypeOK
  <2> SUFFICES ASSUME KeysIInv PROVE KeysTypeOK OBVIOUS
  <2>1. /\ stage \in Stages /\ left \subseteq All
        /\ DOMAIN rtIds \subseteq All /\ \A p \in DOMAIN rtIds : rtIds[p] \in All
    BY ViewedAll DEF KeysIInv, ShapeInv, IdsInv
  <2>2. groups \in Seq(SUBSET All) /\ Len(groups) \in Nat
        /\ DOMAIN groups = 1 .. Len(groups)
    BY ViewedAll DEF KeysIInv, ShapeInv
  <2>3. \A i \in 1 .. Len(keys) : keys[i] \in Keys
    BY MPKAssumption DEF KeysIInv, KeysInv, Keys
  <2>4. keys \in Seq(Keys) BY <2>3 DEF KeysIInv, KeysInv
  <2>5. \A s \in Sandboxes : /\ DOMAIN sbProts[s] \subseteq DOMAIN groups
                             /\ \A i \in DOMAIN sbProts[s] : sbProts[s][i] \in Prots
    BY DEF KeysIInv, GroupsInv
  <2>6. sect \in [All -> Keys]
    <3>1. \A p \in All : sect[p] \in Keys
      BY MPKAssumption DEF KeysIInv, KeysInv, Keys
    <3> QED BY <3>1 DEF KeysIInv, ShapeInv
  <2>7. DOMAIN pkgKeys \subseteq All /\ \A p \in DOMAIN pkgKeys : pkgKeys[p] \in Keys
    <3>1. CASE stage = "run"
      <4>1. DOMAIN groups \subseteq Keys
        BY <2>2, <3>1, MPKAssumption DEF KeysIInv, KeysInv, Keys
      <4> QED BY <3>1, <4>1, ViewedAll DEF KeysIInv, HeapInv
    <3>2. CASE stage # "run" BY <3>2 DEF KeysIInv, HeapInv
    <3> QED BY <3>1, <3>2
  <2>8. stage = "run" => sbPKRU \in [Sandboxes -> [Keys -> Prots]]
    <3>1. NoRightsPKRU \in [Keys -> Prots]
      BY DEF NoRightsPKRU, ProtRWX, ProtX, Prots
    <3>2. \A s \in Sandboxes : PKRUOf(s) \in [Keys -> Prots]
      BY <2>5, <3>1 DEF PKRUOf
    <3> QED BY <3>2 DEF KeysIInv, HeapInv, Programmed
  <2> QED BY <2>1, <2>2, <2>4, <2>5, <2>6, <2>7, <2>8 DEF KeysTypeOK, KeysIInv, ShapeInv
<1> QED BY <1>1, KeysInductive, PTL

\* Once the hooks are installed, every enclosure's PKRU value gives it on the
\* sections of each package what its view says.
THEOREM SectionsProtected == KeysSpec => []SectionsMatchViews
<1>1. KeysIInv => SectionsMatchViews
  <2> SUFFICES ASSUME KeysIInv, stage = "run", NEW s \in Sandboxes, NEW p \in Viewed
               PROVE  Grants(s, sect[p], p)
    BY DEF SectionsMatchViews
  <2>1. \/ sect[p] = 0 /\ \A i \in 1 .. Len(keys) : p \notin groups[i]
        \/ sect[p] \in 1 .. Len(keys) /\ p \in groups[sect[p]]
    BY ViewedAll DEF KeysIInv, KeysInv
  <2>2. DOMAIN groups = 1 .. Len(keys) BY DEF KeysIInv, ShapeInv, KeysInv
  <2>3. p # RUNTIME => \E i \in DOMAIN groups : p \in groups[i]
    BY DEF KeysIInv, GroupsInv, Initialised
  <2>4. p = RUNTIME => \A i \in DOMAIN groups : p \notin groups[i]
    BY DEF KeysIInv, ShapeInv
  <2> QED BY <2>1, <2>2, <2>3, <2>4, KeyGrants
<1> QED BY <1>1, KeysInductive, PTL

\* And it gives it on every heap page what its view says of the packages that
\* may hold objects there, whoever had the page before (Transfer, mallocgc).
THEOREM HeapProtected == KeysSpec => []HeapMatchesViews
<1>1. KeysIInv => HeapMatchesViews
  <2> SUFFICES ASSUME KeysIInv, stage = "run", NEW page \in Pages,
                      NEW s \in Sandboxes, NEW p \in Viewed,
                      own[page] = HeapId(p)
               PROVE  Grants(s, tag[page], p)
    BY DEF HeapMatchesViews
  <2> DEFINE id == rtIds[p]
  <2>1. own[page] = id /\ id \in Viewed /\ Compatible(p, id)
    BY DEF KeysIInv, IdsInv, HeapId
  <2>2. Grants(s, tag[page], id)
    <3>1. CASE id = RUNTIME
      BY <2>1, <3>1, KeyGrants DEF KeysIInv, HeapInv
    <3>2. CASE id # RUNTIME
      BY <2>1, <3>2, KeyGrants DEF KeysIInv, HeapInv, Keyed
    <3> QED BY <3>1, <3>2
  <2>3. \/ View(s, p) = View(s, id)
        \/ View(s, p) = NoView /\ View(s, id) = NoView
    <3>1. CASE s \in Viewers(p) BY <2>1, <3>1 DEF Compatible
    <3>2. CASE s \notin Viewers(p) BY <2>1, <3>2 DEF Compatible, Viewers
    <3> QED BY <3>1, <3>2
  <2> QED BY <2>2, <2>3 DEF Grants
<1> QED BY <1>1, KeysInductive, PTL

-----------------------------------------------------------------------------
(* How many keys are needed.                                                *)

\* Groups are of different kinds, and what is left is of another kind still.
KindsInv ==
  /\ \A i \in DOMAIN groups : groups[i] # {}
  /\ \A i, j \in DOMAIN groups : i # j =>
       \A p \in groups[i] : \A q \in groups[j] : ~TestCompatibility(p, q)
  /\ stage = "group" =>
       \A i \in DOMAIN groups : \A p \in groups[i] : \A q \in left :
         ~TestCompatibility(p, q)
  /\ stage = "panic" => NKeys < Len(groups)

LEMMA CompatibilityIsEquivalence ==
  ASSUME NEW p, NEW q, NEW r, TestCompatibility(p, q)
  PROVE  /\ TestCompatibility(q, p) /\ TestCompatibility(p, p)
         /\ TestCompatibility(q, r) => TestCompatibility(p, r)
BY DEF TestCompatibility

LEMMA CompatibilityKept ==
  ASSUME UNCHANGED given
  PROVE  \A p, q : TestCompatibility(p, q)' <=> TestCompatibility(p, q)
BY ViewsKept DEF TestCompatibility

LEMMA KeyGroupKinds ==
  ASSUME KeysIInv, KindsInv, NEW p \in left, KeyGroup(p) PROVE KindsInv'
<1> DEFINE idx == Len(groups) + 1
<1>1. /\ stage = "group" /\ left' = left \ GroupOf(p)
      /\ groups' = Append(groups, GroupOf(p)) /\ UNCHANGED <<stage, given>>
  BY DEF KeyGroup, conf
<1>2. /\ DOMAIN groups' = DOMAIN groups \cup {idx} /\ groups'[idx] = GroupOf(p)
      /\ \A i \in DOMAIN groups : i # idx /\ groups'[i] = groups[i]
  BY <1>1 DEF KeysIInv, ShapeInv
<1> HIDE DEF idx
<1>3. /\ \A q \in GroupOf(p) : q \in left /\ TestCompatibility(p, q)
      /\ \A q \in left' : q \in left /\ ~TestCompatibility(p, q)
  BY <1>1 DEF GroupOf
<1>4. p \in GroupOf(p) BY DEF GroupOf, TestCompatibility
<1>5. ASSUME NEW i \in DOMAIN groups', NEW j \in DOMAIN groups', i # j,
             NEW q \in groups'[i], NEW r \in groups'[j],
             TestCompatibility(q, r)
      PROVE  FALSE
  <2>1. CASE i \in DOMAIN groups /\ j \in DOMAIN groups
    BY <1>2, <1>5, <2>1 DEF KindsInv
  <2>2. CASE i \in DOMAIN groups /\ j = idx
    BY <1>1, <1>2, <1>3, <1>5, <2>2 DEF KindsInv
  <2>3. CASE i = idx /\ j \in DOMAIN groups
    BY <1>1, <1>2, <1>3, <1>5, <2>3, CompatibilityIsEquivalence DEF KindsInv
  <2> QED BY <1>2, <1>5, <2>1, <2>2, <2>3
<1>6. ASSUME NEW i \in DOMAIN groups', NEW q \in groups'[i], NEW r \in left',
             TestCompatibility(q, r)
      PROVE  FALSE
  <2>1. CASE i \in DOMAIN groups BY <1>1, <1>2, <1>3, <1>6, <2>1 DEF KindsInv
  <2>2. CASE i = idx
    BY <1>2, <1>3, <1>6, <2>2, CompatibilityIsEquivalence
  <2> QED BY <1>2, <2>1, <2>2
<1>7. \A i \in DOMAIN groups' : groups'[i] # {} BY <1>2, <1>4 DEF KindsInv
<1> QED BY <1>1, <1>5, <1>6, <1>7, CompatibilityKept DEF KindsInv

LEMMA KindsStep == ASSUME KeysIInv, KindsInv, [KeysNext]_keyVars PROVE KindsInv'
<1>1. CASE \E p \in left : KeyGroup(p) BY <1>1, KeyGroupKinds
<1>2. CASE /\ UNCHANGED <<given, groups>> /\ stage' \notin {"group", "panic"}
  BY <1>2, CompatibilityKept DEF KindsInv
<1>3. CASE Aggregated
  <2>1. groups = <<>> /\ groups' = <<>> /\ stage' = "group"
    BY <1>3 DEF Aggregated, KeysIInv, GroupsInv
  <2> QED BY <2>1 DEF KindsInv
<1>4. CASE AllocateKey
  <2>1. UNCHANGED <<given, groups>> /\ stage = "allocate"
        /\ stage' \in {"allocate", "panic"}
    BY <1>4 DEF AllocateKey, conf
  <2>2. stage' = "panic" => NKeys < Len(groups)
    BY <1>4, MPKAssumption DEF AllocateKey, KeysIInv, KeysInv, ShapeInv
  <2> QED BY <2>1, <2>2, CompatibilityKept DEF KindsInv
<1>5. CASE UNCHANGED keyVars
  BY <1>5, CompatibilityKept DEF KindsInv, keyVars, conf, init
<1> QED BY <1>1, <1>2, <1>3, <1>4, <1>5
        DEF KeysNext, AggregateGroup, Grouped, ComputePKRU, Transfer, Panicked,
            conf, init

\* A kind of package has one use, and a use one kind.
LEMMA UseTells ==
  ASSUME KeysIInv, NEW p \in All, NEW q \in All, Use(p) = Use(q)
  PROVE  TestCompatibility(p, q)
<1>1. ASSUME NEW s \in Sandboxes
      PROVE  /\ s \in Viewers(p) <=> s \in Viewers(q)
             /\ GetMPKProt(View(s, p)) = GetMPKProt(View(s, q))
  <2>1. View(s, p) \ {"X"} = View(s, q) \ {"X"} BY DEF Use
  <2>2. \A x \in All : View(s, x) = NoView <=> "-" \in View(s, x)
    <3> SUFFICES ASSUME NEW x \in All
                 PROVE  View(s, x) = NoView <=> "-" \in View(s, x)
      OBVIOUS
    <3>1. View(s, x) \in {{}, {"R"}, {"R", "X"}, {"R", "W"}, D_VAL, NoView}
      <4>1. CASE x \in {s, RUNTIME} \/ x \notin Pkgs BY <4>1 DEF View
      <4>2. CASE x \notin {s, RUNTIME} /\ x \in Pkgs
        <5>1. View(s, x) = given[s][x] BY <4>2 DEF View
        <5>2. given[s][x] \in Rights \cup {NoView}
          BY <4>2 DEF KeysIInv, ShapeInv
        <5> QED BY <5>1, <5>2, MPKAssumption
      <4> QED BY <4>1, <4>2
    <3> QED BY <3>1 DEF NoView, D_VAL
  <2>3. /\ "-" \in View(s, p) <=> "-" \in View(s, q)
        /\ "R" \in View(s, p) <=> "R" \in View(s, q)
        /\ "W" \in View(s, p) <=> "W" \in View(s, q)
    BY <2>1
  <2> QED BY <2>2, <2>3 DEF Viewers, GetMPKProt
<1> QED BY <1>1 DEF TestCompatibility, Viewers

\* There are as many keys as kinds of packages in demand, or initialisation
\* succeeds (allocateKey panics only for the group after the last key).
THEOREM KeysSuffice == KeysSpec => []PanicsOnlyIfShort
<1>1. KeysInit => KindsInv BY DEF KeysInit, KindsInv
<1>2. KeysIInv /\ KindsInv => PanicsOnlyIfShort
  <2> SUFFICES ASSUME KeysIInv, KindsInv, stage = "panic"
               PROVE  NKeys < Cardinality({Use(p) : p \in Viewed \ {RUNTIME}})
    BY DEF PanicsOnlyIfShort
  <2> DEFINE n     == Len(groups)
             kinds == {Use(p) : p \in Viewed \ {RUNTIME}}
             first == [i \in 1 .. n |-> CHOOSE p \in groups[i] : TRUE]
             kind  == [i \in 1 .. n |-> Use(first[i])]
  <2>1. n \in Nat /\ DOMAIN groups = 1 .. n /\ NKeys < n /\ NKeys \in Nat
    BY MPKAssumption DEF KeysIInv, ShapeInv, KindsInv
  <2>2. ASSUME NEW i \in 1 .. n
        PROVE  first[i] \in groups[i] /\ first[i] \in Viewed \ {RUNTIME}
    BY <2>1 DEF KindsInv, KeysIInv, ShapeInv
  <2>3. ASSUME NEW i \in 1 .. n, NEW j \in 1 .. n, kind[i] = kind[j]
        PROVE  i = j
    <3>1. Use(first[i]) = Use(first[j]) BY <2>3
    <3>2. TestCompatibility(first[i], first[j])
      BY <2>2, <3>1, UseTells, ViewedAll
    <3> QED BY <2>1, <2>2, <3>2 DEF KindsInv
  <2>4. kind \in Injection(1 .. n, kinds)
    BY <2>2, <2>3 DEF Injection, IsInjective
  <2>5. IsFiniteSet(kinds)
    <3>1. IsFiniteSet(All)
      <4>1. IsFiniteSet({RUNTIME}) BY FS_Singleton
      <4> QED BY <4>1, MPKAssumption, FS_Union DEF All
    <3>2. IsFiniteSet(Viewed \ {RUNTIME}) BY <3>1, ViewedAll, FS_Subset
    <3>3. [p \in Viewed \ {RUNTIME} |-> Use(p)]
            \in Surjection(Viewed \ {RUNTIME}, kinds)
      BY DEF Surjection
    <3> QED BY <3>2, <3>3, FS_Surjection
  <2> HIDE DEF n, kinds, kind
  <2>6. Cardinality(1 .. n) <= Cardinality(kinds) BY <2>4, <2>5, FS_Injection
  <2>7. Cardinality(1 .. n) = n BY <2>1, FS_Interval
  <2>8. Cardinality(kinds) \in Nat BY <2>5, FS_CardinalityType
  <2> QED BY <2>1, <2>6, <2>7, <2>8 DEF kinds
<1>3. KeysIInv /\ KindsInv /\ [KeysNext]_keyVars => KindsInv' BY KindsStep
<1> QED BY <1>1, <1>2, <1>3, KeysInductive, PTL DEF KeysSpec

-----------------------------------------------------------------------------
(* The hooks.                                                               *)

Limits == MaxDepth \in {0, 1}

\* A thread runs one goroutine, and a goroutine runs on one thread.
RunInv ==
  \A m \in Ms :
    /\ Running(m) =>
         /\ curg[m] \in Gs /\ gstat[curg[m]] = "running"
         /\ \A n \in Ms \ {m} : Running(n) => curg[n] # curg[m]
    /\ ~Running(m) => curg[m] = NoG

\* No thread is ever stopped.
GoesOn == crash = "none" /\ \A m \in Ms : pc[m] # "stopped"

\* Programs nest no enclosures.
DepthInv ==
  \A g \in Gs : \/ frames[g] = <<>>
                \/ gbase[g] = OUT /\ \E s \in Sandboxes : frames[g] = <<s>>

\* The ids of waiting goroutines are their domains'; a thread's ids and its
\* register are those of the goroutine it runs.
IdInv ==
  /\ \A g \in Gs : gstat[g] \in {"runnable", "waiting"} => gsb[g] = Domain(g)
  /\ \A m \in Ms :
       /\ msb[m] = g0sb[m]
       /\ Running(m) => /\ gsb[curg[m]] = Domain(curg[m])
                        /\ msb[m] = Domain(curg[m])
                        /\ pkru[m] = PKRUFor(Domain(curg[m]))

IInv == TypeOK /\ RunInv /\ GoesOn /\ DepthInv /\ IdInv

-----------------------------------------------------------------------------
(* What the operators give.                                                 *)

LEMMA DomainTyped ==
  ASSUME TypeOK, DepthInv, NEW g \in Gs PROVE Domain(g) \in Domains
BY DEF TypeOK, DepthInv, Domain, Domains

LEMMA DomainKept ==
  ASSUME UNCHANGED <<gbase, frames>> PROVE \A g \in Gs : Domain(g)' = Domain(g)
BY DEF Domain

LEMMA PushPop ==
  ASSUME NEW s
  PROVE  /\ Append(<<>>, s) = <<s>> /\ <<s>> # <<>>
         /\ SubSeq(<<s>>, 1, Len(<<s>>) - 1) = <<>>
OBVIOUS

LEMMA CallsFromOutside ==
  ASSUME Limits, IInv, NEW m \in Ms, NEW s \in Sandboxes, Prolog(m, s)
  PROVE  curg[m] \in Gs /\ gbase[curg[m]] = OUT /\ frames[curg[m]] = <<>>
<1>1. curg[m] \in Gs BY DEF IInv, RunInv, Running, Prolog
<1>2. Nesting(curg[m]) < 1
  <2>1. Len(frames[curg[m]]) \in Nat BY <1>1 DEF IInv, TypeOK
  <2>2. CASE gbase[curg[m]] = OUT BY <2>1, <2>2 DEF Limits, Prolog, Nesting
  <2>3. CASE gbase[curg[m]] # OUT BY <2>1, <2>3 DEF Limits, Prolog, Nesting
  <2> QED BY <2>2, <2>3
<1>3. ASSUME NEW t \in Sandboxes, frames[curg[m]] = <<t>> PROVE FALSE
  <2>1. Len(frames[curg[m]]) = 1 BY <1>3
  <2> QED BY <1>2, <2>1 DEF Nesting
<1>4. frames[curg[m]] = <<>> BY <1>1, <1>3 DEF IInv, DepthInv
<1> QED BY <1>1, <1>2, <1>4 DEF Nesting

-----------------------------------------------------------------------------
(* Every action preserves the invariant.                                    *)

LEMMA PrologStep ==
  ASSUME Limits, IInv, NEW m \in Ms, NEW s \in Sandboxes, Prolog(m, s)
  PROVE  IInv'
<1> USE DEF IInv, Prolog, AssignSbIdUser, WritePKRU
<1>a. curg[m] \in Gs /\ gbase[curg[m]] = OUT /\ frames[curg[m]] = <<>>
  BY CallsFromOutside
<1>b. frames' = [frames EXCEPT ![curg[m]] = <<s>>]
  BY <1>a, PushPop DEF TypeOK
<1>c. \A g \in Gs : Domain(g)' = IF g = curg[m] THEN s ELSE Domain(g)
  BY <1>a, <1>b, PushPop DEF Domain, TypeOK
<1>1. TypeOK' BY <1>a, <1>b DEF TypeOK, Domains
<1>2. RunInv' BY DEF RunInv, Running, TypeOK
<1>3. GoesOn' BY DEF GoesOn
<1>4. DepthInv' BY <1>a, <1>b DEF DepthInv, TypeOK
<1>5. IdInv'
  BY <1>a, <1>c, IdAssumption DEF IdInv, TypeOK, RunInv, Running, PKRUFor
<1> QED BY <1>1, <1>2, <1>3, <1>4, <1>5

LEMMA EpilogStep ==
  ASSUME IInv, NEW m \in Ms, Epilog(m) PROVE IInv'
<1> USE DEF IInv, Epilog, AssignSbIdUser, WritePKRU
<1>a. curg[m] \in Gs /\ gbase[curg[m]] = OUT
  BY DEF RunInv, Running, DepthInv
<1>b. frames' = [frames EXCEPT ![curg[m]] = <<>>]
  <2>1. PICK s \in Sandboxes : frames[curg[m]] = <<s>> BY <1>a DEF DepthInv
  <2>2. SubSeq(frames[curg[m]], 1, Len(frames[curg[m]]) - 1) = <<>>
    BY <2>1, PushPop
  <2> QED BY <1>a, <2>2 DEF TypeOK
<1>c. \A g \in Gs : Domain(g)' = IF g = curg[m] THEN OUT ELSE Domain(g)
  BY <1>a, <1>b DEF Domain, TypeOK
<1>1. TypeOK' BY <1>a, <1>b DEF TypeOK, Domains
<1>2. RunInv' BY DEF RunInv, Running, TypeOK
<1>3. GoesOn' BY DEF GoesOn
<1>4. DepthInv' BY <1>a, <1>b DEF DepthInv, TypeOK
<1>5. IdInv'
  BY <1>a, <1>c, IdAssumption DEF IdInv, TypeOK, RunInv, Running, PKRUFor
<1> QED BY <1>1, <1>2, <1>3, <1>4, <1>5

LEMMA ExecuteStep ==
  ASSUME IInv, NEW m \in Ms, NEW g \in Gs, Execute(m, g) PROVE IInv'
<1>0. /\ pc[m] = "sched" /\ gstat[g] = "runnable"
      /\ gstat' = [gstat EXCEPT ![g] = "running"]
      /\ curg' = [curg EXCEPT ![m] = g] /\ pc' = [pc EXCEPT ![m] = "user"]
      /\ pkru' = [pkru EXCEPT ![m] = PKRUFor(gsb[g])]
      /\ msb' = [msb EXCEPT ![m] = gsb[g]] /\ g0sb' = [g0sb EXCEPT ![m] = gsb[g]]
      /\ UNCHANGED <<gbase, frames, gsb, crash>>
  <2>1. SbIdsAgreeG0(m) BY DEF IInv, IdInv, SbIdsAgreeG0
  <2> QED BY <2>1 DEF Execute, ExecutePKRU, AssignSbIdG0, WritePKRU
<1> USE <1>0 DEF IInv
<1>a. gsb[g] = Domain(g) /\ Domain(g) \in Domains BY DomainTyped DEF IdInv
<1>b. PKRUFor(gsb[g]) \in Sandboxes \cup {ALL} BY <1>a DEF PKRUFor, Domains
<1>1. TypeOK' BY <1>a, <1>b DEF TypeOK, Pcs
<1>2. RunInv' BY IdAssumption DEF RunInv, Running, TypeOK
<1>3. GoesOn' BY DEF GoesOn, TypeOK
<1>4. DepthInv' BY DEF DepthInv
<1>5. IdInv' BY <1>a, DomainKept DEF IdInv, TypeOK, RunInv, Running, PKRUFor
<1> QED BY <1>1, <1>2, <1>3, <1>4, <1>5

LEMMA GoExitStep ==
  ASSUME IInv, NEW m \in Ms, GoExit(m) PROVE IInv'
<1> USE DEF IInv, GoExit, ids
<1>1. TypeOK' BY DEF TypeOK, Pcs, RunInv, Running, Domains
<1>2. RunInv' BY IdAssumption DEF RunInv, Running, TypeOK
<1>3. GoesOn' BY DEF GoesOn, TypeOK
<1>4. DepthInv' BY DEF DepthInv, TypeOK, RunInv, Running
<1>5. IdInv' BY DEF IdInv, TypeOK, RunInv, Running, Domain, PKRUFor
<1> QED BY <1>1, <1>2, <1>3, <1>4, <1>5

LEMMA NewprocStep ==
  ASSUME IInv, NEW m \in Ms, NEW c \in Gs, Newproc(m, c) PROVE IInv'
<1> USE DEF IInv, Newproc, InheritedSbId
<1>a. curg[m] \in Gs /\ Domain(curg[m]) \in Domains
  BY DomainTyped DEF RunInv, Running
<1>b. \A g \in Gs : Domain(g)' = IF g = c THEN Domain(curg[m]) ELSE Domain(g)
  BY DEF Domain, TypeOK
<1>1. TypeOK' BY <1>a DEF TypeOK
<1>2. RunInv' BY IdAssumption DEF RunInv, Running, TypeOK
<1>3. GoesOn' BY DEF GoesOn
<1>4. DepthInv' BY DEF DepthInv, TypeOK
<1>5. IdInv' BY <1>a, <1>b DEF IdInv, TypeOK, RunInv, Running, PKRUFor
<1> QED BY <1>1, <1>2, <1>3, <1>4, <1>5

LEMMA ParkStep ==
  ASSUME IInv, NEW m \in Ms, Park(m) PROVE IInv'
<1> USE DEF IInv, Park, ids, gvars
<1>1. TypeOK' BY DEF TypeOK, Pcs
<1>2. RunInv' BY IdAssumption DEF RunInv, Running, TypeOK
<1>3. GoesOn' BY DEF GoesOn, TypeOK
<1>4. DepthInv' BY DEF DepthInv
<1>5. IdInv' BY DomainKept DEF IdInv, TypeOK, RunInv, Running, PKRUFor
<1> QED BY <1>1, <1>2, <1>3, <1>4, <1>5

LEMMA ReadyStep ==
  ASSUME IInv, NEW g \in Gs, Ready(g) PROVE IInv'
<1> USE DEF IInv, Ready, ids, gvars
<1>1. TypeOK' BY DEF TypeOK, Pcs
<1>2. RunInv' BY IdAssumption DEF RunInv, Running, TypeOK
<1>3. GoesOn' BY DEF GoesOn, TypeOK
<1>4. DepthInv' BY DEF DepthInv
<1>5. IdInv' BY DomainKept DEF IdInv, TypeOK, RunInv, Running, PKRUFor
<1> QED BY <1>1, <1>2, <1>3, <1>4, <1>5

LEMMA EnterSyscallStep ==
  ASSUME IInv, NEW m \in Ms, EnterSyscall(m) PROVE IInv'
<1> USE DEF IInv, EnterSyscall, ids, gvars
<1>1. TypeOK' BY DEF TypeOK, Pcs
<1>2. RunInv' BY IdAssumption DEF RunInv, Running, TypeOK
<1>3. GoesOn' BY DEF GoesOn, TypeOK
<1>4. DepthInv' BY DEF DepthInv
<1>5. IdInv' BY DomainKept DEF IdInv, TypeOK, RunInv, Running, PKRUFor
<1> QED BY <1>1, <1>2, <1>3, <1>4, <1>5

LEMMA ExitSyscallStep ==
  ASSUME IInv, NEW m \in Ms, ExitSyscall(m) PROVE IInv'
<1> USE DEF IInv, ExitSyscall, ids, gvars
<1>1. TypeOK' BY DEF TypeOK, Pcs
<1>2. RunInv' BY IdAssumption DEF RunInv, Running, TypeOK
<1>3. GoesOn' BY DEF GoesOn, TypeOK
<1>4. DepthInv' BY DEF DepthInv
<1>5. IdInv' BY DomainKept DEF IdInv, TypeOK, RunInv, Running, PKRUFor
<1> QED BY <1>1, <1>2, <1>3, <1>4, <1>5

LEMMA ExitSyscall0Step ==
  ASSUME IInv, NEW m \in Ms, ExitSyscall0(m) PROVE IInv'
<1> USE DEF IInv, ExitSyscall0, ids, gvars
<1>1. TypeOK' BY DEF TypeOK, Pcs
<1>2. RunInv' BY IdAssumption DEF RunInv, Running, TypeOK
<1>3. GoesOn' BY DEF GoesOn, TypeOK
<1>4. DepthInv' BY DEF DepthInv
<1>5. IdInv' BY DomainKept DEF IdInv, TypeOK, RunInv, Running, PKRUFor
<1> QED BY <1>1, <1>2, <1>3, <1>4, <1>5

LEMMA CloneStep ==
  ASSUME IInv, NEW m \in Ms, NEW m2 \in Ms, Clone(m, m2) PROVE IInv'
<1> USE DEF IInv, Clone, ids, gvars
<1>1. TypeOK' BY DEF TypeOK, Pcs
<1>2. RunInv' BY IdAssumption DEF RunInv, Running, TypeOK
<1>3. GoesOn' BY DEF GoesOn, TypeOK
<1>4. DepthInv' BY DEF DepthInv
<1>5. IdInv' BY DomainKept DEF IdInv, TypeOK, RunInv, Running, PKRUFor
<1> QED BY <1>1, <1>2, <1>3, <1>4, <1>5

LEMMA MStartStep ==
  ASSUME IInv, NEW m \in Ms, MStart(m) PROVE IInv'
<1> USE DEF IInv, MStart, WritePKRU, gvars
<1>1. TypeOK' BY DEF TypeOK, Pcs
<1>2. RunInv' BY IdAssumption DEF RunInv, Running, TypeOK
<1>3. GoesOn' BY DEF GoesOn, TypeOK
<1>4. DepthInv' BY DEF DepthInv
<1>5. IdInv' BY DomainKept DEF IdInv, TypeOK, RunInv, Running, PKRUFor
<1> QED BY <1>1, <1>2, <1>3, <1>4, <1>5

LEMMA IdleStep ==
  ASSUME IInv, UNCHANGED vars PROVE IInv'
<1> USE DEF IInv, vars, gvars
<1>1. TypeOK' /\ RunInv' /\ GoesOn' /\ DepthInv'
  BY DEF TypeOK, RunInv, Running, GoesOn, DepthInv
<1>2. IdInv' BY DomainKept DEF IdInv, Running, PKRUFor, RunInv
<1> QED BY <1>1, <1>2

-----------------------------------------------------------------------------
(* The invariants.                                                          *)

LEMMA InitInv == Init => IInv
<1> SUFFICES ASSUME Init PROVE IInv OBVIOUS
<1> USE IdAssumption DEF Init
<1>1. TypeOK BY DEF TypeOK, Domains, Pcs
<1>2. RunInv /\ GoesOn /\ DepthInv BY DEF RunInv, Running, GoesOn, DepthInv
<1>3. IdInv BY DEF IdInv, Running, Domain, PKRUFor
<1> QED BY <1>1, <1>2, <1>3 DEF IInv

LEMMA NextInv == ASSUME Limits, IInv, [Next]_vars PROVE IInv'
<1>1. CASE UNCHANGED vars \/ Stop BY <1>1, IdleStep DEF Stop
<1>2. ASSUME NEW m \in Ms, ThreadStep(m) PROVE IInv'
  BY <1>2, PrologStep, EpilogStep, ExecuteStep, NewprocStep, GoExitStep,
     ParkStep, EnterSyscallStep, ExitSyscallStep, ExitSyscall0Step, CloneStep,
     MStartStep DEF ThreadStep
<1>3. ASSUME NEW g \in Gs, Ready(g) PROVE IInv' BY <1>3, ReadyStep
<1> QED BY <1>1, <1>2, <1>3 DEF Next

\* The strengthened invariant of the hooks and the scheduler.
THEOREM Inductive == ASSUME Limits PROVE Spec => []IInv
<1>1. Init => IInv BY InitInv
<1>2. IInv /\ [Next]_vars => IInv' BY NextInv
<1> QED BY <1>1, <1>2, PTL DEF Spec

\* Every variable of the model keeps its type.
THEOREM TypeCorrect == ASSUME Limits PROVE Spec => []TypeOK
BY Inductive, PTL DEF IInv

\* execute() can restore a waiting goroutine's rights from g.sbid alone.
THEOREM IdsFollow == ASSUME Limits PROVE Spec => []SbIdsFollow
<1>1. IInv => SbIdsFollow BY DEF IInv, SbIdsFollow, IdInv
<1> QED BY <1>1, Inductive, PTL

\* GetmSbIds never throws: m and g0 agree whenever a thread schedules, also a
\* thread cloned under a goroutine that is in an enclosure.
THEOREM NoFailedCheck == ASSUME Limits PROVE Spec => []NoCrash
<1>1. IInv => NoCrash BY DEF IInv, NoCrash, GoesOn
<1> QED BY <1>1, Inductive, PTL

-----------------------------------------------------------------------------
(* The refinement.  What a running thread may access is, by IInv, a function *)
(* of the goroutine it runs: each action needs to account only for what it   *)
(* does to goroutines.                                                       *)

Alive == {g \in Gs : gstat[g] # "dead"}
On    == [m \in Ms |-> IF Running(m) THEN curg[m] ELSE NoG]
Sees  == [m \in Ms |-> IF Running(m) THEN pkru[m] ELSE ALL]

DomainView(g) == E!ViewFor(E!Top(gbase[g], frames[g]))

\* A thread runs a goroutine of Gs that no other thread runs, or none.
OnOK ==
  \A m \in Ms :
    /\ Running(m) => /\ On[m] = curg[m] /\ On[m] \in Gs /\ On[m] # NoG
                     /\ gstat[On[m]] = "running"
    /\ ~Running(m) => On[m] = NoG

\* What a thread sees follows from the goroutine it runs.
SeesOK == Sees = [m \in Ms |-> IF On[m] = NoG THEN ALL ELSE DomainView(On[m])]

LEMMA OnIs == IInv => OnOK
BY IdAssumption DEF IInv, OnOK, On, RunInv

LEMMA SeesIs == IInv => SeesOK
<1> SUFFICES ASSUME IInv, NEW m \in Ms
             PROVE  Sees[m] = IF On[m] = NoG THEN ALL ELSE DomainView(On[m])
  BY DEF SeesOK, Sees
<1>1. CASE ~Running(m) BY <1>1, OnIs DEF Sees, OnOK
<1>2. CASE Running(m)
  <2>1. On[m] = curg[m] /\ On[m] # NoG BY <1>2, OnIs DEF OnOK
  <2>2. pkru[m] = PKRUFor(Domain(curg[m])) BY <1>2 DEF IInv, IdInv
  <2> QED BY <1>2, <2>1, <2>2
          DEF Sees, PKRUFor, Domain, DomainView, E!ViewFor, E!Top
<1> QED BY <1>1, <1>2

LEMMA NextIs == IInv' => OnOK' /\ SeesOK'
BY OnIs, SeesIs, PTL

\* What the abstract specification does not see.
LEMMA Stutter ==
  ASSUME IInv, IInv', UNCHANGED <<Alive, gbase, frames, On>>
  PROVE  UNCHANGED E!avars
<1>1. \A m \in Ms : On[m] # NoG => On[m] \in Gs BY OnIs DEF OnOK
<1>2. \A g \in Gs : DomainView(g)' = DomainView(g)
  BY DEF DomainView, E!ViewFor, E!Top
<1>3. Sees' = Sees BY <1>1, <1>2, SeesIs, NextIs DEF SeesOK
<1> QED BY <1>3 DEF E!avars, Alive, On, Sees

\* One thread comes to run something else, or something in another frame; the
\* other threads see what they saw.
LEMMA SeesStep ==
  ASSUME IInv, IInv', NEW m \in Ms,
         \A n \in Ms \ {m} :
           On'[n] = On[n] /\ (On[n] # NoG => DomainView(On[n])' = DomainView(On[n]))
  PROVE  Sees' = [Sees EXCEPT ![m] = IF On'[m] = NoG THEN ALL
                                     ELSE DomainView(On[m])']
<1>1. ASSUME NEW n \in Ms
      PROVE  Sees'[n] = IF n # m THEN Sees[n]
                        ELSE IF On'[m] = NoG THEN ALL ELSE DomainView(On[m])'
  <2>1. CASE n = m BY <2>1, NextIs DEF SeesOK, DomainView, E!ViewFor, E!Top
  <2>2. CASE n # m
    BY <2>2, SeesIs, NextIs DEF SeesOK, DomainView, E!ViewFor, E!Top
  <2> QED BY <2>1, <2>2
<1> QED BY <1>1 DEF Sees

LEMMA PrologRefines ==
  ASSUME IInv, IInv', NEW m \in Ms, NEW s \in Sandboxes, Prolog(m, s)
  PROVE  E!Enter(m, s)
<1>1. /\ UNCHANGED <<gstat, gbase, pc, curg>> /\ Running(m)
      /\ frames' = [frames EXCEPT ![curg[m]] = Append(@, s)]
  BY DEF Prolog, Running
<1>2. On[m] = curg[m] /\ On[m] \in Gs /\ On[m] # NoG BY <1>1, OnIs DEF OnOK
<1>3. On' = On /\ Alive' = Alive BY <1>1 DEF On, Running, Alive
<1>4. \A n \in Ms \ {m} : On[n] # NoG => On[n] # On[m] /\ On[n] \in Gs
  BY <1>1, <1>2, OnIs DEF OnOK, IInv, RunInv
<1>5. \A g \in Gs \ {On[m]} : DomainView(g)' = DomainView(g)
  BY <1>1, <1>2 DEF DomainView, E!ViewFor, E!Top, IInv, TypeOK
<1>6. DomainView(On[m])' = s
  <2>1. frames'[On[m]] = Append(frames[On[m]], s)
    BY <1>1, <1>2 DEF IInv, TypeOK
  <2>2. frames[On[m]] \in Seq(Sandboxes) BY <1>2 DEF IInv, TypeOK
  <2>3. ASSUME NEW q \in Seq(Sandboxes)
        PROVE  Append(q, s) # <<>> /\ Append(q, s)[Len(Append(q, s))] = s
    BY AppendProperties
  <2>4. frames'[On'[m]] # <<>> /\ frames'[On'[m]][Len(frames'[On'[m]])] = s
    BY <1>3, <2>1, <2>2, <2>3
  <2> QED BY <2>4, IdAssumption DEF DomainView, E!ViewFor, E!Top
<1>7. Sees' = [Sees EXCEPT ![m] = s]
  BY <1>2, <1>3, <1>4, <1>5, <1>6, SeesStep DEF DomainView
<1> QED BY <1>1, <1>2, <1>3, <1>7 DEF E!Enter, Alive, On, Sees

LEMMA EpilogRefines ==
  ASSUME IInv, IInv', NEW m \in Ms, Epilog(m) PROVE E!Leave(m)
<1>1. /\ UNCHANGED <<gstat, gbase, pc, curg>> /\ Running(m)
      /\ frames[curg[m]] # <<>>
      /\ frames' = [frames EXCEPT ![curg[m]] = SubSeq(@, 1, Len(@) - 1)]
  BY DEF Epilog, Running
<1>2. On[m] = curg[m] /\ On[m] \in Gs /\ On[m] # NoG BY <1>1, OnIs DEF OnOK
<1>3. On' = On /\ Alive' = Alive BY <1>1 DEF On, Running, Alive
<1>4. \A n \in Ms \ {m} : On[n] # NoG => On[n] # On[m] /\ On[n] \in Gs
  BY <1>1, <1>2, OnIs DEF OnOK, IInv, RunInv
<1>5. \A g \in Gs \ {On[m]} : DomainView(g)' = DomainView(g)
  BY <1>1, <1>2 DEF DomainView, E!ViewFor, E!Top, IInv, TypeOK
<1>6. Sees' = [Sees EXCEPT ![m] = DomainView(On[m])']
  BY <1>2, <1>3, <1>4, <1>5, SeesStep DEF DomainView
<1> QED BY <1>1, <1>2, <1>3, <1>6 DEF E!Leave, Alive, On, Sees, DomainView

LEMMA NewprocRefines ==
  ASSUME IInv, IInv', NEW m \in Ms, NEW c \in Gs, Newproc(m, c)
  PROVE  E!Spawn(m, c)
<1>1. /\ Running(m) /\ gstat[c] = "dead" /\ UNCHANGED <<pc, curg>>
      /\ gstat' = [gstat EXCEPT ![c] = "runnable"]
      /\ gbase' = [gbase EXCEPT ![c] = Domain(curg[m])]
      /\ frames' = [frames EXCEPT ![c] = <<>>]
  BY DEF Newproc, Running
<1>2. On[m] = curg[m] /\ On[m] # NoG BY <1>1, OnIs DEF OnOK
<1>3. Alive' = Alive \cup {c} /\ On' = On
  BY <1>1 DEF Alive, On, Running, IInv, TypeOK
<1>4. \A n \in Ms : On[n] # NoG => On[n] \in Gs \ {c} BY <1>1, OnIs DEF OnOK
<1>5. \A g \in Gs \ {c} : DomainView(g)' = DomainView(g)
  BY <1>1 DEF DomainView, E!ViewFor, E!Top, IInv, TypeOK
<1>6. Sees' = Sees BY <1>3, <1>4, <1>5, SeesIs, NextIs DEF SeesOK
<1> QED BY <1>1, <1>2, <1>3, <1>6
        DEF E!Spawn, Alive, On, Sees, Domain, E!Top

\* A thread that stops running its goroutine, which may end.
LEMMA Yields ==
  ASSUME IInv, IInv', NEW m \in Ms, Running(m),
         curg' = [curg EXCEPT ![m] = NoG], pc' = [pc EXCEPT ![m] = "sched"],
         UNCHANGED frames, \A g \in Gs \ {curg[m]} : gbase'[g] = gbase[g]
  PROVE  /\ On' = [On EXCEPT ![m] = NoG]
         /\ Sees' = [Sees EXCEPT ![m] = ALL]
<1>1. On' = [On EXCEPT ![m] = NoG] BY DEF On, Running, IInv, TypeOK
<1>2. On'[m] = NoG /\ \A n \in Ms \ {m} : On'[n] = On[n] BY <1>1 DEF On
<1>3. \A n \in Ms \ {m} : On[n] # NoG => On[n] # curg[m] /\ On[n] \in Gs
  BY OnIs DEF OnOK, IInv, RunInv
<1>4. \A g \in Gs \ {curg[m]} : DomainView(g)' = DomainView(g)
  BY DEF DomainView, E!ViewFor, E!Top
<1>5. \A n \in Ms \ {m} : On[n] # NoG => DomainView(On[n])' = DomainView(On[n])
  BY <1>2, <1>3, <1>4 DEF DomainView
<1> QED BY <1>1, <1>2, <1>5, SeesStep

LEMMA YieldRefines ==
  ASSUME IInv, IInv', NEW m \in Ms, Park(m) \/ ExitSyscall0(m)
  PROVE  E!Yield(m)
<1>1. /\ Running(m) /\ UNCHANGED <<gbase, frames>>
      /\ \E st \in {"waiting", "runnable"} : gstat' = [gstat EXCEPT ![curg[m]] = st]
      /\ curg' = [curg EXCEPT ![m] = NoG] /\ pc' = [pc EXCEPT ![m] = "sched"]
  BY DEF Park, ExitSyscall0, Running
<1>2. curg[m] \in Gs /\ gstat[curg[m]] = "running" /\ On[m] # NoG
  BY <1>1, OnIs DEF OnOK
<1>3. Alive' = Alive
  <2>1. \A g \in Gs : gstat'[g] = "dead" <=> gstat[g] = "dead"
    BY <1>1, <1>2 DEF IInv, TypeOK
  <2> QED BY <2>1 DEF Alive
<1> QED BY <1>1, <1>2, <1>3, Yields DEF E!Yield, Alive, On, Sees

LEMMA GoExitRefines ==
  ASSUME IInv, IInv', NEW m \in Ms, GoExit(m) PROVE E!Finish(m)
<1>1. /\ Running(m) /\ frames[curg[m]] = <<>> /\ UNCHANGED frames
      /\ gstat' = [gstat EXCEPT ![curg[m]] = "dead"]
      /\ gbase' = [gbase EXCEPT ![curg[m]] = OUT]
      /\ curg' = [curg EXCEPT ![m] = NoG] /\ pc' = [pc EXCEPT ![m] = "sched"]
  BY DEF GoExit, Running
<1>2. On[m] = curg[m] /\ On[m] \in Gs /\ On[m] # NoG BY <1>1, OnIs DEF OnOK
<1>3. Alive' = Alive \ {On[m]} BY <1>1, <1>2 DEF Alive, IInv, TypeOK
<1>4. \A g \in Gs \ {curg[m]} : gbase'[g] = gbase[g] BY <1>1 DEF IInv, TypeOK
<1> QED BY <1>1, <1>2, <1>3, <1>4, Yields DEF E!Finish, Alive, On, Sees

LEMMA ExecuteRefines ==
  ASSUME IInv, IInv', NEW m \in Ms, NEW g \in Gs, Execute(m, g)
  PROVE  E!Run(m, g)
<1>0. SbIdsAgreeG0(m) BY DEF IInv, IdInv, SbIdsAgreeG0
<1>1. /\ ~Running(m) /\ gstat[g] = "runnable" /\ UNCHANGED <<gbase, frames>>
      /\ gstat' = [gstat EXCEPT ![g] = "running"]
      /\ curg' = [curg EXCEPT ![m] = g] /\ pc' = [pc EXCEPT ![m] = "user"]
  BY <1>0 DEF Execute, Running
<1>2. On[m] = NoG /\ \A n \in Ms : On[n] # g BY <1>1, OnIs, IdAssumption DEF OnOK
<1>3. On' = [On EXCEPT ![m] = g] BY <1>1 DEF On, Running, IInv, TypeOK
<1>4. Alive' = Alive /\ g \in Alive BY <1>1 DEF Alive, IInv, TypeOK
<1>5. On'[m] = g /\ \A n \in Ms \ {m} : On'[n] = On[n] BY <1>3 DEF On
<1>6. \A h : DomainView(h)' = DomainView(h)
  BY <1>1 DEF DomainView, E!ViewFor, E!Top
<1>7. Sees' = [Sees EXCEPT ![m] = DomainView(g)]
  BY <1>1, <1>5, SeesStep, IdAssumption DEF DomainView, E!ViewFor, E!Top
<1> QED BY <1>1, <1>2, <1>3, <1>4, <1>7
        DEF E!Run, Alive, On, Sees, DomainView

\* Waking a goroutine, changing between code and system call, cloning a thread
\* and starting it change nothing a program can tell.
LEMMA InternalRefines ==
  ASSUME IInv, IInv', NEW m \in Ms, NEW m2 \in Ms, NEW g \in Gs,
         \/ EnterSyscall(m) \/ ExitSyscall(m) \/ Clone(m, m2) \/ MStart(m)
         \/ Ready(g) \/ UNCHANGED vars
  PROVE  UNCHANGED E!avars
<1>1. UNCHANGED <<Alive, gbase, frames, On>>
  <2> USE DEF gvars, vars, Alive, On, Running
  <2>1. CASE EnterSyscall(m) \/ ExitSyscall(m)
    BY <2>1 DEF EnterSyscall, ExitSyscall, IInv, TypeOK
  <2>2. CASE Clone(m, m2) \/ MStart(m)
    BY <2>2 DEF Clone, MStart, IInv, TypeOK
  <2>3. CASE Ready(g) BY <2>3 DEF Ready, ids, IInv, TypeOK
  <2>4. CASE UNCHANGED vars BY <2>4
  <2> QED BY <2>1, <2>2, <2>3, <2>4
<1> QED BY <1>1, Stutter

LEMMA InitRefines == Init => E!AInit
<1> SUFFICES ASSUME Init PROVE E!AInit OBVIOUS
<1>1. Alive = {MainG} BY IdAssumption DEF Init, Alive
<1>2. On = [n \in Ms |-> IF n = M0 THEN MainG ELSE NoG]
  BY IdAssumption DEF Init, On, Running
<1>3. Sees = [n \in Ms |-> ALL] BY DEF Init, Sees
<1> QED BY <1>1, <1>2, <1>3, IdAssumption DEF E!AInit, Init, Alive, On, Sees

LEMMA NextRefines ==
  ASSUME IInv, IInv', [Next]_vars PROVE [E!ANext]_E!avars
<1>1. CASE UNCHANGED vars \/ Stop \/ \E g \in Gs : Ready(g)
  BY <1>1, InternalRefines, IdAssumption DEF Stop
<1>2. ASSUME NEW m \in Ms, ThreadStep(m) PROVE [E!ANext]_E!avars
  <2>1. CASE \E s \in Sandboxes : Prolog(m, s)
    BY <2>1, PrologRefines DEF E!ANext
  <2>2. CASE \E g \in Gs : Execute(m, g) \/ Newproc(m, g)
    BY <2>2, ExecuteRefines, NewprocRefines DEF E!ANext
  <2>3. CASE Epilog(m) \/ Park(m) \/ GoExit(m) \/ ExitSyscall0(m)
    BY <2>3, EpilogRefines, YieldRefines, GoExitRefines DEF E!ANext
  <2>4. CASE \/ \E m2 \in Ms : Clone(m, m2)
             \/ MStart(m) \/ EnterSyscall(m) \/ ExitSyscall(m)
    BY <2>4, InternalRefines, IdAssumption
  <2> QED BY <1>2, <2>1, <2>2, <2>3, <2>4 DEF ThreadStep
<1> QED BY <1>1, <1>2 DEF Next

\* The hooks of the MPK backend and the scheduler around them implement what
\* enclosures promise.
THEOREM Implements == ASSUME Limits PROVE Spec => Enclosed
<1>1. Init => E!AInit BY InitRefines
<1>2. IInv /\ IInv' /\ [Next]_vars => [E!ANext]_E!avars BY NextRefines
<1> QED BY <1>1, <1>2, Inductive, PTL DEF Spec, Enclosed, E!ASpec

-----------------------------------------------------------------------------
(* The keys and the hooks together.                                         *)

\* A thread's register lets it read and write the sections of a package, and
\* every heap page that may hold its objects, as the view of the enclosure of
\* the goroutine it runs says.  Outside of enclosures it gives everything.
Contained ==
  stage = "run" =>
    \A m \in Ms : Running(m) =>
      /\ Domain(curg[m]) = OUT => pkru[m] = ALL
      /\ Domain(curg[m]) # OUT =>
           /\ pkru[m] = Domain(curg[m])
           /\ \A p \in Viewed :
                /\ Grants(pkru[m], sect[p], p)
                /\ \A page \in Pages :
                     own[page] = HeapId(p) => Grants(pkru[m], tag[page], p)

\* While the scheduler moves goroutines between threads (MPKSwitch) and the
\* heap hands pages from package to package (MPKKeys), the hardware holds the
\* code a thread runs to the view of the enclosure it was called in.
THEOREM ThreadsContained == ASSUME Limits PROVE KeysSpec /\ Spec => []Contained
<1>1. ASSUME SectionsMatchViews, HeapMatchesViews, IInv PROVE Contained
  <2> SUFFICES ASSUME stage = "run", NEW m \in Ms, Running(m),
                      NEW d, d = Domain(curg[m])
               PROVE  /\ d = OUT => pkru[m] = ALL
                      /\ d # OUT =>
                           /\ pkru[m] = d
                           /\ \A p \in Viewed :
                                /\ Grants(pkru[m], sect[p], p)
                                /\ \A page \in Pages :
                                     own[page] = HeapId(p)
                                       => Grants(pkru[m], tag[page], p)
    BY DEF Contained
  <2>1. d \in Domains /\ pkru[m] = PKRUFor(d)
    BY <1>1, DomainTyped DEF IInv, RunInv, IdInv
  <2>2. CASE d = OUT BY <2>1, <2>2 DEF PKRUFor
  <2>3. CASE d # OUT
    <3>1. pkru[m] = d /\ d \in Sandboxes BY <2>1, <2>3 DEF PKRUFor, Domains
    <3>2. \A p \in Viewed : Grants(d, sect[p], p)
      BY <1>1, <3>1 DEF SectionsMatchViews
    <3>3. \A p \in Viewed, page \in Pages :
            own[page] = HeapId(p) => Grants(d, tag[page], p)
      BY <1>1, <3>1 DEF HeapMatchesViews
    <3> QED BY <2>3, <3>1, <3>2, <3>3
  <2> QED BY <2>2, <2>3
<1> QED BY <1>1, SectionsProtected, HeapProtected, Inductive, PTL

=============================================================================
