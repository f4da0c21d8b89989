--------------------------- MODULE Release_proofs ---------------------------
(* What holds of scripts/release.py for any versions and prerelease names. *)
EXTENDS Release, SequenceTheorems, WellFoundedInduction, TLAPS

----------------------------------------------------------------------------
(* Identifiers and cores are ordered *)

\* Numbers that differ at most in their leading zeros.
Alike(a, b) == a.numeric /\ b.numeric /\ a.value = b.value

LEMMA IdentifierOrder ==
    /\ \A a \in Identifier : ~IdentifierLess(a, a)
    /\ \A a, b \in Identifier :
          a # b => IdentifierLess(a, b) \/ IdentifierLess(b, a) \/ Alike(a, b)
    /\ \A a, b \in Identifier :
          Alike(a, b) => ~IdentifierLess(a, b) /\ ~IdentifierLess(b, a) /\ Alike(b, a)
    /\ \A a, b \in Identifier : ~(IdentifierLess(a, b) /\ IdentifierLess(b, a))
    /\ \A a, b, c \in Identifier :
          IdentifierLess(a, b) /\ IdentifierLess(b, c) => IdentifierLess(a, c)
<1>1. ASSUME NEW a \in Identifier, NEW b \in Identifier,
             ~a.numeric, ~b.numeric, a.value = b.value
      PROVE  a = b
    BY <1>1 DEF Identifier
<1>. QED BY <1>1 DEF Identifier, IdentifierLess, Alike

Core == Nat \X Nat \X Nat

LEMMA CoreOrder ==
    /\ \A a, b \in Core : a # b => CoreLess(a, b) \/ CoreLess(b, a)
    /\ \A a, b \in Core : ~(CoreLess(a, b) /\ CoreLess(b, a))
    /\ \A a \in Core : ~CoreLess(a, a)
    /\ \A a, b, c \in Core : CoreLess(a, b) /\ CoreLess(b, c) => CoreLess(a, c)
<1>1. ASSUME NEW a \in Core, NEW b \in Core, a[1] = b[1], a[2] = b[2], a[3] = b[3]
      PROVE  a = b
    BY <1>1 DEF Core
<1>. QED BY <1>1 DEF Core, CoreLess

----------------------------------------------------------------------------
(* Where two lists of identifiers first differ *)

\* A nonempty set of numbers has a least element.
LEMMA LeastNumber ==
    ASSUME NEW S \in SUBSET Nat, S # {}
    PROVE  \E i \in S : \A k \in S : i <= k
<1>. DEFINE less == {ss \in Nat \X Nat : ss[1] < ss[2]}
<1>1. IsWellFoundedOn(less, Nat)
    BY NatLessThanWellFounded, Zenon DEF OpToRel
<1>2. ASSUME NEW i \in S, NEW k \in S, <<k, i>> \notin less PROVE i <= k
    BY <1>2
<1>3. \E i \in S : \A k \in S : ~(<<k, i>> \in less)
  <2>. HIDE DEF less
  <2>. QED BY <1>1, WFMin
<1>. QED BY <1>2, <1>3

\* i is where left and right first differ.
FirstDifference(left, right, i) ==
    i \in Differences(left, right) /\ \A k \in Differences(left, right) : i <= k

LEMMA DifferencesFacts ==
    ASSUME NEW left \in Seq(Identifier), NEW right \in Seq(Identifier)
    PROVE  /\ Differences(left, right) \subseteq 1..Len(left)
           /\ Differences(left, right) \subseteq 1..Len(right)
           /\ Differences(left, right) = Differences(right, left)
           /\ Differences(left, right) # {} => \E i : FirstDifference(left, right, i)
<1>1. Len(left) \in Nat /\ Len(right) \in Nat
    OBVIOUS
<1>2. /\ Shorter(left, right) \in Nat
      /\ Shorter(left, right) <= Len(left) /\ Shorter(left, right) <= Len(right)
      /\ Shorter(left, right) = Shorter(right, left)
    BY <1>1 DEF Shorter
<1>3. /\ Differences(left, right) \subseteq 1..Len(left)
      /\ Differences(left, right) \subseteq 1..Len(right)
      /\ Differences(left, right) = Differences(right, left)
    BY <1>1, <1>2 DEF Differences
<1>4. Differences(left, right) \in SUBSET Nat
    BY <1>1, <1>3
<1>. QED BY <1>3, <1>4, LeastNumber DEF FirstDifference

\* Lists that do not differ and have one length are the same.
LEMMA SameList ==
    ASSUME NEW left \in Seq(Identifier), NEW right \in Seq(Identifier),
           Differences(left, right) = {}, Len(left) = Len(right)
    PROVE  left = right
<1>1. \A i \in 1..Len(left) : left[i] = right[i]
    BY DEF Differences, Shorter
<1>. QED BY <1>1, SeqEqual

\* What _compare_identifiers finds at the first difference decides.
LEMMA FirstDecides ==
    ASSUME NEW left \in Seq(Identifier), NEW right \in Seq(Identifier),
           NEW i, FirstDifference(left, right, i)
    PROVE  /\ i \in 1..Len(left) /\ i \in 1..Len(right)
           /\ left[i] \in Identifier /\ right[i] \in Identifier /\ left[i] # right[i]
           /\ CompareIdentifiers(left, right) =
                 IF IdentifierLess(left[i], right[i]) THEN -1 ELSE 1
<1>. DEFINE D == Differences(left, right)
            least == CHOOSE j \in D : \A k \in D : j <= k
<1>1. i \in D /\ D \subseteq Nat /\ \A k \in D : i <= k
    BY DifferencesFacts DEF FirstDifference
<1>2. i \in 1..Len(left) /\ i \in 1..Len(right)
    BY DifferencesFacts DEF FirstDifference
<1>3. least \in D /\ \A k \in D : least <= k
    BY <1>1
<1>4. least = i
    BY <1>1, <1>3
<1>5. CompareIdentifiers(left, right) =
          IF IdentifierLess(left[least], right[least]) THEN -1 ELSE 1
    BY <1>1 DEF CompareIdentifiers
<1>6. left[i] # right[i]
    BY <1>1 DEF Differences
<1>7. left[i] \in Identifier /\ right[i] \in Identifier
    BY <1>2
<1>. QED BY <1>2, <1>4, <1>5, <1>6, <1>7

\* left comes after right because of its identifier i: they are the same
\* before it, and right has ended or has an earlier identifier there.
LaterAt(left, right, i) ==
    /\ i \in 1..Len(left)
    /\ \A k \in 1..(i - 1) : k \in 1..Len(right) /\ left[k] = right[k]
    /\ \/ i = Len(right) + 1
       \/ i \in 1..Len(right) /\ IdentifierLess(right[i], left[i])

LEMMA LaterMeans ==
    ASSUME NEW left \in Seq(Identifier), NEW right \in Seq(Identifier)
    PROVE  CompareIdentifiers(right, left) = -1 <=> \E i \in Nat : LaterAt(left, right, i)
<1>1. /\ Len(left) \in Nat /\ Len(right) \in Nat
      /\ Differences(left, right) = Differences(right, left)
    BY DifferencesFacts
<1>2. CASE Differences(left, right) = {}
  <2>1. CompareIdentifiers(right, left) = CompareLength(right, left)
      BY <1>1, <1>2 DEF CompareIdentifiers
  <2>2. \A k \in 1..Shorter(left, right) : left[k] = right[k]
      BY <1>2 DEF Differences
  <2>3. ASSUME Len(right) < Len(left) PROVE LaterAt(left, right, Len(right) + 1)
      BY <1>1, <2>2, <2>3 DEF LaterAt, Shorter
  <2>4. ASSUME NEW i \in Nat, LaterAt(left, right, i) PROVE Len(right) < Len(left)
    <3>1. CASE i = Len(right) + 1
        BY <1>1, <2>4, <3>1 DEF LaterAt
    <3>2. CASE i \in 1..Len(right) /\ IdentifierLess(right[i], left[i])
      <4>1. left[i] = right[i]
          BY <1>1, <2>2, <2>4, <3>2 DEF LaterAt, Shorter
      <4>. QED BY <3>2, <4>1, IdentifierOrder
    <3>. QED BY <2>4, <3>1, <3>2 DEF LaterAt
  <2>5. CompareLength(right, left) = -1 <=> Len(right) < Len(left)
      BY <1>1 DEF CompareLength
  <2>. QED BY <1>1, <2>1, <2>3, <2>4, <2>5
<1>3. CASE Differences(left, right) # {}
  <2>1. PICK i : FirstDifference(left, right, i)
      BY <1>3, DifferencesFacts
  <2>2. i \in 1..Len(left) /\ i \in 1..Len(right) /\ left[i] # right[i]
      BY <2>1, FirstDecides
  <2>3. \A k \in 1..(i - 1) : k \in 1..Len(right) /\ left[k] = right[k]
      BY <1>1, <2>1, <2>2 DEF FirstDifference, Differences, Shorter
  <2>4. CompareIdentifiers(right, left) = -1 <=> IdentifierLess(right[i], left[i])
    <3>1. FirstDifference(right, left, i)
        BY <1>1, <2>1 DEF FirstDifference
    <3>. QED BY <3>1, FirstDecides
  <2>5. ASSUME IdentifierLess(right[i], left[i]) PROVE LaterAt(left, right, i)
      BY <2>2, <2>3, <2>5 DEF LaterAt
  <2>6. ASSUME NEW j \in Nat, LaterAt(left, right, j) PROVE i = j
    <3>1. i \in Nat /\ ~(i < j)
        BY <1>1, <2>2, <2>6 DEF LaterAt
    <3>2. ASSUME j < i PROVE FALSE
      <4>1. j \in 1..Len(right) /\ left[j] = right[j] /\ left[j] \in Identifier
          BY <1>1, <2>2, <2>3, <2>6, <3>1, <3>2 DEF LaterAt
      <4>2. IdentifierLess(right[j], left[j])
          BY <1>1, <2>6, <4>1 DEF LaterAt
      <4>. QED BY <4>1, <4>2, IdentifierOrder
    <3>. QED BY <3>1, <3>2
  <2>7. ASSUME LaterAt(left, right, i) PROVE IdentifierLess(right[i], left[i])
      BY <1>1, <2>2, <2>7 DEF LaterAt
  <2>. QED BY <1>1, <2>2, <2>4, <2>5, <2>6, <2>7
<1>. QED BY <1>2, <1>3

\* The first difference is how one number is written.
RespelledParts(left, right) ==
    \E i \in Differences(left, right) :
        FirstDifference(left, right, i) /\ Alike(left[i], right[i])

\* _compare_identifiers says which list is later, and 0 only for the same list.
LEMMA IdentifiersCompared ==
    ASSUME NEW left \in Seq(Identifier), NEW right \in Seq(Identifier)
    PROVE  /\ CompareIdentifiers(left, right) \in {-1, 0, 1}
           /\ CompareIdentifiers(left, right) =
                 IF RespelledParts(left, right) THEN 1 ELSE -CompareIdentifiers(right, left)
           /\ CompareIdentifiers(left, right) = 0 <=> left = right
<1>1. Len(left) \in Nat /\ Len(right) \in Nat
    OBVIOUS
<1>2. Differences(left, right) = Differences(right, left)
    BY DifferencesFacts
<1>3. CASE Differences(left, right) = {}
  <2>1. /\ CompareIdentifiers(left, right) = CompareLength(left, right)
        /\ CompareIdentifiers(right, left) = CompareLength(right, left)
      BY <1>2, <1>3 DEF CompareIdentifiers
  <2>2. left = right <=> Len(left) = Len(right)
      BY <1>3, SameList
  <2>3. ~RespelledParts(left, right)
      BY <1>3 DEF RespelledParts
  <2>. QED BY <1>1, <2>1, <2>2, <2>3 DEF CompareLength
<1>4. CASE Differences(left, right) # {}
  <2>1. PICK i : FirstDifference(left, right, i)
      BY <1>4, DifferencesFacts
  <2>2. FirstDifference(right, left, i)
      BY <1>2, <2>1 DEF FirstDifference
  <2>3. /\ left[i] \in Identifier /\ right[i] \in Identifier /\ left[i] # right[i]
        /\ CompareIdentifiers(left, right) =
              IF IdentifierLess(left[i], right[i]) THEN -1 ELSE 1
      BY <2>1, FirstDecides
  <2>4. CompareIdentifiers(right, left) =
            IF IdentifierLess(right[i], left[i]) THEN -1 ELSE 1
      BY <2>2, FirstDecides
  <2>5. RespelledParts(left, right) <=> Alike(left[i], right[i])
    <3>1. ASSUME NEW j, FirstDifference(left, right, j) PROVE j = i
      <4>1. i \in 1..Len(left) /\ j \in 1..Len(left) /\ i <= j /\ j <= i
          BY <2>1, <3>1, FirstDecides DEF FirstDifference
      <4>. QED BY <1>1, <4>1
    <3>. QED BY <2>1, <3>1 DEF RespelledParts, FirstDifference
  <2>6. CASE Alike(left[i], right[i])
      BY <2>3, <2>4, <2>5, <2>6, IdentifierOrder
  <2>7. CASE ~Alike(left[i], right[i])
    <3>1. IdentifierLess(left[i], right[i]) \/ IdentifierLess(right[i], left[i])
        BY <2>3, <2>7, IdentifierOrder
    <3>2. ~(IdentifierLess(left[i], right[i]) /\ IdentifierLess(right[i], left[i]))
        BY <2>3, IdentifierOrder
    <3>. QED BY <2>3, <2>4, <2>5, <2>7, <3>1, <3>2
  <2>. QED BY <2>6, <2>7
<1>. QED BY <1>3, <1>4

LEMMA IdentifiersTransitive ==
    ASSUME NEW left \in Seq(Identifier), NEW middle \in Seq(Identifier),
           NEW right \in Seq(Identifier),
           CompareIdentifiers(middle, left) = -1, CompareIdentifiers(right, middle) = -1
    PROVE  CompareIdentifiers(right, left) = -1
<1>1. Len(left) \in Nat /\ Len(middle) \in Nat /\ Len(right) \in Nat
    OBVIOUS
<1>2. PICK i \in Nat : LaterAt(left, middle, i)
    BY LaterMeans
<1>3. PICK j \in Nat : LaterAt(middle, right, j)
    BY LaterMeans
<1>4. CASE i < j
  <2>1. /\ i \in 1..Len(left) /\ i \in 1..Len(middle) /\ i \in 1..Len(right)
        /\ middle[i] = right[i] /\ IdentifierLess(middle[i], left[i])
      BY <1>1, <1>2, <1>3, <1>4 DEF LaterAt
  <2>2. \A k \in 1..(i - 1) : k \in 1..Len(right) /\ left[k] = right[k]
      BY <1>1, <1>2, <1>3, <1>4 DEF LaterAt
  <2>. QED BY <2>1, <2>2, LaterMeans DEF LaterAt
<1>5. CASE i = j
  <2>1. i \in 1..Len(left) /\ i \in 1..Len(middle) /\ IdentifierLess(middle[i], left[i])
      BY <1>1, <1>2, <1>3, <1>5 DEF LaterAt
  <2>2. \A k \in 1..(i - 1) : k \in 1..Len(right) /\ left[k] = right[k]
      BY <1>1, <1>2, <1>3, <1>5 DEF LaterAt
  <2>3. CASE i = Len(right) + 1
      BY <2>1, <2>2, <2>3, LaterMeans DEF LaterAt
  <2>4. CASE i \in 1..Len(right) /\ IdentifierLess(right[i], middle[i])
    <3>1. left[i] \in Identifier /\ middle[i] \in Identifier /\ right[i] \in Identifier
        BY <2>1, <2>4
    <3>2. IdentifierLess(right[i], left[i])
        BY <2>1, <2>4, <3>1, IdentifierOrder
    <3>. QED BY <2>1, <2>2, <2>4, <3>2, LaterMeans DEF LaterAt
  <2>. QED BY <1>3, <1>5, <2>3, <2>4 DEF LaterAt
<1>6. CASE j < i
  <2>1. j \in 1..Len(left) /\ j \in 1..Len(middle) /\ left[j] = middle[j]
      BY <1>1, <1>2, <1>3, <1>6 DEF LaterAt
  <2>2. \A k \in 1..(j - 1) : k \in 1..Len(right) /\ left[k] = right[k]
      BY <1>1, <1>2, <1>3, <1>6 DEF LaterAt
  <2>. QED BY <1>3, <2>1, <2>2, LaterMeans DEF LaterAt
<1>. QED BY <1>4, <1>5, <1>6

----------------------------------------------------------------------------
(* SemVer.compare *)

LEMMA VersionFields ==
    ASSUME NEW v \in Version
    PROVE  v.core \in Core /\ v.prerelease \in Seq(Identifier) /\ v.build \in BOOLEAN
BY DEF Version, Core

\* compare is 0 only where core and prerelease are the same, antisymmetric except
\* where a number is respelled, and -1 only where the other way is 1.
LEMMA Compared ==
    ASSUME NEW a \in Version, NEW b \in Version
    PROVE  /\ Compare(a, b) \in {-1, 0, 1}
           /\ Compare(a, b) = IF Respelled(a, b) THEN 1 ELSE -Compare(b, a)
           /\ Compare(a, b) = 0 <=> a.core = b.core /\ a.prerelease = b.prerelease
           /\ Later(a, b) <=> Compare(b, a) = -1
           /\ Compare(a, b) = 1 => Later(a, b) \/ Respelled(a, b)
<1>1. ASSUME NEW v \in Version, NEW w \in Version
      PROVE  Compare(v, w) \in {-1, 0, 1}
    BY VersionFields, IdentifiersCompared DEF Compare
<1>. DEFINE left == a.prerelease
            right == b.prerelease
<1>2. /\ Compare(a, b) \in {-1, 0, 1}
      /\ Compare(a, b) = IF Respelled(a, b) THEN 1 ELSE -Compare(b, a)
      /\ Compare(a, b) = 0 <=> a.core = b.core /\ left = right
  <2>1. CASE a.core # b.core
      BY <2>1, VersionFields, CoreOrder DEF Compare, Respelled
  <2>2. CASE a.core = b.core /\ (left = <<>> \/ right = <<>>)
    <3>1. Differences(left, right) = {}
        BY <2>2, VersionFields DEF Differences, Shorter
    <3>. QED BY <2>2, <3>1 DEF Compare, Respelled
  <2>3. CASE a.core = b.core /\ left # <<>> /\ right # <<>>
    <3>1. /\ Compare(a, b) = CompareIdentifiers(left, right)
          /\ Compare(b, a) = CompareIdentifiers(right, left)
        BY <2>3 DEF Compare
    <3>2. Respelled(a, b) <=> RespelledParts(left, right)
        BY <2>3 DEF Respelled, RespelledParts, FirstDifference, Alike
    <3>. QED BY <2>3, <3>1, <3>2, VersionFields, IdentifiersCompared
  <2>. QED BY <2>1, <2>2, <2>3
<1>3. Compare(a, b) \in {-1, 0, 1} /\ Compare(b, a) \in {-1, 0, 1}
    BY <1>1
<1>4. /\ Compare(b, a) = -1 => Compare(a, b) = 1
      /\ Compare(a, b) = 1 => Compare(b, a) = -1 \/ Respelled(a, b)
    BY <1>2, <1>3
<1>. QED BY <1>2, <1>4 DEF Later

\* What it means that a is the later version.
LEMMA LaterVersion ==
    ASSUME NEW a \in Version, NEW b \in Version
    PROVE  Later(a, b) <=>
              \/ CoreLess(b.core, a.core)
              \/ /\ a.core = b.core
                 /\ b.prerelease # <<>>
                 /\ \/ a.prerelease = <<>>
                    \/ CompareIdentifiers(b.prerelease, a.prerelease) = -1
<1>1. CASE a.core # b.core
  <2>1. Compare(b, a) = -1 <=> CoreLess(b.core, a.core)
      BY <1>1, VersionFields, CoreOrder DEF Compare
  <2>. QED BY <1>1, <2>1, Compared
<1>2. CASE a.core = b.core
  <2>1. ~CoreLess(b.core, a.core)
      BY <1>2, VersionFields, CoreOrder
  <2>2. CASE a.prerelease = <<>> \/ b.prerelease = <<>>
    <3>1. b.prerelease = <<>> => Compare(b, a) # -1
        BY <1>2 DEF Compare
    <3>2. a.prerelease = <<>> /\ b.prerelease # <<>> => Compare(b, a) = -1
        BY <1>2 DEF Compare
    <3>. QED BY <1>2, <2>1, <2>2, <3>1, <3>2, Compared
  <2>3. CASE a.prerelease # <<>> /\ b.prerelease # <<>>
    <3>1. Compare(b, a) = CompareIdentifiers(b.prerelease, a.prerelease)
        BY <1>2, <2>3 DEF Compare
    <3>. QED BY <1>2, <2>1, <2>3, <3>1, Compared
  <2>. QED BY <2>2, <2>3
<1>. QED BY <1>1, <1>2

LEMMA LaterTransitive ==
    ASSUME NEW a \in Version, NEW b \in Version, NEW c \in Version,
           Later(a, b), Later(b, c)
    PROVE  Later(a, c)
<1>1. CASE a.core = b.core /\ b.core = c.core
  <2>1. /\ b.prerelease # <<>> /\ c.prerelease # <<>>
        /\ CompareIdentifiers(c.prerelease, b.prerelease) = -1
        /\ \/ a.prerelease = <<>>
           \/ CompareIdentifiers(b.prerelease, a.prerelease) = -1
      BY <1>1, LaterVersion, VersionFields, CoreOrder
  <2>2. \/ a.prerelease = <<>>
        \/ CompareIdentifiers(c.prerelease, a.prerelease) = -1
      BY <2>1, VersionFields, IdentifiersTransitive
  <2>. QED BY <1>1, <2>1, <2>2, LaterVersion
<1>2. CASE ~(a.core = b.core /\ b.core = c.core)
  <2>1. /\ a.core = b.core \/ CoreLess(b.core, a.core)
        /\ b.core = c.core \/ CoreLess(c.core, b.core)
      BY LaterVersion
  <2>2. CoreLess(c.core, a.core)
      BY <1>2, <2>1, VersionFields, CoreOrder
  <2>. QED BY <2>2, LaterVersion
<1>. QED BY <1>1, <1>2

----------------------------------------------------------------------------
(* The versions a run may ask for *)

LEMMA Identifiers ==
    \A n \in Nat : Number(n) \in Identifier /\ Name(n) \in Identifier
BY DEF Identifier, Number, Name

LEMMA Releases ==
    ASSUME NEW v \in Version
    PROVE  /\ Major(v) \in Version /\ Minor(v) \in Version /\ Patch(v) \in Version
           /\ CoreLess(v.core, Major(v).core)
           /\ CoreLess(v.core, Minor(v).core)
           /\ CoreLess(v.core, Patch(v).core)
           /\ Major(v).prerelease = <<>>
           /\ Minor(v).prerelease = <<>>
           /\ Patch(v).prerelease = <<>>
<1>. DEFINE c == v.core
<1>1. c[1] \in Nat /\ c[2] \in Nat /\ c[3] \in Nat
    BY DEF Version
<1>2. <<>> \in Seq(Identifier)
    OBVIOUS
<1>3. \A core \in Core :
          /\ Stable(core) \in Version
          /\ Stable(core).core = core /\ Stable(core).prerelease = <<>>
    BY <1>2 DEF Stable, Version, Core
<1>4. <<c[1] + 1, 0, 0>> \in Core /\ <<c[1], c[2] + 1, 0>> \in Core
      /\ <<c[1], c[2], c[3] + 1>> \in Core
    BY <1>1 DEF Core
<1>5. /\ CoreLess(c, <<c[1] + 1, 0, 0>>)
      /\ CoreLess(c, <<c[1], c[2] + 1, 0>>)
      /\ CoreLess(c, <<c[1], c[2], c[3] + 1>>)
    BY <1>1 DEF CoreLess
<1>. QED BY <1>3, <1>4, <1>5 DEF Major, Minor, Patch

LEMMA WithPrereleaseFacts ==
    ASSUME NEW v \in Version, NEW parts \in Seq(Identifier)
    PROVE  /\ WithPrerelease(v, parts) \in Version
           /\ WithPrerelease(v, parts).core = v.core
           /\ WithPrerelease(v, parts).prerelease = parts
BY DEF WithPrerelease, Version

LEMMA FirstOfFacts ==
    ASSUME NEW v \in Version, NEW preid \in Nat
    PROVE  /\ FirstOf(v, preid) \in Version
           /\ FirstOf(v, preid).core = v.core
           /\ FirstOf(v, preid).prerelease = <<Name(preid), Number(1)>>
<1>1. <<Name(preid), Number(1)>> \in Seq(Identifier)
    BY Identifiers
<1>. QED BY <1>1, WithPrereleaseFacts DEF FirstOf

\* Counting up leads to a later list of identifiers.
LEMMA CountUpFacts ==
    ASSUME NEW parts \in Seq(Identifier), parts # <<>>
    PROVE  /\ CountUp(parts) \in Seq(Identifier) /\ CountUp(parts) # <<>>
           /\ CompareIdentifiers(parts, CountUp(parts)) = -1
           /\ Len(parts) # 1 => CountUp(parts)[1] = parts[1]
<1>. DEFINE n == Len(parts)
            last == parts[n]
<1>1. n \in Nat /\ n \in 1..n /\ last \in Identifier
    OBVIOUS
<1>2. CASE last.numeric
  <2>. DEFINE up == Number(last.value + 1)
  <2>1. CountUp(parts) = [parts EXCEPT ![n] = up]
      BY <1>2 DEF CountUp
  <2>2. last.value \in Nat /\ last.value + 1 \in Nat
      BY <1>1 DEF Identifier
  <2>3. up \in Identifier /\ IdentifierLess(last, up)
      BY <1>2, <2>2, Identifiers DEF IdentifierLess, Number
  <2>4. /\ CountUp(parts) \in Seq(Identifier) /\ Len(CountUp(parts)) = n
        /\ \A j \in 1..n : CountUp(parts)[j] = IF j = n THEN up ELSE parts[j]
    <3>. HIDE DEF up, n
    <3>. QED BY <1>1, <2>1, <2>3, ExceptSeq DEF n
  <2>5. LaterAt(CountUp(parts), parts, n)
      BY <1>1, <2>3, <2>4 DEF LaterAt
  <2>. QED BY <1>1, <2>4, <2>5, LaterMeans
<1>3. CASE ~last.numeric
  <2>1. CountUp(parts) = Append(parts, Number(1))
      BY <1>3 DEF CountUp
  <2>2. /\ CountUp(parts) \in Seq(Identifier) /\ Len(CountUp(parts)) = n + 1
        /\ \A j \in 1..n : CountUp(parts)[j] = parts[j]
      BY <2>1, Identifiers, AppendProperties
  <2>3. LaterAt(CountUp(parts), parts, n + 1)
      BY <1>1, <2>2 DEF LaterAt
  <2>. QED BY <1>1, <2>2, <2>3, LaterMeans
<1>. QED BY <1>2, <1>3

\* The first identifier is not later than the name preid.
StartsBy(v, preid) ==
    v.prerelease = <<>> \/ ~IdentifierLess(Name(preid), v.prerelease[1])

\* What every bump does, for whichever name it is given.
LEMMA BumpFacts ==
    ASSUME NEW v \in Version, NEW preid \in Nat, NEW target \in Bumps(v, preid)
    PROVE  /\ target \in Version
           /\ Compare(target, v) # 0
           /\ target # BumpPrerelease(v, preid) => Later(target, v)
           /\ StartsBy(v, preid) => Later(target, v) /\ StartsBy(target, preid)
<1>. DEFINE start == <<Name(preid), Number(1)>>
<1>1. v.prerelease \in Seq(Identifier) /\ v.core \in Core
    BY VersionFields
<1>2. /\ start \in Seq(Identifier) /\ start # <<>> /\ Len(start) = 2
      /\ start[1] = Name(preid) /\ start[2] = Number(1)
      /\ Name(preid) \in Identifier /\ ~IdentifierLess(Name(preid), Name(preid))
    BY Identifiers, IdentifierOrder
<1>. HIDE DEF start
<1>3. ASSUME target \in Version, CoreLess(v.core, target.core),
             target.prerelease = <<>> \/ target.prerelease = start
      PROVE  Later(target, v) /\ Compare(target, v) # 0 /\ StartsBy(target, preid)
    BY <1>2, <1>3, LaterVersion DEF StartsBy, Later
<1>4. CASE target \in {Major(v), Minor(v), Patch(v)}
    BY <1>3, <1>4, Releases
<1>5. CASE target \in {FirstOf(Major(v), preid), FirstOf(Minor(v), preid),
                       FirstOf(Patch(v), preid)}
  <2>1. \A w \in Version : /\ FirstOf(w, preid) \in Version
                            /\ FirstOf(w, preid).core = w.core
                            /\ FirstOf(w, preid).prerelease = start
      BY FirstOfFacts DEF start
  <2>2. PICK w \in {Major(v), Minor(v), Patch(v)} : target = FirstOf(w, preid)
      BY <1>5
  <2>3. w \in Version /\ CoreLess(v.core, w.core)
      BY <2>2, Releases
  <2>. QED BY <1>3, <2>1, <2>2, <2>3
<1>6. CASE target = BumpPrerelease(v, preid)
  <2>1. CASE v.prerelease = <<>>
    <3>1. target = FirstOf(Patch(v), preid)
        BY <1>6, <2>1 DEF BumpPrerelease
    <3>. QED BY <1>5, <3>1
  <2>2. CASE v.prerelease # <<>> /\ (v.prerelease[1] # Name(preid) \/ Len(v.prerelease) = 1)
    <3>1. target = FirstOf(WithoutPrerelease(v), preid)
        BY <1>6, <2>2 DEF BumpPrerelease
    <3>2. target \in Version /\ target.core = v.core /\ target.prerelease = start
      <4>1. <<>> \in Seq(Identifier)
          OBVIOUS
      <4>2. WithoutPrerelease(v) \in Version /\ WithoutPrerelease(v).core = v.core
          BY <4>1, WithPrereleaseFacts DEF WithoutPrerelease
      <4>. QED BY <3>1, <4>2, FirstOfFacts DEF start
    <3>3. ASSUME v.prerelease = start PROVE FALSE
      <4>1. v.prerelease[1] = Name(preid) /\ Len(v.prerelease) = 2
          BY <1>2, <3>3
      <4>. QED BY <2>2, <4>1
    <3>4. Compare(target, v) # 0 /\ StartsBy(target, preid)
        BY <1>2, <3>2, <3>3, Compared DEF StartsBy
    <3>5. ASSUME StartsBy(v, preid) PROVE Later(target, v)
      <4>1. Len(v.prerelease) \in Nat /\ 1 \in 1..Len(v.prerelease)
            /\ v.prerelease[1] \in Identifier
          BY <1>1, <2>2
      <4>2. CASE v.prerelease[1] # Name(preid)
        <5>1. IdentifierLess(v.prerelease[1], Name(preid))
          <6>1. ~Alike(v.prerelease[1], Name(preid))
              BY DEF Alike, Name
          <6>. QED BY <1>2, <2>2, <3>5, <4>1, <4>2, <6>1, IdentifierOrder DEF StartsBy
        <5>2. LaterAt(start, v.prerelease, 1)
            BY <1>2, <4>1, <5>1 DEF LaterAt
        <5>. QED BY <1>1, <1>2, <2>2, <3>2, <5>2, LaterMeans, LaterVersion
      <4>3. CASE v.prerelease[1] = Name(preid)
        <5>1. LaterAt(start, v.prerelease, 2)
            BY <1>2, <2>2, <4>1, <4>3 DEF LaterAt
        <5>. QED BY <1>1, <1>2, <2>2, <3>2, <5>1, LaterMeans, LaterVersion
      <4>. QED BY <4>2, <4>3
    <3>. QED BY <1>6, <3>2, <3>4, <3>5
  <2>3. CASE /\ v.prerelease # <<>> /\ v.prerelease[1] = Name(preid)
             /\ Len(v.prerelease) # 1
    <3>1. target = WithPrerelease(v, CountUp(v.prerelease))
        BY <1>6, <2>3 DEF BumpPrerelease
    <3>2. /\ target \in Version /\ target.core = v.core
          /\ target.prerelease = CountUp(v.prerelease)
          /\ CompareIdentifiers(v.prerelease, target.prerelease) = -1
          /\ target.prerelease[1] = Name(preid)
      <4>1. /\ CountUp(v.prerelease) \in Seq(Identifier)
            /\ CompareIdentifiers(v.prerelease, CountUp(v.prerelease)) = -1
            /\ CountUp(v.prerelease)[1] = Name(preid)
          BY <1>1, <2>3, CountUpFacts
      <4>. QED BY <3>1, <4>1, WithPrereleaseFacts
    <3>3. Later(target, v)
        BY <2>3, <3>2, LaterVersion
    <3>. QED BY <1>2, <1>6, <3>2, <3>3 DEF StartsBy, Later
  <2>. QED BY <2>1, <2>2, <2>3
<1>7. CASE v.prerelease # <<>> /\ target = WithoutPrerelease(v)
  <2>1. <<>> \in Seq(Identifier)
      OBVIOUS
  <2>2. target \in Version /\ target.core = v.core /\ target.prerelease = <<>>
      BY <1>7, <2>1, WithPrereleaseFacts DEF WithoutPrerelease
  <2>. QED BY <1>7, <2>2, LaterVersion DEF StartsBy, Later
<1>. QED BY <1>4, <1>5, <1>6, <1>7 DEF Bumps

\* A prerelease by an earlier name is an earlier version.
LEMMA RenamedBackFacts ==
    ASSUME NEW v \in Version, NEW target, RenamedBack(v, target)
    PROVE  Later(v, target)
<1>1. PICK preid \in Preids :
          /\ target = BumpPrerelease(v, preid)
          /\ v.prerelease # <<>>
          /\ IdentifierLess(Name(preid), v.prerelease[1])
    BY DEF RenamedBack
<1>2. /\ preid \in Nat /\ Name(preid) \in Identifier
      /\ ~IdentifierLess(Name(preid), Name(preid))
    BY PreidsAssumption, Identifiers, IdentifierOrder
<1>3. v.prerelease \in Seq(Identifier) /\ <<>> \in Seq(Identifier)
    BY VersionFields
<1>4. target = FirstOf(WithoutPrerelease(v), preid)
    BY <1>1, <1>2 DEF BumpPrerelease
<1>5. WithoutPrerelease(v) \in Version /\ WithoutPrerelease(v).core = v.core
    BY <1>3, WithPrereleaseFacts DEF WithoutPrerelease
<1>. DEFINE start == <<Name(preid), Number(1)>>
<1>6. /\ target \in Version /\ target.core = v.core /\ target.prerelease = start
      /\ start \in Seq(Identifier) /\ start # <<>> /\ Len(start) = 2
      /\ start[1] = Name(preid)
    BY <1>2, <1>4, <1>5, FirstOfFacts, Identifiers
<1>. HIDE DEF start
<1>7. LaterAt(v.prerelease, start, 1)
    BY <1>1, <1>3, <1>6 DEF LaterAt
<1>. QED BY <1>1, <1>3, <1>6, <1>7, LaterMeans, LaterVersion

\* Every target is later, but for a bump to an earlier name or a respelling.
LEMMA TargetsIncrease ==
    ASSUME NEW v \in Version, NEW target \in Targets(v)
    PROVE  \/ Later(target, v)
           \/ target \in Samples /\ Respelled(target, v)
           \/ RenamedBack(v, target)
<1>1. CASE target \in Newer(v)
  <2>1. target \in Samples /\ target \in Version /\ Compare(target, v) > 0
      BY <1>1, SamplesAssumption DEF Newer
  <2>2. Compare(target, v) = 1
      BY <2>1, Compared
  <2>. QED BY <2>1, <2>2, Compared
<1>2. CASE \E preid \in Preids : target \in Bumps(v, preid)
    BY <1>2, PreidsAssumption, BumpFacts DEF RenamedBack, StartsBy
<1>. QED BY <1>1, <1>2 DEF Targets

LEMMA TargetFacts ==
    ASSUME NEW v \in Version, NEW target \in Targets(v)
    PROVE  target \in Version /\ Compare(target, v) # 0
<1>1. CASE target \in Newer(v)
  <2>1. target \in Version /\ Compare(target, v) > 0
      BY <1>1, SamplesAssumption DEF Newer
  <2>. QED BY <2>1, Compared
<1>2. CASE \E preid \in Preids : target \in Bumps(v, preid)
    BY <1>2, PreidsAssumption, BumpFacts
<1>. QED BY <1>1, <1>2 DEF Targets

----------------------------------------------------------------------------
(* The two files *)

Manifest == [version : Version, repo : Repos, tag : Version]
Written  == [file : Manifest, pinned : BOOLEAN]

TypeOK ==
    /\ pyproject \in Version
    /\ manifest \in Manifest
    /\ pc \in {"ready", "writing"}
    /\ pc = "writing" => next \in Written
    /\ pinned \in BOOLEAN

\* Between runs the two files carry one version, or versions that compare tells
\* apart; within a run the manifest that is still to be written carries the new
\* version, which compare tells from the old one.
FilesAgree ==
    /\ pc = "ready" =>
          pyproject = manifest.version \/ Compare(pyproject, manifest.version) # 0
    /\ pc = "writing" =>
          Compare(pyproject, manifest.version) # 0 /\ next.file.version = pyproject

ImagesFollow ==
    /\ ImageFollows
    /\ pc = "writing" /\ next.pinned => next.file.tag = next.file.version

IInv == TypeOK /\ FilesAgree /\ ImagesFollow

LEMMA InitIInv == Init => IInv
<1>. SUFFICES ASSUME Init PROVE IInv
    OBVIOUS
<1>1. First \in Version /\ Primary \in Repos
    BY SamplesAssumption, ReposAssumption
<1>2. /\ pyproject = First /\ pc = "ready" /\ pinned = TRUE
      /\ manifest = [version |-> First, repo |-> Primary, tag |-> First]
    BY DEF Init
<1>3. manifest \in Manifest /\ manifest.version = First /\ manifest.tag = First
    BY <1>1, <1>2 DEF Manifest
<1>4. TypeOK
    BY <1>1, <1>2, <1>3 DEF TypeOK
<1>. QED BY <1>2, <1>3, <1>4 DEF IInv, FilesAgree, ImagesFollow, ImageFollows

\* The manifest of a run: the new version, and its image where it is pinned.
LEMMA UpdateFacts ==
    ASSUME NEW target \in Version, NEW image, manifest \in Manifest
    PROVE  /\ [manifest EXCEPT !.version = target] \in Manifest
           /\ [manifest EXCEPT !.version = target].version = target
           /\ Update(target, image) \in Manifest
           /\ Update(target, image).version = target
           /\ image = manifest.repo => Update(target, image).tag = target
BY DEF Update, Manifest

LEMMA RunIInv ==
    ASSUME NEW target, NEW docker_image, NEW pin \in BOOLEAN,
           IInv, Run(target, docker_image, pin)
    PROVE  IInv'
<1>. DEFINE image == Image(docker_image)
            pinning == pin /\ image = manifest.repo
            file == IF pin THEN Update(target, image)
                    ELSE [manifest EXCEPT !.version = target]
<1>1. /\ pc = "ready" /\ Compare(pyproject, manifest.version) = 0
      /\ target \in Targets(pyproject)
      /\ pyproject' = target /\ next' = [file |-> file, pinned |-> pinning]
      /\ pc' = "writing" /\ manifest' = manifest /\ pinned' = pinned
    BY DEF Run
<1>2. pyproject \in Version /\ manifest \in Manifest /\ pinned \in BOOLEAN
    BY DEF IInv, TypeOK
<1>3. target \in Version /\ Compare(target, manifest.version) # 0
  <2>1. pyproject = manifest.version
      BY <1>1 DEF IInv, FilesAgree
  <2>. QED BY <1>1, <1>2, <2>1, TargetFacts
<1>4. file \in Manifest /\ file.version = target
    BY <1>2, <1>3, UpdateFacts
<1>5. ASSUME pinning PROVE file.tag = target
    BY <1>2, <1>3, <1>5, UpdateFacts
<1>6. pinning \in BOOLEAN
    OBVIOUS
<1>. HIDE DEF file, pinning
<1>7. next' \in Written /\ next'.file = file /\ (next'.pinned <=> pinning)
  <2>1. CASE pinning
      BY <1>1, <1>4, <1>6, <2>1 DEF Written
  <2>2. CASE ~pinning
      BY <1>1, <1>4, <1>6, <2>2 DEF Written
  <2>. QED BY <2>1, <2>2
<1>8. TypeOK'
    BY <1>1, <1>2, <1>3, <1>7 DEF TypeOK
<1>9. FilesAgree'
    BY <1>1, <1>3, <1>4, <1>7 DEF FilesAgree
<1>10. ImagesFollow'
    BY <1>1, <1>4, <1>5, <1>7 DEF ImagesFollow, ImageFollows, IInv
<1>. QED BY <1>8, <1>9, <1>10 DEF IInv

LEMMA NextIInv == IInv /\ [Next]_vars => IInv'
<1>. SUFFICES ASSUME IInv, [Next]_vars PROVE IInv'
    OBVIOUS
<1>1. CASE \E docker_image \in Repos \cup {None}, pin \in BOOLEAN :
              \E target \in Targets(pyproject) : Run(target, docker_image, pin)
    BY <1>1, RunIInv
<1>2. CASE WriteManifest
  <2>1. /\ pc = "writing" /\ manifest' = next.file /\ pinned' = next.pinned
        /\ pc' = "ready" /\ pyproject' = pyproject
      BY <1>2 DEF WriteManifest
  <2>2. next.file \in Manifest /\ next.pinned \in BOOLEAN
      BY <2>1 DEF IInv, TypeOK, Written
  <2>3. next.file.version = pyproject
      BY <2>1 DEF IInv, FilesAgree
  <2>4. next.pinned => next.file.tag = next.file.version
      BY <2>1 DEF IInv, ImagesFollow
  <2>5. TypeOK'
      BY <2>1, <2>2 DEF IInv, TypeOK
  <2>6. FilesAgree'
      BY <2>1, <2>3 DEF FilesAgree
  <2>7. ImagesFollow'
      BY <2>1, <2>4 DEF ImagesFollow, ImageFollows
  <2>. QED BY <2>5, <2>6, <2>7 DEF IInv
<1>3. CASE Interrupt
    BY <1>3 DEF Interrupt, IInv, TypeOK, FilesAgree, ImagesFollow, ImageFollows
<1>4. CASE Checkout
  <2>1. manifest.version \in Version
      BY DEF IInv, TypeOK, Manifest
  <2>. QED BY <1>4, <2>1
           DEF Checkout, IInv, TypeOK, FilesAgree, ImagesFollow, ImageFollows
<1>5. CASE UNCHANGED vars
    BY <1>5 DEF vars, IInv, TypeOK, FilesAgree, ImagesFollow, ImageFollows
<1>. QED BY <1>1, <1>2, <1>3, <1>4, <1>5 DEF Next

\* Both files always hold versions, which are one version or are told apart by
\* compare, for any bumps, interruptions and checkouts (release.py:298-343).
THEOREM FilesHoldVersions == Spec => []IInv
BY InitIInv, NextIInv, PTL DEF Spec

\* compare orders the versions of the two files and any it is given, whatever their
\* numbers, leading zeros and number of identifiers: only a number written with
\* other leading zeros is called later both ways (release.py:75-84, 223-236).
THEOREM VersionsAreOrdered == Spec => []CompareIsOrder
<1>1. IInv => CompareIsOrder
  <2>. SUFFICES ASSUME IInv, NEW v \in Samples \cup {manifest.version},
                       NEW w \in Samples \cup {manifest.version}
                PROVE  /\ Compare(v, w) = 0 <=> v.core = w.core /\ v.prerelease = w.prerelease
                       /\ Compare(v, w) = IF Respelled(v, w) THEN 1 ELSE -Compare(w, v)
                       /\ Later(v, pyproject) /\ Later(pyproject, w) => Later(v, w)
      BY DEF CompareIsOrder
  <2>1. v \in Version /\ w \in Version /\ pyproject \in Version
      BY SamplesAssumption DEF IInv, TypeOK, Manifest
  <2>. QED BY <2>1, Compared, LaterTransitive
<1>. QED BY <1>1, FilesHoldVersions, PTL

\* A release that stopped between its two files is noticed by the next run, for
\* any versions and prerelease names (release.py:309-312).
THEOREM HalfReleasesAreNoticed == Spec => []HalfReleaseIsNoticed
<1>1. IInv => HalfReleaseIsNoticed
    BY DEF IInv, FilesAgree, HalfReleaseIsNoticed
<1>. QED BY <1>1, FilesHoldVersions, PTL

\* A manifest written by a run that pins its image names the image of its version,
\* whatever was interrupted before (release.py:275-295, 326-333).
THEOREM PinnedImagesFollow == Spec => []ImageFollows
<1>1. IInv => ImageFollows
    BY DEF IInv, ImagesFollow
<1>. QED BY <1>1, FilesHoldVersions, PTL

----------------------------------------------------------------------------
(* A release is later than the one before *)

\* For any prerelease names every release is later than the one before, however
\* releases are interrupted and checked out again, but for a prerelease bump to an
\* earlier name, which lowers the version, and a respelled number that
\* --set-version takes (release.py:167-220).
THEOREM ReleasesIncrease == Spec => VersionsIncrease
<1>. DEFINE A == IF RenamedBack(pyproject, pyproject') THEN Later(pyproject, pyproject')
                 ELSE \/ Later(pyproject', pyproject)
                      \/ pyproject' \in Samples /\ Respelled(pyproject', pyproject)
<1>1. IInv /\ [Next]_vars => [pc = "ready" /\ pc' = "writing" => A]_vars
  <2>. SUFFICES ASSUME IInv, [Next]_vars, pc = "ready", pc' = "writing" PROVE A
      OBVIOUS
  <2>1. pyproject' \in Targets(pyproject) /\ pyproject \in Version
      BY DEF Next, Run, WriteManifest, Interrupt, Checkout, vars, IInv, TypeOK
  <2>2. \/ Later(pyproject', pyproject)
        \/ pyproject' \in Samples /\ Respelled(pyproject', pyproject)
        \/ RenamedBack(pyproject, pyproject')
      BY <2>1, TargetsIncrease
  <2>3. RenamedBack(pyproject, pyproject') => Later(pyproject, pyproject')
      BY <2>1, RenamedBackFacts
  <2>. QED BY <2>2, <2>3
<1>. QED BY <1>1, FilesHoldVersions, PTL DEF Spec, VersionsIncrease

\* Every --preid is the name preid, and no version that the repository starts
\* from or is set to begins its prerelease with a later name.
OneName(preid) ==
    /\ preid \in Nat
    /\ Preids \subseteq {preid}
    /\ \A v \in Samples \cup {First} : StartsBy(v, preid)

\* So it stays for the version of either file.
OneNameInv(preid) ==
    /\ StartsBy(pyproject, preid)
    /\ StartsBy(manifest.version, preid)
    /\ pc = "writing" => StartsBy(next.file.version, preid)

LEMMA OneNameTargets ==
    ASSUME NEW preid, OneName(preid),
           NEW v \in Version, StartsBy(v, preid), NEW target \in Targets(v)
    PROVE  StartsBy(target, preid) /\ ~RenamedBack(v, target)
<1>1. ~RenamedBack(v, target)
    BY DEF RenamedBack, OneName, StartsBy
<1>2. CASE target \in Newer(v)
    BY <1>1, <1>2 DEF Newer, OneName
<1>3. CASE target \in Bumps(v, preid) /\ preid \in Nat
    BY <1>1, <1>3, BumpFacts
<1>. QED BY <1>2, <1>3 DEF Targets, OneName

LEMMA OneNameStep ==
    ASSUME NEW preid, OneName(preid), IInv, OneNameInv(preid), [Next]_vars
    PROVE  /\ OneNameInv(preid)'
           /\ pc = "ready" /\ pc' = "writing" =>
                 ~Later(pyproject, pyproject')
<1>1. ASSUME NEW target, NEW docker_image, NEW pin \in BOOLEAN,
             Run(target, docker_image, pin)
      PROVE  OneNameInv(preid)' /\ ~Later(pyproject, pyproject')
  <2>1. /\ target \in Targets(pyproject) /\ pyproject' = target
        /\ pc' = "writing" /\ manifest' = manifest
      BY <1>1 DEF Run
  <2>2. StartsBy(target, preid) /\ ~RenamedBack(pyproject, target)
      BY <2>1, OneNameTargets DEF IInv, TypeOK, OneNameInv
  <2>3. next'.file.version = target
      BY <1>1, <2>1, RunIInv DEF IInv, FilesAgree
  <2>4. \/ Later(target, pyproject)
        \/ Respelled(target, pyproject)
      BY <2>1, <2>2, TargetsIncrease DEF IInv, TypeOK
  <2>5. Compare(target, pyproject) = 1
      BY <2>1, <2>4, Compared, TargetFacts DEF IInv, TypeOK, Later
  <2>. QED BY <2>1, <2>2, <2>3, <2>5 DEF OneNameInv, Later
<1>2. CASE WriteManifest
    BY <1>2 DEF WriteManifest, OneNameInv
<1>3. CASE Interrupt
    BY <1>3 DEF Interrupt, OneNameInv
<1>4. CASE Checkout
    BY <1>4 DEF Checkout, OneNameInv
<1>5. CASE UNCHANGED vars
    BY <1>5 DEF vars, OneNameInv
<1>. QED BY <1>1, <1>2, <1>3, <1>4, <1>5 DEF Next

\* With one prerelease name no release is earlier than the one before, whichever
\* bump is asked for and however releases are interrupted and checked out again
\* (release.py:179-220).
THEOREM OneNameNeverGoesBack ==
    ASSUME NEW preid, OneName(preid)
    PROVE  Spec => [][pc = "ready" /\ pc' = "writing" =>
                          ~Later(pyproject, pyproject')]_vars
<1>1. Init => OneNameInv(preid)
    BY DEF Init, OneNameInv, OneName
<1>2. IInv /\ OneNameInv(preid) /\ [Next]_vars => OneNameInv(preid)'
    BY OneNameStep
<1>3. IInv /\ OneNameInv(preid) /\ [Next]_vars
          => [pc = "ready" /\ pc' = "writing" => ~Later(pyproject, pyproject')]_vars
    BY OneNameStep
<1>. QED BY <1>1, <1>2, <1>3, FilesHoldVersions, PTL DEF Spec
=============================================================================
