------------------------------ MODULE Release ------------------------------
(* scripts/release.py: semantic versions, the bumps, and a release as the  *)
(* two files it writes one after the other.                                *)
(*                                                                         *)
(* A version is parsed: its core numbers, its prerelease identifiers and   *)
(* whether it carries build metadata.  An identifier is the text of a      *)
(* number, which may have leading zeros, or one of the prerelease names,   *)
(* which rank as their spelling does; two are equal where their texts are. *)
EXTENDS Integers, Sequences

CONSTANTS
    Preids,       \* names passed as --preid, given by their rank
    Samples,      \* versions passed as --set-version
    First,        \* the version the repository starts from
    Repos,        \* container image repositories
    Primary,      \* the repository of the image in the manifest
    MaxNumber,    \* bound on every number in a version
    MaxParts,     \* bound on the prerelease identifiers of a version
    None

Identifier == {id \in [numeric: BOOLEAN, value: Nat, zeros: Nat] :
                  id.numeric \/ id.zeros = 0}
Version    == [core: Nat \X Nat \X Nat, prerelease: Seq(Identifier), build: BOOLEAN]

ASSUME PreidsAssumption == Preids \subseteq Nat
ASSUME SamplesAssumption == Samples \subseteq Version /\ First \in Version
ASSUME ReposAssumption == Primary \in Repos /\ None \notin Repos
ASSUME BoundsAssumption == MaxNumber \in Nat /\ MaxParts \in Nat

VARIABLES
    pyproject,  \* the version in pyproject.toml
    manifest,   \* version and image of src/manifest.json
    next,       \* the manifest that a run has still to write, or None
    pc,         \* "ready", or "writing" between the two writes
    pinned      \* history: the run that wrote the manifest pinned its image

vars == <<pyproject, manifest, next, pc, pinned>>

Number(n)  == [numeric |-> TRUE, value |-> n, zeros |-> 0]
Name(rank) == [numeric |-> FALSE, value |-> rank, zeros |-> 0]

Stable(core) == [core |-> core, prerelease |-> <<>>, build |-> FALSE]

----------------------------------------------------------------------------
(* SemVer *)

WithPrerelease(v, parts) == [v EXCEPT !.prerelease = parts]
WithoutPrerelease(v)     == WithPrerelease(v, <<>>)

\* Python's comparison of two tuples of three numbers.
CoreLess(a, b) ==
    \/ a[1] < b[1]
    \/ a[1] = b[1] /\ a[2] < b[2]
    \/ a[1] = b[1] /\ a[2] = b[2] /\ a[3] < b[3]

\* Mutant: names and numbers are compared by their rank alone.
IdentifierLess_Untyped(a, b) == a.value < b.value

\* Numbers before names, numbers by value (int drops their leading zeros),
\* names by spelling.
IdentifierLess(a, b) ==
    IF a.numeric = b.numeric THEN a.value < b.value ELSE a.numeric

Shorter(left, right) == IF Len(left) <= Len(right) THEN Len(left) ELSE Len(right)

\* Where the texts of two lists differ, within the shorter one.
Differences(left, right) == {i \in 1..Shorter(left, right) : left[i] # right[i]}

\* Where they do not differ, the longer list is the later one.
CompareLength(left, right) ==
    IF Len(left) = Len(right) THEN 0
    ELSE IF Len(left) < Len(right) THEN -1 ELSE 1

\* _compare_identifiers.
CompareIdentifiers(left, right) ==
    IF Differences(left, right) = {} THEN CompareLength(left, right)
    ELSE LET i == CHOOSE j \in Differences(left, right) :
                      \A k \in Differences(left, right) : j <= k
         IN  IF IdentifierLess(left[i], right[i]) THEN -1 ELSE 1

\* Mutant: a prerelease is not told from its release.
Compare_CoreOnly(a, b) ==
    IF a.core # b.core THEN (IF CoreLess(a.core, b.core) THEN -1 ELSE 1) ELSE 0

\* SemVer.compare; build metadata is ignored.
Compare(a, b) ==
    IF a.core # b.core THEN (IF CoreLess(a.core, b.core) THEN -1 ELSE 1)
    ELSE IF a.prerelease = <<>> /\ b.prerelease = <<>> THEN 0
    ELSE IF a.prerelease = <<>> THEN 1
    ELSE IF b.prerelease = <<>> THEN -1
    ELSE CompareIdentifiers(a.prerelease, b.prerelease)

----------------------------------------------------------------------------
(* bump_version and bump_prerelease *)

Major(v) == Stable(<<v.core[1] + 1, 0, 0>>)
Minor(v) == Stable(<<v.core[1], v.core[2] + 1, 0>>)
Patch(v) == Stable(<<v.core[1], v.core[2], v.core[3] + 1>>)

FirstOf(v, preid) == WithPrerelease(v, <<Name(preid), Number(1)>>)

\* Mutant: counting up starts from one again.
CountUp_Restart(parts) == [parts EXCEPT ![Len(parts)] = Number(1)]

\* The last identifier after the name is counted up, which drops its leading
\* zeros, or a 1 is appended.
CountUp(parts) ==
    LET last == parts[Len(parts)]
    IN  IF last.numeric
        THEN [parts EXCEPT ![Len(parts)] = Number(last.value + 1)]
        ELSE Append(parts, Number(1))

BumpPrerelease(v, preid) ==
    IF v.prerelease = <<>> THEN FirstOf(Patch(v), preid)
    ELSE IF v.prerelease[1] # Name(preid) \/ Len(v.prerelease) = 1
         THEN FirstOf(WithoutPrerelease(v), preid)
         ELSE WithPrerelease(v, CountUp(v.prerelease))

Bumps(v, preid) ==
    {Major(v), Minor(v), Patch(v),
     FirstOf(Major(v), preid), FirstOf(Minor(v), preid), FirstOf(Patch(v), preid),
     BumpPrerelease(v, preid)}
    \cup (IF v.prerelease = <<>> THEN {} ELSE {WithoutPrerelease(v)})

\* --set-version takes only what is newer.
Newer(v) == {w \in Samples : Compare(w, v) > 0}

Targets(v) == Newer(v) \cup UNION {Bumps(v, preid) : preid \in Preids}

Bounded(v) ==
    /\ \A i \in 1..3 : v.core[i] <= MaxNumber
    /\ Len(v.prerelease) <= MaxParts
    /\ \A i \in 1..Len(v.prerelease) : v.prerelease[i].value <= MaxNumber

----------------------------------------------------------------------------
(* main *)

Init ==
    /\ pyproject = First
    /\ manifest = [version |-> First, repo |-> Primary, tag |-> First]
    /\ next = None
    /\ pc = "ready"
    /\ pinned = TRUE

\* infer_primary_container_repo, or --docker-image.
Image(docker_image) == IF docker_image = None THEN manifest.repo ELSE docker_image

\* Mutant: the image keeps the tag of the version before.
Update_StaleTag(target, image) == [manifest EXCEPT !.version = target]

\* update_primary_container_images: only an image of that repository.
Update(target, image) ==
    IF image = manifest.repo
    THEN [manifest EXCEPT !.version = target, !.tag = target]
    ELSE [manifest EXCEPT !.version = target]

\* A run up to and including the write of pyproject.toml; it fails where the
\* two files disagree.
Run(target, docker_image, pin) ==
    /\ pc = "ready"
    /\ Compare(pyproject, manifest.version) = 0
    /\ target \in Targets(pyproject)
    /\ Bounded(target)
    /\ pyproject' = target
    /\ next' = [file   |-> IF pin THEN Update(target, Image(docker_image))
                          ELSE [manifest EXCEPT !.version = target],
                pinned |-> pin /\ Image(docker_image) = manifest.repo]
    /\ pc' = "writing"
    /\ UNCHANGED <<manifest, pinned>>

WriteManifest ==
    /\ pc = "writing"
    /\ manifest' = next.file
    /\ pinned' = next.pinned
    /\ next' = None
    /\ pc' = "ready"
    /\ UNCHANGED pyproject

\* The second write does not happen: disk full, job cancelled.
Interrupt ==
    /\ pc = "writing"
    /\ next' = None
    /\ pc' = "ready"
    /\ UNCHANGED <<pyproject, manifest, pinned>>

\* The working tree of an interrupted release is checked out again.
Checkout ==
    /\ pc = "ready"
    /\ pyproject # manifest.version
    /\ pyproject' = manifest.version
    /\ UNCHANGED <<manifest, next, pc, pinned>>

Next ==
    \/ \E docker_image \in Repos \cup {None}, pin \in BOOLEAN :
          \E target \in Targets(pyproject) : Run(target, docker_image, pin)
    \/ WriteManifest
    \/ Interrupt
    \/ Checkout

Spec == Init /\ [][Next]_vars

----------------------------------------------------------------------------
(* Properties *)

\* compare tells that v is the later one, whichever of the two it is asked of.
Later(v, w) == Compare(v, w) = 1 /\ Compare(w, v) = -1

\* The first difference is how one number is written: 1 and 01.
Respelled(v, w) ==
    LET differences == Differences(v.prerelease, w.prerelease)
    IN  /\ v.core = w.core
        /\ \E i \in differences :
              /\ \A k \in differences : i <= k
              /\ v.prerelease[i].numeric /\ w.prerelease[i].numeric
              /\ v.prerelease[i].value = w.prerelease[i].value

\* The bump to a prerelease by a name that sorts before the current one.
RenamedBack(v, target) ==
    \E preid \in Preids :
        /\ target = BumpPrerelease(v, preid)
        /\ v.prerelease # <<>>
        /\ IdentifierLess(Name(preid), v.prerelease[1])

\* A release is later than the one before (release.py:95 "Increment the current
\* version.", release.py:171 "must be newer"), with two exceptions: a prerelease
\* bump to an earlier name, rc.1 to alpha.1, always lowers the version
\* (release.py:208-209), and --set-version also takes the same numbers with other
\* leading zeros, which compare calls newer in both directions.
VersionsIncrease ==
    [][pc = "ready" /\ pc' = "writing" =>
           IF RenamedBack(pyproject, pyproject') THEN Later(pyproject, pyproject')
           ELSE \/ Later(pyproject', pyproject)
                \/ pyproject' \in Samples /\ Respelled(pyproject', pyproject)]_vars

\* compare takes only versions that differ in nothing but build metadata for
\* equal; it is antisymmetric except for numbers written with other leading zeros,
\* of which it calls either one the later; and what it orders is ordered
\* transitively (release.py:75-84, 223-236).
CompareIsOrder ==
    \A v, w \in Samples \cup {manifest.version} :
        /\ Compare(v, w) = 0 <=> v.core = w.core /\ v.prerelease = w.prerelease
        /\ Compare(v, w) = IF Respelled(v, w) THEN 1 ELSE -Compare(w, v)
        /\ Later(v, pyproject) /\ Later(pyproject, w) => Later(v, w)

\* A release that was interrupted between its two files is noticed by the next
\* run, which compares them (release.py:309-312).
HalfReleaseIsNoticed ==
    pc = "ready" /\ pyproject # manifest.version
        => Compare(pyproject, manifest.version) # 0

\* A manifest written by a run that pins its image names the image of its own
\* version (release.py:275-295, 326-333).
ImageFollows == pinned => manifest.tag = manifest.version
============================================================================
