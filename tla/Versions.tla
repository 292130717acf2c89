------------------------------ MODULE Versions ------------------------------
(***************************************************************************)
(* Plugin versions and the constraints of kastor.required_plugins          *)
(* (internal/plugin/discovery.go), and the release that an install selects *)
(* (resolveRelease in internal/plugin/install.go).                         *)
(*                                                                         *)
(* A version is <<major, minor, patch, pre>>: pre is Released for a        *)
(* release, and n for its nth prerelease. A constraint has an operator, a  *)
(* version, and parts, the number of components it was written with.       *)
(***************************************************************************)
EXTENDS Naturals, Sequences, SequencesExt, FiniteSets

CONSTANT None

Released == 9       \* a bound: more prereleases than any release has

(* semver.Compare: by the first component that differs; a prerelease comes  *)
(* before its release.                                                      *)
Precedes(v, w) ==
    \E i \in DOMAIN v :
        /\ v[i] < w[i]
        /\ \A j \in 1 .. (i - 1) : v[j] = w[j]

WithoutPrerelease(v) == [v EXCEPT ![4] = Released]

Maximum(constraint) ==
    LET base == constraint.version IN
    IF constraint.parts <= 2 THEN <<base[1] + 1, 0, 0, Released>>
    ELSE <<base[1], base[2] + 1, 0, Released>>

(* Mutant: prereleases are ordered, like in any other comparison. *)
MatchesWithPrerelease(version, constraint) ==
    IF constraint.op = "~>"
    THEN ~ Precedes(version, constraint.version) /\ Precedes(version, Maximum(constraint))
    ELSE version = constraint.version

(* A range looks at the release that a prerelease is of. *)
VersionMatches(version, constraint) ==
    LET v == WithoutPrerelease(version) IN
    IF constraint.op = "~>"
    THEN ~ Precedes(v, constraint.version) /\ Precedes(v, Maximum(constraint))
    ELSE version = constraint.version

Candidate(release, constraint) ==
    /\ ~ release.draft /\ ~ release.prerelease
    /\ VersionMatches(release.version, constraint)

(* A later release of the list replaces the selected one if it is higher. *)
Higher(selected, release) == Precedes(selected.version, release.version)

SelectRelease(releases, constraint) ==
    LET consider(selected, release) ==
            IF /\ Candidate(release, constraint)
               /\ selected = None \/ Higher(selected, release)
            THEN release ELSE selected
    IN  FoldLeft(consider, None, releases)
=============================================================================
