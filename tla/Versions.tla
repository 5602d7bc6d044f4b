------------------------------- MODULE Versions -------------------------------
(***************************************************************************)
(* The versions of the release scripts (scripts/lib/versions.js).  A       *)
(* version is a record of numbers; pre is 0 for a stable version and n for *)
(* the prerelease alpha.n, the only prerelease a channel has.  None, the   *)
(* version 0.0.0, stands for null: no channel publishes it, and it is what *)
(* the code counts from when there is no version.  A bump is its rank:     *)
(* 0 no release, 1 patch, 2 minor, 3 major.                                *)
(***************************************************************************)
EXTENDS Naturals

Version == [major: Nat, minor: Nat, patch: Nat, pre: Nat]

Base(major, minor, patch) ==
    [major |-> major, minor |-> minor, patch |-> patch, pre |-> 0]

None == Base(0, 0, 0)

Stable(version) == [version EXCEPT !.pre = 0]

Alpha(version, number) == [version EXCEPT !.pre = number]

BaseLess(a, b) ==
    \/ a.major < b.major
    \/ a.major = b.major /\ a.minor < b.minor
    \/ a.major = b.major /\ a.minor = b.minor /\ a.patch < b.patch

\* compareVersions(a, b) < 0: the stable version is after its prereleases.
Less(a, b) ==
    \/ BaseLess(a, b)
    \/ /\ ~BaseLess(b, a)
       /\ a.pre # 0
       /\ b.pre = 0 \/ a.pre < b.pre

Newest(a, b) == IF Less(a, b) THEN b ELSE a

Increment(version, bump) ==
    CASE bump = 3 -> Base(version.major + 1, 0, 0)
      [] bump = 2 -> Base(version.major, version.minor + 1, 0)
      [] OTHER    -> Base(version.major, version.minor, version.patch + 1)

(* The version after current, the newest of both channels, with a stable   *)
(* version lastStable, on a channel of prereleases or of stable versions.  *)
(* A prerelease above the last stable version is a pending base: it is     *)
(* kept as long as it is not below what the bump asks for.                 *)
NextVersion(current, lastStable, bump, prerelease) ==
    LET floor   == Increment(lastStable, bump)
        pending == current.pre # 0 /\ BaseLess(lastStable, current)
        kept    == pending /\ ~BaseLess(current, floor)
    IN  IF prerelease
        THEN CASE current = None -> Alpha(Base(1, 0, 0), 1)
               [] kept           -> Alpha(current, current.pre + 1)
               [] OTHER          -> Alpha(floor, 1)
        ELSE CASE lastStable = None /\ ~pending -> Base(1, 0, 0)
               [] kept                          -> Stable(current)
               [] OTHER                         -> floor
===============================================================================
