----------------------------- MODULE Versions -----------------------------
(***************************************************************************)
(* src/version.rs: how two semantic versions compare.  A version is a      *)
(* record of three numbers, a pre-release and build metadata, each 0 when  *)
(* there is none.  The pre-releases 1, 2, .. of a version are ordered, and *)
(* precede the version itself; its builds 1, 2, .. are ordered as well, as *)
(* the semver crate has it, and follow the version without metadata.  A    *)
(* string that does not parse as a version is Junk.                        *)
(***************************************************************************)
EXTENDS Naturals

CONSTANT Junk

Semver == [major : Nat, minor : Nat, patch : Nat, pre : Nat, build : Nat]

ASSUME JunkAssumption == Junk \notin Semver

(* semver's own order on versions, which is total: builds come last.       *)
Greater(a, b) ==
  \/ a.major > b.major
  \/ a.major = b.major /\ a.minor > b.minor
  \/ a.major = b.major /\ a.minor = b.minor /\ a.patch > b.patch
  \/ /\ a.major = b.major /\ a.minor = b.minor /\ a.patch = b.patch
     /\ \/ b.pre # 0 /\ (a.pre = 0 \/ a.pre > b.pre)
        \/ a.pre = b.pre /\ a.build > b.build

(* bump_is_greater(current, other).unwrap_or(false)                        *)
BumpIsGreater(current, other) ==
  other # Junk /\ current # Junk /\ Greater(other, current)

(* cmp_releases_newest_first: a comes before b.                            *)
NewerFirst(a, b) ==
  /\ a # Junk
  /\ b = Junk \/ Greater(a, b)

(* bump_is_compatible(current, other).unwrap_or(false)                     *)
BumpIsCompatible(current, other) ==
  /\ other # Junk /\ current # Junk
  /\ \/ /\ current.pre # 0
        /\ current.major = other.major
        /\ \/ other.minor > current.minor
           \/ other.minor = current.minor /\ Greater(other, current)
     \/ /\ current.pre = 0
        /\ other.pre = 0
        /\ current.major = other.major
        /\ \/ other.minor = current.minor /\ other.patch > current.patch
           \/ other.major > 0 /\ other.minor > current.minor
=============================================================================
