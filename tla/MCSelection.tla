---------------------------- MODULE MCSelection ----------------------------
(* Every listing of up to three releases out of seven versions, one junk,  *)
(* one a pre-release and one a build of another, each with one of two sets *)
(* of assets.  The running program may have a version that does not parse. *)
EXTENDS Selection

V(major, minor, patch, pre) ==
  [major |-> major, minor |-> minor, patch |-> patch, pre |-> pre, build |-> 0]

Rebuilt(v) == [v EXCEPT !.build = 1]

MCCurrents == {V(1, 1, 1, 0), V(1, 1, 1, 1), V(0, 3, 0, 0), Junk}

MCVersions == {V(0, 3, 1, 0), V(1, 1, 1, 0), Rebuilt(V(1, 1, 1, 0)), V(1, 1, 2, 0),
               V(1, 2, 0, 1), V(2, 0, 0, 0), Junk}

MCSets ==
  { << {"arch", "os"}, {"target", "arch", "os"}, {"arch", "os", "musl"} >>,
    << {"other", "musl"}, {"other"} >> }

MCAssets == UNION {{s[i] : i \in DOMAIN s} : s \in MCSets}

MCReleases == [version : MCVersions, assets : MCSets]

MCListings == UNION {[1..n -> MCReleases] : n \in 0..3}

MCPins == {V(0, 3, 1, 0), V(1, 1, 2, 0), V(2, 0, 0, 0)}
=============================================================================
