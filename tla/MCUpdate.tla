------------------------------ MODULE MCUpdate ------------------------------
(* A release 1.1.0 with an asset that is uploaded again with other bytes,  *)
(* a release 1.2.0 whose asset has a name that is not one path component,  *)
(* a release 2.0.0 whose asset is a plain executable, and the              *)
(* configurations the runs pick from.                                      *)
EXTENDS Update, TLC

CONSTANTS b10, b11, b11x, b20

V(major, minor) == [major |-> major, minor |-> minor, patch |-> 0, pre |-> 0, build |-> 0]

MCReleases == {V(1, 1), V(2, 0)}
MCThreeReleases == MCReleases \union {V(1, 2)}

Asset(release, binary, format, name, signed) ==
  [release |-> release, binary |-> binary, format |-> format, name |-> name, signed |-> signed]

A11  == Asset(V(1, 1), b11, "tar.gz", "asset", TRUE)
A11x == Asset(V(1, 1), b11x, "tar.gz", "asset", FALSE)
A20  == Asset(V(2, 0), b20, "plain", "asset", FALSE)
A12u == Asset(V(1, 2), b11x, "tar.gz", "unsafe", TRUE)
A20s == Asset(V(2, 0), b20, "plain", "binary", FALSE)

MCArchives == {A11, A11x, A20}
MCWithUnsafe == MCArchives \union {A12u}
MCSameName == {A20s}

MCVersionOf == [b \in {b10, b11, b11x, b20} |->
  IF b = b10 THEN V(1, 0) ELSE IF b = b20 THEN V(2, 0) ELSE V(1, 1)]

Plain ==
  [checksum |-> Nil, digest |-> TRUE, keys |-> FALSE, hook |-> FALSE, pin |-> Nil,
   strategy |-> "compatible", async |-> FALSE, probe |-> FALSE, self |-> FALSE,
   retries |-> 0, cross |-> FALSE]

CONSTANTS p, q

Alone(c) == (p :> c @@ q :> Nil)
Both(c, d) == (p :> c @@ q :> d)

(* One updater with every gate and every way to install, its requests      *)
(* retried once.                                                           *)
MCAlone ==
  { [Plain EXCEPT !.retries = 1, !.cross = TRUE, !.async = TRUE, !.strategy = "latest", !.probe = TRUE],
    [Plain EXCEPT !.retries = 1, !.cross = TRUE, !.digest = FALSE, !.keys = TRUE],
    [Plain EXCEPT !.retries = 1, !.cross = TRUE, !.checksum = A11, !.pin = V(1, 1)],
    [Plain EXCEPT !.retries = 1, !.hook = TRUE, !.self = TRUE] }

(* Two at once: the running program updates itself, the other installs to  *)
(* its path, copying across file systems or not.                           *)
MCSelf  == [Plain EXCEPT !.async = TRUE, !.self = TRUE]
MCPin   == [Plain EXCEPT !.pin = V(1, 1)]
MCCross == [Plain EXCEPT !.cross = TRUE]
MCHook  == [Plain EXCEPT !.hook = TRUE, !.digest = FALSE]

MCFleets == {Alone(c) : c \in MCAlone} \union
              {Both(MCSelf, MCPin), Both(MCSelf, MCCross), Both(MCHook, MCCross)}
MCConfigs == MCAlone \union {MCSelf, MCPin, MCCross, MCHook}

MCSigned == {A11}
MCShared == {Both(MCCross, MCCross)}
MCChecked == [Plain EXCEPT !.checksum = A20s]
MCCheckedOnly == {Alone(MCChecked)}
MCCrossOnly == {MCCross}
MCChecks == {MCChecked}
=============================================================================
