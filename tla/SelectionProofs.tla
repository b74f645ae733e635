-------------------------- MODULE SelectionProofs --------------------------
(***************************************************************************)
(* Theorems about Selection, for any listing, of any length, and any       *)
(* configuration.  An answer is a function of the listing and of the       *)
(* configuration, so the inductive invariant says which function; what the *)
(* properties then need are facts about the order of versions and about    *)
(* the sort, which hold for every listing by induction on its length.      *)
(***************************************************************************)
EXTENDS Selection, FiniteSets, WellFoundedInduction, TLAPS

-----------------------------------------------------------------------------
(* Induction, on sets instead of predicates.                               *)

(* A set of numbers that is not empty has a least element.                 *)
LEMMA Least ==
  ASSUME NEW S \in SUBSET Nat, S # {}
  PROVE  Min(S) \in S /\ \A n \in S : Min(S) <= n
<1>1. PICK m \in S : \A n \in S : <<n, m>> \notin OpToRel(<, Nat)
  BY NatLessThanWellFounded, WFMin
<1>2. ASSUME NEW n \in S PROVE m <= n
  <2>1. <<n, m>> \notin OpToRel(<, Nat)
    BY <1>1
  <2>2. ~(n < m)
    BY <2>1 DEF OpToRel
  <2>. QED
    BY <2>2
<1>. QED
  BY <1>2 DEF Min

LEMMA Induction ==
  ASSUME NEW S \in SUBSET Nat, 0 \in S, \A n \in S : n + 1 \in S
  PROVE  S = Nat
<1>. SUFFICES ASSUME Nat \ S # {} PROVE FALSE
  OBVIOUS
<1>. DEFINE m == Min(Nat \ S)
<1>1. m \in Nat \ S /\ \A n \in Nat \ S : m <= n
  BY Least
<1>. HIDE DEF m
<1>2. m - 1 \in Nat \ S
  BY <1>1
<1>. QED
  BY <1>1, <1>2

-----------------------------------------------------------------------------
(* The order of versions.                                                  *)

Comparable == Semver \union {Junk}

(* Greater is a strict total order on the versions that parse.             *)
THEOREM GreaterIsStrict ==
  ASSUME NEW a \in Semver, NEW b \in Semver, NEW c \in Semver
  PROVE  /\ ~Greater(a, a)
         /\ Greater(a, b) => ~Greater(b, a)
         /\ Greater(a, b) /\ Greater(b, c) => Greater(a, c)
         /\ a = b \/ Greater(a, b) \/ Greater(b, a)
<1>1. a = b \/ Greater(a, b) \/ Greater(b, a)
  BY DEF Semver, Greater
<1>. QED
  BY <1>1 DEF Semver, Greater

LEMMA NewerFirstIsStrict ==
  ASSUME NEW a \in Comparable, NEW b \in Comparable, NEW c \in Comparable
  PROVE  /\ ~NewerFirst(a, a)
         /\ NewerFirst(a, b) => ~NewerFirst(b, a)
         /\ NewerFirst(a, b) /\ NewerFirst(b, c) => NewerFirst(a, c)
         /\ a = b \/ NewerFirst(a, b) \/ NewerFirst(b, a)
BY GreaterIsStrict, JunkAssumption DEF NewerFirst, Comparable

(* What is compatible is newer, so that the two filters of                 *)
(* choose_latest_release nest (bump_is_compatible, bump_is_greater).       *)
THEOREM CompatibleIsNewer ==
  ASSUME NEW cur \in Comparable, NEW other \in Comparable, BumpIsCompatible(cur, other)
  PROVE  BumpIsGreater(cur, other)
BY DEF BumpIsCompatible, BumpIsGreater, Greater, Comparable, Semver

-----------------------------------------------------------------------------
(* The front of the sorted listing.                                        *)

Typed(at) == \A i \in at : Version(i) \in Comparable

(* Prefixes of which every part that is not empty has a front.             *)
Sortable ==
  {n \in Nat : \A at \in SUBSET (1..n) : at # {} /\ Typed(at) => Front(at) # {}}

(* A later element takes the front or leaves it.                           *)
LEMMA OneMoreFront ==
  ASSUME NEW n \in Nat, NEW at \in SUBSET (1..(n + 1)), Typed(at), n + 1 \in at,
         NEW i \in Front(at \ {n + 1})
  PROVE  Front(at) # {}
<1>. DEFINE m == n + 1
<1>0. i \in at /\ i < m /\ \A j \in at \ {m} : j < m
  BY DEF Front
<1>1. CASE NewerFirst(Version(m), Version(i))
  <2>1. ASSUME NEW j \in at \ {m} PROVE NewerFirst(Version(m), Version(j))
    BY <1>1, NewerFirstIsStrict DEF Front, Typed
  <2>2. ~NewerFirst(Version(m), Version(m))
    BY NewerFirstIsStrict DEF Typed
  <2>3. m \in Front(at)
    BY <2>1, <2>2 DEF Front
  <2>. QED
    BY <2>3
<1>2. CASE ~NewerFirst(Version(m), Version(i))
  BY <1>0, <1>2 DEF Front
<1>. QED
  BY <1>1, <1>2

LEMMA EverySortable == Sortable = Nat
<1>1. 0 \in Sortable
  <2>1. \A at \in SUBSET (1..0) : at = {}
    OBVIOUS
  <2>. QED
    BY <2>1 DEF Sortable
<1>2. ASSUME NEW n \in Sortable PROVE n + 1 \in Sortable
  <2>1. ASSUME NEW at \in SUBSET (1..(n + 1)), at # {}, Typed(at)
        PROVE  Front(at) # {}
    <3>0. n \in Nat
      BY DEF Sortable
    <3>1. at \ {n + 1} \in SUBSET (1..n) /\ Typed(at \ {n + 1})
      BY <2>1, <3>0 DEF Typed
    <3>2. CASE at = {n + 1}
      BY <2>1, <3>0, <3>2, NewerFirstIsStrict DEF Front, Typed
    <3>3. CASE n + 1 \in at /\ at # {n + 1}
      <4>1. PICK i : i \in Front(at \ {n + 1})
        BY <2>1, <3>1, <3>3 DEF Sortable
      <4>. QED
        BY <2>1, <3>0, <3>3, <4>1, OneMoreFront
    <3>4. CASE n + 1 \notin at
      <4>1. at \ {n + 1} = at
        BY <3>4
      <4>. QED
        BY <2>1, <3>1, <4>1 DEF Sortable
    <3>. QED
      BY <2>1, <3>2, <3>3, <3>4
  <2>. QED
    BY <2>1 DEF Sortable
<1>. QED
  BY <1>1, <1>2, Induction DEF Sortable

LEMMA FirstAtIs ==
  ASSUME NEW s, NEW at \in SUBSET Nat, at # {}
  PROVE  \E i \in at : FirstAt(s, at) = s[i] /\ \A j \in at : i <= j
BY Least DEF FirstAt

LEMMA ListedIsTyped ==
  ASSUME document \in Seq(Releases)
  PROVE  /\ DOMAIN document \subseteq Nat
         /\ listing \subseteq DOMAIN document
         /\ \A i \in DOMAIN document : /\ document[i] \in Releases
                                      /\ document[i] # None
                                      /\ Version(i) \in Comparable
<1>1. DOMAIN document \subseteq Nat
  OBVIOUS
<1>2. listing \subseteq DOMAIN document
  BY DEF listing, ParseManifest
<1>3. \A i \in DOMAIN document : document[i] \in Releases
  OBVIOUS
<1>4. \A r \in Releases : r.version \in Comparable
  BY DEF Releases, Comparable
<1>. QED
  BY <1>1, <1>2, <1>3, <1>4, ListingsAssumption DEF Version

(* The first of the newest releases at these places is the one chosen.     *)
LEMMA FirstNewestIs ==
  ASSUME document \in Seq(Releases), NEW at \in SUBSET DOMAIN document, at # {}
  PROVE  \E i \in at :
            /\ FirstNewest(at) = document[i]
            /\ \A j \in at : /\ Version(i) = Version(j) \/ NewerFirst(Version(i), Version(j))
                             /\ j < i => Version(i) # Version(j)
<1>1. Len(document) \in Nat /\ DOMAIN document = 1..Len(document)
  OBVIOUS
<1>2. \A i \in DOMAIN document : Version(i) \in Comparable
  BY ListedIsTyped
<1>3. Front(at) \in SUBSET Nat /\ Front(at) # {}
  <2>1. Len(document) \in Sortable /\ at \in SUBSET (1..Len(document)) /\ Typed(at)
    BY <1>1, <1>2, EverySortable DEF Typed
  <2>. QED
    BY <2>1 DEF Sortable, Front
<1>4. PICK i \in Front(at) : FirstNewest(at) = document[i]
  BY <1>3, FirstAtIs DEF FirstNewest
<1>5. ASSUME NEW j \in at
      PROVE  /\ Version(i) = Version(j) \/ NewerFirst(Version(i), Version(j))
             /\ j < i => Version(i) # Version(j)
  <2>1. Version(i) \in Comparable /\ Version(j) \in Comparable /\ i \in Nat /\ j \in Nat
    BY <1>1, <1>2 DEF Front
  <2>2. NewerFirst(Version(i), Version(j)) \/ (i <= j /\ ~NewerFirst(Version(j), Version(i)))
    BY DEF Front
  <2>3. ~NewerFirst(Version(i), Version(i))
    BY <2>1, NewerFirstIsStrict
  <2>. QED
    BY <2>1, <2>2, <2>3, NewerFirstIsStrict
<1>. QED
  BY <1>4, <1>5 DEF Front

(* A version that precedes all others of a set is its newest.              *)
LEMMA NewestIs ==
  ASSUME NEW S \in SUBSET Semver, NEW v \in S, \A w \in S : w = v \/ Greater(v, w)
  PROVE  Newest(S) = v
<1>1. \A u \in S : (\A w \in S : w = u \/ Greater(u, w)) => u = v
  BY GreaterIsStrict
<1>. QED
  BY <1>1 DEF Newest

-----------------------------------------------------------------------------
(* Answers.                                                                *)

AssetOf(release) == IF release = None THEN None ELSE AssetFor(release.assets, identifier)

Chosen == ChooseLatestRelease(current, listing, strategy)

Pinned(v) == ReleaseForVersion(listing, v)

UpdateAnswer == Asked("update", Chosen, AssetOf(Chosen))

PinnedAnswer(v) == Asked("pinned", Pinned(v), AssetOf(Pinned(v)))

ScanAnswer == Asked(ReleasesIsUpdateAvailable(current, listing), None, None)

TypeOK ==
  /\ document \in Seq(Releases)
  /\ current \in Comparable
  /\ strategy \in Strategies

AnswerOK ==
  answer \in {Asked("none", None, None), UpdateAnswer, ScanAnswer,
              Asked("available", IsUpdateAvailable(current, listing), None),
              Asked("latest", NewestRelease(listing), None)}
             \union {PinnedAnswer(v) : v \in Pins}

IInv == TypeOK /\ AnswerOK

(* What update takes.                                                      *)
LEMMA UpdateTakes ==
  ASSUME TypeOK
  PROVE  IF Chosen = None THEN NewerVersions = {}
         ELSE /\ NewerVersions # {}
              /\ Chosen.version \in NewerVersions
              /\ Chosen.version =
                   IF strategy = "compatible" /\ CompatibleVersions # {}
                     THEN Newest(CompatibleVersions) ELSE Newest(NewerVersions)
              /\ Earliest(Chosen)
<1>. DEFINE newer      == GetNewerReleases(current, listing)
            compatible == {i \in newer : BumpIsCompatible(current, Version(i))}
<1>0. document \in Seq(Releases)
  BY DEF TypeOK
<1>1. newer \subseteq listing /\ compatible \subseteq newer
  BY DEF GetNewerReleases
<1>2. /\ NewerVersions = {Version(i) : i \in newer}
      /\ CompatibleVersions = {Version(i) : i \in compatible}
  BY DEF NewerVersions, CompatibleVersions, Versions, GetNewerReleases
<1>3. \A i \in newer : Version(i) \in Semver
  BY <1>0, <1>1, ListedIsTyped DEF GetNewerReleases, BumpIsGreater, Comparable
<1>. HIDE DEF newer
<1>. DEFINE Best(at) ==
       \E i \in at : /\ FirstNewest(at) = document[i]
                     /\ \A j \in at : Version(i) = Version(j) \/ Greater(Version(i), Version(j))
                     /\ \A j \in listing : j < i => Version(j) # Version(i)
<1>4. ASSUME NEW at \in {newer, compatible}, at # {}
      PROVE  Best(at)
  <2>1. at \in SUBSET DOMAIN document
    BY <1>0, <1>1, ListedIsTyped
  <2>2. PICK i \in at :
            /\ FirstNewest(at) = document[i]
            /\ \A j \in at : /\ Version(i) = Version(j) \/ NewerFirst(Version(i), Version(j))
                             /\ j < i => Version(i) # Version(j)
    BY <1>0, <1>4, <2>1, FirstNewestIs
  <2>3. ASSUME NEW j \in listing, j < i PROVE Version(j) # Version(i)
    BY <1>1, <2>2, <2>3 DEF newer, GetNewerReleases
  <2>4. ASSUME NEW j \in at PROVE Version(i) = Version(j) \/ Greater(Version(i), Version(j))
    BY <1>1, <1>3, <2>2, JunkAssumption DEF NewerFirst
  <2>. QED
    BY <2>2, <2>3, <2>4
<1>5. ASSUME NEW at \in {newer, compatible}, at # {}
      PROVE  /\ FirstNewest(at) # None
             /\ FirstNewest(at).version \in {Version(i) : i \in at}
             /\ FirstNewest(at).version = Newest({Version(i) : i \in at})
             /\ Earliest(FirstNewest(at))
  <2>1. PICK i \in at :
            /\ FirstNewest(at) = document[i]
            /\ \A j \in at : Version(i) = Version(j) \/ Greater(Version(i), Version(j))
            /\ \A j \in listing : j < i => Version(j) # Version(i)
    BY <1>4, <1>5
  <2>2. i \in listing /\ document[i] # None
    BY <1>0, <1>1, ListedIsTyped
  <2>3. Newest({Version(k) : k \in at}) = Version(i)
    BY <1>1, <1>3, <2>1, NewestIs
  <2>. QED
    BY <2>1, <2>2, <2>3 DEF Version, Earliest
<1>6. Chosen = IF strategy = "compatible" /\ compatible # {} THEN FirstNewest(compatible)
                ELSE FirstNewest(newer)
  BY DEF Chosen, ChooseLatestRelease, newer
<1>. HIDE DEF compatible
<1>7. CASE strategy = "compatible" /\ compatible # {}
  <2>1. CompatibleVersions # {} /\ NewerVersions # {}
    BY <1>1, <1>2, <1>7
  <2>2. CompatibleVersions \subseteq NewerVersions
    BY DEF CompatibleVersions
  <2>. QED
    BY <1>2, <1>5, <1>6, <1>7, <2>1, <2>2
<1>8. CASE ~(strategy = "compatible" /\ compatible # {}) /\ newer # {}
  <2>1. NewerVersions # {} /\ ~(strategy = "compatible" /\ CompatibleVersions # {})
    BY <1>2, <1>8
  <2>. QED
    BY <1>2, <1>5, <1>6, <1>8, <2>1
<1>9. CASE newer = {}
  <2>1. FirstNewest({}) = None
    BY DEF FirstNewest, Front, FirstAt
  <2>. QED
    BY <1>1, <1>2, <1>6, <1>9, <2>1
<1>. QED
  BY <1>1, <1>7, <1>8, <1>9

(* The first release of a version, or none.                                *)
LEMMA PinnedIs ==
  ASSUME TypeOK, NEW v
  PROVE  Pinned(v) = None \/ (Pinned(v).version = v /\ Earliest(Pinned(v)))
<1>. DEFINE at == {i \in listing : Version(i) = v}
<1>1. CASE at = {}
  BY <1>1 DEF Pinned, ReleaseForVersion, FirstAt
<1>2. CASE at # {}
  <2>1. at \in SUBSET Nat /\ listing \subseteq Nat
    BY ListedIsTyped DEF TypeOK
  <2>2. PICK i \in at : FirstAt(document, at) = document[i] /\ \A j \in at : i <= j
    BY <1>2, <2>1, FirstAtIs
  <2>3. ASSUME NEW j \in listing, j < i PROVE Version(j) # Version(i)
    BY <2>1, <2>2, <2>3
  <2>. QED
    BY <2>2, <2>3 DEF Pinned, ReleaseForVersion, Earliest, Version
<1>. QED
  BY <1>1, <1>2

(* asset_for                                                               *)
Fits(a, ident) == ident = NoIdentifier \/ ident \in a

LEMMA AssetForIs ==
  ASSUME NEW assets \in Seq(Assets), NEW ident
  PROVE  LET all  == {a \in {assets[i] : i \in DOMAIN assets} : Fits(a, ident)}
             ours == {a \in all : "target" \in a \/ {"arch", "os"} \subseteq a}
         IN /\ AssetFor(assets, ident) # None => AssetFor(assets, ident) \in all
            /\ ours # {} => AssetFor(assets, ident) \in ours
            /\ (\E a \in ours : "target" \in a) => "target" \in AssetFor(assets, ident)
            /\ ours = {} /\ ident = NoIdentifier => AssetFor(assets, ident) = None
<1>. DEFINE fitting  == {i \in DOMAIN assets : Fits(assets[i], ident)}
            byTarget == {i \in fitting : "target" \in assets[i]}
            byArchOs == {i \in fitting : {"arch", "os"} \subseteq assets[i]}
            asset    == AssetFor(assets, ident)
<1>1. asset = IF byTarget # {} THEN FirstAt(assets, byTarget)
              ELSE IF byArchOs # {} THEN FirstAt(assets, byArchOs)
              ELSE IF ident # NoIdentifier THEN FirstAt(assets, fitting)
              ELSE None
  BY DEF AssetFor, Fits
<1>2. fitting \in SUBSET Nat /\ byTarget \subseteq fitting /\ byArchOs \subseteq fitting
  OBVIOUS
<1>3. ASSUME NEW at \in SUBSET fitting, at # {}
      PROVE  FirstAt(assets, at) \in {assets[i] : i \in at}
  BY <1>2, <1>3, FirstAtIs
<1>. DEFINE all  == {a \in {assets[i] : i \in DOMAIN assets} : Fits(a, ident)}
            ours == {a \in all : "target" \in a \/ {"arch", "os"} \subseteq a}
<1>4. /\ all = {assets[i] : i \in fitting}
      /\ ours = {assets[i] : i \in byTarget} \union {assets[i] : i \in byArchOs}
      /\ (\E a \in ours : "target" \in a) => byTarget # {}
  OBVIOUS
<1>5. \A i \in byTarget : "target" \in assets[i]
  OBVIOUS
<1>6. FirstAt(assets, {}) = None
  BY DEF FirstAt
<1>. HIDE DEF asset, all, ours, byTarget, byArchOs, fitting
<1>7. /\ asset # None => asset \in all
      /\ ours # {} => asset \in ours
      /\ (\E a \in ours : "target" \in a) => "target" \in asset
      /\ ours = {} /\ ident = NoIdentifier => asset = None
  <2>1. CASE byTarget # {}
    <3>1. asset \in {assets[i] : i \in byTarget}
      BY <1>1, <1>2, <1>3, <2>1
    <3>. QED
      BY <1>2, <1>4, <1>5, <3>1
  <2>2. CASE byTarget = {} /\ byArchOs # {}
    <3>1. asset \in {assets[i] : i \in byArchOs}
      BY <1>1, <1>2, <1>3, <2>2
    <3>. QED
      BY <1>2, <1>4, <2>2, <3>1
  <2>3. CASE byTarget = {} /\ byArchOs = {}
    <3>1. ours = {}
      BY <1>4, <2>3
    <3>2. asset = None \/ asset \in all
      BY <1>1, <1>3, <1>4, <1>6, <2>3
    <3>3. ident = NoIdentifier => asset = None
      BY <1>1, <2>3
    <3>. QED
      BY <3>1, <3>2, <3>3
  <2>. QED
    BY <2>1, <2>2, <2>3
<1>. QED
  BY <1>7 DEF asset, all, ours

-----------------------------------------------------------------------------
(* The invariant.                                                          *)

LEMMA ListingMoves ==
  ASSUME UNCHANGED <<document, source>>
  PROVE  listing' = listing
BY DEF listing, ParseManifest, Version

LEMMA AnswerMoves ==
  ASSUME UNCHANGED <<document, source, current, strategy, identifier>>
  PROVE  /\ UpdateAnswer' = UpdateAnswer /\ ScanAnswer' = ScanAnswer
         /\ IsUpdateAvailable(current, listing)' = IsUpdateAvailable(current, listing)
         /\ NewestRelease(listing)' = NewestRelease(listing)
         /\ \A v : PinnedAnswer(v)' = PinnedAnswer(v)
<1>1. listing' = listing
  BY ListingMoves
<1>2. \A i : Version(i)' = Version(i)
  BY DEF Version
<1>3. Chosen' = Chosen
  BY <1>1, <1>2 DEF Chosen, ChooseLatestRelease, GetNewerReleases, FirstNewest, Front, FirstAt
<1>4. \A v : Pinned(v)' = Pinned(v)
  BY <1>1, <1>2 DEF Pinned, ReleaseForVersion, FirstAt
<1>5. UpdateAnswer' = UpdateAnswer
  BY <1>3 DEF UpdateAnswer, AssetOf, Asked, AssetFor, FirstAt
<1>6. \A v : PinnedAnswer(v)' = PinnedAnswer(v)
  BY <1>4 DEF PinnedAnswer, AssetOf, Asked, AssetFor, FirstAt
<1>7. IsUpdateAvailable(current, listing)' = IsUpdateAvailable(current, listing)
  BY <1>1, <1>2 DEF IsUpdateAvailable, GetNewerReleases, FirstAt
<1>8. NewestRelease(listing)' = NewestRelease(listing)
  BY <1>1, <1>2 DEF NewestRelease, FirstNewest, Front, FirstAt
<1>9. ScanAnswer' = ScanAnswer
  BY <1>1, <1>2 DEF ScanAnswer, ReleasesIsUpdateAvailable, Asked
<1>. QED
  BY <1>5, <1>6, <1>7, <1>8, <1>9

LEMMA InitIInv == Init => IInv
<1>. SUFFICES ASSUME Init PROVE IInv
  OBVIOUS
<1>1. TypeOK
  BY ListingsAssumption, CurrentsAssumption DEF Init, TypeOK, Comparable
<1>2. AnswerOK
  BY DEF Init, AnswerOK
<1>. QED
  BY <1>1, <1>2 DEF IInv

(* What the program can become is a version.                               *)
LEMMA BecomesVersion ==
  ASSUME IInv, Become
  PROVE  current' \in Comparable
<1>1. /\ answer.release # None /\ answer.release.version # Junk
      /\ answer.question \in {"update", "pinned"}
      /\ current' = answer.release.version
  BY DEF Become
<1>2. answer \in {UpdateAnswer} \union {PinnedAnswer(v) : v \in Pins}
  BY <1>1 DEF IInv, AnswerOK, Asked, ScanAnswer, ReleasesIsUpdateAvailable
<1>3. Earliest(answer.release)
  BY <1>1, <1>2, UpdateTakes, PinnedIs DEF IInv, UpdateAnswer, PinnedAnswer, Asked
<1>4. answer.release.version \in Comparable
  BY <1>3, ListedIsTyped DEF Earliest, IInv, TypeOK, Version
<1>. QED
  BY <1>1, <1>4

LEMMA NextIInv == IInv /\ [Next]_vars => IInv'
<1>. SUFFICES ASSUME IInv, [Next]_vars PROVE IInv'
  OBVIOUS
<1>. DEFINE Rest == UNCHANGED <<document, source, current, strategy, identifier>>
<1>0. Rest => TypeOK'
  BY DEF IInv, TypeOK
<1>1. CASE Update /\ Rest
  BY <1>0, <1>1, AnswerMoves DEF Update, IInv, AnswerOK, UpdateAnswer, AssetOf, Chosen
<1>2. CASE Available /\ Rest
  BY <1>0, <1>2, AnswerMoves DEF Available, IInv, AnswerOK
<1>3. CASE Scan /\ Rest
  BY <1>0, <1>3, AnswerMoves DEF Scan, IInv, AnswerOK, ScanAnswer
<1>4. CASE Latest /\ Rest
  BY <1>0, <1>4, AnswerMoves DEF Latest, IInv, AnswerOK
<1>5. ASSUME NEW v \in Pins, UpdateTo(v), Rest PROVE IInv'
  <2>1. answer' = PinnedAnswer(v)'
    BY <1>5, AnswerMoves DEF UpdateTo, PinnedAnswer, AssetOf, Pinned
  <2>. QED
    BY <1>0, <1>5, <2>1 DEF IInv, AnswerOK
<1>6. CASE Become
  <2>1. TypeOK'
    BY <1>6, BecomesVersion DEF IInv, TypeOK, Become
  <2>2. AnswerOK'
    BY <1>6 DEF Become, AnswerOK
  <2>. QED
    BY <2>1, <2>2 DEF IInv
<1>7. CASE UNCHANGED vars
  <2>1. Rest /\ answer' = answer
    BY <1>7 DEF vars
  <2>. QED
    BY <1>0, <2>1, AnswerMoves DEF IInv, AnswerOK
<1>. QED
  BY <1>1, <1>2, <1>3, <1>4, <1>5, <1>6, <1>7 DEF Next

LEMMA SpecIInv == Spec => []IInv
BY InitIInv, NextIInv, PTL DEF Spec

-----------------------------------------------------------------------------
(* The properties.                                                         *)

(* What the questions of an answer say of it.                              *)
LEMMA AnswerIs ==
  ASSUME IInv
  PROVE  /\ answer.question = "update" => answer.release = Chosen
         /\ answer.question = "pinned" => \E v \in Pins : answer.release = Pinned(v)
         /\ answer.question \in {"update", "pinned"} => answer.asset = AssetOf(answer.release)
         /\ answer.question = "available" =>
              answer.release = IsUpdateAvailable(current, listing)
         /\ answer.question = "latest" => answer.release = NewestRelease(listing)
         /\ answer.question \in {"true", "false", "error"} =>
              answer.question = ReleasesIsUpdateAvailable(current, listing)
<1>1. ReleasesIsUpdateAvailable(current, listing) \in {"true", "false", "error"}
  BY DEF ReleasesIsUpdateAvailable
<1>. HIDE DEF ReleasesIsUpdateAvailable
<1>2. CASE answer \in {Asked("none", None, None), UpdateAnswer, ScanAnswer,
                       Asked("available", IsUpdateAvailable(current, listing), None),
                       Asked("latest", NewestRelease(listing), None)}
  BY <1>1, <1>2 DEF UpdateAnswer, ScanAnswer, Asked
<1>3. ASSUME NEW v \in Pins, answer = PinnedAnswer(v)
      PROVE  /\ answer.question = "pinned"
             /\ answer.release = Pinned(v)
             /\ answer.asset = AssetOf(answer.release)
  BY <1>3 DEF PinnedAnswer, Asked
<1>. QED
  BY <1>2, <1>3 DEF IInv, AnswerOK

(* update installs the newest compatible version, or the newest when none  *)
(* is compatible or the strategy is Latest, whatever the order of the      *)
(* listing and whatever junk it has (choose_latest_release).               *)
THEOREM UpdateChoosesNewest == Spec => []ChosenIsNewest
<1>1. IInv => ChosenIsNewest
  BY AnswerIs, UpdateTakes DEF IInv, ChosenIsNewest
<1>. QED
  BY <1>1, SpecIInv, PTL

(* The asset is one for the target if there is one, for its arch and os    *)
(* otherwise, and another only by its identifier (Release::asset_for).     *)
THEOREM AssetFitsThePlatform == Spec => []AssetForThisPlatform
<1>1. ASSUME IInv, answer.question \in {"update", "pinned"}, answer.release # None
      PROVE  AssetForThisPlatform
  <2>1. Earliest(answer.release)
    BY <1>1, AnswerIs, UpdateTakes, PinnedIs DEF IInv
  <2>2. answer.release.assets \in Seq(Assets)
    BY <1>1, <2>1, ListedIsTyped DEF Earliest, Releases, IInv, TypeOK
  <2>3. answer.asset = AssetFor(answer.release.assets, identifier)
    BY <1>1, AnswerIs DEF AssetOf
  <2>. QED
    BY <2>2, <2>3, AssetForIs DEF AssetForThisPlatform, Fits
<1>2. IInv => AssetForThisPlatform
  BY <1>1 DEF AssetForThisPlatform
<1>. QED
  BY <1>2, SpecIInv, PTL

(* The program that updates itself again and again never goes back, unless *)
(* it is told the version (update_extended).                               *)
THEOREM NeverBackward == Spec => OnlyForward
<1>1. ASSUME IInv, [Next]_vars, current' # current
      PROVE  answer.question = "pinned" \/ (current # Junk /\ Greater(current', current))
  <2>1. Become
    BY <1>1 DEF Next, vars
  <2>2. CASE answer.question = "update"
    <3>1. answer.release.version \in NewerVersions
      BY <1>1, <2>1, <2>2, AnswerIs, UpdateTakes DEF IInv, Become
    <3>. QED
      BY <2>1, <3>1 DEF Become, NewerVersions, BumpIsGreater
  <2>. QED
    BY <2>1, <2>2 DEF Become
<1>2. IInv /\ [Next]_vars =>
        [current' # current =>
           answer.question = "pinned" \/ (current # Junk /\ Greater(current', current))]_vars
  BY <1>1
<1>. QED
  BY <1>2, SpecIInv, PTL DEF Spec, OnlyForward

LEMMA AvailableAgrees ==
  ASSUME TypeOK
  PROVE  IsUpdateAvailable(current, listing) # None <=> NewerVersions # {}
<1>. DEFINE newer == GetNewerReleases(current, listing)
<1>1. newer \subseteq listing /\ NewerVersions = {Version(i) : i \in newer}
  BY DEF NewerVersions, Versions, GetNewerReleases
<1>2. newer \in SUBSET Nat /\ \A i \in newer : document[i] # None
  BY <1>1, ListedIsTyped DEF TypeOK
<1>. HIDE DEF newer
<1>3. newer # {} => FirstAt(document, newer) # None
  BY <1>2, FirstAtIs
<1>. QED
  BY <1>1, <1>3 DEF IsUpdateAvailable, newer, FirstAt

LEMMA ScanAgrees ==
  ASSUME TypeOK, NEW scan, scan = ReleasesIsUpdateAvailable(current, listing)
  PROVE  /\ scan = "true" => NewerVersions # {}
         /\ scan = "false" =>
              NewerVersions = {} /\ Junk \notin Versions /\ (current = Junk => listing = {})
         /\ scan = "error" =>
              \E i \in listing : /\ Junk \in {current, Version(i)}
                                 /\ \A j \in listing : j < i => Version(j) \notin NewerVersions
<1>. DEFINE stops == {i \in listing : \/ Junk \in {current, Version(i)}
                                  \/ BumpIsGreater(current, Version(i))}
<1>1. scan = IF stops = {} THEN "false"
             ELSE IF Junk \in {current, Version(Min(stops))} THEN "error" ELSE "true"
  BY DEF ReleasesIsUpdateAvailable
<1>2. stops \in SUBSET Nat /\ listing \subseteq Nat
  BY ListedIsTyped DEF TypeOK
<1>3. CASE stops = {}
  BY <1>1, <1>3 DEF NewerVersions, Versions
<1>4. CASE stops # {}
  <2>1. Min(stops) \in stops /\ \A j \in stops : Min(stops) <= j
    BY <1>2, <1>4, Least
  <2>2. ASSUME NEW j \in listing, j < Min(stops) PROVE Version(j) \notin NewerVersions
    <3>. DEFINE first == Min(stops)
    <3>0. first \in Nat /\ j \in Nat /\ j < first /\ \A k \in stops : first <= k
      BY <1>2, <2>1, <2>2
    <3>. HIDE DEF first
    <3>1. j \notin stops
      BY <3>0
    <3>. QED
      BY <3>1 DEF NewerVersions
  <2>. QED
    BY <1>1, <1>4, <2>1, <2>2 DEF NewerVersions, Versions
<1>. QED
  BY <1>3, <1>4

LEMMA LatestAgrees ==
  ASSUME TypeOK
  PROVE  LET parsed == Versions \ {Junk}
             latest == NewestRelease(listing)
         IN IF listing = {} THEN latest = None
            ELSE /\ latest # None
                 /\ latest.version = IF parsed = {} THEN Junk ELSE Newest(parsed)
                 /\ Earliest(latest)
<1>. DEFINE parsed == Versions \ {Junk}
            latest == NewestRelease(listing)
<1>1. CASE listing = {}
  BY <1>1 DEF NewestRelease, FirstNewest, Front, FirstAt
<1>2. CASE listing # {}
  <2>0. document \in Seq(Releases) /\ listing \in SUBSET DOMAIN document
    BY ListedIsTyped DEF TypeOK
  <2>1. PICK i \in listing :
            /\ latest = document[i]
            /\ \A j \in listing :
                 /\ Version(i) = Version(j) \/ NewerFirst(Version(i), Version(j))
                 /\ j < i => Version(i) # Version(j)
    BY <1>2, <2>0, FirstNewestIs DEF NewestRelease
  <2>2. latest # None /\ latest.version = Version(i) /\ Earliest(latest)
    BY <2>0, <2>1, ListedIsTyped DEF Earliest, Version
  <2>3. CASE Version(i) = Junk
    BY <2>1, <2>2, <2>3 DEF Versions, NewerFirst
  <2>4. CASE Version(i) # Junk
    <3>1. parsed \in SUBSET Semver /\ Version(i) \in parsed
      BY <2>0, <2>4, ListedIsTyped DEF Versions, Comparable
    <3>2. \A v \in parsed : v = Version(i) \/ Greater(Version(i), v)
      BY <2>1 DEF Versions, NewerFirst
    <3>3. Newest(parsed) = Version(i)
      BY <3>1, <3>2, NewestIs
    <3>. QED
      BY <1>2, <2>2, <3>1, <3>3
  <2>. QED
    BY <2>3, <2>4
<1>. QED
  BY <1>1, <1>2

(* The ways to ask whether there is something newer, and which release is  *)
(* the newest or the one of a version, agree (is_update_available of an    *)
(* updater and of a listing, newest_release, release_for_version).         *)
THEOREM QuestionsAgree == Spec => []CallsAgree
<1>1. ASSUME IInv PROVE CallsAgree
  <2>0. TypeOK
    BY <1>1 DEF IInv
  <2>1. answer.question = "available" => (answer.release # None <=> NewerVersions # {})
    BY <1>1, <2>0, AnswerIs, AvailableAgrees
  <2>2. /\ answer.question = "true" => NewerVersions # {}
        /\ answer.question = "false" =>
             NewerVersions = {} /\ Junk \notin Versions /\ (current = Junk => listing = {})
        /\ answer.question = "error" =>
             \E i \in listing : /\ Junk \in {current, Version(i)}
                                /\ \A j \in listing : j < i => Version(j) \notin NewerVersions
    BY <1>1, <2>0, AnswerIs, ScanAgrees
  <2>3. answer.question = "latest" => answer.release = NewestRelease(listing)
    BY <1>1, AnswerIs
  <2>4. answer.question = "pinned" /\ answer.release # None => Earliest(answer.release)
    BY <1>1, <2>0, AnswerIs, PinnedIs
  <2>. QED
    BY <2>0, <2>1, <2>2, <2>3, <2>4, LatestAgrees DEF CallsAgree
<1>. QED
  BY <1>1, SpecIInv, PTL
=============================================================================
