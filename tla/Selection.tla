----------------------------- MODULE Selection -----------------------------
(***************************************************************************)
(* Which release, and which of its assets, an updater settles on: the      *)
(* selection half of src/update.rs and the is_update_available verbs of    *)
(* src/macros.rs.  All of it is computation over a listing that has been   *)
(* fetched, so the state is one listing, the configuration it is asked     *)
(* with, and the answers.                                                  *)
(*                                                                         *)
(* A release is [version, assets]; an asset is the set of the tokens that  *)
(* its file name contains.                                                 *)
(***************************************************************************)
EXTENDS Versions, Sequences, FiniteSetsExt

CONSTANTS
  Assets,       \* the assets a release may have
  Listings,     \* sequences of releases a source may return
  Currents,     \* current versions: any string may be set as one
  Pins,         \* versions that an update may be pinned to
  Identifiers,  \* asset_identifier: NoIdentifier or a token
  NoIdentifier,
  None          \* Option::None

Releases == [version : Semver \union {Junk}, assets : Seq(Assets)]

ASSUME ListingsAssumption ==
  /\ Listings \subseteq Seq(Releases)
  /\ None \notin Releases /\ None \notin Assets
ASSUME CurrentsAssumption == Currents \subseteq Semver \union {Junk}

VARIABLES
  document,    \* what the source has
  source,      \* "custom", a user's source, or "manifest"
  current, strategy, identifier,
  answer

vars == <<document, source, current, strategy, identifier, answer>>

Strategies == {"compatible", "latest"}

Version(i) == document[i].version

(* The first element of s that is at one of these places.                  *)
FirstAt(s, at) == IF at = {} THEN None ELSE s[Min(at)]

(* The place that a stable sort, newest first, puts in front.              *)
Front(at) ==
  {i \in at : \A j \in at : \/ NewerFirst(Version(i), Version(j))
                            \/ i <= j /\ ~NewerFirst(Version(j), Version(i))}

FirstNewest(at) == FirstAt(document, Front(at))

(* Mutant of GetNewerReleases: everything that parses.                     *)
GetParsedReleases(cur, at) == {i \in at : Version(i) # Junk}

(* get_newer_releases: the forge listings drop what is not strictly newer  *)
(* than the current version, and keep the order of the listing.            *)
GetNewerReleases(cur, at) == {i \in at : BumpIsGreater(cur, Version(i))}

(* Mutant of ChooseLatestRelease: the order of the source is trusted.      *)
ChooseFirstRelease(cur, at, strat) == FirstAt(document, GetNewerReleases(cur, at))

(* choose_latest_release                                                   *)
ChooseLatestRelease(cur, at, strat) ==
  LET newer      == GetNewerReleases(cur, at)
      compatible == {i \in newer : BumpIsCompatible(cur, Version(i))}
  IN IF strat = "compatible" /\ compatible # {} THEN FirstNewest(compatible)
     ELSE FirstNewest(newer)

(* Update::is_update_available                                             *)
IsUpdateAvailable(cur, at) == FirstAt(document, GetNewerReleases(cur, at))

(* Mutant of ReleasesIsUpdateAvailable: only the front is looked at.       *)
FrontIsUpdateAvailable(cur, at) ==
  IF at # {} /\ BumpIsGreater(cur, Version(Min(at))) THEN "true" ELSE "false"

(* Releases::is_update_available: the scan stops at the first release that *)
(* is newer, or that cannot be compared.                                   *)
ReleasesIsUpdateAvailable(cur, at) ==
  LET stops == {i \in at : Junk \in {cur, Version(i)} \/ BumpIsGreater(cur, Version(i))}
  IN IF stops = {} THEN "false"
     ELSE IF Junk \in {cur, Version(Min(stops))} THEN "error" ELSE "true"

(* newest_release, the default of ReleaseSource::get_latest_release.       *)
NewestRelease(at) == FirstNewest(at)

(* release_for_version, the default of ReleaseSource::get_release_version. *)
ReleaseForVersion(at, v) == FirstAt(document, {i \in at : Version(i) = v})

(* Mutant of AssetFor: any asset of this arch and os will do.              *)
AssetForAny(assets, ident) ==
  FirstAt(assets, {i \in DOMAIN assets : {"arch", "os"} \subseteq assets[i]})

(* Release::asset_for: by the whole target, by its arch and os, by the     *)
(* identifier alone.                                                       *)
AssetFor(assets, ident) ==
  LET fitting  == {i \in DOMAIN assets : ident = NoIdentifier \/ ident \in assets[i]}
      byTarget == {i \in fitting : "target" \in assets[i]}
      byArchOs == {i \in fitting : {"arch", "os"} \subseteq assets[i]}
  IN IF byTarget # {} THEN FirstAt(assets, byTarget)
     ELSE IF byArchOs # {} THEN FirstAt(assets, byArchOs)
     ELSE IF ident # NoIdentifier THEN FirstAt(assets, fitting)
     ELSE None

-----------------------------------------------------------------------------
Asked(question, release, asset) ==
  [question |-> question, release |-> release, asset |-> asset]

(* parse_manifest: a release whose version is no semver is left out.       *)
ParseManifest == {i \in DOMAIN document : Version(i) # Junk}

(* What get_releases gives the updater, as places in the document.         *)
listing == IF source = "manifest" THEN ParseManifest ELSE DOMAIN document

Init ==
  /\ document \in Listings
  /\ source \in {"custom", "manifest"}
  /\ current \in Currents
  /\ strategy \in Strategies
  /\ identifier \in Identifiers
  /\ answer = Asked("none", None, None)

(* update_extended up to the asset it is going to download.                *)
Update ==
  LET release == ChooseLatestRelease(current, listing, strategy)
  IN answer' = Asked("update", release,
                 IF release = None THEN None ELSE AssetFor(release.assets, identifier))

(* The same with a release_tag: the release of that version, older or not. *)
UpdateTo(v) ==
  LET release == ReleaseForVersion(listing, v)
  IN answer' = Asked("pinned", release,
                 IF release = None THEN None ELSE AssetFor(release.assets, identifier))

(* The updater's is_update_available.                                      *)
Available == answer' = Asked("available", IsUpdateAvailable(current, listing), None)

(* is_update_available on a bare listing.                                  *)
Scan == answer' = Asked(ReleasesIsUpdateAvailable(current, listing), None, None)

(* A custom source's get_latest_release.                                   *)
Latest == answer' = Asked("latest", NewestRelease(listing), None)

(* The program updates itself to what was chosen: the listing stays, the   *)
(* new process has the new version.                                        *)
Become ==
  /\ answer.question \in {"update", "pinned"} /\ answer.release # None
  /\ answer.release.version # Junk
  /\ current' = answer.release.version
  /\ answer' = Asked("none", None, None)
  /\ UNCHANGED <<document, source, strategy, identifier>>

Next ==
  \/ (Update \/ Available \/ Scan \/ Latest \/ \E v \in Pins : UpdateTo(v))
     /\ answer.question = "none"
     /\ UNCHANGED <<document, source, current, strategy, identifier>>
  \/ Become

Spec == Init /\ [][Next]_vars

-----------------------------------------------------------------------------
Versions == {Version(i) : i \in listing}

NewerVersions == {v \in Versions : BumpIsGreater(current, v)}

CompatibleVersions == {v \in NewerVersions : BumpIsCompatible(current, v)}

Earliest(r) ==
  \E i \in listing :
    document[i] = r /\ \A j \in listing : j < i => Version(j) # Version(i)

Newest(S) == CHOOSE v \in S : \A w \in S : w = v \/ Greater(v, w)

(* What update installs depends on which versions the listing has, never   *)
(* on their order or on junk among them: the newest compatible one, or the *)
(* newest of all when none is compatible or the strategy is Latest; and it *)
(* is up to date only when nothing is newer.  Of two releases of that      *)
(* version, it is the one that the source lists first.                     *)
ChosenIsNewest ==
  answer.question = "update" =>
    IF answer.release = None THEN NewerVersions = {}
    ELSE /\ NewerVersions # {}
         /\ answer.release.version =
              IF strategy = "compatible" /\ CompatibleVersions # {}
                THEN Newest(CompatibleVersions) ELSE Newest(NewerVersions)
         /\ Earliest(answer.release)

(* However often the program updates itself, it only moves forward, unless *)
(* it is told the version; and only so if its own does not parse.          *)
OnlyForward ==
  [][current' # current =>
        \/ answer.question = "pinned"
        \/ current # Junk /\ Greater(current', current)]_vars

(* The asset has the identifier that was asked for, is the full target's   *)
(* when there is such an asset, and is one for another platform only when  *)
(* an identifier was given and no asset for this arch and os has it.       *)
AssetForThisPlatform ==
  answer.question \in {"update", "pinned"} /\ answer.release # None =>
    LET fits(a) == identifier = NoIdentifier \/ identifier \in a
        assets  == {a \in {answer.release.assets[i] : i \in DOMAIN answer.release.assets} : fits(a)}
        ours    == {a \in assets : "target" \in a \/ {"arch", "os"} \subseteq a}
    IN /\ answer.asset # None => answer.asset \in assets
       /\ ours # {} => answer.asset \in ours
       /\ (\E a \in ours : "target" \in a) => "target" \in answer.asset
       /\ ours = {} /\ identifier = NoIdentifier => answer.asset = None

(* The ways to ask agree: is_update_available has a release exactly when   *)
(* update would not be up to date, and the scan of a listing says so too,  *)
(* unless a version that does not parse precedes every newer one, or is    *)
(* the program's own; a custom source's latest release is its newest, the  *)
(* first of equal ones, and is junk only when everything it lists is; and  *)
(* a pinned version gives the release that an update to that version would *)
(* take.                                                                   *)
CallsAgree ==
  /\ answer.question = "available" => (answer.release # None <=> NewerVersions # {})
  /\ answer.question = "true" => NewerVersions # {}
  /\ answer.question = "false" =>
       NewerVersions = {} /\ Junk \notin Versions /\ (current = Junk => listing = {})
  /\ answer.question = "error" =>
       \E i \in listing :
         /\ Junk \in {current, Version(i)}
         /\ \A j \in listing : j < i => Version(j) \notin NewerVersions
  /\ answer.question = "latest" =>
       LET parsed == Versions \ {Junk}
       IN IF listing = {} THEN answer.release = None
          ELSE /\ answer.release # None
               /\ answer.release.version = IF parsed = {} THEN Junk ELSE Newest(parsed)
               /\ Earliest(answer.release)
  /\ answer.question = "pinned" /\ answer.release # None => Earliest(answer.release)
=============================================================================
