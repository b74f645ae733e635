------------------------------ MODULE Listing ------------------------------
(***************************************************************************)
(* The release listing of a forge (src/backends/github.rs, gitlab.rs,      *)
(* gitea.rs and gitee.rs): the requests that each backend makes for its    *)
(* newest release, for what is newer and for all releases, against a       *)
(* server that creates and deletes releases between two pages.             *)
(*                                                                         *)
(* A release is the number of its creation, so that the listing, newest    *)
(* first, is the descending order of what is live, and page k begins at    *)
(* the place (k-1) * PageSize + 1 of what is live when it is asked for.    *)
(***************************************************************************)
EXTENDS Pages

CONSTANTS
  MaxRelease,  \* bound: the releases that are ever created
  Deletions,   \* bound: the releases deleted during a walk
  PageSize     \* per_page

ASSUME SizeAssumption == MaxRelease \in Nat /\ Deletions \in Nat /\ PageSize \in Nat \ {0}

(* What a release is to the updater: its version is newer than the running *)
(* one, or is not; its tag is no version (nightly) or lacks the configured *)
(* prefix; or it lacks a field and cannot be read at all.                  *)
Kinds == {"newer", "older", "rolling", "malformed"}

Comparable == {"newer", "older"}

VARIABLES
  plan,      \* the call: which page first, and what to take from one
  live,      \* the releases of the server
  made,      \* the last release created
  kind,      \* kind[r]
  orderly,   \* the server's next link names the page that follows, if there is one
  began      \* history: the last release created when the walk began

server == <<live, made, kind, orderly>>

vars == <<driver, plan, server, began>>

-----------------------------------------------------------------------------
(* The plans.  Page 0 is an endpoint that answers with one release, not    *)
(* with a listing.                                                         *)
Walk(take) == [first |-> 1, take |-> take]
Object(take) == [first |-> 0, take |-> take]

GithubList == Walk("all")
GitlabList == Walk("all")
GiteaList == Walk("all")
GiteeList == Walk("all")

GithubNewer == Walk("newer")
GitlabNewer == Walk("newer")
GiteaNewer == Walk("newer")
GiteeNewer == Walk("newer")

(* GitLab and Gitea have no endpoint for the newest release; Gitee's may   *)
(* name a rolling tag, and then its listing is asked as well.              *)
GithubLatest == Object("object")
GitlabLatest == Walk("first")
GiteaLatest == Walk("first")
GiteeLatest == Object("first")

GithubByTag == Object("object")
GitlabByTag == Object("object")
GiteaByTag == Object("object")
GiteeByTag == Object("object")

Plans ==
  {GithubList, GitlabList, GiteaList, GiteeList,
   GithubNewer, GitlabNewer, GiteaNewer, GiteeNewer,
   GithubLatest, GitlabLatest, GiteaLatest, GiteeLatest,
   GithubByTag, GitlabByTag, GiteaByTag, GiteeByTag}

-----------------------------------------------------------------------------
Init ==
  /\ InitDriver
  /\ plan \in Plans
  /\ made \in 0..MaxRelease
  /\ live = 1..made
  /\ kind \in [1..made -> Kinds]
  /\ orderly \in BOOLEAN
  /\ began = made

Start ==
  /\ \E h \in Hosts : Begin([at |-> plan.first, host |-> h])
  /\ UNCHANGED <<plan, server, began>>

Position(r) == Cardinality({s \in live : s >= r})

PageOf(k) == {r \in live : Position(r) \in (k - 1) * PageSize + 1 .. k * PageSize}

(* The next link of page k.  A server that takes no notice of the page     *)
(* answers with the same one for ever, and always has a next one.          *)
NextOf(k) ==
  IF ~orderly THEN [at : {k}, host : Hosts]
  ELSE IF \E r \in live : Position(r) > k * PageSize THEN [at : {k + 1}, host : Hosts]
  ELSE {Nowhere}

ServePage ==
  /\ pc = "request"
  /\ request.at > 0
  /\ \E next \in NextOf(request.at) :
       Answered([listed |-> PageOf(request.at), next |-> next])
  /\ UNCHANGED <<plan, server, began>>

(* The release that the forge calls the latest, or that has the tag.       *)
ServeObject ==
  /\ pc = "request"
  /\ request.at = 0
  /\ \E r \in live : Answered([listed |-> {r}, next |-> Nowhere])
  /\ UNCHANGED <<plan, server, began>>

-----------------------------------------------------------------------------
(* The parser of a page (release_array_page, newest_plan and single_plan,  *)
(* with into_release).                                                     *)
Listed == answer.listed
KindsOf(S) == {kind[r] : r \in S}

Wanted(r) == kind[r] \in (IF plan.take = "newer" THEN {"newer"} ELSE Comparable)

(* What a parser keeps of a page stays in the order of the page.           *)
Page(keep, next, stop) == 
  [items |-> Descending(keep), next |-> next, stop |-> stop]

(* Mutant of ParseListing: it stops at the first release that is not newer.*)
ParseListingStop ==
  /\ plan.take \in {"all", "newer"}
  /\ IF "malformed" \in KindsOf(Listed)
       THEN Fail("invalid")
       ELSE Keep(Page({r \in Listed : Wanted(r)}, answer.next,
                      plan.take = "newer" /\ "older" \in KindsOf(Listed)))

(* Mutant of ParseListing: a rolling tag is an error.                      *)
ParseListingStrict ==
  /\ plan.take \in {"all", "newer"}
  /\ IF KindsOf(Listed) \subseteq Comparable
       THEN Keep(Page({r \in Listed : Wanted(r)}, answer.next, FALSE))
       ELSE Fail("invalid")

ParseListing ==
  /\ plan.take \in {"all", "newer"}
  /\ IF "malformed" \in KindsOf(Listed)
       THEN Fail("invalid")
       ELSE Keep(Page({r \in Listed : Wanted(r)}, answer.next, FALSE))

(* Mutant of ParseFirst: only the first release of the listing is tried.   *)
ParseFirstOnly ==
  /\ plan.take = "first"
  /\ request.at > 0
  /\ IF Listed = {} \/ kind[Max(Listed)] = "rolling" THEN Fail("no release")
     ELSE IF kind[Max(Listed)] = "malformed" THEN Fail("invalid")
     ELSE Keep(Page({Max(Listed)}, Nowhere, FALSE))

(* The first release of the listing that is no rolling tag; no other page  *)
(* is asked.                                                               *)
ParseFirst ==
  /\ plan.take = "first"
  /\ request.at > 0
  /\ LET tagged == {r \in Listed : kind[r] # "rolling"} IN
       IF tagged = {} THEN Fail("no release")
       ELSE IF kind[Max(tagged)] = "malformed" THEN Fail("invalid")
       ELSE Keep(Page({Max(tagged)}, Nowhere, FALSE))

ParseObject ==
  /\ request.at = 0
  /\ IF KindsOf(Listed) \subseteq Comparable THEN Keep(Page(Listed, Nowhere, FALSE))
     ELSE IF KindsOf(Listed) = {"rolling"} /\ plan.take = "first"
       THEN Keep(Page({}, [at |-> 1, host |-> request.host], FALSE))
       ELSE Fail("invalid")

Parse ==
  /\ pc = "body"
  /\ ParseListing \/ ParseFirst \/ ParseObject
  /\ UNCHANGED <<plan, server, began>>

Lose ==
  /\ RequestFails \/ BodyFails
  /\ UNCHANGED <<plan, server, began>>

-----------------------------------------------------------------------------
Create ==
  /\ Walking
  /\ made < MaxRelease
  /\ made' = made + 1
  /\ live' = live \union {made'}
  /\ \E k \in Kinds : kind' = Append(kind, k)
  /\ UNCHANGED <<driver, plan, orderly, began>>

Delete ==
  /\ Walking
  /\ Cardinality((1..made) \ live) < Deletions
  /\ \E r \in live : live' = live \ {r}
  /\ UNCHANGED <<driver, plan, made, kind, orderly, began>>

Next ==
  \/ Start \/ ServePage \/ ServeObject \/ Parse \/ Lose
  \/ Create \/ Delete

(* A request is answered or fails, and the driver goes on.                 *)
Fairness == WF_vars(Start) /\ WF_vars(ServePage \/ ServeObject \/ Lose \/ Parse)

Spec == Init /\ [][Next]_vars /\ Fairness

-----------------------------------------------------------------------------
Requests == [at : Nat, host : Hosts]

TypeOK ==
  /\ pc \in {"idle", "request", "body", "done", "failed"}
  /\ request \in Requests \union {Nowhere}
  /\ authorized \in BOOLEAN
  /\ answer \in [listed : SUBSET (1..made), next : Requests \union {Nowhere}]
  /\ out \in Seq(1..made)
  /\ pages \in 0..MaxPages
  /\ attempts \in 0..Retries
  /\ error \in {"none", "request", "body", "invalid", "no release"}
  /\ capped \in BOOLEAN
  /\ plan \in Plans
  /\ made \in 0..MaxRelease
  /\ live \subseteq 1..made
  /\ kind \in [1..made -> Kinds]
  /\ orderly \in BOOLEAN
  /\ began \in 0..made

Undisturbed == orderly /\ live = 1..made

(* A walk that ends well, with no deletion and below the cap of pages, has *)
(* every release that was there when it began, on whichever page, wherever *)
(* older releases and rolling tags stand in between and whatever is        *)
(* created meanwhile; it has none twice and newest first when nothing is,  *)
(* and a listing for an update holds nothing older.                        *)
NothingMissed ==
  /\ pc = "done" /\ plan.take \in {"all", "newer"} /\ Undisturbed /\ ~capped =>
       \A r \in 1..began : Wanted(r) => r \in Range(out)
  /\ orderly /\ made = began =>
       \A i, j \in DOMAIN out : i < j => out[i] > out[j]
  /\ \A i \in DOMAIN out :
       kind[out[i]] \in (IF plan.take = "newer" THEN {"newer"} ELSE Comparable)

(* Rolling tags do not make a listing fail: only a release that cannot be  *)
(* read at all does.                                                       *)
RollingTagsAreHarmless ==
  plan.take \in {"all", "newer"} /\ error = "invalid" =>
    \E r \in 1..made : kind[r] = "malformed"

(* The newest release taken from a listing is the newest that can be       *)
(* compared, and there is none on the first page if it is reported that    *)
(* there is none.                                                          *)
LatestIsNewestComparable ==
  plan.take = "first" /\ request # Nowhere /\ request.at = 1 /\ Undisturbed /\ made = began =>
    /\ pc = "done" => \A r \in live : r > out[1] => kind[r] = "rolling"
    /\ error = "no release" => \A r \in PageOf(1) : kind[r] = "rolling"

(* Whatever the server answers, and if it names a next page for ever, a    *)
(* call returns.                                                           *)
WalkReturns == <>(pc \in {"done", "failed"})
=============================================================================
