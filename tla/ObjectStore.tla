---------------------------- MODULE ObjectStore ----------------------------
(***************************************************************************)
(* The S3 backend (src/backends/s3.rs): a bucket is listed page by page in *)
(* the order of its keys, each page continuing after the last key of the   *)
(* one before, and the keys of a page are grouped into releases.  Keys are *)
(* put and deleted between two pages.                                      *)
(*                                                                         *)
(* A key is its place in the order of keys.  What the asset pattern makes  *)
(* of it, a name and a version or nothing at all, does not change.         *)
(***************************************************************************)
EXTENDS Pages

CONSTANTS
  Keys,        \* the keys that may ever be stored are 1..Keys
  Rels,        \* [name, version]: what a key may match; of a version only its place
               \* in their order counts, and 0 is one that does not parse, which
               \* the default pattern lets through
  Unmatched,   \* a key that matches nothing
  MaxKeys,     \* max_keys
  Current,     \* the version of the running program; one that does not parse has
               \* nothing newer, like one above all
  Edits        \* bound: keys put or deleted during the walk

ASSUME KeysAssumption == Keys \in Nat /\ MaxKeys \in Nat \ {0} /\ Edits \in Nat
ASSUME EndpointAssumption == Hosts # {}
ASSUME CurrentAssumption == Current \in Nat
ASSUME RelsAssumption == Unmatched \notin Rels /\ \A r \in Rels : r.version \in Nat

VARIABLES
  stored,   \* the keys in the bucket
  rel,      \* rel[k]: what key k matches
  edits,    \* edits so far
  steady,   \* history: the keys stored at all times since the walk began
  ever      \* history: the keys stored at any time since then

bucket == <<stored, rel, edits, steady, ever>>

bucketVars == <<driver, bucket>>

Endpoint == CHOOSE h \in Hosts : TRUE

After(key) == [at |-> key, host |-> Endpoint]

BucketInit ==
  /\ InitDriver
  /\ stored \in SUBSET (1..Keys)
  /\ rel \in [1..Keys -> Rels \union {Unmatched}]
  /\ edits = 0
  /\ steady = stored
  /\ ever = stored

(* The first page has no continuation token.                               *)
BucketStart == Begin(After(0)) /\ UNCHANGED bucket

Serve ==
  /\ pc = "request"
  /\ LET rest == {k \in stored : k > request.at}
         page == {k \in rest : Cardinality({l \in rest : l <= k}) <= MaxKeys}
     IN Answered([listed |-> page,
                  next |-> IF page = rest THEN Nowhere ELSE After(Max(page))])
  /\ UNCHANGED bucket

-----------------------------------------------------------------------------
(* parse_s3_response: the releases in the order of their first keys, each  *)
(* with its assets, the last key first (add_to_releases_list).             *)
Matched(keys) == {k \in keys : rel[k] # Unmatched}

(* Mutants of SameRelease: name or version is not looked at; every key is  *)
(* a release of its own.                                                   *)
SameVersion(k, l) == rel[k].version = rel[l].version
SameKey(k, l) == k = l

SameRelease(k, l) == rel[k] = rel[l]

Grouped(keys) ==
  LET firsts == Ascending({k \in keys : \A l \in keys : l < k => ~SameRelease(l, k)})
  IN [i \in DOMAIN firsts |->
        [release |-> rel[firsts[i]],
         assets  |-> Descending({k \in keys : SameRelease(firsts[i], k)})]]

BucketParse ==
  /\ pc = "body"
  /\ Keep([items |-> Grouped(Matched(answer.listed)), next |-> answer.next, stop |-> FALSE])
  /\ UNCHANGED bucket

(* The body is no XML.                                                     *)
ParseFails ==
  /\ pc = "body"
  /\ Fail("invalid")
  /\ UNCHANGED bucket

BucketLose ==
  /\ RequestFails \/ BodyFails
  /\ UNCHANGED bucket

-----------------------------------------------------------------------------
Edit(keys) ==
  /\ Walking
  /\ edits < Edits
  /\ edits' = edits + 1
  /\ stored' = keys
  /\ steady' = steady \intersect keys
  /\ ever' = ever \union keys
  /\ UNCHANGED <<driver, rel>>

PutKey == \E k \in (1..Keys) \ stored : Edit(stored \union {k})

DeleteKey == \E k \in stored : Edit(stored \ {k})

BucketNext ==
  \/ BucketStart \/ Serve \/ BucketParse \/ ParseFails \/ BucketLose
  \/ PutKey \/ DeleteKey

BucketSpec == BucketInit /\ [][BucketNext]_bucketVars

-----------------------------------------------------------------------------
(* What the three calls make of the releases.  A place in out is what is   *)
(* returned: 0 for none.                                                   *)
Version(i) == out[i].release.version

(* Mutant of PickLatest: the comparison is not reversed.                   *)
PickOldest ==
  LET oldest == {i \in DOMAIN out : \A j \in DOMAIN out : Version(j) >= Version(i)}
  IN IF oldest = {} THEN 0 ELSE Max(oldest)

(* max_by returns the last of equal maxima.                                *)
PickLatest ==
  LET newest == {i \in DOMAIN out : \A j \in DOMAIN out : Version(j) <= Version(i)}
  IN IF newest = {} THEN 0 ELSE Max(newest)

(* The front of the stable order of what is newer than the running program.*)
SortNewer ==
  LET newer == {i \in DOMAIN out : Version(i) > Current}
  IN IF newer = {} THEN 0
     ELSE Min({i \in newer : \A j \in newer : Version(j) <= Version(i)})

FindVersion(v) ==
  LET found == {i \in DOMAIN out : Version(i) = v} IN IF found = {} THEN 0 ELSE Min(found)

-----------------------------------------------------------------------------
Places(k) ==
  UNION {{i} \X {a \in DOMAIN out[i].assets : out[i].assets[a] = k} : i \in DOMAIN out}

(* Whatever is put and deleted during the walk, a key that was there all   *)
(* the time is one asset of its own release, once; a key that was there    *)
(* some of the time is so at most once; and no other key is.               *)
KeysOnce ==
  /\ \A k \in 1..Keys :
       /\ Cardinality(Places(k)) <= 1
       /\ Places(k) # {} => k \in ever
       /\ \A p \in Places(k) : out[p[1]].release = rel[k]
  /\ pc = "done" /\ ~capped =>
       \A k \in steady : rel[k] # Unmatched => Places(k) # {}

(* The assets of a release are merged into one when its keys are on one    *)
(* page; on two pages they make two releases of that name and version.     *)
MergedWithinPage ==
  pages <= 1 => \A i, j \in DOMAIN out : out[i].release = out[j].release => i = j

(* The calls agree: the newest release is the first of the newer ones, if  *)
(* there is any, and is what asking for its version finds.                 *)
CallsAgree ==
  LET latest == PickLatest
      newer == SortNewer
  IN pc = "done" =>
       /\ newer # 0 <=> (latest # 0 /\ Version(latest) > Current)
       /\ newer # 0 => Version(newer) = Version(latest)
       /\ latest # 0 => Version(FindVersion(Version(latest))) = Version(latest)
=============================================================================
