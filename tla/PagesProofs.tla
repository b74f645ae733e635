----------------------------- MODULE PagesProofs -----------------------------
(***************************************************************************)
(* Theorems about Listing and ObjectStore, the two modules that extend     *)
(* Pages: for every size of a page and cap of pages, for any releases,     *)
(* keys, hosts and number of edits.  Both walks put things in order and    *)
(* count, so they share what comes first: least and greatest elements,     *)
(* and what Ascending makes of a set.                                      *)
(***************************************************************************)
EXTENDS Listing, ObjectStore, FiniteSetTheorems, SequenceTheorems,
        WellFoundedInduction, TLAPS

-----------------------------------------------------------------------------
(* Induction, on sets instead of predicates.                               *)

LEMMA Least ==
  ASSUME NEW S \in SUBSET Nat, S # {}
  PROVE  Min(S) \in S /\ \A n \in S : Min(S) <= n
<1>1. PICK m \in S : \A n \in S : <<n, m>> \notin OpToRel(<, Nat)
  BY NatLessThanWellFounded, WFMin
<1>2. ASSUME NEW n \in S PROVE m <= n
  <2>1. <<n, m>> \notin OpToRel(<, Nat)
    BY <1>1
  <2>2. ~(n < m)
    BY <2>1 DEF OpToRel
  <2>. QED
    BY <2>2
<1>. QED
  BY <1>2 DEF Min

LEMMA Induction ==
  ASSUME NEW S \in SUBSET Nat, 0 \in S, \A n \in S : n + 1 \in S
  PROVE  S = Nat
<1>. SUFFICES ASSUME Nat \ S # {} PROVE FALSE
  OBVIOUS
<1>. DEFINE m == Min(Nat \ S)
<1>1. m \in Nat \ S /\ \A n \in Nat \ S : m <= n
  BY Least
<1>. HIDE DEF m
<1>2. m - 1 \in Nat \ S
  BY <1>1
<1>. QED
  BY <1>1, <1>2

(* The greatest element, by the least distance from a bound.               *)
LEMMA Greatest ==
  ASSUME NEW n \in Nat, NEW S \in SUBSET (0..n), S # {}
  PROVE  Max(S) \in S /\ \A k \in S : k <= Max(S)
<1>. DEFINE D == {d \in Nat : n - d \in S}
<1>1. D \in SUBSET Nat /\ D # {}
  <2>1. PICK k \in S : TRUE
    OBVIOUS
  <2>2. n - k \in Nat /\ n - (n - k) = k
    BY <2>1
  <2>. QED
    BY <2>2
<1>2. Min(D) \in D /\ \A d \in D : Min(D) <= d
  BY <1>1, Least
<1>. DEFINE m == n - Min(D)
<1>3. m \in S
  BY <1>2
<1>4. ASSUME NEW k \in S PROVE k <= m
  <2>1. n - k \in D
    BY DEF D
  <2>. HIDE DEF D
  <2>2. Min(D) <= n - k
    BY <1>2, <2>1
  <2>3. Min(D) \in Nat
    BY <1>1, <1>2
  <2>. QED
    BY <2>2, <2>3
<1>. QED
  BY <1>3, <1>4 DEF Max

-----------------------------------------------------------------------------
(* Sets in order.                                                          *)

Orders(s, S) ==
  /\ s \in [1..Cardinality(S) -> S]
  /\ \A i, j \in 1..Cardinality(S) : i < j => s[i] < s[j]

(* The bounds below which every set has an order.                          *)
Orderable == {n \in Nat : \A S \in SUBSET (1..n) : \E s : Orders(s, S)}

LEMMA IntervalPart ==
  ASSUME NEW n \in Nat, NEW S \in SUBSET (1..n)
  PROVE  IsFiniteSet(S) /\ Cardinality(S) \in Nat
<1>1. IsFiniteSet(1..n)
  BY FS_Interval
<1>2. IsFiniteSet(S)
  BY <1>1, FS_Subset
<1>. QED
  BY <1>2, FS_CardinalityType

LEMMA OneMoreOrdered ==
  ASSUME NEW n \in Nat, NEW S \in SUBSET (1..(n + 1)), n + 1 \in S,
         NEW s, Orders(s, S \ {n + 1})
  PROVE  \E t : Orders(t, S)
<1>. DEFINE U == S \ {n + 1}  c == Cardinality(U)
            t == [i \in 1..(c + 1) |-> IF i = c + 1 THEN n + 1 ELSE s[i]]
<1>0. U \in SUBSET (1..n)
  OBVIOUS
<1>1. n + 1 \notin U /\ S = U \union {n + 1}
  OBVIOUS
<1>2. \A x \in U : x \in Nat /\ x < n + 1
  OBVIOUS
<1>3. s \in [1..c -> U] /\ \A i, j \in 1..c : i < j => s[i] < s[j]
  BY DEF Orders
<1>. HIDE DEF U
<1>4. IsFiniteSet(U) /\ c \in Nat
  BY <1>0, IntervalPart
<1>5. Cardinality(S) = c + 1
  BY <1>1, <1>4, FS_AddElement
<1>. HIDE DEF c
<1>6. t \in [1..(c + 1) -> S]
  BY <1>1, <1>3, <1>4
<1>7. ASSUME NEW i \in 1..(c + 1), NEW j \in 1..(c + 1), i < j PROVE t[i] < t[j]
  <2>1. i \in 1..c /\ t[i] = s[i] /\ s[i] \in U
    BY <1>3, <1>4, <1>7
  <2>2. CASE j = c + 1
    BY <2>1, <2>2, <1>2, <1>4
  <2>3. CASE j # c + 1
    BY <2>1, <2>3, <1>3, <1>4, <1>7
  <2>. QED
    BY <2>2, <2>3
<1>. HIDE DEF t
<1>8. Orders(t, S)
  BY <1>5, <1>6, <1>7 DEF Orders
<1>. QED
  BY <1>8

LEMMA EveryOrderable == Orderable = Nat
<1>1. 0 \in Orderable
  <2>1. ASSUME NEW S \in SUBSET (1..0) PROVE Orders(<<>>, S)
    <3>1. S = {}
      OBVIOUS
    <3>2. Cardinality(S) = 0
      BY <3>1, FS_EmptySet
    <3>3. <<>> \in [1..0 -> S] /\ 1..0 = {}
      OBVIOUS
    <3>. QED
      BY <3>2, <3>3 DEF Orders
  <2>. QED
    BY <2>1 DEF Orderable
<1>2. ASSUME NEW n \in Orderable PROVE n + 1 \in Orderable
  <2>1. ASSUME NEW S \in SUBSET (1..(n + 1)) PROVE \E s : Orders(s, S)
    <3>0. n \in Nat
      BY DEF Orderable
    <3>1. S \ {n + 1} \in SUBSET (1..n)
      BY <3>0
    <3>2. PICK s : Orders(s, S \ {n + 1})
      BY <3>1 DEF Orderable
    <3>3. CASE n + 1 \in S
      BY <3>0, <3>2, <3>3, OneMoreOrdered
    <3>4. CASE n + 1 \notin S
      <4>1. S \ {n + 1} = S
        BY <3>4
      <4>. QED
        BY <3>2, <4>1
    <3>. QED
      BY <3>3, <3>4
  <2>. QED
    BY <2>1 DEF Orderable
<1>. QED
  BY <1>1, <1>2, Induction DEF Orderable

(* What Ascending is, for every set of numbers up to a bound.              *)
LEMMA AscendingIs ==
  ASSUME NEW n \in Nat, NEW S \in SUBSET (1..n)
  PROVE  /\ Ascending(S) \in Seq(S)
         /\ Cardinality(S) \in Nat /\ Len(Ascending(S)) = Cardinality(S)
         /\ Range(Ascending(S)) = S
         /\ \A i, j \in 1..Len(Ascending(S)) : i < j => Ascending(S)[i] < Ascending(S)[j]
<1>. DEFINE c == Cardinality(S)  s == Ascending(S)
<1>0. c \in Nat /\ IsFiniteSet(S)
  BY IntervalPart
<1>1. \E t : Orders(t, S)
  BY EveryOrderable DEF Orderable
<1>2. s \in [1..c -> S] /\ \A i, j \in 1..c : i < j => s[i] < s[j]
  BY <1>1 DEF Orders, Ascending
<1>. HIDE DEF s
<1>3. s \in Injection(1..c, S)
  <2>1. ASSUME NEW i \in 1..c, NEW j \in 1..c, s[i] = s[j] PROVE i = j
    <3>0. s[i] \in S /\ \A x \in S : ~(x < x)
      BY <1>2
    <3>1. ~(s[i] < s[j]) /\ ~(s[j] < s[i])
      BY <2>1, <3>0
    <3>2. ~(i < j) /\ ~(j < i)
      BY <1>2, <3>1
    <3>. QED
      BY <3>2, <1>0
  <2>. QED
    BY <1>2, <2>1 DEF Injection, IsInjective
<1>4. Cardinality(1..c) = c
  BY <1>0, FS_Interval
<1>5. s \in Surjection(1..c, S)
  BY <1>0, <1>3, <1>4, FS_Injection
<1>6. s \in Seq(S) /\ Len(s) = c
  BY <1>0, <1>2
<1>7. Range(s) = S
  BY <1>2, <1>5 DEF Range, Surjection
<1>. QED
  BY <1>0, <1>2, <1>6, <1>7 DEF s

LEMMA DescendingIs ==
  ASSUME NEW n \in Nat, NEW S \in SUBSET (1..n)
  PROVE  /\ Descending(S) \in Seq(S)
         /\ Range(Descending(S)) = S
         /\ \A i, j \in 1..Len(Descending(S)) : i < j => Descending(S)[i] > Descending(S)[j]
<1>. DEFINE s == Ascending(S)  c == Len(s)  d == Descending(S)
<1>1. /\ s \in Seq(S) /\ c \in Nat /\ Range(s) = S
      /\ \A i, j \in 1..c : i < j => s[i] < s[j]
  BY AscendingIs
<1>. HIDE DEF s
<1>2. d = [i \in 1..c |-> s[(c - i) + 1]]
  BY DEF Descending, Reverse, s
<1>3. DOMAIN s = 1..c /\ \A i \in 1..c : s[i] \in S /\ (c - i) + 1 \in 1..c
  BY <1>1
<1>. HIDE DEF d
<1>4. d \in Seq(S) /\ Len(d) = c /\ DOMAIN d = 1..c
  BY <1>1, <1>2, <1>3
<1>5. ASSUME NEW x \in S PROVE \E i \in 1..c : d[i] = x
  <2>1. PICK i \in 1..c : s[i] = x
    BY <1>1, <1>3 DEF Range
  <2>2. (c - i) + 1 \in 1..c /\ (c - ((c - i) + 1)) + 1 = i
    BY <1>1
  <2>. QED
    BY <1>2, <2>1, <2>2
<1>6. Range(d) = S
  BY <1>2, <1>3, <1>4, <1>5 DEF Range
<1>7. ASSUME NEW i \in 1..c, NEW j \in 1..c, i < j PROVE d[i] > d[j]
  <2>1. (c - i) + 1 \in 1..c /\ (c - j) + 1 \in 1..c /\ (c - j) + 1 < (c - i) + 1
    BY <1>1, <1>7
  <2>2. s[(c - j) + 1] < s[(c - i) + 1]
    BY <1>1, <2>1
  <2>3. s[(c - j) + 1] \in S /\ s[(c - i) + 1] \in S
    BY <1>3
  <2>4. \A x, y \in S : x < y => y > x
    OBVIOUS
  <2>. QED
    BY <1>2, <2>2, <2>3, <2>4
<1>. QED
  BY <1>4, <1>6, <1>7 DEF d

-----------------------------------------------------------------------------
(* Places in the listing of the forge.                                     *)

Before(k) == (k - 1) * PageSize

LEMMA PagesFollow ==
  ASSUME NEW k \in Nat \ {0}
  PROVE  /\ Before(k) \in Nat /\ k * PageSize \in Nat
         /\ Before(k) <= k * PageSize
         /\ Before(k + 1) = k * PageSize
         /\ Before(1) = 0
<1>1. PageSize \in Nat /\ k - 1 \in Nat /\ (k + 1) - 1 = k
  BY SizeAssumption
<1>2. k * PageSize = (k - 1) * PageSize + PageSize /\ (k - 1) * PageSize \in Nat
  BY <1>1
<1>. QED
  BY <1>1, <1>2 DEF Before

(* Of fewer releases, fewer are as new as a newer one.                     *)
LEMMA CountAbove ==
  ASSUME NEW n \in Nat, NEW L \in SUBSET (1..n), NEW M \in SUBSET L,
         NEW r \in Nat, NEW l \in Nat, r <= l
  PROVE  /\ Cardinality({s \in M : s >= l}) \in Nat
         /\ Cardinality({s \in L : s >= r}) \in Nat
         /\ Cardinality({s \in M : s >= l}) <= Cardinality({s \in L : s >= r})
<1>. DEFINE A == {s \in M : s >= l}  B == {s \in L : s >= r}
<1>0. \A s \in L : s \in 1..n /\ (s >= l => s >= r)
  OBVIOUS
<1>1. A \in SUBSET (1..n) /\ B \in SUBSET (1..n) /\ A \in SUBSET B
  BY <1>0
<1>. HIDE DEF A, B
<1>2. IsFiniteSet(B) /\ Cardinality(A) \in Nat /\ Cardinality(B) \in Nat
  BY <1>1, IntervalPart
<1>3. Cardinality(A) <= Cardinality(B)
  BY <1>1, <1>2, FS_Subset
<1>. QED
  BY <1>2, <1>3 DEF A, B

LEMMA Positions ==
  ASSUME made \in Nat, live \in SUBSET (1..made), NEW r \in Nat
  PROVE  /\ Position(r) \in Nat
         /\ \A l \in Nat : r <= l => Position(l) <= Position(r)
         /\ r \in live => Position(r) >= 1
<1>1. ASSUME NEW l \in Nat, r <= l PROVE Position(r) \in Nat /\ Position(l) <= Position(r)
  BY <1>1, CountAbove DEF Position
<1>2. ASSUME r \in live PROVE Position(r) # 0
  <2>. DEFINE A == {s \in live : s >= r}
  <2>0. \A s \in live : s \in 1..made
    OBVIOUS
  <2>1. A \in SUBSET (1..made)
    BY <2>0
  <2>2. r \in A
    BY <1>2
  <2>. HIDE DEF A
  <2>3. Cardinality(A) # 0
    BY <2>1, <2>2, IntervalPart, FS_EmptySet
  <2>. QED
    BY <2>3 DEF Position, A
<1>3. Position(r) \in Nat
  BY <1>1
<1>. QED
  BY <1>1, <1>2, <1>3

-----------------------------------------------------------------------------
(* The invariant of Listing.                                               *)

Listings == plan.take \in {"all", "newer"}

Types ==
  /\ TypeOK
  /\ pages < MaxPages \/ ~(Walking \/ pc = "idle")
  /\ pc = "idle" => request = Nowhere /\ out = <<>> /\ made = began /\ live = 1..made
  /\ Walking => request \in Requests
  /\ Walking /\ Listings => request.at > 0
  /\ Walking /\ ~Listings => out = <<>>
  /\ pc # "body" => answer = NoAnswer
  /\ error # "none" <=> pc = "failed"
  /\ pc = "body" /\ request.at = 0 => answer.next = Nowhere
  /\ pc = "body" /\ request.at = 0 => \E r \in 1..made : answer.listed = {r}
  /\ pc = "body" /\ answer.next # Nowhere => answer.next.at > 0
  /\ pc = "body" /\ orderly /\ answer.next # Nowhere => answer.next.at = request.at + 1

(* Nothing that is still to come belongs before what is there.             *)
InOrder ==
  orderly /\ made = began =>
    /\ \A i, j \in DOMAIN out : i < j => out[i] > out[j]
    /\ Walking /\ request.at > 0 =>
         \A r \in live : Position(r) > Before(request.at) => \A x \in Range(out) : x > r
    /\ pc = "body" /\ request.at > 0 =>
         /\ \A l \in Listed, x \in Range(out) : x > l
         /\ \A r \in live : Position(r) > request.at * PageSize => \A l \in Listed : l > r

(* What has been passed over is there.                                     *)
Complete ==
  Listings /\ Undisturbed =>
    /\ Walking => \A r \in 1..began :
         Wanted(r) /\ Position(r) <= Before(request.at) => r \in Range(out)
    /\ pc = "body" => \A r \in 1..began :
         Wanted(r) /\ (answer.next = Nowhere \/ Position(r) <= request.at * PageSize) =>
           r \in Range(out) \union Listed
    /\ pc = "done" /\ ~capped => \A r \in 1..began : Wanted(r) => r \in Range(out)

KindsTaken ==
  \A x \in Range(out) : kind[x] \in (IF plan.take = "newer" THEN {"newer"} ELSE Comparable)

FirstPage ==
  /\ plan.take = "first" /\ pc = "body" /\ request.at = 1 /\ Undisturbed /\ made = began =>
       Listed = PageOf(1)
  /\ LatestIsNewestComparable

IInv ==
  /\ Types
  /\ RollingTagsAreHarmless
  /\ InOrder
  /\ Complete
  /\ KindsTaken
  /\ FirstPage

LEMMA InitIInv == Init => IInv
<1>. SUFFICES ASSUME Init PROVE IInv
  OBVIOUS
<1>0. /\ made \in 0..MaxRelease /\ live = 1..made /\ began = made /\ began \in 0..made
      /\ answer = [listed |-> {}, next |-> Nowhere] /\ out = <<>> /\ pages = 0 /\ attempts = 0
      /\ 0 \in 0..MaxPages /\ 0 \in 0..Retries
  BY MaxPagesAssumption, RetriesAssumption, SizeAssumption DEF Init, InitDriver, NoAnswer
<1>. DEFINE ints == 1..made
<1>a. <<>> \in Seq(ints) /\ [listed |-> {}, next |-> Nowhere] \in
        [listed : SUBSET ints, next : Requests \union {Nowhere}]
  OBVIOUS
<1>b. out \in Seq(ints) /\ answer \in [listed : SUBSET ints, next : Requests \union {Nowhere}]
  BY <1>0, <1>a
<1>1. TypeOK
  BY <1>0, <1>b DEF Init, InitDriver, TypeOK
<1>2. Types
  BY <1>1, MaxPagesAssumption DEF Init, InitDriver, Types, Walking
<1>3. Range(out) = {} /\ DOMAIN out = {}
  BY DEF Init, InitDriver, Range
<1>. QED
  BY <1>2, <1>3 DEF Init, InitDriver, IInv, Walking, RollingTagsAreHarmless,
     InOrder, Complete, KindsTaken, FirstPage, LatestIsNewestComparable

LEMMA Basics ==
  ASSUME IInv
  PROVE  /\ Types /\ TypeOK
         /\ made \in Nat /\ live \in SUBSET (1..made) /\ began \in 0..made /\ began \in Nat
         /\ out \in Seq(1..made) /\ kind \in [1..made -> Kinds]
         /\ Listed \in SUBSET (1..made)
<1>1. Types /\ TypeOK
  BY DEF IInv, Types
<1>2. made \in Nat /\ live \in SUBSET (1..made) /\ began \in 0..made
  <2>1. made \in 0..MaxRelease /\ live \in SUBSET (1..made) /\ began \in 0..made
    BY <1>1 DEF TypeOK
  <2>2. made \in Nat
    BY <2>1, SizeAssumption
  <2>. QED
    BY <2>1, <2>2
<1>3. began \in Nat
  BY <1>2
<1>4. out \in Seq(1..made) /\ kind \in [1..made -> Kinds] /\ Listed \in SUBSET (1..made)
  BY <1>1 DEF TypeOK, Listed
<1>. QED
  BY <1>1, <1>2, <1>3, <1>4

(* What the walk relates to the server, when the server stays.             *)
Server == <<plan, server, began>>

LEMMA ServerStays ==
  ASSUME UNCHANGED Server
  PROVE  /\ \A r : Position(r)' = Position(r) /\ Wanted(r)' = Wanted(r)
         /\ Undisturbed' = Undisturbed /\ Listings' = Listings
         /\ \A k : PageOf(k)' = PageOf(k)
BY DEF Server, server, Position, Wanted, Undisturbed, Listings, PageOf

LEMMA FirstOfPlan == ASSUME plan \in Plans PROVE
  /\ plan.first \in {0, 1}
  /\ Listings => plan.first = 1
BY DEF Plans, Walk, Object, Listings, GithubList, GitlabList, GiteaList, GiteeList,
   GithubNewer, GitlabNewer, GiteaNewer, GiteeNewer, GithubLatest, GitlabLatest, GiteaLatest,
   GiteeLatest, GithubByTag, GitlabByTag, GiteaByTag, GiteeByTag

LEMMA StartStep == ASSUME IInv, Start PROVE IInv'
<1>1. PICK h \in Hosts : Begin([at |-> plan.first, host |-> h])
  BY DEF Start
<1>2. /\ pc = "idle" /\ pc' = "request" /\ request' = [at |-> plan.first, host |-> h]
      /\ authorized' = (h \in Trusted) /\ attempts' = 0 /\ capped' = capped
      /\ UNCHANGED <<answer, out, pages, error, plan, server, began>>
  BY <1>1 DEF Begin, Ask, Start
<1>3. TypeOK /\ Types /\ out = <<>> /\ request = Nowhere /\ pages < MaxPages /\ answer = NoAnswer /\ error = "none"
  BY <1>2 DEF IInv, Types, Walking
<1>4. request' \in Requests /\ request'.at \in {0, 1} /\ request'.host = h /\ (Listings => request'.at = 1)
  BY <1>2, <1>3, FirstOfPlan DEF Requests, TypeOK
<1>5. TypeOK'
  BY <1>2, <1>3, <1>4, RetriesAssumption DEF TypeOK, server
<1>6. Types'
  BY <1>2, <1>3, <1>4, <1>5 DEF Types, Walking, Listings, server
<1>8. Range(out') = {} /\ DOMAIN out' = {}
  BY <1>2, <1>3 DEF Range
<1>9. Complete'
  <2>1. ASSUME Listings, NEW r \in 1..began, Position(r)' <= Before(request'.at), Undisturbed PROVE FALSE
    <3>1. request'.at = 1 /\ Before(1) = 0
      BY <1>4, <2>1, PagesFollow
    <3>2. r \in live /\ r \in Nat /\ made \in Nat /\ live \in SUBSET (1..made)
      BY <1>2, <1>3, <2>1 DEF TypeOK, Undisturbed
    <3>3. Position(r) >= 1 /\ Position(r) \in Nat /\ Position(r)' = Position(r)
      BY <1>2, <3>2, Positions, ServerStays DEF Server
    <3>. QED
      BY <2>1, <3>1, <3>3
  <2>2. Listings' = Listings /\ Undisturbed' = Undisturbed /\ began' = began
    BY <1>2, ServerStays DEF Server
  <2>. QED
    BY <1>2, <2>1, <2>2 DEF Complete
<1>10. InOrder' /\ KindsTaken'
  BY <1>2, <1>8 DEF InOrder, KindsTaken
<1>11. RollingTagsAreHarmless' /\ FirstPage'
  BY <1>2, <1>3 DEF RollingTagsAreHarmless, FirstPage, LatestIsNewestComparable
<1>. QED
  BY <1>6, <1>9, <1>10, <1>11 DEF IInv

LEMMA ServePageStep == ASSUME IInv, ServePage PROVE IInv'
<1>. DEFINE k == request.at
<1>1. PICK next \in NextOf(k) : Answered([listed |-> PageOf(k), next |-> next])
  BY DEF ServePage
<1>2. /\ pc = "request" /\ k > 0 /\ pc' = "body"
      /\ answer' = [listed |-> PageOf(k), next |-> next]
      /\ UNCHANGED <<request, authorized, out, pages, attempts, error, capped, plan, server, began>>
  BY <1>1 DEF Answered, ServePage
<1>3. TypeOK /\ Types /\ pages < MaxPages /\ request \in Requests /\ k \in Nat \ {0} /\ error = "none"
  BY <1>2 DEF IInv, Types, Walking, Requests
<1>4. made \in Nat /\ live \in SUBSET (1..made) /\ began \in 0..made
  BY <1>3, SizeAssumption DEF TypeOK
<1>5. /\ Before(k) \in Nat /\ k * PageSize \in Nat /\ Before(k) <= k * PageSize
      /\ PageOf(k) = {r \in live : Position(r) \in Before(k) + 1 .. k * PageSize}
  BY <1>3, PagesFollow DEF PageOf, Before
<1>6. \A r \in live : /\ r \in Nat /\ Position(r) \in Nat
                      /\ \A l \in Nat : r <= l => Position(l) <= Position(r)
  BY <1>4, Positions
<1>. HIDE DEF k
<1>7. /\ next \in Requests \union {Nowhere}
      /\ next # Nowhere => next.at > 0 /\ (orderly => next.at = k + 1)
  BY <1>3 DEF NextOf, Requests
<1>8. orderly /\ next = Nowhere => \A r \in live : Position(r) <= k * PageSize
  <2>1. Nowhere \notin [at : {k + 1}, host : Hosts]
    BY <1>3, NowhereAssumption
  <2>. QED
    BY <1>1, <1>5, <1>6, <2>1 DEF NextOf
<1>9. TypeOK'
  BY <1>2, <1>3, <1>4, <1>5, <1>7 DEF TypeOK, server
<1>10. Types'
  BY <1>2, <1>3, <1>7, <1>9 DEF Types, Walking, Listings, server, k
<1>11. RollingTagsAreHarmless' /\ KindsTaken'
  BY <1>2 DEF IInv, RollingTagsAreHarmless, KindsTaken, Walking, server
<1>12. Server' = Server /\ request'.at = k /\ Listed' = PageOf(k)
  BY <1>2 DEF Server, server, Listed, k
<1>13. /\ \A r : Position(r)' = Position(r) /\ Wanted(r)' = Wanted(r)
       /\ Undisturbed' = Undisturbed /\ Listings' = Listings
       /\ \A p : PageOf(p)' = PageOf(p)
  BY <1>12, ServerStays
<1>14. InOrder'
  <2>1. ASSUME orderly, made = began
        PROVE  /\ \A i, j \in DOMAIN out : i < j => out[i] > out[j]
               /\ \A r \in live : Position(r) > Before(k) => \A x \in Range(out) : x > r
               /\ \A l \in PageOf(k), x \in Range(out) : x > l
               /\ \A r \in live : Position(r) > k * PageSize => \A l \in PageOf(k) : l > r
    <3>1. /\ \A i, j \in DOMAIN out : i < j => out[i] > out[j]
          /\ \A r \in live : Position(r) > Before(k) => \A x \in Range(out) : x > r
      BY <1>2, <2>1 DEF IInv, InOrder, Walking, k
    <3>2. ASSUME NEW l \in PageOf(k) PROVE l \in live /\ Position(l) > Before(k) /\ Position(l) <= k * PageSize
      BY <1>5, <1>6
    <3>3. ASSUME NEW r \in live, Position(r) > k * PageSize, NEW l \in PageOf(k) PROVE l > r
      <4>1. l \in Nat /\ r \in Nat /\ Position(l) \in Nat /\ Position(r) \in Nat /\ Position(l) < Position(r)
        BY <1>5, <1>6, <3>2, <3>3
      <4>2. ~(l <= r)
        BY <1>6, <3>2, <4>1
      <4>. QED
        BY <4>1, <4>2
    <3>. QED
      BY <3>1, <3>2, <3>3
  <2>. QED
    BY <1>2, <1>12, <1>13, <2>1 DEF InOrder, server
<1>15. Complete'
  <2>1. ASSUME Listings, Undisturbed, NEW r \in 1..began, Wanted(r)
        PROVE  /\ Position(r) <= Before(k) => r \in Range(out)
               /\ next = Nowhere \/ Position(r) <= k * PageSize => r \in Range(out) \union PageOf(k)
    <3>1. Position(r) <= Before(k) => r \in Range(out)
      BY <1>2, <2>1 DEF IInv, Complete, Walking, k
    <3>2. r \in live /\ Position(r) \in Nat /\ (next = Nowhere => Position(r) <= k * PageSize)
      BY <1>4, <1>6, <1>8, <2>1 DEF Undisturbed
    <3>3. Position(r) <= k * PageSize => Position(r) <= Before(k) \/ r \in PageOf(k)
      BY <1>5, <3>2
    <3>. QED
      BY <3>1, <3>2, <3>3
  <2>. QED
    BY <1>2, <1>12, <1>13, <2>1 DEF Complete
<1>16. FirstPage'
  <2>1. LatestIsNewestComparable'
    BY <1>2, <1>3 DEF LatestIsNewestComparable
  <2>. QED
    BY <1>2, <1>12, <1>13, <2>1 DEF FirstPage
<1>. QED
  BY <1>10, <1>11, <1>14, <1>15, <1>16 DEF IInv

LEMMA ServeObjectStep == ASSUME IInv, ServeObject PROVE IInv'
<1>1. PICK r \in live : Answered([listed |-> {r}, next |-> Nowhere])
  BY DEF ServeObject
<1>2. /\ pc = "request" /\ request.at = 0 /\ pc' = "body"
      /\ answer' = [listed |-> {r}, next |-> Nowhere]
      /\ UNCHANGED <<request, authorized, out, pages, attempts, error, capped, plan, server, began>>
  BY <1>1 DEF Answered, ServeObject
<1>3. TypeOK /\ Types /\ pages < MaxPages /\ request \in Requests /\ error = "none" /\ ~Listings
      /\ out = <<>>
  BY <1>2 DEF IInv, Types, Walking
<1>4. r \in 1..made /\ made \in Nat
  BY <1>3, SizeAssumption DEF TypeOK
<1>5. TypeOK'
  BY <1>2, <1>3, <1>4 DEF TypeOK, server
<1>6. Types'
  BY <1>2, <1>3, <1>4, <1>5 DEF Types, Walking, Listings, server
<1>7. RollingTagsAreHarmless' /\ KindsTaken'
  BY <1>2 DEF IInv, RollingTagsAreHarmless, KindsTaken, Walking, server
<1>8. InOrder'
  <2>1. DOMAIN out' = {}
    BY <1>2, <1>3
  <2>. QED
    BY <1>2, <2>1 DEF InOrder
<1>9. Complete'
  BY <1>2, <1>3 DEF Complete, Listings
<1>10. FirstPage'
  BY <1>2, <1>3 DEF FirstPage, LatestIsNewestComparable
<1>. QED
  BY <1>6, <1>7, <1>8, <1>9, <1>10 DEF IInv

LEMMA SeqOfPart ==
  ASSUME NEW B, NEW A \in SUBSET B, NEW s \in Seq(A)
  PROVE  s \in Seq(B)
OBVIOUS

LEMMA NothingInRange ==
  ASSUME NEW A, NEW s \in Seq(A)
  PROVE  Range(s) = {} <=> s = <<>>
<1>1. Range(s) = {s[i] : i \in 1..Len(s)} /\ Len(s) \in Nat
  BY RangeEquality
<1>2. CASE Len(s) = 0
  BY <1>1, <1>2
<1>3. CASE Len(s) > 0
  <2>1. s[1] \in Range(s)
    BY <1>1, <1>3
  <2>2. s # <<>>
    BY <1>3
  <2>. QED
    BY <2>1, <2>2
<1>. QED
  BY <1>1, <1>2, <1>3

(* A page of which keep is kept.                                           *)
LEMMA KeepIs ==
  ASSUME Types, pc = "body", NEW keep \in SUBSET (1..made), NEW next \in Requests \union {Nowhere},
         Keep(Page(keep, next, FALSE))
  PROVE  /\ out' = out \o Descending(keep) /\ out' \in Seq(1..made)
         /\ Descending(keep) \in Seq(1..made)
         /\ Range(out') = Range(out) \union keep /\ Range(Descending(keep)) = keep
         /\ \A i, j \in 1..Len(Descending(keep)) : i < j => Descending(keep)[i] > Descending(keep)[j]
         /\ pages' \in 0..MaxPages /\ answer' = NoAnswer /\ error' = "none" /\ error = "none"
         /\ \/ /\ pc' = "done" /\ capped' \in BOOLEAN /\ (~capped' => next = Nowhere)
               /\ UNCHANGED <<request, authorized, attempts>>
            \/ /\ pc' = "request" /\ next \in Requests /\ pages' < MaxPages
               /\ request' = next /\ authorized' = (next.host \in Trusted)
               /\ attempts' = 0 /\ capped' = capped
<1>. DEFINE items == Descending(keep)
<1>1. made \in Nat /\ out \in Seq(1..made) /\ pages \in Nat /\ pages < MaxPages /\ MaxPages \in Nat
      /\ error = "none"
  BY SizeAssumption, MaxPagesAssumption DEF Types, TypeOK, Walking
<1>2. /\ items \in Seq(keep) /\ Range(items) = keep
      /\ \A i, j \in 1..Len(items) : i < j => items[i] > items[j]
  BY <1>1, DescendingIs
<1>. HIDE DEF items
<1>3. items \in Seq(1..made)
  BY <1>2, SeqOfPart
<1>4. out \o items \in Seq(1..made) /\ Range(out \o items) = Range(out) \union keep
  BY <1>1, <1>2, <1>3, RangeConcatenation
<1>5. /\ out' = out \o items /\ pages' = pages + 1 /\ answer' = NoAnswer /\ error' = error
      /\ IF next = Nowhere \/ pages + 1 >= MaxPages
           THEN /\ pc' = "done" /\ capped' = (next # Nowhere)
                /\ UNCHANGED <<request, authorized, attempts>>
           ELSE /\ pc' = "request" /\ request' = next /\ authorized' = (next.host \in Trusted)
                /\ attempts' = 0 /\ capped' = capped
  BY DEF Keep, Page, IsLast, Ask, items
<1>6. CASE next = Nowhere \/ pages + 1 >= MaxPages
  <2>1. pc' = "done" /\ capped' \in BOOLEAN /\ (~capped' => next = Nowhere)
    BY <1>5, <1>6
  <2>. QED
    BY <1>1, <1>2, <1>3, <1>4, <1>5, <1>6, <2>1 DEF items
<1>7. CASE ~(next = Nowhere \/ pages + 1 >= MaxPages)
  <2>1. pages + 1 < MaxPages /\ next \in Requests
    BY <1>1, <1>7
  <2>. QED
    BY <1>1, <1>2, <1>3, <1>4, <1>5, <1>7, <2>1 DEF items
<1>. QED
  BY <1>6, <1>7

(* After a page of which releases that can be compared are kept, types.    *)
LEMMA KeepTypes ==
  ASSUME IInv, pc = "body", NEW keep \in SUBSET (1..made), NEW next \in Requests \union {Nowhere},
         Keep(Page(keep, next, FALSE)), UNCHANGED Server,
         next # Nowhere => next.at > 0,
         next # Nowhere /\ ~Listings => keep = {},
         \A x \in keep : kind[x] \in (IF plan.take = "newer" THEN {"newer"} ELSE Comparable)
  PROVE  Types' /\ RollingTagsAreHarmless' /\ KindsTaken'
<1>1. Types /\ TypeOK /\ request \in Requests
  BY DEF IInv, Types, Walking
<1>2. TypeOK'
  <2>1. /\ out' \in Seq(1..made) /\ pages' \in 0..MaxPages /\ error' = "none"
        /\ answer' = [listed |-> {}, next |-> Nowhere]
    BY <1>1, KeepIs DEF NoAnswer
  <2>2. /\ pc' \in {"done", "request"} /\ authorized' \in BOOLEAN /\ capped' \in BOOLEAN
        /\ request' \in Requests /\ attempts' \in 0..Retries
    <3>0. authorized \in BOOLEAN /\ capped \in BOOLEAN /\ attempts \in 0..Retries
      BY <1>1 DEF TypeOK
    <3>a. 0 \in 0..Retries /\ (next.host \in Trusted) \in BOOLEAN
      BY RetriesAssumption
    <3>1. CASE pc' = "done"
      BY <1>1, <3>0, <3>1, KeepIs
    <3>2. CASE pc' = "request"
      BY <1>1, <3>0, <3>2, <3>a, KeepIs
    <3>. QED
      BY <1>1, <3>1, <3>2, KeepIs
  <2>. QED
    BY <1>1, <2>1, <2>2 DEF TypeOK, Server, server
<1>3. Types'
  <2>1. pc' = "request" /\ ~Listings => out' = <<>>
    <3>1. ASSUME pc' = "request", ~Listings PROVE out' = <<>>
      <4>1. keep = {} /\ out = <<>>
        BY <1>1, <3>1, KeepIs, NowhereAssumption DEF Types, Walking, Requests
      <4>2. out \in Seq(1..made) /\ out' \in Seq(1..made) /\ Range(out') = Range(out)
        BY <1>1, <4>1, KeepIs DEF TypeOK
      <4>. QED
        BY <4>1, <4>2, NothingInRange
    <3>. QED
      BY <3>1
  <2>2. Listings' = Listings
    BY ServerStays
  <2>3. pc' = "request" => request' \in Requests /\ request'.at > 0 /\ pages' < MaxPages
    BY <1>1, KeepIs, NowhereAssumption DEF Requests
  <2>4. pc' \in {"done", "request"} /\ answer' = NoAnswer /\ error' = "none"
    BY <1>1, KeepIs
  <2>. QED
    BY <1>2, <2>1, <2>2, <2>3, <2>4 DEF Types, Walking
<1>5. RollingTagsAreHarmless'
  BY <1>1, KeepIs DEF RollingTagsAreHarmless
<1>6. KindsTaken'
  BY <1>1, KeepIs DEF IInv, KindsTaken, Server, server
<1>. QED
  BY <1>3, <1>5, <1>6

(* A listing that is over, or one release.                                 *)
LEMMA FailStep ==
  ASSUME IInv, Walking, NEW why \in {"request", "body", "invalid", "no release"}, Fail(why),
         UNCHANGED Server,
         why = "invalid" /\ Listings => \E r \in 1..made : kind[r] = "malformed",
         why = "no release" =>
           (plan.take = "first" /\ request.at = 1 /\ Undisturbed /\ made = began =>
              \A r \in PageOf(1) : kind[r] = "rolling")
  PROVE  IInv'
<1>1. /\ pc' = "failed" /\ error' = why /\ answer' = NoAnswer
      /\ UNCHANGED <<request, authorized, out, pages, attempts, capped>>
      /\ UNCHANGED <<plan, live, made, kind, orderly, began>>
  BY DEF Fail, Server, server
<1>2. TypeOK'
  BY <1>1 DEF IInv, Types, TypeOK, NoAnswer
<1>3. Types'
  BY <1>1, <1>2 DEF Types, Walking
<1>4. KindsTaken' /\ Complete'
  BY <1>1 DEF KindsTaken, Complete, Walking, IInv
<1>5. RollingTagsAreHarmless'
  BY <1>1 DEF RollingTagsAreHarmless, Listings
<1>6. InOrder'
  BY <1>1 DEF IInv, InOrder, Walking
<1>7. FirstPage'
  <2>1. PageOf(1)' = PageOf(1) /\ Undisturbed' = Undisturbed
    BY ServerStays
  <2>2. ASSUME plan.take = "first", request.at = 1, Undisturbed, made = began, why = "no release"
        PROVE  \A r \in PageOf(1) : kind[r] = "rolling"
    BY <2>2
  <2>. QED
    BY <1>1, <2>1, <2>2 DEF FirstPage, LatestIsNewestComparable
<1>. QED
  BY <1>3, <1>4, <1>5, <1>6, <1>7 DEF IInv

LEMMA LoseStep == ASSUME IInv, Lose PROVE IInv'
<1>0. UNCHANGED Server
  BY DEF Lose, Server
<1>1. CASE RequestFails /\ attempts < Retries
  <2>1. /\ pc = "request" /\ attempts' = attempts + 1
        /\ UNCHANGED <<pc, request, authorized, answer, out, pages, error, capped>>
        /\ UNCHANGED <<plan, live, made, kind, orderly, began>>
    BY <1>0, <1>1 DEF RequestFails, Server, server
  <2>2. TypeOK'
    BY <1>1, <2>1, RetriesAssumption DEF IInv, Types, TypeOK
  <2>3. Types'
    BY <2>1, <2>2 DEF IInv, Types, Walking, Listings
  <2>4. KindsTaken' /\ RollingTagsAreHarmless'
    BY <2>1 DEF IInv, KindsTaken, RollingTagsAreHarmless, Walking
  <2>5. /\ \A r : Position(r)' = Position(r) /\ Wanted(r)' = Wanted(r)
        /\ Undisturbed' = Undisturbed /\ Listings' = Listings
        /\ \A k : PageOf(k)' = PageOf(k)
    BY <1>0, ServerStays
  <2>6. InOrder' /\ Complete'
    BY <2>1, <2>5 DEF IInv, InOrder, Complete, Walking, Listed
  <2>7. FirstPage'
    BY <2>1, <2>5 DEF IInv, Types, FirstPage, LatestIsNewestComparable
  <2>. QED
    BY <2>3, <2>4, <2>6, <2>7 DEF IInv
<1>2. CASE RequestFails /\ ~(attempts < Retries)
  BY <1>0, <1>2, FailStep DEF RequestFails, Walking
<1>3. CASE BodyFails
  BY <1>0, <1>3, FailStep DEF BodyFails, Walking
<1>. QED
  BY <1>1, <1>2, <1>3 DEF Lose

(* One descending sequence behind another.                                 *)
Falling(s) == \A i, j \in DOMAIN s : i < j => s[i] > s[j]

LEMMA FallingOn ==
  ASSUME NEW n \in Nat, NEW s \in Seq(1..n), NEW t \in Seq(1..n), Falling(s),
         \A i, j \in 1..Len(t) : i < j => t[i] > t[j],
         \A x \in Range(s), y \in Range(t) : x > y
  PROVE  Falling(s \o t)
<1>. DEFINE u == s \o t
<1>1. /\ Len(s) \in Nat /\ Len(t) \in Nat /\ DOMAIN u = 1..(Len(s) + Len(t))
      /\ \A i \in 1..Len(s) : u[i] = s[i] /\ s[i] \in Range(s)
      /\ \A i \in 1..Len(t) : t[i] \in Range(t)
      /\ \A i \in DOMAIN u : i \notin 1..Len(s) => i - Len(s) \in 1..Len(t) /\ u[i] = t[i - Len(s)]
  BY ConcatProperties, RangeEquality
<1>. HIDE DEF u
<1>2. ASSUME NEW i \in DOMAIN u, NEW j \in DOMAIN u, i < j PROVE u[i] > u[j]
  <2>1. CASE j \in 1..Len(s)
    <3>1. i \in 1..Len(s) /\ DOMAIN s = 1..Len(s)
      BY <1>1, <1>2, <2>1
    <3>. QED
      BY <1>1, <1>2, <2>1, <3>1 DEF Falling
  <2>2. CASE i \in 1..Len(s) /\ j \notin 1..Len(s)
    BY <1>1, <2>2
  <2>3. CASE i \notin 1..Len(s)
    <3>1. j \notin 1..Len(s) /\ i - Len(s) < j - Len(s)
      BY <1>1, <1>2, <2>3
    <3>. QED
      BY <1>1, <2>3, <3>1
  <2>. QED
    BY <2>1, <2>2, <2>3
<1>. QED
  BY <1>2 DEF Falling, u

(* A page of a listing.                                                    *)
LEMMA ListingStep == ASSUME IInv, pc = "body", ParseListing, UNCHANGED Server PROVE IInv'
<1>. DEFINE keep == {r \in Listed : Wanted(r)}  next == answer.next  k == request.at
<1>1. /\ Listings /\ Types /\ TypeOK /\ k \in Nat \ {0} /\ Walking
      /\ made \in Nat /\ live \in SUBSET (1..made) /\ began \in 0..made
      /\ Listed \in SUBSET (1..made) /\ keep \in SUBSET (1..made)
      /\ next \in Requests \union {Nowhere}
  BY SizeAssumption DEF IInv, Types, TypeOK, ParseListing, Listings, Walking, Requests, Listed
<1>2. CASE "malformed" \in KindsOf(Listed)
  <2>1. \E r \in 1..made : kind[r] = "malformed"
    BY <1>1, <1>2 DEF KindsOf
  <2>. QED
    BY <1>1, <1>2, <2>1, FailStep DEF ParseListing
<1>3. CASE "malformed" \notin KindsOf(Listed)
  <2>1. Keep(Page(keep, next, FALSE))
    BY <1>3 DEF ParseListing
  <2>. DEFINE items == Descending(keep)
  <2>2. /\ out' = out \o items /\ out' \in Seq(1..made) /\ items \in Seq(1..made)
        /\ Range(out') = Range(out) \union keep /\ Range(items) = keep
        /\ \A i, j \in 1..Len(items) : i < j => items[i] > items[j]
        /\ \/ pc' = "done" /\ (~capped' => next = Nowhere)
           \/ pc' = "request" /\ next \in Requests /\ request' = next
        /\ answer' = NoAnswer
    <3>. HIDE DEF keep, next
    <3>. QED
      BY <1>1, <2>1, KeepIs
  <2>. HIDE DEF items
  <2>3. next # Nowhere => next \in Requests /\ next.at > 0 /\ next.at \in Nat
    <3>1. next # Nowhere => next.at > 0
      BY <1>1 DEF Types
    <3>. QED
      BY <1>1, <3>1 DEF Requests
  <2>4. Types' /\ RollingTagsAreHarmless' /\ KindsTaken'
    BY <1>1, <2>1, <2>3, KeepTypes DEF Wanted
  <2>5. /\ \A r : Position(r)' = Position(r) /\ Wanted(r)' = Wanted(r)
        /\ Undisturbed' = Undisturbed /\ Listings' = Listings
        /\ UNCHANGED <<plan, live, made, kind, orderly, began>>
    BY ServerStays DEF Server, server
  <2>6. ASSUME orderly, next # Nowhere PROVE Before(next.at) = k * PageSize
    <3>1. next.at = k + 1
      BY <1>1, <2>6 DEF Types
    <3>. QED
      BY <1>1, <3>1, PagesFollow
  <2>7. \A r \in live : r \in Nat /\ Position(r) \in Nat
    BY <1>1, Positions
  <2>8. Before(k) \in Nat /\ k * PageSize \in Nat /\ Before(k) <= k * PageSize
    BY <1>1, PagesFollow
  <2>9. InOrder'
    <3>. SUFFICES ASSUME orderly, made = began PROVE InOrder'
      BY <2>5 DEF InOrder
    <3>1. /\ Falling(out) /\ \A l \in Listed, x \in Range(out) : x > l
          /\ \A r \in live : Position(r) > Before(k) => \A x \in Range(out) : x > r
          /\ \A r \in live : Position(r) > k * PageSize => \A l \in Listed : l > r
      BY <1>1 DEF IInv, InOrder, Falling
    <3>2. Falling(out')
      BY <1>1, <2>2, <3>1, FallingOn DEF TypeOK
    <3>3. ASSUME NEW r \in live, Position(r) > k * PageSize, NEW x \in Range(out') PROVE x > r
      <4>1. CASE x \in Range(out)
        BY <2>7, <2>8, <3>1, <3>3, <4>1
      <4>2. CASE x \in keep
        BY <3>1, <3>3, <4>2
      <4>. QED
        BY <2>2, <3>3, <4>1, <4>2
    <3>4. pc' = "request" => request'.at = next.at /\ Before(next.at) = k * PageSize
      BY <1>1, <2>2, <2>6, NowhereAssumption DEF Requests
    <3>. QED
      BY <2>2, <2>5, <3>2, <3>3, <3>4 DEF InOrder, Falling, Walking
  <2>10. Complete'
    <3>. SUFFICES ASSUME Undisturbed PROVE Complete'
      BY <2>5 DEF Complete
    <3>1. ASSUME NEW r \in 1..began, Wanted(r), next = Nowhere \/ Position(r) <= k * PageSize
          PROVE  r \in Range(out')
      <4>1. r \in Range(out) \union Listed
        BY <1>1, <3>1 DEF IInv, Complete
      <4>. QED
        BY <2>2, <3>1, <4>1
    <3>2. pc' = "request" => request'.at = next.at /\ Before(next.at) = k * PageSize
      BY <1>1, <2>2, <2>6, NowhereAssumption DEF Requests, Undisturbed
    <3>. QED
      BY <2>2, <2>5, <3>1, <3>2 DEF Complete, Walking
  <2>11. FirstPage'
    BY <1>1, <2>2, <2>5 DEF FirstPage, LatestIsNewestComparable, Listings
  <2>. QED
    BY <2>4, <2>9, <2>10, <2>11 DEF IInv
<1>. QED
  BY <1>2, <1>3

(* One release, or none, is kept, and no listing is walked.                *)
LEMMA SingleStep ==
  ASSUME IInv, pc = "body", ~Listings, NEW keep \in SUBSET (1..made),
         NEW next \in Requests \union {Nowhere}, Keep(Page(keep, next, FALSE)), UNCHANGED Server,
         next # Nowhere => next.at > 0 /\ keep = {},
         \A x \in keep : kind[x] \in Comparable,
         plan.take = "first" /\ request.at = 1 /\ Undisturbed /\ made = began =>
           /\ next = Nowhere
           /\ \E m \in keep : keep = {m} /\ \A r \in live : r > m => kind[r] = "rolling"
  PROVE  IInv'
<1>1. /\ out' = out \o Descending(keep) /\ out' \in Seq(1..made)
      /\ Descending(keep) \in Seq(1..made)
      /\ Range(out') = Range(out) \union keep /\ Range(Descending(keep)) = keep
      /\ \A i, j \in 1..Len(Descending(keep)) : i < j => Descending(keep)[i] > Descending(keep)[j]
      /\ error' = "none" /\ answer' = NoAnswer
      /\ \/ pc' = "done" /\ UNCHANGED request
         \/ pc' = "request" /\ next \in Requests /\ request' = next
  BY KeepIs DEF IInv
<1>2. Types /\ TypeOK /\ out = <<>> /\ request \in Requests /\ made \in Nat
  BY Basics DEF Types, Walking
<1>3. Range(out) = {} /\ DOMAIN out = {}
  BY <1>2 DEF Range
<1>4. plan.take # "newer" /\ (next # Nowhere /\ ~Listings => keep = {})
  BY DEF Listings
<1>5. Types' /\ RollingTagsAreHarmless' /\ KindsTaken'
  BY <1>4, KeepTypes
<1>6. Undisturbed' = Undisturbed /\ Listings' = Listings
  BY ServerStays
<1>7. Complete'
  BY <1>6 DEF Complete
<1>8. Falling(out')
  BY <1>1, <1>2, <1>3, FallingOn DEF TypeOK, Falling
<1>9. pc' = "request" => Range(out') = {}
  BY <1>1, <1>3, NowhereAssumption DEF Requests
<1>10. InOrder'
  BY <1>1, <1>8, <1>9 DEF InOrder, Falling, Walking
<1>11. FirstPage'
  <2>1. ASSUME plan.take = "first", request.at = 1, Undisturbed, made = began
        PROVE  pc' = "done" /\ \A r \in live : r > out'[1] => kind[r] = "rolling"
    <3>1. PICK m \in keep : keep = {m} /\ \A r \in live : r > m => kind[r] = "rolling"
      BY <2>1
    <3>2. pc' = "done"
      BY <1>1, <2>1, NowhereAssumption DEF Requests
    <3>3. Range(out') = {m} /\ out' # <<>>
      BY <1>1, <1>3, <3>1, NothingInRange
    <3>4. Len(out') > 0
      BY <1>1, <3>3
    <3>5. out'[1] \in Range(out')
      BY <1>1, <3>4, RangeEquality
    <3>. QED
      BY <3>1, <3>2, <3>3, <3>5
  <2>2. pc' = "done" => request' = request
    BY <1>1
  <2>3. UNCHANGED <<plan, live, made, kind, orderly, began>>
    BY DEF Server, server
  <2>4. LatestIsNewestComparable'
    <3>. SUFFICES ASSUME plan.take = "first", request'.at = 1, Undisturbed, made = began, pc' = "done"
                  PROVE  \A r \in live : r > out'[1] => kind[r] = "rolling"
      BY <1>1, <1>6, <2>3 DEF LatestIsNewestComparable
    <3>. QED
      BY <2>1, <2>2
  <2>. QED
    BY <1>1, <2>4 DEF FirstPage
<1>. QED
  BY <1>5, <1>7, <1>10, <1>11 DEF IInv

LEMMA FirstStep == ASSUME IInv, pc = "body", ParseFirst, UNCHANGED Server PROVE IInv'
<1>. DEFINE tagged == {r \in Listed : kind[r] # "rolling"}
            AtFirst == plan.take = "first" /\ request.at = 1 /\ Undisturbed /\ made = began
<1>1. /\ ~Listings /\ Types /\ TypeOK /\ Walking /\ plan.take = "first"
      /\ made \in Nat /\ live \in SUBSET (1..made) /\ Listed \in SUBSET (1..made)
  BY Basics DEF ParseFirst, Listings, Walking
<1>2. AtFirst => Listed = PageOf(1)
  BY DEF IInv, FirstPage
<1>3. CASE tagged = {}
  <2>1. AtFirst => \A r \in PageOf(1) : kind[r] = "rolling"
    BY <1>2, <1>3
  <2>. QED
    BY <1>1, <1>3, <2>1, FailStep DEF ParseFirst
<1>4. CASE tagged # {}
  <2>. DEFINE m == Max(tagged)
  <2>1. m \in tagged /\ \A r \in tagged : r <= m
    <3>0. \A r \in 1..made : r \in 0..made
      BY <1>1
    <3>1. tagged \in SUBSET (0..made)
      BY <1>1, <3>0
    <3>. QED
      BY <1>1, <1>4, <3>1, Greatest
  <2>2. CASE kind[m] = "malformed"
    BY <1>1, <1>4, <2>2, FailStep DEF ParseFirst
  <2>3. CASE kind[m] # "malformed"
    <3>1. Keep(Page({m}, Nowhere, FALSE))
      BY <1>4, <2>3 DEF ParseFirst
    <3>. HIDE DEF m
    <3>2. m \in 1..made /\ kind[m] \in Comparable
      BY <1>1, <2>1, <2>3 DEF TypeOK, Kinds, Comparable
    <3>3. ASSUME AtFirst, NEW r \in live, r > m PROVE kind[r] = "rolling"
      <4>1. m \in PageOf(1) /\ m \in Nat /\ r \in Nat
        BY <1>1, <1>2, <2>1, <3>3
      <4>2. m \in live /\ Position(m) <= 1 * PageSize /\ 1 * PageSize \in Nat
        BY <4>1, PagesFollow, Positions, <1>1 DEF PageOf
      <4>3. Position(r) >= 1 /\ Position(r) \in Nat /\ Position(m) \in Nat /\ Position(r) <= Position(m)
        BY <1>1, <3>3, <4>1, Positions
      <4>4. (1 - 1) * PageSize = 0
        BY PagesFollow DEF Before
      <4>5. r \in PageOf(1)
        BY <4>2, <4>3, <4>4 DEF PageOf
      <4>6. r \in tagged => r <= m
        BY <2>1
      <4>. QED
        BY <1>2, <3>3, <4>1, <4>5, <4>6
    <3>4. AtFirst => \E k \in {m} : {m} = {k} /\ \A r \in live : r > k => kind[r] = "rolling"
      BY <3>3
    <3>. QED
      BY <1>1, <3>1, <3>2, <3>4, SingleStep
  <2>. QED
    BY <2>2, <2>3
<1>. QED
  BY <1>3, <1>4

LEMMA ObjectStep == ASSUME IInv, pc = "body", ParseObject, UNCHANGED Server PROVE IInv'
<1>1. request.at = 0
  BY DEF ParseObject
<1>2. /\ Types /\ TypeOK /\ Walking /\ ~Listings /\ request \in Requests
      /\ made \in Nat /\ Listed \in SUBSET (1..made)
  BY <1>1, Basics DEF Types, Walking
<1>3. CASE KindsOf(Listed) \subseteq Comparable
  <2>1. Keep(Page(Listed, Nowhere, FALSE)) /\ \A x \in Listed : kind[x] \in Comparable
    BY <1>2, <1>3, NowhereAssumption DEF ParseObject, KindsOf, Types, Listed
  <2>2. Nowhere \in Requests \union {Nowhere} /\ request.at # 1
    BY <1>1
  <2>. QED
    BY <1>2, <2>1, <2>2, SingleStep
<1>4. CASE ~(KindsOf(Listed) \subseteq Comparable) /\ KindsOf(Listed) = {"rolling"} /\ plan.take = "first"
  <2>. DEFINE next == [at |-> 1, host |-> request.host]
  <2>1. Keep(Page({}, next, FALSE))
    BY <1>4 DEF ParseObject
  <2>2. next \in Requests /\ next.at > 0 /\ {} \in SUBSET (1..made)
    BY <1>2 DEF Requests
  <2>. HIDE DEF next
  <2>3. next \in Requests \union {Nowhere} /\ request.at # 1 /\ \A x \in {} : kind[x] \in Comparable
    BY <1>1, <2>2
  <2>. QED
    BY <1>2, <2>1, <2>2, <2>3, SingleStep
<1>5. CASE ~(KindsOf(Listed) \subseteq Comparable) /\ ~(KindsOf(Listed) = {"rolling"} /\ plan.take = "first")
  BY <1>2, <1>5, FailStep DEF ParseObject
<1>. QED
  BY <1>3, <1>4, <1>5

LEMMA CreateStep == ASSUME IInv, Create PROVE IInv'
<1>1. /\ Walking /\ made < MaxRelease /\ made' = made + 1 /\ live' = live \union {made + 1}
      /\ UNCHANGED <<driver, plan, orderly, began>>
  BY DEF Create
<1>2. PICK k \in Kinds : kind' = Append(kind, k)
  BY DEF Create
<1>3. /\ Types /\ TypeOK /\ made \in Nat /\ live \in SUBSET (1..made) /\ began \in 0..made
      /\ out \in Seq(1..made) /\ kind \in [1..made -> Kinds]
  BY Basics
<1>4. /\ pc' = pc /\ request' = request /\ authorized' = authorized /\ answer' = answer /\ out' = out
      /\ pages' = pages /\ attempts' = attempts /\ error' = error /\ capped' = capped
      /\ plan' = plan /\ orderly' = orderly /\ began' = began
  BY <1>1 DEF driver
<1>5. kind' \in [1..made' -> Kinds] /\ \A r \in 1..made : kind'[r] = kind[r]
  <2>1. kind \in Seq(Kinds) /\ Len(kind) = made
    BY <1>3
  <2>2. kind' \in Seq(Kinds) /\ Len(kind') = made + 1 /\ \A r \in 1..made : kind'[r] = kind[r]
    <3>. HIDE DEF Kinds
    <3>. QED
      BY <1>2, <2>1
  <2>. QED
    BY <1>1, <2>2
<1>6. \A r \in 1..made : r \in 1..made'
  BY <1>1, <1>3
<1>7. TypeOK'
  <2>1. out' \in Seq(1..made')
    BY <1>3, <1>4, <1>6, SeqOfPart
  <2>2. answer' \in [listed : SUBSET (1..made'), next : Requests \union {Nowhere}]
    BY <1>3, <1>4, <1>6 DEF TypeOK
  <2>3. made' \in 0..MaxRelease /\ live' \subseteq 1..made' /\ began' \in 0..made'
    BY <1>1, <1>3, <1>4, SizeAssumption
  <2>. QED
    BY <1>3, <1>4, <1>5, <2>1, <2>2, <2>3 DEF TypeOK
<1>8. Types'
  <2>1. pc # "idle"
    BY <1>1 DEF Walking
  <2>. QED
    BY <1>3, <1>4, <1>6, <1>7, <2>1 DEF Types, Walking, Listings
<1>10. RollingTagsAreHarmless'
  BY <1>4, <1>5, <1>6 DEF IInv, RollingTagsAreHarmless
<1>11. made' # began'
  BY <1>1, <1>3, <1>4
<1>12. InOrder' /\ FirstPage'
  BY <1>11 DEF InOrder, FirstPage, LatestIsNewestComparable
<1>13. KindsTaken'
  <2>1. \A x \in Range(out) : x \in 1..made
    BY <1>3, RangeOfSeq
  <2>. QED
    BY <1>4, <1>5, <2>1 DEF IInv, KindsTaken
<1>14. Complete'
  <2>. SUFFICES ASSUME Listings, Undisturbed' PROVE Complete'
    BY <1>4 DEF Complete, Listings
  <2>1. Undisturbed
    <3>1. orderly /\ live \union {made + 1} = 1..(made + 1)
      BY <1>1, <1>4 DEF Undisturbed
    <3>2. ASSUME NEW r \in 1..made PROVE r \in live
      <4>1. r \in 1..(made + 1) /\ r # made + 1
        BY <1>3
      <4>. QED
        BY <3>1, <4>1
    <3>. QED
      BY <1>3, <3>1, <3>2 DEF Undisturbed
  <2>2. ASSUME NEW r \in 1..began
        PROVE  Wanted(r)' = Wanted(r) /\ Position(r) \in Nat /\ Position(r)' \in Nat /\ Position(r) <= Position(r)'
    <3>1. r \in 1..made /\ r \in Nat
      BY <1>3
    <3>2. Wanted(r)' = Wanted(r)
      BY <1>4, <1>5, <3>1 DEF Wanted
    <3>3. made' \in Nat /\ live' \in SUBSET (1..made') /\ live \in SUBSET live'
      BY <1>1, <1>3
    <3>4. Position(r) \in Nat /\ Position(r)' \in Nat /\ Position(r) <= Position(r)'
      <4>. DEFINE L == live'  M == live  n == made'
      <4>1. n \in Nat /\ L \in SUBSET (1..n) /\ M \in SUBSET L /\ r \in Nat /\ r <= r
        BY <3>1, <3>3
      <4>2. Position(r) = Cardinality({s \in M : s >= r}) /\ Position(r)' = Cardinality({s \in L : s >= r})
        BY DEF Position
      <4>. HIDE DEF L, M, n
      <4>. QED
        BY <4>1, <4>2, CountAbove
    <3>. QED
      BY <3>2, <3>4
  <2>3. Walking => request.at \in Nat \ {0}
    BY <1>3 DEF Types, Requests
  <2>4. Walking => Before(request.at) \in Nat /\ request.at * PageSize \in Nat
    BY <2>3, PagesFollow
  <2>. QED
    BY <1>4, <2>1, <2>2, <2>4 DEF IInv, Complete, Walking, Listed
<1>. QED
  BY <1>8, <1>10, <1>12, <1>13, <1>14 DEF IInv

LEMMA DeleteStep == ASSUME IInv, Delete PROVE IInv'
<1>1. PICK d \in live : live' = live \ {d}
  BY DEF Delete
<1>2. Walking /\ UNCHANGED <<driver, plan, made, kind, orderly, began>>
  BY DEF Delete
<1>3. /\ Types /\ TypeOK /\ made \in Nat /\ live \in SUBSET (1..made)
  BY Basics
<1>4. /\ pc' = pc /\ request' = request /\ authorized' = authorized /\ answer' = answer /\ out' = out
      /\ pages' = pages /\ attempts' = attempts /\ error' = error /\ capped' = capped
      /\ plan' = plan /\ orderly' = orderly /\ began' = began /\ made' = made /\ kind' = kind
  BY <1>2 DEF driver
<1>5. TypeOK'
  BY <1>1, <1>3, <1>4 DEF TypeOK
<1>6. Types'
  <2>1. pc # "idle"
    BY <1>2 DEF Walking
  <2>. QED
    BY <1>3, <1>4, <1>5, <2>1 DEF Types, Walking, Listings
<1>7. RollingTagsAreHarmless' /\ KindsTaken'
  BY <1>4 DEF IInv, RollingTagsAreHarmless, KindsTaken, Walking
<1>8. ~Undisturbed'
  BY <1>1, <1>3, <1>4 DEF Undisturbed
<1>9. Complete' /\ FirstPage'
  BY <1>8 DEF Complete, FirstPage, LatestIsNewestComparable
<1>10. InOrder'
  <2>1. ASSUME NEW r \in live'
        PROVE  r \in live /\ Position(r) \in Nat /\ Position(r)' \in Nat /\ Position(r)' <= Position(r)
    <3>1. r \in live /\ r \in Nat /\ live' \in SUBSET live
      BY <1>1, <1>3
    <3>2. Position(r) \in Nat /\ Position(r)' \in Nat /\ Position(r)' <= Position(r)
      <4>. DEFINE L == live  M == live'
      <4>1. made \in Nat /\ L \in SUBSET (1..made) /\ M \in SUBSET L /\ r \in Nat /\ r <= r
        BY <1>3, <3>1
      <4>2. Position(r)' = Cardinality({s \in M : s >= r}) /\ Position(r) = Cardinality({s \in L : s >= r})
        BY DEF Position
      <4>. HIDE DEF L, M
      <4>. QED
        BY <4>1, <4>2, CountAbove
    <3>. QED
      BY <3>1, <3>2
  <2>2. Walking /\ request.at > 0 => Before(request.at) \in Nat /\ request.at * PageSize \in Nat
    BY <1>3, PagesFollow DEF Types, Requests
  <2>. QED
    BY <1>4, <2>1, <2>2 DEF IInv, InOrder, Walking, Listed
<1>. QED
  BY <1>6, <1>7, <1>9, <1>10 DEF IInv

LEMMA StutterStep == ASSUME IInv, UNCHANGED vars PROVE IInv'
<1>1. /\ UNCHANGED Server
      /\ UNCHANGED <<pc, request, authorized, answer, out, pages, attempts, error, capped>>
      /\ UNCHANGED <<plan, live, made, kind, orderly, began>>
  BY DEF vars, Server, server, driver
<1>2. /\ \A r : Position(r)' = Position(r) /\ Wanted(r)' = Wanted(r)
      /\ Undisturbed' = Undisturbed /\ Listings' = Listings
      /\ \A k : PageOf(k)' = PageOf(k)
  BY <1>1, ServerStays
<1>3. Types'
  BY <1>1, <1>2 DEF IInv, Types, TypeOK, Walking
<1>4. RollingTagsAreHarmless' /\ KindsTaken'
  BY <1>1 DEF IInv, RollingTagsAreHarmless, KindsTaken, Walking
<1>5. InOrder' /\ Complete'
  BY <1>1, <1>2 DEF IInv, InOrder, Complete, Walking, Listed
<1>6. FirstPage'
  BY <1>1, <1>2 DEF IInv, FirstPage, LatestIsNewestComparable, Listed
<1>. QED
  BY <1>3, <1>4, <1>5, <1>6 DEF IInv

LEMMA NextIInv == IInv /\ [Next]_vars => IInv'
<1>1. ASSUME IInv, Parse PROVE IInv'
  BY <1>1, ListingStep, FirstStep, ObjectStep DEF Parse, Server
<1>. QED
  BY <1>1, StartStep, ServePageStep, ServeObjectStep, LoseStep, CreateStep, DeleteStep, StutterStep
  DEF Next

LEMMA SpecIInv == Spec => []IInv
BY InitIInv, NextIInv, PTL DEF Spec


-----------------------------------------------------------------------------
(* Type correctness: whatever the server does, what a walk holds are       *)
(* releases that were created, its pages and retries are within their      *)
(* limits, and it asks for pages that exist (run_paginated).               *)
THEOREM TypeCorrect == Spec => []TypeOK
<1>1. IInv => TypeOK
  BY DEF IInv, Types
<1>. QED
  BY <1>1, SpecIInv, PTL

(* For every size of a page, number of releases and cap: a walk that ends  *)
(* well, undisturbed and below the cap, has every release that was there   *)
(* when it began, once and newest first (run_paginated with                *)
(* release_array_page).                                                    *)
THEOREM WalkIsComplete == Spec => []NothingMissed
<1>1. IInv => NothingMissed
  <2>. SUFFICES ASSUME IInv PROVE NothingMissed
    OBVIOUS
  <2>1. ASSUME NEW i \in DOMAIN out PROVE out[i] \in Range(out)
    BY DEF Range
  <2>2. pc = "done" /\ Listings /\ Undisturbed /\ ~capped => \A r \in 1..began : Wanted(r) => r \in Range(out)
    BY DEF IInv, Complete
  <2>3. orderly /\ made = began => \A i, j \in DOMAIN out : i < j => out[i] > out[j]
    BY DEF IInv, InOrder
  <2>4. \A i \in DOMAIN out : kind[out[i]] \in (IF plan.take = "newer" THEN {"newer"} ELSE Comparable)
    BY <2>1 DEF IInv, KindsTaken
  <2>. QED
    BY <2>2, <2>3, <2>4 DEF NothingMissed, Listings
<1>. QED
  BY <1>1, SpecIInv, PTL

(* A listing fails for what it holds only if it holds a release that       *)
(* cannot be read (release_array_page with into_release).                  *)
THEOREM RollingTagsAreSkipped == Spec => []RollingTagsAreHarmless
<1>1. IInv => RollingTagsAreHarmless
  BY DEF IInv
<1>. QED
  BY <1>1, SpecIInv, PTL

(* The newest release that is taken from the first page of a listing is    *)
(* the newest of all that can be compared (newest_plan).                   *)
THEOREM LatestIsNewest == Spec => []LatestIsNewestComparable
<1>1. IInv => LatestIsNewestComparable
  BY DEF IInv, FirstPage
<1>. QED
  BY <1>1, SpecIInv, PTL

-----------------------------------------------------------------------------
(* Of any numbers there is a greatest.                                     *)

Topped == {n \in Nat : \A f \in [1..n -> Nat] :
             n = 0 \/ \E i \in 1..n : \A j \in 1..n : f[j] <= f[i]}

LEMMA EveryTopped == Topped = Nat
<1>1. 0 \in Topped
  BY DEF Topped
<1>2. ASSUME NEW n \in Topped PROVE n + 1 \in Topped
  <2>0. n \in Nat
    BY DEF Topped
  <2>1. ASSUME NEW f \in [1..(n + 1) -> Nat]
        PROVE  \E i \in 1..(n + 1) : \A j \in 1..(n + 1) : f[j] <= f[i]
    <3>1. CASE n = 0
      BY <3>1
    <3>2. CASE n # 0
      <4>. DEFINE g == [i \in 1..n |-> f[i]]
      <4>1. g \in [1..n -> Nat] /\ \A i \in 1..n : g[i] = f[i] /\ i \in 1..(n + 1)
        BY <2>0
      <4>. HIDE DEF g
      <4>2. PICK i \in 1..n : \A j \in 1..n : g[j] <= g[i]
        BY <3>2, <4>1 DEF Topped
      <4>3. \A j \in 1..(n + 1) : f[j] \in Nat /\ (j \in 1..n \/ j = n + 1)
        BY <2>0
      <4>4. CASE f[n + 1] <= f[i]
        <5>1. \A j \in 1..(n + 1) : f[j] <= f[i]
          BY <4>1, <4>2, <4>3, <4>4
        <5>. QED
          BY <4>1, <5>1
      <4>5. CASE ~(f[n + 1] <= f[i])
        <5>1. n + 1 \in 1..(n + 1) /\ f[n + 1] \in Nat /\ f[i] \in Nat
          BY <2>0, <4>1
        <5>2. \A j \in 1..(n + 1) : f[j] <= f[n + 1]
          BY <4>1, <4>2, <4>3, <4>5, <5>1
        <5>. QED
          BY <5>1, <5>2
      <4>. QED
        BY <4>4, <4>5
    <3>. QED
      BY <3>1, <3>2
  <2>2. \A f \in [1..(n + 1) -> Nat] :
          n + 1 = 0 \/ \E i \in 1..(n + 1) : \A j \in 1..(n + 1) : f[j] <= f[i]
    BY <2>1
  <2>3. n + 1 \in Nat
    BY <2>0
  <2>. QED
    BY <2>2, <2>3 DEF Topped
<1>3. Topped \in SUBSET Nat
  BY DEF Topped
<1>. QED
  BY <1>1, <1>2, <1>3, Induction

-----------------------------------------------------------------------------
(* Releases and their assets.                                              *)

Items == [release : Rels, assets : Seq(1..Keys)]

(* Key k is asset a of release i.                                          *)
At(s, i, a, k) == i \in DOMAIN s /\ a \in DOMAIN s[i].assets /\ s[i].assets[a] = k

LEMMA AtJoined ==
  ASSUME NEW s \in Seq(Items), NEW t \in Seq(Items)
  PROVE  /\ s \o t \in Seq(Items)
         /\ \A i, a, k : At(s \o t, i, a, k) =>
              \/ At(s, i, a, k) /\ (s \o t)[i] = s[i]
              \/ At(t, i - Len(s), a, k) /\ (s \o t)[i] = t[i - Len(s)] /\ i \in Nat
         /\ \A i, a, k : At(s, i, a, k) => At(s \o t, i, a, k)
         /\ \A i, a, k : At(t, i, a, k) => At(s \o t, i + Len(s), a, k)
<1>. DEFINE u == s \o t
<1>1. /\ u \in Seq(Items) /\ Len(u) = Len(s) + Len(t) /\ Len(s) \in Nat /\ Len(t) \in Nat
      /\ DOMAIN s = 1..Len(s) /\ DOMAIN t = 1..Len(t) /\ DOMAIN u = 1..Len(u)
      /\ \A i \in 1..Len(s) : u[i] = s[i]
      /\ \A i \in 1..Len(t) : u[i + Len(s)] = t[i]
  <2>. HIDE DEF Items
  <2>. QED
    OBVIOUS
<1>. HIDE DEF u
<1>2. \A i \in 1..Len(u) : i \in 1..Len(s) \/ (i - Len(s) \in 1..Len(t) /\ (i - Len(s)) + Len(s) = i)
  BY <1>1
<1>3. /\ \A i \in 1..Len(s) : i \in 1..Len(u)
      /\ \A i \in 1..Len(t) : i + Len(s) \in 1..Len(u)
  BY <1>1
<1>4. \A i \in 1..Len(u) : i \in Nat
  BY <1>1
<1>5. ASSUME NEW i, NEW a, NEW k, At(u, i, a, k)
      PROVE  \/ At(s, i, a, k) /\ u[i] = s[i]
             \/ At(t, i - Len(s), a, k) /\ u[i] = t[i - Len(s)] /\ i \in Nat
  <2>1. i \in 1..Len(u) /\ i \in Nat
    BY <1>1, <1>4, <1>5 DEF At
  <2>2. CASE i \in 1..Len(s)
    BY <1>1, <1>5, <2>2 DEF At
  <2>3. CASE i - Len(s) \in 1..Len(t) /\ (i - Len(s)) + Len(s) = i
    <3>1. u[i] = t[i - Len(s)]
      BY <1>1, <2>3
    <3>. QED
      BY <1>1, <1>5, <2>1, <2>3, <3>1 DEF At
  <2>. QED
    BY <1>2, <2>1, <2>2, <2>3
<1>6. \A i, a, k : At(s, i, a, k) => At(u, i, a, k)
  BY <1>1, <1>3 DEF At
<1>7. \A i, a, k : At(t, i, a, k) => At(u, i + Len(s), a, k)
  BY <1>1, <1>3 DEF At
<1>. QED
  BY <1>1, <1>5, <1>6, <1>7 DEF u

(* What the keys of a page are grouped into.                               *)
LEMMA GroupedIs ==
  ASSUME NEW K \in SUBSET (1..Keys), \A k \in K : rel[k] \in Rels
  PROVE  /\ Grouped(K) \in Seq(Items)
         /\ \A i, a, k : At(Grouped(K), i, a, k) => k \in K /\ Grouped(K)[i].release = rel[k]
         /\ \A k \in K : \E i, a : At(Grouped(K), i, a, k)
         /\ \A i, j \in DOMAIN Grouped(K) : Grouped(K)[i].release = Grouped(K)[j].release => i = j
         /\ \A i, a, b, k : At(Grouped(K), i, a, k) /\ At(Grouped(K), i, b, k) => a = b
<1>. DEFINE F == {k \in K : \A l \in K : l < k => ~SameRelease(l, k)}
            f == Ascending(F)
            n == Len(f)
            Same(k) == {l \in K : SameRelease(k, l)}
            G == Grouped(K)
<1>0. Keys \in Nat
  BY KeysAssumption
<1>1. F \in SUBSET (1..Keys) /\ F \in SUBSET K /\ \A k : Same(k) \in SUBSET (1..Keys)
  OBVIOUS
<1>. HIDE DEF F
<1>2. /\ f \in Seq(F) /\ n \in Nat /\ Range(f) = F
      /\ \A i, j \in 1..n : i < j => f[i] < f[j]
  BY <1>0, <1>1, AscendingIs
<1>3. G = [i \in DOMAIN f |-> [release |-> rel[f[i]], assets |-> Descending(Same(f[i]))]]
  BY DEF Grouped, F
<1>. HIDE DEF f, G
<1>4. DOMAIN f = 1..n /\ \A i \in 1..n : f[i] \in F
  BY <1>2
<1>5. ASSUME NEW k \in K
      PROVE  /\ Descending(Same(k)) \in Seq(1..Keys)
             /\ Range(Descending(Same(k))) = Same(k)
             /\ \A a, b \in DOMAIN Descending(Same(k)) :
                  Descending(Same(k))[a] = Descending(Same(k))[b] => a = b
  <2>. DEFINE S == Same(k)  d == Descending(S)
  <2>1. S \in SUBSET (1..Keys)
    BY <1>1
  <2>. HIDE DEF S
  <2>2. /\ d \in Seq(S) /\ Range(d) = S
        /\ \A i, j \in 1..Len(d) : i < j => d[i] > d[j]
    BY <1>0, <2>1, DescendingIs
  <2>. HIDE DEF d
  <2>3. /\ d \in Seq(1..Keys) /\ DOMAIN d = 1..Len(d) /\ Len(d) \in Nat
        /\ \A a \in 1..Len(d) : d[a] \in Nat
    <3>1. \A x \in S : x \in 1..Keys /\ x \in Nat
      BY <1>0, <2>1
    <3>2. DOMAIN d = 1..Len(d) /\ Len(d) \in Nat /\ \A a \in 1..Len(d) : d[a] \in S
      BY <2>2
    <3>3. d \in [1..Len(d) -> 1..Keys]
      <4>1. d = [a \in 1..Len(d) |-> d[a]]
        BY <2>2
      <4>. QED
        BY <3>1, <3>2, <4>1
    <3>. QED
      BY <3>1, <3>2, <3>3, SeqDef
  <2>4. ASSUME NEW a \in 1..Len(d), NEW b \in 1..Len(d), d[a] = d[b] PROVE a = b
    <3>1. ~(d[a] > d[b]) /\ ~(d[b] > d[a])
      BY <2>3, <2>4
    <3>2. ~(a < b) /\ ~(b < a)
      BY <2>2, <3>1
    <3>. QED
      BY <3>2, <2>3
  <2>. QED
    BY <2>2, <2>3, <2>4 DEF d, S
<1>6. /\ DOMAIN G = 1..n
      /\ \A i \in 1..n : f[i] \in K /\ G[i].release = rel[f[i]] /\ G[i].assets = Descending(Same(f[i]))
      /\ G \in Seq(Items)
  <2>1. DOMAIN G = 1..n
    BY <1>3, <1>4
  <2>2. ASSUME NEW i \in 1..n
        PROVE  /\ f[i] \in K /\ G[i].release = rel[f[i]] /\ G[i].assets = Descending(Same(f[i]))
               /\ G[i] \in Items
    <3>1. f[i] \in K
      BY <1>1, <1>4
    <3>2. rel[f[i]] \in Rels /\ Descending(Same(f[i])) \in Seq(1..Keys)
      BY <1>5, <3>1
    <3>. HIDE DEF Same
    <3>3. G[i] = [release |-> rel[f[i]], assets |-> Descending(Same(f[i]))]
      BY <1>3, <1>4
    <3>. QED
      BY <3>1, <3>2, <3>3 DEF Items
  <2>3. G \in Seq(Items)
    <3>. HIDE DEF Items
    <3>1. G \in [1..n -> Items]
      <4>1. G = [i \in 1..n |-> G[i]]
        BY <1>3, <1>4
      <4>. QED
        BY <2>2, <4>1
    <3>. QED
      BY <1>2, <3>1, SeqDef
  <2>. QED
    BY <2>1, <2>2, <2>3
<1>7. ASSUME NEW i, NEW a, NEW k, At(G, i, a, k) PROVE i \in 1..n /\ k \in K /\ G[i].release = rel[k]
  <2>. DEFINE d == Descending(Same(f[i]))
  <2>1. i \in 1..n /\ f[i] \in K /\ G[i].assets = d /\ G[i].release = rel[f[i]]
    BY <1>6, <1>7 DEF At
  <2>2. a \in DOMAIN d /\ d[a] = k
    BY <1>7, <2>1 DEF At
  <2>3. Range(d) = Same(f[i])
    BY <1>5, <2>1
  <2>. HIDE DEF d
  <2>4. k \in Same(f[i])
    BY <2>2, <2>3 DEF Range
  <2>. QED
    BY <2>1, <2>4 DEF SameRelease
<1>8. ASSUME NEW k \in K PROVE \E i, a : At(G, i, a, k)
  <2>. DEFINE m == Min(Same(k))
  <2>0. k \in Same(k) /\ Same(k) \in SUBSET Nat
    <3>1. \A l \in K : l \in Nat
      BY <1>0
    <3>2. SameRelease(k, k)
      BY DEF SameRelease
    <3>. QED
      BY <3>1, <3>2
  <2>1. m \in Same(k) /\ \A l \in Same(k) : m <= l
    <3>. HIDE DEF Same
    <3>. QED
      BY <2>0, Least
  <2>. HIDE DEF m
  <2>2. m \in K /\ rel[m] = rel[k] /\ m \in Nat
    BY <2>0, <2>1 DEF SameRelease
  <2>3. ASSUME NEW l \in K, l < m PROVE rel[l] # rel[m]
    <3>1. rel[l] = rel[k] => l \in Same(k)
      BY DEF SameRelease
    <3>2. l \in Nat
      BY <1>0
    <3>. HIDE DEF Same
    <3>3. l \in Same(k) => m <= l
      BY <2>1
    <3>. QED
      BY <2>2, <2>3, <3>1, <3>2, <3>3
  <2>4. m \in F
    BY <2>2, <2>3 DEF F, SameRelease
  <2>5. PICK i \in 1..n : f[i] = m
    BY <1>2, <1>4, <2>4 DEF Range
  <2>. DEFINE d == Descending(Same(f[i]))
  <2>6. k \in Same(f[i])
    BY <2>2, <2>5 DEF SameRelease
  <2>7. Range(d) = Same(f[i]) /\ G[i].assets = d
    BY <1>5, <1>6
  <2>. HIDE DEF d
  <2>8. PICK a \in DOMAIN d : d[a] = k
    BY <2>6, <2>7 DEF Range
  <2>. QED
    BY <1>6, <2>7, <2>8 DEF At
<1>9. ASSUME NEW i \in DOMAIN G, NEW j \in DOMAIN G, G[i].release = G[j].release PROVE i = j
  <2>1. i \in 1..n /\ j \in 1..n /\ f[i] \in F /\ f[j] \in F /\ rel[f[i]] = rel[f[j]]
    BY <1>4, <1>6, <1>9
  <2>2. ~(f[i] < f[j]) /\ ~(f[j] < f[i])
    BY <2>1 DEF F, SameRelease
  <2>3. ~(i < j) /\ ~(j < i)
    BY <1>2, <2>1, <2>2
  <2>. QED
    BY <1>2, <2>1, <2>3
<1>10. ASSUME NEW i, NEW a, NEW b, NEW k, At(G, i, a, k), At(G, i, b, k) PROVE a = b
  <2>. DEFINE d == Descending(Same(f[i]))
  <2>1. f[i] \in K /\ G[i].assets = d
    BY <1>6, <1>10 DEF At
  <2>2. a \in DOMAIN d /\ b \in DOMAIN d /\ d[a] = d[b]
    BY <1>10, <2>1 DEF At
  <2>. QED
    BY <1>5, <2>1, <2>2
<1>. QED
  BY <1>6, <1>7, <1>8, <1>9, <1>10 DEF G

-----------------------------------------------------------------------------
(* The invariant of ObjectStore.                                           *)

BucketTypes ==
  /\ pc \in {"idle", "request", "body", "done", "failed"}
  /\ rel \in [1..Keys -> Rels \union {Unmatched}]
  /\ stored \in SUBSET (1..Keys) /\ ever \in SUBSET (1..Keys)
  /\ steady \in SUBSET stored /\ stored \in SUBSET ever
  /\ out \in Seq(Items)
  /\ pages \in Nat
  /\ pc = "idle" => out = <<>> /\ pages = 0
  /\ Walking => request \in [at : 0..Keys, host : Hosts]
  /\ pc = "body" => /\ answer.listed \in SUBSET (1..Keys)
                    /\ answer.next \in [at : 0..Keys, host : Hosts] \union {Nowhere}

(* An asset is a key of its own release, and no two are of one key.        *)
Own ==
  \A i \in DOMAIN out : \A a \in DOMAIN out[i].assets :
    out[i].assets[a] \in ever /\ rel[out[i].assets[a]] = out[i].release

Once ==
  \A i, j \in DOMAIN out : \A a \in DOMAIN out[i].assets, b \in DOMAIN out[j].assets :
    out[i].assets[a] = out[j].assets[b] => i = j /\ a = b

(* What is there comes before what is asked for, and that before the rest. *)
Passed ==
  /\ Walking => \A i \in DOMAIN out : \A a \in DOMAIN out[i].assets : out[i].assets[a] <= request.at
  /\ pc = "body" => \A k \in answer.listed :
       k \in ever /\ k > request.at /\ (answer.next # Nowhere => k <= answer.next.at)
  /\ pc = "body" /\ answer.next # Nowhere => answer.next.at > request.at

Placed(k) == \E i \in DOMAIN out : \E a \in DOMAIN out[i].assets : out[i].assets[a] = k

AllPlaced ==
  \A k \in steady : rel[k] # Unmatched =>
    /\ Walking /\ k <= request.at => Placed(k)
    /\ pc = "body" /\ k > request.at /\ (answer.next = Nowhere \/ k <= answer.next.at) =>
         k \in answer.listed
    /\ pc = "done" /\ ~capped => Placed(k)

Merged == (pages = 0 => out = <<>>) /\ MergedWithinPage

BucketInv == BucketTypes /\ Own /\ Once /\ Passed /\ AllPlaced /\ Merged

LEMMA EndpointIs == Endpoint \in Hosts
BY EndpointAssumption DEF Endpoint

LEMMA AfterIs ==
  ASSUME NEW k \in 0..Keys
  PROVE  /\ After(k) \in [at : 0..Keys, host : Hosts] /\ After(k).at = k
         /\ After(k) # Nowhere
<1>1. k \in Nat /\ Endpoint \in Hosts
  BY KeysAssumption, EndpointIs
<1>2. After(k) \in [at : 0..Keys, host : Hosts] /\ After(k) \in [at : Nat, host : Hosts]
  BY <1>1 DEF After
<1>. QED
  BY <1>2, NowhereAssumption DEF After

(* The invariant in terms of places.                                       *)
LEMMA OwnAt ==
  /\ Own <=> \A i, a, k : At(out, i, a, k) => k \in ever /\ rel[k] = out[i].release
  /\ Once <=> \A i, j, a, b, k : At(out, i, a, k) /\ At(out, j, b, k) => i = j /\ a = b
  /\ \A k : Placed(k) <=> \E i, a : At(out, i, a, k)
  /\ \A n : (\A i \in DOMAIN out : \A a \in DOMAIN out[i].assets : out[i].assets[a] <= n)
            <=> \A i, a, k : At(out, i, a, k) => k <= n
<1>1. Own <=> \A i, a, k : At(out, i, a, k) => k \in ever /\ rel[k] = out[i].release
  BY DEF Own, At
<1>2. Once <=> \A i, j, a, b, k : At(out, i, a, k) /\ At(out, j, b, k) => i = j /\ a = b
  <2>1. ASSUME Once, NEW i, NEW j, NEW a, NEW b, NEW k, At(out, i, a, k), At(out, j, b, k)
        PROVE  i = j /\ a = b
    BY <2>1 DEF Once, At
  <2>2. ASSUME \A i, j, a, b, k : At(out, i, a, k) /\ At(out, j, b, k) => i = j /\ a = b,
               NEW i \in DOMAIN out, NEW j \in DOMAIN out, NEW a \in DOMAIN out[i].assets,
               NEW b \in DOMAIN out[j].assets, out[i].assets[a] = out[j].assets[b]
        PROVE  i = j /\ a = b
    <3>1. At(out, i, a, out[i].assets[a]) /\ At(out, j, b, out[i].assets[a])
      BY <2>2 DEF At
    <3>. QED
      BY <2>2, <3>1
  <2>. QED
    BY <2>1, <2>2 DEF Once
<1>3. \A k : Placed(k) <=> \E i, a : At(out, i, a, k)
  BY DEF Placed, At
<1>4. \A n : (\A i \in DOMAIN out : \A a \in DOMAIN out[i].assets : out[i].assets[a] <= n)
            <=> \A i, a, k : At(out, i, a, k) => k <= n
  BY DEF At
<1>. QED
  BY <1>1, <1>2, <1>3, <1>4

LEMMA InitBucketInv == BucketInit => BucketInv
<1>. SUFFICES ASSUME BucketInit PROVE BucketInv
  OBVIOUS
<1>1. out = <<>> /\ pages = 0 /\ pc = "idle" /\ DOMAIN out = {}
  BY DEF BucketInit, InitDriver
<1>2. out \in Seq(Items)
  BY <1>1
<1>3. BucketTypes
  BY <1>1, <1>2 DEF BucketInit, InitDriver, BucketTypes, Walking
<1>4. Own /\ Once /\ Passed /\ AllPlaced /\ Merged
  BY <1>1 DEF Own, Once, Passed, AllPlaced, Merged, MergedWithinPage, Walking
<1>. QED
  BY <1>3, <1>4 DEF BucketInv

LEMMA BucketStartStep == ASSUME BucketInv, BucketStart PROVE BucketInv'
<1>1. /\ pc = "idle" /\ pc' = "request" /\ request' = After(0)
      /\ UNCHANGED <<answer, out, pages, error, capped, stored, rel, edits, steady, ever>>
  BY DEF BucketStart, Begin, Ask, bucket
<1>2. BucketTypes /\ out = <<>> /\ pages = 0 /\ DOMAIN out = {}
  BY <1>1 DEF BucketInv, BucketTypes
<1>3. 0 \in 0..Keys
  BY KeysAssumption
<1>4. request' \in [at : 0..Keys, host : Hosts] /\ request'.at = 0
  BY <1>1, <1>3, AfterIs
<1>5. BucketTypes'
  BY <1>1, <1>2, <1>4 DEF BucketTypes, Walking
<1>6. AllPlaced'
  <2>1. \A k \in steady : ~(k <= 0)
    BY <1>2, KeysAssumption DEF BucketTypes
  <2>. QED
    BY <1>1, <1>4, <2>1 DEF AllPlaced, Walking
<1>. QED
  BY <1>1, <1>2, <1>5, <1>6 DEF BucketInv, Own, Once, Passed, Merged, MergedWithinPage, Walking

(* A page is what follows, up to a key.                                    *)
LEMMA CountUpTo ==
  ASSUME NEW R \in SUBSET (1..Keys), NEW k \in R, NEW l \in R, l <= k
  PROVE  /\ Cardinality({x \in R : x <= l}) \in Nat
         /\ Cardinality({x \in R : x <= k}) \in Nat
         /\ Cardinality({x \in R : x <= l}) <= Cardinality({x \in R : x <= k})
<1>. DEFINE A == {x \in R : x <= l}  B == {x \in R : x <= k}
<1>0. Keys \in Nat /\ \A x \in R : x \in 1..Keys
  BY KeysAssumption
<1>1. A \in SUBSET (1..Keys) /\ B \in SUBSET (1..Keys) /\ A \in SUBSET B
  <2>1. k \in Nat /\ l \in Nat /\ \A x \in R : x \in Nat
    BY <1>0
  <2>2. \A x \in R : x <= l => x <= k
    BY <2>1
  <2>. QED
    BY <1>0, <2>2
<1>. HIDE DEF A, B
<1>2. IsFiniteSet(B) /\ Cardinality(A) \in Nat /\ Cardinality(B) \in Nat
  BY <1>0, <1>1, IntervalPart
<1>3. Cardinality(A) <= Cardinality(B)
  BY <1>1, <1>2, FS_Subset
<1>. QED
  BY <1>2, <1>3 DEF A, B

LEMMA LeastCounts ==
  ASSUME NEW R \in SUBSET (1..Keys), R # {}
  PROVE  \E k \in R : Cardinality({x \in R : x <= k}) = 1
<1>. DEFINE m == Min(R)
<1>0. Keys \in Nat /\ R \in SUBSET Nat
  BY KeysAssumption
<1>1. m \in R /\ \A x \in R : m <= x
  BY <1>0, Least
<1>. HIDE DEF m
<1>2. {x \in R : x <= m} = {m}
  <2>1. m \in Nat /\ \A x \in R : x \in Nat
    BY <1>0, <1>1
  <2>2. \A x \in R : x <= m <=> x = m
    BY <1>1, <2>1
  <2>. QED
    BY <1>1, <2>2
<1>3. Cardinality({m}) = 1
  BY FS_Singleton
<1>. QED
  BY <1>1, <1>2, <1>3

LEMMA ServeStep == ASSUME BucketInv, Serve PROVE BucketInv'
<1>. DEFINE at == request.at
            rest == {k \in stored : k > at}
            page == {k \in rest : Cardinality({l \in rest : l <= k}) <= MaxKeys}
            next == IF page = rest THEN Nowhere ELSE After(Max(page))
<1>1. /\ pc = "request" /\ pc' = "body" /\ answer' = [listed |-> page, next |-> next]
      /\ UNCHANGED <<request, authorized, out, pages, attempts, error, capped>>
      /\ UNCHANGED <<stored, rel, edits, steady, ever>>
  BY DEF Serve, Answered, bucket
<1>2. BucketTypes /\ Keys \in Nat /\ MaxKeys \in Nat \ {0} /\ at \in 0..Keys
  BY <1>1, KeysAssumption DEF BucketInv, BucketTypes, Walking
<1>3. /\ rest \in SUBSET (1..Keys) /\ page \in SUBSET rest
      /\ \A k \in rest : k \in stored /\ k > at
      /\ \A k \in stored : k > at => k \in rest
  BY <1>2 DEF BucketTypes
<1>. HIDE DEF rest
<1>4. \A k \in page, l \in rest : l <= k => l \in page
  <2>1. SUFFICES ASSUME NEW k \in page, NEW l \in rest, l <= k PROVE l \in page
    OBVIOUS
  <2>2. /\ Cardinality({x \in rest : x <= l}) \in Nat /\ Cardinality({x \in rest : x <= k}) \in Nat
        /\ Cardinality({x \in rest : x <= l}) <= Cardinality({x \in rest : x <= k})
    BY <1>3, <2>1, CountUpTo
  <2>3. Cardinality({x \in rest : x <= k}) <= MaxKeys
    OBVIOUS
  <2>. QED
    BY <1>2, <2>2, <2>3
<1>5. page = {} => rest = {}
  <2>1. SUFFICES ASSUME rest # {} PROVE page # {}
    OBVIOUS
  <2>2. PICK k \in rest : Cardinality({x \in rest : x <= k}) = 1
    BY <1>3, <2>1, LeastCounts
  <2>. QED
    BY <1>2, <2>2
<1>. HIDE DEF page
<1>6. ASSUME page # rest
      PROVE  /\ next = After(Max(page)) /\ Max(page) \in page /\ Max(page) \in 0..Keys
             /\ \A k \in page : k <= Max(page)
  <2>0. \A k \in 1..Keys : k \in 0..Keys
    BY <1>2
  <2>1. page # {} /\ page \in SUBSET (0..Keys)
    BY <1>3, <1>5, <1>6, <2>0
  <2>2. Max(page) \in page /\ \A k \in page : k <= Max(page)
    BY <1>2, <2>1, Greatest
  <2>. QED
    BY <1>6, <2>1, <2>2
<1>7. /\ next \in [at : 0..Keys, host : Hosts] \union {Nowhere}
      /\ next = Nowhere => page = rest
      /\ next # Nowhere => /\ next.at > at /\ next.at \in page
                           /\ \A k \in page : k <= next.at
                           /\ \A k \in rest : k <= next.at => k \in page
  <2>1. CASE page = rest
    BY <2>1
  <2>2. CASE page # rest
    <3>1. next = After(Max(page)) /\ Max(page) \in page /\ Max(page) \in 0..Keys /\ \A k \in page : k <= Max(page)
      BY <1>6, <2>2
    <3>2. next.at = Max(page) /\ next # Nowhere /\ next \in [at : 0..Keys, host : Hosts]
      BY <3>1, AfterIs
    <3>. HIDE DEF next
    <3>3. Max(page) > at
      BY <1>3, <3>1
    <3>. QED
      BY <1>4, <3>1, <3>2, <3>3
  <2>. QED
    BY <2>1, <2>2
<1>. HIDE DEF next
<1>8. answer'.listed = page /\ answer'.next = next
  BY <1>1
<1>9. BucketTypes'
  <2>1. page \in SUBSET (1..Keys)
    BY <1>3
  <2>. QED
    BY <1>1, <1>2, <1>7, <1>8, <2>1 DEF BucketTypes, Walking
<1>10. Own' /\ Once' /\ Merged'
  BY <1>1 DEF BucketInv, Own, Once, Merged, MergedWithinPage
<1>11. Passed'
  <2>1. \A k \in page : k \in ever /\ k > at /\ (next # Nowhere => k <= next.at)
    BY <1>2, <1>3, <1>7 DEF BucketTypes
  <2>2. \A i \in DOMAIN out : \A a \in DOMAIN out[i].assets : out[i].assets[a] <= at
    BY <1>1 DEF BucketInv, Passed, Walking
  <2>. QED
    BY <1>1, <1>7, <1>8, <2>1, <2>2 DEF Passed, Walking
<1>12. AllPlaced'
  <2>1. ASSUME NEW k \in steady, rel[k] # Unmatched
        PROVE  /\ k <= at => Placed(k)
               /\ k > at /\ (next = Nowhere \/ k <= next.at) => k \in page
    <3>1. k \in stored
      BY <1>2 DEF BucketTypes
    <3>2. k <= at => Placed(k)
      BY <1>1, <2>1 DEF BucketInv, AllPlaced, Walking
    <3>. QED
      BY <1>3, <1>7, <3>1, <3>2
  <2>2. \A k : Placed(k)' <=> Placed(k)
    BY <1>1 DEF Placed
  <2>. QED
    BY <1>1, <1>8, <2>1, <2>2 DEF AllPlaced, Walking
<1>. QED
  BY <1>9, <1>10, <1>11, <1>12 DEF BucketInv

LEMMA BucketFailStep ==
  ASSUME BucketInv, UNCHANGED <<out, pages, request, stored, rel, edits, steady, ever>>,
         \/ pc' = "failed"
         \/ pc \in {"request", "body"} /\ pc' = pc /\ UNCHANGED <<answer, capped>>
  PROVE  BucketInv'
<1>1. /\ BucketTypes /\ Own /\ Once /\ Passed /\ AllPlaced /\ Merged
  BY DEF BucketInv
<1>2. BucketTypes'
  BY <1>1 DEF BucketTypes, Walking
<1>3. Own' /\ Once' /\ Merged'
  BY <1>1 DEF Own, Once, Merged, MergedWithinPage
<1>4. Passed'
  BY <1>1 DEF Passed, Walking
<1>5. AllPlaced'
  BY <1>1 DEF AllPlaced, Walking, Placed
<1>. QED
  BY <1>2, <1>3, <1>4, <1>5 DEF BucketInv

LEMMA EditStep == ASSUME BucketInv, NEW keys \in SUBSET (1..Keys), Edit(keys) PROVE BucketInv'
<1>1. /\ Walking /\ stored' = keys /\ steady' = steady \intersect keys /\ ever' = ever \union keys
      /\ UNCHANGED <<pc, request, authorized, answer, out, pages, attempts, error, capped, rel>>
  BY DEF Edit, driver
<1>2. /\ BucketTypes /\ Own /\ Once /\ Passed /\ AllPlaced /\ Merged
  BY DEF BucketInv
<1>3. BucketTypes'
  BY <1>1, <1>2 DEF BucketTypes, Walking
<1>4. Own' /\ Once' /\ Merged'
  BY <1>1, <1>2 DEF Own, Once, Merged, MergedWithinPage
<1>5. Passed'
  BY <1>1, <1>2 DEF Passed, Walking
<1>6. AllPlaced'
  BY <1>1, <1>2 DEF AllPlaced, Walking, Placed
<1>. QED
  BY <1>3, <1>4, <1>5, <1>6 DEF BucketInv

LEMMA BucketParseStep == ASSUME BucketInv, BucketParse PROVE BucketInv'
<1>. DEFINE K == Matched(answer.listed)
            G == Grouped(K)
            next == answer.next
            at == request.at
            page == [items |-> G, next |-> next, stop |-> FALSE]
<1>1. pc = "body" /\ Keep(page) /\ UNCHANGED <<stored, rel, edits, steady, ever>>
  BY DEF BucketParse, bucket
<1>2. /\ out' = out \o G /\ pages' = pages + 1
      /\ \/ pc' = "done" /\ capped' = (next # Nowhere) /\ UNCHANGED request
         \/ pc' = "request" /\ next # Nowhere /\ request' = next
  <2>1. page.items = G /\ page.next = next /\ page.stop = FALSE
    OBVIOUS
  <2>. HIDE DEF page
  <2>. QED
    BY <1>1, <2>1 DEF Keep, IsLast, Ask
<1>3. BucketTypes /\ Own /\ Once /\ Passed /\ AllPlaced /\ Merged /\ Walking
  BY <1>1 DEF BucketInv, Walking
<1>4. /\ K \in SUBSET (1..Keys) /\ K \in SUBSET answer.listed
      /\ \A k \in K : rel[k] \in Rels
      /\ \A k \in answer.listed : rel[k] # Unmatched => k \in K
  BY <1>1, <1>3 DEF BucketTypes, Matched
<1>. HIDE DEF K
<1>5. /\ G \in Seq(Items)
      /\ \A i, a, k : At(G, i, a, k) => k \in K /\ G[i].release = rel[k]
      /\ \A k \in K : \E i, a : At(G, i, a, k)
      /\ \A i, j \in DOMAIN G : G[i].release = G[j].release => i = j
      /\ \A i, a, b, k : At(G, i, a, k) /\ At(G, i, b, k) => a = b
  BY <1>4, GroupedIs
<1>. HIDE DEF G
<1>6. /\ out' \in Seq(Items)
      /\ \A i, a, k : At(out', i, a, k) =>
           \/ At(out, i, a, k) /\ out'[i] = out[i]
           \/ At(G, i - Len(out), a, k) /\ out'[i] = G[i - Len(out)] /\ i \in Nat
      /\ \A i, a, k : At(out, i, a, k) => At(out', i, a, k)
      /\ \A i, a, k : At(G, i, a, k) => At(out', i + Len(out), a, k)
  BY <1>2, <1>3, <1>5, AtJoined DEF BucketTypes
<1>7. /\ \A i, a, k : At(out, i, a, k) => k \in ever /\ rel[k] = out[i].release /\ k <= at
      /\ \A i, j, a, b, k : At(out, i, a, k) /\ At(out, j, b, k) => i = j /\ a = b
  BY <1>3, OwnAt DEF Passed
<1>8. /\ at \in Nat /\ Len(out) \in Nat
      /\ \A k \in K : k \in Nat /\ k \in ever /\ k > at /\ (next # Nowhere => k <= next.at)
      /\ next # Nowhere => next.at > at /\ next \in [at : 0..Keys, host : Hosts] /\ next.at \in Nat
  <2>1. next # Nowhere => next \in [at : 0..Keys, host : Hosts]
    BY <1>1, <1>3 DEF BucketTypes
  <2>2. request \in [at : 0..Keys, host : Hosts] /\ \A n \in 0..Keys : n \in Nat
    BY <1>3, KeysAssumption DEF BucketTypes
  <2>3. \A k \in 1..Keys : k \in Nat
    BY KeysAssumption
  <2>4. Len(out) \in Nat
    BY <1>3 DEF BucketTypes
  <2>5. at \in Nat /\ (next # Nowhere => next.at \in Nat)
    BY <2>1, <2>2
  <2>6. \A k \in K : k \in Nat /\ k \in ever /\ k > at /\ (next # Nowhere => k <= next.at)
    BY <1>1, <1>3, <1>4, <2>3 DEF Passed
  <2>. QED
    BY <1>1, <1>3, <2>1, <2>4, <2>5, <2>6 DEF Passed
<1>9. BucketTypes'
  <2>1. pc' = "done" \/ (pc' = "request" /\ request' \in [at : 0..Keys, host : Hosts])
    BY <1>2, <1>8
  <2>2. pages' \in Nat
    BY <1>2, <1>3 DEF BucketTypes
  <2>. QED
    BY <1>1, <1>3, <1>6, <2>1, <2>2 DEF BucketTypes, Walking
<1>10. Own'
  <2>1. ASSUME NEW i, NEW a, NEW k, At(out', i, a, k) PROVE k \in ever /\ rel[k] = out'[i].release
    BY <1>5, <1>6, <1>7, <1>8, <2>1
  <2>. QED
    BY <1>1, <2>1 DEF Own, At
<1>11. Once'
  <2>1. ASSUME NEW i, NEW j, NEW a, NEW b, NEW k, At(out', i, a, k), At(out', j, b, k)
        PROVE  i = j /\ a = b
    <3>1. CASE At(out, i, a, k) /\ At(out, j, b, k)
      BY <1>7, <3>1
    <3>2. CASE At(out, i, a, k) /\ ~At(out, j, b, k)
      <4>1. k \in K /\ k <= at
        BY <1>5, <1>6, <1>7, <2>1, <3>2
      <4>. QED
        BY <1>8, <4>1
    <3>3. CASE At(out, j, b, k) /\ ~At(out, i, a, k)
      <4>1. k \in K /\ k <= at
        BY <1>5, <1>6, <1>7, <2>1, <3>3
      <4>. QED
        BY <1>8, <4>1
    <3>4. CASE ~At(out, i, a, k) /\ ~At(out, j, b, k)
      <4>1. /\ At(G, i - Len(out), a, k) /\ At(G, j - Len(out), b, k)
            /\ i \in Nat /\ j \in Nat
        BY <1>6, <2>1, <3>4
      <4>2. /\ i - Len(out) \in DOMAIN G /\ j - Len(out) \in DOMAIN G
            /\ G[i - Len(out)].release = rel[k] /\ G[j - Len(out)].release = rel[k]
        BY <1>5, <4>1 DEF At
      <4>3. i - Len(out) = j - Len(out)
        BY <1>5, <4>2
      <4>4. i = j
        BY <1>8, <4>1, <4>3
      <4>. QED
        BY <1>5, <4>1, <4>4
    <3>. QED
      BY <3>1, <3>2, <3>3, <3>4
  <2>. QED
    <3>1. SUFFICES ASSUME NEW i \in DOMAIN out', NEW j \in DOMAIN out', NEW a \in DOMAIN out'[i].assets,
                          NEW b \in DOMAIN out'[j].assets, out'[i].assets[a] = out'[j].assets[b]
                   PROVE  i = j /\ a = b
      BY DEF Once
    <3>2. At(out', i, a, out'[i].assets[a]) /\ At(out', j, b, out'[i].assets[a])
      BY <3>1 DEF At
    <3>. QED
      BY <2>1, <3>2
<1>12. Passed'
  <2>1. ASSUME pc' = "request", NEW i, NEW a, NEW k, At(out', i, a, k) PROVE k <= request'.at
    <3>1. next # Nowhere /\ request'.at = next.at
      BY <1>2, <2>1
    <3>2. CASE At(out, i, a, k)
      <4>1. k <= at /\ k \in Nat
        <5>1. k \in 1..Keys
          BY <1>3, <1>7, <3>2 DEF BucketTypes
        <5>. QED
          BY <1>7, <3>2, <5>1, KeysAssumption
      <4>. QED
        BY <1>8, <3>1, <4>1
    <3>3. CASE ~At(out, i, a, k)
      <4>1. k \in K
        BY <1>5, <1>6, <2>1, <3>3
      <4>. QED
        BY <1>8, <3>1, <4>1
    <3>. QED
      BY <3>2, <3>3
  <2>. QED
    BY <1>2, <2>1 DEF Passed, Walking, At
<1>13. AllPlaced'
  <2>1. \A k : Placed(k) => Placed(k)'
    <3>1. \A k : Placed(k)' <=> \E i, a : At(out', i, a, k)
      BY DEF Placed, At
    <3>. QED
      BY <1>6, <3>1, OwnAt
  <2>2. \A k \in K : Placed(k)'
    <3>1. \A k : Placed(k)' <=> \E i, a : At(out', i, a, k)
      BY DEF Placed, At
    <3>. QED
      BY <1>5, <1>6, <3>1
  <2>3. ASSUME NEW k \in steady, rel[k] # Unmatched, next = Nowhere \/ k <= next.at PROVE Placed(k)'
    <3>0. k \in Nat
      <4>1. k \in 1..Keys
        BY <1>3 DEF BucketTypes
      <4>. QED
        BY <4>1, KeysAssumption
    <3>1. CASE k <= at
      BY <1>3, <2>1, <2>3, <3>1 DEF AllPlaced
    <3>2. CASE ~(k <= at)
      <4>1. k > at
        BY <1>8, <3>0, <3>2
      <4>2. k \in answer.listed
        BY <1>1, <1>3, <2>3, <4>1 DEF AllPlaced
      <4>. QED
        BY <1>4, <2>2, <2>3, <4>2
    <3>. QED
      BY <3>1, <3>2
  <2>4. pc' = "request" => next # Nowhere /\ request'.at = next.at
    BY <1>2
  <2>5. pc' = "done" /\ ~capped' => next = Nowhere
    BY <1>2
  <2>6. pc' \in {"done", "request"}
    BY <1>2
  <2>. QED
    BY <1>1, <2>3, <2>4, <2>5, <2>6 DEF AllPlaced, Walking
<1>14. Merged'
  <2>1. pages' # 0 /\ (pages' <= 1 => pages = 0)
    BY <1>2, <1>3 DEF BucketTypes
  <2>2. ASSUME pages = 0 PROVE out' = G
    <3>1. out = <<>>
      BY <1>3, <2>2 DEF Merged
    <3>2. <<>> \o G = G
      <4>. HIDE DEF Items
      <4>. QED
        BY <1>5
    <3>. QED
      BY <1>2, <3>1, <3>2
  <2>. QED
    BY <1>5, <2>1, <2>2 DEF Merged, MergedWithinPage
<1>. QED
  BY <1>9, <1>10, <1>11, <1>12, <1>13, <1>14 DEF BucketInv

LEMMA NextBucketInv == BucketInv /\ [BucketNext]_bucketVars => BucketInv'
<1>. SUFFICES ASSUME BucketInv, [BucketNext]_bucketVars PROVE BucketInv'
  OBVIOUS
<1>1. CASE ParseFails
  BY <1>1, BucketFailStep DEF ParseFails, Fail, bucket
<1>2. CASE BucketLose
  BY <1>2, BucketFailStep DEF BucketLose, RequestFails, BodyFails, Fail, bucket
<1>3. CASE PutKey
  <2>1. PICK k \in (1..Keys) \ stored : Edit(stored \union {k})
    BY <1>3 DEF PutKey
  <2>2. stored \union {k} \in SUBSET (1..Keys)
    BY DEF BucketInv, BucketTypes
  <2>. QED
    BY <2>1, <2>2, EditStep
<1>4. CASE DeleteKey
  <2>1. PICK k \in stored : Edit(stored \ {k})
    BY <1>4 DEF DeleteKey
  <2>2. stored \ {k} \in SUBSET (1..Keys)
    BY DEF BucketInv, BucketTypes
  <2>. QED
    BY <2>1, <2>2, EditStep
<1>5. CASE UNCHANGED bucketVars
  BY <1>5 DEF bucketVars, driver, bucket, BucketInv, BucketTypes, Own, Once, Passed, Placed, AllPlaced, Merged,
     MergedWithinPage, Walking
<1>. QED
  BY <1>1, <1>2, <1>3, <1>4, <1>5, BucketStartStep, ServeStep, BucketParseStep DEF BucketNext

LEMMA SpecBucketInv == BucketSpec => []BucketInv
BY InitBucketInv, NextBucketInv, PTL DEF BucketSpec

-----------------------------------------------------------------------------
(* For every size of a page, cap and number of keys put and deleted        *)
(* meanwhile, a key that stays is one asset of its own release, once, and  *)
(* no other key is an asset (s3_page with parse_s3_response).              *)
THEOREM EveryKeyOnce == BucketSpec => []KeysOnce
<1>1. BucketInv => KeysOnce
  <2>. SUFFICES ASSUME BucketInv PROVE KeysOnce
    OBVIOUS
  <2>1. BucketTypes /\ Own /\ Once /\ AllPlaced
    BY DEF BucketInv
  <2>2. out \in Seq(Items) /\ Len(out) \in Nat /\ DOMAIN out = 1..Len(out)
    BY <2>1 DEF BucketTypes
  <2>3. /\ \A i, a, k : At(out, i, a, k) => k \in ever /\ rel[k] = out[i].release
        /\ \A i, j, a, b, k : At(out, i, a, k) /\ At(out, j, b, k) => i = j /\ a = b
    BY <2>1, OwnAt
  <2>4. ASSUME NEW k, NEW p \in Places(k)
        PROVE  /\ At(out, p[1], p[2], k) /\ p = <<p[1], p[2]>>
    <3>1. PICK i \in DOMAIN out : p \in {i} \X {a \in DOMAIN out[i].assets : out[i].assets[a] = k}
      BY DEF Places
    <3>. QED
      BY <3>1 DEF At
  <2>5. ASSUME NEW k \in 1..Keys PROVE Cardinality(Places(k)) <= 1
    <3>1. CASE Places(k) = {}
      BY <3>1, FS_EmptySet
    <3>2. CASE Places(k) # {}
      <4>1. PICK p \in Places(k) : TRUE
        BY <3>2
      <4>2. ASSUME NEW q \in Places(k) PROVE q = p
        <5>1. At(out, p[1], p[2], k) /\ p = <<p[1], p[2]>>
          BY <2>4
        <5>2. At(out, q[1], q[2], k) /\ q = <<q[1], q[2]>>
          BY <2>4
        <5>3. q[1] = p[1] /\ q[2] = p[2]
          BY <2>3, <5>1, <5>2
        <5>. QED
          BY <5>1, <5>2, <5>3
      <4>3. Places(k) = {p}
        BY <4>1, <4>2
      <4>4. Cardinality({p}) = 1
        BY FS_Singleton
      <4>. QED
        BY <4>3, <4>4
    <3>. QED
      BY <3>1, <3>2
  <2>6. ASSUME NEW k \in 1..Keys
        PROVE  /\ Places(k) # {} => k \in ever
               /\ \A p \in Places(k) : out[p[1]].release = rel[k]
    <3>1. \A p \in Places(k) : At(out, p[1], p[2], k)
      BY <2>4
    <3>. QED
      BY <2>3, <3>1
  <2>7. ASSUME pc = "done", ~capped, NEW k \in steady, rel[k] # Unmatched PROVE Places(k) # {}
    <3>1. PICK i, a : At(out, i, a, k)
      BY <2>1, <2>7, OwnAt DEF AllPlaced
    <3>2. i \in DOMAIN out /\ <<i, a>> \in {i} \X {b \in DOMAIN out[i].assets : out[i].assets[b] = k}
      BY <3>1 DEF At
    <3>3. <<i, a>> \in Places(k)
      BY <3>2 DEF Places
    <3>. QED
      BY <3>3
  <2>. QED
    BY <2>5, <2>6, <2>7 DEF KeysOnce
<1>. QED
  BY <1>1, SpecBucketInv, PTL

(* The keys of a release that are on one page make one release, whatever   *)
(* stands between them (add_to_releases_list).                             *)
THEOREM OnePageMerges == BucketSpec => []MergedWithinPage
<1>1. BucketInv => MergedWithinPage
  BY DEF BucketInv, Merged
<1>. QED
  BY <1>1, SpecBucketInv, PTL

(* The newest release that the call for it picks, the first of the newer   *)
(* ones and the one found by its version are of one version, whatever is   *)
(* listed (pick_latest, sort_newer and find_version).                      *)
THEOREM CallsAgreeAlways == BucketSpec => []CallsAgree
<1>1. BucketInv => CallsAgree
  <2>. SUFFICES ASSUME BucketInv PROVE CallsAgree
    OBVIOUS
  <2>. DEFINE n == Len(out)
              newest == {i \in DOMAIN out : \A j \in DOMAIN out : Version(j) <= Version(i)}
              newer == {i \in DOMAIN out : Version(i) > Current}
              front == {i \in newer : \A j \in newer : Version(j) <= Version(i)}
  <2>1. out \in Seq(Items) /\ n \in Nat /\ DOMAIN out = 1..n
    BY DEF BucketInv, BucketTypes
  <2>2. \A i \in 1..n : Version(i) \in Nat
    <3>1. ASSUME NEW i \in 1..n PROVE out[i] \in Items
      <4>. HIDE DEF Items
      <4>. QED
        BY <2>1
    <3>. QED
      BY <3>1, RelsAssumption DEF Items, Version
  <2>3. ASSUME n # 0 PROVE newest # {}
    <3>. DEFINE f == [i \in 1..n |-> Version(i)]
    <3>1. f \in [1..n -> Nat] /\ \A i \in 1..n : f[i] = Version(i)
      BY <2>2
    <3>. HIDE DEF f
    <3>2. PICK i \in 1..n : \A j \in 1..n : f[j] <= f[i]
      BY <2>1, <2>3, <3>1, EveryTopped DEF Topped
    <3>. QED
      BY <2>1, <3>1, <3>2
  <2>4. newest \in SUBSET (0..n) /\ newest \in SUBSET (1..n) /\ newer \in SUBSET (1..n) /\ front \in SUBSET Nat
    BY <2>1
  <2>5. newest # {} => Max(newest) \in newest
    BY <2>1, <2>4, Greatest
  <2>6. front # {} => Min(front) \in front
    BY <2>4, Least
  <2>7. PickLatest = IF newest = {} THEN 0 ELSE Max(newest)
    BY DEF PickLatest
  <2>8. SortNewer = IF newer = {} THEN 0 ELSE Min(front)
    BY DEF SortNewer
  <2>9. PickLatest # 0 <=> n # 0
    <3>1. newest # {} => n # 0 /\ Max(newest) # 0
      BY <2>1, <2>4, <2>5
    <3>. QED
      BY <2>3, <2>7, <3>1
  <2>10. ASSUME PickLatest # 0
         PROVE  PickLatest \in 1..n /\ \A j \in 1..n : Version(j) <= Version(PickLatest)
    <3>1. PickLatest \in newest
      BY <2>5, <2>7, <2>10
    <3>. QED
      BY <2>1, <3>1
  <2>11. newer # {} <=> PickLatest # 0 /\ Version(PickLatest) > Current
    <3>1. ASSUME NEW i \in newer PROVE PickLatest # 0 /\ Version(PickLatest) > Current
      <4>1. i \in 1..n /\ Version(i) > Current /\ n # 0
        BY <2>1
      <4>2. PickLatest \in 1..n /\ PickLatest # 0 /\ Version(i) <= Version(PickLatest)
        BY <2>9, <2>10, <4>1
      <4>. QED
        BY <2>2, <4>1, <4>2, CurrentAssumption
    <3>2. PickLatest # 0 /\ Version(PickLatest) > Current => PickLatest \in newer
      BY <2>1, <2>10
    <3>. QED
      BY <3>1, <3>2
  <2>12. ASSUME newer # {}
         PROVE  SortNewer \in 1..n /\ SortNewer # 0 /\ Version(SortNewer) = Version(PickLatest)
    <3>1. PickLatest \in newer /\ PickLatest \in 1..n /\ \A j \in 1..n : Version(j) <= Version(PickLatest)
      BY <2>1, <2>10, <2>11, <2>12
    <3>2. PickLatest \in front
      BY <2>1, <3>1
    <3>3. SortNewer \in front
      BY <2>6, <2>8, <2>12, <3>2
    <3>4. SortNewer \in 1..n /\ SortNewer # 0 /\ Version(PickLatest) <= Version(SortNewer)
      BY <2>1, <3>1, <3>3
    <3>. QED
      BY <2>2, <3>1, <3>4
  <2>13. ASSUME PickLatest # 0 PROVE Version(FindVersion(Version(PickLatest))) = Version(PickLatest)
    <3>. DEFINE found == {i \in DOMAIN out : Version(i) = Version(PickLatest)}
    <3>1. PickLatest \in found /\ found \in SUBSET Nat
      BY <2>1, <2>10, <2>13
    <3>2. Min(found) \in found
      BY <3>1, Least
    <3>3. FindVersion(Version(PickLatest)) = Min(found)
      BY <3>1 DEF FindVersion
    <3>. QED
      BY <3>2, <3>3
  <2>14. SortNewer # 0 <=> newer # {}
    BY <2>8, <2>12
  <2>. QED
    BY <2>11, <2>12, <2>13, <2>14 DEF CallsAgree
<1>. QED
  BY <1>1, SpecBucketInv, PTL
=============================================================================
