--------------------------- MODULE ExtractionProofs ---------------------------
(***************************************************************************)
(* Theorems about Extraction, for any names, archives, assets and builds.  *)
(***************************************************************************)
EXTENDS Extraction, SequenceTheorems, TLAPS

-----------------------------------------------------------------------------
(* The invariant.                                                          *)

Written == Contents \union {"payload", "compressed", "partial"}

Nodes == {Nothing, Dir} \union {File(c) : c \in Written} \union {Symlink(p) : p \in Names}

(* Whatever is there is in a directory, which nothing removes.             *)
Parented(t) ==
  \A n \in Names : Len(n) = 2 /\ t[n] # Nothing => t[Front(n)] = Dir

Trees == {t \in [Names -> Nodes] : Parented(t)}

Jobs == [status : {"busy", "failed", "tar", "ok"}, asset : Assets,
         found : {Taken(a) : a \in Assets}, next : Nat \ {0}, fault : BOOLEAN]

Going == job # Idle /\ job.status \in {"busy", "ok"}

JobOK ==
  /\ job = Idle => tree = [n \in Names |-> Nothing] /\ only = {}
  /\ job # Idle =>
      /\ job \in Jobs /\ job.asset \in only /\ only \subseteq Assets
      /\ job.found = Taken(job.asset)
  /\ Going /\ job.found.pack = "zip" => Zipped
  /\ Going /\ Zipped => job.next <= Len(Archive) + 1
  /\ Zipped /\ job.status = "ok" => job.next = Len(Archive) + 1

(* A tree that holds nothing but what is in the archive, and the           *)
(* directories that its entries are in.                                    *)
PartOf(t) ==
  \A n \in Names :
    /\ t[n].kind \in {"link", "file"} =>
         \E e \in Entries : e.name = n /\ e.kind = t[n].kind
    /\ t[n].kind = "dir" =>
         \E e \in Entries : (e.name = n /\ e.kind = "dir") \/ Front(e.name) = n

Own ==
  Zipped /\ only = {job.asset} =>
    /\ PartOf(tree)
    /\ \A n \in linked : \E e \in Entries : e.name = n /\ e.kind = "link"

(* A link is one that was there or one that was put there.                 *)
LinksKnown(t, k) ==
  \A n \in Names : t[n].kind = "link" =>
    n \in linked \/ \E i \in 1..(k - 1) : Archive[i].kind = "link" /\ Archive[i].name = n

(* What holds of an entry from when it is unpacked to the end.             *)
Stands(t, e) ==
  CASE e.kind = "dir"  -> IsDir(t, e.name) /\ (e.name \notin linked => t[e.name] = Dir)
    [] e.kind = "link" -> t[e.name] = Symlink(e.target)
    [] OTHER           -> t[e.name] = File(e.content)

Unpacked ==
  Going /\ Zipped =>
    /\ LinksKnown(tree, job.next)
    /\ ~LedAstray => \A i \in 1..(job.next - 1) : Stands(tree, Archive[i])

IInv == tree \in Trees /\ JobOK /\ Own /\ Unpacked /\ ExtractsAgain

-----------------------------------------------------------------------------
(* Names, nodes and kinds of assets.                                       *)

LEMMA NameFacts ==
  ASSUME NEW n \in Names
  PROVE  /\ n # <<>> /\ Front(n) # n /\ Len(n) \in {1, 2}
         /\ Len(n) = 1 => Front(n) = <<>>
         /\ Len(n) = 2 => Front(n) \in Names /\ Len(Front(n)) = 1
         /\ <<>> \notin Names
<1>1. n \in Seq(STRING) /\ Len(n) \in {1, 2} /\ (Len(n) = 2 => Front(n) \in Names)
  BY NamesAssumption DEF NamesAssumption
<1>2. Len(Front(n)) = Len(n) - 1
  BY <1>1 DEF Front
<1>3. Len(n) = 1 => Front(n) = <<>>
  BY <1>1 DEF Front
<1>4. <<>> \notin Names
  BY NamesAssumption DEF NamesAssumption
<1>. QED
  BY <1>1, <1>2, <1>3, <1>4

LEMMA NodeFacts ==
  /\ Nothing \in Nodes /\ Dir \in Nodes
  /\ Nothing.kind = "none" /\ Dir.kind = "dir"
  /\ \A c : File(c).kind = "file" /\ File(c).content = c
  /\ \A p : Symlink(p).kind = "link" /\ Symlink(p).target = p
  /\ \A c \in Written : File(c) \in Nodes
  /\ \A p \in Names : Symlink(p) \in Nodes
  /\ \A x \in Nodes : /\ x.kind \in {"none", "dir", "file", "link"}
                      /\ x.kind = "none" <=> x = Nothing
                      /\ x.kind = "dir" <=> x = Dir
                      /\ x.kind = "file" => \E c \in Written : x = File(c)
                      /\ x.kind = "link" => \E p \in Names : x = Symlink(p)
<1>1. /\ Nothing.kind = "none" /\ Dir.kind = "dir"
      /\ \A c : File(c).kind = "file" /\ File(c).content = c
      /\ \A p : Symlink(p).kind = "link" /\ Symlink(p).target = p
  BY DEF Nothing, Dir, File, Symlink
<1>2. \A x \in Nodes : \/ x = Nothing \/ x = Dir
                       \/ \E c \in Written : x = File(c)
                       \/ \E p \in Names : x = Symlink(p)
  BY DEF Nodes
<1>3. /\ Nothing \in Nodes /\ Dir \in Nodes
      /\ \A c \in Written : File(c) \in Nodes
      /\ \A p \in Names : Symlink(p) \in Nodes
  BY DEF Nodes
<1>4. ASSUME NEW x \in Nodes
      PROVE  /\ x.kind \in {"none", "dir", "file", "link"}
             /\ x.kind = "none" <=> x = Nothing
             /\ x.kind = "dir" <=> x = Dir
             /\ x.kind = "file" => \E c \in Written : x = File(c)
             /\ x.kind = "link" => \E p \in Names : x = Symlink(p)
  <2>1. CASE x = Nothing
    BY <1>1, <2>1
  <2>2. CASE x = Dir
    BY <1>1, <2>2
  <2>3. CASE \E c \in Written : x = File(c)
    BY <1>1, <2>3
  <2>4. CASE \E p \in Names : x = Symlink(p)
    BY <1>1, <2>4
  <2>. QED
    BY <1>2, <2>1, <2>2, <2>3, <2>4
<1>. QED
  BY <1>1, <1>3, <1>4

-----------------------------------------------------------------------------
(* Where paths lead.                                                       *)

LEMMA LeadsIs ==
  ASSUME NEW t, NEW p
  PROVE  Leads(t, p) = FollowOne(t, FollowOne(t, FollowOne(t, FollowOne(t, p))))
  BY DEF Leads

(* A path of a real directory that is no link itself leads to itself.      *)
LEMMA LeadsToItself ==
  ASSUME NEW t, NEW p \in Names, t[p].kind # "link", RealDir(t, Front(p))
  PROVE  FollowOne(t, p) = p /\ Leads(t, p) = p
<1>1. ~(Len(p) = 2 /\ Front(p) \in Names /\ t[Front(p)].kind = "link")
  BY NameFacts, NodeFacts DEF RealDir
<1>2. FollowOne(t, p) = p
  BY <1>1 DEF FollowOne
<1>. QED
  BY <1>2, LeadsIs

(* A change of what is no link neither turns paths nor ends a directory.   *)
LEMMA DirsStay ==
  ASSUME NEW t \in Trees, NEW q \in Names, NEW x \in Nodes,
         RealDir(t, Front(q)), t[q].kind \in {"none", "file"},
         NEW p, IsDir(t, p)
  PROVE  IsDir([t EXCEPT ![q] = x], p)
<1>. DEFINE u == [t EXCEPT ![q] = x]
            Stuck(s) == FollowOne(t, s) = s /\ ~(s \in Names /\ t[s] = Dir)
<1>1. t \in [Names -> Nodes] /\ Parented(t)
  BY DEF Trees
<1>2. \A n \in Names : n # q => u[n] = t[n]
  BY <1>1
<1>3. t[q] # Dir
  BY NodeFacts
<1>4. ASSUME NEW s, FollowOne(t, s) # FollowOne(u, s) PROVE Stuck(s)
  <2>1. CASE Len(s) = 2 /\ Front(s) = q
    <3>1. s \in Names => t[s] = Nothing
      BY <1>1, <1>3, <2>1 DEF Parented
    <3>2. ~(s \in Names /\ t[s].kind = "link") /\ ~(s \in Names /\ t[s] = Dir)
      BY <3>1, NodeFacts
    <3>3. t[q].kind # "link"
      OBVIOUS
    <3>4. FollowOne(t, s) = s
      BY <2>1, <3>2, <3>3 DEF FollowOne
    <3>. QED
      BY <3>2, <3>4
  <2>2. CASE ~(Len(s) = 2 /\ Front(s) = q) /\ s # q
    <3>1. Len(s) = 2 /\ Front(s) \in Names => u[Front(s)] = t[Front(s)]
      BY <1>2, <2>2
    <3>2. s \in Names => u[s] = t[s]
      BY <1>2, <2>2
    <3>. QED
      BY <1>4, <3>1, <3>2 DEF FollowOne
  <2>3. CASE s = q
    BY <1>3, <2>3, LeadsToItself
  <2>. QED
    BY <2>1, <2>2, <2>3
<1>5. CASE p = <<>>
  BY <1>5 DEF IsDir
<1>6. CASE p # <<>>
  <2>. DEFINE a == FollowOne(t, p)
              b == FollowOne(t, a)
              c == FollowOne(t, b)
              d == FollowOne(t, c)
  <2>1. Leads(t, p) = d /\ d \in Names /\ t[d] = Dir
    BY <1>6, LeadsIs DEF IsDir
  <2>2. ~Stuck(p) /\ ~Stuck(a) /\ ~Stuck(b) /\ ~Stuck(c)
    <3>. HIDE DEF a, b, c, d
    <3>1. a = FollowOne(t, p) /\ b = FollowOne(t, a) /\ c = FollowOne(t, b) /\ d = FollowOne(t, c)
      BY DEF a, b, c, d
    <3>. QED
      BY <2>1, <3>1
  <2>3. FollowOne(u, p) = a /\ FollowOne(u, a) = b /\ FollowOne(u, b) = c /\ FollowOne(u, c) = d
    <3>. HIDE DEF Stuck, u
    <3>. QED
      BY <1>4, <2>2
  <2>4. Leads(u, p) = d
    BY <2>3, LeadsIs
  <2>5. u[d] = Dir
    BY <1>2, <1>3, <2>1
  <2>. QED
    BY <2>1, <2>4, <2>5 DEF IsDir
<1>. QED
  BY <1>5, <1>6

-----------------------------------------------------------------------------
(* Trees.                                                                  *)

LEMMA TreeSet ==
  ASSUME NEW t \in Trees, NEW q \in Names, NEW x \in Nodes,
         RealDir(t, Front(q)), t[q] # Dir
  PROVE  [t EXCEPT ![q] = x] \in Trees
<1>. DEFINE u == [t EXCEPT ![q] = x]
<1>1. t \in [Names -> Nodes] /\ Parented(t)
  BY DEF Trees
<1>2. u \in [Names -> Nodes] /\ u[q] = x /\ \A n \in Names : n # q => u[n] = t[n]
  BY <1>1
<1>3. ASSUME NEW n \in Names, Len(n) = 2, u[n] # Nothing PROVE u[Front(n)] = Dir
  <2>1. Front(n) \in Names /\ Front(n) # <<>>
    BY <1>3, NameFacts
  <2>2. CASE n = q
    <3>1. t[Front(n)] = Dir
      BY <2>1, <2>2 DEF RealDir
    <3>. QED
      BY <1>2, <2>1, <2>2, <3>1
  <2>3. CASE n # q
    <3>1. t[Front(n)] = Dir
      BY <1>1, <1>2, <1>3, <2>3 DEF Parented
    <3>. QED
      BY <1>2, <2>1, <3>1
  <2>. QED
    BY <2>2, <2>3
<1>. QED
  BY <1>2, <1>3 DEF Trees, Parented

(* What create_dir_all does.                                               *)
LEMMA DirMade ==
  ASSUME NEW t \in Trees, NEW p \in Names, Len(p) = 1
  PROVE  LET r == MakeDir(t, p)
         IN  /\ r.tree \in Trees
             /\ r.tree = t \/ (t[p] = Nothing /\ r.tree = [t EXCEPT ![p] = Dir])
             /\ r.ok => IsDir(r.tree, p) /\ (t[p].kind # "link" => r.tree[p] = Dir)
             /\ t[p] \in {Nothing, Dir} => r.ok
<1>. DEFINE r == MakeDir(t, p)
            u == [t EXCEPT ![p] = Dir]
<1>1. Front(p) = <<>> /\ p # <<>>
  BY NameFacts
<1>2. t \in [Names -> Nodes] /\ t[p] \in Nodes
  BY DEF Trees
<1>3. CASE IsDir(t, p)
  <2>1. r = Done(t)
    BY <1>3 DEF MakeDir
  <2>2. t[p].kind # "link" => t[p] = Dir
    BY <1>1, <1>3, LeadsToItself DEF IsDir, RealDir
  <2>. QED
    BY <1>3, <2>1, <2>2 DEF Done
<1>4. CASE ~IsDir(t, p) /\ t[p] = Nothing
  <2>1. r = Done(u)
    BY <1>4 DEF MakeDir
  <2>2. u \in Trees
    BY <1>1, <1>4, TreeSet, NodeFacts DEF RealDir
  <2>3. u[p] = Dir
    BY <1>2
  <2>4. Leads(u, p) = p
    BY <1>1, <2>3, LeadsToItself, NodeFacts DEF RealDir
  <2>5. IsDir(u, p)
    BY <2>3, <2>4 DEF IsDir
  <2>. QED
    BY <1>4, <2>1, <2>2, <2>3, <2>5 DEF Done
<1>5. CASE ~IsDir(t, p) /\ t[p] # Nothing
  <2>1. r = Error(t)
    BY <1>5 DEF MakeDir
  <2>2. t[p] # Dir
    BY <1>1, <1>5, LeadsToItself, NodeFacts DEF IsDir, RealDir
  <2>. QED
    BY <1>5, <2>1, <2>2 DEF Error
<1>. QED
  BY <1>3, <1>4, <1>5

(* The parent of an entry, made where it is missing.                       *)
LEMMA ParentMade ==
  ASSUME NEW t \in Trees, NEW p \in Names
  PROVE  LET made == WithParent(t, p)
         IN  /\ made \in Trees
             /\ \/ made = t
                \/ /\ Front(p) \in Names /\ RealDir(t, Front(Front(p))) /\ t[Front(p)] = Nothing
                   /\ made = [t EXCEPT ![Front(p)] = Dir]
             /\ Front(p) \in Names /\ t[Front(p)] \in {Nothing, Dir} => RealDir(made, Front(p))
             /\ Front(p) \notin Names => RealDir(made, Front(p))
<1>1. CASE Len(p) = 1
  BY <1>1, NameFacts DEF WithParent, RealDir
<1>2. CASE Len(p) = 2
  <2>. DEFINE q == Front(p)
  <2>1. q \in Names /\ Len(q) = 1 /\ Front(q) = <<>>
    BY <1>2, NameFacts
  <2>2. WithParent(t, p) = MakeDir(t, q).tree
    BY <1>2 DEF WithParent
  <2>3. t[q] \in {Nothing, Dir} => t[q].kind # "link"
    BY NodeFacts
  <2>. QED
    BY <2>1, <2>2, <2>3, DirMade DEF RealDir
<1>. QED
  BY <1>1, <1>2, NameFacts

Pieces == [name : Names, kind : {"dir"}]
          \union [name : Names, kind : {"file"}, content : Written]
          \union [name : Names, kind : {"link"}, target : Names \union {Outside}]

(* What a file or a link changes, besides the directory it is in.          *)
LEMMA Placed ==
  ASSUME NEW t \in Trees, NEW e \in Pieces, e.kind # "dir"
  PROVE  LET made == WithParent(t, e.name)
             r    == ZipEntry(t, e)
         IN  /\ ~r.ok => r.tree = made
             /\ r.ok /\ e.kind = "link" =>
                  /\ RealDir(made, Front(e.name))
                  /\ e.target \in Names /\ made[e.name] # Dir
                  /\ r.tree = [made EXCEPT ![e.name] = Symlink(e.target)]
             /\ r.ok /\ e.kind = "file" =>
                  /\ RealDir(made, Front(e.name))
                  /\ \E q \in Names :
                       /\ made[q].kind \in {"none", "file"} /\ RealDir(made, Front(q))
                       /\ r.tree = [made EXCEPT ![q] = File(e.content)]
                       /\ made[e.name].kind # "link" => q = e.name
             /\ /\ RealDir(made, Front(e.name))
                /\ IF e.kind = "link" THEN e.target # Outside /\ made[e.name] # Dir
                                      ELSE made[e.name].kind \in {"none", "file"}
                => r.ok
             /\ r.tree \in Trees
<1>. DEFINE p    == e.name
            made == WithParent(t, p)
            r    == ZipEntry(t, e)
<1>1. /\ p \in Names /\ e.kind \in {"file", "link"}
      /\ e.kind = "link" => e.target \in Names \union {Outside}
      /\ e.kind = "file" => e.content \in Written
  BY DEF Pieces
<1>2. made \in Trees
  BY <1>1, ParentMade
<1>. HIDE DEF made
<1>3. r = IF RealDir(made, Front(p)) THEN Place(made, e) ELSE Error(made)
  BY DEF ZipEntry, made
<1>4. CASE ~RealDir(made, Front(p))
  BY <1>2, <1>3, <1>4 DEF Error, made
<1>5. CASE RealDir(made, Front(p)) /\ e.kind = "link"
  <2>1. r = WriteLink(made, p, e.target)
    BY <1>3, <1>5 DEF Place
  <2>2. CASE e.target # Outside /\ made[p] # Dir
    <3>1. r.ok /\ r.tree = [made EXCEPT ![p] = Symlink(e.target)]
      BY <2>1, <2>2 DEF WriteLink, Done
    <3>2. Symlink(e.target) \in Nodes
      BY <1>1, <1>5, <2>2, NodeFacts
    <3>3. r.tree \in Trees
      BY <1>1, <1>2, <1>5, <2>2, <3>1, <3>2, TreeSet
    <3>. QED
      BY <1>1, <1>5, <2>2, <3>1, <3>3 DEF made
  <2>3. CASE ~(e.target # Outside /\ made[p] # Dir)
    <3>1. ~r.ok /\ r.tree = made
      BY <2>1, <2>3 DEF WriteLink, Error
    <3>. QED
      BY <1>2, <1>5, <2>3, <3>1 DEF made
  <2>. QED
    BY <2>2, <2>3
<1>6. CASE RealDir(made, Front(p)) /\ e.kind = "file"
  <2>. DEFINE q == Leads(made, p)
  <2>1. r = WriteFile(made, p, e.content)
    BY <1>3, <1>6 DEF Place
  <2>2. made[p].kind # "link" => q = p
    BY <1>1, <1>6, LeadsToItself
  <2>. HIDE DEF q
  <2>3. CASE q \in Names /\ made[q].kind \in {"none", "file"} /\ RealDir(made, Front(q))
    <3>1. r.ok /\ r.tree = [made EXCEPT ![q] = File(e.content)]
      BY <2>1, <2>3 DEF WriteFile, Done, q
    <3>2. File(e.content) \in Nodes /\ made[q] # Dir
      BY <1>1, <1>6, <2>3, NodeFacts
    <3>3. r.tree \in Trees
      BY <1>2, <2>3, <3>1, <3>2, TreeSet
    <3>. QED
      BY <1>6, <2>2, <2>3, <3>1, <3>3 DEF made
  <2>4. CASE ~(q \in Names /\ made[q].kind \in {"none", "file"} /\ RealDir(made, Front(q)))
    <3>1. ~r.ok /\ r.tree = made
      BY <2>1, <2>4 DEF WriteFile, Error, q
    <3>2. made[p].kind \notin {"none", "file"}
      BY <1>1, <1>6, <2>2, <2>4
    <3>. QED
      BY <1>2, <1>6, <3>1, <3>2 DEF made
  <2>. QED
    BY <2>3, <2>4
<1>. QED
  BY <1>1, <1>4, <1>5, <1>6

-----------------------------------------------------------------------------
(* The archive that is unpacked.                                           *)

LEMMA ArchiveFacts ==
  ASSUME JobOK, Zipped
  PROVE  /\ Archive \in Seq(Entry) /\ WellPacked(Archive)
         /\ \A i \in DOMAIN Archive : /\ Archive[i] \in Entry /\ Archive[i] \in Entries
                                      /\ Archive[i] \in Pieces /\ Archive[i].name \in Names
                                      /\ Archive[i].kind \in {"dir", "file", "link"}
         /\ \A e \in Entries : \E i \in DOMAIN Archive : e = Archive[i]
         /\ job \in Jobs /\ DOMAIN Archive = 1..Len(Archive) /\ Len(Archive) \in Nat
<1>1. job \in Jobs
  BY DEF JobOK, Zipped
<1>4. Archive \in Seq(Entry) /\ WellPacked(Archive)
  BY ArchivesAssumption DEF ArchivesAssumption, Archive, Zipped
<1>5. DOMAIN Archive = 1..Len(Archive) /\ Len(Archive) \in Nat
  BY <1>4
<1>6. ASSUME NEW i \in DOMAIN Archive
      PROVE  /\ Archive[i] \in Entry /\ Archive[i] \in Entries /\ Archive[i] \in Pieces
             /\ Archive[i].name \in Names /\ Archive[i].kind \in {"dir", "file", "link"}
  <2>1. Archive[i] \in Entry
    BY <1>4, <1>5
  <2>2. Archive[i] \in Entries
    BY DEF Entries
  <2>. HIDE DEF Archive
  <2>3. Archive[i] \in Pieces
    BY <2>1 DEF Entry, Pieces, Written
  <2>. QED
    BY <2>1, <2>2, <2>3 DEF Entry
<1>. QED
  BY <1>1, <1>4, <1>5, <1>6 DEF Entries

(* No name is that of two entries, and no file or link has anything below. *)
LEMMA EntriesApart ==
  ASSUME JobOK, Zipped, NEW d \in Entries, NEW e \in Entries
  PROVE  /\ d.name = e.name => d = e
         /\ d.name = Front(e.name) => d.kind = "dir"
         /\ d.kind = "dir" => Len(d.name) = 1
<1>1. PICK i \in DOMAIN Archive : d = Archive[i]
  BY ArchiveFacts
<1>2. PICK j \in DOMAIN Archive : e = Archive[j]
  BY ArchiveFacts
<1>. QED
  BY <1>1, <1>2, ArchiveFacts DEF WellPacked

LEMMA PartOfSet ==
  ASSUME NEW t \in Trees, PartOf(t), NEW q \in Names, NEW x \in Nodes,
         x.kind \in {"link", "file"} => \E e \in Entries : e.name = q /\ e.kind = x.kind,
         x.kind = "dir" =>
           \E e \in Entries : (e.name = q /\ e.kind = "dir") \/ Front(e.name) = q
  PROVE  PartOf([t EXCEPT ![q] = x])
<1>. DEFINE u == [t EXCEPT ![q] = x]
<1>1. u[q] = x /\ \A n \in Names : n # q => u[n] = t[n]
  BY DEF Trees
<1>2. ASSUME NEW n \in Names
      PROVE  /\ u[n].kind \in {"link", "file"} =>
                  \E e \in Entries : e.name = n /\ e.kind = u[n].kind
             /\ u[n].kind = "dir" =>
                  \E e \in Entries : (e.name = n /\ e.kind = "dir") \/ Front(e.name) = n
  <2>1. CASE n = q
    BY <1>1, <2>1
  <2>2. CASE n # q
    <3>1. u[n] = t[n]
      BY <1>1, <2>2
    <3>. HIDE DEF u
    <3>. QED
      BY <3>1 DEF PartOf
  <2>. QED
    BY <2>1, <2>2
<1>. QED
  BY <1>2 DEF PartOf

(* Over a part of its own tree an entry finds nothing in its way.  An      *)
(* entry that is written in part is one of the same name and kind.         *)
LEMMA NothingInTheWay ==
  ASSUME JobOK, Zipped, NEW t \in Trees, PartOf(t),
         NEW e \in Entries, NEW f \in Pieces, f.name = e.name, f.kind = e.kind
  PROVE  /\ e.kind # "dir" => PartOf(WithParent(t, f.name))
         /\ PartOf(ZipEntry(t, f).tree)
         /\ ZipEntry(t, f).ok \/ (f.kind = "link" /\ f.target = Outside)
<1>. DEFINE p    == f.name
            made == WithParent(t, p)
            r    == ZipEntry(t, f)
<1>1. p = e.name /\ p \in Names /\ e.kind \in {"dir", "file", "link"} /\ (e.kind = "dir" => Len(p) = 1)
  BY ArchiveFacts, EntriesApart
<1>2. t \in [Names -> Nodes]
  BY DEF Trees
<1>3. CASE e.kind = "dir"
  <2>1. t[p].kind \notin {"link", "file"}
    BY <1>1, <1>3, EntriesApart DEF PartOf
  <2>2. t[p] \in {Nothing, Dir}
    BY <1>1, <1>2, <2>1, NodeFacts
  <2>3. r = MakeDir(t, p)
    BY <1>3 DEF ZipEntry
  <2>4. r.ok /\ (r.tree = t \/ r.tree = [t EXCEPT ![p] = Dir])
    BY <1>1, <1>3, <2>2, <2>3, DirMade
  <2>5. PartOf([t EXCEPT ![p] = Dir])
    BY <1>1, <1>3, PartOfSet, NodeFacts
  <2>. QED
    BY <1>3, <2>4, <2>5
<1>4. CASE e.kind # "dir"
  <2>1. Front(p) \in Names => t[Front(p)] \in {Nothing, Dir}
    <3>1. SUFFICES ASSUME Front(p) \in Names PROVE t[Front(p)] \in {Nothing, Dir}
      OBVIOUS
    <3>2. t[Front(p)].kind \notin {"link", "file"}
      BY <3>1, EntriesApart DEF PartOf
    <3>. QED
      BY <1>2, <3>1, <3>2, NodeFacts
  <2>2. /\ made \in Trees /\ RealDir(made, Front(p))
        /\ made = t \/ (Front(p) \in Names /\ made = [t EXCEPT ![Front(p)] = Dir])
    BY <1>1, <2>1, ParentMade
  <2>3. PartOf(made)
    BY <2>2, PartOfSet, NodeFacts
  <2>. HIDE DEF made
  <2>4. made[p] \in Nodes
    BY <1>1, <2>2 DEF Trees
  <2>5. made[p].kind = "dir" => FALSE
    BY <1>1, <1>4, <2>3, EntriesApart DEF PartOf
  <2>6. made[p].kind = "link" => e.kind = "link"
    BY <1>1, <2>3, EntriesApart DEF PartOf
  <2>7. r.ok \/ (f.kind = "link" /\ f.target = Outside)
    <3>1. RealDir(made, Front(f.name)) /\ f.kind \in {"file", "link"} /\ f.kind # "dir"
      BY <1>1, <1>4, <2>2
    <3>2. made[f.name] # Dir /\ (f.kind = "file" => made[f.name].kind \in {"none", "file"})
      BY <2>4, <2>5, <2>6, NodeFacts
    <3>. QED
      BY <3>1, <3>2, Placed DEF made
  <2>8. PartOf(r.tree)
    <3>1. CASE ~r.ok
      BY <1>4, <2>3, <3>1, Placed DEF made
    <3>2. CASE r.ok /\ e.kind = "link"
      <4>1. f.target \in Names /\ r.tree = [made EXCEPT ![p] = Symlink(f.target)]
        BY <1>4, <3>2, Placed DEF made
      <4>. QED
        BY <1>1, <2>2, <2>3, <3>2, <4>1, PartOfSet, NodeFacts
    <3>3. CASE r.ok /\ f.kind = "file"
      <4>1. PICK q \in Names :
              /\ made[q].kind \in {"none", "file"} /\ RealDir(made, Front(q))
              /\ r.tree = [made EXCEPT ![q] = File(f.content)]
              /\ made[f.name].kind # "link" => q = f.name
        BY <3>3, Placed DEF made
      <4>2. r.tree = [made EXCEPT ![p] = File(f.content)]
        BY <2>6, <3>3, <4>1
      <4>. DEFINE x == File(f.content)
      <4>3. x \in Nodes /\ x.kind = "file"
        BY <3>3, NodeFacts DEF Pieces
      <4>. HIDE DEF x
      <4>4. PartOf([made EXCEPT ![p] = x])
        BY <1>1, <2>2, <2>3, <3>3, <4>3, PartOfSet
      <4>. QED
        BY <4>2, <4>4 DEF x
    <3>. QED
      BY <1>1, <1>4, <3>1, <3>2, <3>3
  <2>. QED
    BY <2>3, <2>7, <2>8 DEF made
<1>. QED
  BY <1>3, <1>4

-----------------------------------------------------------------------------
(* What is unpacked stays.                                                 *)

LEMMA LinksKnownSet ==
  ASSUME NEW t \in Trees, NEW k \in Nat, NEW m \in {k, k + 1}, LinksKnown(t, k),
         NEW q \in Names, NEW x \in Nodes,
         x.kind = "link" => m = k + 1 /\ k > 0 /\ Archive[k].kind = "link" /\ Archive[k].name = q
  PROVE  LinksKnown([t EXCEPT ![q] = x], m)
<1>. DEFINE u == [t EXCEPT ![q] = x]
<1>1. u[q] = x /\ \A n \in Names : n # q => u[n] = t[n]
  BY DEF Trees
<1>2. 1..(k - 1) \subseteq 1..(m - 1)
  OBVIOUS
<1>3. ASSUME NEW n \in Names, u[n].kind = "link"
      PROVE  n \in linked \/ \E i \in 1..(m - 1) : Archive[i].kind = "link" /\ Archive[i].name = n
  <2>1. CASE n = q
    <3>1. k \in 1..(m - 1)
      BY <1>1, <1>3, <2>1
    <3>. QED
      BY <1>1, <1>3, <2>1, <3>1
  <2>2. CASE n # q
    BY <1>1, <1>2, <1>3, <2>2 DEF LinksKnown
  <2>. QED
    BY <2>1, <2>2
<1>. QED
  BY <1>3 DEF LinksKnown

LEMMA StandsStays ==
  ASSUME JobOK, Zipped, NEW t \in Trees, NEW d \in Entries, Stands(t, d),
         NEW q \in Names, NEW x \in Nodes, RealDir(t, Front(q)), t[q] # Dir,
         d.kind # "dir" => d.name # q,
         t[q].kind = "link" => ~(d.kind = "dir" /\ d.name \in linked)
  PROVE  Stands([t EXCEPT ![q] = x], d)
<1>. DEFINE u == [t EXCEPT ![q] = x]
<1>1. /\ t \in [Names -> Nodes] /\ d.name \in Names /\ d.kind \in {"dir", "file", "link"}
      /\ t[q] \in Nodes
  BY ArchiveFacts DEF Trees
<1>2. \A n \in Names : n # q => u[n] = t[n]
  BY <1>1
<1>3. CASE d.kind # "dir"
  BY <1>1, <1>2, <1>3 DEF Stands
<1>4. CASE d.kind = "dir"
  <2>1. d.name \notin linked => u[d.name] = Dir
    BY <1>1, <1>2, <1>4 DEF Stands
  <2>2. IsDir(u, d.name)
    <3>1. CASE t[q].kind = "link"
      <4>1. u[d.name] = Dir
        BY <1>4, <2>1, <3>1
      <4>2. Front(d.name) = <<>>
        BY <1>1, <1>4, EntriesApart, NameFacts
      <4>3. Leads(u, d.name) = d.name
        BY <1>1, <4>1, <4>2, LeadsToItself, NodeFacts DEF RealDir
      <4>. QED
        BY <1>1, <4>1, <4>3 DEF IsDir
    <3>2. CASE t[q].kind # "link"
      <4>1. t[q].kind \in {"none", "file"}
        BY <1>1, <3>2, NodeFacts
      <4>2. IsDir(t, d.name)
        BY <1>4 DEF Stands
      <4>. QED
        BY <4>1, <4>2, DirsStay
    <3>. QED
      BY <3>1, <3>2
  <2>. QED
    BY <1>4, <2>1, <2>2 DEF Stands
<1>. QED
  BY <1>3, <1>4

(* The next entry is there when it is unpacked, and takes none of those    *)
(* before it away.                                                         *)
LEMMA NextUnpacked ==
  ASSUME JobOK, Zipped, tree \in Trees, NEW k \in DOMAIN Archive,
         LinksKnown(tree, k), ZipEntry(tree, Archive[k]).ok
  PROVE  LET u == ZipEntry(tree, Archive[k]).tree
         IN  /\ LinksKnown(u, k + 1)
             /\ ~LedAstray /\ (\A i \in 1..(k - 1) : Stands(tree, Archive[i]))
                  => \A i \in 1..k : Stands(u, Archive[i])
<1>. DEFINE e    == Archive[k]
            p    == e.name
            made == WithParent(tree, p)
            u    == ZipEntry(tree, e).tree
            Before(t) == \A i \in 1..(k - 1) : Stands(t, Archive[i])
            After(t)  == \A i \in 1..k : Stands(t, Archive[i])
<1>1. /\ e \in Entries /\ e \in Pieces /\ p \in Names /\ k \in Nat /\ k > 0
      /\ e.kind \in {"dir", "file", "link"} /\ (e.kind = "dir" => Len(p) = 1)
      /\ \A i \in 1..(k - 1) : i \in DOMAIN Archive /\ Archive[i] \in Entries
                               /\ Archive[i].name # p
      /\ 1..k = 1..(k - 1) \union {k}
  BY ArchiveFacts DEF WellPacked
<1>2. tree \in [Names -> Nodes]
  BY DEF Trees
<1>. HIDE DEF e
<1>3. ASSUME NEW t, Before(t), Stands(t, e) PROVE After(t)
  BY <1>1, <1>3 DEF e
<1>4. CASE e.kind = "dir"
  <2>1. ZipEntry(tree, e) = MakeDir(tree, p)
    BY <1>4 DEF ZipEntry
  <2>2. /\ u = tree \/ (tree[p] = Nothing /\ u = [tree EXCEPT ![p] = Dir])
        /\ IsDir(u, p) /\ (tree[p].kind # "link" => u[p] = Dir)
    BY <1>1, <1>4, <2>1, DirMade DEF e
  <2>. HIDE DEF u
  <2>3. LinksKnown(u, k + 1)
    <3>1. LinksKnown(tree, k + 1)
      BY <1>1 DEF LinksKnown
    <3>2. LinksKnown([tree EXCEPT ![p] = Dir], k + 1)
      BY <1>1, LinksKnownSet, NodeFacts
    <3>. QED
      BY <2>2, <3>1, <3>2
  <2>4. Stands(u, e)
    <3>1. tree[p].kind = "link" => p \in linked
      <4>1. \A i \in 1..(k - 1) : ~(Archive[i].kind = "link" /\ Archive[i].name = p)
        BY <1>1
      <4>. QED
        BY <1>1, <4>1 DEF LinksKnown
    <3>. QED
      BY <1>4, <2>2, <3>1 DEF Stands
  <2>5. ASSUME Before(tree) PROVE Before(u)
    <3>1. CASE u = tree
      BY <2>5, <3>1
    <3>2. CASE tree[p] = Nothing /\ u = [tree EXCEPT ![p] = Dir]
      <4>1. RealDir(tree, Front(p)) /\ tree[p] # Dir /\ tree[p].kind # "link"
        BY <1>1, <1>4, <3>2, NameFacts, NodeFacts DEF RealDir
      <4>. QED
        BY <1>1, <2>5, <3>2, <4>1, StandsStays, NodeFacts
    <3>. QED
      BY <2>2, <3>1, <3>2
  <2>. QED
    BY <1>3, <2>3, <2>4, <2>5 DEF u, e
<1>5. CASE e.kind # "dir"
  <2>1. /\ made \in Trees
        /\ \/ made = tree
           \/ /\ Front(p) \in Names /\ RealDir(tree, Front(Front(p)))
              /\ tree[Front(p)] = Nothing /\ made = [tree EXCEPT ![Front(p)] = Dir]
    BY <1>1, ParentMade
  <2>2. LinksKnown(made, k)
    BY <1>1, <2>1, LinksKnownSet, NodeFacts
  <2>3. ASSUME Before(tree) PROVE Before(made)
    <3>1. CASE made = tree
      BY <2>3, <3>1
    <3>2. CASE made # tree
      <4>. DEFINE q == Front(p)
      <4>1. q \in Names /\ RealDir(tree, Front(q)) /\ tree[q] = Nothing
        BY <2>1, <3>2
      <4>2. tree[q] # Dir /\ tree[q].kind # "link"
        BY <4>1, NodeFacts
      <4>3. \A i \in 1..(k - 1) : Archive[i].kind # "dir" => Archive[i].name # q
        BY <1>1, EntriesApart
      <4>. HIDE DEF q
      <4>4. \A i \in 1..(k - 1) : Stands([tree EXCEPT ![q] = Dir], Archive[i])
        BY <1>1, <2>3, <4>1, <4>2, <4>3, StandsStays, NodeFacts
      <4>. QED
        BY <2>1, <3>2, <4>4 DEF q
    <3>. QED
      BY <3>1, <3>2
  <2>4. made[p] \in Nodes
    BY <1>1, <2>1 DEF Trees
  <2>5. made[p].kind = "link" => p \in linked
    <3>1. \A i \in 1..(k - 1) : ~(Archive[i].kind = "link" /\ Archive[i].name = p)
      BY <1>1
    <3>. QED
      BY <1>1, <2>2, <3>1 DEF LinksKnown
  <2>6. ZipEntry(tree, e).ok
    BY DEF e
  <2>. HIDE DEF made
  <2>7. CASE e.kind = "link"
    <3>. DEFINE x == Symlink(e.target)
    <3>1. /\ RealDir(made, Front(p)) /\ e.target \in Names /\ made[p] # Dir
          /\ u = [made EXCEPT ![p] = x]
      BY <1>1, <1>5, <2>6, <2>7, Placed DEF made
    <3>2. x \in Nodes
      BY <3>1, NodeFacts
    <3>3. LinksKnown(u, k + 1)
      <4>1. Archive[k].kind = "link" /\ Archive[k].name = p
        BY <2>7 DEF e
      <4>. HIDE DEF x, u
      <4>2. LinksKnown([made EXCEPT ![p] = x], k + 1)
        BY <1>1, <2>1, <2>2, <3>2, <4>1, LinksKnownSet
      <4>. QED
        BY <3>1, <4>2
    <3>4. u[p] = x
      BY <1>1, <2>1, <3>1 DEF Trees
    <3>. HIDE DEF u
    <3>5. Stands(u, e)
      BY <2>7, <3>4 DEF Stands
    <3>6. ASSUME ~LedAstray, NEW i \in 1..(k - 1), made[p].kind = "link"
          PROVE  ~(Archive[i].kind = "dir" /\ Archive[i].name \in linked)
      BY <1>1, <2>5, <2>7, <3>6 DEF LedAstray, e
    <3>7. ASSUME ~LedAstray, Before(made) PROVE Before(u)
      <4>. SUFFICES ASSUME NEW i \in 1..(k - 1) PROVE Stands(u, Archive[i])
        OBVIOUS
      <4>1. Stands(made, Archive[i])
        BY <3>7
      <4>. QED
        BY <1>1, <2>1, <3>1, <3>2, <3>6, <3>7, <4>1, StandsStays
    <3>. QED
      BY <1>3, <2>3, <3>3, <3>5, <3>7 DEF u, e
  <2>8. CASE e.kind = "file"
    <3>. DEFINE x == File(e.content)
    <3>1. PICK q \in Names :
            /\ made[q].kind \in {"none", "file"} /\ RealDir(made, Front(q))
            /\ u = [made EXCEPT ![q] = x]
            /\ made[p].kind # "link" => q = p
      BY <1>1, <1>5, <2>6, <2>8, Placed DEF made
    <3>2. x \in Nodes /\ x.kind = "file" /\ made[q] # Dir
      BY <1>1, <2>8, <3>1, NodeFacts DEF Pieces
    <3>3. LinksKnown(u, k + 1)
      BY <1>1, <2>1, <2>2, <3>1, <3>2, LinksKnownSet
    <3>4. ~LedAstray => q = p
      BY <1>1, <2>5, <2>8, <3>1 DEF LedAstray
    <3>5. u[q] = x
      BY <2>1, <3>1 DEF Trees
    <3>. HIDE DEF u
    <3>6. q = p => Stands(u, e)
      BY <2>8, <3>5 DEF Stands
    <3>7. ASSUME q = p, Before(made) PROVE Before(u)
      <4>. SUFFICES ASSUME NEW i \in 1..(k - 1) PROVE Stands(u, Archive[i])
        OBVIOUS
      <4>1. Stands(made, Archive[i])
        BY <3>7
      <4>. QED
        BY <1>1, <2>1, <3>1, <3>2, <3>7, <4>1, StandsStays
    <3>. QED
      BY <1>3, <2>3, <3>3, <3>4, <3>6, <3>7 DEF u, e
  <2>. QED
    BY <1>1, <1>5, <2>7, <2>8
<1>. QED
  BY <1>4, <1>5

-----------------------------------------------------------------------------
(* The steps.                                                              *)

LEMMA InitIInv == Init => IInv
<1>. SUFFICES ASSUME Init PROVE IInv
  OBVIOUS
<1>1. tree = [n \in Names |-> Nothing] /\ job = Idle /\ only = {}
  BY DEF Init
<1>2. tree \in Trees
  BY <1>1, NodeFacts DEF Trees, Parented
<1>3. JobOK /\ Own /\ Unpacked /\ ExtractsAgain
  BY <1>1 DEF JobOK, Own, Unpacked, ExtractsAgain, Going, Zipped
<1>. QED
  BY <1>2, <1>3 DEF IInv

LEMMA BeginStep ==
  ASSUME IInv, Begin
  PROVE  IInv'
<1>. USE DEF IInv
<1>1. PICK a \in Assets :
        /\ job' = [status |-> CASE ~Opens(a) -> "failed"
                                [] Taken(a).pack = "tar" -> "tar" [] OTHER -> "busy",
                   asset |-> a, found |-> Taken(a), next |-> 1, fault |-> FALSE]
        /\ linked' = {n \in Names : tree[n].kind = "link"}
        /\ only' = IF only \subseteq {a} THEN {a} ELSE Assets
        /\ UNCHANGED <<features, tree>>
  BY DEF Begin
<1>2. /\ job'.status \in {"busy", "failed", "tar"} /\ job'.asset = a /\ job'.found = Taken(a)
      /\ job'.next = 1 /\ job'.fault = FALSE
      /\ job'.status # "idle"
      /\ job'.status = "failed" => ~Opens(a)
  BY <1>1
<1>3. job' \in Jobs' /\ job' # Idle /\ Taken(job.asset)' = Taken(a)
  <2>1. Taken(job.asset)' = Taken(a)
    BY <1>1, <1>2 DEF Taken, DetectArchive, Shape, Rejected
  <2>2. {Taken(b) : b \in Assets}' = {Taken(b) : b \in Assets}
    BY <1>1 DEF Taken, DetectArchive
  <2>3. job' # Idle
    BY <1>2 DEF Idle
  <2>4. job' \in [status : {"busy", "failed", "tar", "ok"}, asset : Assets,
                  found : {Taken(b) : b \in Assets}, next : Nat \ {0},
                  fault : BOOLEAN]
    BY <1>1, <1>2
  <2>. QED
    BY <2>1, <2>2, <2>3, <2>4 DEF Jobs
<1>4. Zipped' => Len(Archive') \in Nat /\ job'.status # "failed"
  <2>1. SUFFICES ASSUME Zipped' PROVE Archive' \in Seq(Entry) /\ job'.status # "failed"
    OBVIOUS
  <2>2. Taken(a).pack = "zip" /\ a.archive \in DOMAIN Archives
    BY <1>2, <2>1 DEF Zipped
  <2>3. Archive' = Archives[a.archive]
    BY <1>2 DEF Archive
  <2>4. Taken(a) # Rejected /\ Taken(a).layer = None
    BY <2>2, AssetsAssumption DEF AssetsAssumption, ArchiveKind, Taken, DetectArchive, Shape, Rejected
  <2>. QED
    BY <1>2, <2>2, <2>3, <2>4, ArchivesAssumption DEF ArchivesAssumption, Opens
<1>5. JobOK'
  <2>1. job'.asset \in only' /\ only' \subseteq Assets
    BY <1>1, <1>2
  <2>3. Going' /\ job'.found.pack = "zip" => Zipped'
    BY <1>1, <1>2, <1>3 DEF Going, Opens, Zipped
  <2>2. Going' /\ Zipped' => job'.next <= Len(Archive') + 1
    BY <1>2, <1>4
  <2>. QED
    BY <1>2, <1>3, <2>1, <2>2, <2>3 DEF JobOK
<1>6. Own'
  <2>1. SUFFICES ASSUME Zipped', only' = {a} PROVE PartOf(tree)'
    <3>. SUFFICES ASSUME PartOf(tree)', NEW n \in linked'
                  PROVE  \E e \in Entries' : e.name = n /\ e.kind = "link"
      BY <1>2 DEF Own
    <3>. QED
      BY <1>1 DEF PartOf
  <2>2. only \subseteq {a}
    BY <1>1, <2>1 DEF JobOK
  <2>3. CASE job = Idle
    <3>1. tree' = [n \in Names |-> Nothing]
      BY <1>1, <2>3 DEF JobOK
    <3>. QED
      BY <3>1, NodeFacts DEF PartOf
  <2>4. CASE job # Idle
    <3>1. job.asset = a /\ only = {job.asset} /\ job.found = Taken(a)
      BY <2>2, <2>4 DEF JobOK
    <3>2. Archive' = Archive
      BY <1>2, <3>1 DEF Archive
    <3>3. Entries' = Entries
      BY <3>2 DEF Entries
    <3>4. Zipped
      BY <1>2, <2>1, <2>4, <3>1 DEF Zipped
    <3>. QED
      BY <1>1, <3>1, <3>3, <3>4 DEF Own, PartOf
  <2>. QED
    BY <2>3, <2>4
<1>7. Unpacked'
  <2>1. LinksKnown(tree, job.next)'
    BY <1>1 DEF LinksKnown
  <2>2. 1..(job'.next - 1) = {}
    BY <1>2
  <2>. QED
    BY <2>1, <2>2 DEF Unpacked
<1>8. ExtractsAgain'
  BY <1>2, <1>4 DEF ExtractsAgain
<1>. QED
  BY <1>1, <1>5, <1>6, <1>7, <1>8 DEF Trees, Parented

(* The other steps go on with the same asset.                              *)
LEMMA SameAsset ==
  ASSUME JobOK, job # Idle, UNCHANGED <<features, linked, only>>,
         job' \in Jobs, job'.asset = job.asset, job'.found = job.found
  PROVE  /\ Archive' = Archive /\ Entries' = Entries
         /\ LedAstray' <=> LedAstray
         /\ Zipped' <=> Zipped
         /\ job' # Idle /\ job' \in Jobs' /\ job'.asset \in only' /\ only' \subseteq Assets
         /\ job'.found = Taken(job.asset)'
<1>1. job \in Jobs /\ job.asset \in only /\ only \subseteq Assets
      /\ job.found = Taken(job.asset)
  BY DEF JobOK
<1>2. job' # Idle
  BY DEF Idle, Jobs
<1>3. Archive' = Archive
  BY DEF Archive
<1>4. Entries' = Entries
  BY <1>3 DEF Entries
<1>5. LedAstray' <=> LedAstray
  BY <1>3, <1>4 DEF LedAstray
<1>6. Jobs' = Jobs /\ Taken(job.asset)' = Taken(job.asset)
  BY DEF Jobs, Taken, DetectArchive
<1>. QED
  BY <1>1, <1>2, <1>3, <1>4, <1>5, <1>6 DEF Zipped

LEMMA NextEntryStep ==
  ASSUME IInv, NextEntry
  PROVE  IInv'
<1>. DEFINE k == job.next
            e == Archive[k]
            r == ZipEntry(tree, e)
<1>. USE DEF IInv
<1>1. /\ job.status = "busy" /\ job.found.pack = "zip" /\ k <= Len(Archive)
      /\ tree' = r.tree /\ UNCHANGED <<features, linked, only>>
      /\ job' = IF r.ok THEN [job EXCEPT !.next = @ + 1] ELSE [job EXCEPT !.status = "failed"]
  BY DEF NextEntry
<1>2. job # Idle /\ Zipped /\ Going
  BY <1>1 DEF Idle, JobOK, Going
<1>3. /\ job \in Jobs /\ k \in Nat /\ k > 0 /\ k \in DOMAIN Archive /\ k < Len(Archive) + 1
      /\ Len(Archive) \in Nat
  BY <1>1, <1>2, ArchiveFacts DEF Jobs
<1>4. e \in Entries /\ e \in Pieces /\ e.name \in Names /\ (e.kind = "dir" => Len(e.name) = 1)
  BY <1>2, <1>3, ArchiveFacts, EntriesApart
<1>5. r.tree \in Trees
  <2>1. CASE e.kind = "dir"
    BY <1>4, <2>1, DirMade DEF ZipEntry
  <2>2. CASE e.kind # "dir"
    BY <1>4, <2>2, Placed
  <2>. QED
    BY <2>1, <2>2
<1>6. PartOf(tree) => PartOf(r.tree) /\ (r.ok \/ (e.kind = "link" /\ e.target = Outside))
  BY <1>2, <1>4, NothingInTheWay
<1>7. r.ok => /\ LinksKnown(r.tree, k + 1)
              /\ ~LedAstray => \A i \in 1..k : Stands(r.tree, Archive[i])
  BY <1>2, <1>3, NextUnpacked DEF Unpacked
<1>. HIDE DEF r, e
<1>8. /\ job' \in Jobs /\ job'.asset = job.asset /\ job'.found = job.found
      /\ job'.fault = job.fault
      /\ r.ok => job'.status = "busy" /\ job'.next = k + 1
      /\ ~r.ok => job'.status = "failed"
  BY <1>1, <1>3 DEF Jobs
<1>9. /\ Archive' = Archive /\ Entries' = Entries
      /\ LedAstray' <=> LedAstray
      /\ Zipped'
      /\ job' # Idle /\ job' \in Jobs' /\ job'.asset \in only' /\ only' \subseteq Assets
      /\ job'.found = Taken(job.asset)'
  BY <1>1, <1>2, <1>8, SameAsset
<1>10. tree' \in Trees'
  BY <1>1, <1>5 DEF Trees, Parented
<1>11. JobOK'
  <2>1. Going' => r.ok
    BY <1>8 DEF Going
  <2>. QED
    BY <1>2, <1>3, <1>8, <1>9, <2>1 DEF JobOK
<1>12. Own'
  <2>1. PartOf(tree)' <=> PartOf(r.tree)
    BY <1>1, <1>9 DEF PartOf
  <2>. QED
    BY <1>1, <1>2, <1>6, <1>8, <1>9, <2>1 DEF Own
<1>13. Unpacked'
  <2>1. SUFFICES ASSUME Going' PROVE Unpacked'
    BY DEF Unpacked
  <2>2. r.ok /\ job'.next = k + 1
    BY <1>8, <2>1 DEF Going
  <2>3. LinksKnown(tree, job.next)'
    BY <1>1, <1>7, <1>9, <2>2 DEF LinksKnown
  <2>4. ASSUME ~LedAstray', NEW i \in 1..(job'.next - 1) PROVE Stands(tree, Archive[i])'
    <3>1. i \in 1..k
      BY <1>3, <2>2
    <3>2. Stands(r.tree, Archive[i])
      BY <1>7, <1>9, <2>2, <2>4, <3>1
    <3>. QED
      BY <1>1, <1>9, <3>2 DEF Stands
  <2>. QED
    BY <2>3, <2>4 DEF Unpacked
<1>14. ExtractsAgain'
  BY <1>1, <1>2, <1>4, <1>6, <1>8, <1>9 DEF ExtractsAgain, Own
<1>. QED
  BY <1>10, <1>11, <1>12, <1>13, <1>14

LEMMA EntryFailsStep ==
  ASSUME IInv, EntryFails
  PROVE  IInv'
<1>. DEFINE e == Archive[job.next]
            p == e.name
            made == WithParent(tree, p)
            f == [e EXCEPT !.content = "partial"]
<1>. USE DEF IInv
<1>1. /\ job.status = "busy" /\ job.found.pack = "zip" /\ job.next <= Len(Archive)
      /\ tree' \in Torn(tree, e) /\ UNCHANGED <<features, linked, only>>
      /\ job' = [job EXCEPT !.status = "failed", !.fault = TRUE]
  BY DEF EntryFails
<1>2. job # Idle /\ Zipped
  BY <1>1 DEF Idle, JobOK, Going
<1>3. job \in Jobs /\ job.next \in DOMAIN Archive
  BY <1>1, <1>2, ArchiveFacts DEF Jobs
<1>4. e \in Entries /\ e \in Pieces /\ p \in Names /\ e.kind \in {"dir", "file", "link"}
  BY <1>2, <1>3, ArchiveFacts
<1>. HIDE DEF e
<1>5. tree' \in Trees /\ (PartOf(tree) => PartOf(tree'))
  <2>1. CASE tree' = tree
    BY <2>1
  <2>2. CASE e.kind = "link" /\ ZipEntry(tree, e).ok /\ tree' = [made EXCEPT ![p] = Nothing]
    <3>1. made \in Trees
      BY <1>4, ParentMade
    <3>2. RealDir(made, Front(p)) /\ made[p] # Dir
      BY <1>4, <2>2, Placed
    <3>3. PartOf(tree) => PartOf(made)
      BY <1>2, <1>4, <2>2, NothingInTheWay
    <3>. HIDE DEF made
    <3>4. [made EXCEPT ![p] = Nothing] \in Trees
      BY <1>4, <3>1, <3>2, TreeSet, NodeFacts
    <3>5. PartOf(made) => PartOf([made EXCEPT ![p] = Nothing])
      BY <1>4, <3>1, PartOfSet, NodeFacts
    <3>. QED
      BY <2>2, <3>3, <3>4, <3>5
  <2>3. CASE e.kind = "file" /\ tree' = made
    BY <1>2, <1>4, <2>3, ParentMade, NothingInTheWay
  <2>4. CASE e.kind = "file" /\ tree' = ZipEntry(tree, f).tree
    <3>1. f \in Pieces /\ f.name = e.name /\ f.kind = e.kind
      BY <1>4, <2>4 DEF Pieces, Written
    <3>. HIDE DEF f
    <3>2. ZipEntry(tree, f).tree \in Trees
      BY <2>4, <3>1, Placed
    <3>. QED
      BY <1>2, <1>4, <2>4, <3>1, <3>2, NothingInTheWay
  <2>5. CASE e.kind = "dir" \/ ~ZipEntry(tree, e).ok
    <3>1. tree' = tree
      BY <1>1, <2>5 DEF Torn
    <3>. QED
      BY <2>1, <3>1
  <2>6. CASE e.kind = "link" /\ ZipEntry(tree, e).ok
    <3>1. tree' = tree \/ tree' = [made EXCEPT ![p] = Nothing]
      BY <1>1, <2>6 DEF Torn
    <3>. QED
      BY <2>1, <2>2, <2>6, <3>1
  <2>7. CASE e.kind = "file" /\ ZipEntry(tree, e).ok
    <3>1. tree' = tree \/ tree' = made \/ tree' = ZipEntry(tree, f).tree
      BY <1>1, <2>7 DEF Torn
    <3>. QED
      BY <2>1, <2>3, <2>4, <2>7, <3>1
  <2>. QED
    BY <1>4, <2>5, <2>6, <2>7
<1>6. /\ job' \in Jobs /\ job'.asset = job.asset /\ job'.found = job.found
      /\ job'.status = "failed" /\ job'.fault
  BY <1>1, <1>3 DEF Jobs
<1>7. /\ Entries' = Entries
      /\ job' # Idle /\ job' \in Jobs' /\ job'.asset \in only' /\ only' \subseteq Assets
      /\ job'.found = Taken(job.asset)'
  BY <1>1, <1>2, <1>6, SameAsset
<1>8. tree' \in Trees'
  BY <1>5 DEF Trees, Parented
<1>9. JobOK' /\ Unpacked' /\ ExtractsAgain'
  BY <1>6, <1>7 DEF JobOK, Unpacked, ExtractsAgain, Going
<1>10. Own'
  <2>1. PartOf(tree)' <=> PartOf(tree')
    BY <1>7 DEF PartOf
  <2>. QED
    BY <1>1, <1>2, <1>5, <1>6, <1>7, <2>1 DEF Own
<1>. QED
  BY <1>8, <1>9, <1>10

LEMMA EndOfArchiveStep ==
  ASSUME IInv, EndOfArchive
  PROVE  IInv'
<1>. USE DEF IInv
<1>1. /\ job.status = "busy" /\ job.found.pack = "zip" /\ job.next > Len(Archive)
      /\ UNCHANGED <<features, tree, linked, only>>
      /\ job' = [job EXCEPT !.status = "ok"]
  BY DEF EndOfArchive
<1>2. job # Idle /\ Zipped /\ Going
  BY <1>1 DEF Idle, JobOK, Going
<1>3. job \in Jobs /\ job.next = Len(Archive) + 1
  BY <1>1, <1>2, ArchiveFacts DEF Jobs, JobOK
<1>4. /\ job' \in Jobs /\ job'.asset = job.asset /\ job'.found = job.found
      /\ job'.status = "ok" /\ job'.next = job.next
  BY <1>1, <1>3 DEF Jobs
<1>5. /\ Archive' = Archive /\ Entries' = Entries
      /\ LedAstray' <=> LedAstray
      /\ Zipped'
      /\ job' # Idle /\ job' \in Jobs' /\ job'.asset \in only' /\ only' \subseteq Assets
      /\ job'.found = Taken(job.asset)'
  BY <1>1, <1>2, <1>4, SameAsset
<1>6. tree' \in Trees'
  BY <1>1 DEF Trees, Parented
<1>7. JobOK' /\ ExtractsAgain'
  BY <1>2, <1>3, <1>4, <1>5, ArchiveFacts DEF JobOK, ExtractsAgain
<1>8. Own'
  BY <1>1, <1>2, <1>4, <1>5 DEF Own, PartOf
<1>9. Unpacked'
  <2>1. LinksKnown(tree, job.next)'
    BY <1>1, <1>2, <1>4, <1>5 DEF Unpacked, LinksKnown
  <2>2. ASSUME ~LedAstray', NEW i \in 1..(job'.next - 1) PROVE Stands(tree, Archive[i])'
    <3>1. Stands(tree, Archive[i])
      BY <1>2, <1>4, <1>5, <2>2 DEF Unpacked
    <3>. QED
      BY <1>1, <1>5, <3>1 DEF Stands
  <2>. QED
    BY <2>1, <2>2 DEF Unpacked
<1>. QED
  BY <1>6, <1>7, <1>8, <1>9

LEMMA FileWritten ==
  ASSUME NEW t \in Trees, NEW p, NEW c \in Written
  PROVE  WriteFile(t, p, c).tree \in Trees
<1>. DEFINE q == Leads(t, p)
<1>1. CASE q \in Names /\ t[q].kind \in {"none", "file"} /\ RealDir(t, Front(q))
  <2>1. WriteFile(t, p, c).tree = [t EXCEPT ![q] = File(c)]
    BY <1>1 DEF WriteFile, Done
  <2>2. t[q] # Dir /\ File(c) \in Nodes
    BY <1>1, NodeFacts
  <2>. HIDE DEF q
  <2>. QED
    BY <1>1, <2>1, <2>2, TreeSet
<1>2. CASE ~(q \in Names /\ t[q].kind \in {"none", "file"} /\ RealDir(t, Front(q)))
  BY <1>2 DEF WriteFile, Error
<1>. QED
  BY <1>1, <1>2

LEMMA PlainStep ==
  ASSUME IInv, Plain \/ PlainFails
  PROVE  IInv'
<1>. USE DEF IInv
<1>1. /\ job.status = "busy" /\ job.found.pack = "plain" /\ UNCHANGED <<features, linked, only>>
  BY DEF Plain, PlainFails
<1>2. job # Idle /\ job \in Jobs /\ ~Zipped
  BY <1>1 DEF Idle, JobOK, Zipped
<1>3. tree' \in Trees
  <2>1. CASE Plain
    BY <2>1, FileWritten DEF Plain, Written
  <2>2. CASE PlainFails
    BY <2>2, FileWritten DEF PlainFails, Written
  <2>. QED
    BY <2>1, <2>2
<1>4. job' \in Jobs /\ job'.asset = job.asset /\ job'.found = job.found
  BY <1>2 DEF Plain, PlainFails, Jobs
<1>5. /\ ~Zipped' /\ job' # Idle /\ job' \in Jobs' /\ job'.asset \in only' /\ only' \subseteq Assets
      /\ job'.found = Taken(job.asset)'
  BY <1>1, <1>2, <1>4, SameAsset
<1>6. tree' \in Trees'
  BY <1>3 DEF Trees, Parented
<1>. QED
  BY <1>1, <1>2, <1>4, <1>5, <1>6 DEF JobOK, Own, Unpacked, ExtractsAgain

LEMMA NextIInv == IInv /\ [Next]_vars => IInv'
<1>. SUFFICES ASSUME IInv, [Next]_vars PROVE IInv'
  OBVIOUS
<1>1. CASE UNCHANGED vars
  <2>1. UNCHANGED <<features, tree, job, linked, only>>
    BY <1>1 DEF vars
  <2>. QED
    BY <2>1 DEF IInv, Trees, Parented, JobOK, Jobs, Taken, DetectArchive, Going, Zipped, Archive, Own,
               PartOf, Entries, Unpacked, LinksKnown, LedAstray, Stands, ExtractsAgain
<1>. QED
  BY <1>1, BeginStep, NextEntryStep, EntryFailsStep, EndOfArchiveStep, PlainStep DEF Next

LEMMA SpecIInv == Spec => []IInv
  BY InitIInv, NextIInv, PTL DEF Spec

-----------------------------------------------------------------------------
(* Any archive can be unpacked over a part of its own tree, wherever the   *)
(* attempts before were broken off: what fails is an input or output, or a *)
(* link that leads out of the directory (extract_into).                    *)
THEOREM RepeatsSafely == Spec => []ExtractsAgain
<1>1. IInv => ExtractsAgain
  BY DEF IInv
<1>. QED
  BY <1>1, SpecIInv, PTL

(* For any archives in any order over each other, an archive that is       *)
(* unpacked to its end is there as it is, unless a link led it astray      *)
(* (extract_into).                                                         *)
THEOREM ExtractedIsArchived == Spec => []ExtractedAsArchived
<1>1. ASSUME IInv PROVE ExtractedAsArchived
  <2>. SUFFICES ASSUME Zipped, job.status = "ok", ~LedAstray, NEW e \in Entries PROVE Holds(e)
    BY DEF ExtractedAsArchived
  <2>. USE <1>1 DEF IInv
  <2>1. PICK i \in DOMAIN Archive : e = Archive[i]
    BY ArchiveFacts
  <2>2. i \in 1..(job.next - 1)
    BY ArchiveFacts DEF JobOK
  <2>3. Stands(tree, e)
    BY <2>1, <2>2 DEF Unpacked, Going, Zipped
  <2>4. e.name \in Names /\ e.kind \in {"dir", "file", "link"}
    BY <2>1, ArchiveFacts
  <2>5. CASE e.kind # "file"
    BY <2>3, <2>4, <2>5 DEF Stands, Holds
  <2>6. CASE e.kind = "file"
    <3>1. tree[e.name] = File(e.content)
      BY <2>3, <2>6 DEF Stands
    <3>2. tree[e.name].kind = "file" /\ tree[e.name] # Nothing
      BY <3>1, NodeFacts
    <3>3. RealDir(tree, Front(e.name))
      BY <2>4, <3>2, NameFacts DEF Trees, Parented, RealDir
    <3>4. Leads(tree, e.name) = e.name
      BY <2>4, <3>2, <3>3, LeadsToItself
    <3>. QED
      BY <2>4, <2>6, <3>1, <3>4 DEF Holds
  <2>. QED
    BY <2>5, <2>6
<1>. QED
  BY <1>1, SpecIInv, PTL

(* However often an extraction of one archive is broken off, and wherever, *)
(* the attempt that comes to its end leaves the tree that a single         *)
(* extraction makes of an empty directory (extract_into).                  *)
THEOREM RetriesEndAlike == Spec => []RepeatsEndAlike
<1>1. ASSUME IInv PROVE RepeatsEndAlike
  <2>. SUFFICES ASSUME Zipped, job.status = "ok", only = {job.asset} PROVE tree = Fresh
    BY DEF RepeatsEndAlike
  <2>. USE <1>1 DEF IInv
  <2>1. /\ tree \in [Names -> Nodes] /\ Parented(tree) /\ PartOf(tree)
        /\ \A n \in linked : \E e \in Entries : e.name = n /\ e.kind = "link"
    BY DEF Trees, Own
  <2>2. \A e \in Entries : e.name \in linked => e.kind = "link"
    BY <2>1, EntriesApart
  <2>3. ~LedAstray
    BY <2>2, ArchiveFacts DEF LedAstray
  <2>4. ASSUME NEW e \in Entries
        PROVE  e.name \in Names /\ tree[e.name] = Node(e) /\ Node(e) # Nothing
    <3>1. PICK i \in DOMAIN Archive : e = Archive[i]
      BY ArchiveFacts
    <3>2. i \in 1..(job.next - 1)
      BY ArchiveFacts DEF JobOK
    <3>3. Stands(tree, e)
      BY <2>3, <3>1, <3>2 DEF Unpacked, Going, Zipped
    <3>4. e.name \in Names /\ e.kind \in {"dir", "file", "link"}
      BY <3>1, ArchiveFacts
    <3>. QED
      BY <2>2, <3>3, <3>4, NodeFacts DEF Stands, Node
  <2>5. ASSUME NEW n \in Names PROVE tree[n] = Fresh[n]
    <3>1. CASE \E e \in Entries : e.name = n
      <4>. DEFINE d == CHOOSE e \in Entries : e.name = n
      <4>1. d \in Entries /\ d.name = n
        BY <3>1
      <4>2. Fresh[n] = Node(d)
        BY <3>1 DEF Fresh
      <4>. HIDE DEF d
      <4>. QED
        BY <2>4, <4>1, <4>2
    <3>2. CASE ~(\E e \in Entries : e.name = n) /\ \E e \in Entries : Front(e.name) = n
      <4>1. PICK e \in Entries : Front(e.name) = n
        BY <3>2
      <4>2. Len(e.name) = 2 /\ tree[e.name] # Nothing /\ e.name \in Names
        BY <2>4, <4>1, NameFacts
      <4>3. tree[n] = Dir
        BY <2>1, <4>1, <4>2 DEF Parented
      <4>. QED
        BY <3>2, <4>3 DEF Fresh
    <3>3. CASE ~(\E e \in Entries : e.name = n) /\ ~(\E e \in Entries : Front(e.name) = n)
      <4>1. tree[n].kind \notin {"link", "file", "dir"}
        BY <2>1, <3>3 DEF PartOf
      <4>2. tree[n] = Nothing
        BY <2>1, <4>1, NodeFacts
      <4>. QED
        BY <3>3, <4>2 DEF Fresh
    <3>. QED
      BY <3>1, <3>2, <3>3
  <2>. QED
    BY <2>1, <2>5 DEF Fresh
<1>. QED
  BY <1>1, SpecIInv, PTL

=============================================================================
