------------------------------ MODULE Extraction ------------------------------
(***************************************************************************)
(* Extract::extract_into: an asset unpacked into a directory, entry after  *)
(* entry, over whatever an earlier extraction left there.                  *)
(*                                                                         *)
(* What an asset is taken for is what Extract::archive said, or what the   *)
(* extension of its name and the crate's features say; what it really is,  *)
(* a zip archive or a file with a codec, is another matter.  A zip archive *)
(* is a sequence of entries that name directories, files and symbolic      *)
(* links below the directory.  A tree maps every name to what is there.    *)
(* Archives have one entry per name; unpacking a tar is left to the tar    *)
(* crate, so a tar's entries are not modelled.                             *)
(***************************************************************************)
EXTENDS Integers, SequencesExt

CONSTANTS
    Outside,      \* a link target that is absolute or climbs above the directory
    Names,        \* paths below the directory, at most two components long
    Contents,     \* what the files of an archive may hold
    Archives,     \* the zip archives: sequences of entries
    Assets,       \* the assets: records [ext, kind, archive, codec]
    FeatureSets,  \* the features that a build of the crate may have
    PlainName,    \* the name that an asset which is no archive is written to
    None

\* The paths are one or two components long, and the directory of one is one.
NamesAssumption ==
    /\ \A n \in Names : /\ n \in Seq(STRING) /\ Len(n) \in {1, 2}
                        /\ Len(n) = 2 => Front(n) \in Names
    /\ PlainName \in Names /\ Len(PlainName) = 1
    /\ Outside \notin Names

Entry == [name : Names, kind : {"dir"}]
         \union [name : Names, kind : {"file"}, content : Contents]
         \union [name : Names, kind : {"link"}, target : Names \union {Outside}]

\* An archive is packed from a tree: it has one entry per name, and what its
\* other entries are below is a directory.  Directories are one component
\* long, and a link that paths lead through leads to one.
WellPacked(A) ==
    \A i, j \in DOMAIN A :
        /\ A[i].name = A[j].name => i = j
        /\ A[j].name = Front(A[i].name) => A[j].kind = "dir"
        /\ A[i].kind = "dir" => Len(A[i].name) = 1
        /\ A[i].kind = "link" /\ A[i].target # Outside /\ Len(A[i].target) = 2
             => \A n \in Names : Front(n) # A[i].name

ArchivesAssumption ==
    /\ Archives \in Seq(Seq(Entry))
    /\ \A k \in DOMAIN Archives : WellPacked(Archives[k])

\* ArchiveKind: how an asset is packed, and the layer to be decoded.
ArchiveKind == [pack : {"zip"}, layer : {None}]
               \union [pack : {"tar", "plain"}, layer : {None, "gz", "xz"}]

\* The kind that the user set, if any, which archive the file is, if any, and
\* what its bytes are compressed with, by these codecs or by others.
AssetsAssumption ==
    \A a \in Assets : a.kind \in ArchiveKind \union {None}

ASSUME NamesAssumption
ASSUME ArchivesAssumption
ASSUME AssetsAssumption

VARIABLES
    features,     \* of this build, never changed
    tree,         \* what each name is
    job,          \* the extraction under way
    linked,       \* the names that were links when it began (history)
    only          \* the one asset extracted so far, or all (history)

vars == <<features, tree, job, linked, only>>

Nothing  == [kind |-> "none"]
Dir      == [kind |-> "dir"]
File(c)  == [kind |-> "file", content |-> c]
Symlink(t) == [kind |-> "link", target |-> t]

-----------------------------------------------------------------------------
(* What kind of asset it is.                                               *)

Shape(ext) ==
    CASE ext = "zip"                -> [pack |-> "zip",   layer |-> None]
      [] ext = "tar"                -> [pack |-> "tar",   layer |-> None]
      [] ext \in {"tgz", "tar.gz"}  -> [pack |-> "tar",   layer |-> "gz"]
      [] ext \in {"txz", "tar.xz"}  -> [pack |-> "tar",   layer |-> "xz"]
      [] ext \in {"gz", "xz"}       -> [pack |-> "plain", layer |-> ext]
      [] OTHER                      -> [pack |-> "plain", layer |-> None]

Rejected == [pack |-> "rejected", layer |-> None]

\* detect_archive: the archive's feature first, then the compression's.
DetectArchive(ext) ==
    LET s == Shape(ext)
    IN  IF \/ s.pack # "plain" /\ s.pack \notin features
           \/ s.layer # None /\ s.layer \notin features
        THEN Rejected ELSE s

\* Extract::archive comes before the extension.
Taken(a) == IF a.kind # None THEN a.kind ELSE DetectArchive(a.ext)

\* The variants Zip and Tar of ArchiveKind exist only with their features.
Expressible(a) == a.kind # None => a.kind.pack \in features \union {"plain"}

\* get_archive_reader and ZipArchive::new: a kind that was set may lack its
\* decoder all the same, and a file need not be what it is taken for.
Opens(a) == LET k == Taken(a)
            IN  /\ k # Rejected
                /\ k.layer # None => k.layer \in features
                /\ k.pack = "zip" => a.archive \in DOMAIN Archives

-----------------------------------------------------------------------------
(* The file system.                                                        *)

\* One symbolic link of a path resolved: its directory's before its own.
FollowOne(t, p) ==
    IF Len(p) = 2 /\ Front(p) \in Names /\ t[Front(p)].kind = "link"
    THEN t[Front(p)].target \o <<Last(p)>>
    ELSE IF p \in Names /\ t[p].kind = "link" THEN t[p].target ELSE p

\* Where a path leads when it is opened; links four deep are enough here.
Leads(t, p) == LET f(q) == FollowOne(t, q) IN f(f(f(f(p))))

IsDir(t, p)   == p = <<>> \/ (Leads(t, p) \in Names /\ t[Leads(t, p)] = Dir)
RealDir(t, p) == p = <<>> \/ t[p] = Dir

Done(t)  == [ok |-> TRUE,  tree |-> t]
Error(t) == [ok |-> FALSE, tree |-> t]

\* fs::create_dir_all, of the directories one deep that archives have here.
MakeDir(t, p) ==
    IF IsDir(t, p) THEN Done(t)
    ELSE IF t[p] = Nothing THEN Done([t EXCEPT ![p] = Dir])
    ELSE Error(t)

\* Mutant of WriteFile: a file that is there already is taken for the entry.
WriteFileOnce(t, p, c) ==
    LET q == Leads(t, p)
    IN  CASE q \in Names /\ t[q].kind = "file" -> Done(t)
          [] q \in Names /\ t[q].kind = "none" /\ RealDir(t, Front(q)) ->
               Done([t EXCEPT ![q] = File(c)])
          [] OTHER -> Error(t)

\* fs::create and the copy: the file that the path leads to, through links.
WriteFile(t, p, c) ==
    LET q == Leads(t, p)
    IN  IF q \in Names /\ t[q].kind \in {"none", "file"} /\ RealDir(t, Front(q))
        THEN Done([t EXCEPT ![q] = File(c)]) ELSE Error(t)

\* Mutant of WriteLink: what is in the way of the link stays.
WriteLinkOnce(t, p, target) ==
    IF target # Outside /\ t[p] = Nothing
    THEN Done([t EXCEPT ![p] = Symlink(target)]) ELSE Error(t)

\* remove_file and symlink: a directory in the way is an error, and so is a
\* target outside the directory.
WriteLink(t, p, target) ==
    IF target # Outside /\ t[p] # Dir
    THEN Done([t EXCEPT ![p] = Symlink(target)]) ELSE Error(t)

WithParent(t, p) == IF Len(p) = 1 THEN t ELSE MakeDir(t, Front(p)).tree

Place(t, e) == IF e.kind = "link" THEN WriteLink(t, e.name, e.target)
                                  ELSE WriteFile(t, e.name, e.content)

\* Mutant of ZipEntry: the parent may be reached through a link.
ZipEntryThrough(t, e) ==
    IF e.kind = "dir" THEN MakeDir(t, e.name)
    ELSE LET made == WithParent(t, e.name)
         IN  IF IsDir(made, Front(e.name)) THEN Place(made, e) ELSE Error(made)

\* One zip entry.  The parent of a file or link is made when it is missing,
\* and has to be a real directory, not a link to one.
ZipEntry(t, e) ==
    IF e.kind = "dir" THEN MakeDir(t, e.name)
    ELSE LET made == WithParent(t, e.name)
         IN  IF RealDir(made, Front(e.name)) THEN Place(made, e) ELSE Error(made)

-----------------------------------------------------------------------------
Idle == [status |-> "idle"]

Archive == Archives[job.asset.archive]

\* extract_into opens the source and finds out what it is; a tar goes to the
\* tar crate, and what that does to the tree is not modelled.
Begin ==
    \E a \in Assets :
        /\ job.status # "busy" /\ Expressible(a)
        /\ job' = [status |-> CASE ~Opens(a) -> "failed"
                                [] Taken(a).pack = "tar" -> "tar" [] OTHER -> "busy",
                   asset |-> a, found |-> Taken(a), next |-> 1, fault |-> FALSE]
        /\ linked' = {n \in Names : tree[n].kind = "link"}
        /\ only' = IF only \subseteq {a} THEN {a} ELSE Assets
        /\ UNCHANGED <<features, tree>>

\* The next entry of the zip; the first error ends the extraction.
NextEntry ==
    /\ job.status = "busy" /\ job.found.pack = "zip"
    /\ job.next <= Len(Archive)
    /\ LET r == ZipEntry(tree, Archive[job.next])
       IN  /\ tree' = r.tree
           /\ job' = IF r.ok THEN [job EXCEPT !.next = @ + 1]
                             ELSE [job EXCEPT !.status = "failed"]
    /\ UNCHANGED <<features, linked, only>>

\* What an entry that fails, or a process that dies in it, leaves: a file
\* half written, a link whose forerunner is removed and that is not there yet.
Torn(t, e) ==
    {t} \cup
    IF e.kind = "dir" \/ ~ZipEntry(t, e).ok THEN {}
    ELSE IF e.kind = "link" THEN {[WithParent(t, e.name) EXCEPT ![e.name] = Nothing]}
    ELSE {WithParent(t, e.name), ZipEntry(t, [e EXCEPT !.content = "partial"]).tree}

EntryFails ==
    /\ job.status = "busy" /\ job.found.pack = "zip"
    /\ job.next <= Len(Archive)
    /\ tree' \in Torn(tree, Archive[job.next])
    /\ job' = [job EXCEPT !.status = "failed", !.fault = TRUE]
    /\ UNCHANGED <<features, linked, only>>

EndOfArchive ==
    /\ job.status = "busy" /\ job.found.pack = "zip"
    /\ job.next > Len(Archive)
    /\ job' = [job EXCEPT !.status = "ok"]
    /\ UNCHANGED <<features, tree, linked, only>>

\* The layer to be decoded is not in the file.
Garbled == job.found.layer \notin {None, job.asset.codec}

\* An asset that is one file: what the reader yields is copied, which is the
\* file as it is if no layer is to be decoded, compressed or not.
Plain ==
    /\ job.status = "busy" /\ job.found.pack = "plain" /\ ~Garbled
    /\ LET r == WriteFile(tree, PlainName,
                          IF job.found.layer = job.asset.codec THEN "payload"
                                                               ELSE "compressed")
       IN  /\ tree' = r.tree
           /\ job' = [job EXCEPT !.status = IF r.ok THEN "ok" ELSE "failed"]
    /\ UNCHANGED <<features, linked, only>>

\* The stream is no such stream or damaged, or the copy fails.  gzip is decoded
\* while it is written, xz before the file is opened.
PlainFails ==
    /\ job.status = "busy" /\ job.found.pack = "plain"
    /\ tree' \in IF Garbled /\ job.found.layer = "xz" THEN {tree}
                ELSE {tree, WriteFile(tree, PlainName, "partial").tree}
    /\ job' = [job EXCEPT !.status = "failed", !.fault = TRUE]
    /\ UNCHANGED <<features, linked, only>>

Init ==
    /\ features \in FeatureSets
    /\ tree = [n \in Names |-> Nothing]
    /\ job = Idle
    /\ linked = {} /\ only = {}

Next == Begin \/ NextEntry \/ EntryFails \/ EndOfArchive \/ Plain \/ PlainFails

Spec == Init /\ [][Next]_vars

-----------------------------------------------------------------------------
\* A zip archive, taken for one.
Zipped    == /\ job # Idle /\ job.found.pack = "zip"
             /\ job.asset.archive \in DOMAIN Archives
Entries   == {Archive[i] : i \in DOMAIN Archive}

\* The tree holds what the entry says.
Holds(e) ==
    CASE e.kind = "dir"  -> IsDir(tree, e.name)
      [] e.kind = "link" -> tree[e.name] = Symlink(e.target)
      [] OTHER           -> /\ Leads(tree, e.name) \in Names
                            /\ tree[Leads(tree, e.name)] = File(e.content)

\* What an earlier extraction left to mislead this one: a link where the
\* archive has a file, which is written through it, or one where it has a
\* directory and takes the link for it, before it replaces another link.
LedAstray ==
    \/ \E e \in Entries : e.kind = "file" /\ e.name \in linked
    \/ \E i, j \in DOMAIN Archive :
         /\ i < j /\ Archive[i].kind = "dir" /\ Archive[j].kind = "link"
         /\ {Archive[i].name, Archive[j].name} \subseteq linked

\* When extract_into says Ok, the directory holds what the archive says: over
\* what another version left, over a half-written attempt, whatever the order
\* of links and files - unless it was led astray by a link (extract_into, zip
\* entries).
ExtractedAsArchived ==
    Zipped /\ job.status = "ok" /\ ~LedAstray => \A e \in Entries : Holds(e)

\* Extracting an archive again, over its own tree or any part of it that an
\* interrupted attempt left, fails only on an I/O error.
ExtractsAgain ==
    Zipped /\ job.status = "failed" /\ ~job.fault
           /\ only = {job.asset}
        => \E e \in Entries : e.kind = "link" /\ e.target = Outside

\* What an extraction of this archive alone, into an empty directory, makes of
\* each name.
Node(e) == CASE e.kind = "dir"  -> Dir
             [] e.kind = "link" -> Symlink(e.target)
             [] OTHER           -> File(e.content)

Fresh == [n \in Names |->
            IF \E e \in Entries : e.name = n
            THEN Node(CHOOSE e \in Entries : e.name = n)
            ELSE IF \E e \in Entries : Front(e.name) = n THEN Dir ELSE Nothing]

\* Attempts at one asset, broken off wherever it may be, leave no trace in what
\* the attempt that succeeds makes of the directory: no half of a file and no
\* link's forerunner, nothing more and nothing less than without them
\* (extract_into, zip entries).
RepeatsEndAlike ==
    Zipped /\ job.status = "ok" /\ only = {job.asset} => tree = Fresh

=============================================================================
