------------------------------- MODULE Update -------------------------------
(***************************************************************************)
(* The update pipeline (update_extended and update_extended_async in       *)
(* src/update.rs, with what they call in src/lib.rs and backends/mod.rs):  *)
(* list the releases, choose one, resolve and confirm its asset, download  *)
(* it with retries, verify, extract, and put the new executable in the     *)
(* place of the installed one.                                             *)
(*                                                                         *)
(* Several updaters run against one server and one install path: processes *)
(* of the same program, or threads of one.  The server may replace or      *)
(* withdraw an asset at any time, requests and system calls may fail, a    *)
(* process may be killed and its async caller may drop the future.         *)
(*                                                                         *)
(* A file is a function from its Size parts to what they hold: Nil for a   *)
(* part that has not been written.  The install path and the temporary     *)
(* file beside it are names of inodes, because a process that has the      *)
(* temporary file open keeps writing to it after it has been renamed.      *)
(* Each updater has a TempDir of its own, so what it downloads and         *)
(* extracts there is private to it.                                        *)
(***************************************************************************)
EXTENDS Versions

CONSTANTS
  Updaters,
  Releases,      \* the versions the server may publish
  Archives,      \* [release, binary, format, name, signed]: what an asset can be
  Approved,      \* the binaries the verify_binary hook accepts
  VersionOf,     \* VersionOf[b]: the version compiled into binary b
  Original,      \* the binary installed at first
  Configs,       \* the configurations an updater may have
  Fleets,        \* who is configured how; Nil: never started
  Digested,      \* the releases whose listing carries a digest of the asset
  Size,          \* parts of a file
  Runs,          \* bound: how many calls of update() begin
  Edits,         \* bound: how often the server changes an asset
  Inodes,
  Bare,          \* a published release with no asset for this target
  Nil

Parts == 1..Size
Empty == [i \in Parts |-> Nil]
Whole(x) == [i \in Parts |-> x]

Binaries == DOMAIN VersionOf

(* Formats that zipsign can carry a signature in.                          *)
SignedFormats == {"tar.gz", "zip"}

ASSUME SizeAssumption == Size \in Nat \ {0}
ASSUME BoundsAssumption == Runs \in Nat /\ Edits \in Nat
ASSUME ReleasesAssumption == Releases \subseteq Semver
ASSUME BinariesAssumption ==
  /\ VersionOf \in [Binaries -> Semver]
  /\ Original \in Binaries
  /\ Approved \subseteq Binaries
  /\ Nil \notin Binaries \union Archives \union Releases \union Inodes
  /\ Bare \notin Archives \union {Nil}
ASSUME ArchivesAssumption ==
  Archives \subseteq [release : Releases, binary : Binaries,
                      format : SignedFormats \union {"plain"},
                      name : {"asset", "binary", "unsafe"}, signed : BOOLEAN]
(* An asset's URL has its name: what replaces it is named alike.           *)
ASSUME NamesAssumption ==
  \A a, b \in Archives :
    a.release = b.release => a.name = b.name /\ a.format = b.format
ASSUME ConfigsAssumption ==
  Configs \subseteq [checksum : Archives \union {Nil}, digest : BOOLEAN,
                     keys : BOOLEAN, hook : BOOLEAN, pin : Releases \union {Nil},
                     strategy : {"compatible", "latest"}, async : BOOLEAN,
                     probe : BOOLEAN, self : BOOLEAN, retries : Nat, cross : BOOLEAN]
(* cross: the updater's TempDir is on another file system than the install *)
(* path.                                                                   *)
ASSUME FleetsAssumption == Nil \notin Configs /\ Fleets \subseteq [Updaters -> Configs \union {Nil}]
(* The file system has an inode that no name and no descriptor refers to.  *)
ASSUME InodesAssumption ==
  /\ Inodes # {}
  /\ \A b \in Inodes, t \in Inodes \union {Nil}, f \in [Updaters -> Inodes \union {Nil}] :
       \E i \in Inodes : i # b /\ i # t /\ \A p \in Updaters : f[p] # i

VARIABLES
  asset,    \* asset[r]: what the server serves for release r; Nil: no such release
  edits,    \* how often the server has changed
  cfg,      \* cfg[p]: the configuration of updater p
  current,  \* current[p]: current_version(), compiled into p's process
  pc,       \* pc[p]: where p is in the pipeline
  gone,     \* gone[p]: the async caller has dropped the future, the tail runs on
  tries,    \* tries[p]: failed attempts at the request p is making
  want,     \* want[p]: the release chosen, and its asset as it was listed
  resp,     \* resp[p]: the archive the download response streams
  archive,  \* archive[p]: the downloaded file
  exe,      \* exe[p]: the extracted executable
  pos,      \* pos[p]: the next part to download or to copy
  result,   \* result[p]: what the last call returned to its caller
  runs,     \* how many calls have begun
  inode,    \* inode[i]: the contents of an inode
  bin,      \* the inode at the install path
  tmp,      \* the inode at <install path>.self_update.tmp, or Nil
  fd        \* fd[p]: the inode p has open for writing, or Nil

server == <<asset, edits>>
disk == <<inode, bin, tmp, fd>>
private == <<want, resp, archive, exe, pos, tries>>
vars == <<server, cfg, current, pc, gone, private, result, runs, disk>>

(* The states of an async future before the blocking tail is spawned, and  *)
(* of the tail.                                                            *)
Awaiting == {"list", "get", "body"}
Asking == {"resolve", "probe"}
Tail == {"verify", "extract", "hook", "replace", "copying", "swap", "installed"}
Running == Awaiting \union Asking \union Tail

Outcome(status, release) == [status |-> status, release |-> release]
NoOutcome == Outcome("none", Nil)

Content == inode[bin]

(* An inode that no name and no descriptor refers to.                      *)
Fresh == CHOOSE i \in Inodes : i # bin /\ i # tmp /\ \A p \in Updaters : fd[p] # i

-----------------------------------------------------------------------------
Init ==
  /\ asset \in [Releases -> {Nil, Bare} \union Archives]
  /\ \A r \in Releases : asset[r] \in Archives => asset[r].release = r
  /\ edits = 0
  /\ cfg \in Fleets
  /\ current = [p \in Updaters |-> VersionOf[Original]]
  /\ pc = [p \in Updaters |-> "idle"]
  /\ gone = [p \in Updaters |-> FALSE]
  /\ tries = [p \in Updaters |-> 0]
  /\ want = [p \in Updaters |-> Nil]
  /\ resp = [p \in Updaters |-> Nil]
  /\ archive = [p \in Updaters |-> Empty]
  /\ exe = [p \in Updaters |-> Empty]
  /\ pos = [p \in Updaters |-> 1]
  /\ result = [p \in Updaters |-> NoOutcome]
  /\ runs = 0
  /\ bin = CHOOSE i \in Inodes : TRUE
  /\ tmp = Nil
  /\ inode = [i \in Inodes |-> IF i = bin THEN Whole(Original) ELSE Empty]
  /\ fd = [p \in Updaters |-> Nil]

(* The maintainers publish a release, upload an asset again or withdraw it.*)
Publish(r, a) ==
  /\ edits < Edits
  /\ edits' = edits + 1
  /\ a \in Archives => a.release = r
  /\ asset' = [asset EXCEPT ![r] = a]
  /\ UNCHANGED <<cfg, current, pc, gone, private, result, runs, disk>>

(* The locals of a call are dropped, its TempDir with them.                *)
Forget(p) ==
  /\ want' = [want EXCEPT ![p] = Nil]
  /\ resp' = [resp EXCEPT ![p] = Nil]
  /\ archive' = [archive EXCEPT ![p] = Empty]
  /\ exe' = [exe EXCEPT ![p] = Empty]
  /\ pos' = [pos EXCEPT ![p] = 1]
  /\ tries' = [tries EXCEPT ![p] = 0]

(* The call returns; the result of a tail nobody waits for is dropped.     *)
Finish(p, outcome) ==
  /\ pc' = [pc EXCEPT ![p] = "done"]
  /\ result' = [result EXCEPT ![p] = IF gone[p] THEN Outcome("cancelled", Nil) ELSE outcome]
  /\ gone' = [gone EXCEPT ![p] = FALSE]
  /\ Forget(p)
  /\ UNCHANGED <<server, cfg, current, runs>>

Fail(p) == Finish(p, Outcome("err", Nil))

Goto(p, label) ==
  /\ pc' = [pc EXCEPT ![p] = label]
  /\ UNCHANGED <<server, cfg, current, gone, result, runs>>

(* update() is called, in a process that has just been executed from the   *)
(* install path or in one that called it before.                           *)
Start(p) ==
  /\ pc[p] \in {"idle", "done", "crashed"}
  /\ cfg[p] # Nil /\ runs < Runs
  /\ \/ pc[p] \in {"idle", "done"} /\ UNCHANGED current
     \/ \E b \in Binaries :
          /\ Content = Whole(b)
          /\ current' = [current EXCEPT ![p] = VersionOf[b]]
  /\ runs' = runs + 1
  /\ pc' = [pc EXCEPT ![p] = "list"]
  /\ result' = [result EXCEPT ![p] = NoOutcome]
  /\ UNCHANGED <<server, cfg, gone, private, disk>>

(* Mutant of MayRetry: one attempt too many.                               *)
MayRetryOnceMore(p) == tries[p] <= cfg[p].retries

MayRetry(p) == tries[p] < cfg[p].retries

(* Mutant of RequestFails: failed attempts are not counted.                *)
RequestFailsUncounted(p) ==
  /\ pc[p] \in {"list", "get"}
  /\ Goto(p, pc[p])
  /\ UNCHANGED <<private, disk>>

(* backends::retry: an attempt to establish a request fails.               *)
RequestFails(p) ==
  /\ pc[p] \in {"list", "get"}
  /\ IF MayRetry(p)
       THEN /\ tries' = [tries EXCEPT ![p] = @ + 1]
            /\ Goto(p, pc[p])
            /\ UNCHANGED <<want, resp, archive, exe, pos>>
       ELSE Fail(p)
  /\ UNCHANGED disk

(* Mutant of Newer: whatever is published.                                 *)
Published(p) == {r \in Releases : asset[r] # Nil}

(* The releases update() considers, and choose_latest_release.             *)
Newer(p) == {r \in Releases : asset[r] # Nil /\ BumpIsGreater(current[p], r)}

Compatible(p) == {r \in Newer(p) : BumpIsCompatible(current[p], r)}

Candidates(p) ==
  IF cfg[p].pin # Nil THEN {cfg[p].pin}
  ELSE IF cfg[p].strategy = "compatible" /\ Compatible(p) # {} THEN Compatible(p)
  ELSE Newer(p)

Wanted(r) ==
  [release |-> r, asset |-> asset[r], digest |-> IF r \in Digested THEN asset[r] ELSE Nil]

(* The listing arrives and holds a release to install.  A pinned tag is    *)
(* looked up as it is, older or not.                                       *)
Choose(p) ==
  /\ pc[p] = "list"
  /\ \E r \in Candidates(p) :
       /\ asset[r] # Nil
       /\ \A q \in Candidates(p) : q = r \/ Greater(r, q)
       /\ want' = [want EXCEPT ![p] = Wanted(r)]
  /\ tries' = [tries EXCEPT ![p] = 0]
  /\ Goto(p, "resolve")
  /\ UNCHANGED <<resp, archive, exe, pos, disk>>

UpToDate(p) ==
  /\ pc[p] = "list"
  /\ Candidates(p) = {}
  /\ Finish(p, Outcome("uptodate", Nil))
  /\ UNCHANGED disk

(* resolve_and_confirm: an asset for the target, with a safe name, and the *)
(* user agrees (or is not asked).                                          *)
Resolve(p) ==
  /\ pc[p] = "resolve"
  /\ want[p].asset # Bare
  /\ want[p].asset.name # "unsafe"
  /\ Goto(p, IF cfg[p].probe THEN "probe" ELSE "get")
  /\ UNCHANGED <<private, disk>>

Probe(p) ==
  /\ pc[p] = "probe"
  /\ Goto(p, "get")
  /\ UNCHANGED <<private, disk>>

(* No asset, an unsafe name, a refusal at the prompt, or an install path   *)
(* that is definitely not writable.                                        *)
Refuse(p) ==
  /\ pc[p] \in Asking
  /\ Fail(p)
  /\ UNCHANGED disk

(* The download request is answered with what the server has now.          *)
GetAsset(p) ==
  /\ pc[p] = "get"
  /\ asset[want[p].release] \in Archives
  /\ resp' = [resp EXCEPT ![p] = asset[want[p].release]]
  /\ tries' = [tries EXCEPT ![p] = 0]
  /\ Goto(p, "body")
  /\ UNCHANGED <<want, archive, exe, pos, disk>>

ReceivePart(p) ==
  /\ pc[p] = "body"
  /\ pos[p] <= Size
  /\ archive' = [archive EXCEPT ![p][pos[p]] = resp[p]]
  /\ pos' = [pos EXCEPT ![p] = @ + 1]
  /\ Goto(p, "body")
  /\ UNCHANGED <<want, resp, exe, tries, disk>>

(* Mutant of BodyFails: the download is resumed by a new request.          *)
BodyResumes(p) ==
  /\ pc[p] = "body"
  /\ Goto(p, "get")
  /\ UNCHANGED <<private, disk>>

(* The stream fails: nothing is retried once bytes have been written.      *)
BodyFails(p) ==
  /\ pc[p] = "body"
  /\ Fail(p)
  /\ UNCHANGED disk

(* The stream ends.  It may end early: the loop does not compare what it   *)
(* received with the announced length.                                     *)
BodyEnds(p) ==
  /\ pc[p] = "body"
  /\ Goto(p, "verify")
  /\ UNCHANGED <<private, disk>>

(* finish_update_owned: the checksum the program pins, the digest that the *)
(* listing carried, and the signature, all of the downloaded file.         *)
ChecksumOk(p) == cfg[p].checksum # Nil => archive[p] = Whole(cfg[p].checksum)

(* Mutants of DigestOk and SignatureOk: the digest of the response, and a  *)
(* signature that is looked for only in a file that has one.               *)
DigestOfResponse(p) ==
  cfg[p].digest /\ want[p].digest # Nil => archive[p] = Whole(resp[p])
SignatureIfAny(p) ==
  cfg[p].keys /\ resp[p].signed => archive[p] = Whole(resp[p])

DigestOk(p) ==
  cfg[p].digest /\ want[p].digest # Nil => archive[p] = Whole(want[p].digest)

SignatureOk(p) ==
  cfg[p].keys => \E a \in Archives :
    archive[p] = Whole(a) /\ a.signed /\ want[p].asset.format \in SignedFormats

Verify(p) ==
  /\ pc[p] = "verify"
  /\ IF ChecksumOk(p) /\ DigestOk(p) /\ SignatureOk(p)
       THEN Goto(p, "extract") /\ UNCHANGED private
       ELSE Fail(p)
  /\ UNCHANGED disk

(* Extract::extract_file into the TempDir.  A plain asset is copied to     *)
(* the name of the binary; when that is its own name, creating the target  *)
(* truncates it before it is read.                                         *)
Extracted(p) ==
  IF want[p].asset.format # "plain"
    THEN {Whole(a.binary) : a \in {x \in Archives : archive[p] = Whole(x)}}
    ELSE IF want[p].asset.name = "binary" THEN {Empty}
    ELSE {[i \in Parts |-> IF archive[p][i] = Nil THEN Nil ELSE archive[p][i].binary]}

ExtractFile(p) ==
  /\ pc[p] = "extract"
  /\ \E e \in Extracted(p) : exe' = [exe EXCEPT ![p] = e]
  /\ pos' = [pos EXCEPT ![p] = 1]
  /\ Goto(p, IF cfg[p].hook THEN "hook" ELSE "replace")
  /\ UNCHANGED <<want, resp, archive, tries, disk>>

(* install_binary: the program's own hook looks at the new executable.     *)
HookAccepts(p) ==
  /\ pc[p] = "hook"
  /\ \E b \in Approved : exe[p] = Whole(b)
  /\ Goto(p, "replace")
  /\ UNCHANGED <<private, disk>>

(* Anything in the tail that changes no file outside the TempDir fails:    *)
(* the extraction, the hook, self_replace, the rename.                     *)
StepFails(p) ==
  /\ pc[p] \in {"extract", "hook", "replace"}
  /\ Fail(p)
  /\ UNCHANGED disk

(* One rename onto the install path: by self_replace when it is the        *)
(* running executable, else by Move::to_dest.                              *)
Replace(p) ==
  /\ pc[p] = "replace"
  /\ cfg[p].self \/ ~cfg[p].cross
  /\ bin' = Fresh
  /\ inode' = [inode EXCEPT ![bin'] = exe[p]]
  /\ Goto(p, "installed")
  /\ UNCHANGED <<private, tmp, fd>>

(* rename_or_copy across file systems: fs::copy opens the one temporary    *)
(* name beside the install path, creating or truncating it, ..             *)
OpenTmp(p) ==
  /\ pc[p] = "replace"
  /\ ~cfg[p].self /\ cfg[p].cross
  /\ tmp' = IF tmp = Nil THEN Fresh ELSE tmp
  /\ inode' = [inode EXCEPT ![tmp'] = Empty]
  /\ fd' = [fd EXCEPT ![p] = tmp']
  /\ Goto(p, "copying")
  /\ UNCHANGED <<private, bin>>

(* .. writes it, part by part, ..                                          *)
Copied(p) == \A i \in pos[p]..Size : exe[p][i] = Nil

CopyPart(p) ==
  /\ pc[p] = "copying"
  /\ ~Copied(p)
  /\ inode' = [inode EXCEPT ![fd[p]][pos[p]] = exe[p][pos[p]]]
  /\ pos' = [pos EXCEPT ![p] = @ + 1]
  /\ Goto(p, "copying")
  /\ UNCHANGED <<want, resp, archive, exe, tries, bin, tmp, fd>>

CopyDone(p) ==
  /\ pc[p] = "copying"
  /\ Copied(p)
  /\ fd' = [fd EXCEPT ![p] = Nil]
  /\ Goto(p, "swap")
  /\ UNCHANGED <<private, inode, bin, tmp>>

(* (a copy that fails leaves what it wrote behind)                         *)
CopyFails(p) ==
  /\ pc[p] = "copying"
  /\ fd' = [fd EXCEPT ![p] = Nil]
  /\ Fail(p)
  /\ UNCHANGED <<inode, bin, tmp>>

(* .. and is renamed onto the install path.                                *)
SwapTmp(p) ==
  /\ pc[p] = "swap"
  /\ tmp # Nil
  /\ bin' = tmp
  /\ tmp' = Nil
  /\ Goto(p, "installed")
  /\ UNCHANGED <<private, inode, fd>>

SwapFails(p) ==
  /\ pc[p] = "swap"
  /\ tmp' \in {tmp, Nil}
  /\ Fail(p)
  /\ UNCHANGED <<inode, bin, fd>>

Return(p) ==
  /\ pc[p] = "installed"
  /\ Finish(p, Outcome("updated", want[p].release))
  /\ UNCHANGED disk

(* The caller drops the future: before the tail is spawned everything      *)
(* stops, after it the tail runs to its end.                               *)
Cancel(p) ==
  /\ pc[p] \in Running
  /\ cfg[p].async
  /\ ~gone[p]
  /\ \/ /\ pc[p] \in Awaiting
        /\ Finish(p, Outcome("cancelled", Nil))
     \/ /\ pc[p] \in Tail
        /\ gone' = [gone EXCEPT ![p] = TRUE]
        /\ UNCHANGED <<server, cfg, current, pc, private, result, runs>>
  /\ UNCHANGED disk

(* The process is killed: only what is on disk stays.                      *)
Crash(p) ==
  /\ pc[p] \in Running
  /\ pc' = [pc EXCEPT ![p] = "crashed"]
  /\ gone' = [gone EXCEPT ![p] = FALSE]
  /\ fd' = [fd EXCEPT ![p] = Nil]
  /\ Forget(p)
  /\ UNCHANGED <<server, cfg, current, result, runs, inode, bin, tmp>>

-----------------------------------------------------------------------------
Install(p) ==
  \/ Replace(p) \/ OpenTmp(p) \/ CopyPart(p) \/ CopyDone(p) \/ CopyFails(p)
  \/ SwapTmp(p) \/ SwapFails(p)

(* A step the call itself takes.                                           *)
Step(p) ==
  \/ RequestFails(p) \/ Choose(p) \/ UpToDate(p)
  \/ Resolve(p) \/ Probe(p) \/ Refuse(p)
  \/ GetAsset(p) \/ ReceivePart(p) \/ BodyFails(p) \/ BodyEnds(p)
  \/ Verify(p) \/ ExtractFile(p) \/ HookAccepts(p) \/ StepFails(p)
  \/ Install(p) \/ Return(p)

Next ==
  \/ \E r \in Releases, a \in {Nil, Bare} \union Archives : Publish(r, a)
  \/ \E p \in Updaters : Start(p) \/ Step(p) \/ Cancel(p) \/ Crash(p)

Spec == Init /\ [][Next]_vars

(* Requests are answered or time out, and system calls return; an updater  *)
(* that waits for its user waits until the user answers.                   *)
FairSpec == Spec /\ \A p \in Updaters : WF_vars(Step(p))

-----------------------------------------------------------------------------
Files(S) == [Parts -> S \union {Nil}]

Wants == [release : Releases, asset : Archives \union {Bare}, digest : Archives \union {Bare, Nil}]

Statuses == {"none", "err", "uptodate", "cancelled", "updated"}

TypeOK ==
  /\ asset \in [Releases -> Archives \union {Nil, Bare}]
  /\ edits \in 0..Edits
  /\ cfg \in Fleets
  /\ current \in [Updaters -> Semver]
  /\ pc \in [Updaters -> Running \union {"idle", "done", "crashed"}]
  /\ gone \in [Updaters -> BOOLEAN]
  /\ tries \in [Updaters -> Nat]
  /\ \A p \in Updaters : cfg[p] # Nil => tries[p] <= cfg[p].retries
  /\ want \in [Updaters -> Wants \union {Nil}]
  /\ resp \in [Updaters -> Archives \union {Nil}]
  /\ archive \in [Updaters -> Files(Archives)]
  /\ exe \in [Updaters -> Files(Binaries)]
  /\ pos \in [Updaters -> 1..(Size + 1)]
  /\ result \in [Updaters -> [status : Statuses, release : Releases \union {Nil}]]
  /\ runs \in 0..Runs
  /\ inode \in [Inodes -> Files(Binaries)]
  /\ bin \in Inodes
  /\ tmp \in Inodes \union {Nil}
  /\ fd \in [Updaters -> Inodes \union {Nil}]

(* A configuration under which an archive that is cut short cannot pass.   *)
Guarded(c) == c.checksum # Nil \/ c.keys \/ c.hook

(* The archives of release r that pass the gates of configuration c.       *)
Passing(c, r) ==
  {a \in Archives :
     /\ a.release = r /\ a.name # "unsafe"
     /\ c.checksum \in {Nil, a}
     /\ c.keys => a.signed /\ a.format \in SignedFormats
     /\ c.hook => a.binary \in Approved}

(* What may be installed under c for r: the binary of such an archive, or, *)
(* with nothing to detect it, a plain asset that was cut short.            *)
Vet == [c \in Configs |-> [r \in Releases |->
          {Whole(a.binary) : a \in Passing(c, r)} \union
          {[i \in Parts |-> IF i <= k THEN a.binary ELSE Nil] :
             k \in 0..Size,
             a \in {x \in Passing(c, r) : ~Guarded(c) /\ x.format = "plain"}}]]

(* Whatever is interleaved, replaced on the server, or killed, the install *)
(* path holds the original or a binary that passed every gate of an        *)
(* updater that is configured to install it.                               *)
BinaryVetted ==
  \/ Content = Whole(Original)
  \/ \E p \in Updaters, r \in Releases : cfg[p] # Nil /\ Content \in Vet[cfg[p]][r]

(* The downloaded file is the beginning of one response: a retry never     *)
(* continues a file that another response began.                           *)
OneResponse ==
  \A p \in Updaters : \E a \in Archives \union {Nil}, k \in 0..Size :
    archive[p] = [i \in Parts |-> IF i <= k THEN a ELSE Nil]

(* An updater that checks the release digest installs the asset that the   *)
(* listing described, even if the server has replaced it since.            *)
InstallsWhatWasListed ==
  [][\A p \in Updaters :
       pc[p] # "installed" /\ pc'[p] = "installed"
         /\ cfg[p].digest /\ want[p].digest # Nil
       => Content' = Whole(want[p].digest.binary)]_vars

(* A call that began returns or dies with its process.                     *)
UpdateReturns == \A p \in Updaters : pc[p] = "list" ~> pc[p] \in {"done", "crashed"}

(* What the doc comment of rename_or_copy says of the copy beside the      *)
(* install path: the rename that follows it is atomic, so nobody finds a   *)
(* part of a binary there.                                                 *)
BinaryWhole == \E b \in Binaries : Content = Whole(b)

(* What ref-update-pipeline.md says of a plain asset: it is copied.        *)
PlainIsCopied ==
  [][\A p \in Updaters :
       pc[p] = "extract" /\ pc'[p] \in {"hook", "replace"} /\ want[p].asset.format = "plain"
       => \A i \in Parts : archive[p][i] # Nil => exe'[p][i] = archive[p][i].binary]_vars

-----------------------------------------------------------------------------
Status(p) ==
  CASE pc[p] = "installed" -> Outcome("busy", want[p].release)
    [] pc[p] \in Running \ {"installed"} -> Outcome("busy", Nil)
    [] pc[p] = "crashed" -> Outcome("dead", Nil)
    [] OTHER -> result[p]

Safe == INSTANCE SafeUpdate WITH
          content <- Content, config <- cfg, version <- current,
          outcome <- [p \in Updaters |-> Status(p)]

(* The pipeline does what SafeUpdate promises.                             *)
ImplementsSafeUpdate == Safe!Spec
=============================================================================
