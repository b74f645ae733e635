---------------------------- MODULE UpdateProofs ----------------------------
(***************************************************************************)
(* Theorems about Update, for any number of updaters, of calls and of      *)
(* changes of the server, any releases, assets and configurations, and     *)
(* files of any size.                                                      *)
(***************************************************************************)
EXTENDS Update, TLAPS

-----------------------------------------------------------------------------
(* Types.                                                                  *)

LEMMA FreshInode ==
  ASSUME TypeOK
  PROVE  Fresh \in Inodes /\ Fresh # bin /\ Fresh # tmp /\ \A p \in Updaters : fd[p] # Fresh
<1>0. bin \in Inodes /\ tmp \in Inodes \union {Nil} /\ fd \in [Updaters -> Inodes \union {Nil}]
  BY DEF TypeOK
<1>1. \E i \in Inodes : i # bin /\ i # tmp /\ \A p \in Updaters : fd[p] # i
  BY <1>0, InodesAssumption
<1>. QED
  BY <1>1 DEF Fresh

(* Files are functions of their parts.                                     *)
LEMMA FileTypes ==
  /\ Empty \in Files(Archives) /\ Empty \in Files(Binaries)
  /\ \A b \in Binaries : Whole(b) \in Files(Binaries)
  /\ \A S : \A f \in Files(S), i \in Parts, x \in S \union {Nil} :
       [f EXCEPT ![i] = x] \in Files(S)
  BY DEF Empty, Whole, Files

LEMMA InitTypes == Init => TypeOK
<1>. SUFFICES ASSUME Init PROVE TypeOK
  OBVIOUS
<1>1. (CHOOSE i \in Inodes : TRUE) \in Inodes
  BY InodesAssumption
<1>2. VersionOf[Original] \in Semver /\ Original \in Binaries
  BY BinariesAssumption
<1>3. 1 \in 1..(Size + 1) /\ 0 \in 0..Edits /\ 0 \in 0..Runs
  BY SizeAssumption, BoundsAssumption
<1>4. /\ asset \in [Releases -> Archives \union {Nil, Bare}]
      /\ edits \in 0..Edits /\ runs \in 0..Runs
      /\ cfg \in Fleets
      /\ current \in [Updaters -> Semver]
      /\ want \in [Updaters -> Wants \union {Nil}]
      /\ resp \in [Updaters -> Archives \union {Nil}]
      /\ fd \in [Updaters -> Inodes \union {Nil}]
      /\ bin \in Inodes
      /\ tmp \in Inodes \union {Nil}
      /\ gone \in [Updaters -> BOOLEAN]
      /\ pos \in [Updaters -> 1..(Size + 1)]
  BY <1>1, <1>2, <1>3 DEF Init
<1>5. pc \in [Updaters -> Running \union {"idle", "done", "crashed"}]
  BY DEF Init
<1>6. /\ tries \in [Updaters -> Nat]
      /\ \A p \in Updaters : cfg[p] # Nil => tries[p] <= cfg[p].retries
  <2>1. \A p \in Updaters : cfg[p] # Nil => cfg[p].retries \in Nat
    BY <1>4, FleetsAssumption, ConfigsAssumption
  <2>. QED
    BY <2>1 DEF Init
<1>7. archive \in [Updaters -> Files(Archives)] /\ exe \in [Updaters -> Files(Binaries)]
  BY FileTypes DEF Init
<1>8. result \in [Updaters -> [status : Statuses, release : Releases \union {Nil}]]
  BY DEF Init, NoOutcome, Outcome, Statuses
<1>9. inode \in [Inodes -> Files(Binaries)]
  BY <1>2, FileTypes DEF Init
<1>. QED
  BY <1>4, <1>5, <1>6, <1>7, <1>8, <1>9 DEF TypeOK

(* The types of what is on disk, and of what is not.                       *)
DiskTypes ==
  /\ inode \in [Inodes -> Files(Binaries)]
  /\ bin \in Inodes
  /\ tmp \in Inodes \union {Nil}
  /\ fd \in [Updaters -> Inodes \union {Nil}]

PrivateTypes ==
  /\ tries \in [Updaters -> Nat]
  /\ \A p \in Updaters : cfg[p] # Nil => tries[p] <= cfg[p].retries
  /\ want \in [Updaters -> Wants \union {Nil}]
  /\ resp \in [Updaters -> Archives \union {Nil}]
  /\ archive \in [Updaters -> Files(Archives)]
  /\ exe \in [Updaters -> Files(Binaries)]
  /\ pos \in [Updaters -> 1..(Size + 1)]

CallTypes ==
  /\ asset \in [Releases -> Archives \union {Nil, Bare}]
  /\ edits \in 0..Edits
  /\ cfg \in Fleets
  /\ current \in [Updaters -> Semver]
  /\ pc \in [Updaters -> Running \union {"idle", "done", "crashed"}]
  /\ gone \in [Updaters -> BOOLEAN]
  /\ result \in [Updaters -> [status : Statuses, release : Releases \union {Nil}]]
  /\ runs \in 0..Runs

LEMMA TypeParts == TypeOK <=> DiskTypes /\ PrivateTypes /\ CallTypes
  BY DEF TypeOK, DiskTypes, PrivateTypes, CallTypes

LEMMA DiskSame == DiskTypes /\ UNCHANGED disk => DiskTypes'
  BY DEF DiskTypes, disk

LEMMA PrivateSame == PrivateTypes /\ UNCHANGED <<private, cfg>> => PrivateTypes'
  BY DEF PrivateTypes, private

LEMMA CallSame ==
  CallTypes /\ UNCHANGED <<server, cfg, current, pc, gone, result, runs>> => CallTypes'
  BY DEF CallTypes, server

(* A call goes on to its next step.                                        *)
LEMMA GotoTypes ==
  ASSUME CallTypes, NEW p \in Updaters, NEW label \in Running, Goto(p, label)
  PROVE  CallTypes' /\ UNCHANGED cfg
  BY DEF CallTypes, Goto, server

LEMMA ForgetTypes ==
  ASSUME PrivateTypes, CallTypes, NEW p \in Updaters, Forget(p), UNCHANGED cfg
  PROVE  PrivateTypes'
<1>1. \A q \in Updaters : cfg[q] # Nil => cfg[q].retries \in Nat
  BY FleetsAssumption, ConfigsAssumption DEF CallTypes
<1>2. 1 \in 1..(Size + 1)
  BY SizeAssumption
<1>3. Empty \in Files(Archives) /\ Empty \in Files(Binaries)
  BY FileTypes
<1>4. /\ tries' \in [Updaters -> Nat]
      /\ \A q \in Updaters : cfg[q] # Nil => tries'[q] <= cfg[q].retries
  BY <1>1 DEF Forget, PrivateTypes
<1>5. /\ want' \in [Updaters -> Wants \union {Nil}]
      /\ resp' \in [Updaters -> Archives \union {Nil}]
      /\ pos' \in [Updaters -> 1..(Size + 1)]
  BY <1>2 DEF Forget, PrivateTypes
<1>6. archive' \in [Updaters -> Files(Archives)] /\ exe' \in [Updaters -> Files(Binaries)]
  BY <1>3 DEF Forget, PrivateTypes
<1>. QED
  BY <1>4, <1>5, <1>6 DEF PrivateTypes

LEMMA FinishTypes ==
  ASSUME PrivateTypes, CallTypes, NEW p \in Updaters,
         NEW outcome \in [status : Statuses, release : Releases \union {Nil}],
         Finish(p, outcome)
  PROVE  PrivateTypes' /\ CallTypes'
<1>1. PrivateTypes'
  BY ForgetTypes DEF Finish
<1>2. Outcome("cancelled", Nil) \in [status : Statuses, release : Releases \union {Nil}]
  BY DEF Outcome, Statuses
<1>3. result' \in [Updaters -> [status : Statuses, release : Releases \union {Nil}]]
  BY <1>2 DEF Finish, CallTypes
<1>4. CallTypes'
  BY <1>3 DEF Finish, CallTypes, server
<1>. QED
  BY <1>1, <1>4

LEMMA Outcomes ==
  /\ \A status \in Statuses : Outcome(status, Nil) \in [status : Statuses, release : Releases \union {Nil}]
  /\ \A r \in Releases : Outcome("updated", r) \in [status : Statuses, release : Releases \union {Nil}]
  BY DEF Outcome, Statuses

LEMMA FailTypes ==
  ASSUME PrivateTypes, CallTypes, NEW p \in Updaters, Fail(p)
  PROVE  PrivateTypes' /\ CallTypes'
  BY FinishTypes, Outcomes DEF Fail, Statuses

-----------------------------------------------------------------------------
(* What a call knows at each of its steps.                                 *)

Beginning(x, k) == [i \in Parts |-> IF i <= k THEN x ELSE Nil]

(* A configuration that copies to the temporary name.                      *)
CopiesAcross(c) == c.cross /\ ~c.self

(* The release is the pinned one, or newer than the program.               *)
Sought(c, v, w) ==
  \/ c.pin = w.release
  \/ c.pin = Nil /\ BumpIsGreater(v, w.release)

Chosen(c, v, w) ==
  /\ w \in Wants
  /\ w.asset \in Archives => w.asset.release = w.release
  /\ w.digest \in {Nil, w.asset}
  /\ Sought(c, v, w)

Resolved(w) == w.asset \in Archives /\ w.asset.name # "unsafe"

Responding(w, r) == r \in Archives /\ r.release = w.release

Received(r, f) == \E k \in 0..Size : f = Beginning(r, k)

(* The gates, and what extract_file yields.                                *)
Passed(c, w, f) ==
  /\ c.checksum # Nil => f = Whole(c.checksum)
  /\ c.digest /\ w.digest # Nil => f = Whole(w.digest)
  /\ c.keys => \E a \in Archives :
       f = Whole(a) /\ a.signed /\ w.asset.format \in SignedFormats

Yields(w, f) ==
  IF w.asset.format # "plain"
    THEN {Whole(a.binary) : a \in {x \in Archives : f = Whole(x)}}
    ELSE IF w.asset.name = "binary" THEN {Empty}
    ELSE {[i \in Parts |-> IF f[i] = Nil THEN Nil ELSE f[i].binary]}

Hooked(c, e) == c.hook => \E b \in Approved : e = Whole(b)

(* What holds of a call at its place l, of its configuration c and the     *)
(* version v it was started with, of its want, response, archive,          *)
(* executable and position.                                                *)
Knows(c, v, l, w, r, f, e, k) ==
  /\ l \in Running => c \in Configs
  /\ l \in Running \ {"list"} => Chosen(c, v, w)
  /\ l \in Running \ {"list", "resolve"} => Resolved(w)
  /\ l \in Tail \union {"body"} => Responding(w, r)
  /\ l = "body" => f = Beginning(r, k - 1)
  /\ l \in Tail => Received(r, f)
  /\ l \notin Tail \union {"body"} => f = Empty /\ k = 1
  /\ l \in Tail \ {"verify"} => Passed(c, w, f)
  /\ l \in Tail \ {"verify", "extract"} => e \in Yields(w, f)
  /\ l \in Tail \ {"verify", "extract", "hook"} => Hooked(c, e)
  /\ l \in {"hook", "replace"} => k = 1
  /\ l \in {"copying", "swap"} => CopiesAcross(c)

Local(p) ==
  Knows(cfg[p], current[p], pc[p], want[p], resp[p], archive[p], exe[p], pos[p])

LEMMA Gates ==
  ASSUME NEW p \in Updaters
  PROVE  /\ ChecksumOk(p) /\ DigestOk(p) /\ SignatureOk(p)
              <=> Passed(cfg[p], want[p], archive[p])
         /\ Extracted(p) = Yields(want[p], archive[p])
<1>1. Extracted(p) = Yields(want[p], archive[p])
  BY DEF Extracted, Yields
<1>. QED
  BY <1>1 DEF ChecksumOk, DigestOk, SignatureOk, Passed

(* The server serves releases under their own names.                       *)
Served == \A r \in Releases : asset[r] \in Archives => asset[r].release = r

-----------------------------------------------------------------------------
(* Each action of a call keeps the types.                                  *)
LEMMA StepTypes ==
  ASSUME TypeOK, NEW p \in Updaters, Local(p), Step(p)
  PROVE  TypeOK'
<1>0. DiskTypes /\ PrivateTypes /\ CallTypes
  BY TypeParts
<1>. SUFFICES DiskTypes' /\ PrivateTypes' /\ CallTypes'
  BY TypeParts, PTL
<1>. USE DEF Running, Awaiting, Asking, Tail
<1>f. ASSUME Fail(p), UNCHANGED disk PROVE DiskTypes' /\ PrivateTypes' /\ CallTypes'
  BY <1>0, <1>f, FailTypes, DiskSame
<1>g. ASSUME NEW label \in Running, Goto(p, label), UNCHANGED <<private, disk>>
      PROVE  DiskTypes' /\ PrivateTypes' /\ CallTypes'
  <2>1. CallTypes' /\ UNCHANGED cfg
    BY <1>0, <1>g, GotoTypes
  <2>. QED
    BY <1>0, <1>g, <2>1, DiskSame, PrivateSame
<1>h. ASSUME NEW label \in Running, Goto(p, label) PROVE CallTypes' /\ UNCHANGED cfg
  BY <1>0, <1>h, GotoTypes
<1>1. ASSUME RequestFails(p) PROVE DiskTypes' /\ PrivateTypes' /\ CallTypes'
  <2>0. pc[p] \in Running
    BY <1>1 DEF RequestFails
  <2>1. CASE MayRetry(p)
    <3>1. /\ tries' = [tries EXCEPT ![p] = @ + 1] /\ Goto(p, pc[p])
          /\ UNCHANGED <<want, resp, archive, exe, pos>> /\ UNCHANGED disk
      BY <1>1, <2>1 DEF RequestFails
    <3>2. CallTypes' /\ UNCHANGED cfg
      BY <1>0, <2>0, <3>1, GotoTypes
    <3>3. \A q \in Updaters : cfg[q] # Nil => cfg[q].retries \in Nat
      BY <1>0, FleetsAssumption, ConfigsAssumption DEF CallTypes
    <3>4. PrivateTypes'
      BY <1>0, <2>1, <3>1, <3>2, <3>3 DEF PrivateTypes, MayRetry
    <3>. QED
      BY <1>0, <3>1, <3>2, <3>4, DiskSame
  <2>2. CASE ~MayRetry(p)
    BY <1>1, <1>f, <2>2 DEF RequestFails
  <2>. QED
    BY <2>1, <2>2
<1>2. ASSUME Choose(p) PROVE DiskTypes' /\ PrivateTypes' /\ CallTypes'
  <2>1. PICK r \in Candidates(p) : asset[r] # Nil /\ want' = [want EXCEPT ![p] = Wanted(r)]
    BY <1>2 DEF Choose
  <2>2. /\ tries' = [tries EXCEPT ![p] = 0] /\ Goto(p, "resolve")
        /\ UNCHANGED <<resp, archive, exe, pos, disk>>
    BY <1>2 DEF Choose
  <2>3. r \in Releases
    <3>1. cfg[p].pin \in Releases \union {Nil}
      BY <1>2, ConfigsAssumption DEF Choose, Local, Knows
    <3>. QED
      BY <2>1, <3>1 DEF Candidates, Newer, Compatible
  <2>4. Wanted(r) \in Wants
    BY <1>0, <2>1, <2>3 DEF Wanted, Wants, CallTypes
  <2>5. CallTypes' /\ UNCHANGED cfg
    BY <2>2, <1>h
  <2>6. \A q \in Updaters : cfg[q] # Nil => cfg[q].retries \in Nat
    BY <1>0, FleetsAssumption, ConfigsAssumption DEF CallTypes
  <2>7. PrivateTypes'
    BY <1>0, <2>1, <2>2, <2>4, <2>5, <2>6 DEF PrivateTypes
  <2>. QED
    BY <1>0, <2>2, <2>5, <2>7, DiskSame
<1>3. ASSUME UpToDate(p) PROVE DiskTypes' /\ PrivateTypes' /\ CallTypes'
  <2>1. PrivateTypes' /\ CallTypes'
    BY <1>0, <1>3, FinishTypes, Outcomes DEF UpToDate, Statuses
  <2>. QED
    BY <1>0, <1>3, <2>1, DiskSame DEF UpToDate
<1>4. ASSUME Resolve(p) \/ Probe(p) \/ BodyEnds(p) \/ HookAccepts(p)
      PROVE  DiskTypes' /\ PrivateTypes' /\ CallTypes'
  BY <1>4, <1>g DEF Resolve, Probe, BodyEnds, HookAccepts
<1>5. ASSUME Refuse(p) \/ BodyFails(p) \/ StepFails(p)
      PROVE  DiskTypes' /\ PrivateTypes' /\ CallTypes'
  BY <1>5, <1>f DEF Refuse, BodyFails, StepFails
<1>6. ASSUME GetAsset(p) PROVE DiskTypes' /\ PrivateTypes' /\ CallTypes'
  <2>1. CallTypes' /\ UNCHANGED cfg
    BY <1>6, <1>h DEF GetAsset
  <2>2. \A q \in Updaters : cfg[q] # Nil => cfg[q].retries \in Nat
    BY <1>0, FleetsAssumption, ConfigsAssumption DEF CallTypes
  <2>3. PrivateTypes'
    BY <1>0, <1>6, <2>1, <2>2 DEF GetAsset, PrivateTypes
  <2>. QED
    BY <1>0, <1>6, <2>1, <2>3, DiskSame DEF GetAsset
<1>7. ASSUME ReceivePart(p) PROVE DiskTypes' /\ PrivateTypes' /\ CallTypes'
  <2>1. CallTypes' /\ UNCHANGED cfg
    BY <1>7, <1>h DEF ReceivePart
  <2>2. archive' = [archive EXCEPT ![p] = [archive[p] EXCEPT ![pos[p]] = resp[p]]]
    BY <1>7 DEF ReceivePart
  <2>3. pos[p] \in Parts /\ pos'[p] \in 1..(Size + 1)
    BY <1>0, <1>7, SizeAssumption DEF ReceivePart, PrivateTypes, Parts
  <2>4. [archive[p] EXCEPT ![pos[p]] = resp[p]] \in Files(Archives)
    BY <1>0, <2>3 DEF PrivateTypes, Files
  <2>5. archive' \in [Updaters -> Files(Archives)]
    BY <1>0, <2>2, <2>4 DEF PrivateTypes
  <2>6. PrivateTypes'
    BY <1>0, <1>7, <2>1, <2>3, <2>5 DEF ReceivePart, PrivateTypes
  <2>. QED
    BY <1>0, <1>7, <2>1, <2>6, DiskSame DEF ReceivePart
<1>8. ASSUME Verify(p) PROVE DiskTypes' /\ PrivateTypes' /\ CallTypes'
  BY <1>8, <1>f, <1>g DEF Verify
<1>9. ASSUME ExtractFile(p) PROVE DiskTypes' /\ PrivateTypes' /\ CallTypes'
  <2>1. PICK e \in Extracted(p) : exe' = [exe EXCEPT ![p] = e]
    BY <1>9 DEF ExtractFile
  <2>2. e \in Files(Binaries)
    <3>1. \A a \in Archives : a.binary \in Binaries
      BY ArchivesAssumption
    <3>2. archive[p] \in Files(Archives)
      BY <1>0 DEF PrivateTypes
    <3>3. \A i \in Parts : archive[p][i] # Nil => archive[p][i].binary \in Binaries
      BY <3>1, <3>2 DEF Files
    <3>4. [i \in Parts |-> IF archive[p][i] = Nil THEN Nil ELSE archive[p][i].binary]
            \in Files(Binaries)
      BY <3>3 DEF Files
    <3>. QED
      BY <2>1, <3>1, <3>4, FileTypes DEF Extracted
  <2>3. CallTypes' /\ UNCHANGED cfg
    BY <1>9, <1>h DEF ExtractFile
  <2>4. 1 \in 1..(Size + 1)
    BY SizeAssumption
  <2>5. PrivateTypes'
    BY <1>0, <1>9, <2>1, <2>2, <2>3, <2>4 DEF ExtractFile, PrivateTypes
  <2>. QED
    BY <1>0, <1>9, <2>3, <2>5, DiskSame DEF ExtractFile
<1>10. ASSUME Replace(p) PROVE DiskTypes' /\ PrivateTypes' /\ CallTypes'
  <2>1. CallTypes' /\ UNCHANGED cfg
    BY <1>10, <1>h DEF Replace
  <2>2. Fresh \in Inodes /\ exe[p] \in Files(Binaries)
    BY <1>0, FreshInode DEF PrivateTypes
  <2>3. DiskTypes'
    BY <1>0, <1>10, <2>2 DEF Replace, DiskTypes
  <2>. QED
    BY <1>0, <1>10, <2>1, <2>3, PrivateSame DEF Replace
<1>11. ASSUME OpenTmp(p) PROVE DiskTypes' /\ PrivateTypes' /\ CallTypes'
  <2>1. CallTypes' /\ UNCHANGED cfg
    BY <1>11, <1>h DEF OpenTmp
  <2>2. tmp' \in Inodes
    BY <1>0, <1>11, FreshInode DEF OpenTmp, DiskTypes
  <2>3. DiskTypes'
    BY <1>0, <1>11, <2>2, FileTypes DEF OpenTmp, DiskTypes
  <2>. QED
    BY <1>0, <1>11, <2>1, <2>3, PrivateSame DEF OpenTmp
<1>12. ASSUME CopyPart(p) PROVE DiskTypes' /\ PrivateTypes' /\ CallTypes'
  <2>1. CallTypes' /\ UNCHANGED cfg
    BY <1>12, <1>h DEF CopyPart
  <2>2. pos[p] \in Parts /\ pos'[p] \in 1..(Size + 1)
    BY <1>0, <1>12, SizeAssumption DEF CopyPart, Copied, PrivateTypes, Parts
  <2>3. inode' = [inode EXCEPT ![fd[p]] = [inode[fd[p]] EXCEPT ![pos[p]] = exe[p][pos[p]]]]
    BY <1>12 DEF CopyPart
  <2>4. exe[p] \in Files(Binaries)
    BY <1>0 DEF PrivateTypes
  <2>5. fd[p] \in Inodes =>
          [inode[fd[p]] EXCEPT ![pos[p]] = exe[p][pos[p]]] \in Files(Binaries)
    BY <1>0, <2>2, <2>4 DEF DiskTypes, Files
  <2>6. DiskTypes'
    BY <1>0, <1>12, <2>3, <2>5 DEF CopyPart, DiskTypes
  <2>7. PrivateTypes'
    BY <1>0, <1>12, <2>1, <2>2 DEF CopyPart, PrivateTypes
  <2>. QED
    BY <2>1, <2>6, <2>7
<1>13. ASSUME CopyDone(p) PROVE DiskTypes' /\ PrivateTypes' /\ CallTypes'
  <2>1. CallTypes' /\ UNCHANGED cfg
    BY <1>13, <1>h DEF CopyDone
  <2>. QED
    BY <1>0, <1>13, <2>1, PrivateSame DEF CopyDone, DiskTypes
<1>14. ASSUME CopyFails(p) \/ SwapFails(p) PROVE DiskTypes' /\ PrivateTypes' /\ CallTypes'
  <2>1. PrivateTypes' /\ CallTypes'
    BY <1>0, <1>14, FailTypes DEF CopyFails, SwapFails
  <2>. QED
    BY <1>0, <1>14, <2>1 DEF CopyFails, SwapFails, DiskTypes
<1>15. ASSUME SwapTmp(p) PROVE DiskTypes' /\ PrivateTypes' /\ CallTypes'
  <2>1. CallTypes' /\ UNCHANGED cfg
    BY <1>15, <1>h DEF SwapTmp
  <2>. QED
    BY <1>0, <1>15, <2>1, PrivateSame DEF SwapTmp, DiskTypes
<1>16. ASSUME Return(p) PROVE DiskTypes' /\ PrivateTypes' /\ CallTypes'
  <2>1. want[p].release \in Releases \union {Nil}
    BY <1>16 DEF Return, Local, Knows, Chosen, Wants
  <2>2. Outcome("updated", want[p].release) \in [status : Statuses, release : Releases \union {Nil}]
    BY <2>1 DEF Outcome, Statuses
  <2>3. PrivateTypes' /\ CallTypes'
    BY <1>0, <1>16, <2>2, FinishTypes DEF Return
  <2>. QED
    BY <1>0, <1>16, <2>3, DiskSame DEF Return
<1>. QED
  BY <1>1, <1>2, <1>3, <1>4, <1>5, <1>6, <1>7, <1>8, <1>9, <1>10, <1>11, <1>12, <1>13,
     <1>14, <1>15, <1>16
     DEF Step, Install

LEMMA NextTypes ==
  ASSUME TypeOK, \A p \in Updaters : Local(p), [Next]_vars
  PROVE  TypeOK'
<1>0. DiskTypes /\ PrivateTypes /\ CallTypes
  BY TypeParts
<1>. USE DEF Running, Awaiting, Asking, Tail
<1>1. ASSUME NEW r \in Releases, NEW a \in {Nil, Bare} \union Archives, Publish(r, a)
      PROVE  TypeOK'
  <2>1. CallTypes'
    BY <1>0, <1>1, BoundsAssumption DEF Publish, CallTypes
  <2>2. DiskTypes' /\ PrivateTypes'
    BY <1>0, <1>1, DiskSame, PrivateSame DEF Publish
  <2>. QED
    BY <2>1, <2>2, TypeParts, PTL
<1>2. ASSUME NEW p \in Updaters, Start(p) PROVE TypeOK'
  <2>1. current' \in [Updaters -> Semver]
    <3>1. CASE UNCHANGED current
      BY <1>0, <3>1 DEF CallTypes
    <3>2. CASE \E b \in Binaries : current' = [current EXCEPT ![p] = VersionOf[b]]
      BY <1>0, <3>2, BinariesAssumption DEF CallTypes
    <3>. QED
      BY <1>2, <3>1, <3>2 DEF Start
  <2>2. NoOutcome \in [status : Statuses, release : Releases \union {Nil}]
    BY DEF NoOutcome, Outcome, Statuses
  <2>3. CallTypes'
    <3>1. runs' \in 0..Runs
      BY <1>0, <1>2, BoundsAssumption DEF Start, CallTypes
    <3>2. result' \in [Updaters -> [status : Statuses, release : Releases \union {Nil}]]
      BY <1>0, <1>2, <2>2 DEF Start, CallTypes
    <3>3. pc' \in [Updaters -> Running \union {"idle", "done", "crashed"}]
      BY <1>0, <1>2 DEF Start, CallTypes
    <3>. QED
      BY <1>0, <1>2, <2>1, <3>1, <3>2, <3>3 DEF Start, CallTypes, server
  <2>4. DiskTypes' /\ PrivateTypes'
    BY <1>0, <1>2, DiskSame, PrivateSame DEF Start
  <2>. QED
    BY <2>3, <2>4, TypeParts, PTL
<1>3. ASSUME NEW p \in Updaters, Cancel(p) PROVE TypeOK'
  <2>1. DiskTypes'
    BY <1>0, <1>3, DiskSame DEF Cancel
  <2>2. CASE Finish(p, Outcome("cancelled", Nil))
    <3>1. PrivateTypes' /\ CallTypes'
      BY <1>0, <2>2, FinishTypes, Outcomes DEF Statuses
    <3>. QED
      BY <2>1, <3>1, TypeParts, PTL
  <2>3. CASE gone' = [gone EXCEPT ![p] = TRUE]
             /\ UNCHANGED <<server, cfg, current, pc, private, result, runs>>
    <3>1. CallTypes'
      BY <1>0, <2>3 DEF CallTypes, server
    <3>2. PrivateTypes'
      BY <1>0, <2>3, PrivateSame
    <3>. QED
      BY <2>1, <3>1, <3>2, TypeParts, PTL
  <2>. QED
    BY <1>3, <2>2, <2>3 DEF Cancel
<1>4. ASSUME NEW p \in Updaters, Crash(p) PROVE TypeOK'
  <2>1. PrivateTypes'
    BY <1>0, <1>4, ForgetTypes DEF Crash
  <2>2. CallTypes'
    BY <1>0, <1>4 DEF Crash, CallTypes, server
  <2>3. DiskTypes'
    BY <1>0, <1>4 DEF Crash, DiskTypes
  <2>. QED
    BY <2>1, <2>2, <2>3, TypeParts, PTL
<1>5. ASSUME UNCHANGED vars PROVE TypeOK'
  <2>1. DiskTypes' /\ PrivateTypes' /\ CallTypes'
    BY <1>0, <1>5, DiskSame, PrivateSame, CallSame DEF vars
  <2>. QED
    BY <2>1, TypeParts, PTL
<1>6. ASSUME NEW p \in Updaters, Step(p) PROVE TypeOK'
  BY <1>6, StepTypes
<1>. QED
  BY <1>1, <1>2, <1>3, <1>4, <1>5, <1>6 DEF Next

-----------------------------------------------------------------------------
(* What a call knows stays true.                                           *)

LocalVars(p) ==
  <<cfg[p], current[p], pc[p], want[p], resp[p], archive[p], exe[p], pos[p]>>

LEMMA SameLocal ==
  ASSUME NEW p \in Updaters, Local(p), UNCHANGED LocalVars(p)
  PROVE  Local(p)'
  BY DEF Local, LocalVars

LEMMA OthersSame ==
  ASSUME TypeOK, NEW p \in Updaters, NEW q \in Updaters \ {p},
         Step(p) \/ Start(p) \/ Cancel(p) \/ Crash(p)
  PROVE  UNCHANGED LocalVars(q)
<1>. USE DEF TypeOK, LocalVars, server, private, disk
<1>1. ASSUME NEW outcome, Finish(p, outcome) PROVE UNCHANGED LocalVars(q)
  BY <1>1 DEF Finish, Forget
<1>2. ASSUME NEW label, Goto(p, label),
             \E w : want' = want \/ want' = [want EXCEPT ![p] = w],
             \E w : resp' = resp \/ resp' = [resp EXCEPT ![p] = w],
             \E w : archive' = archive \/ archive' = [archive EXCEPT ![p] = w],
             \E w : exe' = exe \/ exe' = [exe EXCEPT ![p] = w],
             \E w : pos' = pos \/ pos' = [pos EXCEPT ![p] = w]
      PROVE  UNCHANGED LocalVars(q)
  BY <1>2 DEF Goto
<1>3. ASSUME Step(p) PROVE UNCHANGED LocalVars(q)
  <2>1. CASE RequestFails(p)
    BY <1>1, <1>2, <2>1 DEF RequestFails, Fail
  <2>2. CASE Choose(p)
    BY <1>2, <2>2 DEF Choose
  <2>3. CASE UpToDate(p) \/ Refuse(p) \/ BodyFails(p) \/ StepFails(p)
             \/ CopyFails(p) \/ SwapFails(p) \/ Return(p)
    BY <1>1, <2>3 DEF UpToDate, Refuse, BodyFails, StepFails, CopyFails, SwapFails, Return, Fail
  <2>4. CASE Resolve(p) \/ Probe(p) \/ BodyEnds(p) \/ HookAccepts(p)
             \/ Replace(p) \/ OpenTmp(p) \/ CopyDone(p) \/ SwapTmp(p)
    BY <1>2, <2>4
       DEF Resolve, Probe, BodyEnds, HookAccepts, Replace, OpenTmp, CopyDone, SwapTmp
  <2>5. CASE GetAsset(p)
    BY <1>2, <2>5 DEF GetAsset
  <2>6. CASE ReceivePart(p)
    <3>1. archive' = [archive EXCEPT ![p] = [archive[p] EXCEPT ![pos[p]] = resp[p]]]
      BY <2>6 DEF ReceivePart
    <3>. QED
      BY <1>2, <2>6, <3>1 DEF ReceivePart
  <2>7. CASE Verify(p)
    BY <1>1, <1>2, <2>7 DEF Verify, Fail
  <2>8. CASE ExtractFile(p)
    BY <1>2, <2>8 DEF ExtractFile
  <2>9. CASE CopyPart(p)
    BY <1>2, <2>9 DEF CopyPart
  <2>. QED
    BY <1>3, <2>1, <2>2, <2>3, <2>4, <2>5, <2>6, <2>7, <2>8, <2>9 DEF Step, Install
<1>4. ASSUME Start(p) PROVE UNCHANGED LocalVars(q)
  BY <1>4 DEF Start
<1>5. ASSUME Cancel(p) PROVE UNCHANGED LocalVars(q)
  BY <1>1, <1>5 DEF Cancel
<1>6. ASSUME Crash(p) PROVE UNCHANGED LocalVars(q)
  BY <1>6 DEF Crash, Forget
<1>. QED
  BY <1>3, <1>4, <1>5, <1>6

(* A call that is over knows nothing.                                      *)
LEMMA IdleLocal ==
  ASSUME TypeOK, NEW p \in Updaters, Forget(p),
         \E label \in {"done", "crashed"} : pc' = [pc EXCEPT ![p] = label]
  PROVE  Local(p)'
<1>1. pc'[p] \in {"done", "crashed"} /\ archive'[p] = Empty /\ pos'[p] = 1
  BY DEF Forget, TypeOK
<1>. QED
  BY <1>1 DEF Local, Knows, Running, Awaiting, Asking, Tail

(* The beginning of a file, part by part.                                  *)
LEMMA BeginsEmpty == \A x : Beginning(x, 0) = Empty
  BY SizeAssumption DEF Beginning, Empty, Parts

LEMMA OnePartMore ==
  ASSUME NEW x, NEW k \in 1..Size
  PROVE  [Beginning(x, k - 1) EXCEPT ![k] = x] = Beginning(x, k)
<1>. DEFINE f == [Beginning(x, k - 1) EXCEPT ![k] = x]
<1>1. k \in Parts
  BY DEF Parts
<1>2. ASSUME NEW i \in Parts PROVE f[i] = Beginning(x, k)[i]
  BY <1>1, <1>2, SizeAssumption DEF Beginning, Parts
<1>3. f = [i \in Parts |-> f[i]] /\ Beginning(x, k) = [i \in Parts |-> Beginning(x, k)[i]]
  BY DEF Beginning
<1>. QED
  BY <1>2, <1>3

-----------------------------------------------------------------------------
(* Each step of a call keeps what it knows.                                *)

LEMMA StepLocal ==
  ASSUME TypeOK, Served, NEW p \in Updaters, Local(p), Step(p)
  PROVE  Local(p)'
<1>. USE DEF Running, Awaiting, Asking, Tail
<1>. DEFINE c == cfg[p]  v == current[p]  w == want[p]
<1>0. /\ pc \in [Updaters -> Running \union {"idle", "done", "crashed"}]
      /\ asset \in [Releases -> Archives \union {Nil, Bare}]
      /\ want \in [Updaters -> Wants \union {Nil}]
      /\ resp \in [Updaters -> Archives \union {Nil}]
      /\ archive \in [Updaters -> Files(Archives)]
      /\ exe \in [Updaters -> Files(Binaries)]
      /\ pos \in [Updaters -> 1..(Size + 1)]
  BY DEF TypeOK
<1>k. Knows(c, v, pc[p], w, resp[p], archive[p], exe[p], pos[p])
  BY DEF Local
<1>f. ASSUME NEW outcome, Finish(p, outcome) PROVE Local(p)'
  BY <1>f, IdleLocal DEF Finish
<1>h. ASSUME NEW label, Goto(p, label)
      PROVE  /\ pc'[p] = label /\ cfg'[p] = c /\ current'[p] = v
  BY <1>0, <1>h DEF Goto
<1>p. ASSUME UNCHANGED private, NEW label, Goto(p, label),
             Knows(c, v, label, w, resp[p], archive[p], exe[p], pos[p])
      PROVE  Local(p)'
  BY <1>p, <1>h DEF Local, private
<1>1. CASE RequestFails(p)
  <2>1. CASE MayRetry(p)
    <3>1. Goto(p, pc[p]) /\ UNCHANGED <<want, resp, archive, exe, pos>>
      BY <1>1, <2>1 DEF RequestFails
    <3>2. UNCHANGED LocalVars(p)
      BY <1>h, <3>1 DEF LocalVars
    <3>. QED
      BY <3>2, SameLocal
  <2>2. CASE ~MayRetry(p)
    BY <1>1, <1>f, <2>2 DEF RequestFails, Fail
  <2>. QED
    BY <2>1, <2>2
<1>2. CASE UpToDate(p) \/ Refuse(p) \/ BodyFails(p) \/ StepFails(p)
           \/ CopyFails(p) \/ SwapFails(p) \/ Return(p)
  BY <1>2, <1>f DEF UpToDate, Refuse, BodyFails, StepFails, CopyFails, SwapFails, Return, Fail
<1>3. CASE Choose(p)
  <2>1. PICK r \in Candidates(p) : asset[r] # Nil /\ want' = [want EXCEPT ![p] = Wanted(r)]
    BY <1>3 DEF Choose
  <2>2. /\ pc[p] = "list" /\ c \in Configs /\ archive[p] = Empty /\ pos[p] = 1
        /\ pc'[p] = "resolve" /\ cfg'[p] = c /\ current'[p] = v
        /\ archive' = archive /\ pos' = pos
    BY <1>3, <1>h, <1>k DEF Choose, Knows
  <2>3. c.pin \in Releases \union {Nil}
    BY <2>2, ConfigsAssumption
  <2>4. r \in Releases
    BY <2>1, <2>3 DEF Candidates, Newer, Compatible
  <2>5. c.pin = r \/ (c.pin = Nil /\ BumpIsGreater(v, r))
    BY <2>1 DEF Candidates, Newer, Compatible
  <2>6. /\ want'[p] = Wanted(r)
        /\ Wanted(r) \in Wants
        /\ Wanted(r).release = r /\ Wanted(r).asset = asset[r]
        /\ Wanted(r).digest \in {Nil, asset[r]}
    BY <1>0, <2>1, <2>4 DEF Wanted, Wants
  <2>7. Chosen(c, v, Wanted(r))
    BY <2>4, <2>5, <2>6 DEF Chosen, Sought, Served
  <2>8. Knows(c, v, "resolve", Wanted(r), resp'[p], archive[p], exe'[p], pos[p])
    BY <2>2, <2>7 DEF Knows
  <2>. QED
    BY <2>2, <2>6, <2>8 DEF Local
<1>4. CASE Resolve(p)
  <2>1. Resolved(w)
    BY <1>4, <1>k DEF Resolve, Resolved, Knows, Chosen, Wants
  <2>2. \A label \in {"probe", "get"} :
          Knows(c, v, label, w, resp[p], archive[p], exe[p], pos[p])
    BY <1>4, <1>k, <2>1 DEF Resolve, Knows
  <2>. QED
    BY <1>4, <1>p, <2>2 DEF Resolve
<1>5. CASE Probe(p)
  <2>1. Knows(c, v, "get", w, resp[p], archive[p], exe[p], pos[p])
    BY <1>5, <1>k DEF Probe, Knows
  <2>. QED
    BY <1>5, <1>p, <2>1 DEF Probe
<1>6. CASE GetAsset(p)
  <2>1. /\ pc[p] = "get" /\ pc'[p] = "body" /\ cfg'[p] = c /\ current'[p] = v
        /\ asset[w.release] \in Archives
        /\ resp'[p] = asset[w.release]
        /\ UNCHANGED <<want, archive, exe, pos>>
    BY <1>0, <1>6, <1>h DEF GetAsset
  <2>2. Responding(w, asset[w.release])
    BY <1>k, <2>1 DEF Responding, Served, Chosen, Wants, Knows
  <2>3. archive[p] = Beginning(asset[w.release], pos[p] - 1)
    BY <1>k, <2>1, BeginsEmpty DEF Knows
  <2>4. Knows(c, v, "body", w, asset[w.release], archive[p], exe[p], pos[p])
    BY <1>k, <2>1, <2>2, <2>3 DEF Knows
  <2>. QED
    BY <2>1, <2>4 DEF Local
<1>7. CASE ReceivePart(p)
  <2>1. /\ pc[p] = "body" /\ pc'[p] = "body" /\ cfg'[p] = c /\ current'[p] = v
        /\ pos[p] \in 1..Size /\ pos'[p] = pos[p] + 1
        /\ UNCHANGED <<want, resp, exe>>
    BY <1>0, <1>7, <1>h, SizeAssumption DEF ReceivePart
  <2>2. archive' = [archive EXCEPT ![p] = [archive[p] EXCEPT ![pos[p]] = resp[p]]]
    BY <1>7 DEF ReceivePart
  <2>3. archive'[p] = Beginning(resp[p], pos[p])
    BY <1>0, <1>k, <2>1, <2>2, OnePartMore DEF Knows
  <2>4. archive'[p] = Beginning(resp[p], (pos[p] + 1) - 1)
    BY <2>1, <2>3, SizeAssumption
  <2>5. Knows(c, v, "body", w, resp[p], archive'[p], exe[p], pos[p] + 1)
    BY <1>k, <2>1, <2>4 DEF Knows
  <2>. QED
    BY <2>1, <2>5 DEF Local
<1>8. CASE BodyEnds(p)
  <2>1. pos[p] - 1 \in 0..Size
    BY <1>0, SizeAssumption
  <2>2. Received(resp[p], archive[p])
    BY <1>8, <1>k, <2>1 DEF BodyEnds, Knows, Received
  <2>3. Knows(c, v, "verify", w, resp[p], archive[p], exe[p], pos[p])
    BY <1>8, <1>k, <2>2 DEF BodyEnds, Knows
  <2>. QED
    BY <1>8, <1>p, <2>3 DEF BodyEnds
<1>9. CASE Verify(p)
  <2>1. CASE ChecksumOk(p) /\ DigestOk(p) /\ SignatureOk(p)
    <3>1. pc[p] = "verify" /\ Goto(p, "extract") /\ UNCHANGED private
      BY <1>9, <2>1 DEF Verify
    <3>2. Passed(c, w, archive[p])
      BY <2>1, Gates
    <3>3. Knows(c, v, "extract", w, resp[p], archive[p], exe[p], pos[p])
      BY <1>k, <3>1, <3>2 DEF Knows
    <3>. QED
      BY <1>p, <3>1, <3>3
  <2>2. CASE ~(ChecksumOk(p) /\ DigestOk(p) /\ SignatureOk(p))
    BY <1>9, <1>f, <2>2 DEF Verify, Fail
  <2>. QED
    BY <2>1, <2>2
<1>10. CASE ExtractFile(p)
  <2>1. /\ pc[p] = "extract" /\ pc'[p] \in {"hook", "replace"}
        /\ pc'[p] = "replace" => ~c.hook
        /\ cfg'[p] = c /\ current'[p] = v
        /\ exe'[p] \in Extracted(p) /\ pos'[p] = 1
        /\ UNCHANGED <<want, resp, archive>>
    BY <1>0, <1>10, <1>h DEF ExtractFile
  <2>2. Hooked(c, exe'[p]) \/ pc'[p] = "hook"
    BY <2>1 DEF Hooked
  <2>3. exe'[p] \in Yields(w, archive[p])
    BY <2>1, Gates
  <2>4. Knows(c, v, pc'[p], w, resp[p], archive[p], exe'[p], 1)
    BY <1>k, <2>1, <2>2, <2>3 DEF Knows
  <2>. QED
    BY <2>1, <2>4 DEF Local
<1>11. CASE HookAccepts(p)
  <2>1. Hooked(c, exe[p])
    BY <1>11 DEF HookAccepts, Hooked
  <2>2. Knows(c, v, "replace", w, resp[p], archive[p], exe[p], pos[p])
    BY <1>11, <1>k, <2>1 DEF HookAccepts, Knows
  <2>. QED
    BY <1>11, <1>p, <2>2 DEF HookAccepts
<1>12. CASE Replace(p) \/ OpenTmp(p) \/ CopyDone(p) \/ SwapTmp(p)
  <2>1. PICK label \in {"copying", "swap", "installed"} :
          /\ Goto(p, label) /\ UNCHANGED private
          /\ pc[p] \in {"replace", "copying", "swap"}
          /\ label \in {"copying", "swap"} => CopiesAcross(c)
    BY <1>12, <1>k DEF Replace, OpenTmp, CopyDone, SwapTmp, CopiesAcross, Knows
  <2>2. Knows(c, v, label, w, resp[p], archive[p], exe[p], pos[p])
    BY <1>k, <2>1 DEF Knows
  <2>. QED
    BY <1>p, <2>1, <2>2
<1>13. CASE CopyPart(p)
  <2>1. /\ pc[p] = "copying" /\ pc'[p] = "copying" /\ cfg'[p] = c /\ current'[p] = v
        /\ UNCHANGED <<want, resp, archive, exe>>
    BY <1>13, <1>h DEF CopyPart
  <2>2. Knows(c, v, "copying", w, resp[p], archive[p], exe[p], pos'[p])
    BY <1>k, <2>1 DEF Knows
  <2>. QED
    BY <2>1, <2>2 DEF Local
<1>. QED
  BY <1>1, <1>2, <1>3, <1>4, <1>5, <1>6, <1>7, <1>8, <1>9, <1>10, <1>11, <1>12, <1>13
     DEF Step, Install

-----------------------------------------------------------------------------
(* The inductive invariant.                                                *)
IInv == TypeOK /\ Served /\ \A p \in Updaters : Local(p)

LEMMA InitInvariant == Init => IInv
<1>. SUFFICES ASSUME Init PROVE IInv
  OBVIOUS
<1>1. TypeOK
  BY InitTypes
<1>2. Served
  BY DEF Init, Served
<1>3. ASSUME NEW p \in Updaters PROVE Local(p)
  BY DEF Init, Local, Knows, Running, Awaiting, Asking, Tail
<1>. QED
  BY <1>1, <1>2, <1>3 DEF IInv

LEMMA NextInvariant == IInv /\ [Next]_vars => IInv'
<1>. SUFFICES ASSUME IInv, [Next]_vars PROVE IInv'
  OBVIOUS
<1>0. TypeOK /\ Served /\ \A p \in Updaters : Local(p)
  BY DEF IInv
<1>1. TypeOK'
  BY <1>0, NextTypes
<1>2. Served'
  <2>1. CASE UNCHANGED asset
    BY <1>0, <2>1 DEF Served
  <2>2. ASSUME NEW r \in Releases, NEW a \in {Nil, Bare} \union Archives, Publish(r, a)
        PROVE  Served'
    BY <1>0, <2>2 DEF Publish, Served, TypeOK
  <2>3. ASSUME NEW p \in Updaters, Start(p) \/ Step(p) \/ Cancel(p) \/ Crash(p)
        PROVE  UNCHANGED asset
    BY <2>3 DEF Start, Cancel, Crash, Step, Install, RequestFails, Choose, UpToDate, Resolve,
       Probe, Refuse, GetAsset, ReceivePart, BodyFails, BodyEnds, Verify, ExtractFile,
       HookAccepts, StepFails, Replace, OpenTmp, CopyPart, CopyDone, CopyFails, SwapTmp,
       SwapFails, Return, Fail, Finish, Goto, server
  <2>4. CASE UNCHANGED vars
    BY <2>1, <2>4 DEF vars, server
  <2>. QED
    BY <2>1, <2>2, <2>3, <2>4 DEF Next
<1>3. ASSUME NEW q \in Updaters PROVE Local(q)'
  <2>0. /\ Local(q) /\ cfg \in Fleets
        /\ pc \in [Updaters -> Running \union {"idle", "done", "crashed"}]
    BY <1>0 DEF TypeOK
  <2>. USE DEF Running, Awaiting, Asking, Tail
  <2>1. CASE UNCHANGED LocalVars(q)
    BY <2>0, <2>1, SameLocal
  <2>2. CASE Start(q)
    <3>1. cfg[q] \in Configs
      BY <2>0, <2>2, FleetsAssumption DEF Start
    <3>2. /\ pc'[q] = "list" /\ cfg' = cfg /\ archive' = archive /\ pos' = pos
          /\ pc[q] \in {"idle", "done", "crashed"}
      BY <2>0, <2>2 DEF Start, private
    <3>3. archive[q] = Empty /\ pos[q] = 1
      BY <2>0, <3>2 DEF Local, Knows
    <3>. QED
      BY <3>1, <3>2, <3>3 DEF Local, Knows
  <2>3. CASE Step(q)
    BY <1>0, <2>3, StepLocal
  <2>4. CASE Cancel(q)
    <3>1. CASE Finish(q, Outcome("cancelled", Nil))
      BY <1>0, <3>1, IdleLocal DEF Finish
    <3>2. CASE UNCHANGED <<server, cfg, current, pc, private, result, runs>>
      BY <2>1, <3>2 DEF LocalVars, private
    <3>. QED
      BY <2>4, <3>1, <3>2 DEF Cancel
  <2>5. CASE Crash(q)
    BY <1>0, <2>5, IdleLocal DEF Crash
  <2>6. ASSUME NEW p \in Updaters \ {q}, Start(p) \/ Step(p) \/ Cancel(p) \/ Crash(p)
        PROVE  UNCHANGED LocalVars(q)
    BY <1>0, <2>6, OthersSame
  <2>7. CASE UNCHANGED vars
    BY <2>1, <2>7 DEF vars, LocalVars, private
  <2>8. ASSUME NEW r \in Releases, NEW a \in {Nil, Bare} \union Archives, Publish(r, a)
        PROVE  UNCHANGED LocalVars(q)
    BY <2>8 DEF Publish, LocalVars, private
  <2>. QED
    BY <2>1, <2>2, <2>3, <2>4, <2>5, <2>6, <2>7, <2>8 DEF Next
<1>. QED
  BY <1>1, <1>2, <1>3 DEF IInv

(* What the server serves, what a call holds at each of its places and the *)
(* types, for any number of updaters and calls: see Local (update_extended *)
(* and finish_update_owned).                                               *)
THEOREM InductiveInvariant == Spec => []IInv
  BY InitInvariant, NextInvariant, PTL DEF Spec

(* Every variable keeps its type; in particular a request is never retried *)
(* more often than it was configured to be (backends::retry).              *)
THEOREM TypeCorrect == Spec => []TypeOK
<1>1. IInv => TypeOK
  BY DEF IInv
<1>. QED
  BY <1>1, InductiveInvariant, PTL

(* A downloaded file is the beginning of one response, however often       *)
(* requests fail and whatever the server does (Download::download_to).     *)
THEOREM OneResponseOnly == Spec => []OneResponse
<1>1. IInv => OneResponse
  <2>. SUFFICES ASSUME IInv, NEW p \in Updaters
                PROVE  \E a \in Archives \union {Nil}, k \in 0..Size :
                         archive[p] = [i \in Parts |-> IF i <= k THEN a ELSE Nil]
    BY DEF OneResponse
  <2>0. /\ Local(p) /\ pos[p] \in 1..(Size + 1) /\ resp[p] \in Archives \union {Nil}
    BY DEF IInv, TypeOK
  <2>. USE DEF Running, Awaiting, Asking, Tail
  <2>1. CASE pc[p] = "body"
    <3>1. pos[p] - 1 \in 0..Size
      BY <2>0, SizeAssumption
    <3>2. archive[p] = Beginning(resp[p], pos[p] - 1)
      BY <2>0, <2>1 DEF Local, Knows
    <3>. QED
      BY <2>0, <3>1, <3>2 DEF Beginning
  <2>2. CASE pc[p] \in Tail
    BY <2>0, <2>2 DEF Local, Knows, Received, Beginning
  <2>3. CASE pc[p] \notin Tail \union {"body"}
    <3>1. archive[p] = Beginning(Nil, 0)
      BY <2>0, <2>3, BeginsEmpty DEF Local, Knows
    <3>2. 0 \in 0..Size
      BY SizeAssumption
    <3>. QED
      BY <3>1, <3>2 DEF Beginning
  <2>. QED
    BY <2>1, <2>2, <2>3
<1>. QED
  BY <1>1, InductiveInvariant, PTL

-----------------------------------------------------------------------------
(* What is installed.  Two findings are the conditions: at most one        *)
(* updater copies through the shared temporary name, and no plain asset    *)
(* has the name that it is extracted to.                                   *)
OneCopier ==
  \A f \in Fleets : \A p, q \in Updaters :
    f[p] # Nil /\ CopiesAcross(f[p]) /\ f[q] # Nil /\ CopiesAcross(f[q]) => p = q

NamesApart == \A a \in Archives : ~(a.format = "plain" /\ a.name = "binary")

(* No part of a file is Nil but one that has not been written.             *)
LEMMA Solid ==
  /\ \A a \in Archives : a # Nil /\ a.binary \in Binaries /\ a.release \in Releases
  /\ \A b \in Binaries : b # Nil
  /\ \A a : Whole(a) = Beginning(a, Size)
  BY BinariesAssumption, ArchivesAssumption, SizeAssumption DEF Whole, Beginning, Parts

(* A beginning that is a whole file is the whole of it.                    *)
LEMMA WholeBeginning ==
  ASSUME NEW x, NEW y, x # Nil, y # Nil, NEW k \in 0..Size, Beginning(x, k) = Whole(y)
  PROVE  x = y /\ k = Size
<1>1. 1 \in Parts /\ Size \in Parts
  BY SizeAssumption DEF Parts
<1>2. /\ Beginning(x, k)[1] = y /\ Beginning(x, k)[Size] = y
  BY <1>1 DEF Whole
<1>3. Beginning(x, k)[1] = IF 1 <= k THEN x ELSE Nil
  BY <1>1 DEF Beginning
<1>4. Beginning(x, k)[Size] = IF Size <= k THEN x ELSE Nil
  BY <1>1 DEF Beginning
<1>. QED
  BY <1>2, <1>3, <1>4, SizeAssumption

LEMMA SameWhole ==
  ASSUME NEW x, NEW y, Whole(x) = Whole(y)
  PROVE  x = y
<1>1. 1 \in Parts
  BY SizeAssumption DEF Parts
<1>2. Whole(x)[1] = x /\ Whole(y)[1] = y
  BY <1>1 DEF Whole
<1>. QED
  BY <1>2

(* The response has the name and the format of the asset that was listed.  *)
LEMMA SameKind ==
  ASSUME NEW w, NEW r, w.asset \in Archives, w.asset.release = w.release, Responding(w, r)
  PROVE  r.name = w.asset.name /\ r.format = w.asset.format
  BY NamesAssumption DEF Responding

(* What the executable is, given the gates that the archive has passed.    *)
LEMMA YieldsWhat ==
  ASSUME NamesApart, NEW c, NEW v, NEW w, NEW r, NEW f, NEW e,
         Chosen(c, v, w), Resolved(w), Responding(w, r), Received(r, f), e \in Yields(w, f)
  PROVE  \/ f = Whole(r) /\ e = Whole(r.binary)
         \/ w.asset.format = "plain" /\ \E k \in 0..Size : e = Beginning(r.binary, k)
<1>1. PICK k \in 0..Size : f = Beginning(r, k)
  BY DEF Received
<1>2. r \in Archives /\ r # Nil
  BY Solid DEF Responding
<1>3. CASE w.asset.format # "plain"
  <2>1. PICK x \in Archives : f = Whole(x) /\ e = Whole(x.binary)
    BY <1>3 DEF Yields
  <2>2. x = r
    BY <1>1, <1>2, <2>1, Solid, WholeBeginning
  <2>. QED
    BY <2>1, <2>2
<1>4. CASE w.asset.format = "plain"
  <2>1. w.asset.name # "binary"
    BY <1>4 DEF NamesApart, Resolved
  <2>2. e = [i \in Parts |-> IF f[i] = Nil THEN Nil ELSE f[i].binary]
    BY <1>4, <2>1 DEF Yields
  <2>3. \A i \in Parts : f[i] = IF i <= k THEN r ELSE Nil
    BY <1>1 DEF Beginning
  <2>4. e = Beginning(r.binary, k)
    BY <1>2, <2>2, <2>3 DEF Beginning
  <2>. QED
    BY <1>4, <2>4
<1>. QED
  BY <1>3, <1>4

(* What a gate lets pass is the whole response.                            *)
LEMMA GuardsCut ==
  ASSUME NEW c \in Configs, NEW w, NEW r, NEW f,
         Responding(w, r), Received(r, f), Passed(c, w, f)
  PROVE  /\ c.checksum # Nil => c.checksum = r /\ f = Whole(r)
         /\ c.keys => r.signed /\ w.asset.format \in SignedFormats /\ f = Whole(r)
<1>1. PICK k \in 0..Size : f = Beginning(r, k)
  BY DEF Received
<1>2. r \in Archives /\ r # Nil
  BY Solid DEF Responding
<1>3. ASSUME c.checksum # Nil PROVE c.checksum = r /\ f = Whole(r)
  BY <1>1, <1>2, <1>3, WholeBeginning DEF Passed
<1>4. ASSUME c.keys PROVE r.signed /\ w.asset.format \in SignedFormats /\ f = Whole(r)
  <2>1. PICK a \in Archives : f = Whole(a) /\ a.signed /\ w.asset.format \in SignedFormats
    BY <1>4 DEF Passed
  <2>2. a = r
    BY <1>1, <1>2, <2>1, Solid, WholeBeginning
  <2>. QED
    BY <2>1, <2>2
<1>. QED
  BY <1>3, <1>4

LEMMA WholeYields ==
  ASSUME NamesApart, NEW c, NEW v, NEW w, NEW r, NEW f, NEW e,
         Chosen(c, v, w), Resolved(w), Responding(w, r), Received(r, f), e \in Yields(w, f),
         f = Whole(r)
  PROVE  e = Whole(r.binary)
<1>1. CASE w.asset.format = "plain"
  <2>1. e = [i \in Parts |-> IF f[i] = Nil THEN Nil ELSE f[i].binary]
    BY <1>1 DEF Yields, NamesApart, Resolved
  <2>2. r # Nil
    BY Solid DEF Responding
  <2>. QED
    BY <2>1, <2>2 DEF Whole
<1>2. CASE w.asset.format # "plain"
  BY <1>2, YieldsWhat
<1>. QED
  BY <1>1, <1>2

(* An executable that is about to be installed is vetted.                  *)
LEMMA VettedExecutable ==
  ASSUME NamesApart, NEW c \in Configs, NEW v, NEW w, NEW r, NEW f, NEW e,
         Chosen(c, v, w), Resolved(w), Responding(w, r), Received(r, f),
         Passed(c, w, f), e \in Yields(w, f), Hooked(c, e)
  PROVE  w.release \in Releases /\ e \in Vet[c][w.release]
<1>0. /\ w.asset \in Archives /\ w.asset.release = w.release /\ w.release \in Releases
      /\ r \in Archives /\ r.release = w.release /\ r # Nil
      /\ r.binary \in Binaries /\ r.binary # Nil
      /\ r.name = w.asset.name /\ r.format = w.asset.format /\ r.name # "unsafe"
  <2>1. w.asset \in Archives /\ w.asset.release = w.release /\ w.asset.name # "unsafe"
    BY DEF Chosen, Resolved
  <2>. QED
    BY <2>1, SameKind, Solid DEF Responding
<1>1. /\ c.checksum # Nil => c.checksum = r /\ f = Whole(r)
      /\ c.keys => r.signed /\ r.format \in SignedFormats /\ f = Whole(r)
  BY <1>0, GuardsCut
<1>2. \/ f = Whole(r) /\ e = Whole(r.binary)
      \/ r.format = "plain" /\ \E k \in 0..Size : e = Beginning(r.binary, k)
  BY <1>0, YieldsWhat
<1>3. f = Whole(r) => e = Whole(r.binary)
  BY WholeYields
<1>4. c.hook => r.binary \in Approved /\ e = Whole(r.binary)
  <2>. SUFFICES ASSUME c.hook PROVE r.binary \in Approved /\ e = Whole(r.binary)
    OBVIOUS
  <2>1. PICK b \in Approved : e = Whole(b)
    BY DEF Hooked
  <2>2. b # Nil
    BY <2>1, BinariesAssumption
  <2>3. r.binary = b
    <3>1. CASE e = Whole(r.binary)
      BY <2>1, <3>1, SameWhole
    <3>2. ASSUME NEW k \in 0..Size, e = Beginning(r.binary, k) PROVE r.binary = b
      BY <1>0, <2>1, <2>2, <3>2, WholeBeginning
    <3>. QED
      BY <1>2, <3>1, <3>2
  <2>. QED
    BY <2>1, <2>3
<1>5. r \in Passing(c, w.release)
  BY <1>0, <1>1, <1>4 DEF Passing
<1>6. Vet[c][w.release] =
        {Whole(a.binary) : a \in Passing(c, w.release)} \union
        {[i \in Parts |-> IF i <= k THEN a.binary ELSE Nil] :
           k \in 0..Size,
           a \in {x \in Passing(c, w.release) : ~Guarded(c) /\ x.format = "plain"}}
  BY <1>0 DEF Vet
<1>7. CASE e = Whole(r.binary)
  BY <1>0, <1>5, <1>6, <1>7
<1>8. CASE e # Whole(r.binary)
  <2>1. PICK k \in 0..Size : e = Beginning(r.binary, k)
    BY <1>2, <1>8
  <2>2. ~Guarded(c) /\ r.format = "plain"
    BY <1>1, <1>2, <1>3, <1>4, <1>8 DEF Guarded
  <2>3. r \in {x \in Passing(c, w.release) : ~Guarded(c) /\ x.format = "plain"}
    BY <1>5, <2>2
  <2>4. e = [i \in Parts |-> IF i <= k THEN r.binary ELSE Nil]
    BY <2>1 DEF Beginning
  <2>. QED
    BY <1>0, <1>6, <2>3, <2>4
<1>. QED
  BY <1>7, <1>8

(* What a call that is about to install holds.                             *)
LEMMA ReadyToInstall ==
  ASSUME NamesApart, IInv, NEW p \in Updaters,
         pc[p] \in {"replace", "copying", "swap", "installed"}
  PROVE  /\ cfg[p] \in Configs /\ cfg[p] # Nil
         /\ want[p].release \in Releases /\ Sought(cfg[p], current[p], want[p])
         /\ exe[p] \in Vet[cfg[p]][want[p].release]
         /\ cfg[p].digest /\ want[p].digest # Nil => exe[p] = Whole(want[p].digest.binary)
<1>. DEFINE c == cfg[p]  v == current[p]  w == want[p]  r == resp[p]  f == archive[p]  e == exe[p]
<1>1. /\ c \in Configs /\ Chosen(c, v, w) /\ Resolved(w) /\ Responding(w, r) /\ Received(r, f)
      /\ Passed(c, w, f) /\ e \in Yields(w, f) /\ Hooked(c, e)
  BY DEF IInv, Local, Knows, Running, Awaiting, Asking, Tail
<1>2. w.release \in Releases /\ e \in Vet[c][w.release]
  BY <1>1, VettedExecutable
<1>3. c # Nil
  BY <1>1, FleetsAssumption
<1>4. ASSUME c.digest, w.digest # Nil PROVE e = Whole(w.digest.binary)
  <2>1. f = Whole(w.digest) /\ w.digest = w.asset /\ w.asset \in Archives
    BY <1>1, <1>4 DEF Passed, Chosen, Resolved
  <2>2. r \in Archives
    BY <1>1 DEF Responding
  <2>3. w.asset = r
    <3>1. PICK k \in 0..Size : f = Beginning(r, k)
      BY <1>1 DEF Received
    <3>2. r # Nil /\ w.asset # Nil /\ Beginning(r, k) = Whole(w.asset)
      BY <2>1, <2>2, <3>1, Solid
    <3>. QED
      BY <3>2, WholeBeginning
  <2>. QED
    BY <1>1, <2>1, <2>3, WholeYields
<1>. QED
  BY <1>1, <1>2, <1>3, <1>4 DEF Chosen

(* What is on the disk while a copy is under way.                          *)
FirstParts(e, k) == [i \in Parts |-> IF i < k THEN e[i] ELSE Nil]

DiskOK ==
  /\ tmp # bin
  /\ \A p \in Updaters :
       /\ pc[p] = "copying" =>
            tmp # Nil /\ fd[p] = tmp /\ inode[tmp] = FirstParts(exe[p], pos[p])
       /\ pc[p] = "swap" => tmp # Nil /\ inode[tmp] = exe[p]

AtTmp(q) == pc[q] \in {"copying", "swap"}

LEMMA OneAtTmp ==
  ASSUME OneCopier, IInv, NEW p \in Updaters, NEW q \in Updaters,
         CopiesAcross(cfg[p]), cfg[p] # Nil, AtTmp(q)
  PROVE  p = q
<1>1. CopiesAcross(cfg[q]) /\ cfg \in Fleets /\ pc[q] \in Running
  BY DEF IInv, TypeOK, Local, Knows, AtTmp, Running, Tail
<1>2. cfg[q] # Nil
  BY <1>1, FleetsAssumption DEF IInv, Local, Knows
<1>. QED
  BY <1>1, <1>2 DEF OneCopier

(* Whatever else happens leaves the shared files alone.                    *)
LEMMA ElseQuiet ==
  ASSUME IInv, NEW p \in Updaters, Start(p) \/ Step(p) \/ Cancel(p) \/ Crash(p),
         ~Replace(p), ~OpenTmp(p), ~CopyPart(p), ~CopyDone(p), ~SwapTmp(p), ~SwapFails(p)
  PROVE  /\ UNCHANGED <<inode, bin, tmp, cfg>>
         /\ pc'[p] \in {"copying", "swap"} => UNCHANGED <<fd, pc, exe, pos>>
         /\ pc'[p] = "installed" => pc[p] = "installed"
<1>. USE DEF disk
<1>0. pc \in [Updaters -> Running \union {"idle", "done", "crashed"}]
  BY DEF IInv, TypeOK
<1>f. ASSUME NEW o, Finish(p, o) PROVE pc'[p] = "done" /\ UNCHANGED cfg
  BY <1>0, <1>f DEF Finish
<1>g. ASSUME NEW label, Goto(p, label) PROVE pc'[p] = label /\ UNCHANGED cfg
  BY <1>0, <1>g DEF Goto
<1>1. CASE RequestFails(p)
  <2>1. /\ UNCHANGED disk /\ pc[p] \in {"list", "get"}
        /\ Goto(p, pc[p]) \/ Fail(p)
    BY <1>1 DEF RequestFails
  <2>. QED
    BY <1>f, <1>g, <2>1 DEF Fail
<1>2. CASE UpToDate(p) \/ Refuse(p) \/ BodyFails(p) \/ StepFails(p) \/ Return(p)
  BY <1>2, <1>f DEF UpToDate, Refuse, BodyFails, StepFails, Return, Fail
<1>3. CASE CopyFails(p)
  BY <1>3, <1>f DEF CopyFails, Fail
<1>4. CASE Choose(p) \/ Resolve(p) \/ Probe(p) \/ GetAsset(p) \/ ReceivePart(p)
           \/ BodyEnds(p) \/ HookAccepts(p)
  BY <1>4, <1>g DEF Choose, Resolve, Probe, GetAsset, ReceivePart, BodyEnds, HookAccepts
<1>5. CASE Verify(p)
  BY <1>5, <1>f, <1>g DEF Verify, Fail
<1>6. CASE ExtractFile(p)
  BY <1>6, <1>g DEF ExtractFile
<1>7. CASE Start(p)
  BY <1>0, <1>7 DEF Start
<1>8. CASE Crash(p)
  BY <1>0, <1>8 DEF Crash
<1>9. CASE Cancel(p)
  BY <1>9, <1>f DEF Cancel, private
<1>. QED
  BY <1>1, <1>2, <1>3, <1>4, <1>5, <1>6, <1>7, <1>8, <1>9 DEF Step, Install

LEMMA OneMorePart ==
  ASSUME NEW e, NEW k \in Parts
  PROVE  [FirstParts(e, k) EXCEPT ![k] = e[k]] = FirstParts(e, k + 1)
<1>. DEFINE f == [FirstParts(e, k) EXCEPT ![k] = e[k]]
<1>1. ASSUME NEW i \in Parts PROVE f[i] = FirstParts(e, k + 1)[i]
  BY <1>1, SizeAssumption DEF FirstParts, Parts
<1>2. f = [i \in Parts |-> f[i]]
  BY DEF FirstParts
<1>3. FirstParts(e, k + 1) = [i \in Parts |-> FirstParts(e, k + 1)[i]]
  BY DEF FirstParts
<1>. QED
  BY <1>1, <1>2, <1>3

(* What is left is not there: the parts so far are the file.               *)
LEMMA AllParts ==
  ASSUME NEW S, NEW e \in Files(S), NEW k \in 1..(Size + 1), \A i \in k..Size : e[i] = Nil
  PROVE  FirstParts(e, k) = e
<1>1. ASSUME NEW i \in Parts PROVE FirstParts(e, k)[i] = e[i]
  BY <1>1, SizeAssumption DEF FirstParts, Parts
<1>2. FirstParts(e, k) = [i \in Parts |-> FirstParts(e, k)[i]]
  BY DEF FirstParts
<1>3. e = [i \in Parts |-> e[i]]
  BY DEF Files
<1>. QED
  BY <1>1, <1>2, <1>3

(* The disk after a step of p, seen by another call.                       *)
LEMMA OthersDisk ==
  ASSUME DiskOK, NEW q \in Updaters, UNCHANGED LocalVars(q), fd'[q] = fd[q],
         AtTmp(q) => tmp' = tmp /\ inode'[tmp] = inode[tmp]
  PROVE  /\ pc'[q] = "copying" =>
              tmp' # Nil /\ fd'[q] = tmp' /\ inode'[tmp'] = FirstParts(exe'[q], pos'[q])
         /\ pc'[q] = "swap" => tmp' # Nil /\ inode'[tmp'] = exe'[q]
  BY DEF DiskOK, LocalVars, AtTmp

LEMMA OthersFd ==
  ASSUME IInv, NEW p \in Updaters, NEW q \in Updaters \ {p},
         Start(p) \/ Step(p) \/ Cancel(p) \/ Crash(p)
  PROVE  fd'[q] = fd[q]
<1>1. fd \in [Updaters -> Inodes \union {Nil}]
  BY DEF IInv, TypeOK
<1>. QED
  BY <1>1 DEF Start, Cancel, Crash, Step, Install, RequestFails, Choose, UpToDate, Resolve,
     Probe, Refuse, GetAsset, ReceivePart, BodyFails, BodyEnds, Verify, ExtractFile,
     HookAccepts, StepFails, Replace, OpenTmp, CopyPart, CopyDone, CopyFails, SwapTmp,
     SwapFails, Return, disk

(* At most one updater copies, so nobody writes what it has copied; and    *)
(* nobody ever writes to the inode at the install path.                    *)
LEMMA StepDisk ==
  ASSUME OneCopier, IInv, DiskOK, NEW p \in Updaters,
         Start(p) \/ Step(p) \/ Cancel(p) \/ Crash(p)
  PROVE  /\ DiskOK'
         /\ \/ UNCHANGED <<Content, cfg>> /\ (pc'[p] = "installed" => pc[p] = "installed")
            \/ /\ pc[p] \in {"replace", "swap"} /\ Goto(p, "installed")
               /\ UNCHANGED private /\ Content' = exe[p]
<1>. DEFINE Mine(q) ==
       /\ pc'[q] = "copying" =>
            tmp' # Nil /\ fd'[q] = tmp' /\ inode'[tmp'] = FirstParts(exe'[q], pos'[q])
       /\ pc'[q] = "swap" => tmp' # Nil /\ inode'[tmp'] = exe'[q]
<1>0. /\ bin \in Inodes /\ tmp \in Inodes \union {Nil} /\ tmp # bin
      /\ fd \in [Updaters -> Inodes \union {Nil}]
      /\ inode \in [Inodes -> Files(Binaries)]
      /\ pc \in [Updaters -> Running \union {"idle", "done", "crashed"}]
      /\ exe \in [Updaters -> Files(Binaries)] /\ pos \in [Updaters -> 1..(Size + 1)]
      /\ Nil \notin Inodes
  BY BinariesAssumption DEF IInv, TypeOK, DiskOK
<1>u. ASSUME NEW q \in Updaters \ {p}
      PROVE  UNCHANGED LocalVars(q) /\ fd'[q] = fd[q]
  BY <1>u, OthersSame, OthersFd DEF IInv
<1>o. ASSUME \A q \in Updaters \ {p} : AtTmp(q) => tmp' = tmp /\ inode'[tmp] = inode[tmp],
             Mine(p), tmp' # bin'
      PROVE  DiskOK'
  <2>1. ASSUME NEW q \in Updaters PROVE Mine(q)
    <3>1. CASE q = p
      BY <1>o, <3>1
    <3>2. CASE q # p
      BY <1>o, <1>u, <3>2, OthersDisk
    <3>. QED
      BY <3>1, <3>2
  <2>. QED
    BY <1>o, <2>1 DEF DiskOK
<1>a. ASSUME AtTmp(p) \/ OpenTmp(p) PROVE \A q \in Updaters \ {p} : ~AtTmp(q)
  <2>1. CopiesAcross(cfg[p]) /\ cfg[p] # Nil
    <3>1. pc[p] \in {"replace", "copying", "swap"}
      BY <1>a DEF AtTmp, OpenTmp
    <3>2. cfg[p] \in Configs
      BY <3>1 DEF IInv, Local, Knows, Running, Tail
    <3>3. AtTmp(p) => CopiesAcross(cfg[p])
      BY DEF AtTmp, IInv, Local, Knows
    <3>. QED
      BY <1>a, <3>2, <3>3, FleetsAssumption DEF OpenTmp, CopiesAcross
  <2>. QED
    BY <2>1, OneAtTmp
<1>g. ASSUME NEW label, Goto(p, label) PROVE pc'[p] = label /\ UNCHANGED cfg
  BY <1>0, <1>g DEF Goto
<1>1. CASE Replace(p)
  <2>1. /\ bin' = Fresh /\ Fresh \in Inodes /\ Fresh # tmp /\ tmp' = tmp /\ fd' = fd
        /\ inode' = [inode EXCEPT ![Fresh] = exe[p]]
        /\ pc[p] = "replace" /\ Goto(p, "installed") /\ UNCHANGED private
    BY <1>1, FreshInode DEF Replace, IInv
  <2>2. DiskOK'
    BY <1>0, <1>o, <1>g, <2>1 DEF AtTmp, DiskOK
  <2>3. Content' = exe[p]
    BY <1>0, <2>1 DEF Content
  <2>. QED
    BY <2>1, <2>2, <2>3
<1>2. CASE OpenTmp(p)
  <2>1. /\ bin' = bin /\ tmp' \in Inodes /\ tmp' # bin /\ fd' = [fd EXCEPT ![p] = tmp']
        /\ inode' = [inode EXCEPT ![tmp'] = Empty]
        /\ pc[p] = "replace" /\ Goto(p, "copying") /\ UNCHANGED private
    BY <1>0, <1>2, FreshInode DEF OpenTmp, IInv
  <2>2. pos'[p] = 1 /\ pc'[p] = "copying"
    BY <1>g, <2>1 DEF IInv, Local, Knows, private
  <2>3. FirstParts(exe'[p], 1) = Empty
    BY SizeAssumption DEF FirstParts, Empty, Parts
  <2>4. Mine(p)
    BY <1>0, <2>1, <2>2, <2>3
  <2>5. DiskOK'
    BY <1>2, <1>a, <1>o, <2>1, <2>4
  <2>6. UNCHANGED Content
    BY <1>0, <2>1 DEF Content
  <2>. QED
    BY <1>g, <2>1, <2>2, <2>5, <2>6
<1>3. CASE CopyPart(p)
  <2>1. /\ pc[p] = "copying" /\ Goto(p, "copying") /\ pos[p] \in Parts
        /\ inode' = [inode EXCEPT ![tmp] = [inode[tmp] EXCEPT ![pos[p]] = exe[p][pos[p]]]]
        /\ pos'[p] = pos[p] + 1 /\ tmp \in Inodes /\ fd[p] = tmp
        /\ UNCHANGED <<exe, bin, tmp, fd>>
    <3>1. pc[p] = "copying" /\ Goto(p, "copying") /\ UNCHANGED <<exe, bin, tmp, fd>>
      BY <1>3 DEF CopyPart
    <3>2. fd[p] = tmp /\ tmp \in Inodes
      BY <1>0, <3>1 DEF DiskOK
    <3>3. pos[p] \in Parts
      BY <1>0, <1>3, SizeAssumption DEF CopyPart, Copied, Parts
    <3>4. pos'[p] = pos[p] + 1
      BY <1>0, <1>3 DEF CopyPart
    <3>5. inode' = [inode EXCEPT ![fd[p]] = [inode[fd[p]] EXCEPT ![pos[p]] = exe[p][pos[p]]]]
      BY <1>0, <1>3 DEF CopyPart
    <3>. QED
      BY <3>1, <3>2, <3>3, <3>4, <3>5
  <2>2. inode'[tmp] = FirstParts(exe[p], pos[p] + 1)
    <3>1. inode[tmp] = FirstParts(exe[p], pos[p])
      BY <2>1 DEF DiskOK
    <3>2. inode'[tmp] = [FirstParts(exe[p], pos[p]) EXCEPT ![pos[p]] = exe[p][pos[p]]]
      BY <1>0, <2>1, <3>1
    <3>. QED
      BY <2>1, <3>2, OneMorePart
  <2>3. DiskOK'
    <3>1. \A q \in Updaters \ {p} : ~AtTmp(q)
      BY <1>a, <2>1 DEF AtTmp
    <3>2. Mine(p)
      BY <1>0, <1>g, <2>1, <2>2
    <3>. QED
      BY <1>0, <1>o, <2>1, <3>1, <3>2
  <2>4. UNCHANGED Content
    BY <1>0, <2>1 DEF Content
  <2>. QED
    BY <1>g, <2>1, <2>3, <2>4
<1>4. CASE CopyDone(p)
  <2>1. /\ pc[p] = "copying" /\ Goto(p, "swap") /\ UNCHANGED <<private, inode, bin, tmp>>
        /\ \A i \in pos[p]..Size : exe[p][i] = Nil
    BY <1>4 DEF CopyDone, Copied
  <2>2. FirstParts(exe[p], pos[p]) = exe[p]
    BY <1>0, <2>1, AllParts
  <2>3. inode[tmp] = exe[p] /\ tmp # Nil
    BY <2>1, <2>2 DEF DiskOK
  <2>4. pc'[p] = "swap" /\ exe' = exe
    BY <1>g, <2>1 DEF private
  <2>5. DiskOK'
    BY <1>0, <1>o, <2>1, <2>3, <2>4
  <2>6. UNCHANGED Content
    BY <2>1 DEF Content
  <2>. QED
    BY <1>g, <2>1, <2>4, <2>5, <2>6
<1>5. CASE SwapTmp(p)
  <2>1. /\ pc[p] = "swap" /\ Goto(p, "installed") /\ tmp # Nil /\ bin' = tmp /\ tmp' = Nil
        /\ UNCHANGED <<private, inode, fd>>
    BY <1>5 DEF SwapTmp
  <2>2. DiskOK'
    BY <1>0, <1>a, <1>o, <1>g, <2>1 DEF AtTmp
  <2>3. Content' = exe[p]
    BY <2>1 DEF Content, DiskOK
  <2>. QED
    BY <2>1, <2>2, <2>3
<1>6. CASE SwapFails(p)
  <2>1. /\ pc[p] = "swap" /\ tmp' \in {tmp, Nil} /\ UNCHANGED <<inode, bin, fd, cfg>>
        /\ pc'[p] = "done"
    BY <1>0, <1>6 DEF SwapFails, Fail, Finish
  <2>2. DiskOK'
    BY <1>0, <1>a, <1>o, <2>1 DEF AtTmp
  <2>3. UNCHANGED Content
    BY <2>1 DEF Content
  <2>. QED
    BY <2>1, <2>2, <2>3
<1>7. CASE ~Replace(p) /\ ~OpenTmp(p) /\ ~CopyPart(p) /\ ~CopyDone(p) /\ ~SwapTmp(p)
           /\ ~SwapFails(p)
  <2>1. /\ UNCHANGED <<inode, bin, tmp, cfg>>
        /\ pc'[p] \in {"copying", "swap"} => UNCHANGED <<fd, pc, exe, pos>>
        /\ pc'[p] = "installed" => pc[p] = "installed"
    BY <1>7, ElseQuiet
  <2>2. Mine(p)
    BY <2>1 DEF DiskOK
  <2>3. DiskOK'
    BY <1>0, <1>o, <2>1, <2>2
  <2>4. UNCHANGED Content
    BY <2>1 DEF Content
  <2>. QED
    BY <2>1, <2>3, <2>4
<1>. QED
  BY <1>1, <1>2, <1>3, <1>4, <1>5, <1>6, <1>7

LEMMA InitDisk == Init => DiskOK
<1>. SUFFICES ASSUME Init PROVE DiskOK
  OBVIOUS
<1>1. bin \in Inodes /\ tmp = Nil /\ \A p \in Updaters : pc[p] = "idle"
  BY InodesAssumption DEF Init
<1>. QED
  BY <1>1, BinariesAssumption DEF DiskOK

LEMMA NextDisk ==
  ASSUME OneCopier, IInv, DiskOK, [Next]_vars
  PROVE  DiskOK'
<1>1. CASE UNCHANGED <<disk, pc, exe, pos>>
  BY <1>1 DEF DiskOK, disk
<1>2. ASSUME NEW r \in Releases, NEW a \in {Nil, Bare} \union Archives, Publish(r, a)
      PROVE  UNCHANGED <<disk, pc, exe, pos>>
  BY <1>2 DEF Publish, private
<1>3. ASSUME NEW p \in Updaters, Start(p) \/ Step(p) \/ Cancel(p) \/ Crash(p)
      PROVE  DiskOK'
  BY <1>3, StepDisk
<1>4. CASE UNCHANGED vars
  BY <1>1, <1>4 DEF vars, private
<1>. QED
  BY <1>1, <1>2, <1>3, <1>4 DEF Next

(* A step changes what is installed only by installing.                    *)
LEMMA NextContent ==
  ASSUME OneCopier, IInv, DiskOK, [Next]_vars
  PROVE  \/ /\ UNCHANGED <<Content, cfg>>
            /\ \A p \in Updaters : pc'[p] = "installed" => pc[p] = "installed"
         \/ \E p \in Updaters :
              /\ pc[p] \in {"replace", "swap"} /\ Goto(p, "installed")
              /\ UNCHANGED private /\ Content' = exe[p]
<1>1. CASE UNCHANGED <<disk, pc, cfg>>
  BY <1>1 DEF Content, disk
<1>2. ASSUME NEW r \in Releases, NEW a \in {Nil, Bare} \union Archives, Publish(r, a)
      PROVE  UNCHANGED <<disk, pc, cfg>>
  BY <1>2 DEF Publish
<1>3. ASSUME NEW p \in Updaters, Start(p) \/ Step(p) \/ Cancel(p) \/ Crash(p),
             UNCHANGED <<Content, cfg>>, pc'[p] = "installed" => pc[p] = "installed",
             NEW q \in Updaters
      PROVE  pc'[q] = "installed" => pc[q] = "installed"
  <2>1. CASE q = p
    BY <1>3, <2>1
  <2>2. CASE q # p
    <3>1. UNCHANGED LocalVars(q)
      BY <1>3, <2>2, OthersSame DEF IInv
    <3>. QED
      BY <3>1 DEF LocalVars
  <2>. QED
    BY <2>1, <2>2
<1>4. ASSUME NEW p \in Updaters, Start(p) \/ Step(p) \/ Cancel(p) \/ Crash(p)
      PROVE  \/ UNCHANGED <<Content, cfg>> /\ (pc'[p] = "installed" => pc[p] = "installed")
             \/ /\ pc[p] \in {"replace", "swap"} /\ Goto(p, "installed")
                /\ UNCHANGED private /\ Content' = exe[p]
  BY <1>4, StepDisk
<1>5. CASE UNCHANGED vars
  BY <1>1, <1>5 DEF vars
<1>. QED
  BY <1>1, <1>2, <1>3, <1>4, <1>5 DEF Next

(* Whatever is interleaved, replaced on the server, or killed, what is     *)
(* installed passed every gate of a call that was to install it, when at   *)
(* most one updater copies across file systems (rename_or_copy) and no     *)
(* plain asset is extracted onto itself (Extract::extract_file).           *)
THEOREM Vetted ==
  ASSUME OneCopier, NamesApart
  PROVE  Spec => []BinaryVetted
<1>1. Init => BinaryVetted
  BY InodesAssumption DEF Init, BinaryVetted, Content
<1>2. IInv /\ DiskOK /\ BinaryVetted /\ [Next]_vars => BinaryVetted'
  <2>. SUFFICES ASSUME IInv, DiskOK, BinaryVetted, [Next]_vars
                PROVE  BinaryVetted'
    OBVIOUS
  <2>1. CASE UNCHANGED <<Content, cfg>>
    BY <2>1 DEF BinaryVetted
  <2>2. ASSUME NEW p \in Updaters, pc[p] \in {"replace", "swap"}, Goto(p, "installed"),
               Content' = exe[p]
        PROVE  BinaryVetted'
    <3>1. /\ cfg[p] # Nil /\ want[p].release \in Releases
          /\ exe[p] \in Vet[cfg[p]][want[p].release]
      BY <2>2, ReadyToInstall
    <3>2. cfg' = cfg
      BY <2>2 DEF Goto
    <3>. QED
      BY <2>2, <3>1, <3>2 DEF BinaryVetted
  <2>. QED
    BY <2>1, <2>2, NextContent
<1>3. IInv /\ DiskOK /\ [Next]_vars => DiskOK'
  BY NextDisk
<1>. QED
  BY <1>1, <1>2, <1>3, InitDisk, InductiveInvariant, PTL DEF Spec

(* An updater that checks the release digest installs the asset that the   *)
(* listing described, even if the server has replaced it since             *)
(* (finish_update_owned), under the same two conditions.                   *)
THEOREM ListedInstalled ==
  ASSUME OneCopier, NamesApart
  PROVE  Spec => InstallsWhatWasListed
<1>. DEFINE Listed ==
       \A p \in Updaters :
         pc[p] # "installed" /\ pc'[p] = "installed"
           /\ cfg[p].digest /\ want[p].digest # Nil
         => Content' = Whole(want[p].digest.binary)
<1>1. IInv /\ DiskOK /\ [Next]_vars => [Listed]_vars
  <2>. SUFFICES ASSUME IInv, DiskOK, [Next]_vars,
                       NEW p \in Updaters, pc[p] # "installed", pc'[p] = "installed",
                       cfg[p].digest, want[p].digest # Nil
                PROVE  Content' = Whole(want[p].digest.binary)
    OBVIOUS
  <2>0. pc \in [Updaters -> Running \union {"idle", "done", "crashed"}]
    BY DEF IInv, TypeOK
  <2>1. PICK q \in Updaters : /\ pc[q] \in {"replace", "swap"} /\ Goto(q, "installed")
                              /\ Content' = exe[q]
    BY NextContent
  <2>2. p = q
    BY <2>0, <2>1 DEF Goto
  <2>. QED
    BY <2>1, <2>2, ReadyToInstall
<1>3. IInv /\ DiskOK /\ [Next]_vars => DiskOK'
  BY NextDisk
<1>. QED
  BY <1>1, <1>3, InitDisk, InductiveInvariant, PTL DEF Spec, InstallsWhatWasListed

-----------------------------------------------------------------------------
(* The refinement: every step is a step of SafeUpdate or changes nothing   *)
(* that SafeUpdate speaks of.                                              *)

(* What a caller sees of a call, by where the call is.                     *)
Seen(label, w, r) ==
  IF label = "installed" THEN Outcome("busy", w.release)
  ELSE IF label \in Running THEN Outcome("busy", Nil)
  ELSE IF label = "crashed" THEN Outcome("dead", Nil)
  ELSE r

LEMMA StatusSeen ==
  ASSUME NEW p \in Updaters
  PROVE  /\ Status(p) = Seen(pc[p], want[p], result[p])
         /\ Status(p)' = Seen(pc'[p], want'[p], result'[p])
  BY DEF Status, Seen, Running, Awaiting, Asking, Tail

Before == Running \ {"installed"}

(* What a step of p does to p's call.                                      *)
LEMMA StepControl ==
  ASSUME TypeOK, NEW p \in Updaters, Start(p) \/ Step(p) \/ Cancel(p) \/ Crash(p)
  PROVE  \/ Start(p)
         \/ \E label \in Before : pc[p] \in Before /\ Goto(p, label)
         \/ pc[p] \in {"replace", "swap"} /\ Goto(p, "installed")
         \/ \E o \in {"err", "uptodate", "cancelled"} :
              pc[p] \in Before /\ Finish(p, Outcome(o, Nil))
         \/ Return(p)
         \/ UNCHANGED <<cfg, current, pc, want, result>>
         \/ Crash(p)
<1>. USE DEF Before, Running, Awaiting, Asking, Tail
<1>1. CASE RequestFails(p)
  <2>1. pc[p] \in {"list", "get"} /\ (Goto(p, pc[p]) \/ Fail(p))
    BY <1>1 DEF RequestFails
  <2>. QED
    BY <2>1 DEF Fail
<1>2. CASE UpToDate(p)
  BY <1>2 DEF UpToDate
<1>3. CASE Refuse(p) \/ BodyFails(p) \/ StepFails(p) \/ CopyFails(p) \/ SwapFails(p)
  BY <1>3 DEF Refuse, BodyFails, StepFails, CopyFails, SwapFails, Fail
<1>4. CASE Choose(p) \/ Probe(p) \/ GetAsset(p) \/ ReceivePart(p) \/ BodyEnds(p)
           \/ HookAccepts(p) \/ OpenTmp(p) \/ CopyPart(p) \/ CopyDone(p)
  BY <1>4 DEF Choose, Probe, GetAsset, ReceivePart, BodyEnds, HookAccepts, OpenTmp,
     CopyPart, CopyDone
<1>5. CASE Resolve(p)
  BY <1>5 DEF Resolve
<1>6. CASE Verify(p)
  BY <1>6 DEF Verify, Fail
<1>7. CASE ExtractFile(p)
  BY <1>7 DEF ExtractFile
<1>8. CASE Replace(p) \/ SwapTmp(p)
  BY <1>8 DEF Replace, SwapTmp
<1>9. CASE Cancel(p)
  <2>1. CASE pc[p] \in Awaiting /\ Finish(p, Outcome("cancelled", Nil))
    BY <2>1
  <2>2. CASE UNCHANGED <<server, cfg, current, pc, private, result, runs>>
    BY <2>2 DEF private
  <2>. QED
    BY <1>9, <2>1, <2>2 DEF Cancel
<1>. QED
  BY <1>1, <1>2, <1>3, <1>4, <1>5, <1>6, <1>7, <1>8, <1>9 DEF Step, Install

(* A step of p shows in the status of p alone.                             *)
LEMMA OthersStatus ==
  ASSUME TypeOK, NEW p \in Updaters, NEW q \in Updaters \ {p},
         Start(p) \/ Step(p) \/ Cancel(p) \/ Crash(p)
  PROVE  Status(q)' = Status(q)
<1>1. pc'[q] = pc[q] /\ want'[q] = want[q]
  BY OthersSame DEF LocalVars
<1>2. result'[q] = result[q]
  <2>. USE DEF TypeOK
  <2>1. CASE Start(p)
    BY <2>1 DEF Start
  <2>2. ASSUME NEW label, Goto(p, label) PROVE result'[q] = result[q]
    BY <2>2 DEF Goto
  <2>3. ASSUME NEW o, Finish(p, o) PROVE result'[q] = result[q]
    BY <2>3 DEF Finish
  <2>4. CASE Return(p)
    BY <2>3, <2>4 DEF Return
  <2>5. CASE Crash(p)
    BY <2>5 DEF Crash
  <2>. QED
    BY <2>1, <2>2, <2>3, <2>4, <2>5, StepControl
<1>. QED
  BY <1>1, <1>2, StatusSeen

Shown == [p \in Updaters |-> Status(p)]

LEMMA InitRefines == Init => Safe!Init
<1>. SUFFICES ASSUME Init PROVE Safe!Init
  OBVIOUS
<1>1. Content = Whole(Original)
  BY InodesAssumption DEF Init, Content
<1>2. cfg \in [Updaters -> Configs \union {Nil}] /\ current = [p \in Updaters |-> VersionOf[Original]]
  BY FleetsAssumption DEF Init
<1>3. \A p \in Updaters : Status(p) = Outcome("none", Nil)
  BY StatusSeen DEF Init, Seen, Running, Awaiting, Asking, Tail, NoOutcome
<1>. QED
  BY <1>1, <1>2, <1>3 DEF Safe!Init, Safe!Whole, Whole, Parts, Safe!Outcome, Outcome

(* Nobody but p changes what is seen of p's call.                          *)
LEMMA StepRefines ==
  ASSUME OneCopier, NamesApart, IInv, DiskOK, NEW p \in Updaters,
         Start(p) \/ Step(p) \/ Cancel(p) \/ Crash(p)
  PROVE  Safe!Next \/ UNCHANGED Safe!vars
<1>0. /\ pc \in [Updaters -> Running \union {"idle", "done", "crashed"}]
      /\ result \in [Updaters -> [status : Statuses, release : Releases \union {Nil}]]
      /\ gone \in [Updaters -> BOOLEAN]
      /\ want \in [Updaters -> Wants \union {Nil}]
      /\ TypeOK
  BY DEF IInv, TypeOK
<1>s. /\ Status(p) = Seen(pc[p], want[p], result[p])
      /\ Status(p)' = Seen(pc'[p], want'[p], result'[p])
  BY StatusSeen
<1>t. ASSUME NEW x, Status(p)' = x PROVE Shown' = [Shown EXCEPT ![p] = x]
  <2>1. \A q \in Updaters \ {p} : Status(q)' = Status(q)
    BY <1>0, OthersStatus
  <2>. QED
    BY <1>t, <2>1 DEF Shown
<1>u. Shown[p] = Status(p)
  BY DEF Shown
<1>v. UNCHANGED Status(p) => UNCHANGED Shown
  BY <1>t, <1>u DEF Shown
<1>. USE DEF Outcome, Safe!Outcome
<1>1. CASE /\ pc[p] \in {"replace", "swap"} /\ Goto(p, "installed")
           /\ UNCHANGED private /\ Content' = exe[p]
  <2>1. /\ pc'[p] = "installed" /\ want' = want /\ UNCHANGED <<cfg, current>>
        /\ pc[p] \in Before
    BY <1>0, <1>1 DEF Goto, private, Before, Running, Tail
  <2>2. Status(p) = Outcome("busy", Nil) /\ Status(p)' = Outcome("busy", want[p].release)
    BY <1>s, <2>1 DEF Seen, Before
  <2>3. /\ want[p].release \in Releases /\ Sought(cfg[p], current[p], want[p])
        /\ exe[p] \in Vet[cfg[p]][want[p].release]
    BY <1>1, ReadyToInstall
  <2>4. Safe!Put(p, want[p].release)
    <3>1. Shown[p] = Outcome("busy", Nil)
      BY <1>u, <2>2
    <3>2. Shown' = [Shown EXCEPT ![p] = Outcome("busy", want[p].release)]
      BY <1>t, <2>2
    <3>3. Content' \in Vet[cfg[p]][want[p].release]
      BY <1>1, <2>3
    <3>4. ASSUME NEW v, NEW r PROVE BumpIsGreater(v, r) => Safe!BumpIsGreater(v, r)
      BY DEF BumpIsGreater, Safe!BumpIsGreater, Greater, Safe!Greater
    <3>. QED
      BY <2>1, <2>3, <3>1, <3>2, <3>3, <3>4 DEF Safe!Put, Sought, Shown
  <2>. QED
    BY <2>3, <2>4 DEF Safe!Next
<1>2. CASE UNCHANGED <<Content, cfg>> /\ (pc'[p] = "installed" => pc[p] = "installed")
  <2>1. CASE Start(p)
    <3>1. /\ pc[p] \in {"idle", "done", "crashed"} /\ pc'[p] = "list" /\ cfg[p] # Nil
          /\ UNCHANGED current
             \/ \E b \in Binaries :
                  Content = Whole(b) /\ current' = [current EXCEPT ![p] = VersionOf[b]]
      BY <1>0, <2>1 DEF Start
    <3>2. Status(p)' = Outcome("busy", Nil)
      BY <1>s, <3>1 DEF Seen, Running, Awaiting
    <3>3. Status(p).status # "busy"
      BY <1>0, <1>s, <3>1 DEF Seen, Running, Awaiting, Asking, Tail, Statuses
    <3>4. Safe!Call(p)
      BY <1>2, <1>t, <1>u, <3>1, <3>2, <3>3
         DEF Safe!Call, Shown, Safe!Binaries, Binaries, Safe!Whole, Whole, Parts
    <3>. QED
      BY <3>4 DEF Safe!Next
  <2>2. ASSUME NEW label \in Before, pc[p] \in Before, Goto(p, label)
        PROVE  UNCHANGED Safe!vars
    <3>1. pc'[p] = label /\ UNCHANGED current
      BY <1>0, <2>2 DEF Goto
    <3>2. UNCHANGED Status(p)
      BY <1>s, <2>2, <3>1 DEF Seen, Before
    <3>. QED
      BY <1>2, <1>v, <3>1, <3>2 DEF Safe!vars, Shown
  <2>3. ~(pc[p] \in {"replace", "swap"} /\ Goto(p, "installed"))
    BY <1>0, <1>2 DEF Goto
  <2>4. ASSUME NEW o \in {"err", "uptodate", "cancelled"}, pc[p] \in Before,
               Finish(p, Outcome(o, Nil))
        PROVE  Safe!Next
    <3>1. /\ pc'[p] = "done" /\ UNCHANGED current
          /\ result'[p] = Outcome(o, Nil) \/ result'[p] = Outcome("cancelled", Nil)
      BY <1>0, <2>4 DEF Finish
    <3>2. /\ Status(p) = Outcome("busy", Nil)
          /\ Status(p)' = Outcome(o, Nil) \/ Status(p)' = Outcome("cancelled", Nil)
      BY <1>s, <2>4, <3>1 DEF Seen, Before, Running, Awaiting, Asking, Tail
    <3>3. PICK status \in {"uptodate", "err", "cancelled"} : Status(p)' = Outcome(status, Nil)
      BY <3>2
    <3>4. Safe!Decline(p)
      BY <1>2, <1>t, <1>u, <3>1, <3>2, <3>3 DEF Safe!Decline, Shown
    <3>. QED
      BY <3>4 DEF Safe!Next
  <2>5. CASE Return(p)
    <3>1. /\ pc[p] = "installed" /\ pc'[p] = "done" /\ UNCHANGED current
          /\ \/ result'[p] = Outcome("updated", want[p].release)
             \/ result'[p] = Outcome("cancelled", Nil)
      BY <1>0, <2>5 DEF Return, Finish
    <3>2. /\ Status(p) = Outcome("busy", want[p].release)
          /\ \/ Status(p)' = Outcome("updated", want[p].release)
             \/ Status(p)' = Outcome("cancelled", Nil)
      BY <1>s, <3>1 DEF Seen, Running, Awaiting, Asking, Tail
    <3>3. want[p].release # Nil
      BY <3>1, ReadyToInstall, BinariesAssumption
    <3>4. Shown[p].status = "busy" /\ Shown[p].release = want[p].release
      BY <1>u, <3>2
    <3>5. \/ Shown' = [Shown EXCEPT ![p] = Outcome("updated", Shown[p].release)]
          \/ Shown' = [Shown EXCEPT ![p] = Outcome("cancelled", Nil)]
      BY <1>t, <3>2, <3>4
    <3>6. Safe!Succeed(p)
      BY <1>2, <3>1, <3>3, <3>4, <3>5 DEF Safe!Succeed, Shown
    <3>. QED
      BY <3>6 DEF Safe!Next
  <2>6. CASE UNCHANGED <<cfg, current, pc, want, result>>
    BY <1>2, <1>s, <1>v, <2>6 DEF Safe!vars, Shown
  <2>7. CASE Crash(p)
    <3>1. pc[p] \in Running /\ pc'[p] = "crashed" /\ UNCHANGED current
      BY <1>0, <2>7 DEF Crash
    <3>2. Status(p).status = "busy" /\ Status(p)' = Outcome("dead", Nil)
      BY <1>s, <3>1 DEF Seen, Running, Awaiting, Asking, Tail
    <3>3. Safe!Die(p)
      BY <1>2, <1>t, <1>u, <3>1, <3>2 DEF Safe!Die, Shown
    <3>. QED
      BY <3>3 DEF Safe!Next
  <2>. QED
    BY <1>0, StepControl, <2>1, <2>2, <2>3, <2>4, <2>5, <2>6, <2>7
<1>. QED
  BY <1>1, <1>2, StepDisk

(* The pipeline does what SafeUpdate promises, under the two conditions:   *)
(* update() replaces what is installed in one step, by something vetted    *)
(* that is newer or was asked for, and says Updated if and only if it has. *)
THEOREM Refinement ==
  ASSUME OneCopier, NamesApart
  PROVE  Spec => ImplementsSafeUpdate
<1>1. IInv /\ DiskOK /\ [Next]_vars => [Safe!Next]_(Safe!vars)
  <2>. SUFFICES ASSUME IInv, DiskOK, [Next]_vars
                PROVE  Safe!Next \/ UNCHANGED Safe!vars
    OBVIOUS
  <2>1. ASSUME UNCHANGED <<disk, cfg, current, pc, want, result>>
        PROVE  UNCHANGED Safe!vars
    <3>1. \A p \in Updaters : Status(p)' = Status(p)
      BY <2>1, StatusSeen
    <3>. QED
      BY <2>1, <3>1 DEF Safe!vars, Content, disk
  <2>2. ASSUME NEW r \in Releases, NEW a \in {Nil, Bare} \union Archives, Publish(r, a)
        PROVE  UNCHANGED <<disk, cfg, current, pc, want, result>>
    BY <2>2 DEF Publish, private
  <2>3. CASE UNCHANGED vars
    BY <2>1, <2>3 DEF vars, private
  <2>4. ASSUME NEW p \in Updaters, Start(p) \/ Step(p) \/ Cancel(p) \/ Crash(p)
        PROVE  Safe!Next \/ UNCHANGED Safe!vars
    BY <2>4, StepRefines
  <2>. QED
    BY <2>1, <2>2, <2>3, <2>4 DEF Next
<1>2. IInv /\ DiskOK /\ [Next]_vars => DiskOK'
  BY NextDisk
<1>. QED
  BY <1>1, <1>2, InitRefines, InitDisk, InductiveInvariant, PTL
     DEF Spec, ImplementsSafeUpdate, Safe!Spec

=============================================================================
