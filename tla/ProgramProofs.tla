---------------------------- MODULE ProgramProofs ----------------------------
(***************************************************************************)
(* Theorems about Program, for any number of processes and of installs, on *)
(* every platform.                                                         *)
(***************************************************************************)
EXTENDS Program, TLAPS

Files    == [kind : {"file"}, version : Nat]
Contents == Files \union {Link, Missing}

-----------------------------------------------------------------------------
(* What the names hold.                                                    *)

(* A binary, a link and nothing are told apart by their kind.              *)
LEMMA Kinds ==
  /\ Link # Missing
  /\ Link.kind # "file" /\ Missing.kind # "file"
  /\ \A v : Binary(v) # Link /\ Binary(v) # Missing
  /\ \A v : Binary(v).kind = "file" /\ Binary(v).version = v
  /\ \A v \in Nat : Binary(v) \in Files
  /\ \A f \in Files : f.kind = "file" /\ f.version \in Nat /\ f = Binary(f.version)
<1>1. Link.kind = "link" /\ Missing.kind = "none"
  BY DEF Link, Missing
<1>2. \A v : Binary(v).kind = "file" /\ Binary(v).version = v
  BY DEF Binary
<1>3. \A v \in Nat : Binary(v) \in Files
  BY DEF Binary, Files
<1>4. \A f \in Files : f.kind = "file" /\ f.version \in Nat /\ f = Binary(f.version)
  BY DEF Binary, Files
<1>. QED
  BY <1>1, <1>2, <1>3, <1>4

(* Names hold what a name can hold; only link is a link, and it stays; and *)
(* app, or its stash, is there.                                            *)
DirOK ==
  /\ newest \in Nat
  /\ dir \in [Names -> Contents]
  /\ dir["app"] # Link /\ dir["temp"] # Link /\ dir["link"] # Missing
  /\ dir["app"] # Missing \/ dir["temp"] # Missing

(* Three things happen to the names: an install, ..                        *)
LEMMA InstallDir ==
  ASSUME DirOK, NEW t \in Names, Install(t)
  PROVE  /\ DirOK'
         /\ newest' = newest + 1
         /\ dir'[t] = Binary(newest + 1)
         /\ \A n \in Names \ {t} : dir'[n] = dir[n]
<1>1. newest' = newest + 1 /\ newest' \in Nat /\ newest + 1 \in Nat
  BY DEF Install, DirOK
<1>2. /\ dir'[t] = Binary(newest + 1)
      /\ \A n \in Names \ {t} : dir'[n] = dir[n]
  BY DEF Install, DirOK
<1>3. Binary(newest + 1) \in Contents /\ Binary(newest + 1) # Link /\ Binary(newest + 1) # Missing
  BY <1>1, Kinds DEF Contents
<1>4. dir' \in [Names -> Contents]
  BY <1>3 DEF Install, DirOK
<1>5. "app" \in Names /\ "temp" \in Names /\ "link" \in Names
  BY DEF Names
<1>. QED
  BY <1>1, <1>2, <1>3, <1>4, <1>5 DEF DirOK

(* .. the stashing of app by a Move, ..                                    *)
LEMMA StashDir ==
  ASSUME DirOK, dir["app"] # Missing, newest' = newest,
         dir' = [dir EXCEPT !["temp"] = dir["app"], !["app"] = Missing]
  PROVE  /\ DirOK'
         /\ dir'["temp"] = dir["app"] /\ dir'["app"] = Missing
         /\ dir'["link"] = dir["link"]
<1>1. "app" \in Names /\ "temp" \in Names /\ "link" \in Names
  BY DEF Names
<1>2. /\ dir'["temp"] = dir["app"] /\ dir'["app"] = Missing
      /\ dir'["link"] = dir["link"]
  BY <1>1 DEF DirOK
<1>3. dir["app"] \in Contents /\ Missing \in Contents
  BY <1>1 DEF DirOK, Contents
<1>4. dir' \in [Names -> Contents]
  BY <1>1, <1>3 DEF DirOK
<1>. QED
  BY <1>2, <1>4, Kinds DEF DirOK

(* .. and its roll-back.                                                   *)
LEMMA PutBackDir ==
  ASSUME DirOK, dir["temp"] # Missing, newest' = newest,
         dir' = [dir EXCEPT !["app"] = dir["temp"], !["temp"] = Missing]
  PROVE  /\ DirOK'
         /\ dir'["app"] = dir["temp"] /\ dir'["temp"] = Missing
         /\ dir'["link"] = dir["link"]
<1>1. "app" \in Names /\ "temp" \in Names /\ "link" \in Names
  BY DEF Names
<1>2. /\ dir'["app"] = dir["temp"] /\ dir'["temp"] = Missing
      /\ dir'["link"] = dir["link"]
  BY <1>1 DEF DirOK
<1>3. dir["temp"] \in Contents /\ Missing \in Contents
  BY <1>1 DEF DirOK, Contents
<1>4. dir' \in [Names -> Contents]
  BY <1>1, <1>3 DEF DirOK
<1>. QED
  BY <1>2, <1>4, Kinds DEF DirOK

(* A path that leads somewhere leads to a binary that it can be run as.    *)
LEMMA CanonFile ==
  ASSUME DirOK, NEW n, Canon(n) # None
  PROVE  /\ n \in Names /\ Canon(n) \in Names
         /\ dir[Canon(n)] \in Files /\ dir[Canon(n)].kind = "file"
         /\ Runs(n) = dir[Canon(n)].version /\ Runs(n) \in Nat
         /\ dir[n] = Link  => Canon(n) = "app"
         /\ dir[n] # Link => Canon(n) = n
<1>1. "app" \in Names
  BY DEF Names
<1>2. n \in Names /\ Canon(n) \in Names /\ dir[Canon(n)].kind = "file"
  BY <1>1 DEF Canon, Names
<1>3. dir[Canon(n)] \in Files
  BY <1>2, Kinds DEF DirOK, Contents
<1>4. (dir[n] = Link => Canon(n) = "app") /\ (dir[n] # Link => Canon(n) = n)
  BY <1>2 DEF Canon
<1>. QED
  BY <1>2, <1>3, <1>4, Kinds DEF Runs

-----------------------------------------------------------------------------
(* The inductive invariant.                                                *)

Typed ==
  /\ image \in [Procs -> Nat \union {None}]
  /\ fresh \in [Procs -> Nat \union {None}]
  /\ launched \in [Procs -> Names]
  /\ updater \in [Procs -> Names \union {None, "deleted"}]

(* Versions are in the order of installation, and no two names hold the    *)
(* same file.                                                              *)
Versions ==
  /\ \A n \in Names : dir[n] \in Files => dir[n].version <= newest
  /\ \A m, n \in Names : dir[m] \in Files /\ dir[m] = dir[n] => m = n
  /\ \A p \in Procs : image[p] # None => image[p] <= newest
  /\ \A p \in Procs : fresh[p] # None => fresh[p] <= newest /\ image[p] # None

(* Linux: the file that a process runs lost its last name when update()    *)
(* replaced it.                                                            *)
Unlinked ==
  platform # "path" =>
    \A p \in Procs : fresh[p] # None => \A n \in Names : dir[n] # Binary(image[p])

(* The version of the program, in its place or stashed.                    *)
AppVersion == IF dir["app"] = Missing THEN dir["temp"].version ELSE dir["app"].version

(* Elsewhere: the path that a process was started by leads to what         *)
(* update() installed, or to something later.                              *)
Led ==
  platform = "path" =>
    \A p \in Procs :
      /\ launched[p] # "temp"
      /\ updater[p] \in {None, "app", "link"}
      /\ fresh[p] # None /\ ~undone =>
           /\ launched[p] = "app" \/ dir["link"] = Link => fresh[p] <= AppVersion
           /\ launched[p] = "link" /\ dir["link"] # Link => fresh[p] <= dir["link"].version

IInv == DirOK /\ Typed /\ Versions /\ Unlinked /\ Led

(* It holds at first.                                                      *)
LEMMA InitInvariant == Init => IInv
<1>. SUFFICES ASSUME Init PROVE IInv
  OBVIOUS
<1>. USE NoneAssumption
<1>1. /\ dir["app"] = Binary(1) /\ dir["link"] = Link /\ dir["temp"] = Missing
      /\ newest = 1
      /\ dir \in [Names -> {Binary(1), Link, Missing}]
  BY DEF Init, Names
<1>2. Binary(1) \in Files /\ Link \notin Files /\ Missing \notin Files
  BY Kinds
<1>3. DirOK
  BY <1>1, <1>2, Kinds DEF DirOK, Contents
<1>4. Typed
  BY DEF Init, Typed, Names
<1>5. Versions
  <2>1. \A n \in Names : dir[n] \in Files => n = "app"
    BY <1>1, <1>2 DEF Names
  <2>2. \A n \in Names : dir[n] \in Files => dir[n].version <= newest
    BY <1>1, <2>1, Kinds
  <2>. QED
    BY <2>1, <2>2 DEF Init, Versions
<1>6. Unlinked /\ Led
  BY DEF Init, Unlinked, Led
<1>. QED
  BY <1>3, <1>4, <1>5, <1>6 DEF IInv

(* What current_exe() names on Linux, as long as the file has a name.      *)
LEMMA NamedFile ==
  ASSUME DirOK, NEW p \in Procs, platform # "path", Canon(CurrentExe(p)) # None
  PROVE  /\ Canon(CurrentExe(p)) \in Names
         /\ dir[Canon(CurrentExe(p))] = Binary(image[p])
<1>1. CurrentExe(p) \in Names
  BY CanonFile
<1>2. dir[CurrentExe(p)] = Binary(image[p])
  BY <1>1 DEF CurrentExe, Names
<1>3. Canon(CurrentExe(p)) = CurrentExe(p)
  BY <1>2, CanonFile, Kinds
<1>. QED
  BY <1>1, <1>2, <1>3

(* An install, of whatever name, by update() or by a Move.                 *)
LEMMA InstallKeeps ==
  ASSUME IInv, NEW t \in Names, Install(t),
         platform = "path" => t # "temp",
         UNCHANGED <<platform, image, launched, updater, undone>>,
         fresh' \in [Procs -> Nat \union {None}],
         \A p \in Procs : fresh'[p] # fresh[p] =>
           fresh'[p] = newest + 1 /\ image[p] # None /\ t = Canon(CurrentExe(p))
  PROVE  IInv'
<1>. USE NoneAssumption
<1>0. DirOK /\ Typed /\ Versions /\ Unlinked /\ Led /\ newest \in Nat
  BY DEF IInv, DirOK
<1>1. /\ DirOK' /\ newest' = newest + 1 /\ newest + 1 \in Nat
      /\ dir'[t] = Binary(newest + 1)
      /\ \A n \in Names \ {t} : dir'[n] = dir[n]
  BY <1>0, InstallDir
<1>2. Binary(newest + 1) \in Files /\ Binary(newest + 1).version = newest + 1
  BY <1>1, Kinds
<1>3. \A n \in Names : dir[n] \in Files => dir[n] # Binary(newest + 1) /\ dir[n].version \in Nat
  BY <1>0, <1>2, Kinds DEF Versions
<1>4. Typed'
  BY <1>0 DEF Typed
<1>5. Versions'
  <2>1. \A n \in Names : dir'[n] \in Files => dir'[n].version <= newest'
    BY <1>0, <1>1, <1>2, <1>3 DEF Versions
  <2>2. \A m, n \in Names : dir'[m] \in Files /\ dir'[m] = dir'[n] => m = n
    BY <1>0, <1>1, <1>2, <1>3 DEF Versions
  <2>3. \A p \in Procs : image'[p] # None => image'[p] <= newest'
    BY <1>0, <1>1 DEF Versions, Typed
  <2>4. \A p \in Procs : fresh'[p] # None => fresh'[p] <= newest' /\ image'[p] # None
    BY <1>0, <1>1 DEF Versions, Typed
  <2>. QED
    BY <2>1, <2>2, <2>3, <2>4 DEF Versions
<1>6. Unlinked'
  <2>. SUFFICES ASSUME platform # "path", NEW p \in Procs, fresh'[p] # None, NEW n \in Names
               PROVE  dir'[n] # Binary(image[p])
    BY DEF Unlinked
  <2>1. image[p] # None /\ image[p] \in Nat /\ image[p] <= newest
    BY <1>0 DEF Versions, Typed
  <2>2. CASE n = t
    BY <1>0, <1>1, <2>1, <2>2, Kinds
  <2>3. CASE n # t /\ fresh'[p] = fresh[p]
    BY <1>0, <1>1, <2>3 DEF Unlinked
  <2>4. CASE n # t /\ fresh'[p] # fresh[p]
    <3>1. dir[t] = Binary(image[p])
      BY <1>0, <2>4, NamedFile, NoneAssumption DEF Names
    <3>2. dir[t] \in Files
      BY <2>1, <3>1, Kinds
    <3>3. dir[n] # dir[t]
      BY <1>0, <2>4, <3>2 DEF Versions
    <3>. QED
      BY <1>1, <2>4, <3>1, <3>3
  <2>. QED
    BY <2>2, <2>3, <2>4
<1>7. Led'
  <2>. SUFFICES ASSUME platform = "path" PROVE Led'
    BY DEF Led
  <2>1. "app" \in Names /\ "temp" \in Names /\ "link" \in Names /\ t \in {"app", "link"}
    BY DEF Names
  <2>2. ASSUME NEW p \in Procs, fresh'[p] # fresh[p]
        PROVE  /\ launched[p] = "app" => t = "app"
               /\ launched[p] = "link" /\ dir["link"] # Link => t = "link"
    <3>1. t = Canon(launched[p]) /\ t # None
      BY <2>1, <2>2 DEF CurrentExe
    <3>. QED
      BY <1>0, <3>1, CanonFile DEF DirOK
  <2>3. ASSUME NEW p \in Procs, fresh'[p] # None, ~undone
        PROVE  /\ launched[p] = "app" \/ dir'["link"] = Link => fresh'[p] <= AppVersion'
               /\ launched[p] = "link" /\ dir'["link"] # Link => fresh'[p] <= dir'["link"].version
    <3>1. fresh'[p] <= newest + 1
      BY <1>0, <1>1, <2>3 DEF Typed, Versions
    <3>2. CASE t = "app"
      <4>1. AppVersion' = newest + 1
        BY <1>1, <1>2, <3>2, Kinds DEF AppVersion
      <4>2. dir'["link"] = dir["link"]
        BY <1>1, <2>1, <3>2
      <4>3. launched[p] = "link" /\ dir["link"] # Link => fresh'[p] = fresh[p]
        BY <2>2, <3>2
      <4>. QED
        BY <1>0, <2>3, <3>1, <4>1, <4>2, <4>3 DEF Led
    <3>3. CASE t = "link"
      <4>1. dir'["link"].version = newest + 1 /\ dir'["link"] # Link
        BY <1>1, <1>2, <3>3, Kinds
      <4>2. AppVersion' = AppVersion
        BY <1>1, <2>1, <3>3 DEF AppVersion
      <4>3. launched[p] = "app" => fresh'[p] = fresh[p]
        BY <2>2, <3>3
      <4>. QED
        BY <1>0, <2>3, <3>1, <4>1, <4>2, <4>3 DEF Led
    <3>. QED
      BY <2>1, <3>2, <3>3
  <2>. QED
    BY <1>0, <2>3 DEF Led
<1>. QED
  BY <1>1, <1>4, <1>5, <1>6, <1>7 DEF IInv

(* A Move stashes app ..                                                   *)
LEMMA StashKeeps ==
  ASSUME IInv, dir["app"] # Missing,
         dir' = [dir EXCEPT !["temp"] = dir["app"], !["app"] = Missing],
         UNCHANGED <<platform, image, launched, updater, newest, fresh, undone>>
  PROVE  IInv'
<1>0. DirOK /\ Typed /\ Versions /\ Unlinked /\ Led
  BY DEF IInv
<1>1. DirOK' /\ dir'["temp"] = dir["app"] /\ dir'["app"] = Missing /\ dir'["link"] = dir["link"]
  BY <1>0, StashDir
<1>2. Names = {"app", "link", "temp"} /\ Missing \notin Files
  BY Kinds DEF Names
<1>3. Typed'
  BY <1>0 DEF Typed
<1>4. Versions'
  <2>1. \A n \in Names : dir'[n] \in Files => dir'[n].version <= newest
    BY <1>0, <1>1, <1>2 DEF Versions
  <2>2. ASSUME NEW m \in Names, NEW n \in Names, dir'[m] \in Files, dir'[m] = dir'[n]
        PROVE  m = n
    <3>1. m \in {"temp", "link"} /\ n \in {"temp", "link"}
      BY <1>1, <1>2, <2>2
    <3>2. dir["app"] \in Files => dir["app"] # dir["link"]
      BY <1>0, <1>2 DEF Versions
    <3>. QED
      BY <1>1, <2>2, <3>1, <3>2
  <2>. QED
    BY <1>0, <2>1, <2>2 DEF Versions
<1>5. Unlinked'
  BY <1>0, <1>1, <1>2, Kinds DEF Unlinked
<1>6. AppVersion' = AppVersion
  BY <1>1 DEF AppVersion
<1>7. Led'
  BY <1>0, <1>1, <1>6 DEF Led
<1>. QED
  BY <1>1, <1>3, <1>4, <1>5, <1>7 DEF IInv

(* .. and puts it back, perhaps over a later install.                      *)
LEMMA PutBackKeeps ==
  ASSUME IInv, dir["temp"] # Missing,
         dir' = [dir EXCEPT !["app"] = dir["temp"], !["temp"] = Missing],
         undone' = (undone \/ dir["app"] # Missing),
         UNCHANGED <<platform, image, launched, updater, newest, fresh>>
  PROVE  IInv'
<1>0. DirOK /\ Typed /\ Versions /\ Unlinked /\ Led
  BY DEF IInv
<1>1. DirOK' /\ dir'["app"] = dir["temp"] /\ dir'["temp"] = Missing /\ dir'["link"] = dir["link"]
  BY <1>0, PutBackDir
<1>2. Names = {"app", "link", "temp"} /\ Missing \notin Files
  BY Kinds DEF Names
<1>3. Typed'
  BY <1>0 DEF Typed
<1>4. Versions'
  <2>1. \A n \in Names : dir'[n] \in Files => dir'[n].version <= newest
    BY <1>0, <1>1, <1>2 DEF Versions
  <2>2. ASSUME NEW m \in Names, NEW n \in Names, dir'[m] \in Files, dir'[m] = dir'[n]
        PROVE  m = n
    <3>1. m \in {"app", "link"} /\ n \in {"app", "link"}
      BY <1>1, <1>2, <2>2
    <3>2. dir["temp"] \in Files => dir["temp"] # dir["link"]
      BY <1>0, <1>2 DEF Versions
    <3>. QED
      BY <1>1, <2>2, <3>1, <3>2
  <2>. QED
    BY <1>0, <2>1, <2>2 DEF Versions
<1>5. Unlinked'
  BY <1>0, <1>1, <1>2, Kinds DEF Unlinked
<1>6. ASSUME ~undone' PROVE ~undone /\ AppVersion' = AppVersion
  <2>1. ~undone /\ dir["app"] = Missing
    BY <1>6, Zenon
  <2>. QED
    BY <1>1, <2>1 DEF AppVersion
<1>7. Led'
  BY <1>0, <1>1, <1>6 DEF Led
<1>. QED
  BY <1>1, <1>3, <1>4, <1>5, <1>7 DEF IInv

(* A process starts, ends, or builds an updater.                           *)
LEMMA ProcessKeeps ==
  ASSUME IInv, UNCHANGED <<platform, dir, newest, undone>>, Typed', NEW p \in Procs,
         \A q \in Procs \ {p} : /\ image'[q] = image[q] /\ fresh'[q] = fresh[q]
                                /\ launched'[q] = launched[q] /\ updater'[q] = updater[q],
         image'[p] # None => image'[p] <= newest,
         \/ fresh'[p] = None
         \/ fresh'[p] = fresh[p] /\ image'[p] = image[p] /\ launched'[p] = launched[p],
         platform = "path" => launched'[p] # "temp" /\ updater'[p] \in {None, "app", "link"}
  PROVE  IInv'
<1>0. DirOK /\ Typed /\ Versions /\ Unlinked /\ Led
  BY DEF IInv
<1>1. DirOK' /\ AppVersion' = AppVersion
  BY <1>0 DEF DirOK, AppVersion
<1>2. Versions'
  BY <1>0 DEF Versions
<1>3. Unlinked'
  BY <1>0 DEF Unlinked
<1>4. Led'
  BY <1>0, <1>1 DEF Led
<1>. QED
  BY <1>1, <1>2, <1>3, <1>4 DEF IInv

(* current_exe() is one of the names, or says that the file is deleted.    *)
LEMMA WhereCurrentExeIs ==
  ASSUME NEW p \in Procs, Typed
  PROVE  CurrentExe(p) \in Names \union {"deleted"}
BY DEF CurrentExe, Typed

(* Update installs its target, and puts nothing at the stash where         *)
(* current_exe() is the path that the process was started by.              *)
LEMMA UpdateInstalls ==
  ASSUME IInv, NEW p \in Procs, Update(p)
  PROVE  IInv'
<1>. USE NoneAssumption
<1>0. DirOK /\ Typed /\ Versions /\ Led
  BY DEF IInv
<1>. DEFINE t == Target(p)
<1>1. /\ t \in Names /\ Install(t) /\ image[p] # None /\ updater[p] # None
      /\ UNCHANGED <<platform, image, launched, updater, undone>>
      /\ fresh' = [fresh EXCEPT ![p] = IF SameFile(updater[p], CurrentExe(p)) THEN newest + 1 ELSE @]
  BY DEF Update, Running
<1>2. t # None
  BY <1>1 DEF Names
<1>3. SameFile(updater[p], CurrentExe(p)) => t = Canon(CurrentExe(p))
  BY DEF Target, SelfReplaceTarget
<1>4. platform = "path" => t # "temp"
  <2>. SUFFICES ASSUME platform = "path" PROVE t # "temp"
    OBVIOUS
  <2>1. CurrentExe(p) # "temp" /\ updater[p] # "temp"
    BY <1>0, <1>1 DEF Led, CurrentExe
  <2>2. Canon(CurrentExe(p)) # None => Canon(CurrentExe(p)) # "temp"
    BY <1>0, <2>1, CanonFile
  <2>. QED
    BY <1>2, <2>1, <2>2 DEF Target, SelfReplaceTarget
<1>5. newest + 1 \in Nat
  BY <1>0 DEF DirOK
<1>6. /\ fresh' \in [Procs -> Nat \union {None}]
      /\ \A q \in Procs : fresh'[q] # fresh[q] =>
           fresh'[q] = newest + 1 /\ image[q] # None /\ t = Canon(CurrentExe(q))
  <2>. HIDE DEF t
  <2>. QED
    BY <1>0, <1>1, <1>3, <1>5 DEF Typed
<1>. HIDE DEF t
<1>. QED
  BY <1>1, <1>4, <1>6, InstallKeeps

(* Every step keeps it: one step of the proof for each action.             *)
LEMMA NextInvariant == IInv /\ [Next]_vars => IInv'
<1>. SUFFICES ASSUME IInv, [Next]_vars PROVE IInv'
  OBVIOUS
<1>. USE NoneAssumption
<1>0. DirOK /\ Typed /\ Versions /\ Unlinked /\ Led
  BY DEF IInv
<1>a. "app" \in Names /\ "link" \in Names
  BY DEF Names
<1>1. ASSUME UNCHANGED <<platform, dir, image, launched, updater, newest, fresh, undone>>
      PROVE  IInv'
  BY <1>0, <1>1 DEF IInv, DirOK, Typed, Versions, Unlinked, Led, AppVersion
<1>2. ASSUME Install("app"), UNCHANGED <<platform, image, launched, updater, fresh, undone>>
      PROVE  IInv'
  BY <1>0, <1>a, <1>2, InstallKeeps DEF Typed
<1>3. ASSUME NEW p \in Procs, Launch(p) PROVE IInv'
  <2>1. PICK n \in {"app", "link"} :
          /\ Runs(n) # None
          /\ image' = [image EXCEPT ![p] = Runs(n)]
          /\ launched' = [launched EXCEPT ![p] = n]
    BY <1>3 DEF Launch
  <2>2. Runs(n) \in Nat /\ Runs(n) <= newest
    <3>1. Canon(n) # None
      BY <2>1 DEF Runs
    <3>. QED
      BY <1>0, <3>1, CanonFile DEF Versions
  <2>3. Typed'
    BY <1>0, <1>3, <1>a, <2>1, <2>2 DEF Launch, Typed
  <2>4. fresh[p] = None
    BY <1>0, <1>3 DEF Launch, Versions
  <2>. QED
    BY <1>0, <1>3, <2>1, <2>2, <2>3, <2>4, ProcessKeeps DEF Launch, Typed, Led
<1>4. ASSUME NEW p \in Procs, Exit(p) PROVE IInv'
  <2>1. Typed'
    BY <1>0, <1>4 DEF Exit, Typed
  <2>. QED
    BY <1>0, <1>4, <2>1, ProcessKeeps DEF Exit, Typed, Led
<1>5. ASSUME NEW p \in Procs, Restart(p) PROVE IInv'
  <2>. DEFINE c == CurrentExe(p)
  <2>1. Canon(c) # None
    BY <1>5 DEF Restart, Runs
  <2>2. c \in Names /\ Runs(c) \in Nat /\ Runs(c) <= newest
    BY <1>0, <2>1, CanonFile DEF Versions
  <2>3. platform = "path" => c # "temp"
    BY <1>0 DEF CurrentExe, Led
  <2>4. /\ image' = [image EXCEPT ![p] = Runs(c)]
        /\ launched' = [launched EXCEPT ![p] = c]
        /\ updater' = [updater EXCEPT ![p] = None]
        /\ fresh' = [fresh EXCEPT ![p] = None]
        /\ UNCHANGED <<platform, dir, newest, undone>>
    BY <1>5 DEF Restart
  <2>. HIDE DEF c
  <2>5. Typed'
    BY <1>0, <2>2, <2>4 DEF Typed
  <2>. QED
    BY <1>0, <2>2, <2>3, <2>4, <2>5, ProcessKeeps DEF Typed, Led
<1>6. ASSUME NEW p \in Procs, RestartFails(p) PROVE IInv'
  BY <1>1, <1>6 DEF RestartFails
<1>7. ASSUME NEW p \in Procs, BuildUpdater(p) PROVE IInv'
  <2>1. PICK path \in {"app", "link", CurrentExe(p)} : updater' = [updater EXCEPT ![p] = path]
    BY <1>7 DEF BuildUpdater
  <2>2. path \in Names \union {"deleted"}
    BY <1>0, <1>a, WhereCurrentExeIs
  <2>3. platform = "path" => path \in {"app", "link"}
    BY <1>0 DEF CurrentExe, Led, Typed, Names
  <2>4. UNCHANGED <<platform, dir, image, launched, newest, fresh, undone>>
    BY <1>7 DEF BuildUpdater
  <2>5. Typed'
    BY <1>0, <2>1, <2>2, <2>4 DEF Typed
  <2>6. image'[p] # None => image'[p] <= newest
    BY <1>0, <2>4 DEF Versions
  <2>7. platform = "path" => launched'[p] # "temp" /\ updater'[p] \in {None, "app", "link"}
    BY <1>0, <2>1, <2>3, <2>4 DEF Led, Typed
  <2>. QED
    BY <1>0, <2>1, <2>4, <2>5, <2>6, <2>7, ProcessKeeps DEF Typed
<1>8. ASSUME NEW p \in Procs, Update(p) PROVE IInv'
  BY <1>8, UpdateInstalls
<1>9. ASSUME NEW p \in Procs, MoveStart(p) PROVE IInv'
  BY <1>1, <1>2, <1>9 DEF MoveStart
<1>10. ASSUME NEW p \in Procs, MoveAside(p) PROVE IInv'
  BY <1>1, <1>10, StashKeeps DEF MoveAside
<1>11. ASSUME NEW p \in Procs, MovePlace(p) PROVE IInv'
  BY <1>2, <1>11 DEF MovePlace
<1>12. ASSUME NEW p \in Procs, MovePlaceFails(p) PROVE IInv'
  BY <1>1, <1>12 DEF MovePlaceFails
<1>13. ASSUME NEW p \in Procs, MoveUndo(p) PROVE IInv'
  BY <1>1, <1>13, PutBackKeeps DEF MoveUndo
<1>14. CASE UNCHANGED vars
  BY <1>1, <1>14 DEF vars
<1>. QED
  BY <1>3, <1>4, <1>5, <1>6, <1>7, <1>8, <1>9, <1>10, <1>11, <1>12, <1>13, <1>14 DEF Next

(* The names, the processes and the order of the versions stay consistent, *)
(* through every install, failed Move and exit.                            *)
THEOREM InductiveInvariant == Spec => []IInv
<1>. QED
  BY InitInvariant, NextInvariant, PTL DEF Spec

-----------------------------------------------------------------------------
(* No interleaving of installs, failures, roll-backs and exits, of however *)
(* many processes, leaves the disk without a binary that can be started or *)
(* put back (Move::to_dest, install_binary).                               *)
THEOREM BinaryIsKept == Spec => []BinaryKept
<1>1. IInv => BinaryKept
  <2>. SUFFICES ASSUME DirOK PROVE BinaryKept
    BY DEF IInv
  <2>1. dir["app"] \in Contents /\ dir["temp"] \in Contents
    BY DEF DirOK, Names
  <2>. QED
    BY <2>1, Kinds DEF DirOK, Contents, BinaryKept
<1>. QED
  BY <1>1, InductiveInvariant, PTL

(* A name that leads to where a binary is installed runs that binary.      *)
LEMMA InstallReaches ==
  ASSUME DirOK, NEW t \in Names, NEW n, Install(t), n = t \/ Canon(n) = t
  PROVE  Runs(n)' = newest'
<1>. USE NoneAssumption
<1>1. /\ newest' = newest + 1 /\ newest' \in Nat
      /\ dir'[t] = Binary(newest') /\ dir'[t].kind = "file" /\ dir'[t].version = newest'
      /\ dir'[t] # Link
      /\ \A m \in Names \ {t} : dir'[m] = dir[m]
  BY InstallDir, Kinds DEF DirOK
<1>2. n \in Names /\ t # None
  BY CanonFile DEF Names
<1>3. n # t => dir[n] = Link /\ t = "app"
  BY <1>2, CanonFile
<1>4. Canon(n)' = t
  BY <1>1, <1>2, <1>3 DEF Canon
<1>. QED
  BY <1>1, <1>2, <1>4 DEF Runs

(* An update lands where it was asked to, and reaches every name that led  *)
(* to the running program (same_file, install_binary).                     *)
THEOREM UpdateReaches == Spec => UpdateReachesEveryName
<1>. USE NoneAssumption
<1>1. ASSUME IInv, NEW p \in Procs, Update(p)
      PROVE  /\ Runs(updater[p])' = newest'
             /\ Runs(CurrentExe(p)) # None /\ Canon(updater[p]) = Canon(CurrentExe(p)) =>
                  \A n \in Names : Canon(n) = Canon(updater[p]) => Runs(n)' = newest'
  <2>. DEFINE t == Target(p)  u == updater[p]  c == CurrentExe(p)
  <2>1. DirOK /\ t \in Names /\ t # None /\ Install(t) /\ u' = u
    BY <1>1 DEF IInv, Update, Names
  <2>2. IF SameFile(u, c) THEN t = Canon(c) ELSE t = u
    BY DEF Target, SelfReplaceTarget
  <2>3. u = t \/ Canon(u) = t
    BY <2>1, <2>2 DEF SameFile
  <2>4. Runs(c) # None /\ Canon(u) = Canon(c) => t = Canon(u)
    BY <2>2 DEF SameFile, Runs
  <2>5. Runs(u)' = newest'
    <3>. HIDE DEF t, u, c
    <3>1. \A n : n = t \/ Canon(n) = t => Runs(n)' = newest'
      BY <2>1, InstallReaches
    <3>. QED
      BY <2>1, <2>3, <3>1
  <2>. QED
    BY <2>1, <2>4, <2>5, InstallReaches
<1>2. IInv /\ [Next]_vars =>
        [\A p \in Procs : Update(p) =>
           /\ Runs(updater[p])' = newest'
           /\ Runs(CurrentExe(p)) # None /\ Canon(updater[p]) = Canon(CurrentExe(p)) =>
                \A n \in Names : Canon(n) = Canon(updater[p]) => Runs(n)' = newest']_vars
  BY <1>1
<1>. QED
  BY <1>2, InductiveInvariant, PTL DEF Spec, UpdateReachesEveryName

(* A restart after an update never runs something older than the update,   *)
(* unless a Move that failed has put that back (restart_command).          *)
THEOREM RestartIsNeverStale == Spec => RestartNeverStale
<1>. USE NoneAssumption
<1>1. ASSUME IInv, NEW p \in Procs, fresh[p] # None, Restart(p), ~undone
      PROVE  image'[p] >= fresh[p]
  <2>. DEFINE c == CurrentExe(p)
  <2>0. DirOK /\ Typed /\ Versions /\ Unlinked /\ Led
    BY <1>1 DEF IInv
  <2>1. Canon(c) # None /\ image'[p] = Runs(c)
    BY <1>1, <2>0 DEF Restart, Runs, Typed
  <2>2. platform = "path"
    BY <1>1, <2>0, <2>1, NamedFile DEF Unlinked
  <2>3. c = launched[p] /\ c \in {"app", "link"}
    BY <2>0, <2>2 DEF CurrentExe, Typed, Led, Names
  <2>4. Runs(c) = dir[Canon(c)].version /\ dir[Canon(c)].kind = "file" /\ Runs(c) \in Nat /\ fresh[p] \in Nat
    BY <1>1, <2>0, <2>1, CanonFile DEF Typed
  <2>5. CASE c = "app" \/ dir["link"] = Link
    <3>1. Canon(c) = "app"
      BY <2>0, <2>1, <2>3, <2>5, CanonFile DEF DirOK
    <3>2. AppVersion = Runs(c)
      BY <2>4, <3>1, Kinds DEF AppVersion
    <3>. QED
      BY <1>1, <2>0, <2>1, <2>2, <2>3, <2>4, <2>5, <3>2 DEF Led
  <2>6. CASE c = "link" /\ dir["link"] # Link
    <3>1. Canon(c) = "link"
      BY <2>0, <2>1, <2>6, CanonFile
    <3>. QED
      BY <1>1, <2>0, <2>1, <2>2, <2>3, <2>4, <2>6, <3>1 DEF Led
  <2>. QED
    BY <2>3, <2>5, <2>6
<1>2. IInv /\ [Next]_vars =>
        [\A p \in Procs : fresh[p] # None /\ Restart(p) => image'[p] >= fresh[p] \/ undone]_vars
  BY <1>1
<1>. QED
  BY <1>2, InductiveInvariant, PTL DEF Spec, RestartNeverStale
=============================================================================
