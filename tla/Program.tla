------------------------------- MODULE Program -------------------------------
(***************************************************************************)
(* Running programs and the binary they run: what an update, a Move made   *)
(* by the program itself and a restart do to the names on disk and to the  *)
(* processes that were started from them.                                  *)
(*                                                                         *)
(* A program is installed as "app"; "link" is a symbolic link to it, and   *)
(* "temp" the path that Move::replace_using_temp stashes it at.  A binary  *)
(* is its version, in the order of installation: each makes a new file.    *)
(* What current_exe() says is the operating system's: on Linux the name    *)
(* that the running file has now, or "deleted" (`... (deleted)`) once it   *)
(* has none; elsewhere (macOS) the path that the process was started by.   *)
(***************************************************************************)
EXTENDS Integers

CONSTANTS
    Procs,        \* processes of the program
    Platforms,    \* a subset of {"linux", "path"}
    MaxVersion,   \* bound: no install is begun once this version is reached
    None

ASSUME BoundsAssumption == MaxVersion \in Nat
ASSUME NoneAssumption == None \notin Nat \union {"app", "link", "temp", "deleted"}

VARIABLES
    platform,     \* never changed
    dir,          \* what each name is
    image,        \* the version each process runs, or None
    launched,     \* the path each process was started by
    updater,      \* the install path of the process's updater, or None
    op,           \* where the process is inside its own Move
    newest,       \* the version installed last
    fresh,        \* the version update() put in place of the process's own binary
    undone,       \* a Move's rollback has overwritten a later install
    refused       \* processes whose last restart returned an error

vars == <<platform, dir, image, launched, updater, op, newest, fresh, undone, refused>>

Names   == {"app", "link", "temp"}
Binary(v) == [kind |-> "file", version |-> v]
Link    == [kind |-> "link"]
Missing == [kind |-> "none"]

\* canonicalize: the link leads to app; it fails where there is nothing.
Canon(n) ==
    LET target == IF n \in Names /\ dir[n] = Link THEN "app" ELSE n
    IN  IF target \in Names /\ dir[target].kind = "file" THEN target ELSE None

\* The version that starting the program by this name runs.
Runs(n) == IF Canon(n) = None THEN None ELSE dir[Canon(n)].version

CurrentExe(p) ==
    IF platform = "path" THEN launched[p]
    ELSE IF \E n \in Names : dir[n] = Binary(image[p])
         THEN CHOOSE n \in Names : dir[n] = Binary(image[p])
         ELSE "deleted"

\* The new file takes the place of whatever has the name.
Install(n) == /\ dir' = [dir EXCEPT ![n] = Binary(newest + 1)]
              /\ newest' = newest + 1

Running(p) == image[p] # None /\ op[p] = "idle"

-----------------------------------------------------------------------------
(* The updater.                                                            *)

\* Mutant of SameFile: the paths are compared as they are written.
SameFileRaw(a, c) == a = c

\* same_file: canonical paths, else the paths as written.
SameFile(a, c) ==
    IF Canon(a) # None /\ Canon(c) # None THEN Canon(a) = Canon(c) ELSE a = c

\* CommonBuilderConfig::build: an explicit install path, else current_exe().
BuildUpdater(p) ==
    /\ Running(p)
    /\ \E path \in {"app", "link", CurrentExe(p)} :
          updater' = [updater EXCEPT ![p] = path]
    /\ UNCHANGED <<platform, dir, image, launched, op, newest, fresh, undone, refused>>

\* Where self_replace writes: the running file, through a link.
SelfReplaceTarget(p) == Canon(CurrentExe(p))

\* Mutant of Target: the running program is moved over like any other path.
TargetMoved(p) == updater[p]

\* Where install_binary puts the new binary; None when it cannot.
Target(p) ==
    IF SameFile(updater[p], CurrentExe(p)) THEN SelfReplaceTarget(p) ELSE updater[p]

\* update() to the next version succeeds.  A name that canonicalizes to
\* nothing and is not current_exe() either is simply created.
Update(p) ==
    /\ Running(p) /\ updater[p] # None /\ newest < MaxVersion
    /\ Target(p) \in Names
    /\ Install(Target(p))
    /\ fresh' = [fresh EXCEPT ![p] =
                    IF SameFile(updater[p], CurrentExe(p)) THEN newest + 1 ELSE @]
    /\ UNCHANGED <<platform, image, launched, updater, op, undone, refused>>

-----------------------------------------------------------------------------
(* The program's own Move::from_source(new).replace_using_temp(temp).to_dest(app). *)

\* dest.exists(): with nothing to preserve the source is simply moved there.
MoveStart(p) ==
    /\ Running(p) /\ newest < MaxVersion
    /\ IF Canon("app") # None
       THEN /\ op' = [op EXCEPT ![p] = "aside"]
            /\ UNCHANGED <<dir, newest>>
       ELSE /\ Install("app")
            /\ UNCHANGED op
    /\ UNCHANGED <<platform, image, launched, updater, fresh, undone, refused>>

\* rename(dest, temp); it fails when another process has renamed it meanwhile.
MoveAside(p) ==
    /\ op[p] = "aside"
    /\ IF dir["app"] = Missing
       THEN /\ op' = [op EXCEPT ![p] = "idle"]
            /\ UNCHANGED dir
       ELSE /\ dir' = [dir EXCEPT !["temp"] = dir["app"], !["app"] = Missing]
            /\ op' = [op EXCEPT ![p] = "place"]
    /\ UNCHANGED <<platform, image, launched, updater, newest, fresh, undone, refused>>

\* rename(source, dest).
MovePlace(p) ==
    /\ op[p] = "place"
    /\ Install("app")
    /\ op' = [op EXCEPT ![p] = "idle"]
    /\ UNCHANGED <<platform, image, launched, updater, fresh, undone, refused>>

\* The rename fails: back to the previous binary is the next step.
MovePlaceFails(p) ==
    /\ op[p] = "place"
    /\ op' = [op EXCEPT ![p] = "undo"]
    /\ UNCHANGED <<platform, dir, image, launched, updater, newest, fresh, undone, refused>>

\* Mutant of MoveUndo: what is at the destination goes, whether or not the stash is there.
MoveUndoClears(p) ==
    /\ op[p] = "undo"
    /\ dir' = [dir EXCEPT !["app"] = dir["temp"], !["temp"] = Missing]
    /\ undone' = (undone \/ dir["app"] # Missing)
    /\ op' = [op EXCEPT ![p] = "idle"]
    /\ UNCHANGED <<platform, image, launched, updater, newest, fresh, refused>>

\* rename(temp, dest), which fails when temp is gone, or for any reason: the
\* error is returned and both names stay as they are.
MoveUndo(p) ==
    /\ op[p] = "undo"
    /\ \/ /\ dir["temp"] # Missing
          /\ dir' = [dir EXCEPT !["app"] = dir["temp"], !["temp"] = Missing]
          /\ undone' = (undone \/ dir["app"] # Missing)
       \/ UNCHANGED <<dir, undone>>
    /\ op' = [op EXCEPT ![p] = "idle"]
    /\ UNCHANGED <<platform, image, launched, updater, newest, fresh, refused>>

-----------------------------------------------------------------------------
(* Processes.                                                              *)

Launch(p) ==
    /\ image[p] = None
    /\ \E n \in {"app", "link"} :
          /\ Runs(n) # None
          /\ image' = [image EXCEPT ![p] = Runs(n)]
          /\ launched' = [launched EXCEPT ![p] = n]
    /\ UNCHANGED <<platform, dir, updater, op, newest, fresh, undone, refused>>

\* The process ends, at any step of what it is doing.
Exit(p) ==
    /\ image[p] # None
    /\ image' = [image EXCEPT ![p] = None]
    /\ op' = [op EXCEPT ![p] = "idle"]
    /\ updater' = [updater EXCEPT ![p] = None]
    /\ fresh' = [fresh EXCEPT ![p] = None]
    /\ refused' = refused \ {p}
    /\ UNCHANGED <<platform, dir, launched, newest, undone>>

\* restart: exec what current_exe() names.
Restart(p) ==
    /\ Running(p) /\ Runs(CurrentExe(p)) # None
    /\ image' = [image EXCEPT ![p] = Runs(CurrentExe(p))]
    /\ launched' = [launched EXCEPT ![p] = CurrentExe(p)]
    /\ updater' = [updater EXCEPT ![p] = None]
    /\ fresh' = [fresh EXCEPT ![p] = None]
    /\ refused' = refused \ {p}
    /\ UNCHANGED <<platform, dir, op, newest, undone>>

\* restart returns an error when there is no such file.
RestartFails(p) ==
    /\ Running(p) /\ Runs(CurrentExe(p)) = None
    /\ refused' = refused \cup {p}
    /\ UNCHANGED <<platform, dir, image, launched, updater, op, newest, fresh, undone>>

Init ==
    /\ platform \in Platforms
    /\ dir = [n \in Names |-> CASE n = "app" -> Binary(1) [] n = "link" -> Link
                                [] OTHER -> Missing]
    /\ image = [p \in Procs |-> None]
    /\ launched = [p \in Procs |-> "app"]
    /\ updater = [p \in Procs |-> None]
    /\ op = [p \in Procs |-> "idle"]
    /\ newest = 1
    /\ fresh = [p \in Procs |-> None]
    /\ undone = FALSE /\ refused = {}

Next == \E p \in Procs :
    \/ Launch(p) \/ Exit(p) \/ Restart(p) \/ RestartFails(p)
    \/ BuildUpdater(p) \/ Update(p)
    \/ MoveStart(p) \/ MoveAside(p) \/ MovePlace(p) \/ MovePlaceFails(p) \/ MoveUndo(p)

Spec == Init /\ [][Next]_vars

-----------------------------------------------------------------------------
\* No interleaving of installs, failures, roll-backs and exits leaves the
\* disk without a binary that can be started or put back: app or its stash
\* always holds one (Move::to_dest, install_binary).
BinaryKept == dir["app"].kind = "file" \/ dir["temp"].kind = "file"

\* An update lands where it was asked to: afterwards the install path runs
\* the new version, and when it named the running program, every name that
\* led to that program leads to the new one - the link survives
\* (same_file, install_binary).
UpdateReachesEveryName ==
    [][\A p \in Procs : Update(p) =>
         /\ Runs(updater[p])' = newest'
         /\ Runs(CurrentExe(p)) # None /\ Canon(updater[p]) = Canon(CurrentExe(p)) =>
              \A n \in Names : Canon(n) = Canon(updater[p]) => Runs(n)' = newest']_vars

\* A restart that succeeds after update() replaced the program runs what
\* was installed or something later, unless a Move that failed has put an
\* older binary back over the install (restart_command, restart_with).
RestartNeverStale ==
    [][\A p \in Procs : fresh[p] # None /\ Restart(p) =>
         image'[p] >= fresh[p] \/ undone]_vars

\* "Because the running executable was already replaced on disk, the restart
\* launches the updated binary": after an update of the running program, a
\* restart does not fail (restart.rs).
RestartRunsUpdated == \A p \in Procs : fresh[p] # None => p \notin refused

=============================================================================
