------------------------------ MODULE MoveAll ------------------------------
(***************************************************************************)
(* self_update::MoveAll (src/lib.rs): the transactional install of a set   *)
(* of files.  A caller queues N moves (source -> dest) and calls commit,   *)
(* which for each move in turn stashes an existing destination in the      *)
(* temp directory and renames the source into place.  The first rename     *)
(* that fails undoes what was done, newest move first, and commit returns  *)
(* that failure.                                                           *)
(*                                                                         *)
(* One action is one system call of commit (or its failure), because the   *)
(* process can be killed between any two of them.  What a killed process   *)
(* leaves on disk is what the next process starts from; it may be given    *)
(* the same temp directory.                                                *)
(*                                                                         *)
(* The file system is three functions: the destinations, the stash slots   *)
(* of each temp directory, and the staged sources.  A rename moves a value *)
(* from one path to another, replacing what was there, and leaves the      *)
(* first path Absent.  Moves are numbered from 1 (the code counts from 0). *)
(***************************************************************************)
EXTENDS Naturals

CONSTANTS
  N,          \* number of queued moves
  Dests,      \* destination paths
  Dest,       \* Dest[m]: the destination of move m; two moves may share one
  Contents,   \* file contents
  New,        \* New[m]: the contents staged as the source of move m
  Links,      \* symbolic links whose target does not exist
  Absent,     \* no file at that path
  Temps       \* temp directories a caller may hand to from_temp

Moves == 1..N

(* What a path can hold. *)
Files == Contents \union Links \union {Absent}

ASSUME NAssumption == N \in Nat \ {0}
ASSUME DestAssumption == Dest \in [Moves -> Dests]
ASSUME NewAssumption == New \in [Moves -> Contents]
ASSUME FilesAssumption ==
  /\ Contents \intersect Links = {}
  /\ Absent \notin Contents \union Links

VARIABLES
  dest,     \* dest[d]: the file at destination d
  stash,    \* stash[t][m]: the file t/self_update-stash-(m-1)
  source,   \* source[m]: the staged file of move m
  pc,       \* where the process is in commit
  temp,     \* MoveAll::temp
  queued,   \* MoveAll::moves still holds the N moves
  cur,      \* the move being applied or undone
  kept,     \* the moves up to cur whose entry holds Some(stash)
  result,   \* what the commit that took the queue returned
  orig,     \* history: the destinations when this commit began
  logged    \* history: the destinations log::error! named in this commit

vars == <<dest, stash, source, pc, temp, queued, cur, kept, result, orig, logged>>

disk == <<dest, stash, source>>

(* Program points of commit: about to test dest.exists(), to stash the     *)
(* destination, to install the source, to put back the stash of the move   *)
(* that failed, and to undo the applied moves.                             *)
Running == {"check", "stash", "install", "restore", "undo"}

(* Path::exists follows symbolic links. *)
Exists(file) == file \in Contents

-----------------------------------------------------------------------------
Init ==
  /\ dest \in [Dests -> Files]
  /\ stash = [t \in Temps |-> [m \in Moves |-> Absent]]
  /\ source = [m \in Moves |-> Absent]
  /\ pc = "idle"
  /\ temp \in Temps
  /\ queued = FALSE
  /\ cur = 0
  /\ kept = {}
  /\ result = "none"
  /\ orig = dest
  /\ logged = {}

(* MoveAll::from_temp(t), then add(..) for every move, by a process that   *)
(* has just staged the new files.                                          *)
Build(t) ==
  /\ pc \notin Running
  /\ source' = New
  /\ temp' = t
  /\ queued' = TRUE
  /\ result' = "none"
  /\ pc' = "idle"
  /\ UNCHANGED <<dest, stash, cur, kept, orig, logged>>

(* Mutant of Commit: the queue is not taken.                               *)
CommitNotDraining ==
  /\ pc \in {"idle", "done", "drained"}
  /\ queued
  /\ cur' = 1
  /\ kept' = {}
  /\ orig' = dest
  /\ logged' = {}
  /\ pc' = "check"
  /\ UNCHANGED <<disk, temp, queued, result>>

(* commit takes the queue and starts on its first move.                    *)
Commit ==
  /\ pc \in {"idle", "done", "drained"}
  /\ queued
  /\ queued' = FALSE
  /\ cur' = 1
  /\ kept' = {}
  /\ orig' = dest
  /\ logged' = {}
  /\ pc' = "check"
  /\ UNCHANGED <<disk, temp, result>>

(* commit on a MoveAll whose queue an earlier commit took: the loop has no *)
(* iteration and commit returns Ok(()), whatever the earlier one returned. *)
CommitDrained ==
  /\ pc = "done"
  /\ ~queued
  /\ pc' = "drained"
  /\ UNCHANGED <<disk, temp, queued, cur, kept, result, orig, logged>>

(* Mutant of CheckDest: an existing destination is not stashed.            *)
CheckDestNot ==
  /\ pc = "check"
  /\ cur <= N
  /\ pc' = "install"
  /\ UNCHANGED <<disk, temp, queued, cur, kept, result, orig, logged>>

CheckDest ==
  /\ pc = "check"
  /\ cur <= N
  /\ pc' = IF Exists(dest[Dest[cur]]) THEN "stash" ELSE "install"
  /\ UNCHANGED <<disk, temp, queued, cur, kept, result, orig, logged>>

(* Mutant of Return: the loop stops before the last move.                  *)
ReturnEarly ==
  /\ pc = "check"
  /\ cur >= N
  /\ result' = "ok"
  /\ pc' = "done"
  /\ UNCHANGED <<disk, temp, queued, cur, kept, orig, logged>>

Return ==
  /\ pc = "check"
  /\ cur > N
  /\ result' = "ok"
  /\ pc' = "done"
  /\ UNCHANGED <<disk, temp, queued, cur, kept, orig, logged>>

(* fs::rename(dest, stash): replaces whatever an earlier run left there.   *)
Stash ==
  /\ pc = "stash"
  /\ dest[Dest[cur]] # Absent
  /\ stash' = [stash EXCEPT ![temp][cur] = dest[Dest[cur]]]
  /\ dest' = [dest EXCEPT ![Dest[cur]] = Absent]
  /\ kept' = kept \union {cur}
  /\ pc' = "install"
  /\ UNCHANGED <<source, temp, queued, cur, result, orig, logged>>

StashFails ==
  /\ pc = "stash"
  /\ cur' = cur - 1
  /\ pc' = "undo"
  /\ UNCHANGED <<disk, temp, queued, kept, result, orig, logged>>

(* fs::rename(source, dest), then applied.push.                            *)
Install ==
  /\ pc = "install"
  /\ source[cur] # Absent
  /\ dest' = [dest EXCEPT ![Dest[cur]] = source[cur]]
  /\ source' = [source EXCEPT ![cur] = Absent]
  /\ cur' = cur + 1
  /\ pc' = "check"
  /\ UNCHANGED <<stash, temp, queued, kept, result, orig, logged>>

(* Mutant of InstallFails: the failing move's own stash is not put back.   *)
InstallFailsOnly ==
  /\ pc = "install"
  /\ pc' = "undo"
  /\ cur' = cur - 1
  /\ UNCHANGED <<disk, temp, queued, kept, result, orig, logged>>

InstallFails ==
  /\ pc = "install"
  /\ IF cur \in kept
       THEN pc' = "restore" /\ UNCHANGED cur
       ELSE pc' = "undo" /\ cur' = cur - 1
  /\ UNCHANGED <<disk, temp, queued, kept, result, orig, logged>>

(* The failing move puts its own stash back before the earlier ones are    *)
(* rolled back.                                                            *)
RestoreOwn ==
  /\ pc = "restore"
  /\ stash[temp][cur] # Absent
  /\ dest' = [dest EXCEPT ![Dest[cur]] = stash[temp][cur]]
  /\ stash' = [stash EXCEPT ![temp][cur] = Absent]
  /\ cur' = cur - 1
  /\ pc' = "undo"
  /\ UNCHANGED <<source, temp, queued, kept, result, orig, logged>>

RestoreOwnFails ==
  /\ pc = "restore"
  /\ logged' = logged \union {Dest[cur]}
  /\ cur' = cur - 1
  /\ pc' = "undo"
  /\ UNCHANGED <<disk, temp, queued, kept, result, orig>>

(* Mutant of Undo: every entry is undone like a fresh install.             *)
UndoByRemoving ==
  /\ pc = "undo"
  /\ cur > 0
  /\ dest' = [dest EXCEPT ![Dest[cur]] = Absent]
  /\ cur' = cur - 1
  /\ UNCHANGED <<stash, source, pc, temp, queued, kept, result, orig, logged>>

(* rollback(&applied): one entry, newest first.  A displaced file is       *)
(* renamed back over the new one, a fresh one is removed.                  *)
Undo ==
  /\ pc = "undo"
  /\ cur > 0
  /\ IF cur \in kept
       THEN /\ stash[temp][cur] # Absent
            /\ dest' = [dest EXCEPT ![Dest[cur]] = stash[temp][cur]]
            /\ stash' = [stash EXCEPT ![temp][cur] = Absent]
       ELSE /\ dest[Dest[cur]] # Absent
            /\ dest' = [dest EXCEPT ![Dest[cur]] = Absent]
            /\ UNCHANGED stash
  /\ cur' = cur - 1
  /\ UNCHANGED <<source, pc, temp, queued, kept, result, orig, logged>>

UndoFails ==
  /\ pc = "undo"
  /\ cur > 0
  /\ logged' = logged \union {Dest[cur]}
  /\ cur' = cur - 1
  /\ UNCHANGED <<disk, pc, temp, queued, kept, result, orig>>

(* Mutant of ReturnError: the undo loop waits for an entry below the first.*)
ReturnErrorLate ==
  /\ pc = "undo"
  /\ cur < 0
  /\ result' = "err"
  /\ pc' = "done"
  /\ UNCHANGED <<disk, temp, queued, cur, kept, orig, logged>>

(* commit returns the error that started the rollback.                     *)
ReturnError ==
  /\ pc = "undo"
  /\ cur = 0
  /\ result' = "err"
  /\ pc' = "done"
  /\ UNCHANGED <<disk, temp, queued, cur, kept, orig, logged>>

(* The process is killed: its memory is gone, the disk stays.              *)
Crash ==
  /\ pc \in Running
  /\ pc' = "crashed"
  /\ UNCHANGED <<disk, temp, queued, cur, kept, result, orig, logged>>

-----------------------------------------------------------------------------
(* A step the process itself takes inside commit.                          *)
CommitStep ==
  \/ CheckDest \/ Return
  \/ Stash \/ StashFails
  \/ Install \/ InstallFails
  \/ RestoreOwn \/ RestoreOwnFails
  \/ Undo \/ UndoFails \/ ReturnError

Next ==
  \/ \E t \in Temps : Build(t)
  \/ Commit \/ CommitDrained
  \/ CommitStep
  \/ Crash

Spec == Init /\ [][Next]_vars

(* A process inside commit keeps running unless it is killed: commit waits *)
(* on nothing but system calls that return.                                *)
FairSpec == Spec /\ WF_vars(CommitStep)

-----------------------------------------------------------------------------
TypeOK ==
  /\ dest \in [Dests -> Files]
  /\ stash \in [Temps -> [Moves -> Files]]
  /\ source \in [Moves -> Files]
  /\ pc \in Running \union {"idle", "done", "drained", "crashed"}
  /\ temp \in Temps
  /\ queued \in BOOLEAN
  /\ cur \in 0..(N + 1)
  /\ kept \subseteq Moves
  /\ result \in {"none", "ok", "err"}
  /\ orig \in [Dests -> Files]
  /\ logged \subseteq Dests

(* What a reader of a path gets: following a dangling link finds nothing.  *)
Readable(file) == IF Exists(file) THEN file ELSE Absent

(* No later move has the destination of move m.                            *)
IsLast(m) == \A k \in Moves : Dest[k] = Dest[m] => k <= m

(* When commit has returned Ok, every destination holds what the last move *)
(* to it staged, and a destination no move names is what it was.           *)
AllInstalled ==
  result = "ok" =>
    /\ \A m \in Moves : IsLast(m) => dest[Dest[m]] = New[m]
    /\ \A d \in Dests : (\A m \in Moves : Dest[m] # d) => dest[d] = orig[d]

(* When commit has returned an error, a destination that does not read as  *)
(* it did before is one whose failed restore was logged.                   *)
RestoredUnlessLogged ==
  result = "err" =>
    \A d \in Dests \ logged : Readable(dest[d]) = Readable(orig[d])

(* Until commit returns Ok, the original of every destination still exists *)
(* on disk, at its place or in the temp directory: whatever fails, and     *)
(* wherever the process is killed.                                         *)
OriginalKept ==
  (pc \in Running \union {"crashed"} \/ result = "err") =>
    \A d \in Dests : Exists(orig[d]) =>
      \/ dest[d] = orig[d]
      \/ \E m \in Moves : stash[temp][m] = orig[d]

(* A file that was there before this commit and can now not be read.       *)
Hole(d) == Exists(orig[d]) /\ ~Exists(dest[d])

(* However far commit got, at most one destination is missing.             *)
AtMostOneHole == \A d, e \in Dests : Hole(d) /\ Hole(e) => d = e

(* Once a commit has returned, no later commit of the same MoveAll touches *)
(* a destination or a stashed original.                                    *)
CommitsOnce == [][result # "none" => UNCHANGED <<dest, stash>>]_vars

(* commit returns, whatever fails, unless the process is killed.           *)
CommitReturns == pc = "check" ~> pc \in {"done", "crashed"}
-----------------------------------------------------------------------------
(* The destinations as AtomicInstall's caller sees them: the old contents  *)
(* until commit has returned or the process is gone.                       *)
View == [d \in Dests |-> Readable(IF pc \in Running THEN orig[d] ELSE dest[d])]

Status ==
  CASE pc \in Running            -> "busy"
    [] pc = "crashed"            -> "dead"
    [] pc \in {"done", "drained"} -> result
    [] OTHER                     -> "idle"

Atomic == INSTANCE AtomicInstall WITH
            view <- View, status <- Status, warned <- logged

(* MoveAll does what AtomicInstall promises.                               *)
ImplementsAtomicInstall == Atomic!Spec

-----------------------------------------------------------------------------
(* The inductive invariant behind the properties above.                    *)

(* While the current move has its original in the temp directory and its   *)
(* destination empty.                                                      *)
Holding == pc \in {"install", "restore"} /\ cur \in kept

(* A move that has changed the disk and has not been undone.               *)
Open(m) ==
  \/ m < cur
  \/ m = cur /\ (pc = "undo" \/ Holding)

Untouched(d) == \A m \in Moves : Open(m) => Dest[m] # d

Incoming(d) == {New[m] : m \in {k \in Moves : Dest[k] = d}}

IsFirst(m) == \A k \in Moves : Dest[k] = Dest[m] => m <= k

(* Before anything has failed, the moves below cur are in place, the ones  *)
(* from cur on are staged, and at most the current destination is empty.   *)
ForwardInv ==
  pc \in {"check", "stash", "install", "restore"} =>
    /\ logged = {}
    /\ cur \in 1..(N + 1)
    /\ pc # "check" => cur \in Moves
    /\ \A m \in kept : m <= cur
    /\ pc \in {"check", "stash"} => cur \notin kept
    /\ pc = "stash" => Exists(dest[Dest[cur]])
    /\ pc = "install" /\ cur \notin kept => ~Exists(dest[Dest[cur]])
    /\ pc = "restore" => cur \in kept
    /\ Holding => dest[Dest[cur]] = Absent
    /\ \A m \in Moves : m >= cur => source[m] = New[m]
    /\ \A d \in Dests : Untouched(d) => dest[d] = orig[d]
    /\ \A m \in Moves : m < cur /\ ~(Holding /\ Dest[m] = Dest[cur]) =>
         /\ Exists(dest[Dest[m]])
         /\ (\A k \in Moves : k < cur /\ Dest[k] = Dest[m] => k <= m)
              => dest[Dest[m]] = New[m]
    /\ \A d \in Dests : Hole(d) => Holding /\ d = Dest[cur]

(* Undoing the open moves, newest first, gives the originals back: of the  *)
(* open moves to one destination the first is undone last, and what it     *)
(* displaced is the original.                                              *)
OpenInv ==
  pc \in Running =>
    \A m \in Moves : Open(m) =>
      /\ m \in kept => /\ stash[temp][m] \in Contents
                       /\ stash[temp][m] \in {orig[Dest[m]]} \union Incoming(Dest[m])
      /\ m \notin kept => ~Exists(orig[Dest[m]])
      /\ \E f \in Moves :
           /\ Open(f) /\ Dest[f] = Dest[m] /\ IsFirst(f)
           /\ f \in kept => stash[temp][f] = orig[Dest[f]]

UndoInv ==
  pc = "undo" =>
    /\ cur \in 0..N
    /\ \A d \in Dests \ logged : Untouched(d) => Readable(dest[d]) = Readable(orig[d])

(* Whenever the process may be killed: where the originals are, and what a *)
(* destination can hold.                                                   *)
CrashInv ==
  pc \in Running \union {"crashed"} \/ result = "err" =>
    \A d \in Dests :
      /\ Exists(orig[d]) =>
           \/ dest[d] = orig[d]
           \/ \E m \in kept : Dest[m] = d /\ stash[temp][m] = orig[d]
      /\ Readable(dest[d]) \in {Readable(orig[d]), Absent} \union Incoming(d)

ControlInv ==
  /\ pc \in {"done", "drained"} <=> result # "none"
  /\ queued => pc = "idle" /\ source = New

IInv ==
  /\ TypeOK
  /\ ControlInv
  /\ ForwardInv
  /\ OpenInv
  /\ UndoInv
  /\ CrashInv
  /\ AtMostOneHole
  /\ AllInstalled
  /\ RestoredUnlessLogged

=============================================================================
