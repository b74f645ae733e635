--------------------------- MODULE AtomicInstall ---------------------------
(***************************************************************************)
(* What MoveAll promises its caller (the doc comment of MoveAll in         *)
(* src/lib.rs): an install of N files that happens as a whole or not at    *)
(* all.  The only exceptions are the ones the documentation names, and     *)
(* both are visible: a restore that fails is reported in the log, and a    *)
(* process killed inside commit leaves some of the moves applied, but      *)
(* never more than one file missing.                                       *)
(*                                                                         *)
(* What a caller sees of a destination is `view`: the contents it reads    *)
(* there, or Absent.  While a commit runs, nobody is entitled to see       *)
(* anything but the old contents.                                          *)
(***************************************************************************)
EXTENDS Naturals

CONSTANTS N, Dests, Dest, Contents, New, Absent

VARIABLES
  view,     \* view[d]: what a reader of destination d gets
  status,   \* "idle", "busy", "ok", "err" or "dead"
  warned    \* the destinations the log of this commit names

vars == <<view, status, warned>>

Moves == 1..N

Views == [Dests -> Contents \union {Absent}]

(* The contents a destination can hold because of this commit.             *)
Incoming(d) == {New[m] : m \in {k \in Moves : Dest[k] = d}}

Init ==
  /\ view \in Views
  /\ status = "idle"
  /\ warned = {}

(* A new MoveAll is built.                                                 *)
Prepare ==
  /\ status # "busy"
  /\ status' = "idle"
  /\ UNCHANGED <<view, warned>>

Begin ==
  /\ status = "idle"
  /\ status' = "busy"
  /\ warned' = {}
  /\ UNCHANGED view

(* All the files, or ..                                                    *)
Succeed ==
  /\ status = "busy"
  /\ status' = "ok"
  /\ view' \in Views
  /\ \A m \in Moves :
       (\A k \in Moves : Dest[k] = Dest[m] => k <= m) => view'[Dest[m]] = New[m]
  /\ \A d \in Dests : (\A m \in Moves : Dest[m] # d) => view'[d] = view[d]
  /\ UNCHANGED warned

(* .. none of them, but for the ones the log names.                        *)
Fail ==
  /\ status = "busy"
  /\ status' = "err"
  /\ view' \in Views
  /\ \A d \in Dests \ warned : view'[d] = view[d]
  /\ UNCHANGED warned

(* A restore failed.                                                       *)
Warn ==
  /\ status = "busy"
  /\ \E d \in Dests : warned' = warned \union {d}
  /\ UNCHANGED <<view, status>>

(* The process is killed inside commit.                                    *)
Die ==
  /\ status = "busy"
  /\ status' = "dead"
  /\ view' \in Views
  /\ \A d \in Dests : view'[d] \in {view[d], Absent} \union Incoming(d)
  /\ \A d, e \in Dests :
       /\ view[d] # Absent /\ view'[d] = Absent
       /\ view[e] # Absent /\ view'[e] = Absent
       => d = e
  /\ UNCHANGED warned

Next == Prepare \/ Begin \/ Succeed \/ Fail \/ Warn \/ Die

Spec == Init /\ [][Next]_vars
=============================================================================
