--------------------------- MODULE MoveAllProofs ---------------------------
(***************************************************************************)
(* Proofs about MoveAll: its inductive invariant IInv, the safety          *)
(* properties that follow from it, and that it implements AtomicInstall.   *)
(* They hold for any number of moves, for destinations several moves       *)
(* share, and for any pattern of failing system calls and kills.           *)
(***************************************************************************)
EXTENDS MoveAll, TLAPS

USE NAssumption, DestAssumption, NewAssumption, FilesAssumption

(* Staging the files of a new MoveAll touches no destination and no stash. *)
LEMMA BuildIInv ==
  ASSUME IInv, NEW t \in Temps, Build(t)
  PROVE  IInv'
<1>. USE DEF IInv, Build, Moves, Running, disk
<1>1. TypeOK' /\ ControlInv' /\ ForwardInv' /\ OpenInv' /\ UndoInv' /\ CrashInv' /\ AtMostOneHole' /\
      AllInstalled' /\ RestoredUnlessLogged'
  BY DEF TypeOK, Files, ControlInv, ForwardInv, OpenInv, UndoInv, CrashInv,
     AtMostOneHole, Hole, AllInstalled, RestoredUnlessLogged
<1>. QED
  BY <1>1

(* Taking the queue: nothing is open yet, and what is there is the         *)
(* original.                                                               *)
LEMMA CommitIInv ==
  ASSUME IInv, Commit
  PROVE  IInv'
<1>. USE DEF IInv, Commit, Moves, Running, disk
<1>1. ControlInv' /\ OpenInv' /\ UndoInv' /\ CrashInv' /\ AtMostOneHole' /\ AllInstalled' /\
      RestoredUnlessLogged'
  BY DEF ControlInv, TypeOK, OpenInv, Open, Holding, UndoInv, CrashInv, AtMostOneHole,
     Hole, AllInstalled, RestoredUnlessLogged
<1>2. TypeOK'
  <2>1. kept' \subseteq Moves /\ cur' \in 0..(N + 1) /\ pc' = "check"
    OBVIOUS
  <2>2. orig' \in [Dests -> Files] /\ logged' \subseteq Dests
    BY DEF TypeOK
  <2>. QED
    BY <2>1, <2>2 DEF TypeOK
<1>3. ForwardInv'
  BY DEF TypeOK, ForwardInv, Open, Holding, Untouched, Hole, Exists, Files, ControlInv
<1>. QED
  BY <1>1, <1>2, <1>3

(* A commit on an empty queue changes nothing on disk.                     *)
LEMMA CommitDrainedIInv ==
  ASSUME IInv, CommitDrained
  PROVE  IInv'
<1>. USE DEF IInv, CommitDrained, Moves, Running, disk
<1>1. TypeOK' /\ ControlInv' /\ ForwardInv' /\ OpenInv' /\ UndoInv' /\ CrashInv' /\ AtMostOneHole' /\
      AllInstalled' /\ RestoredUnlessLogged'
  BY DEF TypeOK, ControlInv, ForwardInv, OpenInv, UndoInv, CrashInv, AtMostOneHole,
     Hole, AllInstalled, RestoredUnlessLogged
<1>. QED
  BY <1>1

(* Whether the destination exists decides if its original must be stashed. *)
LEMMA CheckDestIInv ==
  ASSUME IInv, CheckDest
  PROVE  IInv'
<1>. USE DEF IInv, CheckDest, Moves, Running, disk
<1>1. TypeOK' /\ ControlInv' /\ UndoInv' /\ CrashInv' /\ AtMostOneHole' /\ AllInstalled' /\
      RestoredUnlessLogged'
  BY DEF TypeOK, ControlInv, UndoInv, CrashInv, AtMostOneHole, Hole, AllInstalled,
     RestoredUnlessLogged
<1>2. ForwardInv'
  BY DEF TypeOK, ForwardInv, Open, Holding, Untouched, Hole
<1>3. OpenInv'
  BY DEF TypeOK, ForwardInv, OpenInv, Open, Holding, Incoming
<1>. QED
  BY <1>1, <1>2, <1>3

(* Every move is below cur: what ForwardInv says of them is AllInstalled.  *)
LEMMA ReturnIInv ==
  ASSUME IInv, Return
  PROVE  IInv'
<1>. USE DEF IInv, Return, Moves, Running, disk
<1>1. TypeOK' /\ ControlInv' /\ ForwardInv' /\ OpenInv' /\ UndoInv' /\ CrashInv' /\ AtMostOneHole' /\
      RestoredUnlessLogged'
  BY DEF TypeOK, ControlInv, ForwardInv, OpenInv, UndoInv, CrashInv, AtMostOneHole,
     Hole, RestoredUnlessLogged
<1>2. AllInstalled'
  BY DEF ControlInv, AllInstalled, ForwardInv, TypeOK, Holding, Untouched, Open, IsLast
<1>. QED
  BY <1>1, <1>2

(* The displaced file is the original unless an open move to the same      *)
(* destination already holds it.                                           *)
LEMMA StashIInv ==
  ASSUME IInv, Stash
  PROVE  IInv'
<1>. USE DEF IInv, Stash, Moves, Running, disk
<1>1. ControlInv' /\ UndoInv' /\ AllInstalled' /\ RestoredUnlessLogged'
  BY DEF ControlInv, UndoInv, AllInstalled, RestoredUnlessLogged
<1>2. TypeOK'
  BY DEF TypeOK, ForwardInv, Files
<1>3. ForwardInv'
  BY DEF TypeOK, ForwardInv, Open, Holding, Untouched, Hole
<1>4. OpenInv'
  <2>1. SUFFICES ASSUME NEW m \in Moves, Open(m)'
                 PROVE  /\ m \in kept' =>
                             /\ stash'[temp'][m] \in Contents
                             /\ stash'[temp'][m] \in {orig'[Dest[m]]} \union Incoming(Dest[m])
                        /\ m \notin kept' => ~Exists(orig'[Dest[m]])
                        /\ \E f \in Moves :
                             /\ Open(f)' /\ Dest[f] = Dest[m] /\ IsFirst(f)
                             /\ f \in kept' => stash'[temp'][f] = orig'[Dest[f]]
    BY DEF OpenInv, Incoming, IsFirst, Exists
  <2>2. cur \in Moves /\ cur \notin kept /\ dest[Dest[cur]] \in Contents
    BY DEF ForwardInv, Exists
  <2>3. CASE m # cur
    <3>1. m < cur /\ Open(m)
      BY <2>1, <2>3 DEF TypeOK, Open, Holding
    <3>2. PICK f \in Moves : /\ Open(f) /\ Dest[f] = Dest[m] /\ IsFirst(f)
                             /\ f \in kept => stash[temp][f] = orig[Dest[f]]
      BY <3>1 DEF OpenInv
    <3>3. f < cur /\ Open(f)'
      BY <3>1, <3>2 DEF TypeOK, Open, IsFirst
    <3>4. \A k \in Moves : k # cur =>
            stash'[temp'][k] = stash[temp][k] /\ (k \in kept' <=> k \in kept)
      BY <2>2 DEF TypeOK
    <3>5. /\ m \in kept => /\ stash[temp][m] \in Contents
                           /\ stash[temp][m] \in {orig[Dest[m]]} \union Incoming(Dest[m])
          /\ m \notin kept => ~Exists(orig[Dest[m]])
      BY <3>1 DEF OpenInv
    <3>6. f \in kept' => stash'[temp'][f] = orig'[Dest[f]]
      BY <2>2, <3>2, <3>3, <3>4 DEF TypeOK
    <3>7. /\ m \in kept' => /\ stash'[temp'][m] \in Contents
                            /\ stash'[temp'][m] \in {orig'[Dest[m]]} \union Incoming(Dest[m])
          /\ m \notin kept' => ~Exists(orig'[Dest[m]])
      BY <2>3, <3>4, <3>5
    <3>. QED
      BY <3>2, <3>3, <3>6, <3>7
  <2>4. CASE m = cur
    <3>1. stash'[temp'][m] = dest[Dest[cur]] /\ m \in kept'
      BY <2>2, <2>4 DEF TypeOK
    <3>2. dest[Dest[cur]] \in {orig[Dest[cur]]} \union Incoming(Dest[cur])
      <4>1. Readable(dest[Dest[cur]])
              \in {Readable(orig[Dest[cur]]), Absent} \union Incoming(Dest[cur])
        BY <2>2 DEF CrashInv
      <4>. QED
        BY <2>2, <4>1 DEF Readable, Exists
    <3>3. CASE Untouched(Dest[cur])
      <4>1. dest[Dest[cur]] = orig[Dest[cur]]
        BY <2>2, <3>3 DEF ForwardInv
      <4>2. IsFirst(cur)
        BY <2>2, <3>3 DEF Untouched, Open, IsFirst
      <4>3. Open(cur)'
        BY <2>1, <2>4
      <4>. QED
        BY <2>2, <2>4, <3>1, <3>2, <4>1, <4>2, <4>3
    <3>4. CASE ~Untouched(Dest[cur])
      <4>1. PICK k \in Moves : Open(k) /\ Dest[k] = Dest[cur]
        BY <3>4 DEF Untouched
      <4>2. PICK f \in Moves : /\ Open(f) /\ Dest[f] = Dest[k] /\ IsFirst(f)
                               /\ f \in kept => stash[temp][f] = orig[Dest[f]]
        BY <4>1 DEF OpenInv
      <4>3. f < cur /\ Open(f)'
        BY <4>2 DEF TypeOK, Open, Holding
      <4>4. f \in kept' => stash'[temp'][f] = orig'[Dest[f]]
        BY <2>2, <4>2, <4>3 DEF TypeOK
      <4>. QED
        BY <2>2, <2>4, <3>1, <3>2, <4>1, <4>2, <4>3, <4>4
    <3>. QED
      BY <3>3, <3>4
  <2>. QED
    BY <2>3, <2>4
<1>5. CrashInv'
  BY DEF ForwardInv, CrashInv, TypeOK, Exists, Readable
<1>6. AtMostOneHole'
  BY DEF ForwardInv, AtMostOneHole, Hole, Exists
<1>. QED
  BY <1>1, <1>2, <1>3, <1>4, <1>5, <1>6

(* A stash that fails leaves the moves below cur to undo.                  *)
LEMMA StashFailsIInv ==
  ASSUME IInv, StashFails
  PROVE  IInv'
<1>. USE DEF IInv, StashFails, Moves, Running, disk
<1>1. ControlInv' /\ ForwardInv' /\ OpenInv' /\ CrashInv' /\ AtMostOneHole' /\ AllInstalled' /\
      RestoredUnlessLogged'
  BY DEF ControlInv, ForwardInv, TypeOK, OpenInv, Open, Holding, CrashInv,
     AtMostOneHole, Hole, AllInstalled, RestoredUnlessLogged
<1>2. TypeOK'
  BY DEF TypeOK, ForwardInv, Files
<1>3. UndoInv'
  BY DEF UndoInv, TypeOK, ForwardInv, Open, Holding, Untouched
<1>. QED
  BY <1>1, <1>2, <1>3

(* A move that displaced nothing is the first to its destination, which    *)
(* had no original.                                                        *)
LEMMA InstallIInv ==
  ASSUME IInv, Install
  PROVE  IInv'
<1>. USE DEF IInv, Install, Moves, Running, disk
<1>1. ControlInv' /\ UndoInv' /\ AllInstalled' /\ RestoredUnlessLogged'
  BY DEF ControlInv, UndoInv, AllInstalled, RestoredUnlessLogged
<1>2. TypeOK'
  BY DEF TypeOK, ForwardInv, Files
<1>3. ForwardInv'
  BY DEF TypeOK, ForwardInv, Open, Holding, Untouched, Hole, Exists, Files, ControlInv
<1>4. OpenInv'
  <2>1. SUFFICES ASSUME NEW m \in Moves, Open(m)'
                 PROVE  /\ m \in kept' =>
                             /\ stash'[temp'][m] \in Contents
                             /\ stash'[temp'][m] \in {orig'[Dest[m]]} \union Incoming(Dest[m])
                        /\ m \notin kept' => ~Exists(orig'[Dest[m]])
                        /\ \E f \in Moves :
                             /\ Open(f)' /\ Dest[f] = Dest[m] /\ IsFirst(f)
                             /\ f \in kept' => stash'[temp'][f] = orig'[Dest[f]]
    BY DEF OpenInv, Incoming, IsFirst, Exists
  <2>2. CASE Open(m)
    <3>1. PICK f \in Moves : /\ Open(f) /\ Dest[f] = Dest[m] /\ IsFirst(f)
                             /\ f \in kept => stash[temp][f] = orig[Dest[f]]
      BY <2>2 DEF OpenInv
    <3>2. Open(f)'
      BY <3>1 DEF TypeOK, Open, Holding
    <3>. QED
      BY <2>2, <3>1, <3>2 DEF OpenInv
  <2>3. CASE ~Open(m)
    <3>1. m = cur /\ cur \notin kept
      BY <2>1, <2>3 DEF TypeOK, Open, Holding
    <3>2. ~Exists(dest[Dest[cur]]) /\ ~Exists(orig[Dest[cur]])
      BY <3>1 DEF ForwardInv, Holding, Hole
    <3>3. IsFirst(cur)
      BY <3>1, <3>2 DEF ForwardInv, TypeOK, Holding, IsFirst
    <3>. QED
      BY <2>1, <3>1, <3>2, <3>3
  <2>. QED
    BY <2>2, <2>3
<1>5. CrashInv'
  BY DEF ForwardInv, CrashInv, TypeOK, Exists, Readable, Holding, Open, OpenInv,
     Incoming, Hole, Files
<1>6. AtMostOneHole'
  BY DEF ForwardInv, AtMostOneHole, Hole, Exists
<1>. QED
  BY <1>1, <1>2, <1>3, <1>4, <1>5, <1>6

(* A failed install with nothing stashed leaves the moves below cur to     *)
(* undo.                                                                   *)
LEMMA InstallFailsIInv ==
  ASSUME IInv, InstallFails
  PROVE  IInv'
<1>. USE DEF IInv, InstallFails, Moves, Running, disk
<1>1. ControlInv' /\ CrashInv' /\ AtMostOneHole' /\ AllInstalled' /\ RestoredUnlessLogged'
  BY DEF ControlInv, CrashInv, AtMostOneHole, Hole, AllInstalled, RestoredUnlessLogged
<1>2. TypeOK'
  BY DEF TypeOK, ForwardInv, Files
<1>3. ForwardInv'
  BY DEF TypeOK, ForwardInv, Open, Holding, Untouched, Hole
<1>4. OpenInv'
  BY DEF TypeOK, ForwardInv, OpenInv, Open, Holding, Incoming, Exists, Untouched,
     IsFirst, Hole
<1>5. UndoInv'
  BY DEF UndoInv, TypeOK, ForwardInv, OpenInv, Open, Holding, Untouched, Readable,
     Exists
<1>. QED
  BY <1>1, <1>2, <1>3, <1>4, <1>5

(* The failing move's own stash goes back before the earlier moves are     *)
(* undone.                                                                 *)
LEMMA RestoreOwnIInv ==
  ASSUME IInv, RestoreOwn
  PROVE  IInv'
<1>. USE DEF IInv, RestoreOwn, Moves, Running, disk
<1>1. ControlInv' /\ ForwardInv' /\ AllInstalled' /\ RestoredUnlessLogged'
  BY DEF ControlInv, ForwardInv, AllInstalled, RestoredUnlessLogged
<1>2. TypeOK'
  BY DEF TypeOK, ForwardInv, Files
<1>3. OpenInv'
  <2>1. SUFFICES ASSUME NEW m \in Moves, Open(m)'
                 PROVE  /\ m \in kept' =>
                             /\ stash'[temp'][m] \in Contents
                             /\ stash'[temp'][m] \in {orig'[Dest[m]]} \union Incoming(Dest[m])
                        /\ m \notin kept' => ~Exists(orig'[Dest[m]])
                        /\ \E f \in Moves :
                             /\ Open(f)' /\ Dest[f] = Dest[m] /\ IsFirst(f)
                             /\ f \in kept' => stash'[temp'][f] = orig'[Dest[f]]
    BY DEF OpenInv, Incoming, IsFirst, Exists
  <2>2. m < cur /\ Open(m)
    BY <2>1 DEF TypeOK, Open, Holding
  <2>3. PICK f \in Moves : /\ Open(f) /\ Dest[f] = Dest[m] /\ IsFirst(f)
                           /\ f \in kept => stash[temp][f] = orig[Dest[f]]
    BY <2>2 DEF OpenInv
  <2>4. f <= m
    BY <2>3 DEF IsFirst
  <2>5. Open(f)'
    BY <2>2, <2>4 DEF TypeOK, Open
  <2>6. stash'[temp'][m] = stash[temp][m] /\ stash'[temp'][f] = stash[temp][f]
    BY <2>2, <2>4 DEF TypeOK
  <2>. QED
    BY <2>2, <2>3, <2>5, <2>6 DEF OpenInv
<1>4. UndoInv'
  BY DEF UndoInv, TypeOK, ForwardInv, OpenInv, Open, Holding, Untouched, Readable,
     Exists
<1>5. CrashInv'
  BY DEF ForwardInv, CrashInv, TypeOK, Exists, Readable, Holding, Open, OpenInv,
     Incoming, Hole, Files
<1>6. AtMostOneHole'
  BY DEF ForwardInv, AtMostOneHole, Hole, Exists
<1>. QED
  BY <1>1, <1>2, <1>3, <1>4, <1>5, <1>6

(* If that restore fails the destination is logged and its original stays  *)
(* stashed.                                                                *)
LEMMA RestoreOwnFailsIInv ==
  ASSUME IInv, RestoreOwnFails
  PROVE  IInv'
<1>. USE DEF IInv, RestoreOwnFails, Moves, Running, disk
<1>1. ControlInv' /\ ForwardInv' /\ CrashInv' /\ AtMostOneHole' /\ AllInstalled' /\
      RestoredUnlessLogged'
  BY DEF ControlInv, ForwardInv, CrashInv, AtMostOneHole, Hole, AllInstalled,
     RestoredUnlessLogged
<1>2. TypeOK'
  BY DEF TypeOK, ForwardInv, Files
<1>3. OpenInv'
  <2>1. SUFFICES ASSUME NEW m \in Moves, Open(m)'
                 PROVE  /\ m \in kept' =>
                             /\ stash'[temp'][m] \in Contents
                             /\ stash'[temp'][m] \in {orig'[Dest[m]]} \union Incoming(Dest[m])
                        /\ m \notin kept' => ~Exists(orig'[Dest[m]])
                        /\ \E f \in Moves :
                             /\ Open(f)' /\ Dest[f] = Dest[m] /\ IsFirst(f)
                             /\ f \in kept' => stash'[temp'][f] = orig'[Dest[f]]
    BY DEF OpenInv, Incoming, IsFirst, Exists
  <2>2. m < cur /\ Open(m)
    BY <2>1 DEF TypeOK, Open, Holding
  <2>3. PICK f \in Moves : /\ Open(f) /\ Dest[f] = Dest[m] /\ IsFirst(f)
                           /\ f \in kept => stash[temp][f] = orig[Dest[f]]
    BY <2>2 DEF OpenInv
  <2>4. f <= m
    BY <2>3 DEF IsFirst
  <2>5. Open(f)'
    BY <2>2, <2>4 DEF TypeOK, Open
  <2>6. stash'[temp'][m] = stash[temp][m] /\ stash'[temp'][f] = stash[temp][f]
    BY <2>2, <2>4 DEF TypeOK
  <2>. QED
    BY <2>2, <2>3, <2>5, <2>6 DEF OpenInv
<1>4. UndoInv'
  BY DEF UndoInv, TypeOK, ForwardInv, Open, Holding, Untouched
<1>. QED
  BY <1>1, <1>2, <1>3, <1>4

(* Undoing the newest open move: if it was the first to its destination,   *)
(* the original is back.                                                   *)
LEMMA UndoIInv ==
  ASSUME IInv, Undo
  PROVE  IInv'
<1>. USE DEF IInv, Undo, Moves, Running, disk
<1>1. ControlInv' /\ ForwardInv' /\ AllInstalled' /\ RestoredUnlessLogged'
  BY DEF ControlInv, ForwardInv, AllInstalled, RestoredUnlessLogged
<1>2. TypeOK'
  <2>1. cur \in Moves /\ Dest[cur] \in Dests
    BY DEF UndoInv
  <2>2. CASE cur \in kept
    <3>1. stash[temp][cur] \in Files
      BY <2>1 DEF TypeOK
    <3>2. dest' \in [Dests -> Files]
      BY <2>2, <3>1 DEF TypeOK
    <3>3. stash' \in [Temps -> [Moves -> Files]]
      <4>1. stash' = [stash EXCEPT ![temp] = [stash[temp] EXCEPT ![cur] = Absent]]
        BY <2>2
      <4>2. temp \in Temps /\ stash[temp] \in [Moves -> Files] /\ Absent \in Files
        BY DEF TypeOK, Files
      <4>3. [stash[temp] EXCEPT ![cur] = Absent] \in [Moves -> Files]
        BY <4>2
      <4>. QED
        BY <4>1, <4>2, <4>3 DEF TypeOK
    <3>. QED
      BY <2>1, <3>2, <3>3 DEF TypeOK
  <2>3. CASE cur \notin kept
    BY <2>1, <2>3 DEF TypeOK, Files
  <2>. QED
    BY <2>2, <2>3
<1>3. OpenInv'
  <2>1. SUFFICES ASSUME NEW m \in Moves, Open(m)'
                 PROVE  /\ m \in kept' =>
                             /\ stash'[temp'][m] \in Contents
                             /\ stash'[temp'][m] \in {orig'[Dest[m]]} \union Incoming(Dest[m])
                        /\ m \notin kept' => ~Exists(orig'[Dest[m]])
                        /\ \E f \in Moves :
                             /\ Open(f)' /\ Dest[f] = Dest[m] /\ IsFirst(f)
                             /\ f \in kept' => stash'[temp'][f] = orig'[Dest[f]]
    BY DEF OpenInv, Incoming, IsFirst, Exists
  <2>2. m < cur /\ Open(m)
    BY <2>1 DEF TypeOK, Open, Holding
  <2>3. PICK f \in Moves : /\ Open(f) /\ Dest[f] = Dest[m] /\ IsFirst(f)
                           /\ f \in kept => stash[temp][f] = orig[Dest[f]]
    BY <2>2 DEF OpenInv
  <2>4. f <= m
    BY <2>3 DEF IsFirst
  <2>5. Open(f)'
    BY <2>2, <2>4 DEF TypeOK, Open
  <2>6. stash'[temp'][m] = stash[temp][m] /\ stash'[temp'][f] = stash[temp][f]
    BY <2>2, <2>4 DEF TypeOK
  <2>. QED
    BY <2>2, <2>3, <2>5, <2>6 DEF OpenInv
<1>4. UndoInv'
  <2>1. SUFFICES ASSUME NEW d \in Dests, d \notin logged, Untouched(d)'
                 PROVE  Readable(dest'[d]) = Readable(orig[d])
    BY DEF UndoInv, Readable, Exists
  <2>2. cur \in Moves /\ Open(cur)
    BY DEF UndoInv, Open
  <2>3. CASE d # Dest[cur]
    <3>1. Untouched(d)
      BY <2>1, <2>2, <2>3 DEF Untouched, Open
    <3>2. dest'[d] = dest[d]
      BY <2>3 DEF TypeOK
    <3>. QED
      BY <2>1, <3>1, <3>2 DEF UndoInv
  <2>4. CASE d = Dest[cur]
    <3>1. PICK f \in Moves : /\ Open(f) /\ Dest[f] = Dest[cur] /\ IsFirst(f)
                             /\ f \in kept => stash[temp][f] = orig[Dest[f]]
      BY <2>2 DEF OpenInv
    <3>2. f = cur
      BY <2>1, <2>2, <2>4, <3>1 DEF Untouched, Open
    <3>3. CASE cur \in kept
      BY <2>2, <2>4, <3>1, <3>2, <3>3 DEF TypeOK
    <3>4. CASE cur \notin kept
      <4>1. ~Exists(orig[d])
        BY <2>2, <2>4, <3>4 DEF OpenInv
      <4>. QED
        BY <2>4, <3>4, <4>1 DEF TypeOK, Readable, Exists
    <3>. QED
      BY <3>3, <3>4
  <2>. QED
    BY <2>3, <2>4
<1>5. CrashInv'
  <2>1. cur \in Moves /\ Open(cur) /\ Dest[cur] \in Dests
    BY DEF UndoInv, Open
  <2>2. ASSUME NEW d \in Dests, d # Dest[cur]
        PROVE  /\ Exists(orig[d]) =>
                    \/ dest'[d] = orig[d]
                    \/ \E m \in kept : Dest[m] = d /\ stash'[temp][m] = orig[d]
               /\ Readable(dest'[d]) \in {Readable(orig[d]), Absent} \union Incoming(d)
    <3>1. dest'[d] = dest[d]
      BY <2>2 DEF TypeOK
    <3>2. \A m \in kept : Dest[m] = d => stash'[temp][m] = stash[temp][m]
      BY <2>2 DEF TypeOK
    <3>. QED
      BY <2>2, <3>1, <3>2 DEF CrashInv
  <2>3. ASSUME NEW d, d = Dest[cur], Exists(orig[d])
        PROVE  \/ dest'[d] = orig[d]
               \/ \E m \in kept : Dest[m] = d /\ stash'[temp][m] = orig[d]
    <3>1. cur \in kept
      BY <2>1, <2>3 DEF OpenInv
    <3>2. PICK f \in Moves : /\ Open(f) /\ Dest[f] = d /\ IsFirst(f)
                             /\ f \in kept => stash[temp][f] = orig[Dest[f]]
      BY <2>1, <2>3 DEF OpenInv
    <3>3. f \in kept
      BY <2>3, <3>2 DEF OpenInv
    <3>4. CASE f = cur
      BY <2>1, <2>3, <3>1, <3>2, <3>4 DEF TypeOK
    <3>5. CASE f # cur
      BY <2>1, <3>1, <3>2, <3>3, <3>5 DEF TypeOK
    <3>. QED
      BY <3>4, <3>5
  <2>4. ASSUME NEW d, d = Dest[cur]
        PROVE  Readable(dest'[d]) \in {Readable(orig[d]), Absent} \union Incoming(d)
    <3>1. CASE cur \in kept
      <4>1. dest'[d] = stash[temp][cur]
        BY <2>1, <2>4, <3>1 DEF TypeOK
      <4>2. stash[temp][cur] \in Contents /\ stash[temp][cur] \in {orig[d]} \union Incoming(d)
        BY <2>1, <2>4, <3>1 DEF OpenInv
      <4>. QED
        BY <4>1, <4>2 DEF Readable, Exists
    <3>2. CASE cur \notin kept
      BY <2>1, <2>4, <3>2 DEF TypeOK, Readable, Exists
    <3>. QED
      BY <3>1, <3>2
  <2>. QED
    BY <2>2, <2>3, <2>4 DEF CrashInv, Exists, Readable, Incoming
<1>6. AtMostOneHole'
  <2>1. cur \in Moves /\ Open(cur) /\ Dest[cur] \in Dests
    BY DEF UndoInv, Open
  <2>2. ASSUME NEW d \in Dests, Hole(d)'
        PROVE  Hole(d)
    <3>1. CASE d # Dest[cur]
      BY <2>2, <3>1 DEF TypeOK, Hole, Exists
    <3>2. CASE d = Dest[cur] /\ cur \in kept
      <4>1. dest'[d] = stash[temp][cur] /\ stash[temp][cur] \in Contents
        BY <2>1, <3>2 DEF OpenInv, TypeOK
      <4>. QED
        BY <2>2, <4>1 DEF Hole, Exists
    <3>3. CASE d = Dest[cur] /\ cur \notin kept
      BY <2>1, <2>2, <3>3 DEF OpenInv, Hole, Exists
    <3>. QED
      BY <3>1, <3>2, <3>3
  <2>. QED
    BY <2>2 DEF AtMostOneHole
<1>. QED
  BY <1>1, <1>2, <1>3, <1>4, <1>5, <1>6

(* An undo that fails logs the destination and leaves the disk alone.      *)
LEMMA UndoFailsIInv ==
  ASSUME IInv, UndoFails
  PROVE  IInv'
<1>. USE DEF IInv, UndoFails, Moves, Running, disk
<1>1. ControlInv' /\ ForwardInv' /\ CrashInv' /\ AtMostOneHole' /\ AllInstalled' /\
      RestoredUnlessLogged'
  BY DEF ControlInv, ForwardInv, CrashInv, AtMostOneHole, Hole, AllInstalled,
     RestoredUnlessLogged
<1>2. TypeOK'
  BY DEF TypeOK, ForwardInv, OpenInv, UndoInv, Open, Files
<1>3. OpenInv'
  <2>1. SUFFICES ASSUME NEW m \in Moves, Open(m)'
                 PROVE  /\ m \in kept' =>
                             /\ stash'[temp'][m] \in Contents
                             /\ stash'[temp'][m] \in {orig'[Dest[m]]} \union Incoming(Dest[m])
                        /\ m \notin kept' => ~Exists(orig'[Dest[m]])
                        /\ \E f \in Moves :
                             /\ Open(f)' /\ Dest[f] = Dest[m] /\ IsFirst(f)
                             /\ f \in kept' => stash'[temp'][f] = orig'[Dest[f]]
    BY DEF OpenInv, Incoming, IsFirst, Exists
  <2>2. m < cur /\ Open(m)
    BY <2>1 DEF TypeOK, Open, Holding
  <2>3. PICK f \in Moves : /\ Open(f) /\ Dest[f] = Dest[m] /\ IsFirst(f)
                           /\ f \in kept => stash[temp][f] = orig[Dest[f]]
    BY <2>2 DEF OpenInv
  <2>4. f <= m
    BY <2>3 DEF IsFirst
  <2>5. Open(f)'
    BY <2>2, <2>4 DEF TypeOK, Open
  <2>6. stash'[temp'][m] = stash[temp][m] /\ stash'[temp'][f] = stash[temp][f]
    BY <2>2, <2>4 DEF TypeOK
  <2>. QED
    BY <2>2, <2>3, <2>5, <2>6 DEF OpenInv
<1>4. UndoInv'
  BY DEF UndoInv, TypeOK, ForwardInv, Open, Holding, Untouched
<1>. QED
  BY <1>1, <1>2, <1>3, <1>4

(* No move is open: what UndoInv says of the destinations is               *)
(* RestoredUnlessLogged.                                                   *)
LEMMA ReturnErrorIInv ==
  ASSUME IInv, ReturnError
  PROVE  IInv'
<1>. USE DEF IInv, ReturnError, Moves, Running, disk
<1>1. TypeOK' /\ ControlInv' /\ ForwardInv' /\ OpenInv' /\ UndoInv' /\ CrashInv' /\ AtMostOneHole' /\
      AllInstalled'
  BY DEF TypeOK, ControlInv, ForwardInv, OpenInv, UndoInv, CrashInv, AtMostOneHole,
     Hole, AllInstalled
<1>2. RestoredUnlessLogged'
  BY DEF ControlInv, RestoredUnlessLogged, UndoInv, TypeOK, Untouched, Open
<1>. QED
  BY <1>1, <1>2

(* A kill leaves the disk as CrashInv describes it.                        *)
LEMMA CrashIInv ==
  ASSUME IInv, Crash
  PROVE  IInv'
<1>. USE DEF IInv, Crash, Moves, Running, disk
<1>1. TypeOK' /\ ControlInv' /\ ForwardInv' /\ OpenInv' /\ UndoInv' /\ CrashInv' /\ AtMostOneHole' /\
      AllInstalled' /\ RestoredUnlessLogged'
  BY DEF TypeOK, ControlInv, ForwardInv, OpenInv, UndoInv, CrashInv, AtMostOneHole,
     Hole, AllInstalled, RestoredUnlessLogged
<1>. QED
  BY <1>1

(* Nothing is open and nothing is logged when the process starts.          *)
LEMMA InitIInv == Init => IInv
<1>. SUFFICES ASSUME Init PROVE IInv
  OBVIOUS
<1>. USE DEF Init, Running
<1>1. TypeOK
  <2>1. stash \in [Temps -> [Moves -> Files]] /\ source \in [Moves -> Files]
    BY DEF Files
  <2>2. cur \in 0..(N + 1) /\ orig \in [Dests -> Files]
    OBVIOUS
  <2>. QED
    BY <2>1, <2>2 DEF TypeOK
<1>2. ControlInv /\ ForwardInv /\ OpenInv /\ UndoInv /\ CrashInv
  BY DEF ControlInv, ForwardInv, OpenInv, UndoInv, CrashInv
<1>3. AtMostOneHole /\ AllInstalled /\ RestoredUnlessLogged
  BY DEF AtMostOneHole, Hole, AllInstalled, RestoredUnlessLogged
<1>. QED
  BY <1>1, <1>2, <1>3 DEF IInv

(* A step outside this program leaves the invariant alone.                 *)
LEMMA StutterIInv == IInv /\ UNCHANGED vars => IInv'
BY DEF IInv, vars, TypeOK, ControlInv, ForwardInv, OpenInv, UndoInv, CrashInv,
   AtMostOneHole, AllInstalled, RestoredUnlessLogged, Hole, Holding, Open, Untouched,
   IsFirst, IsLast, Incoming, Exists, Readable

(* The invariant is inductive: one lemma for each action.                  *)
LEMMA NextIInv == IInv /\ [Next]_vars => IInv'
BY BuildIInv, CommitIInv, CommitDrainedIInv, CheckDestIInv, ReturnIInv, StashIInv,
   StashFailsIInv, InstallIInv, InstallFailsIInv, RestoreOwnIInv, RestoreOwnFailsIInv,
   UndoIInv, UndoFailsIInv, ReturnErrorIInv, CrashIInv, StutterIInv
   DEF Next, CommitStep

(* IInv holds in every reachable state, whatever the number of moves, the  *)
(* destinations they share, and the failures and kills commit meets.       *)
THEOREM InductiveInvariant == Spec => []IInv
BY InitIInv, NextIInv, PTL DEF Spec

(* Every variable stays in its type.                                       *)
THEOREM TypeCorrect == Spec => []TypeOK
<1>1. IInv => TypeOK
  BY DEF IInv
<1>. QED
  BY <1>1, InductiveInvariant, PTL

(* commit is all or nothing: Ok means every move is in place, an error     *)
(* means every destination reads as before but for those the log names.    *)
THEOREM AllOrNothing == Spec => [](AllInstalled /\ RestoredUnlessLogged)
<1>1. IInv => AllInstalled /\ RestoredUnlessLogged
  BY DEF IInv
<1>. QED
  BY <1>1, InductiveInvariant, PTL

(* No failure and no kill before commit returns Ok loses an original.      *)
THEOREM NoOriginalLost == Spec => []OriginalKept
<1>1. IInv => OriginalKept
  BY DEF IInv, TypeOK, CrashInv, OriginalKept
<1>. QED
  BY <1>1, InductiveInvariant, PTL

(* However far commit got, at most one destination is missing.             *)
THEOREM OneHole == Spec => []AtMostOneHole
<1>1. IInv => AtMostOneHole
  BY DEF IInv
<1>. QED
  BY <1>1, InductiveInvariant, PTL

(* A second commit of the same MoveAll changes nothing on disk.            *)
THEOREM SingleUse == Spec => CommitsOnce
<1>1. IInv /\ [Next]_vars => [result # "none" => UNCHANGED <<dest, stash>>]_vars
  <2>1. SUFFICES ASSUME IInv, Next, result # "none"
                 PROVE  UNCHANGED <<dest, stash>>
    OBVIOUS
  <2>2. pc \in {"done", "drained"} /\ ~queued
    BY <2>1 DEF IInv, ControlInv
  <2>3. ~CommitStep /\ ~Crash /\ ~Commit
    BY <2>2 DEF CommitStep, CheckDest, Return, Stash, StashFails, Install, InstallFails,
       RestoreOwn, RestoreOwnFails, Undo, UndoFails, ReturnError, Crash, Commit, Running
  <2>. QED
    BY <2>1, <2>3 DEF Next, Build, CommitDrained, disk
<1>. QED
  BY <1>1, InductiveInvariant, PTL DEF Spec, CommitsOnce

-----------------------------------------------------------------------------
(* The refinement: every step of MoveAll is a step of AtomicInstall or     *)
(* changes nothing its caller sees.                                        *)

(* The two machines start from the same view.                              *)
LEMMA InitRefines == Init => Atomic!Init
BY DEF Init, Atomic!Init, Atomic!Views, View, Status, Running, Readable, Exists, Files

(* What a reader gets of a destination is contents or nothing.             *)
LEMMA ViewType == TypeOK => View \in Atomic!Views /\ View' \in Atomic!Views
BY DEF Atomic!Views, View, Readable, Exists

(* Inside commit its caller still sees the originals; outside, the disk.   *)
LEMMA ViewValues ==
  /\ pc \in Running => View = [d \in Dests |-> Readable(orig[d])]
  /\ pc \notin Running => View = [d \in Dests |-> Readable(dest[d])]
  /\ pc' \in Running => View' = [d \in Dests |-> Readable(orig'[d])]
  /\ pc' \notin Running => View' = [d \in Dests |-> Readable(dest'[d])]
BY DEF View, Readable, Exists

(* The status a caller sees at each program point.                         *)
LEMMA StatusValues ==
  /\ pc \in Running => Status = "busy"
  /\ pc = "crashed" => Status = "dead"
  /\ pc \in {"done", "drained"} => Status = result
  /\ pc = "idle" => Status = "idle"
  /\ pc' \in Running => Status' = "busy"
  /\ pc' = "crashed" => Status' = "dead"
  /\ pc' \in {"done", "drained"} => Status' = result'
  /\ pc' = "idle" => Status' = "idle"
BY DEF Status, Running

(* Each step of commit is one abstract step, or one its caller cannot see. *)
LEMMA NextRefines == IInv /\ IInv' /\ [Next]_vars => [Atomic!Next]_(Atomic!vars)
<1>. SUFFICES ASSUME IInv, IInv', [Next]_vars
              PROVE  Atomic!Next \/ UNCHANGED <<View, Status, logged>>
  BY DEF Atomic!vars
<1>0. View \in Atomic!Views /\ View' \in Atomic!Views
  <2>. QED
    BY ViewType DEF IInv
<1>1. ASSUME NEW t \in Temps, Build(t)
      PROVE  Atomic!Prepare
  <2>1. View' = View
    BY <1>1, ViewValues DEF Build, Running
  <2>2. Status' = "idle" /\ Status # "busy"
    BY <1>1, StatusValues DEF Build, IInv, TypeOK, ControlInv, Running
  <2>. QED
    BY <1>1, <2>1, <2>2 DEF Build, Atomic!Prepare
<1>2. CASE Commit
  <2>1. pc = "idle" /\ pc' = "check"
    BY <1>2 DEF Commit, IInv, ControlInv
  <2>2. View' = View
    BY <1>2, <2>1, ViewValues DEF Commit, Running
  <2>3. Status = "idle" /\ Status' = "busy"
    BY <2>1, StatusValues DEF Running
  <2>. QED
    BY <1>2, <2>2, <2>3 DEF Commit, Atomic!Begin, Atomic!Next
<1>3. CASE CommitDrained
  <2>1. View' = View /\ Status' = Status
    BY <1>3, ViewValues, StatusValues DEF CommitDrained, disk, Running
  <2>. QED
    BY <1>3, <2>1 DEF CommitDrained
<1>4. CASE CheckDest \/ Stash \/ StashFails \/ Install \/ InstallFails \/ RestoreOwn \/ Undo
  <2>1. pc \in Running /\ pc' \in Running /\ UNCHANGED <<orig, logged>>
    BY <1>4 DEF CheckDest, Stash, StashFails, Install, InstallFails, RestoreOwn, Undo, Running
  <2>. QED
    BY <2>1, ViewValues, StatusValues
<1>5. CASE RestoreOwnFails \/ UndoFails
  <2>1. pc \in Running /\ pc' \in Running /\ UNCHANGED orig
    BY <1>5 DEF RestoreOwnFails, UndoFails, Running
  <2>2. View' = View /\ Status = "busy" /\ Status' = "busy"
    BY <2>1, ViewValues, StatusValues
  <2>3. cur \in Moves
    BY <1>5 DEF RestoreOwnFails, UndoFails, IInv, ForwardInv, UndoInv, Running, Moves
  <2>4. Dest[cur] \in Dests /\ logged' = logged \union {Dest[cur]}
    BY <1>5, <2>3 DEF RestoreOwnFails, UndoFails
  <2>. QED
    BY <2>2, <2>4 DEF Atomic!Warn, Atomic!Next
<1>6. CASE Return
  <2>1. pc = "check" /\ pc' = "done" /\ result' = "ok" /\ UNCHANGED <<dest, orig, logged>>
    BY <1>6 DEF Return, disk
  <2>2. /\ View = [d \in Dests |-> Readable(orig[d])]
        /\ View' = [d \in Dests |-> Readable(dest'[d])]
    BY <2>1, ViewValues DEF Running
  <2>3. Status = "busy" /\ Status' = "ok"
    BY <2>1, StatusValues DEF Running
  <2>4. \A m \in Moves : IsLast(m) => View'[Dest[m]] = New[m]
    <3>1. \A m \in Moves : IsLast(m) => dest'[Dest[m]] = New[m]
      BY <2>1 DEF IInv, AllInstalled, IsLast
    <3>. QED
      BY <2>2, <3>1 DEF Readable, Exists
  <2>5. \A d \in Dests : (\A m \in Moves : Dest[m] # d) => View'[d] = View[d]
    BY <2>1, <2>2 DEF IInv, AllInstalled
  <2>. QED
    BY <1>0, <2>1, <2>3, <2>4, <2>5 DEF Atomic!Succeed, Atomic!Next, Atomic!Moves, Moves, IsLast
<1>7. CASE ReturnError
  <2>1. pc = "undo" /\ pc' = "done" /\ result' = "err" /\ UNCHANGED <<dest, orig, logged>>
    BY <1>7 DEF ReturnError, disk
  <2>2. /\ View = [d \in Dests |-> Readable(orig[d])]
        /\ View' = [d \in Dests |-> Readable(dest'[d])]
    BY <2>1, ViewValues DEF Running
  <2>3. Status = "busy" /\ Status' = "err"
    BY <2>1, StatusValues DEF Running
  <2>4. \A d \in Dests \ logged : Readable(dest'[d]) = Readable(orig[d])
    BY <2>1 DEF IInv, RestoredUnlessLogged, Readable, Exists
  <2>. QED
    BY <1>0, <2>1, <2>2, <2>3, <2>4 DEF Atomic!Fail, Atomic!Next
<1>8. CASE Crash
  <2>1. pc \in Running /\ pc' = "crashed" /\ UNCHANGED <<dest, orig, logged>>
    BY <1>8 DEF Crash, disk
  <2>2. /\ View = [d \in Dests |-> Readable(orig[d])]
        /\ View' = [d \in Dests |-> Readable(dest[d])]
    BY <2>1, ViewValues DEF Running
  <2>3. Status = "busy" /\ Status' = "dead"
    BY <2>1, StatusValues DEF Running
  <2>4. \A d \in Dests : View'[d] \in {View[d], Absent} \union Incoming(d)
    BY <2>1, <2>2 DEF IInv, CrashInv
  <2>5. ASSUME NEW d \in Dests, NEW e \in Dests,
               View[d] # Absent, View'[d] = Absent, View[e] # Absent, View'[e] = Absent
        PROVE  d = e
    <3>1. Hole(d) /\ Hole(e)
      BY <2>2, <2>5 DEF Hole, Readable, Exists
    <3>. QED
      BY <3>1 DEF IInv, AtMostOneHole
  <2>. QED
    BY <1>0, <2>1, <2>3, <2>4, <2>5
       DEF Atomic!Die, Atomic!Next, Atomic!Incoming, Atomic!Moves, Incoming, Moves
<1>9. CASE UNCHANGED vars
  BY <1>9 DEF vars, View, Status, Readable, Exists, Running
<1>. QED
  BY <1>1, <1>2, <1>3, <1>4, <1>5, <1>6, <1>7, <1>8, <1>9 DEF Next, CommitStep, Atomic!Next

(* MoveAll implements the all-or-nothing install its documentation         *)
(* promises.                                                               *)
THEOREM Refinement == Spec => ImplementsAtomicInstall
BY InitRefines, NextRefines, InductiveInvariant, PTL
   DEF Spec, ImplementsAtomicInstall, Atomic!Spec

=============================================================================
