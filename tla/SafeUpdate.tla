----------------------------- MODULE SafeUpdate -----------------------------
(***************************************************************************)
(* What update() promises (the documentation of ReleaseUpdate and the      *)
(* invariants of specs/ref-update-pipeline.md): what is installed goes in  *)
(* one step from one acceptable binary to another, a call replaces it at   *)
(* most once, only by a release that is newer or was asked for by its tag, *)
(* and says Updated when and only when it has.                             *)
(***************************************************************************)
EXTENDS Versions

CONSTANTS
  Updaters, Releases, Configs, VersionOf, Original, Size, Nil,
  Vet     \* Vet[c][r]: what an updater configured as c may install for release r

VARIABLES
  content,  \* what is installed
  config,   \* config[p]: how p is configured; Nil: never called
  version,  \* version[p]: the version of the program that calls update
  outcome   \* outcome[p]: [status, release] of p's call

vars == <<content, config, version, outcome>>

Binaries == DOMAIN VersionOf

Whole(x) == [i \in 1..Size |-> x]

Outcome(status, release) == [status |-> status, release |-> release]

Init ==
  /\ content = Whole(Original)
  /\ config \in [Updaters -> Configs \union {Nil}]
  /\ version = [p \in Updaters |-> VersionOf[Original]]
  /\ outcome = [p \in Updaters |-> Outcome("none", Nil)]

(* A program calls update, perhaps one that has just been executed.        *)
Call(p) ==
  /\ config[p] # Nil /\ outcome[p].status # "busy"
  /\ outcome' = [outcome EXCEPT ![p] = Outcome("busy", Nil)]
  /\ \/ UNCHANGED version
     \/ \E b \in Binaries :
          /\ content = Whole(b)
          /\ version' = [version EXCEPT ![p] = VersionOf[b]]
  /\ UNCHANGED <<content, config>>

Put(p, r) ==
  /\ outcome[p] = Outcome("busy", Nil)
  /\ \/ config[p].pin = r
     \/ config[p].pin = Nil /\ BumpIsGreater(version[p], r)
  /\ content' \in Vet[config[p]][r]
  /\ outcome' = [outcome EXCEPT ![p] = Outcome("busy", r)]
  /\ UNCHANGED <<config, version>>

(* A caller that dropped its future learns nothing.                        *)
Succeed(p) ==
  /\ outcome[p].status = "busy" /\ outcome[p].release # Nil
  /\ \/ outcome' = [outcome EXCEPT ![p] = Outcome("updated", outcome[p].release)]
     \/ outcome' = [outcome EXCEPT ![p] = Outcome("cancelled", Nil)]
  /\ UNCHANGED <<content, config, version>>

Decline(p) ==
  /\ outcome[p] = Outcome("busy", Nil)
  /\ \E status \in {"uptodate", "err", "cancelled"} :
       outcome' = [outcome EXCEPT ![p] = Outcome(status, Nil)]
  /\ UNCHANGED <<content, config, version>>

Die(p) ==
  /\ outcome[p].status = "busy"
  /\ outcome' = [outcome EXCEPT ![p] = Outcome("dead", Nil)]
  /\ UNCHANGED <<content, config, version>>

Next ==
  \E p \in Updaters :
    \/ Call(p) \/ Succeed(p) \/ Decline(p) \/ Die(p)
    \/ \E r \in Releases : Put(p, r)

Spec == Init /\ [][Next]_vars
=============================================================================
