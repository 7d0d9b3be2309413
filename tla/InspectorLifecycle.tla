------------------------- MODULE InspectorLifecycle -------------------------
(***************************************************************************)
(* install, upgrade and uninstall of the Codex plugin manager,             *)
(* plugins/aecctx-inspector/scripts/manage.py, on one destination.         *)
(*                                                                         *)
(* An installed tree is its version, who copied it, and how its content    *)
(* relates to its marker: "partial" (being copied or deleted), "unmarked"  *)
(* (copied, no marker yet), "exact" (the marker's inventory matches) or    *)
(* "edited" (it does not).  Removing a tree takes two steps; every system  *)
(* call may fail; a run may be interrupted (only `finally` clauses see it) *)
(* or killed; users edit the installed files.                              *)
(***************************************************************************)
EXTENDS Naturals

CONSTANTS
  Pids,        \* process ids of manager runs; a process id may be used again
  NoTree,
  MaxVersion,  \* bound: the plugin versions are 1..MaxVersion
  MaxCalls,    \* bound: runs of the manager
  MaxFaults,   \* bound: system calls that fail
  Concurrent   \* whether runs overlap, and users edit during a run

ASSUME LifecycleAssumption ==
  /\ MaxVersion \in Nat \ {0} /\ MaxCalls \in Nat /\ MaxFaults \in Nat
  /\ Concurrent \in BOOLEAN

Commands == {"install", "upgrade", "uninstall"}
Tree == [version : 1..MaxVersion, by : Pids, state : {"partial", "unmarked", "exact", "edited"}]
ASSUME NoTreeAssumption == NoTree \notin Tree

Undoing == {"fill", "mark", "mkdir"}
Swapping == {"stage", "swap_out", "swap_in", "swap_back", "drop", "dropping"}
Places == {"idle", "begin", "undo", "undoing", "finally", "restore", "remove", "removing"}
            \cup Undoing \cup Swapping
Endings == {"none", "ok", "refused", "failed", "interrupted"}

VARIABLES
  dest,     \* the destination directory
  backup,   \* backup[p]: .aecctx-inspector-backup-<pid>
  staging,  \* staging[p]: the staged new tree
  place, cmd,
  version,  \* version[p]: the version in the plugin root of run p
  prior,    \* prior[p]: the tree that upgrade p found (a history no step reads)
  ending,   \* ending[p]: how run p ended
  calls, faults

lifecycleVars == <<dest, backup, staging, place, cmd, version, prior, ending, calls, faults>>
run == <<cmd, version, prior, calls, faults>>

LifecycleInit ==
  /\ dest = NoTree
  /\ backup = [p \in Pids |-> NoTree]
  /\ staging = [p \in Pids |-> NoTree]
  /\ place = [p \in Pids |-> "idle"]
  /\ cmd = [p \in Pids |-> "install"]
  /\ version = [p \in Pids |-> 1]
  /\ prior = [p \in Pids |-> NoTree]
  /\ ending = [p \in Pids |-> "none"]
  /\ calls = 0
  /\ faults = 0

GotoPlace(p, l) == place' = [place EXCEPT ![p] = l]
EndRun(p, o) == /\ GotoPlace(p, "idle")
                /\ ending' = [ending EXCEPT ![p] = o]
FailRun(p, l) == /\ GotoPlace(p, l)
                 /\ ending' = [ending EXCEPT ![p] = "failed"]

Complete(tree) == tree # NoTree /\ tree.state \in {"exact", "edited"}
Removing(tree) == [tree EXCEPT !.state = "partial"]

\* The verified tree of run p: its version, with its marker.
New(p) == [version |-> version[p], by |-> p, state |-> "exact"]

\* rename(2) moves a directory where nothing is, or over an empty directory.
MayRename(target) == target # NoTree => target.state = "partial"
RenameMayFail(target) == target # NoTree

Call(p) ==
  /\ place[p] = "idle"
  /\ calls < MaxCalls
  /\ Concurrent \/ \A q \in Pids : place[q] = "idle"
  /\ \E c \in Commands, v \in 1..MaxVersion :
       cmd' = [cmd EXCEPT ![p] = c] /\ version' = [version EXCEPT ![p] = v]
  /\ GotoPlace(p, "begin")
  /\ ending' = [ending EXCEPT ![p] = "none"]
  /\ calls' = calls + 1
  /\ staging' = [staging EXCEPT ![p] = NoTree]
  /\ prior' = [prior EXCEPT ![p] = NoTree]
  /\ UNCHANGED <<dest, backup, faults>>

\* The plugin root, the installed cores or the host profile are not acceptable.
RefuseRun(p) ==
  /\ place[p] = "begin" /\ cmd[p] # "uninstall"
  /\ EndRun(p, "refused")
  /\ UNCHANGED <<dest, backup, staging, run>>

-----------------------------------------------------------------------------
(* install                                                                 *)

InstallBegin(p) ==
  /\ place[p] = "begin" /\ cmd[p] = "install"
  /\ IF dest # NoTree THEN EndRun(p, "refused") ELSE GotoPlace(p, "mkdir") /\ UNCHANGED ending
  /\ UNCHANGED <<dest, backup, staging, run>>

\* copytree makes the destination and raises if it exists by now.
InstallMkdir(p) ==
  /\ place[p] = "mkdir"
  /\ IF dest # NoTree THEN FailRun(p, "undo") /\ UNCHANGED dest
     ELSE /\ dest' = [version |-> version[p], by |-> p, state |-> "partial"]
          /\ GotoPlace(p, "fill")
          /\ UNCHANGED ending
  /\ UNCHANGED <<backup, staging, run>>

\* The files are copied into whatever directory is at the destination now.
InstallFill(p) ==
  /\ place[p] = "fill"
  /\ IF dest = NoTree THEN FailRun(p, "undo") /\ UNCHANGED dest
     ELSE /\ dest' = [dest EXCEPT !.state = IF dest.by = p THEN "unmarked" ELSE "edited"]
          /\ GotoPlace(p, "mark")
          /\ UNCHANGED ending
  /\ UNCHANGED <<backup, staging, run>>

\* Mutant: the marker has no version.
InstallMarkWithoutVersion(p) ==
  /\ place[p] = "mark"
  /\ IF dest = NoTree THEN FailRun(p, "undo") /\ UNCHANGED dest
     ELSE /\ dest' = [version |-> 0, by |-> p, state |-> "exact"]
          /\ EndRun(p, "ok")
  /\ UNCHANGED <<backup, staging, run>>

\* The marker records the inventory found at the destination.
InstallMark(p) ==
  /\ place[p] = "mark"
  /\ IF dest = NoTree THEN FailRun(p, "undo") /\ UNCHANGED dest
     ELSE /\ dest' = New(p)
          /\ EndRun(p, "ok")
  /\ UNCHANGED <<backup, staging, run>>

\* except Exception: if destination.is_dir(): shutil.rmtree(destination)
InstallUndo(p) ==
  /\ place[p] \in {"undo", "undoing"}
  /\ IF dest = NoTree \/ place[p] = "undoing"
       THEN dest' = NoTree /\ GotoPlace(p, "idle")
       ELSE dest' = Removing(dest) /\ GotoPlace(p, "undoing")
  /\ UNCHANGED <<backup, staging, ending, run>>

-----------------------------------------------------------------------------
(* upgrade                                                                 *)

\* Mutant: the installed version is not compared.
UpgradeBeginAnyVersion(p) ==
  /\ place[p] = "begin" /\ cmd[p] = "upgrade"
  /\ IF dest # NoTree /\ dest.state = "exact"
       THEN GotoPlace(p, "stage") /\ prior' = [prior EXCEPT ![p] = dest] /\ UNCHANGED ending
       ELSE EndRun(p, "refused") /\ UNCHANGED prior
  /\ UNCHANGED <<dest, backup, staging, cmd, version, calls, faults>>

\* _marker of the destination and a strictly greater version.
UpgradeBegin(p) ==
  /\ place[p] = "begin" /\ cmd[p] = "upgrade"
  /\ IF dest # NoTree /\ dest.state = "exact" /\ version[p] > dest.version
       THEN GotoPlace(p, "stage") /\ prior' = [prior EXCEPT ![p] = dest] /\ UNCHANGED ending
       ELSE EndRun(p, "refused") /\ UNCHANGED prior
  /\ UNCHANGED <<dest, backup, staging, cmd, version, calls, faults>>

\* The new tree is copied beside the destination and verified there.
UpgradeStage(p) ==
  /\ place[p] = "stage"
  /\ staging' = [staging EXCEPT ![p] = New(p)]
  /\ GotoPlace(p, "swap_out")
  /\ UNCHANGED <<dest, backup, ending, run>>

\* Mutant: the old tree is deleted instead of moved aside.
UpgradeSwapOutDeleting(p) ==
  /\ place[p] = "swap_out"
  /\ dest' = NoTree
  /\ GotoPlace(p, "swap_in")
  /\ UNCHANGED <<backup, staging, ending, run>>

\* destination.rename(backup)
UpgradeSwapOut(p) ==
  /\ place[p] = "swap_out"
  /\ \/ /\ dest = NoTree \/ RenameMayFail(backup[p])
        /\ FailRun(p, "finally")
        /\ UNCHANGED <<dest, backup>>
     \/ /\ dest # NoTree /\ MayRename(backup[p])
        /\ backup' = [backup EXCEPT ![p] = dest]
        /\ dest' = NoTree
        /\ GotoPlace(p, "swap_in")
        /\ UNCHANGED ending
  /\ UNCHANGED <<staging, run>>

\* stage.rename(destination)
UpgradeSwapIn(p) ==
  /\ place[p] = "swap_in"
  /\ \/ /\ RenameMayFail(dest)
        /\ FailRun(p, "swap_back")
        /\ UNCHANGED <<dest, staging>>
     \/ /\ MayRename(dest)
        /\ dest' = staging[p]
        /\ staging' = [staging EXCEPT ![p] = NoTree]
        /\ GotoPlace(p, "drop")
        /\ UNCHANGED ending
  /\ UNCHANGED <<backup, run>>

MoveBack(p) ==
  /\ backup[p] # NoTree
  /\ dest' = backup[p]
  /\ backup' = [backup EXCEPT ![p] = NoTree]

\* except Exception: backup.rename(destination); raise
UpgradeSwapBack(p) ==
  /\ place[p] = "swap_back"
  /\ \/ MayRename(dest) /\ MoveBack(p)
     \/ RenameMayFail(dest) /\ UNCHANGED <<dest, backup>>
  /\ GotoPlace(p, "finally")
  /\ UNCHANGED <<staging, ending, run>>

\* shutil.rmtree(backup)
UpgradeDrop(p) ==
  /\ place[p] \in {"drop", "dropping"}
  /\ IF place[p] = "drop"
       THEN backup' = [backup EXCEPT ![p] = Removing(@)] /\ GotoPlace(p, "dropping") /\ UNCHANGED ending
       ELSE /\ backup' = [backup EXCEPT ![p] = NoTree]
            /\ GotoPlace(p, "finally")
            /\ ending' = [ending EXCEPT ![p] = "ok"]
  /\ UNCHANGED <<dest, staging, run>>

\* finally: the staging directory is removed ...
UpgradeFinally(p) ==
  /\ place[p] = "finally"
  /\ staging' = [staging EXCEPT ![p] = NoTree]
  /\ GotoPlace(p, "restore")
  /\ UNCHANGED <<dest, backup, ending, run>>

\* Mutant: the finally clause does not restore the backup.
UpgradeRestoreNothing(p) ==
  /\ place[p] = "restore"
  /\ GotoPlace(p, "idle")
  /\ UNCHANGED <<dest, backup, staging, ending, run>>

\* ... and the backup renamed back if the destination is missing.
UpgradeRestore(p) ==
  /\ place[p] = "restore"
  /\ IF dest = NoTree /\ backup[p] # NoTree THEN MoveBack(p) ELSE UNCHANGED <<dest, backup>>
  /\ GotoPlace(p, "idle")
  /\ UNCHANGED <<staging, ending, run>>

-----------------------------------------------------------------------------
(* uninstall                                                               *)

\* Mutant: any marked tree is removed, edited or not.
UninstallBeginEdited(p) ==
  /\ place[p] = "begin" /\ cmd[p] = "uninstall"
  /\ IF Complete(dest) THEN GotoPlace(p, "remove") /\ UNCHANGED ending ELSE EndRun(p, "refused")
  /\ UNCHANGED <<dest, backup, staging, run>>

UninstallBegin(p) ==
  /\ place[p] = "begin" /\ cmd[p] = "uninstall"
  /\ IF dest # NoTree /\ dest.state = "exact" THEN GotoPlace(p, "remove") /\ UNCHANGED ending
                                              ELSE EndRun(p, "refused")
  /\ UNCHANGED <<dest, backup, staging, run>>

\* shutil.rmtree(destination)
UninstallRemove(p) ==
  /\ place[p] \in {"remove", "removing"}
  /\ IF place[p] = "remove"
       THEN IF dest = NoTree THEN EndRun(p, "failed") /\ UNCHANGED dest
            ELSE dest' = Removing(dest) /\ GotoPlace(p, "removing") /\ UNCHANGED ending
       ELSE dest' = NoTree /\ EndRun(p, "ok")
  /\ UNCHANGED <<backup, staging, run>>

LifecycleStep(p) ==
  \/ RefuseRun(p)
  \/ InstallBegin(p) \/ InstallMkdir(p) \/ InstallFill(p) \/ InstallMark(p) \/ InstallUndo(p)
  \/ UpgradeBegin(p) \/ UpgradeStage(p) \/ UpgradeSwapOut(p) \/ UpgradeSwapIn(p) \/ UpgradeSwapBack(p)
  \/ UpgradeDrop(p) \/ UpgradeFinally(p) \/ UpgradeRestore(p)
  \/ UninstallBegin(p) \/ UninstallRemove(p)

-----------------------------------------------------------------------------
(* Faults and users.                                                       *)

\* Where an exception, and where an interrupt, leads from each place.
OnException(l) ==
  CASE l \in Undoing -> "undo"
    [] l = "swap_in" -> "swap_back"
    [] l \in Swapping \ {"swap_in"} -> "finally"
    [] OTHER -> "idle"

OnInterrupt(l) ==
  IF l \in Swapping THEN "finally" ELSE "idle"

\* A system call of the current step raises an OSError.
SystemCallFails(p) ==
  /\ place[p] \notin {"idle", "begin"}
  /\ faults < MaxFaults
  /\ faults' = faults + 1
  /\ FailRun(p, OnException(place[p]))
  /\ UNCHANGED <<dest, backup, staging, cmd, version, prior, calls>>

InterruptRun(p) ==
  /\ place[p] # "idle"
  /\ faults < MaxFaults
  /\ faults' = faults + 1
  /\ GotoPlace(p, OnInterrupt(place[p]))
  /\ ending' = [ending EXCEPT ![p] = "interrupted"]
  /\ UNCHANGED <<dest, backup, staging, cmd, version, prior, calls>>

Kill(p) ==
  /\ place[p] # "idle"
  /\ GotoPlace(p, "idle")
  /\ ending' = [ending EXCEPT ![p] = "none"]
  /\ UNCHANGED <<dest, backup, staging, run>>

\* A user changes, adds or removes a file of the installed tree.
Edit ==
  /\ dest # NoTree /\ dest.state = "exact"
  /\ Concurrent \/ \A p \in Pids : place[p] = "idle"
  /\ dest' = [dest EXCEPT !.state = "edited"]
  /\ UNCHANGED <<backup, staging, place, ending, run>>

LifecycleNext == (\E p \in Pids : Call(p) \/ LifecycleStep(p) \/ SystemCallFails(p) \/ InterruptRun(p) \/ Kill(p)) \/ Edit

LifecycleSpec == LifecycleInit /\ [][LifecycleNext]_lifecycleVars

-----------------------------------------------------------------------------
(* Properties.                                                             *)

\* The types of the trees and of every run's locals (manage.py).
LifecycleTypeOK ==
  /\ dest \in Tree \cup {NoTree}
  /\ backup \in [Pids -> Tree \cup {NoTree}]
  /\ staging \in [Pids -> Tree \cup {NoTree}]
  /\ place \in [Pids -> Places]
  /\ cmd \in [Pids -> Commands]
  /\ version \in [Pids -> 1..MaxVersion]
  /\ prior \in [Pids -> Tree \cup {NoTree}]
  /\ ending \in [Pids -> Endings]

Installed == Complete(dest) \/ \E p \in Pids : Complete(backup[p])

\* A complete installation, edited or not, is at every moment at the destination
\* or in a backup beside it, whatever fails and whenever upgrade is killed between
\* its renames: only an uninstall that has verified it makes it incomplete.
InstallationSurvives ==
  [][Installed /\ ~Installed' => \E p \in Pids : cmd[p] = "uninstall" /\ place[p] = "remove"]_lifecycleVars

\* Edited content at the destination stays as it is whatever runs follow: all of
\* install, upgrade and uninstall refuse it (while runs and edits do not overlap).
EditsArePreserved ==
  [][dest # NoTree /\ dest.state = "edited" => dest' = dest]_lifecycleVars

\* upgrade deletes a backup only when a newer verified tree is at the destination.
ReplacedIsOlder ==
  \A p \in Pids : place[p] = "drop" =>
    dest # NoTree /\ dest.state = "exact" /\ dest.version > backup[p].version

\* The step ends an upgrade that got past its checks, by a failure or an interrupt.
UpgradeFails(p) ==
  /\ cmd[p] = "upgrade" /\ place[p] \notin {"idle", "begin"}
  /\ place'[p] = "idle" /\ ending'[p] \in {"failed", "interrupted"}

\* An upgrade that fails is all or nothing (with one fault at most): it leaves at
\* the destination the tree it found, or the one it verified, never a part of
\* one, a mixture or nothing.  Which of the two: FailureRestoresPrior.
UpgradeIsAllOrNothing ==
  [][\A p \in Pids : UpgradeFails(p) => dest' \in {prior[p], New(p)}]_lifecycleVars

\* "The manager stages and verifies the complete new tree before replacing the
\* destination; any failure restores the prior exact tree"
\* (docs/specs/inspector-distribution-v03-profile.md:45).  Nothing undoes the swap
\* when the removal of the backup fails (manage.py:217).
FailureRestoresPrior ==
  [][\A p \in Pids : UpgradeFails(p) => dest' = prior[p]]_lifecycleVars

\* "Install is create-only and MUST NOT overwrite an existing destination"
\* (docs/specs/inspector-distribution-v03-profile.md:45): a run of install, its
\* cleanup included, changes no tree that another run has put there.
InstallIsCreateOnly ==
  [][\A p \in Pids : cmd[p] = "install" /\ place'[p] # place[p] /\ dest # NoTree /\ dest' # dest => dest.by = p]_lifecycleVars
=============================================================================
