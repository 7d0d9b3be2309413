---------------------- MODULE InspectorLifecycleProofs ----------------------
(***************************************************************************)
(* Proofs about InspectorLifecycle for every set of process ids and every  *)
(* number of versions, runs and faults.  The types hold however runs       *)
(* overlap.  What is promised about trees holds while they do not: then    *)
(* the program point of the one run there is tells what lies at the        *)
(* destination and in the backup (AtPlace).                                *)
(***************************************************************************)
EXTENDS InspectorLifecycle, TLAPS

BackupHeld == \A p \in Pids : place[p] \in {"swap_in", "swap_back", "drop"} => backup[p] # NoTree
TypeInv == LifecycleTypeOK /\ BackupHeld /\ faults \in 0..MaxFaults

Act(p) == Call(p) \/ LifecycleStep(p) \/ SystemCallFails(p) \/ InterruptRun(p) \/ Kill(p)

Exact(tree) == tree # NoTree /\ tree.state = "exact"

Alone == \A p, q \in Pids : place[p] # "idle" /\ place[q] # "idle" => p = q

\* What each program point of a run knows about the trees, and who gets there.
AtPlace(p) ==
  /\ place[p] \in Swapping \cup {"finally", "restore"} => cmd[p] = "upgrade"
  /\ place[p] \in Undoing \cup {"undo", "undoing"} => cmd[p] = "install"
  /\ place[p] \in {"remove", "removing"} => cmd[p] = "uninstall"
  /\ place[p] = "mkdir" => dest = NoTree
  /\ place[p] \in {"fill", "mark", "undo", "undoing", "removing"} => ~Complete(dest)
  /\ place[p] \in {"fill", "mark"} /\ dest # NoTree => dest.by = p
  /\ place[p] = "remove" => Exact(dest)
  /\ place[p] \in {"stage", "swap_out"} =>
       Exact(dest) /\ dest = prior[p] /\ version[p] > dest.version
  /\ place[p] \in {"swap_out", "swap_in"} => staging[p] = New(p)
  /\ place[p] \in {"swap_in", "swap_back"} =>
       dest = NoTree /\ Exact(backup[p]) /\ backup[p] = prior[p] /\ version[p] > backup[p].version
  /\ place[p] = "swap_back" => faults >= 1
  /\ place[p] \in {"drop", "dropping"} => dest = New(p)
  /\ place[p] = "drop" => backup[p] # NoTree /\ dest.version > backup[p].version
  /\ place[p] \in {"finally", "restore"} /\ MaxFaults <= 1 =>
       \/ dest # NoTree /\ dest \in {prior[p], New(p)} /\ Complete(dest)
       \/ faults >= 1 /\ dest = NoTree /\ backup[p] = prior[p] /\ Complete(backup[p])

Inv == TypeInv /\ Alone /\ \A p \in Pids : AtPlace(p)

-----------------------------------------------------------------------------
(* Types.                                                                  *)

\* The verified tree of a run is an exact one of its version.
LEMMA NewIsExact ==
  ASSUME version \in [Pids -> 1..MaxVersion], NEW p \in Pids
  PROVE  New(p) \in Tree /\ New(p) # NoTree /\ New(p).state = "exact" /\ New(p).version = version[p]
BY NoTreeAssumption DEF New, Tree

\* The initial trees and locals have their types.
LEMMA TypeInit == LifecycleInit => TypeInv
BY LifecycleAssumption DEF LifecycleInit, TypeInv, LifecycleTypeOK, BackupHeld, Commands, Places, Endings, Undoing, Swapping

\* A step of a run keeps the types.
LEMMA TypeStep ==
  ASSUME TypeInv, NEW p \in Pids, Act(p)
  PROVE  TypeInv'
<1> USE LifecycleAssumption DEF TypeInv, LifecycleTypeOK, BackupHeld, Commands, Places, Endings, Undoing, Swapping,
                                GotoPlace, EndRun, FailRun, New, run
<1>1. CASE Call(p)
  BY <1>1 DEF Call
<1>2. CASE RefuseRun(p)
  BY <1>2 DEF RefuseRun
<1>3. CASE InstallBegin(p)
  BY <1>3 DEF InstallBegin
<1>4. CASE InstallMkdir(p)
  BY <1>4 DEF InstallMkdir, Tree
<1>5. CASE InstallFill(p)
  BY <1>5 DEF InstallFill, Tree
<1>6. CASE InstallMark(p)
  BY <1>6 DEF InstallMark, Tree
<1>7. CASE InstallUndo(p)
  BY <1>7 DEF InstallUndo, Removing, Tree
<1>8. CASE UpgradeBegin(p)
  BY <1>8 DEF UpgradeBegin
<1>9. CASE UpgradeStage(p)
  BY <1>9 DEF UpgradeStage, Tree
<1>10. CASE UpgradeSwapOut(p)
  BY <1>10 DEF UpgradeSwapOut
<1>11. CASE UpgradeSwapIn(p)
  BY <1>11 DEF UpgradeSwapIn
<1>12. CASE UpgradeSwapBack(p)
  BY <1>12 DEF UpgradeSwapBack, MoveBack
<1>13. CASE UpgradeDrop(p)
  <2>1. place[p] = "drop" => Removing(backup[p]) \in Tree
    BY DEF Removing, Tree
  <2> QED BY <1>13, <2>1 DEF UpgradeDrop
<1>14. CASE UpgradeFinally(p)
  BY <1>14 DEF UpgradeFinally
<1>15. CASE UpgradeRestore(p)
  BY <1>15 DEF UpgradeRestore, MoveBack
<1>16. CASE UninstallBegin(p)
  BY <1>16 DEF UninstallBegin
<1>17. CASE UninstallRemove(p)
  <2>1. dest # NoTree => Removing(dest) \in Tree
    BY DEF Removing, Tree
  <2> QED BY <1>17, <2>1 DEF UninstallRemove
<1>18. CASE SystemCallFails(p)
  BY <1>18 DEF SystemCallFails, OnException
<1>19. CASE InterruptRun(p)
  BY <1>19 DEF InterruptRun, OnInterrupt
<1>20. CASE Kill(p)
  BY <1>20 DEF Kill
<1> QED BY <1>1, <1>2, <1>3, <1>4, <1>5, <1>6, <1>7, <1>8, <1>9, <1>10, <1>11, <1>12, <1>13, <1>14,
           <1>15, <1>16, <1>17, <1>18, <1>19, <1>20 DEF Act, LifecycleStep

\* An edit by the user keeps the types.
LEMMA TypeEdit == TypeInv /\ Edit => TypeInv'
BY DEF TypeInv, LifecycleTypeOK, BackupHeld, Edit, Tree, run

\* Every step keeps the types.
LEMMA TypeNext == TypeInv /\ [LifecycleNext]_lifecycleVars => TypeInv'
<1> SUFFICES ASSUME TypeInv, [LifecycleNext]_lifecycleVars PROVE TypeInv'
  OBVIOUS
<1>1. CASE UNCHANGED lifecycleVars
  BY <1>1 DEF lifecycleVars, TypeInv, LifecycleTypeOK, BackupHeld
<1>2. CASE Edit
  BY <1>2, TypeEdit
<1>3. CASE \E p \in Pids : Act(p)
  BY <1>3, TypeStep
<1> QED BY <1>1, <1>2, <1>3 DEF LifecycleNext, Act

\* Every tree and every local of the manager keeps its type, however many runs
\* overlap, fail, are interrupted or killed (manage.py).
THEOREM TypeCorrect == LifecycleSpec => []LifecycleTypeOK
<1>1. TypeInv => LifecycleTypeOK
  BY DEF TypeInv
<1> QED BY <1>1, TypeInit, TypeNext, PTL DEF LifecycleSpec

-----------------------------------------------------------------------------
(* Runs that do not overlap: all of them but p are idle.                   *)

\* The invariant holds before the first run.
LEMMA InvInit == LifecycleInit => Inv
<1> SUFFICES ASSUME LifecycleInit PROVE Inv
  OBVIOUS
<1>1. TypeInv
  BY TypeInit
<1>2. Alone /\ \A p \in Pids : AtPlace(p)
  BY DEF LifecycleInit, Alone, AtPlace, Swapping, Undoing
<1> QED BY <1>1, <1>2 DEF Inv

\* Of runs that do not overlap, all but the acting one are idle.
LEMMA OthersIdle ==
  ASSUME Inv, ~Concurrent, NEW p \in Pids, Act(p)
  PROVE  \A q \in Pids \ {p} : place[q] = "idle" /\ place'[q] = "idle"
<1>1. ASSUME NEW q \in Pids \ {p} PROVE place[q] = "idle"
  <2>1. CASE Call(p)
    BY <2>1 DEF Call
  <2>2. CASE place[p] # "idle"
    BY <2>2 DEF Inv, Alone
  <2>3. Call(p) \/ place[p] # "idle"
    BY DEF Act, LifecycleStep, RefuseRun, InstallBegin, InstallMkdir, InstallFill, InstallMark, InstallUndo,
           UpgradeBegin, UpgradeStage, UpgradeSwapOut, UpgradeSwapIn, UpgradeSwapBack, UpgradeDrop,
           UpgradeFinally, UpgradeRestore, UninstallBegin, UninstallRemove, SystemCallFails, InterruptRun, Kill
  <2> QED BY <2>1, <2>2, <2>3
<1>2. \E l : place' = [place EXCEPT ![p] = l]
  BY DEF Act, Call, LifecycleStep, RefuseRun, InstallBegin, InstallMkdir, InstallFill, InstallMark, InstallUndo,
         UpgradeBegin, UpgradeStage, UpgradeSwapOut, UpgradeSwapIn, UpgradeSwapBack, UpgradeDrop,
         UpgradeFinally, UpgradeRestore, UninstallBegin, UninstallRemove, SystemCallFails, InterruptRun, Kill,
         GotoPlace, EndRun, FailRun
<1>3. place \in [Pids -> Places]
  BY DEF Inv, TypeInv, LifecycleTypeOK
<1> QED BY <1>1, <1>2, <1>3

\* A step takes its run from what one program point promises to what the next does.
LEMMA PlaceStep ==
  ASSUME Inv, ~Concurrent, NEW p \in Pids, Act(p)
  PROVE  AtPlace(p)'
<1> USE LifecycleAssumption, NoTreeAssumption DEF Inv, TypeInv, LifecycleTypeOK, AtPlace, BackupHeld, Exact, Complete,
                                Swapping, Undoing, Commands, GotoPlace, EndRun, FailRun, New, run
<1>0. New(p) \in Tree /\ New(p) # NoTree
  BY NewIsExact
<1>1. CASE Call(p)
  BY <1>1 DEF Call
<1>2. CASE RefuseRun(p)
  BY <1>2 DEF RefuseRun
<1>3. CASE InstallBegin(p)
  BY <1>3 DEF InstallBegin
<1>4. CASE InstallMkdir(p)
  BY <1>4 DEF InstallMkdir
<1>5. CASE InstallFill(p)
  BY <1>5 DEF InstallFill, Tree
<1>6. CASE InstallMark(p)
  BY <1>6 DEF InstallMark
<1>7. CASE InstallUndo(p)
  BY <1>7 DEF InstallUndo, Removing, Tree
<1>8. CASE UpgradeBegin(p)
  BY <1>8 DEF UpgradeBegin
<1>9. CASE UpgradeStage(p)
  BY <1>9, <1>0 DEF UpgradeStage, Tree
<1>10. CASE UpgradeSwapOut(p)
  BY <1>10 DEF UpgradeSwapOut
<1>11. CASE UpgradeSwapIn(p)
  BY <1>11, <1>0 DEF UpgradeSwapIn, RenameMayFail
<1>12. CASE UpgradeSwapBack(p)
  BY <1>12 DEF UpgradeSwapBack, MoveBack, RenameMayFail
<1>13. CASE UpgradeDrop(p)
  BY <1>13, <1>0 DEF UpgradeDrop
<1>14. CASE UpgradeFinally(p)
  BY <1>14, <1>0 DEF UpgradeFinally
<1>15. CASE UpgradeRestore(p)
  BY <1>15, <1>0 DEF UpgradeRestore
<1>16. CASE UninstallBegin(p)
  BY <1>16 DEF UninstallBegin
<1>17. CASE UninstallRemove(p)
  BY <1>17 DEF UninstallRemove, Removing, Tree
<1>18. CASE SystemCallFails(p)
  BY <1>18, <1>0 DEF SystemCallFails, OnException
<1>19. CASE InterruptRun(p)
  BY <1>19, <1>0 DEF InterruptRun, OnInterrupt
<1>20. CASE Kill(p)
  BY <1>20 DEF Kill
<1> HIDE DEF Inv, TypeInv, LifecycleTypeOK, AtPlace, BackupHeld, Exact, Complete, Swapping, Undoing, Commands, GotoPlace, EndRun, FailRun, New, run
<1> QED BY <1>1, <1>2, <1>3, <1>4, <1>5, <1>6, <1>7, <1>8, <1>9, <1>10, <1>11, <1>12, <1>13, <1>14,
           <1>15, <1>16, <1>17, <1>18, <1>19, <1>20 DEF Act, LifecycleStep

\* Every step, runs in sequence, keeps the invariant.
LEMMA InvNext ==
  ASSUME Inv, ~Concurrent, [LifecycleNext]_lifecycleVars
  PROVE  Inv'
<1>1. TypeInv'
  BY TypeNext DEF Inv
<1>2. CASE UNCHANGED lifecycleVars
  BY <1>1, <1>2 DEF Inv, Alone, AtPlace, New, Exact, Complete, lifecycleVars
<1>3. CASE Edit
  <2>1. \A p \in Pids : place'[p] = "idle"
    BY <1>3 DEF Edit
  <2> QED BY <1>1, <2>1 DEF Inv, Alone, AtPlace, Swapping, Undoing
<1>4. ASSUME NEW p \in Pids, Act(p) PROVE Inv'
  <2>1. \A q \in Pids \ {p} : place'[q] = "idle"
    BY <1>4, OthersIdle
  <2>2. AtPlace(p)'
    BY <1>4, PlaceStep
  <2>3. \A q \in Pids \ {p} : AtPlace(q)'
    BY <2>1 DEF AtPlace, Swapping, Undoing
  <2>4. Alone'
    BY <2>1 DEF Alone
  <2> QED BY <1>1, <2>2, <2>3, <2>4 DEF Inv
<1> QED BY <1>2, <1>3, <1>4 DEF LifecycleNext, Act

\* While runs do not overlap, the program point of a run tells what is at the
\* destination, staged and in the backup (manage.py:179-222).
THEOREM Invariant == ASSUME ~Concurrent PROVE LifecycleSpec => []Inv
<1>1. Inv /\ [LifecycleNext]_lifecycleVars => Inv'
  BY InvNext
<1> QED BY <1>1, InvInit, PTL DEF LifecycleSpec

-----------------------------------------------------------------------------
(* What is promised of the trees.                                          *)

\* upgrade deletes a backup only with a newer verified tree at the destination
\* (manage.py:201-217), while runs do not overlap.
THEOREM BackupsAreOlder == ASSUME ~Concurrent PROVE LifecycleSpec => []ReplacedIsOlder
<1>1. Inv => ReplacedIsOlder
  BY NewIsExact DEF Inv, TypeInv, LifecycleTypeOK, AtPlace, ReplacedIsOlder
<1> QED BY <1>1, Invariant, PTL

\* No step of a run changes an edited tree at the destination.
LEMMA KeepsEdits ==
  ASSUME Inv, NEW p \in Pids, Act(p), dest # NoTree, dest.state = "edited"
  PROVE  dest' = dest
<1> USE NoTreeAssumption DEF Inv, TypeInv, LifecycleTypeOK, AtPlace, BackupHeld, Exact, Complete, Swapping, Undoing, GotoPlace, EndRun, FailRun, New, run
<1>0. New(p) \in Tree /\ New(p) # NoTree
  BY NewIsExact
<1>1. CASE Call(p)
  BY <1>1 DEF Call
<1>2. CASE RefuseRun(p)
  BY <1>2 DEF RefuseRun
<1>3. CASE InstallBegin(p)
  BY <1>3 DEF InstallBegin
<1>4. CASE InstallMkdir(p)
  BY <1>4 DEF InstallMkdir
<1>5. CASE InstallFill(p)
  BY <1>5 DEF InstallFill
<1>6. CASE InstallMark(p)
  BY <1>6 DEF InstallMark
<1>7. CASE InstallUndo(p)
  BY <1>7 DEF InstallUndo
<1>8. CASE UpgradeBegin(p)
  BY <1>8 DEF UpgradeBegin
<1>9. CASE UpgradeStage(p)
  BY <1>9, <1>0 DEF UpgradeStage
<1>10. CASE UpgradeSwapOut(p)
  BY <1>10 DEF UpgradeSwapOut
<1>11. CASE UpgradeSwapIn(p)
  BY <1>11, <1>0 DEF UpgradeSwapIn, MayRename
<1>12. CASE UpgradeSwapBack(p)
  BY <1>12 DEF UpgradeSwapBack, MoveBack, MayRename
<1>13. CASE UpgradeDrop(p)
  BY <1>13, <1>0 DEF UpgradeDrop
<1>14. CASE UpgradeFinally(p)
  BY <1>14, <1>0 DEF UpgradeFinally
<1>15. CASE UpgradeRestore(p)
  BY <1>15, <1>0 DEF UpgradeRestore, MoveBack
<1>16. CASE UninstallBegin(p)
  BY <1>16 DEF UninstallBegin
<1>17. CASE UninstallRemove(p)
  BY <1>17 DEF UninstallRemove
<1>18. CASE SystemCallFails(p)
  BY <1>18, <1>0 DEF SystemCallFails, OnException
<1>19. CASE InterruptRun(p)
  BY <1>19, <1>0 DEF InterruptRun, OnInterrupt
<1>20. CASE Kill(p)
  BY <1>20 DEF Kill
<1> HIDE DEF Inv, TypeInv, LifecycleTypeOK, AtPlace, BackupHeld, Exact, Complete, Swapping, Undoing, GotoPlace, EndRun, FailRun, New, run
<1> QED BY <1>1, <1>2, <1>3, <1>4, <1>5, <1>6, <1>7, <1>8, <1>9, <1>10, <1>11, <1>12, <1>13, <1>14,
           <1>15, <1>16, <1>17, <1>18, <1>19, <1>20 DEF Act, LifecycleStep

\* Edited content at the destination survives every later run: install, upgrade
\* and uninstall refuse it, and a failed one never reaches it (manage.py:88-163).
THEOREM EditsSurvive == ASSUME ~Concurrent PROVE LifecycleSpec => EditsArePreserved
<1>1. ASSUME Inv, [LifecycleNext]_lifecycleVars PROVE [dest # NoTree /\ dest.state = "edited" => dest' = dest]_lifecycleVars
  <2>1. CASE UNCHANGED lifecycleVars
    BY <2>1
  <2>2. CASE Edit
    BY <2>2 DEF Edit
  <2>3. CASE \E p \in Pids : Act(p)
    BY <1>1, <2>3, KeepsEdits
  <2> QED BY <1>1, <2>1, <2>2, <2>3 DEF LifecycleNext, Act
<1> QED BY <1>1, Invariant, PTL DEF LifecycleSpec, EditsArePreserved

\* What is complete somewhere stays complete somewhere.
LEMMA KeepsInstallation ==
  ASSUME Inv, ~Concurrent, NEW p \in Pids, Act(p), Installed, ~(cmd[p] = "uninstall" /\ place[p] = "remove")
  PROVE  Installed'
<1> USE NoTreeAssumption DEF Inv, TypeInv, LifecycleTypeOK, AtPlace, BackupHeld, Exact, Complete, Swapping, Undoing, GotoPlace, EndRun, FailRun, New, run, Installed
<1>0. New(p) \in Tree /\ New(p) # NoTree
  BY NewIsExact
<1>1. CASE Call(p)
  BY <1>1 DEF Call
<1>2. CASE RefuseRun(p)
  BY <1>2 DEF RefuseRun
<1>3. CASE InstallBegin(p)
  BY <1>3 DEF InstallBegin
<1>4. CASE InstallMkdir(p)
  BY <1>4 DEF InstallMkdir
<1>5. CASE InstallFill(p)
  BY <1>5 DEF InstallFill
<1>6. CASE InstallMark(p)
  BY <1>6 DEF InstallMark
<1>7. CASE InstallUndo(p)
  BY <1>7 DEF InstallUndo
<1>8. CASE UpgradeBegin(p)
  BY <1>8 DEF UpgradeBegin
<1>9. CASE UpgradeStage(p)
  BY <1>9, <1>0 DEF UpgradeStage
<1>10. CASE UpgradeSwapOut(p)
  BY <1>10 DEF UpgradeSwapOut
<1>11. CASE UpgradeSwapIn(p)
  BY <1>11, <1>0 DEF UpgradeSwapIn, MayRename
<1>12. CASE UpgradeSwapBack(p)
  BY <1>12 DEF UpgradeSwapBack, MoveBack, MayRename
<1>13. CASE UpgradeDrop(p)
  BY <1>13, <1>0 DEF UpgradeDrop
<1>14. CASE UpgradeFinally(p)
  BY <1>14, <1>0 DEF UpgradeFinally
<1>15. CASE UpgradeRestore(p)
  BY <1>15, <1>0 DEF UpgradeRestore, MoveBack
<1>16. CASE UninstallBegin(p)
  BY <1>16 DEF UninstallBegin
<1>17. CASE UninstallRemove(p)
  BY <1>17 DEF UninstallRemove
<1>18. CASE SystemCallFails(p)
  BY <1>18, <1>0 DEF SystemCallFails, OnException
<1>19. CASE InterruptRun(p)
  BY <1>19, <1>0 DEF InterruptRun, OnInterrupt
<1>20. CASE Kill(p)
  BY <1>20 DEF Kill
<1> HIDE DEF Inv, TypeInv, LifecycleTypeOK, AtPlace, BackupHeld, Exact, Complete, Swapping, Undoing, GotoPlace, EndRun, FailRun, New, run, Installed
<1> QED BY <1>1, <1>2, <1>3, <1>4, <1>5, <1>6, <1>7, <1>8, <1>9, <1>10, <1>11, <1>12, <1>13, <1>14,
           <1>15, <1>16, <1>17, <1>18, <1>19, <1>20 DEF Act, LifecycleStep

\* At every moment of any sequence of runs, killed and failing ones included, a
\* complete installation is at the destination or in a backup; only an uninstall
\* that has verified the tree ends that (manage.py:205-227).
THEOREM SomeInstallationSurvives == ASSUME ~Concurrent PROVE LifecycleSpec => InstallationSurvives
<1> DEFINE Survives == Installed /\ ~Installed' => \E p \in Pids : cmd[p] = "uninstall" /\ place[p] = "remove"
<1>1. ASSUME Inv, [LifecycleNext]_lifecycleVars PROVE [Survives]_lifecycleVars
  <2>1. CASE UNCHANGED lifecycleVars
    BY <2>1
  <2>2. CASE Edit
    BY <1>1, <2>2, NoTreeAssumption DEF Edit, Installed, Complete, Inv, TypeInv, LifecycleTypeOK, Tree
  <2>3. CASE \E p \in Pids : Act(p)
    BY <1>1, <2>3, KeepsInstallation
  <2> QED BY <1>1, <2>1, <2>2, <2>3 DEF LifecycleNext, Act
<1> QED BY <1>1, Invariant, PTL DEF LifecycleSpec, InstallationSurvives

\* How an upgrade beyond its checks ends otherwise than by a kill.
LEMMA EndsAllOrNothing ==
  ASSUME Inv, ~Concurrent, MaxFaults <= 1, NEW p \in Pids, Act(p),
         UpgradeFails(p)
  PROVE  dest' \in {prior[p], New(p)}
<1> USE NoTreeAssumption, LifecycleAssumption DEF Inv, TypeInv, LifecycleTypeOK, AtPlace, BackupHeld, Exact, Complete, Swapping, Undoing, GotoPlace, EndRun, FailRun, New, run, UpgradeFails
<1>0. New(p) \in Tree /\ New(p) # NoTree
  BY NewIsExact
<1>1. CASE Call(p)
  BY <1>1 DEF Call
<1>2. CASE RefuseRun(p)
  BY <1>2 DEF RefuseRun
<1>3. CASE InstallBegin(p)
  BY <1>3 DEF InstallBegin
<1>4. CASE InstallMkdir(p)
  BY <1>4 DEF InstallMkdir
<1>5. CASE InstallFill(p)
  BY <1>5 DEF InstallFill
<1>6. CASE InstallMark(p)
  BY <1>6 DEF InstallMark
<1>7. CASE InstallUndo(p)
  BY <1>7 DEF InstallUndo
<1>8. CASE UpgradeBegin(p)
  BY <1>8 DEF UpgradeBegin
<1>9. CASE UpgradeStage(p)
  BY <1>9, <1>0 DEF UpgradeStage
<1>10. CASE UpgradeSwapOut(p)
  BY <1>10 DEF UpgradeSwapOut
<1>11. CASE UpgradeSwapIn(p)
  BY <1>11, <1>0 DEF UpgradeSwapIn, MayRename
<1>12. CASE UpgradeSwapBack(p)
  BY <1>12 DEF UpgradeSwapBack, MoveBack, MayRename
<1>13. CASE UpgradeDrop(p)
  BY <1>13, <1>0 DEF UpgradeDrop
<1>14. CASE UpgradeFinally(p)
  BY <1>14, <1>0 DEF UpgradeFinally
<1>15. CASE UpgradeRestore(p)
  BY <1>15, <1>0 DEF UpgradeRestore, MoveBack
<1>16. CASE UninstallBegin(p)
  BY <1>16 DEF UninstallBegin
<1>17. CASE UninstallRemove(p)
  BY <1>17 DEF UninstallRemove
<1>18. CASE SystemCallFails(p)
  BY <1>18, <1>0 DEF SystemCallFails, OnException, Places
<1>19. CASE InterruptRun(p)
  BY <1>19, <1>0 DEF InterruptRun, OnInterrupt, Places
<1>20. CASE Kill(p)
  BY <1>20 DEF Kill
<1> HIDE DEF Inv, TypeInv, LifecycleTypeOK, AtPlace, BackupHeld, Exact, Complete, Swapping, Undoing, GotoPlace, EndRun, FailRun, New, run, UpgradeFails
<1> QED BY <1>1, <1>2, <1>3, <1>4, <1>5, <1>6, <1>7, <1>8, <1>9, <1>10, <1>11, <1>12, <1>13, <1>14,
           <1>15, <1>16, <1>17, <1>18, <1>19, <1>20 DEF Act, LifecycleStep

\* With at most one fault, an upgrade that got past its checks and fails or is
\* interrupted leaves the tree it found or the one it verified (manage.py:205-222).
THEOREM FailedUpgradeIsAtomic == ASSUME ~Concurrent, MaxFaults <= 1 PROVE LifecycleSpec => UpgradeIsAllOrNothing
<1> DEFINE Atomic(p) == UpgradeFails(p) => dest' \in {prior[p], New(p)}
<1>1. ASSUME Inv, [LifecycleNext]_lifecycleVars PROVE [\A p \in Pids : Atomic(p)]_lifecycleVars
  <2>1. CASE UNCHANGED lifecycleVars
    BY <2>1
  <2>2. CASE Edit
    BY <2>2 DEF Edit, UpgradeFails
  <2>3. ASSUME NEW p \in Pids, Act(p), NEW q \in Pids PROVE Atomic(q)
    <3>1. CASE q = p
      BY <1>1, <2>3, <3>1, EndsAllOrNothing
    <3>2. CASE q # p
      BY <1>1, <2>3, <3>2, OthersIdle DEF UpgradeFails
    <3> QED BY <3>1, <3>2
  <2> QED BY <1>1, <2>1, <2>2, <2>3 DEF LifecycleNext, Act
<1> QED BY <1>1, Invariant, PTL DEF LifecycleSpec, UpgradeIsAllOrNothing
=============================================================================
