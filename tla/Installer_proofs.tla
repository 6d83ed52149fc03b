-------------------------- MODULE Installer_proofs --------------------------
(***************************************************************************)
(* Proofs about Installer, for any set of generations and any number of    *)
(* failed writes and crashes.  IInv is shown inductive: one lemma per      *)
(* conjunct, one step per action in it.  The manifests are the heart of    *)
(* it: no step changes one (Kept), a new one names the ACTIVE generation,  *)
(* which has a manifest already, so the way back never closes on itself.   *)
(***************************************************************************)
EXTENDS Installer, TLAPS


\* What a step may do to the manifests and to what they must cover.
Kept ==
  \A g \in Generations : Readable(g) => manifest'[g] = manifest[g]
Grown ==
  \A g \in Generations :
    /\ tree'[g] # "absent" => tree[g] # "absent" \/ Readable(g)
    /\ active' = g => active = g \/ Readable(g)
Pointed ==
  active' # active /\ active' # None =>
    /\ tree[active'] # "absent"
    /\ op = "install" /\ active' = gen => receipt = gen /\ plan = gen
Written ==
  \A g \in Generations : Readable(g)' /\ ~Readable(g) =>
    /\ manifest'[g].prev = active
    /\ \A h \in Generations \ {g} : manifest'[h] = manifest[h]

\* A step cut short leaves files of the right types.
LEMMA InterruptedTypes ==
  ASSUME IInv, Interrupted
  PROVE  /\ active' \in Optional
         /\ tree' \in [Generations -> TreeStates]
         /\ saved' \subseteq Generations
         /\ manifest' \in [Generations -> Snapshots \union {None, Torn}]
         /\ receipt' \in Optional \union {Torn}
         /\ plan' \in Optional /\ campaign' \in Optional \union {Torn}
<1>1. TypeOK /\ Journey
  BY DEF IInv
<1>2. pc = "restore" => manifest[gen] \in Snapshots
  BY <1>1 DEF TypeOK, Journey, Backed, Readable
<1>3. plan' \in Optional /\ campaign' \in Optional \union {Torn}
  BY <1>1, <1>2 DEF TypeOK, Interrupted, InterruptedFiles, Snapshots, Optional
<1>4. tree' \in [Generations -> TreeStates]
  <2>1. CASE pc \in {"discard", "drop"}
    BY <1>1, <2>1 DEF TypeOK, Interrupted, InterruptedTree, TreeStates
  <2>2. CASE pc = "swap"
    BY <1>1, <2>2 DEF TypeOK, Interrupted, InterruptedTree, TreeStates
  <2>3. CASE pc \notin {"discard", "drop", "swap"}
    BY <1>1, <2>3 DEF TypeOK, Interrupted, InterruptedTree, TreeStates
  <2>4. QED
    BY <2>1, <2>2, <2>3
<1>5. saved' \subseteq Generations
  BY <1>1 DEF TypeOK, Interrupted, Copying
<1>6. manifest' \in [Generations -> Snapshots \union {None, Torn}]
  BY <1>1 DEF TypeOK, Interrupted
<1>7. active' \in Optional /\ receipt' \in Optional \union {Torn}
  BY <1>1 DEF TypeOK, Interrupted
<1>8. QED
  BY <1>3, <1>4, <1>5, <1>6, <1>7

\* Every step keeps the types of the variables.
LEMMA TypeStep == IInv /\ [Next]_vars => TypeOK'
<1> SUFFICES ASSUME IInv, [Next]_vars PROVE TypeOK'
  OBVIOUS
<1> USE DEF IInv, TypeOK, Optional, Labels, Results, TreeStates, Goto, Ends,
    diskVars, dshVars, cmdVars, envVars
<1>2. ASSUME NEW g \in Generations, InstallBegins(g) PROVE TypeOK'
  BY <1>2 DEF InstallBegins
<1>3. ASSUME NEW g \in Generations, NoOp(g) PROVE TypeOK'
  BY <1>3, BoundsAssumption DEF NoOp
<1>4. CASE Discard BY <1>4 DEF Discard
<1>5. CASE ReuseBackup BY <1>5 DEF ReuseBackup, BackupIntact
<1>6. CASE RefuseBackup BY <1>6 DEF RefuseBackup
<1>7. CASE CopyBackup BY <1>7 DEF CopyBackup, Copying, HasBackup
<1>8. CASE WriteManifest
  BY <1>8 DEF WriteManifest, Journey, Snapshots, TreeOf
<1>9. CASE Swap BY <1>9 DEF Swap
<1>10. CASE InstallFails
  <2>1. /\ active' \in Optional /\ tree' \in [Generations -> TreeStates]
        /\ saved' \subseteq Generations
        /\ manifest' \in [Generations -> Snapshots \union {None, Torn}]
        /\ receipt' \in Optional \union {Torn}
        /\ plan' \in Optional /\ campaign' \in Optional \union {Torn}
    BY <1>10, InterruptedTypes DEF InstallFails
  <2>2. configured' \in Optional /\ running' \in Optional
    BY <1>10 DEF InstallFails, IInv, TypeOK, dshVars
  <2>3. fresh' \in BOOLEAN
    BY <1>10 DEF InstallFails, IInv, TypeOK, cmdVars
  <2>4. pc' \in Labels /\ last' \in Results
    BY <1>10 DEF InstallFails, IInv, TypeOK, Goto, Ends, Labels, Results
  <2>5. /\ op' \in {"install", "rollback", "uninstall"} /\ gen' \in Generations
        /\ faults' \in 0 .. MaxFaults /\ crashes' \in 0 .. MaxCrashes
    BY <1>10, BoundsAssumption DEF InstallFails, IInv, TypeOK, cmdVars
  <2>6. QED
    BY <2>1, <2>2, <2>3, <2>4, <2>5 DEF TypeOK
<1>11. CASE Prepare BY <1>11 DEF Prepare
<1>12. CASE AlreadyActive
  <2>1. fresh' \in BOOLEAN
    BY <1>12 DEF AlreadyActive
  <2>2. QED
    BY <1>12, <2>1 DEF AlreadyActive, IInv, TypeOK, Labels, Goto, diskVars, dshVars,
       envVars
<1>13. CASE BundleApplied BY <1>13 DEF BundleApplied
<1>14. CASE RestartRequired BY <1>14 DEF RestartRequired
<1>15. CASE Verify BY <1>15 DEF Verify
<1>16. CASE UnlinkReceipt BY <1>16 DEF UnlinkReceipt
<1>17. CASE WriteReceipt BY <1>17 DEF WriteReceipt
<1>18. CASE SwapPointer BY <1>18 DEF SwapPointer
<1>19. CASE WriteCampaign BY <1>19 DEF WriteCampaign
<1>20. CASE StepFails
  <2>1. /\ active' \in Optional /\ tree' \in [Generations -> TreeStates]
        /\ saved' \subseteq Generations
        /\ manifest' \in [Generations -> Snapshots \union {None, Torn}]
        /\ receipt' \in Optional \union {Torn}
        /\ plan' \in Optional /\ campaign' \in Optional \union {Torn}
    BY <1>20, InterruptedTypes DEF StepFails
  <2>2. configured' \in Optional /\ running' \in Optional
    BY <1>20 DEF StepFails, IInv, TypeOK, Optional, RemoveBundle, dshVars
  <2>3. fresh' \in BOOLEAN
    BY <1>20 DEF StepFails, IInv, TypeOK, cmdVars
  <2>4. pc' \in Labels /\ last' \in Results
    BY <1>20 DEF StepFails, IInv, TypeOK, Goto, Ends, Labels, Results
  <2>5. /\ op' \in {"install", "rollback", "uninstall"} /\ gen' \in Generations
        /\ faults' \in 0 .. MaxFaults /\ crashes' \in 0 .. MaxCrashes
    BY <1>20, BoundsAssumption DEF StepFails, IInv, TypeOK, cmdVars
  <2>6. QED
    BY <2>1, <2>2, <2>3, <2>4, <2>5 DEF TypeOK
<1>21. ASSUME NEW g \in Generations, RollbackBegins(g) PROVE TypeOK'
  BY <1>21 DEF RollbackBegins
<1>22. CASE UndoInstall BY <1>22 DEF UndoInstall, RemoveBundle
<1>23. CASE RestoreCampaign
  BY <1>23 DEF RestoreCampaign, Journey, Backed, Readable, Snapshots,
     Restored, Publishing
<1>24. CASE DropReceipt BY <1>24 DEF DropReceipt
<1>25. CASE RewriteReceipt
  BY <1>25 DEF RewriteReceipt, Journey, Backed, Readable, Snapshots, Restored,
     Publishing
<1>26. CASE Republish
  BY <1>26 DEF Republish, Journey, Backed, Readable, Snapshots, Restored,
     Publishing
<1>27. CASE Repoint
  BY <1>27 DEF Repoint, Journey, Backed, Readable, Snapshots, Restored,
     Publishing
<1>28. CASE DropTree BY <1>28 DEF DropTree
<1>29. CASE RollbackFails
  <2>1. /\ active' \in Optional /\ tree' \in [Generations -> TreeStates]
        /\ saved' \subseteq Generations
        /\ manifest' \in [Generations -> Snapshots \union {None, Torn}]
        /\ receipt' \in Optional \union {Torn}
        /\ plan' \in Optional /\ campaign' \in Optional \union {Torn}
    BY <1>29, InterruptedTypes DEF RollbackFails
  <2>2. configured' \in Optional /\ running' \in Optional
    BY <1>29 DEF RollbackFails, IInv, TypeOK, Optional, Journey, Backed, Restored, Readable, Snapshots
  <2>3. fresh' \in BOOLEAN
    BY <1>29 DEF RollbackFails, IInv, TypeOK, cmdVars
  <2>4. pc' \in Labels /\ last' \in Results
    BY <1>29 DEF RollbackFails, IInv, TypeOK, Goto, Ends, Labels, Results
  <2>5. /\ op' \in {"install", "rollback", "uninstall"} /\ gen' \in Generations
        /\ faults' \in 0 .. MaxFaults /\ crashes' \in 0 .. MaxCrashes
    BY <1>29, BoundsAssumption DEF RollbackFails, IInv, TypeOK, cmdVars
  <2>6. QED
    BY <2>1, <2>2, <2>3, <2>4, <2>5 DEF TypeOK
<1>30. CASE UninstallBegins BY <1>30 DEF UninstallBegins
<1>31. CASE UninstallReceipt BY <1>31 DEF UninstallReceipt
<1>32. CASE UninstallPointer BY <1>32 DEF UninstallPointer
<1>33. CASE UninstallUnpublished BY <1>33 DEF UninstallUnpublished
<1>34. CASE DshRestarts BY <1>34 DEF DshRestarts
<1>35. CASE Crash
  <2>1. /\ active' \in Optional /\ tree' \in [Generations -> TreeStates]
        /\ saved' \subseteq Generations
        /\ manifest' \in [Generations -> Snapshots \union {None, Torn}]
        /\ receipt' \in Optional \union {Torn}
        /\ plan' \in Optional /\ campaign' \in Optional \union {Torn}
    BY <1>35, InterruptedTypes DEF Crash
  <2>2. configured' \in Optional /\ running' \in Optional
    BY <1>35 DEF Crash, IInv, TypeOK, dshVars
  <2>3. fresh' \in BOOLEAN
    BY <1>35 DEF Crash, IInv, TypeOK, cmdVars
  <2>4. pc' \in Labels /\ last' \in Results
    BY <1>35 DEF Crash, IInv, TypeOK, Goto, Ends, Labels, Results
  <2>5. /\ op' \in {"install", "rollback", "uninstall"} /\ gen' \in Generations
        /\ faults' \in 0 .. MaxFaults /\ crashes' \in 0 .. MaxCrashes
    BY <1>35, BoundsAssumption DEF Crash, IInv, TypeOK, cmdVars
  <2>6. QED
    BY <2>1, <2>2, <2>3, <2>4, <2>5 DEF TypeOK
<1>36. CASE UNCHANGED vars
  BY <1>36 DEF vars
<1>37. QED
  BY <1>2, <1>3, <1>4, <1>5, <1>6, <1>7, <1>8, <1>9, <1>10, <1>11, <1>12,
     <1>13, <1>14, <1>15, <1>16, <1>17, <1>18, <1>19, <1>20, <1>21, <1>22,
     <1>23, <1>24, <1>25, <1>26, <1>27, <1>28, <1>29, <1>30, <1>31, <1>32,
     <1>33, <1>34, <1>35, <1>36 DEF Next, Installing, RollingBack,
     Uninstalling

\* No step changes a manifest that can be read.
LEMMA KeptStep == IInv /\ [Next]_vars => Kept
<1> SUFFICES ASSUME IInv, [Next]_vars PROVE Kept
  OBVIOUS
<1> USE DEF IInv, Kept, Goto, Ends, diskVars, dshVars, cmdVars, envVars
<1>2. ASSUME NEW g \in Generations, InstallBegins(g) PROVE Kept
  BY <1>2 DEF InstallBegins
<1>3. ASSUME NEW g \in Generations, NoOp(g) PROVE Kept BY <1>3 DEF NoOp
<1>4. CASE Discard BY <1>4 DEF Discard
<1>5. CASE ReuseBackup BY <1>5 DEF ReuseBackup, BackupIntact
<1>6. CASE RefuseBackup BY <1>6 DEF RefuseBackup
<1>7. CASE CopyBackup BY <1>7 DEF CopyBackup, Copying, HasBackup
<1>8. CASE WriteManifest
  BY <1>8 DEF WriteManifest, Journey, TypeOK, Readable
<1>9. CASE Swap BY <1>9 DEF Swap
<1>10. CASE InstallFails
  BY <1>10 DEF InstallFails, Interrupted, InterruptedFiles, InterruptedTree,
     Journey, TypeOK, Readable
<1>11. CASE Prepare BY <1>11 DEF Prepare
<1>12. CASE AlreadyActive BY <1>12 DEF AlreadyActive
<1>13. CASE BundleApplied BY <1>13 DEF BundleApplied
<1>14. CASE RestartRequired BY <1>14 DEF RestartRequired
<1>15. CASE Verify BY <1>15 DEF Verify
<1>16. CASE UnlinkReceipt BY <1>16 DEF UnlinkReceipt
<1>17. CASE WriteReceipt BY <1>17 DEF WriteReceipt
<1>18. CASE SwapPointer BY <1>18 DEF SwapPointer
<1>19. CASE WriteCampaign BY <1>19 DEF WriteCampaign
<1>20. CASE StepFails
  BY <1>20 DEF StepFails, RemoveBundle, Interrupted, InterruptedFiles,
     InterruptedTree, Journey, TypeOK, Readable
<1>21. ASSUME NEW g \in Generations, RollbackBegins(g) PROVE Kept
  BY <1>21 DEF RollbackBegins
<1>22. CASE UndoInstall BY <1>22 DEF UndoInstall, RemoveBundle
<1>23. CASE RestoreCampaign BY <1>23 DEF RestoreCampaign
<1>24. CASE DropReceipt BY <1>24 DEF DropReceipt
<1>25. CASE RewriteReceipt BY <1>25 DEF RewriteReceipt
<1>26. CASE Republish BY <1>26 DEF Republish
<1>27. CASE Repoint BY <1>27 DEF Repoint
<1>28. CASE DropTree BY <1>28 DEF DropTree
<1>29. CASE RollbackFails
  BY <1>29 DEF RollbackFails, Interrupted, InterruptedFiles, InterruptedTree,
     Journey, TypeOK, Readable
<1>30. CASE UninstallBegins BY <1>30 DEF UninstallBegins
<1>31. CASE UninstallReceipt BY <1>31 DEF UninstallReceipt
<1>32. CASE UninstallPointer BY <1>32 DEF UninstallPointer
<1>33. CASE UninstallUnpublished BY <1>33 DEF UninstallUnpublished
<1>34. CASE DshRestarts BY <1>34 DEF DshRestarts
<1>35. CASE Crash
  BY <1>35 DEF Crash, Interrupted, InterruptedFiles, InterruptedTree, Journey,
     TypeOK, Readable
<1>36. CASE UNCHANGED vars
  BY <1>36 DEF vars
<1>37. QED
  BY <1>2, <1>3, <1>4, <1>5, <1>6, <1>7, <1>8, <1>9, <1>10, <1>11, <1>12,
     <1>13, <1>14, <1>15, <1>16, <1>17, <1>18, <1>19, <1>20, <1>21, <1>22,
     <1>23, <1>24, <1>25, <1>26, <1>27, <1>28, <1>29, <1>30, <1>31, <1>32,
     <1>33, <1>34, <1>35, <1>36 DEF Next, Installing, RollingBack,
     Uninstalling

\* A step cut short leaves in place only what was there or has a manifest.
LEMMA InterruptedGrows ==
  ASSUME IInv, Interrupted, NEW g \in Generations, tree'[g] # "absent"
  PROVE  tree[g] # "absent" \/ Readable(g)
<1>1. TypeOK /\ Journey
  BY DEF IInv
<1>2. CASE pc = "discard"
  BY <1>1, <1>2 DEF TypeOK, Journey, Interrupted, InterruptedTree
<1>3. CASE pc \in {"drop", "swap"}
  <2>1. Readable(gen)
    BY <1>1, <1>3 DEF Journey, Backed, Restored
  <2>2. g # gen => tree'[g] = tree[g]
    BY <1>1, <1>3 DEF TypeOK, Interrupted, InterruptedTree
  <2>3. QED
    BY <2>1, <2>2
<1>4. CASE pc \notin {"discard", "drop", "swap"}
  BY <1>4 DEF Interrupted, InterruptedTree
<1>5. QED
  BY <1>2, <1>3, <1>4

\* A generation is put in place, or becomes the ACTIVE one, only when it has
\* a manifest.
LEMMA GrowStep == IInv /\ [Next]_vars => Grown
<1> SUFFICES ASSUME IInv, [Next]_vars PROVE Grown
  OBVIOUS
<1> USE DEF IInv, Grown, Goto, Ends, diskVars, dshVars, cmdVars, envVars
<1>2. ASSUME NEW g \in Generations, InstallBegins(g) PROVE Grown
  BY <1>2, NamesAssumption DEF InstallBegins
<1>3. ASSUME NEW g \in Generations, NoOp(g) PROVE Grown
  BY <1>3, NamesAssumption DEF NoOp
<1>4. CASE Discard
  BY <1>4, NamesAssumption DEF Discard, Journey, TypeOK, Readable, Backed,
     Publishing, Restored
<1>5. CASE ReuseBackup BY <1>5, NamesAssumption DEF ReuseBackup, BackupIntact
<1>6. CASE RefuseBackup BY <1>6, NamesAssumption DEF RefuseBackup
<1>7. CASE CopyBackup
  BY <1>7, NamesAssumption DEF CopyBackup, Copying, HasBackup
<1>8. CASE WriteManifest BY <1>8, NamesAssumption DEF WriteManifest
<1>9. CASE Swap
  BY <1>9, NamesAssumption DEF Swap, Journey, TypeOK, Readable, Backed,
     Publishing, Restored
<1>10. CASE InstallFails
  BY <1>10, InterruptedGrows DEF InstallFails, Grown, Interrupted
<1>11. CASE Prepare BY <1>11, NamesAssumption DEF Prepare
<1>12. CASE AlreadyActive BY <1>12, NamesAssumption DEF AlreadyActive
<1>13. CASE BundleApplied BY <1>13, NamesAssumption DEF BundleApplied
<1>14. CASE RestartRequired BY <1>14, NamesAssumption DEF RestartRequired
<1>15. CASE Verify BY <1>15, NamesAssumption DEF Verify
<1>16. CASE UnlinkReceipt BY <1>16, NamesAssumption DEF UnlinkReceipt
<1>17. CASE WriteReceipt BY <1>17, NamesAssumption DEF WriteReceipt
<1>18. CASE SwapPointer
  BY <1>18, NamesAssumption DEF SwapPointer, Journey, TypeOK, Readable,
     Backed, Publishing, Restored
<1>19. CASE WriteCampaign BY <1>19, NamesAssumption DEF WriteCampaign
<1>20. CASE StepFails
  BY <1>20, InterruptedGrows DEF StepFails, Grown, Interrupted
<1>21. ASSUME NEW g \in Generations, RollbackBegins(g) PROVE Grown
  BY <1>21, NamesAssumption DEF RollbackBegins
<1>22. CASE UndoInstall BY <1>22, NamesAssumption DEF UndoInstall, RemoveBundle
<1>23. CASE RestoreCampaign BY <1>23, NamesAssumption DEF RestoreCampaign
<1>24. CASE DropReceipt BY <1>24, NamesAssumption DEF DropReceipt
<1>25. CASE RewriteReceipt BY <1>25, NamesAssumption DEF RewriteReceipt
<1>26. CASE Republish BY <1>26, NamesAssumption DEF Republish
<1>27. CASE Repoint
  <2>1. manifest[gen] \in Snapshots /\ Readable(gen)
    BY <1>27 DEF IInv, TypeOK, Journey, Backed, Restored, Readable, Repoint
  <2>2. UNCHANGED tree
    BY <1>27 DEF Repoint
  <2>3. active' \in Generations => active' = active \/ tree[active'] # "absent"
    BY <1>27, <2>1, NamesAssumption DEF Repoint, Snapshots, Optional, Goto, Ends
  <2>4. active' \in Generations => active' = active \/ Readable(active')
    BY <2>3 DEF IInv, WayBack
  <2>5. QED
    BY <2>2, <2>4 DEF Grown
<1>28. CASE DropTree
  BY <1>28, NamesAssumption DEF DropTree, Journey, TypeOK, Readable, Backed,
     Publishing, Restored
<1>29. CASE RollbackFails
  BY <1>29, InterruptedGrows DEF RollbackFails, Grown, Interrupted
<1>30. CASE UninstallBegins BY <1>30, NamesAssumption DEF UninstallBegins
<1>31. CASE UninstallReceipt BY <1>31, NamesAssumption DEF UninstallReceipt
<1>32. CASE UninstallPointer BY <1>32, NamesAssumption DEF UninstallPointer
<1>33. CASE UninstallUnpublished
  BY <1>33, NamesAssumption DEF UninstallUnpublished
<1>34. CASE DshRestarts BY <1>34, NamesAssumption DEF DshRestarts
<1>35. CASE Crash
  BY <1>35, InterruptedGrows DEF Crash, Grown, Interrupted
<1>36. CASE UNCHANGED vars
  BY <1>36, NamesAssumption DEF vars
<1>37. QED
  BY <1>2, <1>3, <1>4, <1>5, <1>6, <1>7, <1>8, <1>9, <1>10, <1>11, <1>12,
     <1>13, <1>14, <1>15, <1>16, <1>17, <1>18, <1>19, <1>20, <1>21, <1>22,
     <1>23, <1>24, <1>25, <1>26, <1>27, <1>28, <1>29, <1>30, <1>31, <1>32,
     <1>33, <1>34, <1>35, <1>36 DEF Next, Installing, RollingBack,
     Uninstalling

\* Only the write of a manifest makes one readable: it is the generation in
\* hand, its manifest was missing, and the new one names the ACTIVE one.
LEMMA WriteStep == IInv /\ [Next]_vars => Written
<1> SUFFICES ASSUME IInv, [Next]_vars PROVE Written
  OBVIOUS
<1> USE DEF IInv, Written, Readable, Goto, Ends, diskVars, dshVars, cmdVars,
    envVars
<1>2. ASSUME NEW g \in Generations, InstallBegins(g) PROVE Written
  BY <1>2 DEF InstallBegins
<1>3. ASSUME NEW g \in Generations, NoOp(g) PROVE Written BY <1>3 DEF NoOp
<1>4. CASE Discard BY <1>4 DEF Discard
<1>5. CASE ReuseBackup BY <1>5 DEF ReuseBackup, BackupIntact
<1>6. CASE RefuseBackup BY <1>6 DEF RefuseBackup
<1>7. CASE CopyBackup BY <1>7 DEF CopyBackup, Copying, HasBackup
<1>8. CASE WriteManifest
  BY <1>8 DEF WriteManifest, Journey, TypeOK
<1>9. CASE Swap BY <1>9 DEF Swap
<1>10. CASE InstallFails
  BY <1>10 DEF InstallFails, Interrupted, InterruptedFiles, InterruptedTree,
     Journey, TypeOK
<1>11. CASE Prepare BY <1>11 DEF Prepare
<1>12. CASE AlreadyActive BY <1>12 DEF AlreadyActive
<1>13. CASE BundleApplied BY <1>13 DEF BundleApplied
<1>14. CASE RestartRequired BY <1>14 DEF RestartRequired
<1>15. CASE Verify BY <1>15 DEF Verify
<1>16. CASE UnlinkReceipt BY <1>16 DEF UnlinkReceipt
<1>17. CASE WriteReceipt BY <1>17 DEF WriteReceipt
<1>18. CASE SwapPointer BY <1>18 DEF SwapPointer
<1>19. CASE WriteCampaign BY <1>19 DEF WriteCampaign
<1>20. CASE StepFails
  BY <1>20 DEF StepFails, RemoveBundle, Interrupted, InterruptedFiles,
     InterruptedTree, Journey, TypeOK
<1>21. ASSUME NEW g \in Generations, RollbackBegins(g) PROVE Written
  BY <1>21 DEF RollbackBegins
<1>22. CASE UndoInstall BY <1>22 DEF UndoInstall, RemoveBundle
<1>23. CASE RestoreCampaign BY <1>23 DEF RestoreCampaign
<1>24. CASE DropReceipt BY <1>24 DEF DropReceipt
<1>25. CASE RewriteReceipt BY <1>25 DEF RewriteReceipt
<1>26. CASE Republish BY <1>26 DEF Republish
<1>27. CASE Repoint BY <1>27 DEF Repoint
<1>28. CASE DropTree BY <1>28 DEF DropTree
<1>29. CASE RollbackFails
  BY <1>29 DEF RollbackFails, Interrupted, InterruptedFiles, InterruptedTree,
     Journey, TypeOK
<1>30. CASE UninstallBegins BY <1>30 DEF UninstallBegins
<1>31. CASE UninstallReceipt BY <1>31 DEF UninstallReceipt
<1>32. CASE UninstallPointer BY <1>32 DEF UninstallPointer
<1>33. CASE UninstallUnpublished BY <1>33 DEF UninstallUnpublished
<1>34. CASE DshRestarts BY <1>34 DEF DshRestarts
<1>35. CASE Crash
  BY <1>35 DEF Crash, Interrupted, InterruptedFiles, InterruptedTree, Journey,
     TypeOK
<1>36. CASE UNCHANGED vars
  BY <1>36 DEF vars
<1>37. QED
  BY <1>2, <1>3, <1>4, <1>5, <1>6, <1>7, <1>8, <1>9, <1>10, <1>11, <1>12,
     <1>13, <1>14, <1>15, <1>16, <1>17, <1>18, <1>19, <1>20, <1>21, <1>22,
     <1>23, <1>24, <1>25, <1>26, <1>27, <1>28, <1>29, <1>30, <1>31, <1>32,
     <1>33, <1>34, <1>35, <1>36 DEF Next, Installing, RollingBack,
     Uninstalling

\* A manifest that names a generation names one that has a manifest.
LEMMA PrevKnownStep == IInv /\ [Next]_vars => PrevKnown'
<1> SUFFICES ASSUME IInv, [Next]_vars, NEW g \in Generations,
                    Readable(g)', manifest'[g].prev # None
             PROVE  manifest'[manifest'[g].prev] \notin {None, Torn}
  BY DEF PrevKnown, Readable
<1> DEFINE h == manifest'[g].prev
<1>1. Kept /\ Written /\ TypeOK'
  BY KeptStep, WriteStep, TypeStep
<1>2. h \in Generations
  BY <1>1 DEF TypeOK, Readable, Snapshots, Optional
<1>3. Readable(h) => manifest'[h] = manifest[h]
  BY <1>1, <1>2 DEF Kept
<1>4. CASE Readable(g)
  <2>1. manifest'[g] = manifest[g]
    BY <1>1, <1>4 DEF Kept
  <2>2. Readable(h)
    BY <1>4, <2>1 DEF IInv, PrevKnown
  <2>3. QED
    BY <1>3, <2>2 DEF Readable
<1>5. CASE ~Readable(g)
  <2>1. h = active
    BY <1>1, <1>5 DEF Written
  <2>2. Readable(h)
    BY <1>2, <2>1 DEF IInv, WayBack
  <2>3. QED
    BY <1>3, <2>2 DEF Readable
<1>6. QED
  BY <1>4, <1>5

\* A new manifest leads to the ACTIVE generation, which is not the new one, and
\* none led to the new one: the manifests still lead out of every set.
LEMMA RollbackEndsStep == IInv /\ [Next]_vars => RollbackEnds'
<1> SUFFICES ASSUME IInv, [Next]_vars,
                    NEW S \in (SUBSET Generations) \ {{}}
             PROVE  \E g \in S : Readable(g)' => manifest'[g].prev \notin S
  BY DEF RollbackEnds
<1>1. Kept /\ Written /\ TypeOK /\ PrevKnown /\ WayBack /\ RollbackEnds
  BY KeptStep, WriteStep DEF IInv
<1>2. CASE \E n \in S : Readable(n)' /\ ~Readable(n)
  <2>1. PICK n \in S : Readable(n)' /\ ~Readable(n)
    BY <1>2
  <2>2. /\ manifest'[n].prev = active
        /\ \A h \in Generations \ {n} : manifest'[h] = manifest[h]
    BY <1>1, <2>1 DEF Written
  <2>3. CASE active \notin S
    BY <2>1, <2>2, <2>3
  <2>4. CASE active \in S
    <3>1. Readable(active) /\ active # n
      BY <1>1, <2>1, <2>4 DEF WayBack
    <3> DEFINE R == S \ {n}
    <3>2. R \in (SUBSET Generations) \ {{}}
      BY <2>4, <3>1
    <3>3. PICK g \in R : Readable(g) => manifest[g].prev \notin R
      BY <1>1, <3>2 DEF RollbackEnds
    <3>4. manifest'[g] = manifest[g] /\ g # n /\ g \in Generations
      BY <2>2, <3>3
    <3>5. Readable(g) => manifest[g].prev # n
      <4>1. ASSUME Readable(g), manifest[g].prev = n PROVE FALSE
        <5>1. n # None
          BY NamesAssumption
        <5>2. Readable(n)
          BY <1>1, <3>4, <4>1, <5>1 DEF PrevKnown
        <5>3. QED
          BY <2>1, <5>2
      <4>2. QED
        BY <4>1
    <3>6. Readable(g)' => Readable(g)
      BY <3>4 DEF Readable
    <3>7. QED
      BY <3>3, <3>4, <3>5, <3>6
  <2>5. QED
    BY <2>3, <2>4
<1>3. CASE \A n \in S : Readable(n)' => Readable(n)
  <2>1. PICK g \in S : Readable(g) => manifest[g].prev \notin S
    BY <1>1 DEF RollbackEnds
  <2>2. Readable(g) => manifest'[g] = manifest[g]
    BY <1>1 DEF Kept
  <2>3. QED
    BY <1>3, <2>1, <2>2
<1>4. QED
  BY <1>2, <1>3

\* What is in place, or ACTIVE, keeps its way back.
LEMMA WayBackStep == IInv /\ [Next]_vars => WayBack'
<1> SUFFICES ASSUME IInv, [Next]_vars, NEW g \in Generations,
                    tree'[g] # "absent" \/ active' = g
             PROVE  Readable(g)' /\ manifest'[g].prev # g
  BY DEF WayBack
<1>1. Kept /\ Grown /\ RollbackEnds'
  BY KeptStep, GrowStep, RollbackEndsStep
<1>2. Readable(g)
  BY <1>1 DEF Grown, IInv, WayBack
<1>3. Readable(g)'
  BY <1>1, <1>2 DEF Kept, Readable
<1>4. \E h \in {g} : Readable(h)' => manifest'[h].prev \notin {g}
  BY <1>1 DEF RollbackEnds
<1>5. QED
  BY <1>3, <1>4

\* Every write finds what the writes before it left.
LEMMA JourneyStep == IInv /\ [Next]_vars => Journey'
<1> SUFFICES ASSUME IInv, [Next]_vars PROVE Journey'
  OBVIOUS
<1> USE DEF IInv, TypeOK, Journey, Backed, Publishing, Restored, Readable,
    Goto, Ends, diskVars, dshVars, cmdVars, envVars
<1>2. ASSUME NEW g \in Generations, InstallBegins(g) PROVE Journey'
  BY <1>2 DEF InstallBegins
<1>3. ASSUME NEW g \in Generations, NoOp(g) PROVE Journey' BY <1>3 DEF NoOp
<1>4. CASE Discard BY <1>4 DEF Discard
<1>5. CASE ReuseBackup BY <1>5 DEF ReuseBackup, BackupIntact
<1>6. CASE RefuseBackup BY <1>6 DEF RefuseBackup
<1>7. CASE CopyBackup
  BY <1>7 DEF CopyBackup, Copying, HasBackup
<1>8. CASE WriteManifest
  <2>1. manifest'[gen] \in Snapshots
    <3>1. TreeOf(active) \in TreeStates
      BY DEF TreeOf, IInv, TypeOK, Optional, TreeStates
    <3>2. QED
      BY <1>8, <3>1 DEF WriteManifest, IInv, TypeOK, Journey, Snapshots, Optional
  <2>2. manifest'[gen] \notin {None, Torn}
    BY <2>1, FilesAssumption
  <2>3. QED
    BY <1>8, <2>2 DEF WriteManifest, Goto, cmdVars, Journey, Backed, Publishing,
       Restored, Readable
<1>9. CASE Swap BY <1>9 DEF Swap
<1>10. CASE InstallFails
  BY <1>10 DEF InstallFails, Interrupted, InterruptedFiles, InterruptedTree
<1>11. CASE Prepare BY <1>11 DEF Prepare
<1>12. CASE AlreadyActive BY <1>12 DEF AlreadyActive
<1>13. CASE BundleApplied BY <1>13 DEF BundleApplied
<1>14. CASE RestartRequired BY <1>14 DEF RestartRequired
<1>15. CASE Verify BY <1>15 DEF Verify
<1>16. CASE UnlinkReceipt BY <1>16 DEF UnlinkReceipt
<1>17. CASE WriteReceipt BY <1>17 DEF WriteReceipt
<1>18. CASE SwapPointer BY <1>18 DEF SwapPointer
<1>19. CASE WriteCampaign BY <1>19 DEF WriteCampaign
<1>20. CASE StepFails
  BY <1>20 DEF StepFails, RemoveBundle, Interrupted, InterruptedFiles,
     InterruptedTree
<1>21. ASSUME NEW g \in Generations, RollbackBegins(g) PROVE Journey'
  BY <1>21 DEF RollbackBegins
<1>22. CASE UndoInstall BY <1>22 DEF UndoInstall, RemoveBundle
<1>23. CASE RestoreCampaign BY <1>23 DEF RestoreCampaign
<1>24. CASE DropReceipt BY <1>24 DEF DropReceipt
<1>25. CASE RewriteReceipt BY <1>25 DEF RewriteReceipt
<1>26. CASE Republish BY <1>26 DEF Republish
<1>27. CASE Repoint BY <1>27 DEF Repoint
<1>28. CASE DropTree BY <1>28 DEF DropTree
<1>29. CASE RollbackFails
  BY <1>29 DEF RollbackFails, Interrupted, InterruptedFiles, InterruptedTree
<1>30. CASE UninstallBegins BY <1>30 DEF UninstallBegins
<1>31. CASE UninstallReceipt BY <1>31 DEF UninstallReceipt
<1>32. CASE UninstallPointer BY <1>32 DEF UninstallPointer
<1>33. CASE UninstallUnpublished BY <1>33 DEF UninstallUnpublished
<1>34. CASE DshRestarts BY <1>34 DEF DshRestarts
<1>35. CASE Crash
  BY <1>35 DEF Crash, Interrupted, InterruptedFiles, InterruptedTree
<1>36. CASE UNCHANGED vars
  BY <1>36 DEF vars
<1>37. QED
  BY <1>2, <1>3, <1>4, <1>5, <1>6, <1>7, <1>8, <1>9, <1>10, <1>11, <1>12,
     <1>13, <1>14, <1>15, <1>16, <1>17, <1>18, <1>19, <1>20, <1>21, <1>22,
     <1>23, <1>24, <1>25, <1>26, <1>27, <1>28, <1>29, <1>30, <1>31, <1>32,
     <1>33, <1>34, <1>35, <1>36 DEF Next, Installing, RollingBack,
     Uninstalling

\* ACTIVE is reported at the end of the whole sequence of writes.
LEMMA LiveStep == IInv /\ [Next]_vars => ActiveMeansLive'
<1> SUFFICES ASSUME IInv, [Next]_vars PROVE ActiveMeansLive'
  OBVIOUS
<1> USE DEF IInv, TypeOK, Journey, ActiveMeansLive, Publishing, Recorded,
    Results, Goto, Ends, diskVars, dshVars, cmdVars, envVars
<1>2. ASSUME NEW g \in Generations, InstallBegins(g) PROVE ActiveMeansLive'
  BY <1>2 DEF InstallBegins
<1>3. ASSUME NEW g \in Generations, NoOp(g) PROVE ActiveMeansLive'
  BY <1>3 DEF NoOp
<1>4. CASE Discard BY <1>4 DEF Discard
<1>5. CASE ReuseBackup BY <1>5 DEF ReuseBackup, BackupIntact
<1>6. CASE RefuseBackup BY <1>6 DEF RefuseBackup
<1>7. CASE CopyBackup BY <1>7 DEF CopyBackup, Copying, HasBackup
<1>8. CASE WriteManifest BY <1>8 DEF WriteManifest
<1>9. CASE Swap BY <1>9 DEF Swap
<1>10. CASE InstallFails
  BY <1>10 DEF InstallFails, Interrupted, InterruptedFiles, InterruptedTree
<1>11. CASE Prepare BY <1>11 DEF Prepare
<1>12. CASE AlreadyActive BY <1>12 DEF AlreadyActive
<1>13. CASE BundleApplied BY <1>13 DEF BundleApplied
<1>14. CASE RestartRequired BY <1>14 DEF RestartRequired
<1>15. CASE Verify BY <1>15 DEF Verify
<1>16. CASE UnlinkReceipt BY <1>16 DEF UnlinkReceipt
<1>17. CASE WriteReceipt BY <1>17 DEF WriteReceipt
<1>18. CASE SwapPointer BY <1>18 DEF SwapPointer
<1>19. CASE WriteCampaign BY <1>19 DEF WriteCampaign
<1>20. CASE StepFails
  BY <1>20 DEF StepFails, RemoveBundle, Interrupted, InterruptedFiles,
     InterruptedTree
<1>21. ASSUME NEW g \in Generations, RollbackBegins(g) PROVE ActiveMeansLive'
  BY <1>21 DEF RollbackBegins
<1>22. CASE UndoInstall BY <1>22 DEF UndoInstall, RemoveBundle
<1>23. CASE RestoreCampaign BY <1>23 DEF RestoreCampaign
<1>24. CASE DropReceipt BY <1>24 DEF DropReceipt
<1>25. CASE RewriteReceipt BY <1>25 DEF RewriteReceipt
<1>26. CASE Republish BY <1>26 DEF Republish
<1>27. CASE Repoint BY <1>27 DEF Repoint
<1>28. CASE DropTree BY <1>28 DEF DropTree
<1>29. CASE RollbackFails
  BY <1>29 DEF RollbackFails, Interrupted, InterruptedFiles, InterruptedTree
<1>30. CASE UninstallBegins BY <1>30 DEF UninstallBegins
<1>31. CASE UninstallReceipt BY <1>31 DEF UninstallReceipt
<1>32. CASE UninstallPointer BY <1>32 DEF UninstallPointer
<1>33. CASE UninstallUnpublished BY <1>33 DEF UninstallUnpublished
<1>34. CASE DshRestarts BY <1>34 DEF DshRestarts
<1>35. CASE Crash
  BY <1>35 DEF Crash, Interrupted, InterruptedFiles, InterruptedTree
<1>36. CASE UNCHANGED vars
  BY <1>36 DEF vars
<1>37. QED
  BY <1>2, <1>3, <1>4, <1>5, <1>6, <1>7, <1>8, <1>9, <1>10, <1>11, <1>12,
     <1>13, <1>14, <1>15, <1>16, <1>17, <1>18, <1>19, <1>20, <1>21, <1>22,
     <1>23, <1>24, <1>25, <1>26, <1>27, <1>28, <1>29, <1>30, <1>31, <1>32,
     <1>33, <1>34, <1>35, <1>36 DEF Next, Installing, RollingBack,
     Uninstalling

\* A rollback ends when every file is back.
LEMMA RestoreStep == IInv /\ [Next]_vars => RollbackRestores'
<1> SUFFICES ASSUME IInv, [Next]_vars PROVE RollbackRestores'
  OBVIOUS
<1> USE DEF IInv, TypeOK, Journey, Restored, RollbackRestores, Recorded,
    Restorable, Results, Backed, Readable, Goto, Ends, diskVars, dshVars,
    cmdVars, envVars
<1>2. ASSUME NEW g \in Generations, InstallBegins(g) PROVE RollbackRestores'
  BY <1>2 DEF InstallBegins
<1>3. ASSUME NEW g \in Generations, NoOp(g) PROVE RollbackRestores'
  BY <1>3 DEF NoOp
<1>4. CASE Discard BY <1>4 DEF Discard
<1>5. CASE ReuseBackup BY <1>5 DEF ReuseBackup, BackupIntact
<1>6. CASE RefuseBackup BY <1>6 DEF RefuseBackup
<1>7. CASE CopyBackup BY <1>7 DEF CopyBackup, Copying, HasBackup
<1>8. CASE WriteManifest BY <1>8 DEF WriteManifest
<1>9. CASE Swap BY <1>9 DEF Swap
<1>10. CASE InstallFails
  BY <1>10 DEF InstallFails, Interrupted, InterruptedFiles, InterruptedTree
<1>11. CASE Prepare BY <1>11 DEF Prepare
<1>12. CASE AlreadyActive BY <1>12 DEF AlreadyActive
<1>13. CASE BundleApplied BY <1>13 DEF BundleApplied
<1>14. CASE RestartRequired BY <1>14 DEF RestartRequired
<1>15. CASE Verify BY <1>15 DEF Verify
<1>16. CASE UnlinkReceipt BY <1>16 DEF UnlinkReceipt
<1>17. CASE WriteReceipt BY <1>17 DEF WriteReceipt
<1>18. CASE SwapPointer BY <1>18 DEF SwapPointer
<1>19. CASE WriteCampaign BY <1>19 DEF WriteCampaign
<1>20. CASE StepFails
  BY <1>20 DEF StepFails, RemoveBundle, Interrupted, InterruptedFiles,
     InterruptedTree
<1>21. ASSUME NEW g \in Generations, RollbackBegins(g) PROVE RollbackRestores'
  BY <1>21 DEF RollbackBegins
<1>22. CASE UndoInstall BY <1>22 DEF UndoInstall, RemoveBundle
<1>23. CASE RestoreCampaign BY <1>23 DEF RestoreCampaign
<1>24. CASE DropReceipt BY <1>24 DEF DropReceipt
<1>25. CASE RewriteReceipt BY <1>25 DEF RewriteReceipt
<1>26. CASE Republish BY <1>26 DEF Republish
<1>27. CASE Repoint BY <1>27 DEF Repoint
<1>28. CASE DropTree
  <2>1. Readable(gen) /\ gen \in Generations /\ active = manifest[gen].prev
    BY <1>28 DEF DropTree, IInv, TypeOK, Journey, Backed, Restored
  <2>2. active # gen
    <3>1. \E g \in {gen} : Readable(g) => manifest[g].prev \notin {gen}
      BY <2>1 DEF IInv, RollbackEnds
    <3>2. QED
      BY <2>1, <3>1
  <2>3. active # None => tree'[active] # "absent"
    BY <1>28, <2>1, <2>2 DEF DropTree, IInv, TypeOK, Journey, Optional
  <2>4. tree'[gen] = "absent"
    BY <1>28 DEF DropTree, IInv, TypeOK
  <2>5. Recorded' = Restorable(manifest[gen])
    BY <1>28 DEF DropTree, IInv, Journey, Restored, Recorded, Restorable
  <2>6. QED
    BY <1>28, <2>3, <2>4, <2>5 DEF DropTree, RollbackRestores, cmdVars, Recorded,
       Restorable
<1>29. CASE RollbackFails
  BY <1>29 DEF RollbackFails, Interrupted, InterruptedFiles, InterruptedTree
<1>30. CASE UninstallBegins BY <1>30 DEF UninstallBegins
<1>31. CASE UninstallReceipt BY <1>31 DEF UninstallReceipt
<1>32. CASE UninstallPointer BY <1>32 DEF UninstallPointer
<1>33. CASE UninstallUnpublished BY <1>33 DEF UninstallUnpublished
<1>34. CASE DshRestarts BY <1>34 DEF DshRestarts
<1>35. CASE Crash
  BY <1>35 DEF Crash, Interrupted, InterruptedFiles, InterruptedTree
<1>36. CASE UNCHANGED vars
  BY <1>36 DEF vars
<1>37. QED
  BY <1>2, <1>3, <1>4, <1>5, <1>6, <1>7, <1>8, <1>9, <1>10, <1>11, <1>12,
     <1>13, <1>14, <1>15, <1>16, <1>17, <1>18, <1>19, <1>20, <1>21, <1>22,
     <1>23, <1>24, <1>25, <1>26, <1>27, <1>28, <1>29, <1>30, <1>31, <1>32,
     <1>33, <1>34, <1>35, <1>36 DEF Next, Installing, RollingBack,
     Uninstalling

\* ACTIVE is moved after everything it stands for.
LEMMA PointerStep == IInv /\ [Next]_vars => Pointed
<1> SUFFICES ASSUME IInv, [Next]_vars PROVE Pointed
  OBVIOUS
<1> USE DEF IInv, Pointed, Goto, Ends, diskVars, dshVars, cmdVars, envVars
<1>2. ASSUME NEW g \in Generations, InstallBegins(g) PROVE Pointed
  BY <1>2 DEF InstallBegins
<1>3. ASSUME NEW g \in Generations, NoOp(g) PROVE Pointed BY <1>3 DEF NoOp
<1>4. CASE Discard BY <1>4 DEF Discard
<1>5. CASE ReuseBackup BY <1>5 DEF ReuseBackup, BackupIntact
<1>6. CASE RefuseBackup BY <1>6 DEF RefuseBackup
<1>7. CASE CopyBackup BY <1>7 DEF CopyBackup, Copying, HasBackup
<1>8. CASE WriteManifest BY <1>8 DEF WriteManifest
<1>9. CASE Swap BY <1>9 DEF Swap
<1>10. CASE InstallFails
  BY <1>10 DEF InstallFails, Interrupted, InterruptedFiles, InterruptedTree
<1>11. CASE Prepare BY <1>11 DEF Prepare
<1>12. CASE AlreadyActive BY <1>12 DEF AlreadyActive
<1>13. CASE BundleApplied BY <1>13 DEF BundleApplied
<1>14. CASE RestartRequired BY <1>14 DEF RestartRequired
<1>15. CASE Verify BY <1>15 DEF Verify
<1>16. CASE UnlinkReceipt BY <1>16 DEF UnlinkReceipt
<1>17. CASE WriteReceipt BY <1>17 DEF WriteReceipt
<1>18. CASE SwapPointer
  BY <1>18 DEF SwapPointer, TypeOK, Journey, Publishing
<1>19. CASE WriteCampaign BY <1>19 DEF WriteCampaign
<1>20. CASE StepFails
  BY <1>20 DEF StepFails, RemoveBundle, Interrupted, InterruptedFiles,
     InterruptedTree
<1>21. ASSUME NEW g \in Generations, RollbackBegins(g) PROVE Pointed
  BY <1>21 DEF RollbackBegins
<1>22. CASE UndoInstall BY <1>22 DEF UndoInstall, RemoveBundle
<1>23. CASE RestoreCampaign BY <1>23 DEF RestoreCampaign
<1>24. CASE DropReceipt BY <1>24 DEF DropReceipt
<1>25. CASE RewriteReceipt BY <1>25 DEF RewriteReceipt
<1>26. CASE Republish BY <1>26 DEF Republish
<1>27. CASE Repoint
  <2>1. Readable(gen) /\ gen \in Generations
    BY <1>27 DEF Repoint, TypeOK, Journey, Backed, Restored
  <2>2. manifest[gen].prev # gen
    <3>1. \E g \in {gen} : Readable(g) => manifest[g].prev \notin {gen}
      BY <2>1 DEF RollbackEnds
    <3>2. QED
      BY <2>1, <3>1
  <2>3. QED
    BY <1>27, <2>2 DEF Repoint
<1>28. CASE DropTree BY <1>28 DEF DropTree
<1>29. CASE RollbackFails
  BY <1>29 DEF RollbackFails, Interrupted, InterruptedFiles, InterruptedTree
<1>30. CASE UninstallBegins BY <1>30 DEF UninstallBegins
<1>31. CASE UninstallReceipt BY <1>31 DEF UninstallReceipt
<1>32. CASE UninstallPointer BY <1>32 DEF UninstallPointer
<1>33. CASE UninstallUnpublished BY <1>33 DEF UninstallUnpublished
<1>34. CASE DshRestarts BY <1>34 DEF DshRestarts
<1>35. CASE Crash
  BY <1>35 DEF Crash, Interrupted, InterruptedFiles, InterruptedTree
<1>36. CASE UNCHANGED vars
  BY <1>36 DEF vars
<1>37. QED
  BY <1>2, <1>3, <1>4, <1>5, <1>6, <1>7, <1>8, <1>9, <1>10, <1>11, <1>12,
     <1>13, <1>14, <1>15, <1>16, <1>17, <1>18, <1>19, <1>20, <1>21, <1>22,
     <1>23, <1>24, <1>25, <1>26, <1>27, <1>28, <1>29, <1>30, <1>31, <1>32,
     <1>33, <1>34, <1>35, <1>36 DEF Next, Installing, RollingBack,
     Uninstalling

\* The initial state is one of IInv, and no step leaves it.
LEMMA InitIInv == Init => IInv
<1> SUFFICES ASSUME Init PROVE IInv
  OBVIOUS
<1>1. TypeOK
  <2>1. fresh \in BOOLEAN
    BY DEF Init
  <2>2. faults \in 0 .. MaxFaults /\ crashes \in 0 .. MaxCrashes
    BY BoundsAssumption DEF Init
  <2>3. QED
    BY <2>1, <2>2 DEF Init, TypeOK, Optional, Labels, Results, TreeStates
<1>2. Journey
  BY DEF Init, Journey, Backed, Publishing, Restored
<1>3. \A g \in Generations : ~Readable(g)
  BY DEF Init, Readable
<1>4. WayBack
  BY NamesAssumption DEF Init, WayBack
<1>5. PrevKnown
  BY <1>3 DEF PrevKnown
<1>6. RollbackEnds
  BY <1>3 DEF RollbackEnds
<1>7. ActiveMeansLive /\ RollbackRestores
  BY DEF Init, ActiveMeansLive, RollbackRestores
<1>8. QED
  BY <1>1, <1>2, <1>4, <1>5, <1>6, <1>7 DEF IInv

LEMMA StepIInv == IInv /\ [Next]_vars => IInv'
  BY TypeStep, JourneyStep, WayBackStep, PrevKnownStep, RollbackEndsStep,
     LiveStep, RestoreStep DEF IInv

(* The inductive invariant holds in every reachable state. *)
THEOREM Invariance == Spec => []IInv
  BY InitIInv, StepIInv, PTL DEF Spec

(* Types: what the installer reads back is always a file it can have written. *)
THEOREM TypeCorrect == Spec => []TypeOK
<1>1. IInv => TypeOK
  BY DEF IInv
<1>2. QED
  BY Invariance, <1>1, PTL

(* No crash, retry, rollback or uninstall leaves a generation in place, or    *)
(* ACTIVE, without the manifest a rollback needs.                             *)
THEOREM AlwaysAWayBack == Spec => []WayBack
<1>1. IInv => WayBack
  BY DEF IInv
<1>2. QED
  BY Invariance, <1>1, PTL

(* The chain of manifests is finite from every generation: rolling back again *)
(* and again ends in a clean workspace.                                       *)
THEOREM ChainEnds == Spec => []RollbackEnds
<1>1. IInv => RollbackEnds
  BY DEF IInv
<1>2. QED
  BY Invariance, <1>1, PTL

(* What an install that reports ACTIVE, and a rollback that completes, leave. *)
THEOREM ResultsTrue == Spec => [](ActiveMeansLive /\ RollbackRestores)
<1>1. IInv => ActiveMeansLive /\ RollbackRestores
  BY DEF IInv
<1>2. QED
  BY Invariance, <1>1, PTL

(* An install that reports ACTIVE has left every file of its generation.      *)
THEOREM LiveWhenActive == Spec => []ActiveMeansLive
  BY ResultsTrue, PTL

(* A manifest is written once: no retry overwrites the original one.          *)
THEOREM WrittenOnce == Spec => ManifestKept
<1>1. IInv /\ [Next]_vars => Kept
  BY KeptStep
<1>2. QED
  BY Invariance, <1>1, PTL DEF Spec, ManifestKept, Kept

(* ACTIVE moves only to a generation in place, and in an install only after   *)
(* the receipt and the plan.                                                  *)
THEOREM PointerMovesLast == Spec => PointerLast
<1>1. IInv /\ [Next]_vars => [Pointed]_vars
  BY PointerStep
<1>2. QED
  BY Invariance, <1>1, PTL DEF Spec, PointerLast, Pointed
=============================================================================
