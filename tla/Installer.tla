------------------------------ MODULE Installer ------------------------------
(***************************************************************************)
(* The transactional installer of scripts/transaction.py: install,         *)
(* rollback and uninstall of a generation under .dsh-managed, with the     *)
(* backup manifests, the ACTIVE pointer, the receipt of the published      *)
(* presets, the campaign files and the plugin manager of DSH.              *)
(*                                                                         *)
(* One operator runs one command at a time.  Every write is a step, so the *)
(* command can fail or its process die (Crash) between any two.            *)
(***************************************************************************)
EXTENDS Naturals

CONSTANTS
  Generations,  \* generation ids; each names one package
  None,         \* no file, no generation
  Torn,         \* a JSON file cut short, a campaign some of whose files are another's
  MaxFaults,    \* writes and DSH calls that fail (bounds the model)
  MaxCrashes    \* process deaths (bounds the model)

ASSUME NamesAssumption ==
  None \notin Generations /\ Torn \notin Generations /\ None # Torn
ASSUME BoundsAssumption == MaxFaults \in Nat /\ MaxCrashes \in Nat

VARIABLES
  active,      \* the ACTIVE pointer
  tree,        \* generation -> its directory in generations/
  saved,       \* generations with a directory in backups/
  manifest,    \* generation -> backups/<generation>.json
  receipt,     \* published-presets.json: the generation it names
  plan,        \* capability-plan.json: the install that wrote it
  campaign,    \* campaign/: the install that wrote it
  configured,  \* the bundle DSH will load at its next start
  running,     \* the bundle DSH's presets come from
  pc,          \* the write the command is about to make
  op, gen,     \* the command and the generation it works on
  fresh,       \* whether this install called installBundle
  last,        \* result of the last command
  faults, crashes

diskVars == <<active, tree, saved, manifest, receipt, plan, campaign>>
dshVars  == <<configured, running>>
cmdVars  == <<op, gen, fresh>>
envVars  == <<faults, crashes>>
vars == <<diskVars, dshVars, pc, cmdVars, last, envVars>>

Optional == Generations \union {None}
TreeStates == {"absent", "whole", "partial"}

\* What backups/<generation>.json says of the state before the generation.
Snapshots == [prev : Optional, copy : TreeStates, receipt : Optional,
              plan : Optional, campaign : Optional \union {Torn}]
ASSUME FilesAssumption == None \notin Snapshots /\ Torn \notin Snapshots

Results == {"NONE", "ACTIVE", "NO_OP", "RESTART_REQUIRED", "REFUSED", "FAILED",
            "ROLLBACK_FAILED", "ROLLED_BACK", "UNINSTALLED", "CRASHED"}
Labels == {"idle", "discard", "backup", "manifest", "swap", "prepare", "bundle",
           "verify", "unlink", "receipt", "pointer", "campaign",
           "undo", "restore", "unreceipt", "rereceipt", "republish", "repoint",
           "drop", "un_receipt", "un_active"}

-----------------------------------------------------------------------------
(* Helper state formulae. *)

Goto(label) == pc' = label /\ UNCHANGED last

Ends(result) == pc' = "idle" /\ last' = result

Readable(g) == manifest[g] \notin {None, Torn}

TreeOf(g) == IF g = None THEN "absent" ELSE tree[g]

\* What a backup records, and what a rollback puts back.
Recorded == [prev |-> active, receipt |-> receipt, plan |-> plan,
             campaign |-> campaign]
Restorable(m) == [prev |-> m.prev, receipt |-> m.receipt, plan |-> m.plan,
                  campaign |-> m.campaign]

\* _roster, receipt and composition all confirm the generation: what makes a
\* reinstallation of the ACTIVE generation a NO_OP.
Current(g) == receipt = g /\ running = g

\* remove_bundle under the package's stable name: applied at once, at the next
\* start of DSH, or not at all.
RemoveBundle ==
  \/ configured' = None /\ running' \in {None, running}
  \/ UNCHANGED dshVars

Init ==
  /\ active = None
  /\ tree = [g \in Generations |-> "absent"]
  /\ saved = {}
  /\ manifest = [g \in Generations |-> None]
  /\ receipt = None
  /\ plan = None
  /\ campaign = None
  /\ configured = None
  /\ running = None
  /\ pc = "idle"
  /\ op = "install"
  /\ gen \in Generations
  /\ fresh = FALSE
  /\ last = "NONE"
  /\ faults = 0
  /\ crashes = 0

SomethingToSave == TreeOf(active) # "absent" \/ plan # None \/ campaign # None

HasBackup(g) == g \in saved \/ manifest[g] # None

\* The generation whose backup is being copied, if there is anything to copy.
Copying == {g \in {gen} : pc = "backup" /\ ~HasBackup(g) /\ SomethingToSave}

-----------------------------------------------------------------------------
(* A step cut short, by a failed write or by the death of the process.       *)

\* Removing or copying a directory, writing the four files of a campaign and writing
\* a JSON file in place are not atomic; the campaign is restored before the plan is.
InterruptedFiles ==
  \/ UNCHANGED <<campaign, plan>>
  \/ pc = "campaign" /\ campaign' = Torn /\ UNCHANGED plan
  \/ /\ pc = "restore"
     /\ campaign' \in {None, Torn, manifest[gen].campaign}
     /\ plan' \in {plan, None}
     /\ plan' # plan => campaign' = manifest[gen].campaign

InterruptedTree ==
  tree' \in {tree} \union
    CASE pc \in {"discard", "drop"} -> {[tree EXCEPT ![gen] = "partial"]}
      [] pc = "swap" -> {[tree EXCEPT ![gen] = "whole"]}
      [] OTHER -> {}

Interrupted ==
  /\ InterruptedFiles
  /\ InterruptedTree
  /\ saved' \in {saved} \union {saved \union {g} : g \in Copying}
  /\ manifest' \in {manifest} \union
       {[manifest EXCEPT ![g] = Torn] : g \in {h \in {gen} : pc = "manifest"}}
  /\ receipt' \in {receipt} \union
       {t \in {Torn} : pc \in {"receipt", "rereceipt"}}
  /\ UNCHANGED active

-----------------------------------------------------------------------------
(* install, up to the swap.  Nothing here is rolled back when it fails. *)

\* The verdict and the package are accepted.  A directory of this generation
\* that differs from the package refuses it; one that is ACTIVE and healthy in
\* every respect is a NO_OP; any other one is discarded first.
InstallBegins(g) ==
  /\ pc = "idle"
  /\ tree[g] # "partial"
  /\ active = g /\ tree[g] = "whole" => receipt # Torn
  /\ op' = "install" /\ gen' = g
  /\ Goto(IF tree[g] = "whole" THEN "discard" ELSE "backup")
  /\ UNCHANGED <<diskVars, dshVars, fresh, envVars>>

\* The campaign files are written again, for the modes already published, and
\* nothing undoes it when that fails half way.
NoOp(g) ==
  /\ pc = "idle"
  /\ active = g /\ tree[g] = "whole" /\ Current(g) /\ plan # None
  /\ \/ campaign' = g /\ Ends("NO_OP") /\ UNCHANGED envVars
     \/ /\ campaign # g /\ campaign' = Torn
        /\ \/ faults < MaxFaults /\ faults' = faults + 1 /\ Ends("REFUSED")
              /\ UNCHANGED crashes
           \/ crashes < MaxCrashes /\ crashes' = crashes + 1 /\ Ends("CRASHED")
              /\ UNCHANGED faults
  /\ UNCHANGED <<active, tree, saved, manifest, receipt, plan, dshVars, cmdVars>>

Discard ==
  /\ pc = "discard"
  /\ tree' = [tree EXCEPT ![gen] = "absent"]
  /\ Goto("backup")
  /\ UNCHANGED <<active, saved, manifest, receipt, plan, campaign, dshVars,
                 cmdVars, envVars>>

\* _make_backup takes the backup of an earlier attempt only as long as the
\* generation it would return to is still the active one, with the same bytes.
BackupIntact(g) ==
  /\ Readable(g)
  /\ manifest[g].prev = active
  /\ manifest[g].copy = TreeOf(active)
  /\ active # None => TreeOf(active) # "absent"

ReuseBackup ==
  /\ pc = "backup"
  /\ BackupIntact(gen)
  /\ Goto("swap")
  /\ UNCHANGED <<diskVars, dshVars, cmdVars, envVars>>

\* TransactionError outside the try of install: no rollback.
RefuseBackup ==
  /\ pc = "backup"
  /\ HasBackup(gen) /\ ~BackupIntact(gen)
  /\ Ends("REFUSED")
  /\ UNCHANGED <<diskVars, dshVars, cmdVars, envVars>>

\* Faulty variant: the receipt is copied without being parsed.
CopyBackupBlind ==
  /\ pc = "backup"
  /\ ~HasBackup(gen)
  /\ saved' = saved \union Copying
  /\ Goto("manifest")
  /\ UNCHANGED <<active, tree, manifest, receipt, plan, campaign, dshVars,
                 cmdVars, envVars>>

\* Faulty variant: the tree is swapped with a copied backup and no manifest.
CopyBackupOnly ==
  /\ pc = "backup"
  /\ ~HasBackup(gen)
  /\ saved' = saved \union Copying
  /\ Goto("swap")
  /\ UNCHANGED <<active, tree, manifest, receipt, plan, campaign, dshVars,
                 cmdVars, envVars>>

\* The active tree is copied, the receipt is read, and the campaign files are copied.
CopyBackup ==
  /\ pc = "backup"
  /\ ~HasBackup(gen)
  /\ \/ /\ receipt = Torn /\ Ends("REFUSED")
        /\ saved' = saved \union {g \in Copying : TreeOf(active) # "absent"}
     \/ receipt # Torn /\ Goto("manifest") /\ saved' = saved \union Copying
  /\ UNCHANGED <<active, tree, manifest, receipt, plan, campaign, dshVars,
                 cmdVars, envVars>>

WriteManifest ==
  /\ pc = "manifest"
  /\ manifest' = [manifest EXCEPT ![gen] =
                    [prev |-> active, copy |-> TreeOf(active), receipt |-> receipt,
                     plan |-> plan, campaign |-> campaign]]
  /\ Goto("swap")
  /\ UNCHANGED <<active, tree, saved, receipt, plan, campaign, dshVars, cmdVars,
                 envVars>>

Swap ==
  /\ pc = "swap"
  /\ tree' = [tree EXCEPT ![gen] = "whole"]
  /\ Goto("prepare")
  /\ UNCHANGED <<active, saved, manifest, receipt, plan, campaign, dshVars,
                 cmdVars, envVars>>

\* A failed write here is raised as it is, and nothing is undone.
InstallFails ==
  /\ pc \in {"discard", "backup", "manifest", "swap"}
  /\ faults < MaxFaults
  /\ faults' = faults + 1
  /\ Interrupted
  /\ Ends("REFUSED")
  /\ UNCHANGED <<dshVars, cmdVars, crashes>>

-----------------------------------------------------------------------------
(* install, from the swap on.  Every failure here enters rollback. *)

Prepare ==
  /\ pc = "prepare"
  /\ plan' = gen
  /\ Goto("bundle")
  /\ UNCHANGED <<active, tree, saved, manifest, receipt, campaign, dshVars,
                 cmdVars, envVars>>

\* Presets that already run from this bundle are not installed again: DSH would
\* only ask for another restart.
AlreadyActive ==
  /\ pc = "bundle"
  /\ running = gen
  /\ fresh' = FALSE
  /\ Goto("verify")
  /\ UNCHANGED <<diskVars, dshVars, op, gen, envVars>>

BundleApplied ==
  /\ pc = "bundle"
  /\ running # gen
  /\ configured' = gen /\ running' = gen
  /\ fresh' = TRUE
  /\ Goto("verify")
  /\ UNCHANGED <<diskVars, op, gen, envVars>>

\* The command ends: the operator relaunches DSH and installs again.
RestartRequired ==
  /\ pc = "bundle"
  /\ running # gen
  /\ configured' = gen
  /\ Ends("RESTART_REQUIRED")
  /\ UNCHANGED <<diskVars, running, cmdVars, envVars>>

Verify ==
  /\ pc = "verify"
  /\ running = gen
  /\ Goto("unlink")
  /\ UNCHANGED <<diskVars, dshVars, cmdVars, envVars>>

UnlinkReceipt ==
  /\ pc = "unlink"
  /\ receipt' = None
  /\ Goto("receipt")
  /\ UNCHANGED <<active, tree, saved, manifest, plan, campaign, dshVars, cmdVars,
                 envVars>>

WriteReceipt ==
  /\ pc = "receipt"
  /\ receipt' = gen
  /\ Goto("pointer")
  /\ UNCHANGED <<active, tree, saved, manifest, plan, campaign, dshVars, cmdVars,
                 envVars>>

\* Faulty variant: the install ends when ACTIVE is moved.
SwapPointerLast ==
  /\ pc = "pointer"
  /\ active' = gen
  /\ Ends("ACTIVE")
  /\ UNCHANGED <<tree, saved, manifest, receipt, plan, campaign, dshVars, cmdVars,
                 envVars>>

SwapPointer ==
  /\ pc = "pointer"
  /\ active' = gen
  /\ Goto("campaign")
  /\ UNCHANGED <<tree, saved, manifest, receipt, plan, campaign, dshVars, cmdVars,
                 envVars>>

WriteCampaign ==
  /\ pc = "campaign"
  /\ campaign' = gen
  /\ Ends("ACTIVE")
  /\ UNCHANGED <<active, tree, saved, manifest, receipt, plan, dshVars, cmdVars,
                 envVars>>

Publishing == {"verify", "unlink", "receipt"}

\* An unhealthy roster, a refused bundle, a write that fails.  Inside
\* _publish_presets a bundle this install applied is taken out again.
StepFails ==
  /\ pc \in {"prepare", "bundle", "pointer", "campaign"} \union Publishing
  /\ \/ faults < MaxFaults /\ faults' = faults + 1
     \/ pc = "verify" /\ running # gen /\ UNCHANGED faults
  /\ IF pc \in Publishing /\ fresh THEN RemoveBundle
     ELSE /\ configured' \in {configured} \union {g \in {gen} : pc = "bundle"}
          /\ UNCHANGED running
  /\ Interrupted
  /\ Goto("undo")
  /\ UNCHANGED <<cmdVars, crashes>>

-----------------------------------------------------------------------------
(* rollback, of a failed install or as a command of its own. *)

\* The command has no DSH client and refuses what it cannot read.
RollbackBegins(g) ==
  /\ pc = "idle"
  /\ Readable(g) /\ receipt # Torn
  /\ op' = "rollback" /\ gen' = g
  /\ Goto("restore")
  /\ UNCHANGED <<diskVars, dshVars, fresh, envVars>>

\* Whatever bundle the receipt names is taken out, best effort; a receipt that
\* does not parse makes rollback raise before it restored anything.
UndoInstall ==
  /\ pc = "undo"
  /\ \/ receipt = Torn /\ Ends("ROLLBACK_FAILED") /\ UNCHANGED dshVars
     \/ receipt = None /\ Goto("restore") /\ UNCHANGED dshVars
     \/ receipt \in Generations /\ Goto("restore") /\ RemoveBundle
  /\ UNCHANGED <<diskVars, cmdVars, envVars>>

RestoreCampaign ==
  /\ pc = "restore"
  /\ plan' = manifest[gen].plan
  /\ campaign' = manifest[gen].campaign
  /\ Goto("unreceipt")
  /\ UNCHANGED <<active, tree, saved, manifest, receipt, dshVars, cmdVars, envVars>>

\* Faulty variant: the receipt of the previous generation is not put back.
DropReceiptOnly ==
  /\ pc = "unreceipt"
  /\ receipt' = None
  /\ Goto("repoint")
  /\ UNCHANGED <<active, tree, saved, manifest, plan, campaign, dshVars, cmdVars,
                 envVars>>

DropReceipt ==
  /\ pc = "unreceipt"
  /\ receipt' = None
  /\ Goto(IF manifest[gen].receipt = None THEN "repoint" ELSE "rereceipt")
  /\ UNCHANGED <<active, tree, saved, manifest, plan, campaign, dshVars, cmdVars,
                 envVars>>

RewriteReceipt ==
  /\ pc = "rereceipt"
  /\ receipt' = manifest[gen].receipt
  /\ Goto(IF op = "install" THEN "republish" ELSE "repoint")
  /\ UNCHANGED <<active, tree, saved, manifest, plan, campaign, dshVars, cmdVars,
                 envVars>>

\* The previous bundle goes back to DSH; whether it was applied is not looked at.
Republish ==
  /\ pc = "republish"
  /\ configured' = manifest[gen].receipt
  /\ running' \in {running, manifest[gen].receipt}
  /\ Goto("repoint")
  /\ UNCHANGED <<diskVars, cmdVars, envVars>>

\* ACTIVE goes back, unless the generation it should name is gone.
Repoint ==
  /\ pc = "repoint"
  /\ LET prev == manifest[gen].prev IN
       IF prev = None \/ tree[prev] # "absent"
       THEN active' = prev /\ Goto("drop")
       ELSE UNCHANGED active /\ Ends("ROLLBACK_FAILED")
  /\ UNCHANGED <<tree, saved, manifest, receipt, plan, campaign, dshVars, cmdVars,
                 envVars>>

DropTree ==
  /\ pc = "drop"
  /\ tree' = [tree EXCEPT ![gen] = "absent"]
  /\ Ends(IF op = "install" THEN "FAILED" ELSE "ROLLED_BACK")
  /\ UNCHANGED <<active, saved, manifest, receipt, plan, campaign, dshVars,
                 cmdVars, envVars>>

\* A failed write, or an installBundle that raises, leaves rollback half done.
RollbackFails ==
  /\ pc \in {"restore", "unreceipt", "rereceipt", "republish", "repoint", "drop"}
  /\ faults < MaxFaults
  /\ faults' = faults + 1
  /\ Interrupted
  /\ configured' \in {configured} \union
       {manifest[g].receipt : g \in {h \in {gen} : pc = "republish"}}
  /\ Ends("ROLLBACK_FAILED")
  /\ UNCHANGED <<running, cmdVars, crashes>>

-----------------------------------------------------------------------------
(* uninstall. *)

\* removeBundle must answer; the bundle's bytes are those of the receipt.
UninstallBegins ==
  /\ pc = "idle"
  /\ receipt \in Generations
  /\ op' = "uninstall"
  /\ configured' = None /\ running' \in {None, running}
  /\ Goto("un_receipt")
  /\ UNCHANGED <<diskVars, gen, fresh, envVars>>

UninstallReceipt ==
  /\ pc = "un_receipt"
  /\ receipt' = None
  /\ Goto("un_active")
  /\ UNCHANGED <<active, tree, saved, manifest, plan, campaign, dshVars, cmdVars,
                 envVars>>

UninstallPointer ==
  /\ pc = "un_active"
  /\ active' = None
  /\ Ends("UNINSTALLED")
  /\ UNCHANGED <<tree, saved, manifest, receipt, plan, campaign, dshVars, cmdVars,
                 envVars>>

\* uninstall_unpublished: no receipt is taken as nothing published, so DSH is
\* not asked.
UninstallUnpublished ==
  /\ pc = "idle"
  /\ receipt = None
  /\ active' = None
  /\ Ends("UNINSTALLED")
  /\ UNCHANGED <<tree, saved, manifest, receipt, plan, campaign, dshVars, cmdVars,
                 envVars>>

-----------------------------------------------------------------------------
(* The environment. *)

DshRestarts ==
  /\ running # configured
  /\ running' = configured
  /\ UNCHANGED <<diskVars, configured, pc, cmdVars, last, envVars>>

Crash ==
  /\ pc # "idle"
  /\ crashes < MaxCrashes
  /\ crashes' = crashes + 1
  /\ Interrupted
  /\ Ends("CRASHED")
  /\ UNCHANGED <<dshVars, cmdVars, faults>>

Installing ==
  \/ \E g \in Generations : InstallBegins(g) \/ NoOp(g)
  \/ Discard \/ ReuseBackup \/ RefuseBackup \/ CopyBackup \/ WriteManifest \/ Swap
  \/ InstallFails
  \/ Prepare \/ AlreadyActive \/ BundleApplied \/ RestartRequired \/ Verify
  \/ UnlinkReceipt \/ WriteReceipt \/ SwapPointer \/ WriteCampaign \/ StepFails

RollingBack ==
  \/ \E g \in Generations : RollbackBegins(g)
  \/ UndoInstall \/ RestoreCampaign \/ DropReceipt \/ RewriteReceipt
  \/ Republish \/ Repoint \/ DropTree \/ RollbackFails

Uninstalling ==
  \/ UninstallBegins \/ UninstallReceipt \/ UninstallPointer
  \/ UninstallUnpublished

Next == Installing \/ RollingBack \/ Uninstalling \/ DshRestarts \/ Crash

Spec == Init /\ [][Next]_vars

-----------------------------------------------------------------------------
(* Properties. *)

TypeOK ==
  /\ active \in Optional
  /\ tree \in [Generations -> TreeStates]
  /\ saved \subseteq Generations
  /\ manifest \in [Generations -> Snapshots \union {None, Torn}]
  /\ receipt \in Optional \union {Torn}
  /\ plan \in Optional /\ campaign \in Optional \union {Torn}
  /\ configured \in Optional /\ running \in Optional
  /\ pc \in Labels
  /\ op \in {"install", "rollback", "uninstall"} /\ gen \in Generations
  /\ fresh \in BOOLEAN
  /\ last \in Results
  /\ faults \in 0 .. MaxFaults /\ crashes \in 0 .. MaxCrashes

(* A generation that is in place, whole or half removed, or that ACTIVE names *)
(* has a manifest to roll back with, and the way back leads to another        *)
(* generation: the backup is complete before the swap, and no crash, retry,   *)
(* rollback or uninstall loses it.                                            *)
WayBack ==
  \A g \in Generations : tree[g] # "absent" \/ active = g =>
    Readable(g) /\ manifest[g].prev # g

(* Rolling back, again and again, ends in a clean workspace: the manifests    *)
(* never lead round in a circle, whatever was retried or reinstalled after    *)
(* having been superseded.                                                    *)
RollbackEnds ==
  \A S \in (SUBSET Generations) \ {{}} :
    \E g \in S : Readable(g) => manifest[g].prev \notin S

(* An install that reports ACTIVE left the pointer, the receipt, the plan and *)
(* the campaign of that generation, and all of its bytes.                     *)
ActiveMeansLive ==
  pc = "idle" /\ last = "ACTIVE" =>
    /\ Recorded = [prev |-> gen, receipt |-> gen, plan |-> gen, campaign |-> gen]
    /\ tree[gen] = "whole"

(* A rollback that completes, of a failed install or of the operator, leaves  *)
(* what the manifest recorded before the FIRST attempt at that generation     *)
(* (_make_backup keeps it through retries), the generation it returns to      *)
(* still in place and its own removed.                                        *)
RollbackRestores ==
  pc = "idle" /\ last \in {"FAILED", "ROLLED_BACK"} =>
    /\ Recorded = Restorable(manifest[gen])
    /\ active # None => tree[active] # "absent"
    /\ tree[gen] = "absent"

(* "Retrying that generation must not overwrite the original previous         *)
(* generation or preset bytes" (_make_backup): a manifest that was written    *)
(* is never changed nor lost.                                                 *)
ManifestKept ==
  [][\A g \in Generations : Readable(g) => manifest'[g] = manifest[g]]_vars

(* ACTIVE is moved to a generation only when its bytes are in place, and by   *)
(* an install only when the receipt and the plan are already those of it.     *)
PointerLast ==
  [][active' # active /\ active' # None =>
       /\ tree[active'] # "absent"
       /\ op = "install" /\ active' = gen => receipt = gen /\ plan = gen]_vars

(* What each write of a command may rely on, the strengthening under which    *)
(* the properties above are inductive: the manifest comes before the swap,    *)
(* the plan before the bundle, the receipt before the pointer; and a rollback *)
(* has restored what precedes the file it is at.                              *)
Restored == {"unreceipt", "rereceipt", "republish", "repoint", "drop"}
Backed == {"swap", "prepare", "bundle", "undo", "restore"} \union Publishing
            \union {"pointer", "campaign"} \union Restored
Journey ==
  /\ pc = "manifest" => manifest[gen] = None /\ receipt # Torn
  /\ pc \in Backed => Readable(gen)
  /\ pc \in {"discard", "prepare", "bundle", "pointer", "campaign"} \union Publishing
       => tree[gen] = "whole"
  /\ pc \in {"bundle", "pointer", "campaign"} \union Publishing => plan = gen
  /\ pc \in {"pointer", "campaign"} => receipt = gen
  /\ pc = "campaign" => active = gen
  /\ pc \in Restored =>
       plan = manifest[gen].plan /\ campaign = manifest[gen].campaign
  /\ pc \in {"republish", "repoint", "drop"} => receipt = manifest[gen].receipt
  /\ pc = "drop" =>
       active = manifest[gen].prev /\ (active # None => tree[active] # "absent")

PrevKnown ==
  \A g \in Generations :
    Readable(g) /\ manifest[g].prev # None => Readable(manifest[g].prev)

IInv ==
  /\ TypeOK /\ Journey /\ WayBack /\ PrevKnown /\ RollbackEnds
  /\ ActiveMeansLive /\ RollbackRestores
=============================================================================
