------------------------------ MODULE Workspace ------------------------------
(***************************************************************************)
(* The commands of scripts/bootstrap.py on a workspace that is already     *)
(* installed: update, uninstall and purge-data, next to the install that   *)
(* starts a new run, with the uninstall of scripts/transaction.py for the  *)
(* workspaces whose receipt lists presets one by one.  That uninstall      *)
(* writes a marker, renames every managed file to a tombstone, commits the *)
(* marker and removes the tombstones; the next uninstall finishes or       *)
(* undoes what an interrupted one left.                                    *)
(*                                                                         *)
(* One operator runs one command at a time; every rename, write and        *)
(* removal is a step that may fail, or be the last of its process.  The    *)
(* pipeline that brings a run to its installation is one step here: the    *)
(* modules Generation and Installer have it.                               *)
(***************************************************************************)
EXTENDS Naturals, Sequences

CONSTANTS
  Presets,      \* directories of .agent-presets that the old receipt lists
  Receipt,      \* published-presets.json
  Pointer,      \* ACTIVE
  None,         \* no file
  Torn,         \* a marker cut short while it was written
  MaxRuns,      \* generation runs (bounds the model)
  MaxBases,     \* commits of the project (bounds the model)
  MaxEdits,     \* presets the user changes or creates (bounds the model)
  MaxIncidents  \* failed steps and process deaths (bounds the model)

Files == Presets \union {Receipt, Pointer}

ASSUME NamesAssumption == Receipt \notin Presets /\ Pointer \notin Presets /\ Receipt # Pointer
ASSUME BoundsAssumption == /\ MaxRuns \in Nat \ {0} /\ MaxBases \in Nat \ {0}
                           /\ MaxEdits \in Nat /\ MaxIncidents \in Nat

VARIABLES
  home,      \* file -> what stands under its name
  tomb,      \* file -> what stands under its tombstone
  marker,    \* uninstall-recovery.json
  bundle,    \* DSH loads a bundle of this workspace
  skills,    \* the framework's skills and their manifest are in .agents
  runs,      \* the runs, oldest first: what run.json says, and their base
  recalled,  \* the runs accepted or finalized by hand out of turn (a history)
  base,      \* the commit the project is at
  sha256,    \* its revisions are 64 digits long
  pc,        \* the step the command is about to take
  todo, done, \* the moves its loop still has, and those it has made
  last,      \* what the last command answered; NONE while an uninstall runs
  edits, incidents

fileVars == <<home, tomb, marker>>
otherVars == <<bundle, skills, sha256>>
envVars == <<base, edits, recalled>>
vars == <<fileVars, otherVars, runs, envVars, pc, todo, done, last, incidents>>

\* What the old installation put there, what the user did, what a new one did.
Contents == {None, "ours", "user", "new"}
Markers == [phase : {"PREPARED", "COMMITTED"}, moves : SUBSET Files]
ASSUME FilesAssumption == /\ None \notin Markers \union {Torn, "ours", "user", "new"}
                          /\ Torn \notin Markers
\* CREATED is any status that both install and update call in progress, VALIDATING
\* among them; RETAINED is any that neither does and that is not ACTIVE.
Statuses == {"CREATED", "READY_FOR_INSTALL", "ACTIVE", "RETAINED", "ROLLED_BACK",
             "MISSING"}
Labels == {"idle", "mark", "move", "restore", "recover", "commit", "clean",
           "bundle", "unlink", "runs", "skills"}
\* DONE is any answer of a command other than uninstall that did what it was asked.
Results == {"NONE", "EXISTING", "NO_OP", "DONE", "REFUSED", "FAILED",
            "CANCELLED", "RECOVERY_REQUIRED", "UNINSTALLED", "CRASHED"}

Init ==
  /\ home \in {h \in [Files -> {None, "ours"}] : h[Receipt] = "ours" /\ h[Pointer] = "ours"}
  /\ tomb = [f \in Files |-> None]
  /\ marker = None
  /\ bundle = FALSE
  /\ skills = TRUE
  /\ runs = <<[status |-> "ACTIVE", base |-> 1]>>
  /\ recalled = {}
  /\ base = 1
  /\ sha256 \in BOOLEAN
  /\ pc = "idle"
  /\ todo = {}
  /\ done = {}
  /\ last = "NONE"
  /\ edits = 0
  /\ incidents = 0

-----------------------------------------------------------------------------
(* Helper state formulae. *)

Marked == marker \notin {None, Torn}
Hidden == {f \in Files : tomb[f] # None}
Present == {f \in Files : home[f] # None}
Having(status) == {i \in DOMAIN runs : runs[i].status = status}

\* The presets in the order of the receipt, then the receipt, then ACTIVE.
Rank(f) == IF f \in Presets THEN 0 ELSE IF f = Receipt THEN 1 ELSE 2
FirstOf(S) == {f \in S : \A g \in S : Rank(f) <= Rank(g)}
LastOf(S) == {f \in S : \A g \in S : Rank(g) <= Rank(f)}

\* The digest of every preset that is there is the one in the receipt.
Unmodified == \A p \in Presets : home[p] \in {None, "ours"}

\* Faulty variant: one file out of the way is taken for all of them.
SomeMoved == marker.moves \intersect Hidden # {}

\* What tells an uninstall that only had to be committed from one to undo.
AllMoved == marker.moves \intersect Present = {} /\ marker.moves \subseteq Hidden

Begins(label) == pc' = label /\ last' = "NONE"
Goto(label) == pc' = label /\ UNCHANGED last
Ends(result) == pc' = "idle" /\ last' = result
Resting == UNCHANGED <<todo, done>>

-----------------------------------------------------------------------------
(* uninstall: which of its paths this one takes. *)

UninstallRefused ==
  /\ pc = "idle"
  /\ \/ marker = Torn
     \/ marker = None /\ home[Receipt] = "ours" /\ ~Unmodified
     \* DSH is not there, or its bundle is not the one of the receipt.
     \/ marker # None \/ home[Receipt] # None
  /\ Ends("REFUSED")
  /\ Resting /\ UNCHANGED <<fileVars, otherVars, runs, envVars, incidents>>

UninstallBegins ==
  /\ pc = "idle"
  /\ \/ marker = None /\ home[Receipt] = "new" /\ Begins("bundle") /\ Resting
     \/ /\ marker = None /\ home[Receipt] = "ours" /\ Unmodified
        /\ Begins("mark") /\ todo' = Present /\ done' = {}
     \* No receipt: only the pointer of this workspace is cleared.
     \/ /\ marker = None /\ home[Receipt] = None
        /\ Begins("unlink") /\ todo' = Present \intersect {Pointer} /\ UNCHANGED done
     \/ /\ Marked /\ marker.phase = "PREPARED"
        /\ todo' = marker.moves /\ UNCHANGED done
        /\ IF AllMoved
           THEN Begins("commit") ELSE Begins("recover")
     \/ /\ Marked /\ marker.phase = "COMMITTED"
        /\ Begins("clean") /\ todo' = marker.moves /\ UNCHANGED done
  /\ UNCHANGED <<fileVars, otherVars, runs, envVars, incidents>>

-----------------------------------------------------------------------------
(* The moves, and their undoing within the same command. *)

WriteMarker ==
  /\ pc = "mark"
  /\ marker' = [phase |-> "PREPARED", moves |-> todo]
  /\ Goto("move")
  /\ Resting /\ UNCHANGED <<home, tomb, otherVars, runs, envVars, incidents>>

Bury(f) == home' = [home EXCEPT ![f] = None] /\ tomb' = [tomb EXCEPT ![f] = home[f]]
Raise(f) == home' = [home EXCEPT ![f] = tomb[f]] /\ tomb' = [tomb EXCEPT ![f] = None]

Move ==
  /\ pc = "move"
  /\ \/ \E f \in FirstOf(todo) :
          Bury(f) /\ todo' = todo \ {f} /\ done' = done \union {f} /\ Goto("move")
     \/ todo = {} /\ Goto("commit") /\ Resting /\ UNCHANGED <<home, tomb>>
  /\ UNCHANGED <<marker, otherVars, runs, envVars, incidents>>

Restore ==
  /\ pc = "restore"
  /\ \E f \in LastOf(todo) : Raise(f) /\ todo' = todo \ {f}
  /\ Goto("restore")
  /\ UNCHANGED <<marker, done, otherVars, runs, envVars, incidents>>

\* Faulty variant: the marker is removed whatever the restoration did.
RestoreForgets ==
  /\ pc = "restore" /\ todo = {}
  /\ marker' = None
  /\ Ends("CANCELLED")
  /\ Resting /\ UNCHANGED <<home, tomb, otherVars, runs, envVars, incidents>>

\* The marker goes only when nothing this command moved is still hidden.
RestoreEnds ==
  /\ pc = "restore" /\ todo = {}
  /\ IF done \intersect Hidden = {} THEN marker' = None /\ Ends("CANCELLED")
     ELSE Ends("FAILED") /\ UNCHANGED marker
  /\ Resting /\ UNCHANGED <<home, tomb, otherVars, runs, envVars, incidents>>

-----------------------------------------------------------------------------
(* What the next uninstall does of a PREPARED marker, and of a COMMITTED one. *)

\* Faulty variant: a tombstone is put back over whatever has its name.
RecoverOver ==
  /\ pc = "recover"
  /\ \/ \E f \in LastOf(todo) :
          /\ IF f \in Hidden THEN Raise(f) ELSE UNCHANGED <<home, tomb>>
          /\ todo' = todo \ {f} /\ Goto("recover")
     \/ todo = {} /\ Ends("CANCELLED") /\ UNCHANGED <<todo, home, tomb>>
  /\ marker' = IF todo = {} THEN None ELSE marker
  /\ UNCHANGED <<done, otherVars, runs, envVars, incidents>>

Recover ==
  /\ pc = "recover"
  /\ \/ \E f \in LastOf(todo) :
          \/ f \in Hidden \ Present /\ Raise(f) /\ todo' = todo \ {f} /\ Goto("recover")
          \/ f \notin Hidden /\ todo' = todo \ {f} /\ Goto("recover") /\ UNCHANGED <<home, tomb>>
          \* The state is ambiguous: the marker stays.
          \/ f \in Hidden \intersect Present /\ Ends("RECOVERY_REQUIRED")
             /\ UNCHANGED <<todo, home, tomb>>
     \/ todo = {} /\ Ends("CANCELLED") /\ UNCHANGED <<todo, home, tomb>>
  /\ marker' = IF todo = {} THEN None ELSE marker
  /\ UNCHANGED <<done, otherVars, runs, envVars, incidents>>

Commit ==
  /\ pc = "commit"
  /\ marker' = [marker EXCEPT !.phase = "COMMITTED"]
  /\ Goto("clean") /\ todo' = marker.moves
  /\ UNCHANGED <<done, home, tomb, otherVars, runs, envVars, incidents>>

Clean ==
  /\ pc = "clean"
  /\ \E f \in FirstOf(todo) : tomb' = [tomb EXCEPT ![f] = None] /\ todo' = todo \ {f}
  /\ Goto("clean")
  /\ UNCHANGED <<home, marker, done, otherVars, runs, envVars, incidents>>

\* A tombstone that could not be removed keeps the marker for the next time.
CleanEnds ==
  /\ pc = "clean" /\ todo = {}
  /\ IF marker.moves \intersect Hidden = {} THEN marker' = None /\ Goto("runs")
     ELSE Ends("RECOVERY_REQUIRED") /\ UNCHANGED marker
  /\ Resting /\ UNCHANGED <<home, tomb, otherVars, runs, envVars, incidents>>

-----------------------------------------------------------------------------
(* The receipt of a bundle; then what bootstrap.uninstall does on its own.   *)

\* remove_bundle, then the receipt, then ACTIVE; Installer has what DSH may answer.
UninstallBundle ==
  /\ pc = "bundle"
  /\ bundle' = FALSE
  /\ Goto("unlink") /\ todo' = Present \ Presets
  /\ UNCHANGED <<done, fileVars, skills, sha256, runs, envVars, incidents>>

Unlink ==
  /\ pc = "unlink"
  /\ \/ /\ \E f \in FirstOf(todo) : home' = [home EXCEPT ![f] = None] /\ todo' = todo \ {f}
        /\ Goto("unlink")
     \/ todo = {} /\ Goto("runs") /\ UNCHANGED <<home, todo>>
  /\ UNCHANGED <<tomb, marker, done, otherVars, runs, envVars, incidents>>

\* Faulty variant: only the newest run is looked at.
RollBackNewest ==
  /\ pc = "runs"
  /\ runs' = [runs EXCEPT ![Len(runs)].status = IF @ = "ACTIVE" THEN "ROLLED_BACK" ELSE @]
  /\ Goto("skills")
  /\ Resting /\ UNCHANGED <<fileVars, otherVars, envVars, incidents>>

\* Every run that is ACTIVE, not only the installed one.
RollBackRuns ==
  /\ pc = "runs"
  /\ \/ \E i \in Having("ACTIVE") :
          runs' = [runs EXCEPT ![i].status = "ROLLED_BACK"] /\ Goto("runs")
     \/ Having("ACTIVE") = {} /\ Goto("skills") /\ UNCHANGED runs
  /\ Resting /\ UNCHANGED <<fileVars, otherVars, envVars, incidents>>

RemoveSkills ==
  /\ pc = "skills"
  /\ skills' = FALSE
  /\ Ends("UNINSTALLED")
  /\ Resting /\ UNCHANGED <<fileVars, bundle, sha256, runs, envVars, incidents>>

-----------------------------------------------------------------------------
(* A step that fails, and a process that dies. *)

\* What the step in progress may leave half done: the marker is not written
\* atomically, and run.json is unlinked before it is written again.
HalfDone ==
  \/ UNCHANGED <<marker, runs>>
  \/ pc = "mark" /\ marker' = Torn /\ UNCHANGED runs
  \/ /\ pc = "runs"
     /\ \E i \in Having("ACTIVE") : runs' = [runs EXCEPT ![i].status = "MISSING"]
     /\ UNCHANGED marker

Crash ==
  /\ pc # "idle" /\ incidents < MaxIncidents
  /\ incidents' = incidents + 1
  /\ HalfDone
  /\ Ends("CRASHED")
  /\ Resting /\ UNCHANGED <<home, tomb, otherVars, envVars>>

\* A rename or a removal that fails is undone or passed over; anything else
\* ends the command.
Fails ==
  /\ incidents < MaxIncidents
  /\ incidents' = incidents + 1
  /\ \/ /\ pc = "move" /\ todo # {}
        /\ Goto("restore") /\ todo' = done /\ UNCHANGED <<marker, runs, done>>
     \/ /\ pc \in {"restore", "clean"}
        /\ \E f \in (IF pc = "clean" THEN FirstOf(todo) ELSE LastOf(todo)) : todo' = todo \ {f}
        /\ Goto(pc) /\ UNCHANGED <<marker, runs, done>>
     \/ pc \in {"mark", "recover", "commit", "bundle", "unlink", "runs", "skills"}
        /\ HalfDone /\ Ends("FAILED") /\ Resting
  /\ UNCHANGED <<home, tomb, otherVars, envVars>>

-----------------------------------------------------------------------------
(* install, update and purge-data; the pipeline; the project and the user.   *)

InProgress == Having("CREATED") \union Having("READY_FOR_INSTALL")

\* install compares the identity of the run with the raw revision: they are
\* the same only where a revision has the length of a sha256.
SameForInstall(i) == sha256 /\ runs[i].base = base

\* Faulty variant: the run does not say which commit it is for.
NewRunUnbased == Append(runs, [status |-> "CREATED", base |-> 0])

NewRun == Append(runs, [status |-> "CREATED", base |-> base])

\* Faulty variant: what update calls in progress is all that install looks at.
InstallAnswersLate(started) ==
  \/ Having("CREATED") # {} /\ Ends("EXISTING") /\ UNCHANGED runs
  \/ (\E i \in Having("ACTIVE") : SameForInstall(i)) /\ Ends("NO_OP") /\ UNCHANGED runs
  \/ /\ Having("CREATED") = {} /\ \A i \in Having("ACTIVE") : ~SameForInstall(i)
     /\ Len(runs) < MaxRuns
     /\ Ends("DONE") /\ runs' = started

\* install answers for the first run, in the order of their random names, that is in
\* progress or ACTIVE for this revision.
InstallAnswers(started) ==
  \/ InProgress # {} /\ Ends("EXISTING") /\ UNCHANGED runs
  \/ (\E i \in Having("ACTIVE") : SameForInstall(i)) /\ Ends("NO_OP") /\ UNCHANGED runs
  \/ /\ InProgress = {} /\ \A i \in Having("ACTIVE") : ~SameForInstall(i)
     /\ Len(runs) < MaxRuns
     /\ Ends("DONE") /\ runs' = started

Install ==
  /\ pc = "idle"
  /\ InstallAnswers(NewRun)
  /\ Resting /\ UNCHANGED <<fileVars, otherVars, envVars, incidents>>

\* A run waiting to be installed is not in progress to update, and install
\* answers for it; the ACTIVE run compared is the last one by its random name.
Update ==
  /\ pc = "idle"
  /\ IF Having("CREATED") # {} THEN Ends("EXISTING") /\ UNCHANGED runs
     ELSE IF Having("ACTIVE") = {} THEN Ends("REFUSED") /\ UNCHANGED runs
     ELSE \E i \in Having("ACTIVE") : IF runs[i].base = base THEN Ends("NO_OP") /\ UNCHANGED runs
                                     ELSE InstallAnswers(NewRun)
  /\ Resting /\ UNCHANGED <<fileVars, otherVars, envVars, incidents>>

\* Confirmed: every run goes, and nothing else does.
PurgeData ==
  /\ pc = "idle"
  /\ runs' = <<>> /\ recalled' = {}
  /\ Ends("DONE")
  /\ Resting /\ UNCHANGED <<fileVars, otherVars, base, edits, incidents>>

\* accept and finalize take the run they are told to, whatever became of it before.
Told(i) ==
  /\ pc = "idle"
  /\ runs[i].status # "MISSING"
  /\ recalled' = IF i \in InProgress THEN recalled ELSE recalled \union {i}

\* accept: its package is complete, and waits for the host (VALIDATING).
Accept(i) ==
  /\ Told(i)
  /\ runs' = [runs EXCEPT ![i].status = "CREATED"]
  /\ Ends("DONE")
  /\ Resting /\ UNCHANGED <<fileVars, otherVars, base, edits, incidents>>

\* What the pipeline, or finalize alone, makes of a run; nothing in it looks at the marker.
Finish(i) ==
  /\ Told(i)
  /\ \E status \in {"READY_FOR_INSTALL", "RETAINED", "ACTIVE"} :
       /\ runs' = [runs EXCEPT ![i].status = status]
       /\ IF status = "ACTIVE"
          THEN /\ bundle' = TRUE
               /\ home' = [home EXCEPT ![Receipt] = "new", ![Pointer] = "new"]
          ELSE UNCHANGED <<bundle, home>>
  /\ Ends("DONE")
  /\ Resting /\ UNCHANGED <<tomb, marker, skills, sha256, base, edits, incidents>>

\* The user changes a preset, or makes one under a name that is free.
Edit(p) ==
  /\ pc = "idle" /\ edits < MaxEdits
  /\ edits' = edits + 1
  /\ home' = [home EXCEPT ![p] = "user"]
  /\ UNCHANGED <<tomb, marker, otherVars, runs, recalled, base, pc, todo, done, last, incidents>>

ProjectMoves ==
  /\ pc = "idle" /\ base < MaxBases
  /\ base' = base + 1
  /\ UNCHANGED <<fileVars, otherVars, runs, recalled, edits, pc, todo, done, last, incidents>>

-----------------------------------------------------------------------------

UninstallSteps ==
  \/ UninstallRefused \/ UninstallBegins \/ WriteMarker \/ Move \/ Restore \/ RestoreEnds
  \/ Recover \/ Commit \/ Clean \/ CleanEnds \/ UninstallBundle \/ Unlink
  \/ RollBackRuns \/ RemoveSkills

Next ==
  \/ UninstallSteps \/ Crash \/ Fails
  \/ Install \/ Update \/ PurgeData \/ \E i \in DOMAIN runs : Accept(i) \/ Finish(i)
  \/ \E p \in Presets : Edit(p)
  \/ ProjectMoves

Spec == Init /\ [][Next]_vars

-----------------------------------------------------------------------------
(* Properties. *)

\* Every variable has the type its declaration says.
TypeOK ==
  /\ home \in [Files -> Contents] /\ tomb \in [Files -> Contents]
  /\ marker \in Markers \union {None, Torn}
  /\ bundle \in BOOLEAN /\ skills \in BOOLEAN /\ sha256 \in BOOLEAN
  /\ runs \in Seq([status : Statuses, base : 1..MaxBases]) /\ Len(runs) <= MaxRuns
  /\ recalled \subseteq 1..MaxRuns
  /\ base \in 1..MaxBases
  /\ pc \in Labels /\ todo \subseteq Files /\ done \subseteq Files
  /\ last \in Results
  /\ edits \in 0..MaxEdits /\ incidents \in 0..MaxIncidents

\* Nothing managed is ever forgotten under a tombstone: whatever fails and
\* wherever the process dies, a readable marker names every hidden file, so
\* that the next uninstall brings it back or removes it.
NothingForgotten == Hidden # {} => Marked /\ Hidden \subseteq marker.moves

\* An uninstall is all or nothing, across the commands and the process deaths
\* it takes: when its marker goes, a cancelled one has left every file it had
\* moved in its place, a committed one has left none, and no tombstone stays.
AllOrNothing ==
  [][Marked /\ marker' = None =>
       \A f \in marker.moves :
         /\ tomb'[f] = None
         /\ marker.phase = "PREPARED" => home'[f] # None
         /\ marker.phase = "COMMITTED" => home'[f] # "ours"]_vars

\* A preset the user changed or made himself stays as it is, in its place:
\* neither an uninstall nor the recovery of an interrupted one takes it away.
EditsKept == [][\A p \in Presets : home[p] = "user" => home'[p] = "user"]_vars

\* UNINSTALLED is the truth about the old installation, also when an earlier
\* uninstall died half way: no marker, no tombstone, no old receipt and no run
\* that would still answer as the active one.
UninstallComplete ==
  last = "UNINSTALLED" => /\ marker = None /\ Hidden = {}
                          /\ home[Receipt] # "ours" /\ home[Pointer] # "ours"
                          /\ Having("ACTIVE") = {}

\* install and update, which do not agree on what is in progress, never start a
\* run beside one that is still on its way to the installation: of the runs in
\* progress, all but one were called back by hand.
OneInProgress == \A i, j \in InProgress \ recalled : i = j
=============================================================================
