-------------------------- MODULE Workspace_proofs --------------------------
(***************************************************************************)
(* The theorems of Workspace: for every set of presets, any number of runs *)
(* and of commits of the project, any number of user edits and of          *)
(* incidents, an uninstall forgets nothing under a tombstone, is all or    *)
(* nothing, leaves what the user changed, and tells the truth when it      *)
(* answers UNINSTALLED.                                                    *)
(*                                                                         *)
(* The inductive invariant says, of every label of the commands, what the  *)
(* step about to be taken rests on (Steps), and of the disk what the       *)
(* marker can be trusted for (Disk).  The first part is what the next      *)
(* uninstall does not have: it comes back with the second part alone, and  *)
(* that must be enough for it to establish the first one again.            *)
(***************************************************************************)
EXTENDS Workspace, SequenceTheorems, TLAPS

-----------------------------------------------------------------------------
(* The invariant, part by part. *)

\* What stands under a name is not of the old installation.
Cleared(f) == home[f] # "ours"

\* What the step the command is about to take rests on.
AtMark == pc = "mark" => marker = None /\ todo = Present /\ done = {}
AtMove == pc = "move" =>
  /\ Marked /\ marker.phase = "PREPARED" /\ marker.moves = todo \union done
  /\ todo \subseteq Present /\ done = Hidden /\ done \intersect Present = {}
AtRestore == pc = "restore" =>
  /\ Marked /\ marker.phase = "PREPARED"
  /\ todo \subseteq Hidden \ Present /\ Hidden \subseteq done
AtRecover == pc = "recover" =>
  Marked /\ marker.phase = "PREPARED" /\ Hidden \subseteq todo
AtCommit == pc = "commit" =>
  Marked /\ marker.phase = "PREPARED" /\ marker.moves \intersect Present = {}
AtClean == pc = "clean" => Marked /\ marker.phase = "COMMITTED"
AtUnlink == pc \in {"bundle", "unlink", "runs", "skills"} =>
  /\ marker = None
  /\ pc = "bundle" => Cleared(Receipt)
  /\ pc = "unlink" => /\ todo \intersect Presets = {}
                      /\ \A f \in {Receipt, Pointer} : Cleared(f) \/ f \in todo
  /\ pc \in {"runs", "skills"} => Cleared(Receipt) /\ Cleared(Pointer)
  /\ pc = "skills" => Having("ACTIVE") = {}

\* What the moves take is as the old installation left it.
Untouched == pc \in {"mark", "move"} => \A p \in todo \intersect Presets : home[p] = "ours"

\* While a marker is PREPARED, what it names is in its place or under its tombstone;
\* what it does not name, and all of it once it is COMMITTED, is not of the old
\* installation any more.
Somewhere == Marked /\ marker.phase = "PREPARED" => marker.moves \subseteq Present \union Hidden
Named == Marked => \A f \in Files :
  Cleared(f) \/ (f \in marker.moves /\ marker.phase = "PREPARED")

\* An uninstall has no answer before it ends.
Answered == last = "UNINSTALLED" => pc = "idle"

Steps == /\ AtMark /\ AtMove /\ AtRestore /\ AtRecover /\ AtCommit /\ AtClean /\ AtUnlink
         /\ Untouched
Disk == NothingForgotten /\ Somewhere /\ Named
IInv == TypeOK /\ Steps /\ Disk /\ Answered /\ UninstallComplete /\ OneInProgress

Run == [status : Statuses, base : 1..MaxBases]

-----------------------------------------------------------------------------
(* The runs, and the types. *)

\* Giving a run another status changes nothing else of the sequence.
LEMMA StatusGiven ==
  ASSUME NEW rs \in Seq(Run), NEW i \in DOMAIN rs, NEW status \in Statuses
  PROVE  LET new == [rs EXCEPT ![i].status = status]
         IN  /\ new \in Seq(Run) /\ Len(new) = Len(rs) /\ DOMAIN new = DOMAIN rs
             /\ new[i].status = status
             /\ \A j \in DOMAIN rs \ {i} : new[j] = rs[j]
<1> DEFINE new == [rs EXCEPT ![i].status = status]
<1>1. new = [rs EXCEPT ![i] = [rs[i] EXCEPT !.status = status]]
  OBVIOUS
<1>2. Len(rs) \in Nat /\ DOMAIN rs = 1 .. Len(rs) /\ rs \in [1 .. Len(rs) -> Run]
  OBVIOUS
<1>3. /\ rs[i] \in Run /\ [rs[i] EXCEPT !.status = status] \in Run
      /\ [rs[i] EXCEPT !.status = status].status = status
  BY <1>2 DEF Run
<1>4. /\ new \in [1 .. Len(rs) -> Run] /\ new[i] = [rs[i] EXCEPT !.status = status]
      /\ \A j \in DOMAIN rs \ {i} : new[j] = rs[j]
  BY <1>1, <1>2, <1>3
<1>5. new \in Seq(Run) /\ Len(new) = Len(rs) /\ DOMAIN new = DOMAIN rs
  BY <1>2, <1>4
<1>6. QED
  BY <1>3, <1>4, <1>5

\* A run that starts is appended, for the commit the project is at.
LEMMA RunAppended ==
  ASSUME TypeOK, Len(runs) < MaxRuns
  PROVE  /\ NewRun \in Seq(Run) /\ Len(NewRun) = Len(runs) + 1 /\ Len(NewRun) <= MaxRuns
         /\ DOMAIN NewRun = DOMAIN runs \union {Len(runs) + 1}
         /\ NewRun[Len(runs) + 1].status = "CREATED"
         /\ \A i \in DOMAIN runs : NewRun[i] = runs[i]
<1> DEFINE run == [status |-> "CREATED", base |-> base]
<1>1. runs \in Seq(Run) /\ run \in Run /\ Len(runs) \in Nat /\ MaxRuns \in Nat
  BY BoundsAssumption DEF TypeOK, Run, Statuses
<1>2. NewRun = Append(runs, run)
  BY DEF NewRun
<1>3. QED
  BY <1>1, <1>2, AppendProperties

\* What a step may do to the runs.
Started == Len(runs) < MaxRuns /\ InProgress = {} /\ runs' = NewRun
Given(from, to) ==
  \E i \in DOMAIN runs, s \in to :
    runs[i].status \in from /\ runs' = [runs EXCEPT ![i].status = s]
RunsStep ==
  \/ UNCHANGED runs
  \/ Started
  \/ Given({"ACTIVE"}, {"ROLLED_BACK", "MISSING"})
Recalled(i) == recalled' = IF i \in InProgress THEN recalled ELSE recalled \union {i}
CalledBack ==
  \E i \in DOMAIN runs, s \in {"CREATED", "READY_FOR_INSTALL", "RETAINED", "ACTIVE"} :
    runs' = [runs EXCEPT ![i].status = s] /\ Recalled(i)
HistoryStep == \/ RunsStep /\ UNCHANGED recalled
               \/ CalledBack
               \/ runs' = <<>> /\ recalled' = {}

LEMMA RunsChange ==
  ASSUME TypeOK, [Next]_vars
  PROVE  HistoryStep
<1>0. runs \in Seq(Run)
  BY DEF TypeOK, Run
<1>1. CASE UNCHANGED vars
  BY <1>1 DEF HistoryStep, RunsStep, vars, envVars
<1>2. CASE UninstallSteps
  BY <1>2 DEF UninstallSteps, HistoryStep, RunsStep, Given, Having, UninstallRefused,
     UninstallBegins, WriteMarker, Move, Restore, RestoreEnds, Recover, Commit, Clean,
     CleanEnds, UninstallBundle, Unlink, RollBackRuns, RemoveSkills, envVars
<1>3. CASE Crash \/ Fails
  BY <1>3 DEF Crash, Fails, HalfDone, HistoryStep, RunsStep, Given, Having, envVars
<1>4. CASE Install \/ Update
  BY <1>4 DEF Install, Update, InstallAnswers, HistoryStep, RunsStep, Started, envVars
<1>5. CASE PurgeData
  BY <1>5 DEF PurgeData, HistoryStep
<1>6. ASSUME NEW i \in DOMAIN runs, Accept(i) \/ Finish(i) PROVE HistoryStep
  BY <1>6 DEF Accept, Finish, Told, HistoryStep, CalledBack, Recalled
<1>7. CASE (\E p \in Presets : Edit(p)) \/ ProjectMoves
  BY <1>7 DEF Edit, ProjectMoves, HistoryStep, RunsStep
<1>8. QED
  BY <1>1, <1>2, <1>3, <1>4, <1>5, <1>6, <1>7 DEF Next

LEMMA RunsTyped ==
  ASSUME TypeOK, HistoryStep
  PROVE  runs' \in Seq(Run) /\ Len(runs') <= MaxRuns /\ recalled' \subseteq 1..MaxRuns
<1>1. runs \in Seq(Run) /\ Len(runs) <= MaxRuns
  BY DEF TypeOK, Run
<1>2. ASSUME Started
      PROVE  runs' \in Seq(Run) /\ Len(runs') <= MaxRuns
  BY <1>2, RunAppended DEF Started
<1>3. ASSUME NEW i \in DOMAIN runs, NEW s \in Statuses, runs' = [runs EXCEPT ![i].status = s]
      PROVE  runs' \in Seq(Run) /\ Len(runs') <= MaxRuns
  BY <1>1, <1>3, StatusGiven
<1>4. CASE runs' = <<>> /\ recalled' = {}
  BY <1>4, BoundsAssumption
<1>5. CASE RunsStep /\ UNCHANGED recalled
  BY <1>1, <1>2, <1>3, <1>5 DEF RunsStep, Given, Statuses, TypeOK
<1>6. CASE CalledBack
  <2>1. PICK i \in DOMAIN runs, s \in {"CREATED", "READY_FOR_INSTALL", "RETAINED", "ACTIVE"} :
          runs' = [runs EXCEPT ![i].status = s] /\ Recalled(i)
    BY <1>6 DEF CalledBack
  <2>2. i \in 1..MaxRuns
    BY <1>1, BoundsAssumption
  <2>3. recalled' \subseteq 1..MaxRuns
    BY <2>1, <2>2 DEF Recalled, TypeOK
  <2>4. QED
    BY <1>3, <2>1, <2>3 DEF Statuses
<1>7. QED
  BY <1>4, <1>5, <1>6 DEF HistoryStep

LEMMA OneStep ==
  ASSUME TypeOK, OneInProgress, HistoryStep
  PROVE  OneInProgress'
<1>0. runs \in Seq(Run)
  BY DEF TypeOK, Run
<1>1. CASE UNCHANGED <<runs, recalled>>
  BY <1>1 DEF OneInProgress, InProgress, Having
<1>2. CASE Started /\ UNCHANGED recalled
  <2>1. \A i \in DOMAIN runs : runs'[i].status \notin {"CREATED", "READY_FOR_INSTALL"}
    BY <1>2, RunAppended DEF Started, InProgress, Having
  <2>2. InProgress' \subseteq {Len(runs) + 1}
    BY <1>2, <2>1, RunAppended DEF Started, InProgress, Having
  <2>3. QED
    BY <2>2 DEF OneInProgress
<1>3. CASE Given({"ACTIVE"}, {"ROLLED_BACK", "MISSING"}) /\ UNCHANGED recalled
  <2>1. PICK i \in DOMAIN runs, s \in {"ROLLED_BACK", "MISSING"} :
          runs' = [runs EXCEPT ![i].status = s]
    BY <1>3 DEF Given
  <2>2. InProgress' \subseteq InProgress
    <3>1. s \in Statuses
      BY DEF Statuses
    <3>2. /\ DOMAIN runs' = DOMAIN runs /\ runs'[i].status = s
          /\ \A j \in DOMAIN runs \ {i} : runs'[j] = runs[j]
      BY <1>0, <2>1, <3>1, StatusGiven
    <3>3. QED
      BY <3>2 DEF InProgress, Having
  <2>3. QED
    BY <1>3, <2>2 DEF OneInProgress
<1>4. CASE CalledBack
  <2>1. PICK i \in DOMAIN runs, s \in {"CREATED", "READY_FOR_INSTALL", "RETAINED", "ACTIVE"} :
          runs' = [runs EXCEPT ![i].status = s] /\ Recalled(i)
    BY <1>4 DEF CalledBack
  <2>2. InProgress' \ recalled' \subseteq InProgress \ recalled
    <3>1. s \in Statuses
      BY DEF Statuses
    <3>2. DOMAIN runs' = DOMAIN runs /\ \A j \in DOMAIN runs \ {i} : runs'[j] = runs[j]
      BY <1>0, <2>1, <3>1, StatusGiven
    <3>3. InProgress' \subseteq InProgress \union {i}
      BY <3>2 DEF InProgress, Having
    <3>4. QED
      BY <2>1, <3>3 DEF Recalled
  <2>3. QED
    BY <2>2 DEF OneInProgress
<1>5. CASE runs' = <<>> /\ recalled' = {}
  BY <1>5 DEF OneInProgress, InProgress, Having
<1>6. QED
  BY <1>1, <1>2, <1>3, <1>4, <1>5 DEF HistoryStep, RunsStep

LEMMA TypeStep ==
  ASSUME IInv, [Next]_vars
  PROVE  TypeOK'
<1>0. TypeOK /\ Steps
  BY DEF IInv
<1>1. runs' \in Seq(Run) /\ Len(runs') <= MaxRuns /\ recalled' \subseteq 1..MaxRuns
  BY <1>0, RunsChange, RunsTyped
<1>2. ASSUME Next
      PROVE  /\ home' \in [Files -> Contents] /\ tomb' \in [Files -> Contents]
             /\ marker' \in Markers \union {None, Torn}
             /\ bundle' \in BOOLEAN /\ skills' \in BOOLEAN /\ sha256' \in BOOLEAN
             /\ base' \in 1..MaxBases
             /\ pc' \in Labels /\ todo' \subseteq Files /\ done' \subseteq Files
             /\ last' \in Results
             /\ edits' \in 0..MaxEdits /\ incidents' \in 0..MaxIncidents
  <2>1. CASE UninstallRefused \/ UninstallBegins \/ WriteMarker
    BY <1>0, <2>1 DEF UninstallRefused, UninstallBegins, WriteMarker, TypeOK, Ends, Begins,
       Goto, Resting, fileVars, otherVars, envVars, Present, Files, Labels, Results, Marked,
       Markers, Contents
  <2>2. CASE Move \/ Restore \/ RestoreEnds
    BY <1>0, <2>2 DEF Move, Restore, RestoreEnds, FirstOf, LastOf, Bury, Raise, TypeOK,
       Ends, Goto, Resting, fileVars, otherVars, envVars, Labels, Results, Contents
  <2>3. CASE Recover \/ Commit
    BY <1>0, <2>3 DEF Recover, Commit, LastOf, Raise, TypeOK, Ends, Goto, otherVars, envVars,
       Labels, Results, Contents, Steps, AtCommit, Marked, Markers
  <2>11. CASE Clean \/ CleanEnds
    BY <1>0, <2>11 DEF Clean, CleanEnds, FirstOf, TypeOK, Ends, Goto, Resting, otherVars,
       envVars, Labels, Results, Contents
  <2>4. CASE UninstallBundle \/ Unlink \/ RollBackRuns \/ RemoveSkills
    BY <1>0, <2>4 DEF UninstallBundle, Unlink, RollBackRuns, RemoveSkills, FirstOf, Present,
       Files, TypeOK, Ends, Goto, Resting, fileVars, otherVars, envVars, Labels,
       Results, Contents
  <2>5. CASE Crash
    BY <1>0, <2>5, BoundsAssumption DEF Crash, HalfDone, TypeOK, Ends, Resting,
       otherVars, envVars, Labels, Results
  <2>6. CASE Fails
    BY <1>0, <2>6, BoundsAssumption DEF Fails, HalfDone, FirstOf, LastOf, TypeOK, Ends,
       Goto, Resting, otherVars, envVars, Labels, Results
  <2>7. CASE Install \/ Update \/ PurgeData
    BY <1>0, <2>7 DEF Install, Update, PurgeData, InstallAnswers, TypeOK, Ends, Resting,
       fileVars, otherVars, envVars, Labels, Results
  <2>8. CASE \E i \in DOMAIN runs : Accept(i) \/ Finish(i)
    BY <1>0, <2>8 DEF Accept, Finish, Told, TypeOK, Ends, Resting, fileVars, otherVars,
       Labels, Results, Files, Contents
  <2>9. CASE (\E p \in Presets : Edit(p)) \/ ProjectMoves
    BY <1>0, <2>9, BoundsAssumption DEF Edit, ProjectMoves, TypeOK,
       fileVars, otherVars, Files, Contents
  <2>10. QED
    BY <1>2, <2>1, <2>2, <2>3, <2>4, <2>5, <2>6, <2>7, <2>8, <2>9, <2>11
       DEF Next, UninstallSteps
<1>3. CASE UNCHANGED vars
  BY <1>0, <1>3 DEF TypeOK, vars, fileVars, otherVars, envVars
<1>4. QED
  BY <1>1, <1>2, <1>3 DEF TypeOK, Run

-----------------------------------------------------------------------------
(* The steps of the commands. *)

\* What each step rests on was made so by the step before it, in this command or, for a
\* command that begins, by what the disk says.
LEMMA StepsStep == IInv /\ [Next]_vars => Steps'
<1> SUFFICES ASSUME IInv, [Next]_vars PROVE Steps'
  OBVIOUS
<1> USE NamesAssumption, FilesAssumption DEF IInv, TypeOK, Steps, AtMark, AtMove,
   AtRestore, AtRecover, AtCommit, AtClean, AtUnlink, Untouched, Marked, Hidden, Present,
   Disk, NothingForgotten, Somewhere, Named, Cleared, Having, Markers, Files
<1>1. CASE UninstallRefused
  BY <1>1 DEF UninstallRefused, Unmodified, Ends, Resting, fileVars, otherVars, envVars
<1>2. CASE UninstallBegins
  BY <1>2 DEF UninstallBegins, Begins, Resting, Unmodified, AllMoved, fileVars, otherVars,
     envVars
<1>3. CASE WriteMarker
  BY <1>3 DEF WriteMarker, Goto, Resting, otherVars, envVars
<1>4. CASE Move
  BY <1>4 DEF Move, FirstOf, Bury, Goto, Resting, otherVars, envVars
<1>5. CASE Restore
  BY <1>5 DEF Restore, LastOf, Raise, Goto, otherVars, envVars
<1>6. CASE RestoreEnds
  BY <1>6 DEF RestoreEnds, Ends, Resting, otherVars, envVars
<1>7. CASE Recover
  BY <1>7 DEF Recover, LastOf, Raise, Goto, Ends, otherVars, envVars
<1>8. CASE Commit
  BY <1>8 DEF Commit, Goto, otherVars, envVars
<1>9. CASE Clean
  BY <1>9 DEF Clean, FirstOf, Goto, otherVars, envVars
<1>10. CASE CleanEnds
  BY <1>10 DEF CleanEnds, Goto, Ends, Resting, otherVars, envVars
<1>11. CASE UninstallBundle
  BY <1>11 DEF UninstallBundle, Goto, fileVars, envVars
<1>12. CASE Unlink
  BY <1>12 DEF Unlink, FirstOf, Goto, otherVars, envVars
<1>13. CASE RollBackRuns
  BY <1>13 DEF RollBackRuns, Goto, Resting, fileVars, otherVars, envVars
<1>14. CASE RemoveSkills
  BY <1>14 DEF RemoveSkills, Ends, Resting, fileVars, envVars
<1>15. CASE Crash
  BY <1>15 DEF Crash, HalfDone, Ends, Resting, otherVars, envVars
<1>16. CASE Fails
  BY <1>16 DEF Fails, Goto, FirstOf, LastOf, HalfDone, Ends, Resting, otherVars, envVars
<1>17. CASE Install
  BY <1>17 DEF Install, InstallAnswers, Ends, Resting, fileVars, otherVars, envVars
<1>18. CASE Update
  BY <1>18 DEF Update, Ends, InstallAnswers, Resting, fileVars, otherVars, envVars
<1>19. CASE PurgeData
  BY <1>19 DEF PurgeData, Ends, Resting, fileVars, otherVars, envVars
<1>20. ASSUME NEW i \in DOMAIN runs, Accept(i) \/ Finish(i)
      PROVE  Steps'
  BY <1>20 DEF Accept, Finish, Told, Ends, Resting, fileVars, otherVars
<1>21. ASSUME NEW q \in Presets, Edit(q)
      PROVE  Steps'
  BY <1>21 DEF Edit, otherVars
<1>22. CASE ProjectMoves
  BY <1>22 DEF ProjectMoves, fileVars, otherVars
<1>23. CASE UNCHANGED vars
  BY <1>23 DEF vars, fileVars, envVars
<1>24. QED
  BY <1>1, <1>2, <1>3, <1>4, <1>5, <1>6, <1>7, <1>8, <1>9, <1>10, <1>11, <1>12, <1>13,
     <1>14, <1>15, <1>16, <1>17, <1>18, <1>19, <1>20, <1>21, <1>22, <1>23
     DEF Next, UninstallSteps

\* The marker speaks of every file that a step hides, brings back or removes.
LEMMA DiskStep == IInv /\ [Next]_vars => Disk'
<1> SUFFICES ASSUME IInv, [Next]_vars PROVE Disk'
  OBVIOUS
<1> USE NamesAssumption, FilesAssumption DEF IInv, TypeOK, Steps, AtMark, AtMove,
   AtRestore, AtRecover, AtCommit, AtClean, AtUnlink, Untouched, Marked, Hidden, Present,
   Disk, NothingForgotten, Somewhere, Named, Cleared, Markers, Files
<1>1. CASE UninstallRefused
  BY <1>1 DEF UninstallRefused, Unmodified, Ends, Resting, fileVars, otherVars, envVars
<1>2. CASE UninstallBegins
  BY <1>2 DEF UninstallBegins, Begins, Resting, Unmodified, AllMoved, fileVars, otherVars,
     envVars
<1>3. CASE WriteMarker
  BY <1>3 DEF WriteMarker, Goto, Resting, otherVars, envVars
<1>4. CASE Move
  BY <1>4 DEF Move, FirstOf, Bury, Goto, Resting, otherVars, envVars
<1>5. CASE Restore
  BY <1>5 DEF Restore, LastOf, Raise, Goto, otherVars, envVars
<1>6. CASE RestoreEnds
  BY <1>6 DEF RestoreEnds, Ends, Resting, otherVars, envVars
<1>7. CASE Recover
  BY <1>7 DEF Recover, LastOf, Raise, Goto, Ends, otherVars, envVars
<1>8. CASE Commit
  BY <1>8 DEF Commit, Goto, otherVars, envVars
<1>9. CASE Clean
  BY <1>9 DEF Clean, FirstOf, Goto, otherVars, envVars
<1>10. CASE CleanEnds
  BY <1>10 DEF CleanEnds, Goto, Ends, Resting, otherVars, envVars
<1>11. CASE UninstallBundle
  BY <1>11 DEF UninstallBundle, Goto, fileVars, envVars
<1>12. CASE Unlink
  BY <1>12 DEF Unlink, FirstOf, Goto, otherVars, envVars
<1>13. CASE RollBackRuns
  BY <1>13 DEF RollBackRuns, Having, Goto, Resting, fileVars, otherVars, envVars
<1>14. CASE RemoveSkills
  BY <1>14 DEF RemoveSkills, Ends, Resting, fileVars, envVars
<1>15. CASE Crash
  BY <1>15 DEF Crash, HalfDone, Having, Ends, Resting, otherVars, envVars
<1>16. CASE Fails
  BY <1>16 DEF Fails, Goto, FirstOf, LastOf, HalfDone, Having, Ends, Resting, otherVars,
     envVars
<1>17. CASE Install
  BY <1>17 DEF Install, InstallAnswers, Ends, Having, Resting, fileVars, otherVars,
     envVars
<1>18. CASE Update
  BY <1>18 DEF Update, Having, Ends, InstallAnswers, Resting, fileVars, otherVars, envVars
<1>19. CASE PurgeData
  BY <1>19 DEF PurgeData, Ends, Resting, fileVars, otherVars, envVars
<1>20. ASSUME NEW i \in DOMAIN runs, Accept(i) \/ Finish(i)
      PROVE  Disk'
  BY <1>20 DEF Accept, Finish, Told, Ends, Resting, fileVars, otherVars
<1>21. ASSUME NEW q \in Presets, Edit(q)
      PROVE  Disk'
  BY <1>21 DEF Edit, otherVars
<1>22. CASE ProjectMoves
  BY <1>22 DEF ProjectMoves, fileVars, otherVars
<1>23. CASE UNCHANGED vars
  BY <1>23 DEF vars, fileVars, envVars
<1>24. QED
  BY <1>1, <1>2, <1>3, <1>4, <1>5, <1>6, <1>7, <1>8, <1>9, <1>10, <1>11, <1>12, <1>13,
     <1>14, <1>15, <1>16, <1>17, <1>18, <1>19, <1>20, <1>21, <1>22, <1>23
     DEF Next, UninstallSteps

\* UNINSTALLED is answered where nothing of the old installation is left, and stands
\* until the next command begins.
LEMMA AnswerStep == IInv /\ [Next]_vars => (Answered /\ UninstallComplete)'
<1> SUFFICES ASSUME IInv, [Next]_vars PROVE (Answered /\ UninstallComplete)'
  OBVIOUS
<1> USE NamesAssumption, FilesAssumption DEF IInv, TypeOK, Steps, AtMark, AtMove,
   AtRestore, AtRecover, AtCommit, AtClean, AtUnlink, Disk, NothingForgotten, Somewhere,
   Named, Cleared, Marked, Hidden, Answered, UninstallComplete, Having, Files
<1>1. CASE UninstallRefused
  BY <1>1 DEF UninstallRefused, Unmodified, Ends, Resting, fileVars, otherVars, envVars
<1>2. CASE UninstallBegins
  BY <1>2 DEF UninstallBegins, Begins, Resting, Unmodified, Present, AllMoved, fileVars,
     otherVars, envVars
<1>3. CASE WriteMarker
  BY <1>3 DEF WriteMarker, Goto, Resting, otherVars, envVars
<1>4. CASE Move
  BY <1>4 DEF Move, FirstOf, Bury, Goto, Resting, otherVars, envVars
<1>5. CASE Restore
  BY <1>5 DEF Restore, LastOf, Raise, Goto, otherVars, envVars
<1>6. CASE RestoreEnds
  BY <1>6 DEF RestoreEnds, Ends, Resting, otherVars, envVars
<1>7. CASE Recover
  BY <1>7 DEF Recover, LastOf, Present, Raise, Goto, Ends, otherVars, envVars
<1>8. CASE Commit
  BY <1>8 DEF Commit, Goto, otherVars, envVars
<1>9. CASE Clean
  BY <1>9 DEF Clean, FirstOf, Goto, otherVars, envVars
<1>10. CASE CleanEnds
  BY <1>10 DEF CleanEnds, Goto, Ends, Resting, otherVars, envVars
<1>11. CASE UninstallBundle
  BY <1>11 DEF UninstallBundle, Goto, Present, fileVars, envVars
<1>12. CASE Unlink
  BY <1>12 DEF Unlink, FirstOf, Goto, otherVars, envVars
<1>13. CASE RollBackRuns
  BY <1>13 DEF RollBackRuns, Goto, Resting, fileVars, otherVars, envVars
<1>14. CASE RemoveSkills
  BY <1>14 DEF RemoveSkills, Ends, Resting, fileVars, envVars
<1>15. CASE Crash
  BY <1>15 DEF Crash, HalfDone, Ends, Resting, otherVars, envVars
<1>16. CASE Fails
  BY <1>16 DEF Fails, Goto, FirstOf, LastOf, HalfDone, Ends, Resting, otherVars, envVars
<1>17. CASE Install
  BY <1>17 DEF Install, InstallAnswers, Ends, Resting, fileVars, otherVars, envVars
<1>18. CASE Update
  BY <1>18 DEF Update, Ends, InstallAnswers, Resting, fileVars, otherVars, envVars
<1>19. CASE PurgeData
  BY <1>19 DEF PurgeData, Ends, Resting, fileVars, otherVars, envVars
<1>20. ASSUME NEW i \in DOMAIN runs, Accept(i) \/ Finish(i)
      PROVE  (Answered /\ UninstallComplete)'
  BY <1>20 DEF Accept, Finish, Told, Ends, Resting, fileVars, otherVars
<1>21. ASSUME NEW q \in Presets, Edit(q)
      PROVE  (Answered /\ UninstallComplete)'
  BY <1>21 DEF Edit, otherVars
<1>22. CASE ProjectMoves
  BY <1>22 DEF ProjectMoves, fileVars, otherVars
<1>23. CASE UNCHANGED vars
  BY <1>23 DEF vars, fileVars, envVars
<1>24. QED
  BY <1>1, <1>2, <1>3, <1>4, <1>5, <1>6, <1>7, <1>8, <1>9, <1>10, <1>11, <1>12, <1>13,
     <1>14, <1>15, <1>16, <1>17, <1>18, <1>19, <1>20, <1>21, <1>22, <1>23
     DEF Next, UninstallSteps

\* What an uninstall that is over has made of the files of its marker.
WholeAfter == \A f \in marker.moves :
  /\ tomb'[f] = None
  /\ marker.phase = "PREPARED" => home'[f] # None
  /\ marker.phase = "COMMITTED" => home'[f] # "ours"

\* A marker goes only where nothing it names is hidden any more.
LEMMA WholeStep == IInv /\ [Next]_vars => (Marked /\ marker' = None => WholeAfter)
<1> SUFFICES ASSUME IInv, [Next]_vars PROVE (Marked /\ marker' = None => WholeAfter)
  OBVIOUS
<1> USE NamesAssumption, FilesAssumption DEF IInv, TypeOK, Steps, AtMark, AtMove,
   AtRestore, AtRecover, AtCommit, AtClean, AtUnlink, Marked, Hidden, Present, Disk,
   NothingForgotten, Somewhere, Named, Cleared, WholeAfter, Markers, Files
<1>1. CASE UninstallRefused
  BY <1>1 DEF UninstallRefused, Unmodified, Ends, Resting, fileVars, otherVars, envVars
<1>2. CASE UninstallBegins
  BY <1>2 DEF UninstallBegins, Begins, Resting, Unmodified, AllMoved, fileVars, otherVars,
     envVars
<1>3. CASE WriteMarker
  BY <1>3 DEF WriteMarker, Goto, Resting, otherVars, envVars
<1>4. CASE Move
  BY <1>4 DEF Move, FirstOf, Bury, Goto, Resting, otherVars, envVars
<1>5. CASE Restore
  BY <1>5 DEF Restore, LastOf, Raise, Goto, otherVars, envVars
<1>6. CASE RestoreEnds
  BY <1>6 DEF RestoreEnds, Ends, Resting, otherVars, envVars
<1>7. CASE Recover
  BY <1>7 DEF Recover, LastOf, Raise, Goto, Ends, otherVars, envVars
<1>8. CASE Commit
  BY <1>8 DEF Commit, Goto, otherVars, envVars
<1>9. CASE Clean
  BY <1>9 DEF Clean, FirstOf, Goto, otherVars, envVars
<1>10. CASE CleanEnds
  BY <1>10 DEF CleanEnds, Goto, Ends, Resting, otherVars, envVars
<1>11. CASE UninstallBundle
  BY <1>11 DEF UninstallBundle, Goto, fileVars, envVars
<1>12. CASE Unlink
  BY <1>12 DEF Unlink, FirstOf, Goto, otherVars, envVars
<1>13. CASE RollBackRuns
  BY <1>13 DEF RollBackRuns, Having, Goto, Resting, fileVars, otherVars, envVars
<1>14. CASE RemoveSkills
  BY <1>14 DEF RemoveSkills, Ends, Resting, fileVars, envVars
<1>15. CASE Crash
  BY <1>15 DEF Crash, HalfDone, Having, Ends, Resting, otherVars, envVars
<1>16. CASE Fails
  BY <1>16 DEF Fails, Goto, FirstOf, LastOf, HalfDone, Having, Ends, Resting, otherVars,
     envVars
<1>17. CASE Install
  BY <1>17 DEF Install, InstallAnswers, Ends, Having, Resting, fileVars, otherVars,
     envVars
<1>18. CASE Update
  BY <1>18 DEF Update, Having, Ends, InstallAnswers, Resting, fileVars, otherVars, envVars
<1>19. CASE PurgeData
  BY <1>19 DEF PurgeData, Ends, Resting, fileVars, otherVars, envVars
<1>20. ASSUME NEW i \in DOMAIN runs, Accept(i) \/ Finish(i)
      PROVE  (Marked /\ marker' = None => WholeAfter)
  BY <1>20 DEF Accept, Finish, Told, Ends, Resting, fileVars, otherVars
<1>21. ASSUME NEW q \in Presets, Edit(q)
      PROVE  (Marked /\ marker' = None => WholeAfter)
  BY <1>21 DEF Edit, otherVars
<1>22. CASE ProjectMoves
  BY <1>22 DEF ProjectMoves, fileVars, otherVars
<1>23. CASE UNCHANGED vars
  BY <1>23 DEF vars, fileVars, envVars
<1>24. QED
  BY <1>1, <1>2, <1>3, <1>4, <1>5, <1>6, <1>7, <1>8, <1>9, <1>10, <1>11, <1>12, <1>13,
     <1>14, <1>15, <1>16, <1>17, <1>18, <1>19, <1>20, <1>21, <1>22, <1>23
     DEF Next, UninstallSteps

\* A move takes only what was found as it was installed, and puts it back only where its
\* name is free.
LEMMA EditsStep ==
  IInv /\ [Next]_vars => (\A p \in Presets : home[p] = "user" => home'[p] = "user")
<1> SUFFICES ASSUME IInv, [Next]_vars
             PROVE  (\A p \in Presets : home[p] = "user" => home'[p] = "user")
  OBVIOUS
<1> USE NamesAssumption, FilesAssumption DEF IInv, TypeOK, Steps, AtMove, AtRestore,
   AtUnlink, Untouched, Hidden, Present, Files
<1>1. CASE UninstallRefused
  BY <1>1 DEF UninstallRefused, Unmodified, Ends, Resting, fileVars, otherVars, envVars
<1>2. CASE UninstallBegins
  BY <1>2 DEF UninstallBegins, Begins, Resting, Unmodified, Marked, AllMoved, fileVars,
     otherVars, envVars
<1>3. CASE WriteMarker
  BY <1>3 DEF WriteMarker, Goto, Resting, otherVars, envVars
<1>4. CASE Move
  BY <1>4 DEF Move, FirstOf, Bury, Goto, Resting, otherVars, envVars
<1>5. CASE Restore
  BY <1>5 DEF Restore, LastOf, Raise, Goto, otherVars, envVars
<1>6. CASE RestoreEnds
  BY <1>6 DEF RestoreEnds, Ends, Resting, otherVars, envVars
<1>7. CASE Recover
  BY <1>7 DEF Recover, LastOf, Raise, Goto, Ends, otherVars, envVars
<1>8. CASE Commit
  BY <1>8 DEF Commit, Goto, otherVars, envVars
<1>9. CASE Clean
  BY <1>9 DEF Clean, FirstOf, Goto, otherVars, envVars
<1>10. CASE CleanEnds
  BY <1>10 DEF CleanEnds, Goto, Ends, Resting, otherVars, envVars
<1>11. CASE UninstallBundle
  BY <1>11 DEF UninstallBundle, Goto, fileVars, envVars
<1>12. CASE Unlink
  BY <1>12 DEF Unlink, FirstOf, Goto, otherVars, envVars
<1>13. CASE RollBackRuns
  BY <1>13 DEF RollBackRuns, Having, Goto, Resting, fileVars, otherVars, envVars
<1>14. CASE RemoveSkills
  BY <1>14 DEF RemoveSkills, Ends, Resting, fileVars, envVars
<1>15. CASE Crash
  BY <1>15 DEF Crash, HalfDone, Having, Ends, Resting, otherVars, envVars
<1>16. CASE Fails
  BY <1>16 DEF Fails, Goto, FirstOf, LastOf, HalfDone, Having, Ends, Resting, otherVars,
     envVars
<1>17. CASE Install
  BY <1>17 DEF Install, InstallAnswers, Ends, Having, Resting, fileVars, otherVars,
     envVars
<1>18. CASE Update
  BY <1>18 DEF Update, Having, Ends, InstallAnswers, Resting, fileVars, otherVars, envVars
<1>19. CASE PurgeData
  BY <1>19 DEF PurgeData, Ends, Resting, fileVars, otherVars, envVars
<1>20. ASSUME NEW i \in DOMAIN runs, Accept(i) \/ Finish(i)
      PROVE  (\A p \in Presets : home[p] = "user" => home'[p] = "user")
  BY <1>20 DEF Accept, Finish, Told, Ends, Resting, fileVars, otherVars
<1>21. ASSUME NEW q \in Presets, Edit(q)
      PROVE  (\A p \in Presets : home[p] = "user" => home'[p] = "user")
  BY <1>21 DEF Edit, otherVars
<1>22. CASE ProjectMoves
  BY <1>22 DEF ProjectMoves, fileVars, otherVars
<1>23. CASE UNCHANGED vars
  BY <1>23 DEF vars, fileVars, envVars
<1>24. QED
  BY <1>1, <1>2, <1>3, <1>4, <1>5, <1>6, <1>7, <1>8, <1>9, <1>10, <1>11, <1>12, <1>13,
     <1>14, <1>15, <1>16, <1>17, <1>18, <1>19, <1>20, <1>21, <1>22, <1>23
     DEF Next, UninstallSteps

-----------------------------------------------------------------------------
(* The invariant. *)

\* A workspace that is installed and that nothing has happened to.
LEMMA InitHolds == Init => IInv
<1> SUFFICES ASSUME Init PROVE IInv
  OBVIOUS
<1>1. /\ runs \in Seq(Run) /\ Len(runs) = 1 /\ DOMAIN runs = {1}
      /\ 1 \in 1 .. MaxBases /\ 1 <= MaxRuns
  <2>1. 1 \in 1 .. MaxBases /\ 1 <= MaxRuns
    BY BoundsAssumption
  <2>2. [status |-> "ACTIVE", base |-> 1] \in Run
    BY <2>1 DEF Run, Statuses
  <2>3. runs = <<[status |-> "ACTIVE", base |-> 1]>>
    BY DEF Init
  <2>4. QED
    BY <2>1, <2>2, <2>3
<1>2. TypeOK
  <2>1. home \in [Files -> Contents] /\ tomb \in [Files -> Contents]
    BY DEF Init, Contents
  <2>2. runs \in Seq([status : Statuses, base : 1 .. MaxBases]) /\ Len(runs) <= MaxRuns
    BY <1>1 DEF Run
  <2>3. base \in 1 .. MaxBases /\ edits \in 0 .. MaxEdits /\ incidents \in 0 .. MaxIncidents
    BY BoundsAssumption DEF Init
  <2>4. marker \in Markers \union {None, Torn} /\ pc \in Labels /\ last \in Results
    BY DEF Init, Labels, Results
  <2>5. bundle \in BOOLEAN /\ skills \in BOOLEAN /\ sha256 \in BOOLEAN
    BY DEF Init
  <2>6. QED
    BY <2>1, <2>2, <2>3, <2>4, <2>5 DEF Init, TypeOK
<1>3. Steps /\ Disk /\ Answered /\ UninstallComplete
  BY FilesAssumption DEF Init, Steps, AtMark, AtMove, AtRestore, AtRecover, AtCommit, AtClean,
     AtUnlink, Untouched, Disk, NothingForgotten, Somewhere, Named, Answered,
     UninstallComplete, Hidden, Marked
<1>4. OneInProgress
  BY <1>1 DEF OneInProgress, InProgress, Having
<1>5. QED
  BY <1>2, <1>3, <1>4 DEF IInv

\* Every step keeps each part of the invariant, given all of them.
LEMMA Inductive == IInv /\ [Next]_vars => IInv'
<1> SUFFICES ASSUME IInv, [Next]_vars PROVE IInv'
  OBVIOUS
<1>1. TypeOK'
  BY TypeStep
<1>2. Steps'
  BY StepsStep
<1>3. Disk'
  BY DiskStep
<1>4. (Answered /\ UninstallComplete)'
  BY AnswerStep
<1>5. OneInProgress'
  <2>1. TypeOK /\ OneInProgress
    BY DEF IInv
  <2>2. QED
    BY <2>1, RunsChange, OneStep
<1>6. QED
  BY <1>1, <1>2, <1>3, <1>4, <1>5 DEF IInv

\* The invariant holds in every state of the workspace.
THEOREM Invariance == Spec => []IInv
  BY InitHolds, Inductive, PTL DEF Spec

\* Every variable keeps its type, whatever the commands find and leave.
THEOREM TypeCorrect == Spec => []TypeOK
<1>1. IInv => TypeOK
  BY DEF IInv
<1>2. QED
  BY <1>1, Invariance, PTL

-----------------------------------------------------------------------------
(* The properties. *)

\* Nothing managed is ever forgotten under a tombstone: the marker is written
\* before the first rename and goes after the last tombstone, and a readable one
\* names every hidden file in between.
THEOREM NothingForgottenHolds == Spec => []NothingForgotten
<1>1. IInv => NothingForgotten
  BY DEF IInv, Disk
<1>2. QED
  BY <1>1, Invariance, PTL

\* An uninstall is all or nothing: the step that takes its marker away, in
\* whichever command that is, leaves every file of a cancelled uninstall in its
\* place and none of a committed one, and no tombstone.
THEOREM AllOrNothingHolds == Spec => AllOrNothing
<1>1. IInv /\ [Next]_vars => [Marked /\ marker' = None =>
        \A f \in marker.moves :
          /\ tomb'[f] = None
          /\ marker.phase = "PREPARED" => home'[f] # None
          /\ marker.phase = "COMMITTED" => home'[f] # "ours"]_vars
  BY WholeStep DEF WholeAfter
<1>2. QED
  BY <1>1, Invariance, PTL DEF Spec, AllOrNothing

\* What the user changed stays in its place: an uninstall refuses to start over
\* it, and no recovery puts a tombstone back over it.
THEOREM EditsKeptHolds == Spec => EditsKept
<1>1. IInv /\ [Next]_vars
        => [\A p \in Presets : home[p] = "user" => home'[p] = "user"]_vars
  BY EditsStep
<1>2. QED
  BY <1>1, Invariance, PTL DEF Spec, EditsKept

\* UNINSTALLED is the truth about the old installation, also where an earlier
\* uninstall died half way and this command finished it.
THEOREM UninstallCompleteHolds == Spec => []UninstallComplete
<1>1. IInv => UninstallComplete
  BY DEF IInv
<1>2. QED
  BY <1>1, Invariance, PTL

\* install and update start no run beside one on its way to the installation: of the
\* runs in progress, all but one were accepted or finalized by hand out of turn.
THEOREM OneInProgressHolds == Spec => []OneInProgress
<1>1. IInv => OneInProgress
  BY DEF IInv
<1>2. QED
  BY <1>1, Invariance, PTL
=============================================================================
