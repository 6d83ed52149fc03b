---------------------------- MODULE Workflow_proofs ----------------------------
(***************************************************************************)
(* Proofs about Workflow, for any plan, any limit of the store and any     *)
(* number of runs, crashes and failed calls.  IInv, the types, is shown    *)
(* inductive first: one lemma per conjunct, one step per action in it.     *)
(* History rests on it: the journal says only what it may, memory stands   *)
(* for the journal, and the process is where both say it is.               *)
(***************************************************************************)
EXTENDS Workflow, FiniteSetTheorems, NaturalsInduction, WellFoundedInduction, TLAPS

------------------------------------------------------------------------------
(* What the replay of a journal returns.                                   *)

LEMMA Least ==
  ASSUME NEW S \in SUBSET Nat, S # {}
  PROVE  \E x \in S : \A y \in S : x <= y
<1> DEFINE R == OpToRel(<, Nat)
<1>1. IsWellFoundedOn(R, Nat)
  BY NatLessThanWellFounded
<1>2. PICK x \in S : \A y \in S : <<y, x>> \notin R
  <2> HIDE DEF R
  <2>1. QED
    BY <1>1, WFMin
<1>3. ASSUME NEW y \in S PROVE x <= y
  <2>1. <<y, x>> \notin R
    BY <1>2
  <2>2. ~(y < x)
    BY <2>1 DEF OpToRel
  <2>3. QED
    BY <2>2
<1>4. QED
  BY <1>3

\* A bounded set of numbers has the maximum Max names.
LEMMA MaxOf ==
  ASSUME NEW S \in SUBSET Nat, S # {}, NEW n \in Nat, \A x \in S : x <= n
  PROVE  Max(S) \in S /\ \A y \in S : Max(S) >= y
<1> DEFINE T == {n - x : x \in S}
<1>1. T \in SUBSET Nat /\ T # {}
  <2>1. \A x \in S : n - x \in Nat
    OBVIOUS
  <2>2. QED
    BY <2>1
<1>2. PICK m \in S : \A y \in T : n - m <= y
  BY <1>1, Least
<1>3. \A y \in S : m >= y
  BY <1>2
<1>4. QED
  BY <1>3 DEF Max

\* The position of the last record of a kind, or 0.
LEMMA LastIn ==
  ASSUME NEW j \in Seq(RecordType), NEW s
  PROVE  /\ CompletedAt(j, s) \in 0 .. Len(j) /\ FailedAt(j, s) \in 0 .. Len(j)
         /\ SkippedAt(j, s) \in 0 .. Len(j) /\ PhaseAt(j) \in 0 .. Len(j)
<1>1. ASSUME NEW S \in SUBSET DOMAIN j PROVE Max({0} \union S) \in 0 .. Len(j)
  <2>1. DOMAIN j = 1 .. Len(j) /\ Len(j) \in Nat
    OBVIOUS
  <2> DEFINE T == {0} \union S
  <2>2. T \in SUBSET Nat /\ T # {} /\ \A x \in T : x <= Len(j)
    BY <2>1
  <2>3. Max(T) \in T
    BY <2>1, <2>2, MaxOf
  <2>4. QED
    BY <2>1, <2>2, <2>3
<1>2. Max({0} \union {i \in DOMAIN j : j[i].kind = "STEP_COMPLETED" /\ j[i].step = s}) \in 0 .. Len(j)
  BY <1>1
<1>3. Max({0} \union {i \in DOMAIN j : /\ j[i].kind = "STEP_FAILED" /\ j[i].step = s
                                       /\ Plan[s].action = "continue"}) \in 0 .. Len(j)
  BY <1>1
<1>4. Max({0} \union {i \in DOMAIN j : j[i].kind = "ASK_SKIPPED" /\ j[i].step = s}) \in 0 .. Len(j)
  BY <1>1
<1>5. Max({0} \union {i \in DOMAIN j : j[i].kind = "PHASE_STARTED"}) \in 0 .. Len(j)
  BY <1>1
<1>6. QED
  BY <1>2, <1>3, <1>4, <1>5 DEF CompletedAt, FailedAt, SkippedAt, PhaseAt, LastOf

LEMMA ReplayTypes ==
  ASSUME TypeOK, References, Numbered, Readable
  PROVE  /\ Replay(journal) \in MemType
         /\ \A s \in Steps : Replay(journal).attempts[s] <= Len(journal)
         /\ \A s \in Steps :
              LET p == Replay(journal).pending[s]
              IN  /\ p.session \in 0 .. Len(sessions)
                  /\ p.status = "dispatched" => p.session # 0
<1>1. journal \in Seq(RecordType) /\ Len(journal) \in Nat /\ DOMAIN journal = 1 .. Len(journal)
      /\ \A i \in DOMAIN journal : journal[i] \in RecordType
  BY DEF TypeOK
<1>2. ASSUME NEW s \in Steps
      PROVE  /\ Done(journal, s) \in Nat /\ Failed(journal, s) \in Nat
             /\ Verified(journal, s) \in Nat
  <2>1. CompletedAt(journal, s) \in 0 .. Len(journal) /\ FailedAt(journal, s) \in 0 .. Len(journal)
    BY <1>1, LastIn
  <2>2. Done(journal, s) \in Nat
    BY <1>1, <2>1 DEF Done, RecordType
  <2>3. Failed(journal, s) \in Nat
    BY <1>1, <2>1 DEF Failed, RecordType
  <2>4. QED
    BY <2>2, <2>3 DEF Verified
<1>3. ASSUME NEW s \in Steps
      PROVE  Attempts(journal, s) \in Nat /\ Attempts(journal, s) <= Len(journal)
  <2> DEFINE K == {k \in DOMAIN journal : journal[k].kind = "STEP_STARTED" /\ journal[k].step = s}
             A == {0} \union {journal[i].attempt : i \in K}
  <2>1. A \in SUBSET Nat /\ A # {} /\ \A x \in A : x <= Len(journal)
    BY <1>1 DEF RecordType, Numbered
  <2>2. Max(A) \in A
    BY <1>1, <2>1, MaxOf
  <2>3. Attempts(journal, s) = Max(A)
    BY DEF Attempts
  <2>4. QED
    BY <2>1, <2>2, <2>3
<1>4. PhaseCount(journal) \in Nat
  <2> DEFINE R == {i \in DOMAIN journal : i > PhaseAt(journal) /\ journal[i].kind = "GATE_REJECTED"}
  <2>1. IsFiniteSet(R)
    <3>1. IsFiniteSet(1 .. Len(journal))
      BY <1>1, FS_Interval
    <3>2. R \in SUBSET (1 .. Len(journal))
      BY <1>1
    <3>3. QED
      BY <3>1, <3>2, FS_Subset
  <2>2. Cardinality(R) \in Nat
    BY <2>1, FS_CardinalityType
  <2>3. QED
    BY <2>2 DEF PhaseCount
<1>5. ASSUME NEW s \in Steps, NEW a
      PROVE  LET p == LatestAskDispatch(s, a)
             IN  /\ p \in [status : {"none", "unknown", "unreadable", "dispatched"}, session : Nat]
                 /\ p.session \in 0 .. Len(sessions)
                 /\ p.status = "dispatched" => p.session # 0
  <2> DEFINE F == {n \in DOMAIN obs : obs[n].step = s /\ obs[n].intent = "ask" /\ obs[n].attempt = a}
  <2>1. DOMAIN obs = 1 .. Len(obs) /\ Len(obs) \in Nat /\ Len(sessions) \in Nat
    BY DEF TypeOK
  <2>2. F # {} => Max(F) \in F
    <3>1. F \in SUBSET Nat /\ \A x \in F : x <= Len(obs)
      BY <2>1
    <3>2. QED
      BY <2>1, <3>1, MaxOf
  <2>3. F # {} => obs[Max(F)].session \in 0 .. Len(sessions)
    BY <2>2 DEF References
  <2> HIDE DEF F
  <2>4. LatestAskDispatch(s, a) =
          IF F = {} THEN [status |-> "unknown", session |-> 0]
          ELSE IF obs[Max(F)].session = 0 \/ obs[Max(F)].status \notin {"dispatched", "failed"}
               THEN [status |-> "unreadable", session |-> 0]
          ELSE IF obs[Max(F)].status = "failed" THEN [status |-> "none", session |-> 0]
          ELSE [status |-> "dispatched", session |-> obs[Max(F)].session]
    BY DEF LatestAskDispatch, F
  <2>5. QED
    BY <2>1, <2>3, <2>4
<1>6. PhaseAt(journal) \in 0 .. Len(journal)
  BY <1>1, LastIn
<1>7. ASSUME NEW s \in Steps PROVE SkippedAt(journal, s) \in 0 .. Len(journal)
  BY <1>1, LastIn
<1>8. ASSUME NEW s \in Steps
      PROVE  Replay(journal).pending[s] \in
               {LatestAskDispatch(s, Attempts(journal, s)), [status |-> "none", session |-> 0]}
  BY DEF Replay
<1>9. Replay(journal) \in MemType
  <2> DEFINE M == Replay(journal)
  <2>1. M.completed \in [Steps -> Nat] /\ M.failed \in [Steps -> Nat]
    BY <1>2 DEF Replay
  <2>2. M.skipped \in [Steps -> Nat]
    BY <1>1, <1>7 DEF Replay, RecordType
  <2>3. M.attempts \in [Steps -> Nat]
    BY <1>3 DEF Replay
  <2>4. M.phase \in Nat
    BY <1>1, <1>6 DEF Replay, RecordType
  <2>5. M.count \in Nat
    BY <1>4 DEF Replay
  <2>6. M.phases \in SUBSET Nat
    BY <1>1 DEF Replay, RecordType
  <2>7. M.pending \in [Steps -> [status : {"none", "unknown", "unreadable", "dispatched"},
                                  session : Nat]]
    <3>1. ASSUME NEW s \in Steps
          PROVE  M.pending[s] \in [status : {"none", "unknown", "unreadable", "dispatched"},
                                    session : Nat]
      BY <1>5, <1>8
    <3>2. M.pending = [s \in Steps |-> M.pending[s]]
      BY DEF Replay
    <3>3. QED
      BY <3>1, <3>2
  <2>8. M = [completed |-> M.completed, failed |-> M.failed, skipped |-> M.skipped,
             attempts |-> M.attempts, phase |-> M.phase, count |-> M.count,
             phases |-> M.phases, pending |-> M.pending]
    BY DEF Replay
  <2> HIDE DEF M
  <2>9. [completed |-> M.completed, failed |-> M.failed, skipped |-> M.skipped,
         attempts |-> M.attempts, phase |-> M.phase, count |-> M.count,
         phases |-> M.phases, pending |-> M.pending] \in MemType
    BY <2>1, <2>2, <2>3, <2>4, <2>5, <2>6, <2>7 DEF MemType
  <2>10. QED
    BY <2>8, <2>9 DEF M
<1>10. \A s \in Steps : Replay(journal).attempts[s] <= Len(journal)
  BY <1>3 DEF Replay
<1>11. ASSUME NEW s \in Steps
       PROVE  /\ Replay(journal).pending[s].session \in 0 .. Len(sessions)
              /\ Replay(journal).pending[s].status = "dispatched" =>
                   Replay(journal).pending[s].session # 0
  BY <1>5, <1>8
<1>12. QED
  BY <1>9, <1>10, <1>11

------------------------------------------------------------------------------
(* Every step keeps the types of the variables.                            *)

LEMMA Constants == /\ Len(Plan) \in Nat /\ Steps = 1 .. Len(Plan) /\ Limit \in Nat /\ Limit >= 2
                   /\ \A s \in Steps : Plan[s] \in StepType
                   /\ 1 \in 0 .. (Len(Plan) + 1)
  BY PlanAssumption, BoundsAssumption DEF Steps

LEMMA RecordTypes ==
  ASSUME NEW kind \in Kinds, NEW s \in Nat, NEW a \in Nat, NEW o \in Nat, NEW d \in SUBSET (Nat \X Nat)
  PROVE  Record(kind, s, a, o, d) \in RecordType /\ Bare(kind, s) \in RecordType
  BY DEF Record, Bare, RecordType

LEMMA LineTypes ==
  /\ NoLine \in RecordType
  /\ \A e \in RecordType : e.kind \in Kinds /\ e.step \in Nat /\ e.attempt \in Nat /\ e.obs \in Nat
<1>1. NoLine \in RecordType
  BY RecordTypes DEF NoLine, Kinds
<1>2. QED
  BY <1>1 DEF RecordType

CtlTypes == /\ pc \in Labels /\ step \in 0 .. (Len(Plan) + 1) /\ failures \in Nat
            /\ outcome \in {"NONE", "COMPLETED", "RETAINED", "REFUSED", "CRASHED"}
            /\ cause \in Causes /\ journaled \in BOOLEAN

LEMMA ControlStep == IInv /\ [Next]_vars => CtlTypes'
<1> SUFFICES ASSUME IInv, [Next]_vars PROVE CtlTypes'
  OBVIOUS
<1> USE Constants DEF IInv, TypeOK, CtlTypes, Labels, Causes
<1> USE DEF Starts, At, Appends, Retains, Goes, NextStep, Gone, Quiet, InStep,
    diskVars, procVars, lastVars, envVars
<1>1. CASE Prepare
  BY <1>1 DEF Prepare
<1>2. CASE Refuse
  BY <1>2 DEF Refuse
<1>3. CASE Resume
  BY <1>3 DEF Resume, Enter
<1>4. CASE PlanLoaded
  BY <1>4 DEF PlanLoaded, Enter, Recorded
<1>5. CASE MemoryReconciled
  BY <1>5 DEF MemoryReconciled, Recorded
<1>6. CASE PhaseStarted
  <2>1. step \in Steps
    BY <1>6 DEF PhaseStarted, Recorded, InPlace, StepKinds, Kinds
  <2>2. /\ pc' = "step" /\ step' = step + 1 /\ failures' = 0
        /\ UNCHANGED <<outcome, cause, journaled>>
    BY <1>6 DEF PhaseStarted
  <2>3. QED
    BY <2>1, <2>2
<1>7. CASE StepStarted
  BY <1>7 DEF StepStarted, Recorded, InPlace, StepKinds, Kinds, StepType
<1>8. CASE StepCompleted
  <2>1. step \in Steps
    BY <1>8 DEF StepCompleted, Recorded, InPlace, StepKinds, Kinds
  <2>2. /\ pc' = "step" /\ step' = step + 1 /\ failures' = 0
        /\ UNCHANGED <<outcome, cause, journaled>>
    BY <1>8 DEF StepCompleted
  <2>3. QED
    BY <2>1, <2>2
<1>9. CASE AskSkipped
  <2>1. step \in Steps
    BY <1>9 DEF AskSkipped, Recorded, InPlace, StepKinds, Kinds
  <2>2. /\ pc' = "step" /\ step' = step + 1 /\ failures' = 0
        /\ UNCHANGED <<outcome, cause, journaled>>
    BY <1>9 DEF AskSkipped
  <2>3. QED
    BY <2>1, <2>2
<1>10. CASE GateRejected
  <2>1. failures' \in Nat /\ UNCHANGED <<step, outcome, journaled>>
    BY <1>10 DEF GateRejected
  <2>2. pc' \in Labels /\ cause' \in Causes
    <3>1. CASE OverCap(mem')
      BY <1>10, <3>1 DEF GateRejected
    <3>2. CASE ~OverCap(mem')
      <4>1. UNCHANGED cause /\ pc' \in {"record", "again"}
        BY <1>10, <3>2 DEF GateRejected
      <4>2. QED
        BY <4>1
    <3>3. QED
      BY <3>1, <3>2
  <2>3. QED
    BY <2>1, <2>2
<1>11. CASE RoundCapReached
  BY <1>11 DEF RoundCapReached
<1>12. CASE StepFailed
  <2>1. step \in Steps
    BY <1>12 DEF StepFailed, Recorded, InPlace, StepKinds, Kinds
  <2>2. CASE Plan[step].action = "continue"
    <3>1. /\ pc' = "step" /\ step' = step + 1 /\ failures' = 0
          /\ UNCHANGED <<outcome, cause, journaled>>
      BY <1>12, <2>2 DEF StepFailed
    <3>2. QED
      BY <2>1, <3>1
  <2>3. CASE Plan[step].action # "continue"
    BY <1>12, <2>3 DEF StepFailed
  <2>4. QED
    BY <2>2, <2>3
<1>13. CASE RunCompleted
  BY <1>13 DEF RunCompleted
<1>14. CASE StoreFull
  BY <1>14 DEF StoreFull
<1>15. CASE Retained
  <2>1. journaled' \in BOOLEAN
    <3>1. CASE Fits(TRUE)
      BY <1>15, <3>1 DEF Retained
    <3>2. CASE ~Fits(TRUE)
      BY <1>15, <3>2 DEF Retained
    <3>3. QED
      BY <3>1, <3>2
  <2>2. pc' = "idle" /\ step' = 0 /\ failures' = 0 /\ outcome' = "RETAINED" /\ cause' = cause
    BY <1>15 DEF Retained
  <2>3. QED
    BY <2>1, <2>2
<1>16. CASE SkipStep
  BY <1>16 DEF SkipStep
<1>17. CASE StartPhase
  BY <1>17 DEF StartPhase
<1>18. CASE GateUnsealed
  BY <1>18 DEF GateUnsealed
<1>19. CASE StartGate
  BY <1>19 DEF StartGate, StartAttempt
<1>20. CASE RunGate
  BY <1>20 DEF RunGate, GateRuns
<1>21. CASE StartJoin
  BY <1>21 DEF StartJoin, StartAttempt
<1>22. CASE JoinDeps
  BY <1>22 DEF JoinDeps
<1>23. CASE Finish
  BY <1>23 DEF Finish
<1>24. CASE AskUnconditional
  BY <1>24 DEF AskUnconditional, StartAttempt, Fresh
<1>25. CASE AskConditional
  BY <1>25 DEF AskConditional, StartAttempt
<1>26. CASE CreateSession
  BY <1>26 DEF CreateSession
<1>27. CASE SessionNotCreated
  BY <1>27 DEF SessionNotCreated
<1>28. CASE Dispatch
  BY <1>28 DEF Dispatch
<1>29. CASE Send
  BY <1>29 DEF Send
<1>30. CASE SendFails
  BY <1>30 DEF SendFails
<1>31. CASE Answered
  BY <1>31 DEF Answered
<1>32. CASE DeadlineExpires
  BY <1>32 DEF DeadlineExpires
<1>33. CASE ObserveFails
  BY <1>33 DEF ObserveFails
<1>34. CASE TakeAnswer
  BY <1>34 DEF TakeAnswer
<1>35. CASE AskUnresumable
  BY <1>35 DEF AskUnresumable
<1>36. CASE AskResume
  BY <1>36 DEF AskResume
<1>37. CASE AskSessionLost
  BY <1>37 DEF AskSessionLost
<1>38. CASE SessionWorks
  BY <1>38 DEF SessionWorks
<1>39. CASE SessionLost
  BY <1>39 DEF SessionLost
<1>40. CASE Crash
  <2>1. pc' = "idle" /\ step' = 0 /\ failures' = 0
    BY <1>40 DEF Crash
  <2>2. outcome' = "CRASHED" /\ cause' = "none" /\ journaled' \in BOOLEAN
    BY <1>40 DEF Crash
  <2>3. QED
    BY <2>1, <2>2
<1>41. CASE UNCHANGED vars
  BY <1>41 DEF vars, diskVars, procVars, lastVars, envVars
<1>42. QED
  BY <1>1, <1>2, <1>3, <1>4, <1>5, <1>6, <1>7, <1>8, <1>9, <1>10, <1>11, <1>12, <1>13, <1>14,
     <1>15, <1>16, <1>17, <1>18, <1>19, <1>20, <1>21, <1>22, <1>23, <1>24, <1>25, <1>26, <1>27, <1>28,
     <1>29, <1>30, <1>31, <1>32, <1>33, <1>34, <1>35, <1>36, <1>37, <1>38, <1>39, <1>40, <1>41
  DEF Next, RunPlan, Process, Records, Plain, Ask

------------------------------------------------------------------------------
(* What a step may do to the files, the journal and the sessions.          *)

ObsGrows ==
  \/ obs' = obs
  \/ \E o \in ObsType : /\ o.session \in 0 .. Len(sessions) /\ obs' = Append(obs, o)
                        /\ o.status = "failed" => o.session = 0

\* Only an append changes the journal: of the line in hand, or of a retention.
JournalGrows ==
  /\ dir' \in {dir, "ready"}
  /\ \/ journal' = journal
     \/ pc = "record" /\ journal' = Append(journal, line)
     \/ pc = "retain" /\ journal' = Append(journal, Bare("RUN_RETAINED", 0))

\* A session is put to the ask in hand; one that is over stays over.
SessionsGo ==
  \/ sessions' = sessions
  \/ /\ pc = "ask" /\ pc' = "dispatch" /\ step' = step
     /\ \E ses \in SessionType : ses.step = step /\ sessions' = Append(sessions, ses)
  \/ \E n \in DOMAIN sessions, ses \in SessionType :
       /\ sessions' = [sessions EXCEPT ![n] = ses] /\ ses.step = sessions[n].step
       /\ sessions[n].state \in {"ended", "lost"} => ses.state \in {"ended", "lost"}

\* What WriteAskState appends.
AskState(status, ses, result) ==
  [step |-> step, intent |-> "ask", attempt |-> mem.attempts[step], status |-> status,
   session |-> ses, result |-> result, given |-> 0]
LEMMA AskStateType ==
  ASSUME IInv, pc \in AskLabels, NEW status \in {"failed", "dispatched", "completed"},
         NEW ses \in 0 .. Len(sessions), NEW result \in Verdicts
  PROVE  AskState(status, ses, result) \in ObsType
         /\ AskState(status, ses, result).session = ses
         /\ AskState(status, ses, result).status = status
<1>1. step \in Steps /\ mem.attempts[step] \in Nat /\ ses \in Nat
  BY DEF IInv, TypeOK, InPlace, MemType
<1>2. QED
  BY <1>1 DEF AskState, ObsType

LEMMA ObsShape == IInv /\ [Next]_vars => ObsGrows
<1> SUFFICES ASSUME IInv, [Next]_vars PROVE ObsGrows
  OBVIOUS
<1> USE DEF ObsGrows, diskVars, InStep
<1>1. CASE Prepare
  BY <1>1 DEF Prepare
<1>2. CASE Refuse
  BY <1>2 DEF Refuse
<1>3. CASE Resume
  BY <1>3 DEF Resume
<1>4. CASE PlanLoaded
  BY <1>4 DEF PlanLoaded, Recorded, Write
<1>5. CASE MemoryReconciled
  BY <1>5 DEF MemoryReconciled, Recorded, Write
<1>6. CASE PhaseStarted
  BY <1>6 DEF PhaseStarted, Recorded, Write
<1>7. CASE StepStarted
  BY <1>7 DEF StepStarted, Recorded, Write
<1>8. CASE StepCompleted
  BY <1>8 DEF StepCompleted, Recorded, Write
<1>9. CASE AskSkipped
  BY <1>9 DEF AskSkipped, Recorded, Write
<1>10. CASE GateRejected
  BY <1>10 DEF GateRejected, Recorded, Write
<1>11. CASE RoundCapReached
  BY <1>11 DEF RoundCapReached, Recorded, Write
<1>12. CASE StepFailed
  BY <1>12 DEF StepFailed, Recorded, Write
<1>13. CASE RunCompleted
  BY <1>13 DEF RunCompleted, Recorded, Write
<1>14. CASE StoreFull
  BY <1>14 DEF StoreFull
<1>15. CASE Retained
  BY <1>15 DEF Retained, Write
<1>16. CASE SkipStep
  BY <1>16 DEF SkipStep
<1>17. CASE StartPhase
  BY <1>17 DEF StartPhase
<1>18. CASE GateUnsealed
  BY <1>18 DEF GateUnsealed
<1>19. CASE StartGate
  BY <1>19 DEF StartGate
<1>20. CASE RunGate
  <2>1. PICK exit \in {"pass", "fail", "impossible"}, result \in Verdicts :
          At("gate") /\ Observes(step, "gate", mem.attempts[step], exit, 0, result, given)
    BY <1>20 DEF RunGate, GateRuns, Verdicts
  <2>2. step \in Steps /\ mem.attempts[step] \in Nat /\ given \in Nat
    BY <2>1 DEF IInv, TypeOK, InPlace, At, MemType
  <2>3. [step |-> step, intent |-> "gate", attempt |-> mem.attempts[step], status |-> exit,
         session |-> 0, result |-> result, given |-> given] \in ObsType
    BY <2>1, <2>2 DEF ObsType
  <2>4. 0 \in 0 .. Len(sessions)
    BY DEF IInv, TypeOK
  <2>5. QED
    BY <2>1, <2>3, <2>4 DEF Observes
<1>21. CASE StartJoin
  BY <1>21 DEF StartJoin
<1>22. CASE JoinDeps
  <2>1. step \in Steps /\ mem.attempts[step] \in Nat
    BY <1>22 DEF JoinDeps, IInv, TypeOK, InPlace, At, MemType
  <2>2. [step |-> step, intent |-> "join", attempt |-> mem.attempts[step], status |-> "",
         session |-> 0, result |-> "none", given |-> 0] \in ObsType
    BY <2>1 DEF ObsType, Verdicts
  <2>3. 0 \in 0 .. Len(sessions)
    BY DEF IInv, TypeOK
  <2>4. QED
    BY <1>22, <2>2, <2>3 DEF JoinDeps, Observes
<1>23. CASE Finish
  BY <1>23 DEF Finish
<1>24. CASE AskUnconditional
  BY <1>24 DEF AskUnconditional
<1>25. CASE AskConditional
  BY <1>25 DEF AskConditional
<1>26. CASE CreateSession
  BY <1>26 DEF CreateSession
<1>27. CASE SessionNotCreated
  <2>1. obs' = Append(obs, AskState("failed", 0, "none"))
    BY <1>27 DEF SessionNotCreated, WriteAskState, Observes, AskState
  <2>2. QED
    BY <1>27, <2>1, AskStateType DEF SessionNotCreated, At, AskLabels, Verdicts, IInv, TypeOK
<1>28. CASE Dispatch
  <2>1. obs' = Append(obs, AskState("dispatched", session, "none"))
    BY <1>28 DEF Dispatch, WriteAskState, Observes, AskState
  <2>2. QED
    BY <1>28, <2>1, AskStateType DEF Dispatch, At, AskLabels, Verdicts, IInv, TypeOK
<1>29. CASE Send
  BY <1>29 DEF Send
<1>30. CASE SendFails
  BY <1>30 DEF SendFails
<1>31. CASE Answered
  BY <1>31 DEF Answered
<1>32. CASE DeadlineExpires
  BY <1>32 DEF DeadlineExpires
<1>33. CASE ObserveFails
  BY <1>33 DEF ObserveFails
<1>34. CASE TakeAnswer
  <2>1. CASE UNCHANGED obs
    BY <2>1
  <2>2. CASE \E result \in Verdicts : obs' = Append(obs, AskState("completed", session, result))
    BY <1>34, <2>2, AskStateType DEF TakeAnswer, At, AskLabels, IInv, TypeOK
  <2>3. QED
    BY <1>34, <2>1, <2>2 DEF TakeAnswer, WriteAskState, Observes, AskState, Verdicts
<1>35. CASE AskUnresumable
  BY <1>35 DEF AskUnresumable
<1>36. CASE AskResume
  BY <1>36 DEF AskResume
<1>37. CASE AskSessionLost
  BY <1>37 DEF AskSessionLost
<1>38. CASE SessionWorks
  BY <1>38 DEF SessionWorks
<1>39. CASE SessionLost
  BY <1>39 DEF SessionLost
<1>40. CASE Crash
  BY <1>40 DEF Crash
<1>41. CASE UNCHANGED vars
  BY <1>41 DEF vars, diskVars, procVars, lastVars, envVars
<1>42. QED
  BY <1>1, <1>2, <1>3, <1>4, <1>5, <1>6, <1>7, <1>8, <1>9, <1>10, <1>11, <1>12, <1>13, <1>14,
     <1>15, <1>16, <1>17, <1>18, <1>19, <1>20, <1>21, <1>22, <1>23, <1>24, <1>25, <1>26, <1>27, <1>28,
     <1>29, <1>30, <1>31, <1>32, <1>33, <1>34, <1>35, <1>36, <1>37, <1>38, <1>39, <1>40, <1>41
  DEF Next, RunPlan, Process, Records, Plain, Ask

LEMMA JournalShape == IInv /\ [Next]_vars => JournalGrows
<1> SUFFICES ASSUME IInv, [Next]_vars PROVE JournalGrows
  OBVIOUS
<1> USE DEF JournalGrows, diskVars, InStep
<1>1. CASE Prepare
  BY <1>1 DEF Prepare
<1>2. CASE Refuse
  BY <1>2 DEF Refuse
<1>3. CASE Resume
  BY <1>3 DEF Resume
<1>4. CASE PlanLoaded
  BY <1>4 DEF PlanLoaded, Recorded, Write, At
<1>5. CASE MemoryReconciled
  BY <1>5 DEF MemoryReconciled, Recorded, Write, At
<1>6. CASE PhaseStarted
  BY <1>6 DEF PhaseStarted, Recorded, Write, At
<1>7. CASE StepStarted
  BY <1>7 DEF StepStarted, Recorded, Write, At
<1>8. CASE StepCompleted
  BY <1>8 DEF StepCompleted, Recorded, Write, At
<1>9. CASE AskSkipped
  BY <1>9 DEF AskSkipped, Recorded, Write, At
<1>10. CASE GateRejected
  BY <1>10 DEF GateRejected, Recorded, Write, At
<1>11. CASE RoundCapReached
  BY <1>11 DEF RoundCapReached, Recorded, Write, At
<1>12. CASE StepFailed
  BY <1>12 DEF StepFailed, Recorded, Write, At
<1>13. CASE RunCompleted
  BY <1>13 DEF RunCompleted, Recorded, Write, At
<1>14. CASE StoreFull
  BY <1>14 DEF StoreFull
<1>15. CASE Retained
  BY <1>15 DEF Retained, Write, At
<1>16. CASE SkipStep
  BY <1>16 DEF SkipStep
<1>17. CASE StartPhase
  BY <1>17 DEF StartPhase
<1>18. CASE GateUnsealed
  BY <1>18 DEF GateUnsealed
<1>19. CASE StartGate
  BY <1>19 DEF StartGate
<1>20. CASE RunGate
  BY <1>20 DEF RunGate, GateRuns
<1>21. CASE StartJoin
  BY <1>21 DEF StartJoin
<1>22. CASE JoinDeps
  BY <1>22 DEF JoinDeps
<1>23. CASE Finish
  BY <1>23 DEF Finish
<1>24. CASE AskUnconditional
  BY <1>24 DEF AskUnconditional
<1>25. CASE AskConditional
  BY <1>25 DEF AskConditional
<1>26. CASE CreateSession
  BY <1>26 DEF CreateSession
<1>27. CASE SessionNotCreated
  BY <1>27 DEF SessionNotCreated
<1>28. CASE Dispatch
  BY <1>28 DEF Dispatch
<1>29. CASE Send
  BY <1>29 DEF Send
<1>30. CASE SendFails
  BY <1>30 DEF SendFails
<1>31. CASE Answered
  BY <1>31 DEF Answered
<1>32. CASE DeadlineExpires
  BY <1>32 DEF DeadlineExpires
<1>33. CASE ObserveFails
  BY <1>33 DEF ObserveFails
<1>34. CASE TakeAnswer
  BY <1>34 DEF TakeAnswer
<1>35. CASE AskUnresumable
  BY <1>35 DEF AskUnresumable
<1>36. CASE AskResume
  BY <1>36 DEF AskResume
<1>37. CASE AskSessionLost
  BY <1>37 DEF AskSessionLost
<1>38. CASE SessionWorks
  BY <1>38 DEF SessionWorks
<1>39. CASE SessionLost
  BY <1>39 DEF SessionLost
<1>40. CASE Crash
  <2>1. HalfAppends(line) /\ At("record") /\ dir' = dir => JournalGrows
    BY DEF HalfAppends, At
  <2>2. HalfAppends(Bare("RUN_RETAINED", 0)) /\ At("retain") /\ dir' = dir => JournalGrows
    BY DEF HalfAppends, At
  <2>3. QED
    BY <1>40, <2>1, <2>2 DEF Crash
<1>41. CASE UNCHANGED vars
  BY <1>41 DEF vars, diskVars, procVars, lastVars, envVars
<1>42. QED
  BY <1>1, <1>2, <1>3, <1>4, <1>5, <1>6, <1>7, <1>8, <1>9, <1>10, <1>11, <1>12, <1>13, <1>14,
     <1>15, <1>16, <1>17, <1>18, <1>19, <1>20, <1>21, <1>22, <1>23, <1>24, <1>25, <1>26, <1>27, <1>28,
     <1>29, <1>30, <1>31, <1>32, <1>33, <1>34, <1>35, <1>36, <1>37, <1>38, <1>39, <1>40, <1>41
  DEF Next, RunPlan, Process, Records, Plain, Ask

LEMMA BecomesType ==
  ASSUME IInv, session \in DOMAIN sessions, NEW text \in BOOLEAN,
         NEW state \in {"new", "queued", "running", "busy", "ended", "lost"}, Becomes(state, text),
         sessions[session].state \in {"ended", "lost"} => state \in {"ended", "lost"}
  PROVE  SessionsGo
<1> DEFINE ses == [sessions[session] EXCEPT !.state = state, !.text = text]
<1>1. ses \in SessionType /\ ses.state = state /\ ses.step = sessions[session].step
  <2>1. sessions[session] \in SessionType
    BY DEF IInv, TypeOK
  <2>2. QED
    BY <2>1 DEF SessionType
<1>2. sessions' = [sessions EXCEPT ![session] = ses]
  BY DEF Becomes
<1> HIDE DEF ses
<1>3. QED
  BY <1>1, <1>2 DEF SessionsGo

LEMMA TurnType ==
  ASSUME IInv, NEW n \in DOMAIN sessions, NEW texts \in SUBSET BOOLEAN, NEW before,
         NEW after \in {"new", "queued", "running", "busy", "ended", "lost"},
         Turn(n, before, after, texts), before \in {"ended", "lost"} => after \in {"ended", "lost"}
  PROVE  SessionsGo
<1>1. PICK text \in BOOLEAN :
        sessions' = [sessions EXCEPT ![n] = [@ EXCEPT !.state = after, !.text = text]]
  BY DEF Turn
<1> DEFINE ses == [sessions[n] EXCEPT !.state = after, !.text = text]
<1>2. ses \in SessionType /\ ses.state = after /\ ses.step = sessions[n].step
  <2>1. sessions[n] \in SessionType
    BY DEF IInv, TypeOK
  <2>2. QED
    BY <2>1 DEF SessionType
<1>3. sessions' = [sessions EXCEPT ![n] = ses] /\ sessions[n].state = before
  BY <1>1 DEF Turn
<1> HIDE DEF ses
<1>4. QED
  BY <1>2, <1>3 DEF SessionsGo

LEMMA SessionShape == IInv /\ [Next]_vars => SessionsGo
<1> SUFFICES ASSUME IInv, [Next]_vars PROVE SessionsGo
  OBVIOUS
<1> USE DEF SessionsGo, diskVars, InStep
<1>1. CASE Prepare
  BY <1>1 DEF Prepare
<1>2. CASE Refuse
  BY <1>2 DEF Refuse
<1>3. CASE Resume
  BY <1>3 DEF Resume
<1>4. CASE PlanLoaded
  BY <1>4 DEF PlanLoaded, Recorded, Write
<1>5. CASE MemoryReconciled
  BY <1>5 DEF MemoryReconciled, Recorded, Write
<1>6. CASE PhaseStarted
  BY <1>6 DEF PhaseStarted, Recorded, Write
<1>7. CASE StepStarted
  BY <1>7 DEF StepStarted, Recorded, Write
<1>8. CASE StepCompleted
  BY <1>8 DEF StepCompleted, Recorded, Write
<1>9. CASE AskSkipped
  BY <1>9 DEF AskSkipped, Recorded, Write
<1>10. CASE GateRejected
  BY <1>10 DEF GateRejected, Recorded, Write
<1>11. CASE RoundCapReached
  BY <1>11 DEF RoundCapReached, Recorded, Write
<1>12. CASE StepFailed
  BY <1>12 DEF StepFailed, Recorded, Write
<1>13. CASE RunCompleted
  BY <1>13 DEF RunCompleted, Recorded, Write
<1>14. CASE StoreFull
  BY <1>14 DEF StoreFull
<1>15. CASE Retained
  BY <1>15 DEF Retained
<1>16. CASE SkipStep
  BY <1>16 DEF SkipStep
<1>17. CASE StartPhase
  BY <1>17 DEF StartPhase
<1>18. CASE GateUnsealed
  BY <1>18 DEF GateUnsealed
<1>19. CASE StartGate
  BY <1>19 DEF StartGate
<1>20. CASE RunGate
  BY <1>20 DEF RunGate, GateRuns
<1>21. CASE StartJoin
  BY <1>21 DEF StartJoin
<1>22. CASE JoinDeps
  BY <1>22 DEF JoinDeps
<1>23. CASE Finish
  BY <1>23 DEF Finish
<1>24. CASE AskUnconditional
  BY <1>24 DEF AskUnconditional
<1>25. CASE AskConditional
  BY <1>25 DEF AskConditional
<1>26. CASE CreateSession
  <2>1. step \in Steps /\ mem.attempts[step] \in Nat
    BY <1>26 DEF CreateSession, At, AskLabels, IInv, TypeOK, InPlace, MemType
  <2>2. [step |-> step, attempt |-> mem.attempts[step], state |-> "new", text |-> FALSE] \in SessionType
    BY <2>1 DEF SessionType
  <2>3. pc = "ask" /\ pc' = "dispatch" /\ step' = step
    BY <1>26 DEF CreateSession, At, Goes
  <2>4. QED
    BY <1>26, <2>2, <2>3 DEF CreateSession
<1>27. CASE SessionNotCreated
  BY <1>27 DEF SessionNotCreated
<1>28. CASE Dispatch
  BY <1>28 DEF Dispatch
<1>29. CASE Send
  <2>1. session \in DOMAIN sessions
    BY <1>29 DEF Send, At, AskLabels, IInv, TypeOK, InPlace
  <2>2. Ses.text \in BOOLEAN /\ Ses.state \in {"new", "queued", "running", "busy", "ended", "lost"}
    <3>1. sessions[session] \in SessionType
      BY <2>1 DEF IInv, TypeOK
    <3>2. QED
      BY <3>1 DEF Ses, SessionType
  <2>3. QED
    <3>1. Becomes(IF Ses.state = "new" THEN "queued" ELSE Ses.state, Ses.text)
      BY <1>29 DEF Send
    <3>2. QED
      BY <2>1, <2>2, <3>1, BecomesType DEF Ses
<1>30. CASE SendFails
  <2>1. session \in DOMAIN sessions
    BY <1>30 DEF SendFails, At, AskLabels, IInv, TypeOK, InPlace
  <2>2. Closes => SessionsGo
    BY <2>1, BecomesType DEF Closes, Ses
  <2>3. QED
    BY <1>30, <2>1, <2>2, BecomesType DEF SendFails, Ses
<1>31. CASE Answered
  BY <1>31 DEF Answered
<1>32. CASE DeadlineExpires
  <2>1. session \in DOMAIN sessions
    BY <1>32 DEF DeadlineExpires, At, AskLabels, IInv, TypeOK, InPlace
  <2>2. Closes => SessionsGo
    BY <2>1, BecomesType DEF Closes, Ses
  <2>3. QED
    BY <1>32, <2>1, <2>2, BecomesType DEF DeadlineExpires, Ses
<1>33. CASE ObserveFails
  <2>1. session \in DOMAIN sessions
    BY <1>33 DEF ObserveFails, At, AskLabels, IInv, TypeOK, InPlace
  <2>2. Closes => SessionsGo
    BY <2>1, BecomesType DEF Closes, Ses
  <2>3. QED
    BY <1>33, <2>1, <2>2, BecomesType DEF ObserveFails, Ses
<1>34. CASE TakeAnswer
  BY <1>34 DEF TakeAnswer
<1>35. CASE AskUnresumable
  BY <1>35 DEF AskUnresumable
<1>36. CASE AskResume
  BY <1>36 DEF AskResume
<1>37. CASE AskSessionLost
  BY <1>37 DEF AskSessionLost
<1>38. CASE SessionWorks
  <2>1. PICK n \in DOMAIN sessions :
          \/ Turn(n, "queued", "running", {FALSE})
          \/ Turn(n, "running", "busy", BOOLEAN) \/ Turn(n, "running", "ended", BOOLEAN)
          \/ Turn(n, "busy", "ended", {sessions[n].text})
    BY <1>38 DEF SessionWorks
  <2>2. sessions[n].text \in BOOLEAN
    <3>1. sessions[n] \in SessionType
      BY DEF IInv, TypeOK
    <3>2. QED
      BY <3>1 DEF SessionType
  <2>3. QED
    BY <2>1, <2>2, TurnType
<1>39. CASE SessionLost
  <2>1. PICK n \in DOMAIN sessions : Turn(n, sessions[n].state, "lost", {FALSE})
    BY <1>39 DEF SessionLost
  <2>2. QED
    BY <2>1, TurnType
<1>40. CASE Crash
  BY <1>40 DEF Crash
<1>41. CASE UNCHANGED vars
  BY <1>41 DEF vars, diskVars, procVars, lastVars, envVars
<1>42. QED
  BY <1>1, <1>2, <1>3, <1>4, <1>5, <1>6, <1>7, <1>8, <1>9, <1>10, <1>11, <1>12, <1>13, <1>14,
     <1>15, <1>16, <1>17, <1>18, <1>19, <1>20, <1>21, <1>22, <1>23, <1>24, <1>25, <1>26, <1>27, <1>28,
     <1>29, <1>30, <1>31, <1>32, <1>33, <1>34, <1>35, <1>36, <1>37, <1>38, <1>39, <1>40, <1>41
  DEF Next, RunPlan, Process, Records, Plain, Ask


------------------------------------------------------------------------------
(* What is on disk, and every session, only grows.                         *)

LEMMA ObsGrown ==
  ASSUME IInv, [Next]_vars
  PROVE  /\ obs' \in Seq(ObsType) /\ Len(obs') >= Len(obs) /\ Len(obs') \in Nat
         /\ DOMAIN obs = 1 .. Len(obs) /\ DOMAIN obs' = 1 .. Len(obs')
         /\ \A n \in DOMAIN obs : obs'[n] = obs[n]
         /\ \A n \in DOMAIN obs' : n \notin DOMAIN obs => obs'[n].session \in 0 .. Len(sessions)
<1>1. obs \in Seq(ObsType) /\ Len(obs) \in Nat
  BY DEF IInv, TypeOK
<1>2. CASE obs' = obs
  BY <1>1, <1>2
<1>3. ASSUME NEW o \in ObsType, o.session \in 0 .. Len(sessions), obs' = Append(obs, o)
      PROVE  /\ obs' \in Seq(ObsType) /\ Len(obs') >= Len(obs) /\ Len(obs') \in Nat
             /\ DOMAIN obs = 1 .. Len(obs) /\ DOMAIN obs' = 1 .. Len(obs')
             /\ \A n \in DOMAIN obs : obs'[n] = obs[n]
             /\ \A n \in DOMAIN obs' : n \notin DOMAIN obs => obs'[n].session \in 0 .. Len(sessions)
  BY <1>1, <1>3
<1>4. QED
  BY <1>2, <1>3, ObsShape DEF ObsGrows

\* A record that is new is the line in hand, or a retention.
LEMMA JournalGrown ==
  ASSUME IInv, [Next]_vars
  PROVE  /\ journal' \in Seq(RecordType) /\ Len(journal') >= Len(journal) /\ Len(journal') \in Nat
         /\ DOMAIN journal = 1 .. Len(journal) /\ DOMAIN journal' = 1 .. Len(journal')
         /\ \A k \in DOMAIN journal : journal'[k] = journal[k]
         /\ \A k \in DOMAIN journal' : k \notin DOMAIN journal =>
              \/ pc = "record" /\ journal'[k] = line
              \/ journal'[k] = Bare("RUN_RETAINED", 0)
<1>1. journal \in Seq(RecordType) /\ Len(journal) \in Nat /\ line \in RecordType
      /\ Bare("RUN_RETAINED", 0) \in RecordType
  BY DEF Bare, Record, RecordType, Kinds, IInv, TypeOK
<1>2. ASSUME NEW e \in RecordType, journal' = Append(journal, e)
      PROVE  /\ journal' \in Seq(RecordType) /\ Len(journal') >= Len(journal)
             /\ Len(journal') \in Nat
             /\ DOMAIN journal = 1 .. Len(journal) /\ DOMAIN journal' = 1 .. Len(journal')
             /\ \A k \in DOMAIN journal : journal'[k] = journal[k]
             /\ \A k \in DOMAIN journal' : k \notin DOMAIN journal => journal'[k] = e
  BY <1>1, <1>2
<1>3. CASE journal' = journal
  BY <1>1, <1>3
<1>4. CASE pc = "record" /\ journal' = Append(journal, line)
  BY <1>1, <1>2, <1>4
<1>5. CASE journal' = Append(journal, Bare("RUN_RETAINED", 0))
  BY <1>1, <1>2, <1>5
<1>6. QED
  BY <1>3, <1>4, <1>5, JournalShape DEF JournalGrows

LEMMA SessionsGrown ==
  ASSUME IInv, [Next]_vars
  PROVE  /\ sessions' \in Seq(SessionType) /\ Len(sessions') >= Len(sessions)
         /\ Len(sessions') \in Nat
         /\ DOMAIN sessions = 1 .. Len(sessions) /\ DOMAIN sessions' = 1 .. Len(sessions')
         /\ \A n \in DOMAIN sessions :
              sessions[n].state \in {"ended", "lost"} => sessions'[n].state \in {"ended", "lost"}
<1>1. sessions \in Seq(SessionType) /\ Len(sessions) \in Nat
      /\ DOMAIN sessions = 1 .. Len(sessions)
  BY DEF IInv, TypeOK
<1>2. CASE sessions' = sessions
  BY <1>1, <1>2
<1>3. CASE \E ses \in SessionType : sessions' = Append(sessions, ses)
  <2>1. PICK ses \in SessionType : sessions' = Append(sessions, ses)
    BY <1>3
  <2>2. sessions' \in Seq(SessionType) /\ Len(sessions') = Len(sessions) + 1
        /\ DOMAIN sessions' = 1 .. Len(sessions') /\ \A n \in DOMAIN sessions : sessions'[n] = sessions[n]
    BY <1>1, <2>1
  <2>3. QED
    BY <1>1, <2>2
<1>4. ASSUME NEW n \in DOMAIN sessions, NEW ses \in SessionType,
             sessions' = [sessions EXCEPT ![n] = ses],
             sessions[n].state \in {"ended", "lost"} => ses.state \in {"ended", "lost"}
      PROVE  /\ sessions' \in Seq(SessionType) /\ Len(sessions') = Len(sessions)
             /\ DOMAIN sessions' = 1 .. Len(sessions')
             /\ \A m \in DOMAIN sessions :
                  sessions[m].state \in {"ended", "lost"} => sessions'[m].state \in {"ended", "lost"}
  BY <1>1, <1>4
<1>5. QED
  <2>1. CASE \E n \in DOMAIN sessions, ses \in SessionType :
               /\ sessions' = [sessions EXCEPT ![n] = ses]
               /\ sessions[n].state \in {"ended", "lost"} => ses.state \in {"ended", "lost"}
    BY <1>1, <1>4, <2>1
  <2>2. QED
    BY <1>2, <1>3, <2>1, SessionShape DEF SessionsGo

\* So an observation of a session that is over stays one.
StillEnded(o) ==
  /\ o \in DOMAIN obs' /\ obs'[o].session \in DOMAIN sessions'
  /\ sessions'[obs'[o].session].state \in {"ended", "lost"}

LEMMA OverStays ==
  ASSUME IInv, [Next]_vars, NEW o, OfEnded(o)
  PROVE  StillEnded(o)
<1>1. o \in DOMAIN obs' /\ obs'[o] = obs[o]
  BY ObsGrown DEF OfEnded
<1>2. QED
  BY <1>1, SessionsGrown DEF OfEnded, StillEnded

LEMMA SourceNat ==
  ASSUME TypeOK, NEW s \in Steps
  PROVE  Source(s) \in Nat /\ Plan[s].from \in Nat
<1>1. Plan[s].from \in 0 .. (s - 1) /\ s \in 1 .. Len(Plan) /\ Len(Plan) \in Nat
  BY PlanAssumption, Constants
<1>2. Plan[s].from # 0 => Plan[s].from \in Steps
  BY <1>1, Constants
<1>3. \A t \in Steps : mem.completed[t] \in Nat /\ mem.failed[t] \in Nat
  BY DEF TypeOK, MemType
<1>4. QED
  BY <1>1, <1>2, <1>3 DEF Source

------------------------------------------------------------------------------
(* The line in hand.                                                       *)

LineOK == /\ line \in RecordType /\ line.attempt <= Len(journal) + 1
          /\ line.kind = "STEP_COMPLETED" => line.obs \in 0 .. Len(obs)

LEMMA LineStep == IInv /\ [Next]_vars => LineOK'
<1> SUFFICES ASSUME IInv, [Next]_vars PROVE LineOK'
  OBVIOUS
<1>a. LineOK /\ Len(obs) \in Nat /\ Len(journal) \in Nat
  BY DEF IInv, TypeOK, References, Numbered, LineOK
<1>b. Len(obs') >= Len(obs) /\ Len(obs') \in Nat /\ Len(journal') >= Len(journal) /\ Len(journal') \in Nat
  BY ObsGrown, JournalGrown
<1>c. ASSUME line' = line PROVE LineOK'
  BY <1>a, <1>b, <1>c, LineTypes DEF LineOK
<1>d. \A s \in Steps : /\ mem.completed[s] \in Nat /\ mem.attempts[s] \in Nat
                      /\ mem.attempts[s] <= Len(journal) /\ s \in Nat
  <2>1. \A s \in Steps : /\ mem.completed[s] \in Nat /\ mem.attempts[s] \in Nat
                        /\ mem.attempts[s] <= Len(journal)
    BY DEF IInv, TypeOK, MemType, Numbered
  <2>2. QED
    BY <2>1, Constants
<1> USE <1>a, <1>b, <1>c DEF LineOK, Appends, Gone, procVars, InStep
<1>1. CASE Prepare
  BY <1>1, LineTypes DEF Prepare, Enter, NoLine, Bare, Record, Kinds, RecordType
<1>2. CASE Refuse
  BY <1>2, LineTypes DEF Refuse, Enter, NoLine, Bare, Record, Kinds, RecordType
<1>3. CASE Resume
  BY <1>3, LineTypes DEF Resume, Enter, NoLine, Bare, Record, Kinds, RecordType
<1>4. CASE PlanLoaded
  BY <1>4, LineTypes DEF PlanLoaded, Enter, NoLine, Bare, Record, Kinds, RecordType
<1>5. CASE MemoryReconciled
  BY <1>5, LineTypes DEF MemoryReconciled, Enter, NoLine, Bare, Record, Kinds, RecordType
<1>6. CASE PhaseStarted
  BY <1>6, LineTypes DEF PhaseStarted, Enter, NoLine, Bare, Record, Kinds, RecordType
<1>7. CASE StepStarted
  BY <1>7, LineTypes DEF StepStarted, Enter, NoLine, Bare, Record, Kinds, RecordType
<1>8. CASE StepCompleted
  BY <1>8, LineTypes DEF StepCompleted, Enter, NoLine, Bare, Record, Kinds, RecordType
<1>9. CASE AskSkipped
  BY <1>9, LineTypes DEF AskSkipped, Enter, NoLine, Bare, Record, Kinds, RecordType
<1>10. CASE GateRejected
  <2>1. step \in Nat /\ step \in Steps /\ mem.attempts[step] \in Nat /\ mem.attempts[step] <= Len(journal)
    BY <1>10 DEF GateRejected, Recorded, IInv, TypeOK, InPlace, StepKinds, Kinds, MemType, Numbered, At
  <2>2. \/ line' = NoLine \/ line' = line
        \/ line' = Record("STEP_FAILED", step, line.attempt, line.obs, {})
        \/ line' = Bare("ROUND_CAP_REACHED", step)
    BY <1>10 DEF GateRejected
  <2>3. QED
    BY <2>1, <2>2, LineTypes DEF NoLine, Bare, Record, RecordType, Kinds
<1>11. CASE RoundCapReached
  BY <1>11, LineTypes DEF RoundCapReached, Enter, NoLine, Bare, Record, Kinds, RecordType
<1>12. CASE StepFailed
  BY <1>12, LineTypes DEF StepFailed, Enter, NoLine, Bare, Record, Kinds, RecordType
<1>13. CASE RunCompleted
  BY <1>13, LineTypes DEF RunCompleted, Enter, NoLine, Bare, Record, Kinds, RecordType
<1>14. CASE StoreFull
  BY <1>14 DEF StoreFull
<1>15. CASE Retained
  BY <1>15, LineTypes DEF Retained, Enter, NoLine, Bare, Record, Kinds, RecordType
<1>16. CASE SkipStep
  BY <1>16 DEF SkipStep
<1>17. CASE StartPhase
  BY <1>17, LineTypes DEF StartPhase, IInv, TypeOK, Bare, Record, Kinds, RecordType
<1>18. CASE GateUnsealed
  BY <1>18 DEF GateUnsealed
<1>19. CASE StartGate
  <2>1. step \in Nat /\ step \in Steps /\ mem.attempts[step] \in Nat /\ mem.attempts[step] <= Len(journal)
    BY <1>19 DEF StartGate, Execute, Executing, Fresh, IInv, TypeOK, InPlace, MemType, Numbered, At, AskLabels
  <2>2. line' = Record("STEP_STARTED", step, mem.attempts[step] + 1, 0, {})
    BY <1>19 DEF StartGate, StartAttempt, Attempts1
  <2>3. QED
    BY <2>1, <2>2 DEF Record, RecordType, Kinds
<1>20. CASE RunGate
  <2>1. step \in Nat /\ step \in Steps /\ mem.attempts[step] \in Nat /\ mem.attempts[step] <= Len(journal)
    BY <1>20 DEF RunGate, GateRuns, IInv, TypeOK, InPlace, MemType, Numbered, At
  <2>2. Len(obs') = Len(obs) + 1 /\ Len(obs) \in Nat
    BY <1>20 DEF RunGate, GateRuns, Observes, IInv, TypeOK
  <2>3. line' = line \/ \E kind \in {"STEP_COMPLETED", "GATE_REJECTED"} :
                           line' = Record(kind, step, mem.attempts[step], NewObs, {})
    BY <1>20 DEF RunGate, GateRuns
  <2>4. QED
    BY <2>1, <2>2, <2>3 DEF Record, RecordType, Kinds, NewObs
<1>21. CASE StartJoin
  <2>1. step \in Nat /\ step \in Steps /\ mem.attempts[step] \in Nat /\ mem.attempts[step] <= Len(journal)
    BY <1>21 DEF StartJoin, Execute, Executing, Fresh, IInv, TypeOK, InPlace, MemType, Numbered, At, AskLabels
  <2>2. line' = Record("STEP_STARTED", step, mem.attempts[step] + 1, 0, {})
    BY <1>21 DEF StartJoin, StartAttempt, Attempts1
  <2>3. QED
    BY <2>1, <2>2 DEF Record, RecordType, Kinds
<1>22. CASE JoinDeps
  <2>1. step \in Nat /\ step \in Steps /\ mem.attempts[step] \in Nat /\ mem.attempts[step] <= Len(journal)
    BY <1>22, <1>d DEF JoinDeps, IInv, InPlace, At
  <2>2. CASE line' = line
    BY <2>2, <1>c
  <2> DEFINE deps == {<<d, mem.completed[d]>> : d \in Plan[step].depends}
  <2>3. CASE line' # line
    <3>1. line' = Record("STEP_COMPLETED", step, mem.attempts[step], NewObs, deps)
          /\ \A d \in Plan[step].depends : mem.completed[d] # 0
      BY <1>22, <2>3 DEF JoinDeps
    <3>2. Len(obs') = Len(obs) + 1
      <4>1. \E o : obs' = Append(obs, o)
        BY <1>22, <2>3 DEF JoinDeps, Observes
      <4>2. obs \in Seq(ObsType)
        BY DEF IInv, TypeOK
      <4>3. QED
        BY <4>1, <4>2
    <3>3. deps \subseteq Nat \X Nat
      <4>1. Plan[step].depends \subseteq Steps
        BY <2>1, PlanAssumption, Constants DEF Steps
      <4>2. \A d \in Steps : mem.completed[d] \in Nat /\ d \in Nat
        BY <1>d
      <4>3. QED
        BY <4>1, <4>2
    <3> HIDE DEF deps
    <3>4. QED
      BY <2>1, <3>1, <3>2, <3>3 DEF Record, RecordType, Kinds, NewObs
  <2>4. QED
    BY <2>2, <2>3
<1>23. CASE Finish
  BY <1>23, LineTypes DEF Finish, Enter, NoLine, Bare, Record, Kinds, RecordType
<1>24. CASE AskUnconditional
  <2>1. step \in Nat /\ step \in Steps /\ mem.attempts[step] \in Nat /\ mem.attempts[step] <= Len(journal)
    BY <1>24 DEF AskUnconditional, Execute, Executing, Fresh, IInv, TypeOK, InPlace, MemType, Numbered, At, AskLabels
  <2>2. line' = Record("STEP_STARTED", step, mem.attempts[step] + 1, 0, {})
    BY <1>24 DEF AskUnconditional, StartAttempt, Attempts1
  <2>3. QED
    BY <2>1, <2>2 DEF Record, RecordType, Kinds
<1>25. CASE AskConditional
  <2>1. step \in Nat /\ step \in Steps /\ mem.attempts[step] \in Nat /\ mem.attempts[step] <= Len(journal)
    BY <1>25 DEF AskConditional, Execute, Executing, Fresh, IInv, TypeOK, InPlace, MemType, Numbered, At
  <2>2. Source(step) \in Nat
    BY <2>1, SourceNat DEF IInv
  <2>3. \/ line' = line
        \/ line' = Record("STEP_STARTED", step, mem.attempts[step] + 1, 0, {})
        \/ line' = Record("ASK_SKIPPED", step, 0, Source(step), {})
    BY <1>25 DEF AskConditional, StartAttempt, Attempts1
  <2>4. CASE line' = line
    BY <1>c, <2>4
  <2>5. Record("STEP_STARTED", step, mem.attempts[step] + 1, 0, {}) \in RecordType
    BY <2>1 DEF Record, RecordType, Kinds
  <2>6. Record("ASK_SKIPPED", step, 0, Source(step), {}) \in RecordType
    BY <2>1, <2>2 DEF Record, RecordType, Kinds
  <2>7. CASE line' = Record("STEP_STARTED", step, mem.attempts[step] + 1, 0, {})
    <3>1. line'.attempt = mem.attempts[step] + 1 /\ line'.kind = "STEP_STARTED"
      BY <2>7 DEF Record
    <3>2. QED
      BY <2>1, <2>5, <2>7, <3>1
  <2>8. CASE line' = Record("ASK_SKIPPED", step, 0, Source(step), {})
    <3>1. line'.attempt = 0 /\ line'.kind = "ASK_SKIPPED"
      BY <2>8 DEF Record
    <3>2. QED
      BY <2>6, <2>8, <3>1
  <2>9. QED
    BY <2>3, <2>4, <2>7, <2>8
<1>26. CASE CreateSession
  BY <1>26 DEF CreateSession
<1>27. CASE SessionNotCreated
  BY <1>27 DEF SessionNotCreated
<1>28. CASE Dispatch
  BY <1>28 DEF Dispatch
<1>29. CASE Send
  BY <1>29 DEF Send
<1>30. CASE SendFails
  BY <1>30 DEF SendFails
<1>31. CASE Answered
  BY <1>31 DEF Answered
<1>32. CASE DeadlineExpires
  BY <1>32 DEF DeadlineExpires
<1>33. CASE ObserveFails
  BY <1>33 DEF ObserveFails
<1>34. CASE TakeAnswer
  <2>1. step \in Nat /\ step \in Steps /\ mem.attempts[step] \in Nat /\ mem.attempts[step] <= Len(journal)
    BY <1>34 DEF TakeAnswer, IInv, TypeOK, InPlace, MemType, Numbered, At, AskLabels
  <2>2. CASE line' = line
    BY <2>2, <1>c
  <2> DEFINE deps == IF Source(step) = 0 THEN {} ELSE {<<Plan[step].from, Source(step)>>}
  <2>3. CASE line' # line
    <3>1. line' = Record("STEP_COMPLETED", step, mem.attempts[step], NewObs, deps)
      BY <1>34, <2>3 DEF TakeAnswer
    <3>2. Len(obs') = Len(obs) + 1
      <4>1. \E o : obs' = Append(obs, o)
        BY <1>34, <2>3 DEF TakeAnswer, WriteAskState, Observes
      <4>2. obs \in Seq(ObsType)
        BY DEF IInv, TypeOK
      <4>3. QED
        BY <4>1, <4>2
    <3>3. Source(step) \in Nat /\ Plan[step].from \in Nat
      BY <2>1, SourceNat DEF IInv
    <3>4. deps \subseteq Nat \X Nat
      BY <3>3
    <3> HIDE DEF deps
    <3>5. QED
      BY <2>1, <3>1, <3>2, <3>4 DEF Record, RecordType, Kinds, NewObs
  <2>4. QED
    BY <2>2, <2>3
<1>35. CASE AskUnresumable
  BY <1>35 DEF AskUnresumable
<1>36. CASE AskResume
  BY <1>36 DEF AskResume
<1>37. CASE AskSessionLost
  BY <1>37 DEF AskSessionLost
<1>38. CASE SessionWorks
  BY <1>38 DEF SessionWorks
<1>39. CASE SessionLost
  BY <1>39 DEF SessionLost
<1>40. CASE Crash
  BY <1>40, LineTypes DEF Crash, Enter, NoLine, Bare, Record, Kinds, RecordType
<1>41. CASE UNCHANGED vars
  BY <1>41 DEF vars, diskVars, procVars, lastVars, envVars
<1>42. QED
  BY <1>1, <1>2, <1>3, <1>4, <1>5, <1>6, <1>7, <1>8, <1>9, <1>10, <1>11, <1>12, <1>13, <1>14,
     <1>15, <1>16, <1>17, <1>18, <1>19, <1>20, <1>21, <1>22, <1>23, <1>24, <1>25, <1>26, <1>27, <1>28,
     <1>29, <1>30, <1>31, <1>32, <1>33, <1>34, <1>35, <1>36, <1>37, <1>38, <1>39, <1>40, <1>41
  DEF Next, RunPlan, Process, Records, Plain, Ask

------------------------------------------------------------------------------
(* The state in memory.                                                    *)

MemOK == /\ mem \in MemType
         /\ \A s \in Steps :
              /\ mem.attempts[s] <= Len(journal)
              /\ mem.pending[s].session \in 0 .. Len(sessions)
              /\ mem.pending[s].status = "dispatched" => mem.pending[s].session # 0

LEMMA EmptyOK ==
  /\ EmptyState \in MemType
  /\ \A s \in Steps : /\ EmptyState.attempts[s] = 0 /\ EmptyState.pending[s].session = 0
                      /\ EmptyState.pending[s].status = "none"
  BY DEF EmptyState, MemType

\* What a record changes in memory.
LEMMA MemUpdates ==
  ASSUME mem \in MemType, NEW s \in Steps, s \in Nat, NEW n \in Nat
  PROVE  /\ \/ mem' = [mem EXCEPT !.completed[s] = n]
            \/ mem' = [mem EXCEPT !.skipped[s] = n]
            \/ mem' = [mem EXCEPT !.failed[s] = n]
            \/ mem' = [mem EXCEPT !.count = n]
            \/ mem' = [mem EXCEPT !.phase = s, !.count = n, !.phases = mem.phases \union {s}]
            => mem' \in MemType /\ mem'.attempts = mem.attempts /\ mem'.pending = mem.pending
         /\ mem' = [mem EXCEPT !.attempts[s] = n] =>
              /\ mem' \in MemType /\ mem'.pending = mem.pending
              /\ mem'.attempts = [mem.attempts EXCEPT ![s] = n]
<1>1. ASSUME mem' = [mem EXCEPT !.completed[s] = n]
      PROVE  mem' \in MemType /\ mem'.attempts = mem.attempts /\ mem'.pending = mem.pending
  BY <1>1 DEF MemType
<1>2. ASSUME mem' = [mem EXCEPT !.skipped[s] = n]
      PROVE  mem' \in MemType /\ mem'.attempts = mem.attempts /\ mem'.pending = mem.pending
  BY <1>2 DEF MemType
<1>3. ASSUME mem' = [mem EXCEPT !.failed[s] = n]
      PROVE  mem' \in MemType /\ mem'.attempts = mem.attempts /\ mem'.pending = mem.pending
  BY <1>3 DEF MemType
<1>4. ASSUME mem' = [mem EXCEPT !.count = n]
      PROVE  mem' \in MemType /\ mem'.attempts = mem.attempts /\ mem'.pending = mem.pending
  BY <1>4 DEF MemType
<1>5. ASSUME mem' = [mem EXCEPT !.phase = s, !.count = n, !.phases = mem.phases \union {s}]
      PROVE  mem' \in MemType /\ mem'.attempts = mem.attempts /\ mem'.pending = mem.pending
  BY <1>5 DEF MemType
<1>6. ASSUME mem' = [mem EXCEPT !.attempts[s] = n]
      PROVE  mem' \in MemType /\ mem'.pending = mem.pending
             /\ mem'.attempts = [mem.attempts EXCEPT ![s] = n]
  BY <1>6 DEF MemType
<1>7. QED
  BY <1>1, <1>2, <1>3, <1>4, <1>5, <1>6

LEMMA MemStep == IInv /\ [Next]_vars => MemOK'
<1> SUFFICES ASSUME IInv, [Next]_vars PROVE MemOK'
  OBVIOUS
<1>a. MemOK /\ Len(journal) \in Nat /\ Len(sessions) \in Nat
  BY DEF IInv, TypeOK, References, Numbered, MemOK
<1>b. Len(journal') >= Len(journal) /\ Len(journal') \in Nat
      /\ Len(sessions') >= Len(sessions) /\ Len(sessions') \in Nat
  BY JournalGrown, SessionsGrown
<1>c. \A s \in Steps : mem.attempts[s] \in Nat
  BY <1>a DEF MemOK, MemType
<1>d. ASSUME mem' = mem PROVE MemOK'
  BY <1>a, <1>b, <1>c, <1>d DEF MemOK
<1>e. ASSUME mem' \in MemType, mem'.attempts = mem.attempts, mem'.pending = mem.pending PROVE MemOK'
  BY <1>a, <1>b, <1>c, <1>e DEF MemOK
<1>f. \A s \in Steps : mem.attempts[s] \in Nat /\ mem.attempts[s] <= Len(journal)
  BY <1>a, <1>c DEF MemOK
<1> USE <1>a, <1>b, <1>c, <1>d, <1>e DEF MemOK, procVars, InStep
<1>1. CASE Prepare
  BY <1>1 DEF Prepare
<1>2. CASE Refuse
  BY <1>2 DEF Refuse
<1>3. CASE Resume
  <2>1. mem' = Replay(journal) /\ journal' = journal /\ sessions' = sessions /\ Readable
    BY <1>3 DEF Resume, diskVars
  <2>2. TypeOK /\ References /\ Numbered
    BY DEF IInv
  <2>3. QED
    BY <2>1, <2>2, ReplayTypes
<1>4. CASE PlanLoaded
  BY <1>4 DEF PlanLoaded
<1>5. CASE MemoryReconciled
  BY <1>5 DEF MemoryReconciled
<1>6. CASE PhaseStarted
  <2>1. mem' = [mem EXCEPT !.phase = step, !.count = 0, !.phases = mem.phases \union {step}]
    BY <1>6 DEF PhaseStarted
  <2>2. step \in Steps /\ step \in Nat /\ line.obs \in Nat /\ line.attempt \in Nat
        /\ (line.attempt <= Len(journal'))
    <3>1. step \in Steps
      BY <1>6 DEF PhaseStarted, Recorded, InPlace, StepKinds, Kinds, At, IInv
    <3>2. Len(journal') = Len(journal) + 1
      BY <1>6 DEF PhaseStarted, Recorded, Write, IInv, TypeOK
    <3>3. QED
      BY <3>1, <3>2, Constants, LineTypes DEF IInv, TypeOK, Numbered
  <2>3. QED
    BY <2>1, <2>2, MemUpdates
<1>7. CASE StepStarted
  <2>1. mem' = [mem EXCEPT !.attempts[step] = line.attempt]
    BY <1>7 DEF StepStarted
  <2>2. step \in Steps /\ step \in Nat /\ line.obs \in Nat /\ line.attempt \in Nat
        /\ (line.attempt <= Len(journal'))
    <3>1. step \in Steps
      BY <1>7 DEF StepStarted, Recorded, InPlace, StepKinds, Kinds, At, IInv
    <3>2. Len(journal') = Len(journal) + 1
      BY <1>7 DEF StepStarted, Recorded, Write, IInv, TypeOK
    <3>3. QED
      BY <3>1, <3>2, Constants, LineTypes DEF IInv, TypeOK, Numbered
  <2>3. mem' \in MemType /\ mem'.pending = mem.pending
        /\ mem'.attempts = [mem.attempts EXCEPT ![step] = line.attempt]
    BY <2>1, <2>2, MemUpdates
  <2>4. \A s \in Steps : mem'.attempts[s] <= Len(journal')
    <3>1. mem.attempts \in [Steps -> Nat]
      BY DEF MemType
    <3>2. ASSUME NEW s \in Steps PROVE mem'.attempts[s] <= Len(journal')
      <4>1. mem'.attempts[s] = IF s = step THEN line.attempt ELSE mem.attempts[s]
        BY <2>2, <2>3, <3>1
      <4>2. mem.attempts[s] \in Nat /\ mem.attempts[s] <= Len(journal)
        BY <1>f
      <4>3. CASE s = step
        BY <2>2, <4>1, <4>3
      <4>4. CASE s # step
        <5>1. mem'.attempts[s] = mem.attempts[s]
          BY <4>1, <4>4
        <5>2. QED
          BY <4>2, <5>1
      <4>5. QED
        BY <4>3, <4>4
    <3>3. QED
      BY <3>2
  <2>5. QED
    BY <2>3, <2>4
<1>8. CASE StepCompleted
  <2>1. mem' = [mem EXCEPT !.completed[step] = line.obs]
    BY <1>8 DEF StepCompleted
  <2>2. step \in Steps /\ step \in Nat /\ line.obs \in Nat /\ line.attempt \in Nat
        /\ (line.attempt <= Len(journal'))
    <3>1. step \in Steps
      BY <1>8 DEF StepCompleted, Recorded, InPlace, StepKinds, Kinds, At, IInv
    <3>2. Len(journal') = Len(journal) + 1
      BY <1>8 DEF StepCompleted, Recorded, Write, IInv, TypeOK
    <3>3. QED
      BY <3>1, <3>2, Constants, LineTypes DEF IInv, TypeOK, Numbered
  <2>3. QED
    BY <2>1, <2>2, MemUpdates
<1>9. CASE AskSkipped
  <2>1. mem' = [mem EXCEPT !.skipped[step] = line.obs]
    BY <1>9 DEF AskSkipped
  <2>2. step \in Steps /\ step \in Nat /\ line.obs \in Nat /\ line.attempt \in Nat
        /\ (line.attempt <= Len(journal'))
    <3>1. step \in Steps
      BY <1>9 DEF AskSkipped, Recorded, InPlace, StepKinds, Kinds, At, IInv
    <3>2. Len(journal') = Len(journal) + 1
      BY <1>9 DEF AskSkipped, Recorded, Write, IInv, TypeOK
    <3>3. QED
      BY <3>1, <3>2, Constants, LineTypes DEF IInv, TypeOK, Numbered
  <2>3. QED
    BY <2>1, <2>2, MemUpdates
<1>10. CASE GateRejected
  <2>1. step \in Steps /\ step \in Nat
    BY <1>10, Constants DEF GateRejected, Recorded, InPlace, StepKinds, Kinds, At, IInv
  <2> DEFINE n == IF mem.phase = 0 THEN 0 ELSE mem.count + 1
  <2>2. n \in Nat
    BY DEF MemType
  <2>3. mem' = [mem EXCEPT !.count = n]
    BY <1>10 DEF GateRejected
  <2> HIDE DEF n
  <2>4. QED
    BY <2>1, <2>2, <2>3, MemUpdates
<1>11. CASE RoundCapReached
  BY <1>11 DEF RoundCapReached
<1>12. CASE StepFailed
  <2>1. mem' = mem \/ mem' = [mem EXCEPT !.failed[step] = line.obs]
    BY <1>12 DEF StepFailed
  <2>2. step \in Steps /\ step \in Nat /\ line.obs \in Nat /\ line.attempt \in Nat
        /\ (line.attempt <= Len(journal'))
    <3>1. step \in Steps
      BY <1>12 DEF StepFailed, Recorded, InPlace, StepKinds, Kinds, At, IInv
    <3>2. Len(journal') = Len(journal) + 1
      BY <1>12 DEF StepFailed, Recorded, Write, IInv, TypeOK
    <3>3. QED
      BY <3>1, <3>2, Constants, LineTypes DEF IInv, TypeOK, Numbered
  <2>3. CASE mem' = mem
    BY <2>3
  <2>4. CASE mem' = [mem EXCEPT !.failed[step] = line.obs]
    BY <2>2, <2>4, MemUpdates
  <2>5. QED
    BY <2>1, <2>3, <2>4
<1>13. CASE RunCompleted
  BY <1>13, EmptyOK DEF RunCompleted, Gone
<1>14. CASE StoreFull
  BY <1>14 DEF StoreFull
<1>15. CASE Retained
  BY <1>15, EmptyOK DEF Retained, Gone
<1>16. CASE SkipStep
  BY <1>16 DEF SkipStep
<1>17. CASE StartPhase
  BY <1>17 DEF StartPhase
<1>18. CASE GateUnsealed
  BY <1>18 DEF GateUnsealed
<1>19. CASE StartGate
  BY <1>19 DEF StartGate
<1>20. CASE RunGate
  BY <1>20 DEF RunGate, GateRuns
<1>21. CASE StartJoin
  BY <1>21 DEF StartJoin
<1>22. CASE JoinDeps
  BY <1>22 DEF JoinDeps
<1>23. CASE Finish
  BY <1>23 DEF Finish
<1>24. CASE AskUnconditional
  BY <1>24 DEF AskUnconditional
<1>25. CASE AskConditional
  BY <1>25 DEF AskConditional
<1>26. CASE CreateSession
  BY <1>26 DEF CreateSession
<1>27. CASE SessionNotCreated
  BY <1>27 DEF SessionNotCreated
<1>28. CASE Dispatch
  BY <1>28 DEF Dispatch
<1>29. CASE Send
  BY <1>29 DEF Send
<1>30. CASE SendFails
  BY <1>30 DEF SendFails
<1>31. CASE Answered
  BY <1>31 DEF Answered
<1>32. CASE DeadlineExpires
  BY <1>32 DEF DeadlineExpires
<1>33. CASE ObserveFails
  BY <1>33 DEF ObserveFails
<1>34. CASE TakeAnswer
  BY <1>34 DEF TakeAnswer
<1>35. CASE AskUnresumable
  BY <1>35 DEF AskUnresumable
<1>36. CASE AskResume
  BY <1>36 DEF AskResume
<1>37. CASE AskSessionLost
  BY <1>37 DEF AskSessionLost
<1>38. CASE SessionWorks
  BY <1>38 DEF SessionWorks
<1>39. CASE SessionLost
  BY <1>39 DEF SessionLost
<1>40. CASE Crash
  BY <1>40, EmptyOK DEF Crash, Gone
<1>41. CASE UNCHANGED vars
  BY <1>41 DEF vars, diskVars, procVars, lastVars, envVars
<1>42. QED
  BY <1>1, <1>2, <1>3, <1>4, <1>5, <1>6, <1>7, <1>8, <1>9, <1>10, <1>11, <1>12, <1>13, <1>14,
     <1>15, <1>16, <1>17, <1>18, <1>19, <1>20, <1>21, <1>22, <1>23, <1>24, <1>25, <1>26, <1>27, <1>28,
     <1>29, <1>30, <1>31, <1>32, <1>33, <1>34, <1>35, <1>36, <1>37, <1>38, <1>39, <1>40, <1>41
  DEF Next, RunPlan, Process, Records, Plain, Ask

------------------------------------------------------------------------------
(* The rest of the types.                                                  *)

RestOK == /\ dir \in {"absent", "ready"} /\ head \in Nat /\ torn \in BOOLEAN
          /\ session \in 0 .. Len(sessions) /\ given \in 0 .. Len(obs)
          /\ runs \in Nat /\ crashes \in Nat /\ faults \in Nat

LEMMA RestStep == IInv /\ [Next]_vars => RestOK'
<1> SUFFICES ASSUME IInv, [Next]_vars PROVE RestOK'
  OBVIOUS
<1>a. RestOK
  BY DEF IInv, TypeOK, RestOK
<1>b. /\ Len(sessions') >= Len(sessions) /\ Len(sessions') \in Nat /\ Len(sessions) \in Nat
      /\ Len(obs') >= Len(obs) /\ Len(obs') \in Nat /\ Len(obs) \in Nat
  BY ObsGrown, SessionsGrown DEF IInv, TypeOK
<1>c. session' \in {0, session} => session' \in 0 .. Len(sessions')
  BY <1>a, <1>b DEF RestOK
<1>d. given' \in {0, given} => given' \in 0 .. Len(obs')
  BY <1>a, <1>b DEF RestOK
<1> USE <1>a, <1>b, <1>c, <1>d DEF RestOK, procVars, diskVars, envVars, InStep, Starts, Gone, Fails, CallFails
<1>1. CASE Prepare
  BY <1>1 DEF Prepare
<1>2. CASE Refuse
  BY <1>2 DEF Refuse
<1>3. CASE Resume
  BY <1>3 DEF Resume
<1>4. CASE PlanLoaded
  BY <1>4 DEF PlanLoaded, Recorded, Write
<1>5. CASE MemoryReconciled
  BY <1>5 DEF MemoryReconciled, Recorded, Write
<1>6. CASE PhaseStarted
  BY <1>6 DEF PhaseStarted, Recorded, Write
<1>7. CASE StepStarted
  BY <1>7 DEF StepStarted, Recorded, Write
<1>8. CASE StepCompleted
  <2>1. line.obs \in 0 .. Len(obs)
    BY <1>8 DEF StepCompleted, Recorded, IInv, References
  <2>2. given' \in {given, line.obs} /\ session' = 0
    BY <1>8 DEF StepCompleted
  <2>3. dir' = dir /\ torn' = torn /\ head' = head + 1
    BY <1>8 DEF StepCompleted, Recorded, Write
  <2>4. runs' = runs /\ crashes' = crashes /\ faults' = faults
    BY <1>8 DEF StepCompleted, Recorded
  <2>5. QED
    BY <2>1, <2>2, <2>3, <2>4
<1>9. CASE AskSkipped
  BY <1>9 DEF AskSkipped, Recorded, Write
<1>10. CASE GateRejected
  BY <1>10 DEF GateRejected, Recorded, Write
<1>11. CASE RoundCapReached
  BY <1>11 DEF RoundCapReached, Recorded, Write
<1>12. CASE StepFailed
  BY <1>12 DEF StepFailed, Recorded, Write
<1>13. CASE RunCompleted
  BY <1>13 DEF RunCompleted, Recorded, Write
<1>14. CASE StoreFull
  BY <1>14 DEF StoreFull
<1>15. CASE Retained
  <2>1. head' \in {head, head + 1} /\ dir' = dir /\ torn' = torn
    BY <1>15 DEF Retained, Write
  <2>2. session' = 0 /\ given' = 0
    BY <1>15 DEF Retained
  <2>3. runs' = runs /\ crashes' = crashes /\ faults' = faults
    BY <1>15 DEF Retained
  <2>4. QED
    BY <2>1, <2>2, <2>3
<1>16. CASE SkipStep
  BY <1>16 DEF SkipStep
<1>17. CASE StartPhase
  BY <1>17 DEF StartPhase
<1>18. CASE GateUnsealed
  BY <1>18 DEF GateUnsealed
<1>19. CASE StartGate
  BY <1>19 DEF StartGate
<1>20. CASE RunGate
  BY <1>20 DEF RunGate, GateRuns
<1>21. CASE StartJoin
  BY <1>21 DEF StartJoin
<1>22. CASE JoinDeps
  BY <1>22 DEF JoinDeps
<1>23. CASE Finish
  BY <1>23 DEF Finish
<1>24. CASE AskUnconditional
  BY <1>24 DEF AskUnconditional
<1>25. CASE AskConditional
  BY <1>25 DEF AskConditional
<1>26. CASE CreateSession
  <2>1. Len(sessions') = Len(sessions) + 1
    BY <1>26 DEF CreateSession, IInv, TypeOK
  <2>2. session' = Len(sessions) + 1
    BY <1>26 DEF CreateSession
  <2>3. QED
    BY <1>26, <2>1, <2>2 DEF CreateSession
<1>27. CASE SessionNotCreated
  BY <1>27 DEF SessionNotCreated
<1>28. CASE Dispatch
  BY <1>28 DEF Dispatch
<1>29. CASE Send
  BY <1>29 DEF Send
<1>30. CASE SendFails
  BY <1>30 DEF SendFails
<1>31. CASE Answered
  BY <1>31 DEF Answered
<1>32. CASE DeadlineExpires
  BY <1>32 DEF DeadlineExpires
<1>33. CASE ObserveFails
  BY <1>33 DEF ObserveFails
<1>34. CASE TakeAnswer
  BY <1>34 DEF TakeAnswer
<1>35. CASE AskUnresumable
  BY <1>35 DEF AskUnresumable
<1>36. CASE AskResume
  <2>1. session' = mem.pending[step].session /\ step \in Steps
    BY <1>36 DEF AskResume, Pending, Execute, Executing
  <2>2. session' \in 0 .. Len(sessions)
    BY <2>1 DEF IInv, References
  <2>3. QED
    BY <1>36, <2>2 DEF AskResume
<1>37. CASE AskSessionLost
  BY <1>37 DEF AskSessionLost
<1>38. CASE SessionWorks
  BY <1>38 DEF SessionWorks
<1>39. CASE SessionLost
  BY <1>39 DEF SessionLost
<1>40. CASE Crash
  <2>1. torn' \in BOOLEAN
    BY <1>40 DEF Crash, HalfAppends
  <2>2. QED
    BY <1>40, <2>1 DEF Crash
<1>41. CASE UNCHANGED vars
  BY <1>41 DEF vars, diskVars, procVars, lastVars, envVars
<1>42. QED
  BY <1>1, <1>2, <1>3, <1>4, <1>5, <1>6, <1>7, <1>8, <1>9, <1>10, <1>11, <1>12, <1>13, <1>14,
     <1>15, <1>16, <1>17, <1>18, <1>19, <1>20, <1>21, <1>22, <1>23, <1>24, <1>25, <1>26, <1>27, <1>28,
     <1>29, <1>30, <1>31, <1>32, <1>33, <1>34, <1>35, <1>36, <1>37, <1>38, <1>39, <1>40, <1>41
  DEF Next, RunPlan, Process, Records, Plain, Ask

------------------------------------------------------------------------------
(* The step in hand.                                                       *)

LEMMA PlaceStep == IInv /\ [Next]_vars => InPlace'
<1> SUFFICES ASSUME IInv, [Next]_vars PROVE InPlace'
  OBVIOUS
<1>a. InPlace
  BY DEF IInv
<1>b. \A s \in Steps : Plan[s].type \in {"gate", "join", "fase", "ask"}
  BY Constants DEF StepType
<1>c. NoLine.kind \notin StepKinds
  BY DEF NoLine, Bare, Record, StepKinds, Kinds
<1>d. pc' \in {"idle", "retain", "step"} => InPlace'
  BY DEF InPlace, AskLabels
<1> USE <1>a, <1>b, <1>c, <1>d DEF InPlace, AskLabels, StepKinds, Kinds, procVars, InStep, At, Appends, Goes,
        Retains, NextStep
<1>1. CASE Prepare
  BY <1>1 DEF Prepare, Enter, Bare, Record
<1>2. CASE Refuse
  BY <1>2 DEF Refuse
<1>3. CASE Resume
  BY <1>3 DEF Resume, Enter, Bare, Record
<1>4. CASE PlanLoaded
  BY <1>4 DEF PlanLoaded, Enter, Bare, Record
<1>5. CASE MemoryReconciled
  BY <1>5 DEF MemoryReconciled, Recorded
<1>6. CASE PhaseStarted
  BY <1>6 DEF PhaseStarted, Recorded
<1>7. CASE StepStarted
  BY <1>7 DEF StepStarted, Recorded
<1>8. CASE StepCompleted
  BY <1>8 DEF StepCompleted, Recorded
<1>9. CASE AskSkipped
  BY <1>9 DEF AskSkipped, Recorded
<1>10. CASE GateRejected
  BY <1>10 DEF GateRejected, Recorded, Bare, Record
<1>11. CASE RoundCapReached
  BY <1>11 DEF RoundCapReached, Enter, Bare, Record
<1>12. CASE StepFailed
  BY <1>12 DEF StepFailed, Recorded
<1>13. CASE RunCompleted
  BY <1>13 DEF RunCompleted, Gone
<1>14. CASE StoreFull
  BY <1>14 DEF StoreFull
<1>15. CASE Retained
  BY <1>15 DEF Retained, Gone
<1>16. CASE SkipStep
  BY <1>16 DEF SkipStep
<1>17. CASE StartPhase
  BY <1>17 DEF StartPhase, Execute, Executing, Bare, Record
<1>18. CASE GateUnsealed
  BY <1>18 DEF GateUnsealed
<1>19. CASE StartGate
  BY <1>19 DEF StartGate, Execute, Executing, Fresh, StartAttempt, Bare, Record
<1>20. CASE RunGate
  BY <1>20 DEF RunGate, GateRuns, Record
<1>21. CASE StartJoin
  BY <1>21 DEF StartJoin, Execute, Executing, Fresh, StartAttempt, Bare, Record
<1>22. CASE JoinDeps
  <2>1. CASE pc' = "retain"
    BY <2>1
  <2>2. CASE pc' # "retain"
    <3> DEFINE deps == {<<d, mem.completed[d]>> : d \in Plan[step].depends}
    <3>1. pc' = "record" /\ line' = Record("STEP_COMPLETED", step, mem.attempts[step], NewObs, deps)
      BY <1>22, <2>2 DEF JoinDeps
    <3>2. step' = step /\ step \in Steps
      BY <1>22 DEF JoinDeps
    <3> HIDE DEF deps
    <3>3. line'.kind = "STEP_COMPLETED" /\ line'.step = step
      BY <3>1 DEF Record
    <3>4. QED
      BY <3>1, <3>2, <3>3
  <2>3. QED
    BY <2>1, <2>2
<1>23. CASE Finish
  BY <1>23 DEF Finish, Enter, Bare, Record
<1>24. CASE AskUnconditional
  BY <1>24 DEF AskUnconditional, Execute, Executing, Fresh, StartAttempt, Bare, Record
<1>25. CASE AskConditional
  BY <1>25 DEF AskConditional, Execute, Executing, Fresh, StartAttempt, Record
<1>26. CASE CreateSession
  <2>1. session' = Len(sessions) + 1 /\ Len(sessions) \in Nat
    BY <1>26 DEF CreateSession, IInv, TypeOK
  <2>2. session' # 0
    BY <2>1
  <2>3. QED
    BY <1>26, <2>2 DEF CreateSession
<1>27. CASE SessionNotCreated
  BY <1>27 DEF SessionNotCreated
<1>28. CASE Dispatch
  BY <1>28 DEF Dispatch
<1>29. CASE Send
  BY <1>29 DEF Send
<1>30. CASE SendFails
  BY <1>30 DEF SendFails
<1>31. CASE Answered
  BY <1>31 DEF Answered
<1>32. CASE DeadlineExpires
  BY <1>32 DEF DeadlineExpires
<1>33. CASE ObserveFails
  BY <1>33 DEF ObserveFails
<1>34. CASE TakeAnswer
  BY <1>34 DEF TakeAnswer, Record
<1>35. CASE AskUnresumable
  BY <1>35 DEF AskUnresumable
<1>36. CASE AskResume
  <2>1. session' = mem.pending[step].session /\ step \in Steps /\ Plan[step].type = "ask"
        /\ mem.pending[step].status = "dispatched"
    BY <1>36 DEF AskResume, Pending, Execute, Executing
  <2>2. session' # 0
    BY <2>1 DEF IInv, References
  <2>3. QED
    BY <1>36, <2>1, <2>2 DEF AskResume
<1>37. CASE AskSessionLost
  BY <1>37 DEF AskSessionLost
<1>38. CASE SessionWorks
  BY <1>38 DEF SessionWorks
<1>39. CASE SessionLost
  BY <1>39 DEF SessionLost
<1>40. CASE Crash
  BY <1>40 DEF Crash, Gone
<1>41. CASE UNCHANGED vars
  BY <1>41 DEF vars, diskVars, procVars, lastVars, envVars
<1>42. QED
  BY <1>1, <1>2, <1>3, <1>4, <1>5, <1>6, <1>7, <1>8, <1>9, <1>10, <1>11, <1>12, <1>13, <1>14,
     <1>15, <1>16, <1>17, <1>18, <1>19, <1>20, <1>21, <1>22, <1>23, <1>24, <1>25, <1>26, <1>27, <1>28,
     <1>29, <1>30, <1>31, <1>32, <1>33, <1>34, <1>35, <1>36, <1>37, <1>38, <1>39, <1>40, <1>41
  DEF Next, RunPlan, Process, Records, Plain, Ask

------------------------------------------------------------------------------
(* The journal and its confirmation.                                       *)

LEMMA ConfirmedStep == IInv /\ [Next]_vars => Confirmed'
<1> SUFFICES ASSUME IInv, [Next]_vars PROVE Confirmed'
  OBVIOUS
<1>a. /\ Confirmed /\ journal \in Seq(RecordType) /\ head \in Nat /\ crashes \in Nat
      /\ Len(journal) \in Nat /\ pc \in Labels
  BY DEF IInv, TypeOK
<1>b. ASSUME Write(line) \/ Write(Bare("RUN_RETAINED", 0)), UNCHANGED <<crashes, dir, torn>>, pc # "idle"
      PROVE  Confirmed'
  <2>1. PICK e \in RecordType : Write(e)
    BY <1>b DEF IInv, TypeOK, Bare, Record, RecordType, Kinds
  <2>2. Len(journal') = Len(journal) + 1 /\ journal' # <<>> /\ head' = head + 1
    BY <1>a, <2>1 DEF Write
  <2>3. QED
    BY <1>a, <1>b, <2>2 DEF Confirmed
<1>c. ASSUME UNCHANGED <<journal, head, torn, dir, crashes>>, pc \notin {"idle", "record"}, pc' # "idle" \/ journal # <<>>
      PROVE  Confirmed'
  BY <1>a, <1>c DEF Confirmed
<1> USE <1>a DEF procVars, diskVars, envVars, InStep, Starts, Gone, Fails, CallFails, At, Appends, Goes, Retains, NextStep
<1>1. CASE Prepare
  BY <1>1 DEF Prepare, Confirmed, Bare, Record
<1>2. CASE Refuse
  BY <1>2 DEF Refuse, Confirmed
<1>3. CASE Resume
  BY <1>3 DEF Resume, Confirmed, Readable
<1>4. CASE PlanLoaded
  BY <1>4, <1>b DEF PlanLoaded, Recorded, Write
<1>5. CASE MemoryReconciled
  BY <1>5, <1>b DEF MemoryReconciled, Recorded, Write
<1>6. CASE PhaseStarted
  BY <1>6, <1>b DEF PhaseStarted, Recorded, Write
<1>7. CASE StepStarted
  BY <1>7, <1>b DEF StepStarted, Recorded, Write
<1>8. CASE StepCompleted
  BY <1>8, <1>b DEF StepCompleted, Recorded, Write
<1>9. CASE AskSkipped
  BY <1>9, <1>b DEF AskSkipped, Recorded, Write
<1>10. CASE GateRejected
  BY <1>10, <1>b DEF GateRejected, Recorded, Write
<1>11. CASE RoundCapReached
  BY <1>11, <1>b DEF RoundCapReached, Recorded, Write
<1>12. CASE StepFailed
  BY <1>12, <1>b DEF StepFailed, Recorded, Write
<1>13. CASE RunCompleted
  BY <1>13, <1>b DEF RunCompleted, Recorded, Write
<1>14. CASE StoreFull
  <2>1. journal # <<>>
    BY <1>14, BoundsAssumption DEF StoreFull, Fits
  <2>2. QED
    BY <1>14, <2>1 DEF StoreFull, Confirmed
<1>15. CASE Retained
  <2>1. CASE Fits(TRUE)
    BY <1>15, <1>b, <2>1 DEF Retained, Write
  <2>2. CASE ~Fits(TRUE)
    <3>1. journal # <<>>
      BY <2>2, BoundsAssumption DEF Fits
    <3>2. QED
      BY <1>15, <1>c, <2>2, <3>1 DEF Retained
  <2>3. QED
    BY <2>1, <2>2
<1>16. CASE SkipStep
  BY <1>16, <1>c DEF SkipStep, Execute, Executing, Fresh, StartAttempt
<1>17. CASE StartPhase
  BY <1>17, <1>c DEF StartPhase, Execute, Executing, Fresh, StartAttempt
<1>18. CASE GateUnsealed
  BY <1>18, <1>c DEF GateUnsealed, Execute, Executing, Fresh, StartAttempt
<1>19. CASE StartGate
  BY <1>19, <1>c DEF StartGate, Execute, Executing, Fresh, StartAttempt
<1>20. CASE RunGate
  BY <1>20, <1>c DEF RunGate, GateRuns
<1>21. CASE StartJoin
  BY <1>21, <1>c DEF StartJoin, Execute, Executing, Fresh, StartAttempt
<1>22. CASE JoinDeps
  BY <1>22, <1>c DEF JoinDeps
<1>23. CASE Finish
  BY <1>23, <1>c DEF Finish, Execute, Executing, Fresh, StartAttempt
<1>24. CASE AskUnconditional
  BY <1>24, <1>c DEF AskUnconditional, Execute, Executing, Fresh, StartAttempt
<1>25. CASE AskConditional
  BY <1>25, <1>c DEF AskConditional, Execute, Executing, Fresh, StartAttempt
<1>26. CASE CreateSession
  BY <1>26, <1>c DEF CreateSession
<1>27. CASE SessionNotCreated
  BY <1>27, <1>c DEF SessionNotCreated
<1>28. CASE Dispatch
  BY <1>28, <1>c DEF Dispatch
<1>29. CASE Send
  BY <1>29, <1>c DEF Send
<1>30. CASE SendFails
  BY <1>30, <1>c DEF SendFails
<1>31. CASE Answered
  BY <1>31, <1>c DEF Answered
<1>32. CASE DeadlineExpires
  BY <1>32, <1>c DEF DeadlineExpires
<1>33. CASE ObserveFails
  BY <1>33, <1>c DEF ObserveFails
<1>34. CASE TakeAnswer
  BY <1>34, <1>c DEF TakeAnswer
<1>35. CASE AskUnresumable
  BY <1>35, <1>c DEF AskUnresumable, Execute, Executing, Fresh, StartAttempt
<1>36. CASE AskResume
  BY <1>36, <1>c DEF AskResume, Execute, Executing, Fresh, StartAttempt
<1>37. CASE AskSessionLost
  BY <1>37, <1>c DEF AskSessionLost, Execute, Executing, Fresh, StartAttempt
<1>38. CASE SessionWorks
  BY <1>38 DEF SessionWorks, Confirmed
<1>39. CASE SessionLost
  BY <1>39 DEF SessionLost, Confirmed
<1>40. CASE Crash
  <2>1. crashes' > 0 /\ pc' = "idle" /\ dir' = dir /\ pc # "idle"
    BY <1>40 DEF Crash
  <2>2. QED
    BY <2>1 DEF Confirmed
<1>41. CASE UNCHANGED vars
  BY <1>41 DEF Confirmed, vars, diskVars, procVars, lastVars, envVars
<1>42. QED
  BY <1>1, <1>2, <1>3, <1>4, <1>5, <1>6, <1>7, <1>8, <1>9, <1>10, <1>11, <1>12, <1>13, <1>14,
     <1>15, <1>16, <1>17, <1>18, <1>19, <1>20, <1>21, <1>22, <1>23, <1>24, <1>25, <1>26, <1>27, <1>28,
     <1>29, <1>30, <1>31, <1>32, <1>33, <1>34, <1>35, <1>36, <1>37, <1>38, <1>39, <1>40, <1>41
  DEF Next, RunPlan, Process, Records, Plain, Ask

------------------------------------------------------------------------------
(* The reserve and the retentions.                                         *)

LEMMA ReserveStep == IInv /\ [Next]_vars => Reserve'
<1> SUFFICES ASSUME IInv, [Next]_vars PROVE Reserve'
  OBVIOUS
<1>a. Reserve /\ journal \in Seq(RecordType) /\ Len(journal) \in Nat /\ Limit \in Nat
  BY BoundsAssumption DEF IInv, TypeOK
<1>b. ASSUME Fits(FALSE), journal' = Append(journal, line) PROVE Reserve'
  <2>1. Len(journal') = Len(journal) + 1 /\ Len(journal) + 2 <= Limit
    BY <1>a, <1>b DEF Fits
  <2>2. QED
    BY <1>a, <2>1 DEF Reserve
<1>c. ASSUME Fits(TRUE), journal' = Append(journal, Bare("RUN_RETAINED", 0)) PROVE Reserve'
  <2>1. Len(journal') = Len(journal) + 1 /\ Len(journal) + 1 <= Limit
    BY <1>a, <1>c DEF Fits
  <2>2. Len(journal') \in DOMAIN journal' /\ journal'[Len(journal')].kind = "RUN_RETAINED"
    BY <1>a, <1>c, <2>1 DEF Bare, Record
  <2>3. QED
    BY <1>a, <2>1, <2>2 DEF Reserve
<1>d. ASSUME journal' = journal PROVE Reserve'
  BY <1>a, <1>d DEF Reserve
<1> USE <1>b, <1>c, <1>d DEF diskVars, InStep
<1>1. CASE Prepare
  BY <1>1 DEF Prepare
<1>2. CASE Refuse
  BY <1>2 DEF Refuse
<1>3. CASE Resume
  BY <1>3 DEF Resume
<1>4. CASE PlanLoaded
  BY <1>4 DEF PlanLoaded, Recorded, Write
<1>5. CASE MemoryReconciled
  BY <1>5 DEF MemoryReconciled, Recorded, Write
<1>6. CASE PhaseStarted
  BY <1>6 DEF PhaseStarted, Recorded, Write
<1>7. CASE StepStarted
  BY <1>7 DEF StepStarted, Recorded, Write
<1>8. CASE StepCompleted
  BY <1>8 DEF StepCompleted, Recorded, Write
<1>9. CASE AskSkipped
  BY <1>9 DEF AskSkipped, Recorded, Write
<1>10. CASE GateRejected
  BY <1>10 DEF GateRejected, Recorded, Write
<1>11. CASE RoundCapReached
  BY <1>11 DEF RoundCapReached, Recorded, Write
<1>12. CASE StepFailed
  BY <1>12 DEF StepFailed, Recorded, Write
<1>13. CASE RunCompleted
  BY <1>13 DEF RunCompleted, Recorded, Write
<1>14. CASE StoreFull
  BY <1>14 DEF StoreFull
<1>15. CASE Retained
  <2>1. CASE Fits(TRUE)
    BY <1>15, <2>1 DEF Retained, Write
  <2>2. CASE ~Fits(TRUE)
    BY <1>15, <2>2 DEF Retained
  <2>3. QED
    BY <2>1, <2>2
<1>16. CASE SkipStep
  BY <1>16 DEF SkipStep
<1>17. CASE StartPhase
  BY <1>17 DEF StartPhase
<1>18. CASE GateUnsealed
  BY <1>18 DEF GateUnsealed
<1>19. CASE StartGate
  BY <1>19 DEF StartGate
<1>20. CASE RunGate
  BY <1>20 DEF RunGate, GateRuns
<1>21. CASE StartJoin
  BY <1>21 DEF StartJoin
<1>22. CASE JoinDeps
  BY <1>22 DEF JoinDeps
<1>23. CASE Finish
  BY <1>23 DEF Finish
<1>24. CASE AskUnconditional
  BY <1>24 DEF AskUnconditional
<1>25. CASE AskConditional
  BY <1>25 DEF AskConditional
<1>26. CASE CreateSession
  BY <1>26 DEF CreateSession
<1>27. CASE SessionNotCreated
  BY <1>27 DEF SessionNotCreated
<1>28. CASE Dispatch
  BY <1>28 DEF Dispatch
<1>29. CASE Send
  BY <1>29 DEF Send
<1>30. CASE SendFails
  BY <1>30 DEF SendFails
<1>31. CASE Answered
  BY <1>31 DEF Answered
<1>32. CASE DeadlineExpires
  BY <1>32 DEF DeadlineExpires
<1>33. CASE ObserveFails
  BY <1>33 DEF ObserveFails
<1>34. CASE TakeAnswer
  BY <1>34 DEF TakeAnswer
<1>35. CASE AskUnresumable
  BY <1>35 DEF AskUnresumable
<1>36. CASE AskResume
  BY <1>36 DEF AskResume
<1>37. CASE AskSessionLost
  BY <1>37 DEF AskSessionLost
<1>38. CASE SessionWorks
  BY <1>38 DEF SessionWorks
<1>39. CASE SessionLost
  BY <1>39 DEF SessionLost
<1>40. CASE Crash
  BY <1>40 DEF Crash, HalfAppends
<1>41. CASE UNCHANGED vars
  BY <1>41 DEF vars, diskVars, procVars, lastVars, envVars
<1>42. QED
  BY <1>1, <1>2, <1>3, <1>4, <1>5, <1>6, <1>7, <1>8, <1>9, <1>10, <1>11, <1>12, <1>13, <1>14,
     <1>15, <1>16, <1>17, <1>18, <1>19, <1>20, <1>21, <1>22, <1>23, <1>24, <1>25, <1>26, <1>27, <1>28,
     <1>29, <1>30, <1>31, <1>32, <1>33, <1>34, <1>35, <1>36, <1>37, <1>38, <1>39, <1>40, <1>41
  DEF Next, RunPlan, Process, Records, Plain, Ask

LEMMA RetentionStep == IInv /\ [Next]_vars => RetentionJournaled'
<1> SUFFICES ASSUME IInv, [Next]_vars PROVE RetentionJournaled'
  OBVIOUS
<1>a. (\E i \in DOMAIN journal : journal[i].kind = "RUN_RETAINED")
      => \E i \in DOMAIN journal' : journal'[i].kind = "RUN_RETAINED"
  BY JournalGrown
<1>b. ASSUME UNCHANGED <<outcome, journaled>> PROVE RetentionJournaled'
  BY <1>a, <1>b DEF IInv, RetentionJournaled
<1>c. ASSUME outcome' # "RETAINED" PROVE RetentionJournaled'
  BY <1>c DEF RetentionJournaled
<1> USE <1>b, <1>c DEF lastVars, InStep, Quiet
<1>1. CASE Prepare
  BY <1>1 DEF Prepare
<1>2. CASE Refuse
  BY <1>2 DEF Refuse
<1>3. CASE Resume
  BY <1>3 DEF Resume
<1>4. CASE PlanLoaded
  BY <1>4 DEF PlanLoaded
<1>5. CASE MemoryReconciled
  BY <1>5 DEF MemoryReconciled
<1>6. CASE PhaseStarted
  BY <1>6 DEF PhaseStarted
<1>7. CASE StepStarted
  BY <1>7 DEF StepStarted
<1>8. CASE StepCompleted
  BY <1>8 DEF StepCompleted
<1>9. CASE AskSkipped
  BY <1>9 DEF AskSkipped
<1>10. CASE GateRejected
  BY <1>10 DEF GateRejected
<1>11. CASE RoundCapReached
  BY <1>11 DEF RoundCapReached
<1>12. CASE StepFailed
  BY <1>12 DEF StepFailed
<1>13. CASE RunCompleted
  BY <1>13 DEF RunCompleted
<1>14. CASE StoreFull
  BY <1>14 DEF StoreFull
<1>15. CASE Retained
  <2>1. CASE Fits(TRUE)
    BY <1>15, <2>1 DEF Retained, RetentionJournaled
  <2>2. CASE ~Fits(TRUE)
    <3>1. Len(journal) = Limit
      BY <2>2, BoundsAssumption DEF Fits, IInv, TypeOK, Reserve
    <3>2. QED
      BY <1>a, <3>1 DEF IInv, Reserve, RetentionJournaled
  <2>3. QED
    BY <2>1, <2>2
<1>16. CASE SkipStep
  BY <1>16 DEF SkipStep
<1>17. CASE StartPhase
  BY <1>17 DEF StartPhase
<1>18. CASE GateUnsealed
  BY <1>18 DEF GateUnsealed
<1>19. CASE StartGate
  BY <1>19 DEF StartGate
<1>20. CASE RunGate
  BY <1>20 DEF RunGate, GateRuns
<1>21. CASE StartJoin
  BY <1>21 DEF StartJoin
<1>22. CASE JoinDeps
  BY <1>22 DEF JoinDeps
<1>23. CASE Finish
  BY <1>23 DEF Finish
<1>24. CASE AskUnconditional
  BY <1>24 DEF AskUnconditional
<1>25. CASE AskConditional
  BY <1>25 DEF AskConditional
<1>26. CASE CreateSession
  BY <1>26 DEF CreateSession
<1>27. CASE SessionNotCreated
  BY <1>27 DEF SessionNotCreated
<1>28. CASE Dispatch
  BY <1>28 DEF Dispatch
<1>29. CASE Send
  BY <1>29 DEF Send
<1>30. CASE SendFails
  BY <1>30 DEF SendFails
<1>31. CASE Answered
  BY <1>31 DEF Answered
<1>32. CASE DeadlineExpires
  BY <1>32 DEF DeadlineExpires
<1>33. CASE ObserveFails
  BY <1>33 DEF ObserveFails
<1>34. CASE TakeAnswer
  BY <1>34 DEF TakeAnswer
<1>35. CASE AskUnresumable
  BY <1>35 DEF AskUnresumable
<1>36. CASE AskResume
  BY <1>36 DEF AskResume
<1>37. CASE AskSessionLost
  BY <1>37 DEF AskSessionLost
<1>38. CASE SessionWorks
  BY <1>38 DEF SessionWorks
<1>39. CASE SessionLost
  BY <1>39 DEF SessionLost
<1>40. CASE Crash
  BY <1>40 DEF Crash
<1>41. CASE UNCHANGED vars
  BY <1>41 DEF vars, diskVars, procVars, lastVars, envVars
<1>42. QED
  BY <1>1, <1>2, <1>3, <1>4, <1>5, <1>6, <1>7, <1>8, <1>9, <1>10, <1>11, <1>12, <1>13, <1>14,
     <1>15, <1>16, <1>17, <1>18, <1>19, <1>20, <1>21, <1>22, <1>23, <1>24, <1>25, <1>26, <1>27, <1>28,
     <1>29, <1>30, <1>31, <1>32, <1>33, <1>34, <1>35, <1>36, <1>37, <1>38, <1>39, <1>40, <1>41
  DEF Next, RunPlan, Process, Records, Plain, Ask

------------------------------------------------------------------------------
(* The answers.                                                            *)

\* A record that is new is no answer, or one that was in hand.
LEMMA JournalAnswers ==
  ASSUME IInv, [Next]_vars
  PROVE  \A k \in DOMAIN journal' : AnswerOf(journal'[k]) => StillEnded(journal'[k].obs)
<1> SUFFICES ASSUME NEW k \in DOMAIN journal', AnswerOf(journal'[k])
             PROVE  StillEnded(journal'[k].obs)
  OBVIOUS
<1>1. CASE k \in DOMAIN journal
  <2>1. journal'[k] = journal[k]
    BY <1>1, JournalGrown
  <2>2. OfEnded(journal[k].obs)
    BY <1>1, <2>1 DEF IInv, AnswersOver
  <2>3. StillEnded(journal[k].obs)
    BY <2>2, OverStays
  <2>4. QED
    BY <2>1, <2>3
<1>2. CASE k \notin DOMAIN journal
  <2>1. CASE pc = "record" /\ journal'[k] = line
    <3>1. OfEnded(line.obs)
      BY <2>1 DEF IInv, AnswersOver
    <3>2. QED
      BY <2>1, <3>1, OverStays
  <2>2. CASE journal'[k] = Bare("RUN_RETAINED", 0)
    BY <2>2 DEF Bare, Record, AnswerOf
  <2>3. QED
    BY <1>2, <2>1, <2>2, JournalGrown
<1>3. QED
  BY <1>1, <1>2

LEMMA AnswersStep == IInv /\ [Next]_vars => AnswersOver'
<1> SUFFICES ASSUME IInv, [Next]_vars PROVE AnswersOver'
  OBVIOUS
<1>a. ASSUME pc' # "answer", pc' = "record" => ~AnswerOf(line') PROVE AnswersOver'
  BY <1>a, JournalAnswers DEF AnswersOver, AnswerOf, OfEnded, StillEnded
<1>b. ASSUME UNCHANGED <<pc, line, session>> PROVE AnswersOver'
  <2>1. pc' = "answer" => sessions'[session'].state \in {"ended", "lost"}
    <3>1. pc = "answer" => session \in DOMAIN sessions /\ sessions[session].state \in {"ended", "lost"}
      BY DEF IInv, TypeOK, InPlace, AskLabels, AnswersOver
    <3>2. QED
      BY <1>b, <3>1, SessionsGrown
  <2>2. pc' = "record" /\ AnswerOf(line') => StillEnded(line'.obs)
    <3>1. pc = "record" /\ AnswerOf(line) => OfEnded(line.obs)
      BY DEF IInv, AnswersOver
    <3>2. QED
      BY <1>b, <3>1, OverStays DEF AnswerOf
  <2>3. QED
    BY <2>1, <2>2, JournalAnswers DEF AnswersOver, AnswerOf, OfEnded, StillEnded
<1> USE <1>a, <1>b DEF procVars, InStep, Gone, At, Appends, Goes, Retains, NextStep, Bare, Record, AnswerOf, NoLine
<1>1. CASE Prepare
  BY <1>1 DEF Prepare, Enter
<1>2. CASE Refuse
  BY <1>2 DEF Refuse
<1>3. CASE Resume
  BY <1>3 DEF Resume, Enter
<1>4. CASE PlanLoaded
  BY <1>4 DEF PlanLoaded, Enter
<1>5. CASE MemoryReconciled
  BY <1>5 DEF MemoryReconciled, Enter
<1>6. CASE PhaseStarted
  BY <1>6 DEF PhaseStarted
<1>7. CASE StepStarted
  <2>1. pc' \notin {"answer", "record"}
    BY <1>7, Constants DEF StepStarted, Recorded, IInv, InPlace, StepKinds, Kinds, StepType
  <2>2. QED
    BY <2>1
<1>8. CASE StepCompleted
  BY <1>8 DEF StepCompleted
<1>9. CASE AskSkipped
  BY <1>9 DEF AskSkipped
<1>10. CASE GateRejected
  BY <1>10 DEF GateRejected, Recorded
<1>11. CASE RoundCapReached
  BY <1>11 DEF RoundCapReached
<1>12. CASE StepFailed
  BY <1>12 DEF StepFailed
<1>13. CASE RunCompleted
  BY <1>13 DEF RunCompleted
<1>14. CASE StoreFull
  BY <1>14 DEF StoreFull
<1>15. CASE Retained
  BY <1>15 DEF Retained
<1>16. CASE SkipStep
  BY <1>16 DEF SkipStep
<1>17. CASE StartPhase
  BY <1>17 DEF StartPhase
<1>18. CASE GateUnsealed
  BY <1>18 DEF GateUnsealed
<1>19. CASE StartGate
  BY <1>19 DEF StartGate, StartAttempt
<1>20. CASE RunGate
  <2>1. Plan[step].type = "gate"
    BY <1>20 DEF RunGate, GateRuns, IInv, InPlace
  <2>2. \/ pc' = "retain"
        \/ \E kind \in {"STEP_COMPLETED", "GATE_REJECTED"} :
             pc' = "record" /\ line' = Record(kind, step, mem.attempts[step], NewObs, {})
    BY <1>20 DEF RunGate, GateRuns
  <2>3. QED
    BY <2>1, <2>2
<1>21. CASE StartJoin
  BY <1>21 DEF StartJoin, StartAttempt
<1>22. CASE JoinDeps
  <2>1. Plan[step].type = "join"
    BY <1>22 DEF JoinDeps, IInv, InPlace
  <2> DEFINE deps == {<<d, mem.completed[d]>> : d \in Plan[step].depends}
  <2>2. \/ pc' = "retain"
        \/ pc' = "record" /\ line' = Record("STEP_COMPLETED", step, mem.attempts[step], NewObs, deps)
    BY <1>22 DEF JoinDeps
  <2> HIDE DEF deps
  <2>3. QED
    BY <2>1, <2>2
<1>23. CASE Finish
  BY <1>23 DEF Finish
<1>24. CASE AskUnconditional
  BY <1>24 DEF AskUnconditional, StartAttempt
<1>25. CASE AskConditional
  BY <1>25 DEF AskConditional, StartAttempt
<1>26. CASE CreateSession
  BY <1>26 DEF CreateSession
<1>27. CASE SessionNotCreated
  BY <1>27 DEF SessionNotCreated
<1>28. CASE Dispatch
  BY <1>28 DEF Dispatch
<1>29. CASE Send
  BY <1>29 DEF Send
<1>30. CASE SendFails
  BY <1>30 DEF SendFails
<1>31. CASE Answered
  <2>1. pc' = "answer" /\ sessions'[session'].state = "ended"
    BY <1>31 DEF Answered, Ses
  <2>2. QED
    BY <2>1, JournalAnswers DEF AnswersOver, OfEnded, StillEnded
<1>32. CASE DeadlineExpires
  BY <1>32 DEF DeadlineExpires
<1>33. CASE ObserveFails
  BY <1>33 DEF ObserveFails
<1>34. CASE TakeAnswer
  <2>1. CASE pc' = "retain"
    BY <2>1
  <2>2. CASE pc' # "retain"
    <3> DEFINE deps == IF Source(step) = 0 THEN {} ELSE {<<Plan[step].from, Source(step)>>}
    <3>1. pc' = "record" /\ line' = Record("STEP_COMPLETED", step, mem.attempts[step], NewObs, deps)
      BY <1>34, <2>2 DEF TakeAnswer
    <3>2. \E result \in Verdicts : obs' = Append(obs, AskState("completed", session, result))
      BY <1>34, <2>2 DEF TakeAnswer, WriteAskState, Observes, AskState, Verdicts
    <3> HIDE DEF deps
    <3>3. line'.obs = Len(obs) + 1
      BY <3>1 DEF NewObs
    <3>4. Len(obs) + 1 \in DOMAIN obs' /\ obs'[Len(obs) + 1].session = session
      <4>1. obs \in Seq(ObsType)
        BY DEF IInv, TypeOK
      <4>2. PICK result \in Verdicts : obs' = Append(obs, AskState("completed", session, result))
        BY <3>2
      <4>3. Len(obs) + 1 \in DOMAIN obs' /\ obs'[Len(obs) + 1] = AskState("completed", session, result)
        BY <4>1, <4>2
      <4>4. QED
        BY <4>3 DEF AskState
    <3>5. session \in DOMAIN sessions /\ sessions[session].state \in {"ended", "lost"}
      BY <1>34 DEF TakeAnswer, IInv, TypeOK, InPlace, AskLabels, AnswersOver
    <3>6. sessions' = sessions
      BY <1>34 DEF TakeAnswer
    <3>7. QED
      BY <3>1, <3>3, <3>4, <3>5, <3>6, JournalAnswers DEF AnswersOver, OfEnded, StillEnded
  <2>3. QED
    BY <2>1, <2>2
<1>35. CASE AskUnresumable
  BY <1>35 DEF AskUnresumable
<1>36. CASE AskResume
  BY <1>36 DEF AskResume
<1>37. CASE AskSessionLost
  BY <1>37 DEF AskSessionLost
<1>38. CASE SessionWorks
  BY <1>38 DEF SessionWorks
<1>39. CASE SessionLost
  BY <1>39 DEF SessionLost
<1>40. CASE Crash
  BY <1>40 DEF Crash
<1>41. CASE UNCHANGED vars
  BY <1>41 DEF vars, diskVars, procVars, lastVars, envVars
<1>42. QED
  BY <1>1, <1>2, <1>3, <1>4, <1>5, <1>6, <1>7, <1>8, <1>9, <1>10, <1>11, <1>12, <1>13, <1>14,
     <1>15, <1>16, <1>17, <1>18, <1>19, <1>20, <1>21, <1>22, <1>23, <1>24, <1>25, <1>26, <1>27, <1>28,
     <1>29, <1>30, <1>31, <1>32, <1>33, <1>34, <1>35, <1>36, <1>37, <1>38, <1>39, <1>40, <1>41
  DEF Next, RunPlan, Process, Records, Plain, Ask

------------------------------------------------------------------------------
(* The invariant.                                                          *)

LEMMA InitIInv == Init => IInv
<1> SUFFICES ASSUME Init PROVE IInv
  OBVIOUS
<1>1. /\ journal = <<>> /\ obs = <<>> /\ sessions = <<>> /\ Len(journal) = 0 /\ Len(obs) = 0
      /\ Len(sessions) = 0 /\ DOMAIN journal = {} /\ DOMAIN obs = {}
  BY DEF Init
<1>2. mem = EmptyState /\ line = NoLine /\ NoLine.attempt = 0 /\ NoLine.kind = "RUN_COMPLETED"
  BY DEF Init, NoLine, Bare, Record
<1>3. TypeOK
  <2>1. journal \in Seq(RecordType) /\ obs \in Seq(ObsType) /\ sessions \in Seq(SessionType)
    BY <1>1
  <2>2. mem \in MemType /\ line \in RecordType
    BY <1>2, EmptyOK, LineTypes
  <2>3. step \in 0 .. (Len(Plan) + 1) /\ session \in 0 .. Len(sessions) /\ given \in 0 .. Len(obs)
    BY <1>1, Constants DEF Init
  <2>4. QED
    BY <2>1, <2>2, <2>3 DEF Init, TypeOK, Labels, Causes
<1>4. InPlace
  BY DEF Init, InPlace, AskLabels
<1>5. References /\ Numbered
  BY <1>1, <1>2, EmptyOK DEF References, Numbered
<1>6. AnswersOver /\ Confirmed
  BY <1>1 DEF Init, AnswersOver, Confirmed
<1>7. Reserve /\ RetentionJournaled
  BY <1>1, BoundsAssumption DEF Init, Reserve, RetentionJournaled
<1>8. QED
  BY <1>3, <1>4, <1>5, <1>6, <1>7 DEF IInv

LEMMA TypeStep == IInv /\ [Next]_vars => TypeOK'
<1> SUFFICES ASSUME IInv, [Next]_vars PROVE TypeOK'
  OBVIOUS
<1>1. CtlTypes' /\ RestOK' /\ LineOK' /\ MemOK'
  BY ControlStep, RestStep, LineStep, MemStep
<1>2. journal' \in Seq(RecordType) /\ obs' \in Seq(ObsType) /\ sessions' \in Seq(SessionType)
  BY JournalGrown, ObsGrown, SessionsGrown
<1>3. QED
  BY <1>1, <1>2 DEF TypeOK, CtlTypes, RestOK, LineOK, MemOK

LEMMA ReferencesStep == IInv /\ [Next]_vars => References' /\ Numbered'
<1> SUFFICES ASSUME IInv, [Next]_vars PROVE References' /\ Numbered'
  OBVIOUS
<1>1. LineOK' /\ MemOK'
  BY LineStep, MemStep
<1>2. \A n \in DOMAIN obs' : obs'[n].session \in 0 .. Len(sessions')
  <2>1. \A n \in DOMAIN obs : obs[n].session \in 0 .. Len(sessions)
    BY DEF IInv, References
  <2>2. \A n \in DOMAIN obs' : obs'[n].session \in 0 .. Len(sessions)
    BY <2>1, ObsGrown
  <2>3. Len(sessions) \in Nat
    BY DEF IInv, TypeOK
  <2>4. QED
    BY <2>2, <2>3, SessionsGrown
<1>3. \A k \in DOMAIN journal' : journal'[k].attempt <= Len(journal')
  <2>1. \A k \in DOMAIN journal : journal[k].attempt \in Nat /\ journal[k].attempt <= Len(journal)
    <3>1. ASSUME NEW k \in DOMAIN journal PROVE journal[k] \in RecordType
      BY <3>1 DEF IInv, TypeOK
    <3>2. \A k \in DOMAIN journal : journal[k].attempt \in Nat
      BY <3>1, LineTypes
    <3>3. QED
      BY <3>2 DEF IInv, Numbered
  <2>2. ASSUME NEW k \in DOMAIN journal' PROVE journal'[k].attempt <= Len(journal')
    <3>1. CASE k \in DOMAIN journal
      BY <2>1, <3>1, JournalGrown DEF IInv, TypeOK
    <3>2. CASE k \notin DOMAIN journal
      <4>1. Len(journal') >= Len(journal) + 1 /\ Len(journal) \in Nat
        BY <3>2, JournalGrown DEF IInv, TypeOK
      <4>2. CASE journal'[k] = line
        <5>1. line.attempt \in Nat /\ line.attempt <= Len(journal) + 1
          BY LineTypes DEF IInv, TypeOK, Numbered
        <5>2. QED
          BY <4>1, <4>2, <5>1, JournalGrown
      <4>3. CASE journal'[k] = Bare("RUN_RETAINED", 0)
        BY <4>1, <4>3, JournalGrown DEF Bare, Record
      <4>4. QED
        BY <3>2, <4>2, <4>3, JournalGrown
    <3>3. QED
      BY <3>1, <3>2
  <2>3. QED
    BY <2>2
<1>4. QED
  BY <1>1, <1>2, <1>3 DEF References, Numbered, LineOK, MemOK

LEMMA StepIInv == IInv /\ [Next]_vars => IInv'
  BY TypeStep, PlaceStep, ReferencesStep, AnswersStep, ConfirmedStep, ReserveStep,
     RetentionStep DEF IInv

(* The inductive invariant holds in every reachable state. *)
THEOREM Invariance == Spec => []IInv
  BY InitIInv, StepIInv, PTL DEF Spec

(* Types: what a process replays from the journal is a state it can go on     *)
(* from, and every file and session it names exists.                          *)
THEOREM TypeCorrect == Spec => []TypeOK
<1>1. IInv => TypeOK
  BY DEF IInv
<1>2. QED
  BY Invariance, <1>1, PTL

(* No ask completes while its session, or what runs under it, is at work,     *)
(* whichever processes it took.                                               *)
THEOREM AnswersAreFinal == Spec => []QuietWhenCompleted
<1>1. IInv => QuietWhenCompleted
  BY DEF IInv, AnswersOver, AnswerOf, OfEnded, QuietWhenCompleted
<1>2. QED
  BY Invariance, <1>1, PTL

(* However a run ends, failed calls and a full store included, its journal    *)
(* verifies: only the death of a process can leave one that does not.         *)
THEOREM Resumable == Spec => []ResumableUnlessKilled
<1>1. IInv => ResumableUnlessKilled
  BY DEF IInv, TypeOK, Confirmed, ResumableUnlessKilled, Readable
<1>2. QED
  BY Invariance, <1>1, PTL

(* The reserve is enough for any limit: a retention that is not written       *)
(* follows one that was.                                                      *)
THEOREM RetentionsKept == Spec => []RetentionJournaled
<1>1. IInv => RetentionJournaled
  BY DEF IInv
<1>2. QED
  BY Invariance, <1>1, PTL

------------------------------------------------------------------------------
(* What a journal may say next.                                            *)

\* Step s has ended, or need not be run, in the first n records of j.
EndedBy(j, n, s) == \E i \in 1 .. n : Ends(j[i], s)
PassedBy(j, n, s) == \E i \in 1 .. n : Passes(j[i], s)

Naming == {"STEP_COMPLETED", "GATE_REJECTED", "STEP_FAILED", "ASK_SKIPPED"}

\* A journal begins with its plan, and a record names a step and an observation
\* that exist.
MayName(n, o, e) ==
  /\ n = 0 => e.kind = "PLAN_LOADED"
  /\ e.kind \in StepKinds => e.step \in Steps
  /\ e.kind \in Naming => e.obs \in DOMAIN o

\* Nothing is said of a step that has ended, and a step opens when those before
\* it are over.
MayRun(j, n, e) ==
  /\ e.kind \in Naming \union {"STEP_STARTED"} => ~EndedBy(j, n, e.step)
  /\ Opens(e) => \A s \in Steps : s < e.step => PassedBy(j, n, s)
  /\ e.kind = "RUN_COMPLETED" => \A s \in Steps : PassedBy(j, n, s)

\* A gate fails on a rejection.
MayFail(j, n, e) ==
  e.kind = "STEP_FAILED" =>
    /\ Plan[e.step].type = "gate"
    /\ \E i \in 1 .. n : j[i].kind = "GATE_REJECTED" /\ j[i].step = e.step /\ j[i].obs = e.obs

\* A step completes against what earlier steps ended with.
MayComplete(j, n, e) ==
  e.kind = "STEP_COMPLETED" =>
    /\ \A d \in e.deps : /\ d[1] \in Steps /\ d[1] < e.step
                         /\ \E i \in 1 .. n : Ends(j[i], d[1]) /\ j[i].obs = d[2]
    /\ Plan[e.step].type = "join" =>
         /\ {d[1] : d \in e.deps} = Plan[e.step].depends
         /\ \A d \in e.deps : \E i \in 1 .. n : j[i].kind = "STEP_COMPLETED" /\ j[i].step = d[1]
    /\ Plan[e.step].from # 0 => \A d \in e.deps : d[1] = Plan[e.step].from

\* A conditional ask is put, or skipped, on the verdict of the step it depends on.
Based(j, n, o, e, results) ==
  \E i \in 1 .. n : /\ Ends(j[i], Plan[e.step].from) /\ j[i].obs \in DOMAIN o
                    /\ o[j[i].obs].result \in results
                    /\ e.kind = "ASK_SKIPPED" => e.obs = j[i].obs
MayAsk(j, n, o, e) ==
  /\ e.kind \in {"STEP_STARTED", "STEP_COMPLETED"} /\ Plan[e.step].from # 0 =>
       Based(j, n, o, e, {"none", "equal"})
  /\ e.kind = "ASK_SKIPPED" => Plan[e.step].from # 0 /\ Based(j, n, o, e, {"none", "other"})

May(j, n, o, e) ==
  MayName(n, o, e) /\ MayRun(j, n, e) /\ MayFail(j, n, e) /\ MayComplete(j, n, e) /\ MayAsk(j, n, o, e)

Sound(j, o) == \A k \in DOMAIN j : May(j, k - 1, o, j[k])

\* It depends on no more than that.
LEMMA MayExt ==
  ASSUME NEW j, NEW k, NEW n, NEW o, NEW p, NEW e, \A i \in 1 .. n : k[i] = j[i],
         DOMAIN o \subseteq DOMAIN p, \A x \in DOMAIN o : p[x] = o[x], May(j, n, o, e)
  PROVE  May(k, n, p, e)
<1>1. MayName(n, p, e)
  BY DEF May, MayName
<1>2. \A s : EndedBy(k, n, s) <=> EndedBy(j, n, s)
  BY DEF EndedBy
<1>3. \A s : PassedBy(k, n, s) <=> PassedBy(j, n, s)
  BY DEF PassedBy
<1>4. MayRun(k, n, e)
  BY <1>2, <1>3 DEF May, MayRun
<1>5. MayFail(k, n, e)
  BY DEF May, MayFail
<1>6. MayComplete(k, n, e)
  BY DEF May, MayComplete
<1>7. ASSUME NEW results, Based(j, n, o, e, results) PROVE Based(k, n, p, e, results)
  BY <1>7 DEF Based
<1>8. MayAsk(k, n, p, e)
  BY <1>7 DEF May, MayAsk
<1>9. QED
  BY <1>1, <1>4, <1>5, <1>6, <1>8 DEF May

\* A journal that only said what it may goes on doing so.
LEMMA SoundAppend ==
  ASSUME NEW j \in Seq(RecordType), NEW e \in RecordType, NEW o, Sound(j, o), May(j, Len(j), o, e)
  PROVE  Sound(Append(j, e), o)
<1> DEFINE k == Append(j, e)
<1>1. /\ Len(j) \in Nat /\ DOMAIN j = 1 .. Len(j) /\ DOMAIN k = 1 .. (Len(j) + 1)
      /\ k[Len(j) + 1] = e /\ \A i \in 1 .. Len(j) : k[i] = j[i]
  OBVIOUS
<1> HIDE DEF k
<1>2. ASSUME NEW i \in 1 .. Len(j) PROVE May(k, i - 1, o, k[i])
  <2>1. May(j, i - 1, o, j[i])
    BY <1>1 DEF Sound
  <2>2. \A m \in 1 .. (i - 1) : k[m] = j[m]
    BY <1>1
  <2>3. QED
    BY <1>1, <2>1, <2>2, MayExt
<1>3. May(k, (Len(j) + 1) - 1, o, k[Len(j) + 1])
  BY <1>1, MayExt
<1>4. QED
  BY <1>1, <1>2, <1>3 DEF Sound, k

LEMMA SoundGrows ==
  ASSUME NEW j, NEW o, NEW p, DOMAIN o \subseteq DOMAIN p, \A x \in DOMAIN o : p[x] = o[x],
         Sound(j, o)
  PROVE  Sound(j, p)
  BY MayExt DEF Sound

------------------------------------------------------------------------------
(* What a journal that only says what it may stands for.                   *)

\* The maxima of the positions and attempts a journal has.
LEMMA MaxOfNone == Max({0} \union {}) = 0
<1>1. {0} \union {} \in SUBSET Nat /\ \A x \in {0} \union {} : x <= 0
  OBVIOUS
<1>2. QED
  BY <1>1, MaxOf

LEMMA MaxOfOne ==
  ASSUME NEW i \in Nat
  PROVE  Max({0} \union {i}) = i
<1>1. {0} \union {i} \in SUBSET Nat /\ (\A x \in {0} \union {i} : x <= i) /\ {0} \union {i} # {}
  OBVIOUS
<1>2. Max({0} \union {i}) \in {0} \union {i} /\ Max({0} \union {i}) >= i
  BY <1>1, MaxOf
<1>3. QED
  BY <1>2

\* A step ends once.
LEMMA EndsOnce ==
  ASSUME NEW j \in Seq(RecordType), NEW o, Sound(j, o), NEW s,
         NEW i \in DOMAIN j, NEW k \in DOMAIN j, Ends(j[i], s), Ends(j[k], s)
  PROVE  i = k
<1>1. DOMAIN j = 1 .. Len(j) /\ Len(j) \in Nat
  OBVIOUS
<1>2. ASSUME NEW a \in DOMAIN j, NEW b \in DOMAIN j, Ends(j[a], s), Ends(j[b], s), a < b
      PROVE  FALSE
  <2>1. a \in 1 .. (b - 1)
    BY <1>1, <1>2
  <2>2. ~EndedBy(j, b - 1, s)
    BY <1>2 DEF Sound, May, MayRun, Ends, Naming
  <2>3. QED
    BY <1>2, <2>1, <2>2 DEF EndedBy
<1>3. QED
  BY <1>1, <1>2

\* So a step that has ended has the observation of its end.
LEMMA Resolve ==
  ASSUME NEW j \in Seq(RecordType), NEW o \in Seq(ObsType), Sound(j, o), NEW s,
         NEW i \in DOMAIN j, Ends(j[i], s)
  PROVE  /\ j[i].kind = "STEP_COMPLETED" =>
              CompletedAt(j, s) = i /\ FailedAt(j, s) = 0 /\ Done(j, s) = j[i].obs /\ Failed(j, s) = 0
         /\ j[i].kind # "STEP_COMPLETED" =>
              /\ CompletedAt(j, s) = 0 /\ FailedAt(j, s) = i /\ Done(j, s) = 0
              /\ Failed(j, s) = j[i].obs /\ Plan[s].action = "continue" /\ Plan[s].type = "gate"
         /\ j[i].obs # 0 /\ j[i].obs \in DOMAIN o
<1> DEFINE C == {k \in DOMAIN j : j[k].kind = "STEP_COMPLETED" /\ j[k].step = s}
           F == {k \in DOMAIN j : j[k].kind = "STEP_FAILED" /\ j[k].step = s /\ Plan[s].action = "continue"}
<1>1. DOMAIN j = 1 .. Len(j) /\ Len(j) \in Nat /\ i \in Nat /\ i > 0
  OBVIOUS
<1>2. \A k \in DOMAIN j : Ends(j[k], s) => k = i
  BY EndsOnce
<1>3. CompletedAt(j, s) = Max({0} \union C) /\ FailedAt(j, s) = Max({0} \union F)
  BY DEF CompletedAt, FailedAt, LastOf
<1>4. j[i].obs # 0 /\ j[i].obs \in DOMAIN o
  <2>1. j[i].obs \in DOMAIN o
    BY DEF Sound, May, MayName, Ends, Naming
  <2>2. QED
    BY <2>1
<1>5. CASE j[i].kind = "STEP_COMPLETED"
  <2>1. C = {i} /\ F = {}
    BY <1>2, <1>5 DEF Ends
  <2>2. CompletedAt(j, s) = i /\ FailedAt(j, s) = 0
    BY <1>1, <1>3, <2>1, MaxOfOne, MaxOfNone
  <2>3. QED
    BY <1>1, <1>4, <1>5, <2>2 DEF Done, Failed
<1>6. CASE j[i].kind # "STEP_COMPLETED"
  <2>1. C = {} /\ F = {i} /\ j[i].kind = "STEP_FAILED" /\ j[i].step = s /\ Plan[s].action = "continue"
    BY <1>2, <1>6 DEF Ends
  <2>2. CompletedAt(j, s) = 0 /\ FailedAt(j, s) = i
    BY <1>1, <1>3, <2>1, MaxOfOne, MaxOfNone
  <2>3. /\ \E k \in DOMAIN j : j[k].kind = "GATE_REJECTED" /\ j[k].step = s /\ j[k].obs = j[i].obs
        /\ Plan[s].type = "gate"
    <3>1. MayFail(j, i - 1, j[i])
      BY DEF Sound, May
    <3>2. \A k \in 1 .. (i - 1) : k \in DOMAIN j
      BY <1>1
    <3>3. QED
      BY <2>1, <3>1, <3>2 DEF MayFail
  <2>4. Failed(j, s) = j[i].obs
    BY <1>1, <2>2, <2>3 DEF Failed
  <2>5. Done(j, s) = 0
    BY <1>1, <2>2 DEF Done
  <2>6. QED
    BY <1>4, <1>6, <2>1, <2>2, <2>3, <2>4, <2>5
<1>7. QED
  BY <1>5, <1>6

\* And one that has not has none.
LEMMA Unresolved ==
  ASSUME NEW j \in Seq(RecordType), NEW s, ~EndedBy(j, Len(j), s)
  PROVE  CompletedAt(j, s) = 0 /\ FailedAt(j, s) = 0 /\ Done(j, s) = 0 /\ Failed(j, s) = 0
<1> DEFINE C == {k \in DOMAIN j : j[k].kind = "STEP_COMPLETED" /\ j[k].step = s}
           F == {k \in DOMAIN j : j[k].kind = "STEP_FAILED" /\ j[k].step = s /\ Plan[s].action = "continue"}
<1>1. DOMAIN j = 1 .. Len(j)
  OBVIOUS
<1>2. C = {} /\ F = {}
  BY <1>1 DEF EndedBy, Ends
<1>3. CompletedAt(j, s) = Max({0} \union C) /\ FailedAt(j, s) = Max({0} \union F)
  BY DEF CompletedAt, FailedAt, LastOf
<1>4. CompletedAt(j, s) = 0 /\ FailedAt(j, s) = 0
  BY <1>2, <1>3, MaxOfNone
<1>5. QED
  BY <1>4 DEF Done, Failed

\* Whatever completed still rests on what its dependencies ended with: the
\* revalidation of a replay takes nothing away.
LEMMA VerifiedIsDone ==
  ASSUME NEW j \in Seq(RecordType), NEW o \in Seq(ObsType), Sound(j, o), NEW s \in Steps
  PROVE  Verified(j, s) = Done(j, s)
<1> DEFINE Holds(h, t) ==
             /\ Done(j, t) # 0
             /\ \A d \in j[CompletedAt(j, t)].deps :
                  d[2] = IF h[d[1]] THEN Done(j, d[1]) ELSE Failed(j, d[1])
           done == [t \in Steps |-> Done(j, t) # 0]
<1>1. Steps \subseteq Nat
  BY Constants
<1>2. ASSUME NEW t \in Steps, Done(j, t) # 0, NEW d \in j[CompletedAt(j, t)].deps
      PROVE  /\ d[1] \in Steps /\ d[1] < t
             /\ d[2] = IF Done(j, d[1]) # 0 THEN Done(j, d[1]) ELSE Failed(j, d[1])
  <2>1. PICK i \in DOMAIN j : Ends(j[i], t)
    BY <1>2, Unresolved DEF EndedBy
  <2>2. j[i].kind = "STEP_COMPLETED" /\ CompletedAt(j, t) = i /\ j[i].step = t
    BY <1>2, <2>1, Resolve DEF Ends
  <2>3. MayComplete(j, i - 1, j[i])
    BY DEF Sound, May
  <2>4. /\ d[1] \in Steps /\ d[1] < t
        /\ \E k \in 1 .. (i - 1) : Ends(j[k], d[1]) /\ j[k].obs = d[2]
    BY <1>2, <2>2, <2>3 DEF MayComplete
  <2>5. \A k \in 1 .. (i - 1) : k \in DOMAIN j
    OBVIOUS
  <2>6. PICK k \in DOMAIN j : Ends(j[k], d[1]) /\ j[k].obs = d[2]
    BY <2>4, <2>5
  <2>7. QED
    BY <2>4, <2>6, Resolve
<1>3. \A t \in Steps : Holds(done, t) <=> Done(j, t) # 0
  BY <1>2
<1>4. ASSUME NEW h, h = [t \in Steps |-> Holds(h, t)]
      PROVE  h = done
  <2> DEFINE Bad == {t \in Steps : h[t] # done[t]}
  <2>1. \A t \in Steps : h[t] = Holds(h, t)
    BY <1>4
  <2>2. ASSUME Bad # {} PROVE FALSE
    <3>1. Bad \in SUBSET Nat
      BY <1>1
    <3>2. PICK t \in Bad : \A u \in Bad : t <= u
      BY <2>2, <3>1, Least
    <3>3. t \in Steps /\ \A u \in Steps : u < t => h[u] = done[u]
      BY <1>1, <3>2
    <3>4. Holds(h, t) <=> Done(j, t) # 0
      BY <1>2, <3>3
    <3>5. QED
      BY <2>1, <3>2, <3>3, <3>4
  <2>3. \A t \in Steps : h[t] = done[t]
    BY <2>2
  <2>4. QED
    BY <1>4, <2>3
<1>5. done = [t \in Steps |-> Holds(done, t)]
  BY <1>3
<1>6. (CHOOSE h : h = [t \in Steps |-> Holds(h, t)]) = done
  <2> HIDE DEF done, Holds
  <2>1. QED
    BY <1>4, <1>5
<1>7. Verified(j, s) = IF done[s] THEN Done(j, s) ELSE 0
  BY <1>6 DEF Verified
<1>8. QED
  BY <1>7

------------------------------------------------------------------------------
(* What one more record changes in what a journal stands for.              *)

SkippedObs(j, s) == IF SkippedAt(j, s) = 0 THEN 0 ELSE j[SkippedAt(j, s)].obs
PhaseOf(j) == IF PhaseAt(j) = 0 THEN 0 ELSE j[PhaseAt(j)].step
PhasesOf(j) == {j[i].step : i \in {k \in DOMAIN j : j[k].kind = "PHASE_STARTED"}}

LEMMA MaxIs ==
  ASSUME NEW S \in SUBSET Nat, NEW n \in S, \A x \in S : x <= n
  PROVE  Max(S) = n
<1>1. n \in Nat /\ S # {}
  OBVIOUS
<1>2. Max(S) \in S /\ Max(S) >= n
  BY <1>1, MaxOf
<1> DEFINE m == Max(S)
<1>3. m \in Nat /\ m <= n /\ m >= n
  BY <1>2
<1> HIDE DEF m
<1>4. m = n
  BY <1>1, <1>3
<1>5. QED
  BY <1>4 DEF m

LEMMA MaxAdd ==
  ASSUME NEW S \in SUBSET Nat, NEW n \in Nat, \A x \in S : x <= n
  PROVE  Max(S \union {n}) = n
<1> DEFINE T == S \union {n}
<1>1. T \in SUBSET Nat /\ n \in T /\ \A x \in T : x <= n
  OBVIOUS
<1> HIDE DEF T
<1>2. Max(T) = n
  BY <1>1, MaxIs
<1>3. QED
  BY <1>2 DEF T

LEMMA LastAppend ==
  ASSUME NEW n \in Nat, NEW S \in SUBSET (1 .. n)
  PROVE  Max({0} \union (S \union {n + 1})) = n + 1
<1> DEFINE T == {0} \union (S \union {n + 1})
<1>1. T \in SUBSET Nat /\ n + 1 \in T /\ \A x \in T : x <= n + 1
  OBVIOUS
<1> HIDE DEF T
<1>2. Max(T) = n + 1
  BY <1>1, MaxIs
<1>3. QED
  BY <1>2 DEF T

\* Only the end of a step changes what the journal says it ended with.
LEMMA AppendEnd ==
  ASSUME NEW j \in Seq(RecordType), NEW e \in RecordType, NEW o \in Seq(ObsType), Sound(j, o),
         May(j, Len(j), o, e), NEW s
  PROVE  LET k == Append(j, e)
         IN  /\ Done(k, s) = IF e.kind = "STEP_COMPLETED" /\ e.step = s THEN e.obs ELSE Done(j, s)
             /\ Failed(k, s) = IF e.kind = "STEP_FAILED" /\ e.step = s /\ Plan[s].action = "continue"
                               THEN e.obs ELSE Failed(j, s)
<1> DEFINE k == Append(j, e)
<1>1. /\ Len(j) \in Nat /\ DOMAIN j = 1 .. Len(j) /\ DOMAIN k = 1 .. (Len(j) + 1)
      /\ k[Len(j) + 1] = e /\ \A i \in 1 .. Len(j) : k[i] = j[i]
      /\ k \in Seq(RecordType) /\ Len(k) = Len(j) + 1
  OBVIOUS
<1>2. Sound(k, o)
  BY SoundAppend
<1> HIDE DEF k
<1>3. CASE Ends(e, s)
  <2>1. ~EndedBy(j, Len(j), s)
    BY <1>3 DEF May, MayRun, Naming, Ends
  <2>2. Done(j, s) = 0 /\ Failed(j, s) = 0
    BY <2>1, Unresolved
  <2>3. Len(j) + 1 \in DOMAIN k /\ Ends(k[Len(j) + 1], s)
    BY <1>1, <1>3
  <2>4. /\ e.kind = "STEP_COMPLETED" => Done(k, s) = e.obs /\ Failed(k, s) = 0
        /\ e.kind # "STEP_COMPLETED" => Done(k, s) = 0 /\ Failed(k, s) = e.obs
    BY <1>1, <1>2, <2>3, Resolve
  <2>5. QED
    BY <1>3, <2>2, <2>4 DEF k, Ends
<1>4. CASE ~Ends(e, s) /\ EndedBy(j, Len(j), s)
  <2>1. PICK i \in DOMAIN j : Ends(j[i], s)
    BY <1>1, <1>4 DEF EndedBy
  <2>2. i \in DOMAIN k /\ k[i] = j[i] /\ Ends(k[i], s)
    BY <1>1, <2>1
  <2>3. Done(k, s) = Done(j, s) /\ Failed(k, s) = Failed(j, s)
    <3>1. CASE j[i].kind = "STEP_COMPLETED"
      BY <1>1, <1>2, <2>1, <2>2, <3>1, Resolve
    <3>2. CASE j[i].kind # "STEP_COMPLETED"
      BY <1>1, <1>2, <2>1, <2>2, <3>2, Resolve
    <3>3. QED
      BY <3>1, <3>2
  <2>4. QED
    BY <1>4, <2>3 DEF k, Ends
<1>5. CASE ~Ends(e, s) /\ ~EndedBy(j, Len(j), s)
  <2>1. ~EndedBy(k, Len(k), s)
    BY <1>1, <1>5 DEF EndedBy
  <2>2. Done(k, s) = Done(j, s) /\ Failed(k, s) = Failed(j, s)
    BY <1>1, <1>5, <2>1, Unresolved
  <2>3. QED
    BY <1>5, <2>2 DEF k, Ends
<1>6. QED
  BY <1>3, <1>4, <1>5

\* Only a skip changes what an ask was skipped on.
LEMMA AppendSkip ==
  ASSUME NEW j \in Seq(RecordType), NEW e \in RecordType, NEW s
  PROVE  SkippedObs(Append(j, e), s) =
           IF e.kind = "ASK_SKIPPED" /\ e.step = s THEN e.obs ELSE SkippedObs(j, s)
<1> DEFINE k == Append(j, e)
           S == {i \in DOMAIN j : j[i].kind = "ASK_SKIPPED" /\ j[i].step = s}
           T == {i \in DOMAIN k : k[i].kind = "ASK_SKIPPED" /\ k[i].step = s}
<1>1. /\ Len(j) \in Nat /\ DOMAIN j = 1 .. Len(j) /\ DOMAIN k = 1 .. (Len(j) + 1)
      /\ k[Len(j) + 1] = e /\ \A i \in 1 .. Len(j) : k[i] = j[i]
  OBVIOUS
<1>2. SkippedAt(j, s) = Max({0} \union S) /\ SkippedAt(k, s) = Max({0} \union T)
  BY DEF SkippedAt, LastOf
<1>3. SkippedAt(j, s) \in 0 .. Len(j)
  BY LastIn
<1>4. CASE e.kind = "ASK_SKIPPED" /\ e.step = s
  <2>1. T = S \union {Len(j) + 1} /\ S \in SUBSET (1 .. Len(j))
    BY <1>1, <1>4
  <2>2. SkippedAt(k, s) = Len(j) + 1
    BY <1>1, <1>2, <2>1, LastAppend
  <2>3. QED
    BY <1>1, <1>4, <2>2 DEF SkippedObs
<1>5. CASE ~(e.kind = "ASK_SKIPPED" /\ e.step = s)
  <2>1. T = S
    BY <1>1, <1>5
  <2>2. SkippedAt(k, s) = SkippedAt(j, s)
    BY <1>2, <2>1
  <2>3. QED
    BY <1>1, <1>3, <1>5, <2>2 DEF SkippedObs
<1>6. QED
  BY <1>4, <1>5

\* Only a start changes the attempts, and it counts one more.
LEMMA AppendAttempt ==
  ASSUME NEW j \in Seq(RecordType), NEW e \in RecordType, NEW s,
         \A i \in DOMAIN j : j[i].attempt <= Len(j),
         e.kind = "STEP_STARTED" /\ e.step = s => e.attempt > Attempts(j, s)
  PROVE  Attempts(Append(j, e), s) =
           IF e.kind = "STEP_STARTED" /\ e.step = s THEN e.attempt ELSE Attempts(j, s)
<1> DEFINE k == Append(j, e)
           S == {i \in DOMAIN j : j[i].kind = "STEP_STARTED" /\ j[i].step = s}
           T == {i \in DOMAIN k : k[i].kind = "STEP_STARTED" /\ k[i].step = s}
           A == {0} \union {j[i].attempt : i \in S}
           B == {0} \union {k[i].attempt : i \in T}
<1>1. /\ Len(j) \in Nat /\ DOMAIN j = 1 .. Len(j) /\ DOMAIN k = 1 .. (Len(j) + 1)
      /\ k[Len(j) + 1] = e /\ \A i \in 1 .. Len(j) : k[i] = j[i]
  OBVIOUS
<1>2. Attempts(j, s) = Max(A) /\ Attempts(k, s) = Max(B)
  BY DEF Attempts
<1>3. A \in SUBSET Nat /\ \A x \in A : x <= Len(j)
  <2>1. \A i \in DOMAIN j : j[i].attempt \in Nat
    BY <1>1, LineTypes
  <2>2. \A x \in A : x = 0 \/ \E i \in DOMAIN j : x = j[i].attempt
    OBVIOUS
  <2> HIDE DEF A
  <2>3. \A x \in A : x \in Nat /\ x <= Len(j)
    BY <1>1, <2>1, <2>2
  <2>4. QED
    BY <2>3
<1>4. \A x \in A : Max(A) >= x
  BY <1>1, <1>3, MaxOf
<1>5. CASE e.kind = "STEP_STARTED" /\ e.step = s
  <2>1. T = S \union {Len(j) + 1}
    BY <1>1, <1>5
  <2>2. {k[i].attempt : i \in T} = {j[i].attempt : i \in S} \union {e.attempt}
    BY <1>1, <2>1
  <2>3. B = A \union {e.attempt} /\ e.attempt \in Nat
    BY <2>2, LineTypes
  <2>4. \A x \in A : x <= e.attempt
    <3>1. Max(A) \in A
      BY <1>1, <1>3, MaxOf
    <3>2. QED
      BY <1>2, <1>3, <1>4, <1>5, <2>3, <3>1
  <2>5. Max(B) = e.attempt
    <3> HIDE DEF A, B
    <3>1. Max(A \union {e.attempt}) = e.attempt
      BY <1>3, <2>3, <2>4, MaxAdd
    <3>2. QED
      BY <2>3, <3>1
  <2>6. QED
    BY <1>2, <1>5, <2>5
<1>6. CASE ~(e.kind = "STEP_STARTED" /\ e.step = s)
  <2>1. T = S
    BY <1>1, <1>6
  <2>2. {k[i].attempt : i \in T} = {j[i].attempt : i \in S}
    BY <1>1, <2>1
  <2>3. QED
    BY <1>2, <1>6, <2>2
<1>7. QED
  BY <1>5, <1>6

\* A phase starts the count of rejections again.
LEMMA AppendPhase ==
  ASSUME NEW j \in Seq(RecordType), NEW e \in RecordType
  PROVE  LET k == Append(j, e)
         IN  /\ PhaseAt(k) = IF e.kind = "PHASE_STARTED" THEN Len(j) + 1 ELSE PhaseAt(j)
             /\ PhaseOf(k) = IF e.kind = "PHASE_STARTED" THEN e.step ELSE PhaseOf(j)
             /\ PhasesOf(k) = IF e.kind = "PHASE_STARTED" THEN PhasesOf(j) \union {e.step}
                              ELSE PhasesOf(j)
             /\ PhaseCount(k) =
                  IF e.kind = "PHASE_STARTED" \/ PhaseAt(j) = 0 THEN 0
                  ELSE IF e.kind = "GATE_REJECTED" THEN PhaseCount(j) + 1 ELSE PhaseCount(j)
<1> DEFINE k == Append(j, e)
           S == {i \in DOMAIN j : j[i].kind = "PHASE_STARTED"}
           T == {i \in DOMAIN k : k[i].kind = "PHASE_STARTED"}
           R(l) == {i \in DOMAIN l : i > PhaseAt(l) /\ l[i].kind = "GATE_REJECTED"}
<1>1. /\ Len(j) \in Nat /\ DOMAIN j = 1 .. Len(j) /\ DOMAIN k = 1 .. (Len(j) + 1)
      /\ k[Len(j) + 1] = e /\ \A i \in 1 .. Len(j) : k[i] = j[i]
  OBVIOUS
<1>2. PhaseAt(j) = Max({0} \union S) /\ PhaseAt(k) = Max({0} \union T)
  BY DEF PhaseAt, LastOf
<1>3. PhaseAt(j) \in 0 .. Len(j)
  BY LastIn
<1>4. PhaseCount(k) = IF PhaseAt(k) = 0 THEN 0 ELSE Cardinality(R(k))
  BY DEF PhaseCount
<1>5. PhaseCount(j) = IF PhaseAt(j) = 0 THEN 0 ELSE Cardinality(R(j))
  BY DEF PhaseCount
<1> HIDE DEF k
<1>6. CASE e.kind = "PHASE_STARTED"
  <2>1. T = S \union {Len(j) + 1} /\ S \in SUBSET (1 .. Len(j))
    BY <1>1, <1>6
  <2>2. PhaseAt(k) = Len(j) + 1
    BY <1>1, <1>2, <2>1, LastAppend
  <2>3. PhaseOf(k) = e.step
    BY <1>1, <2>2 DEF PhaseOf
  <2>4. PhasesOf(k) = PhasesOf(j) \union {e.step}
    BY <1>1, <2>1 DEF PhasesOf
  <2>5. R(k) = {}
    BY <1>1, <2>2
  <2>6. PhaseCount(k) = 0
    BY <1>4, <2>5, FS_EmptySet
  <2>7. QED
    BY <1>6, <2>2, <2>3, <2>4, <2>6 DEF k
<1>7. CASE e.kind # "PHASE_STARTED"
  <2>1. T = S
    BY <1>1, <1>7
  <2>2. PhaseAt(k) = PhaseAt(j)
    BY <1>2, <2>1
  <2>3. PhaseOf(k) = PhaseOf(j)
    BY <1>1, <1>3, <2>2 DEF PhaseOf
  <2>4. PhasesOf(k) = PhasesOf(j)
    BY <1>1, <2>1 DEF PhasesOf
  <2>5. IsFiniteSet(R(j))
    <3>1. IsFiniteSet(1 .. Len(j)) /\ R(j) \in SUBSET (1 .. Len(j))
      BY <1>1, FS_Interval
    <3>2. QED
      BY <3>1, FS_Subset
  <2>6. PhaseCount(k) = IF PhaseAt(j) = 0 THEN 0
                        ELSE IF e.kind = "GATE_REJECTED" THEN PhaseCount(j) + 1 ELSE PhaseCount(j)
    <3>1. CASE e.kind = "GATE_REJECTED"
      <4>1. R(k) = R(j) \union {Len(j) + 1} /\ Len(j) + 1 \notin R(j)
        BY <1>1, <1>3, <2>2, <3>1
      <4>2. Cardinality(R(k)) = Cardinality(R(j)) + 1
        <5> HIDE DEF R
        <5>1. QED
          BY <2>5, <4>1, FS_AddElement
      <4>3. QED
        BY <1>4, <1>5, <2>2, <3>1, <4>2
    <3>2. CASE e.kind # "GATE_REJECTED"
      <4>1. R(k) = R(j)
        BY <1>1, <1>3, <2>2, <3>2
      <4>2. QED
        BY <1>4, <1>5, <2>2, <3>2, <4>1
    <3>3. QED
      BY <3>1, <3>2
  <2>7. QED
    BY <1>7, <2>2, <2>3, <2>4, <2>6 DEF k
<1>8. QED
  BY <1>6, <1>7

------------------------------------------------------------------------------
(* The history invariant: the journal, what memory holds of it, and where  *)
(* the process is.                                                         *)

\* The state m is what j stands for; the state a process reopens asks from is
\* left out.
Stands(m, j) ==
  /\ \A s \in Steps : /\ m.completed[s] = Done(j, s) /\ m.failed[s] = Failed(j, s)
                      /\ m.skipped[s] = SkippedObs(j, s) /\ m.attempts[s] = Attempts(j, s)
  /\ m.phase = PhaseOf(j) /\ m.count = PhaseCount(j) /\ m.phases = PhasesOf(j)

Opened(j, s) == \E i \in DOMAIN j : j[i].kind = "STEP_STARTED" /\ j[i].step = s

\* What is appended next may be said, and memory stands for what was.
LineMay == pc = "record" => May(journal, Len(journal), obs, line)
MemoryStands == pc # "idle" => Stands(mem, journal)
Blank == /\ pc = "idle" => mem = EmptyState /\ failures = 0
         /\ dir = "absent" => journal = <<>>
LineFits ==
  pc = "record" =>
    /\ line.kind = "PLAN_LOADED" => journal = <<>>
    /\ line.kind = "STEP_STARTED" => line.attempt = mem.attempts[step] + 1
                                     /\ mem.pending[step].status = "none"

\* The process is past what has passed, and at a step that is open.
Passed == \A s \in Steps : s < step => PassedBy(journal, Len(journal), s)
AtWork == {"gate", "again", "join"} \union AskLabels
InHand ==
  /\ pc \in AtWork => ~EndedBy(journal, Len(journal), step)
  /\ pc \in {"gate", "join"} \union AskLabels => Opened(journal, step)
  /\ pc = "ask" => mem.pending[step].status = "none"
  /\ \A s \in Steps : mem.pending[s].status # "none" =>
       Plan[s].type = "ask" /\ Opened(journal, s)

\* The process is past the step of every session there is, or goes on with it.
Holding == {"dispatch", "send", "poll", "answer", "retain"}
GoesOn == pc \in Holding \/ (pc = "record" /\ line.kind = "STEP_COMPLETED")
Reached(s) == \/ s < step \/ mem.completed[s] # 0 \/ mem.pending[s].status # "none"
              \/ s = step /\ GoesOn
Known ==
  /\ \A n \in DOMAIN sessions :
       Plan[sessions[n].step].type = "ask" /\ Opened(journal, sessions[n].step)
  /\ pc # "idle" => \A n \in DOMAIN sessions : Reached(sessions[n].step)
  /\ \A n \in DOMAIN obs : obs[n].status = "failed" => obs[n].session = 0

Budget == failures > 0 /\ pc # "retain" => ~OverCap(mem)

History ==
  /\ IInv /\ Sound(journal, obs) /\ LineMay /\ MemoryStands /\ Blank /\ LineFits /\ Passed
  /\ InHand /\ Known /\ NeverRedispatched /\ Budget

\* A session keeps its step; a new one is of the ask in hand.
LEMMA SessionsKept ==
  ASSUME IInv, [Next]_vars
  PROVE  /\ \A n \in DOMAIN sessions : n \in DOMAIN sessions' /\ sessions'[n].step = sessions[n].step
         /\ \A n \in DOMAIN sessions' : n \notin DOMAIN sessions =>
              /\ pc = "ask" /\ pc' = "dispatch" /\ step' = step
              /\ sessions'[n].step = step /\ n = Len(sessions) + 1
<1>1. sessions \in Seq(SessionType) /\ Len(sessions) \in Nat /\ DOMAIN sessions = 1 .. Len(sessions)
  BY DEF IInv, TypeOK
<1>2. CASE sessions' = sessions
  BY <1>2
<1>3. ASSUME pc = "ask", pc' = "dispatch", step' = step,
             NEW ses \in SessionType, ses.step = step, sessions' = Append(sessions, ses)
      PROVE  /\ \A n \in DOMAIN sessions : n \in DOMAIN sessions' /\ sessions'[n].step = sessions[n].step
             /\ \A n \in DOMAIN sessions' : n \notin DOMAIN sessions =>
                  /\ pc = "ask" /\ pc' = "dispatch" /\ step' = step
                  /\ sessions'[n].step = step /\ n = Len(sessions) + 1
  <2>1. /\ DOMAIN sessions' = 1 .. (Len(sessions) + 1) /\ sessions'[Len(sessions) + 1] = ses
        /\ \A n \in DOMAIN sessions : sessions'[n] = sessions[n]
    BY <1>1, <1>3
  <2>2. QED
    BY <1>1, <1>3, <2>1
<1>4. ASSUME NEW n \in DOMAIN sessions, NEW ses \in SessionType, ses.step = sessions[n].step,
             sessions' = [sessions EXCEPT ![n] = ses]
      PROVE  DOMAIN sessions' = DOMAIN sessions
             /\ \A m \in DOMAIN sessions : sessions'[m].step = sessions[m].step
  BY <1>1, <1>4
<1>5. QED
  BY <1>2, <1>3, <1>4, SessionShape DEF SessionsGo

\* Every step of the system keeps the journal to what it may say.
LEMMA SoundStep == History /\ [Next]_vars => Sound(journal', obs')
<1> SUFFICES ASSUME History, [Next]_vars PROVE Sound(journal', obs')
  OBVIOUS
<1>1. journal \in Seq(RecordType) /\ line \in RecordType /\ Len(journal) \in Nat
  BY DEF History, IInv, TypeOK
<1>2. DOMAIN obs \subseteq DOMAIN obs' /\ \A x \in DOMAIN obs : obs'[x] = obs[x]
  BY ObsGrown DEF History
<1>3. Sound(journal, obs')
  BY <1>2, SoundGrows DEF History
<1>4. CASE pc = "record" /\ journal' = Append(journal, line)
  <2>1. May(journal, Len(journal), obs, line)
    BY <1>4 DEF History, LineMay
  <2>2. May(journal, Len(journal), obs', line)
    BY <1>2, <2>1, MayExt
  <2>3. Sound(Append(journal, line), obs')
    BY <1>1, <1>3, <2>2, SoundAppend
  <2>4. QED
    BY <1>4, <2>3
<1>5. CASE pc = "retain" /\ journal' = Append(journal, Bare("RUN_RETAINED", 0))
  <2> DEFINE e == Bare("RUN_RETAINED", 0)
  <2>1. e \in RecordType /\ e.kind = "RUN_RETAINED"
    BY DEF Bare, Record, RecordType, Kinds
  <2>2. Len(journal) # 0
    BY <1>1, <1>5 DEF History, IInv, Confirmed
  <2> HIDE DEF e
  <2>3. May(journal, Len(journal), obs', e)
    BY <2>1, <2>2 DEF May, MayName, MayRun, MayFail, MayComplete, MayAsk, StepKinds, Naming, Opens
  <2>4. Sound(Append(journal, e), obs')
    BY <1>1, <1>3, <2>1, <2>3, SoundAppend
  <2>5. QED
    BY <1>5, <2>4 DEF e
<1>6. QED
  BY <1>3, <1>4, <1>5, JournalShape DEF History, JournalGrows

\* A session is created only for an ask that has none.
LEMMA NeverStep == History /\ [Next]_vars => NeverRedispatched'
<1> SUFFICES ASSUME History, [Next]_vars PROVE NeverRedispatched'
  OBVIOUS
<1>1. IInv /\ NeverRedispatched
  BY DEF History
<1>2. ASSUME NEW m \in DOMAIN sessions, pc = "ask" PROVE sessions[m].step # step
  <2>1. ~EndedBy(journal, Len(journal), step) /\ mem.pending[step].status = "none" /\ step \in Steps
    BY <1>2 DEF History, InHand, AtWork, AskLabels, IInv, InPlace
  <2>2. mem.completed[step] = 0
    BY <1>2, <2>1, Unresolved DEF History, MemoryStands, Stands, IInv, TypeOK
  <2>3. Reached(sessions[m].step)
    BY <1>2 DEF History, Known
  <2>4. ~(step < step)
    BY <2>1, Constants
  <2>5. QED
    BY <1>2, <2>1, <2>2, <2>3, <2>4 DEF Reached, GoesOn, Holding
<1>3. QED
  BY <1>1, <1>2, SessionsKept DEF NeverRedispatched

\* What the steps of the process change of the journal and of memory.
Leaves == pc # "idle" /\ pc' = "idle" /\ mem' = EmptyState /\ failures' = 0 /\ step' = 0
Appended == \/ PlanLoaded \/ MemoryReconciled \/ PhaseStarted \/ StepStarted \/ StepCompleted
            \/ AskSkipped \/ GateRejected \/ RoundCapReached \/ StepFailed
Readies == \/ StartPhase \/ StartGate \/ RunGate \/ StartJoin \/ JoinDeps \/ AskUnconditional
           \/ AskConditional \/ TakeAnswer \/ Finish
Works == \/ Readies /\ pc \notin {"idle", "retain", "record"}
         \/ AskResume
         \/ CreateSession
         \/ pc \notin {"idle", "retain"} /\ pc' = "retain"
         \/ <<pc, pc'>> \in {<<"dispatch", "send">>, <<"send", "poll">>, <<"poll", "answer">>}
         \/ UNCHANGED <<pc, line>>

\* The steps, by what they change of the journal and of memory.
LEMMA Classes ==
  IInv /\ [Next]_vars =>
    \/ Leaves \/ Prepare \/ Resume \/ Appended \/ SkipStep
    \/ UNCHANGED <<journal, mem, failures, step>> /\ Works
<1> SUFFICES ASSUME IInv, [Next]_vars
             PROVE  \/ Leaves \/ Prepare \/ Resume \/ Appended \/ SkipStep
                    \/ UNCHANGED <<journal, mem, failures, step>> /\ Works
  OBVIOUS
<1> USE DEF Appended, Readies
<1>1. CASE Prepare
  BY <1>1
<1>2. CASE Refuse
  BY <1>2 DEF Refuse, Works, InStep, diskVars, procVars, At, Goes, Retains, Execute, Executing
<1>3. CASE Resume
  BY <1>3
<1>4. CASE PlanLoaded
  BY <1>4
<1>5. CASE MemoryReconciled
  BY <1>5
<1>6. CASE PhaseStarted
  BY <1>6
<1>7. CASE StepStarted
  BY <1>7
<1>8. CASE StepCompleted
  BY <1>8
<1>9. CASE AskSkipped
  BY <1>9
<1>10. CASE GateRejected
  BY <1>10
<1>11. CASE RoundCapReached
  BY <1>11
<1>12. CASE StepFailed
  BY <1>12
<1>13. CASE RunCompleted
  BY <1>13 DEF RunCompleted, Gone, Recorded, At, Leaves
<1>14. CASE StoreFull
  BY <1>14 DEF StoreFull, At, Works, InStep, diskVars, procVars, At, Goes, Retains, Execute, Executing
<1>15. CASE Retained
  BY <1>15 DEF Retained, Gone, Recorded, At, Leaves
<1>16. CASE SkipStep
  BY <1>16
<1>17. CASE StartPhase
  BY <1>17 DEF StartPhase, Works, InStep, diskVars, procVars, At, Goes, Retains, Execute, Executing
<1>18. CASE GateUnsealed
  BY <1>18 DEF GateUnsealed, Works, InStep, diskVars, procVars, At, Goes, Retains, Execute, Executing
<1>19. CASE StartGate
  BY <1>19 DEF StartGate, StartAttempt, Works, InStep, diskVars, procVars, At, Goes, Retains, Execute, Executing
<1>20. CASE RunGate
  BY <1>20 DEF RunGate, GateRuns, Works, InStep, diskVars, procVars, At, Goes, Retains, Execute, Executing
<1>21. CASE StartJoin
  BY <1>21 DEF StartJoin, Works, InStep, diskVars, procVars, At, Goes, Retains, Execute, Executing
<1>22. CASE JoinDeps
  BY <1>22 DEF JoinDeps, Works, InStep, diskVars, procVars, At, Goes, Retains, Execute, Executing
<1>23. CASE Finish
  BY <1>23 DEF Finish, Works, InStep, diskVars, procVars, At, Goes, Retains, Execute, Executing
<1>24. CASE AskUnconditional
  BY <1>24 DEF AskUnconditional, Fresh, Works, InStep, diskVars, procVars, At, Goes, Retains, Execute, Executing
<1>25. CASE AskConditional
  BY <1>25 DEF AskConditional, Fresh, Works, InStep, diskVars, procVars, At, Goes, Retains, Execute, Executing
<1>26. CASE CreateSession
  BY <1>26 DEF CreateSession, Works, InStep, diskVars, procVars, At, Goes, Retains, Execute, Executing
<1>27. CASE SessionNotCreated
  BY <1>27 DEF SessionNotCreated, Works, InStep, diskVars, procVars, At, Goes, Retains, Execute, Executing
<1>28. CASE Dispatch
  BY <1>28 DEF Dispatch, Works, InStep, diskVars, procVars, At, Goes, Retains, Execute, Executing
<1>29. CASE Send
  BY <1>29 DEF Send, Works, InStep, diskVars, procVars, At, Goes, Retains, Execute, Executing
<1>30. CASE SendFails
  BY <1>30 DEF SendFails, Works, InStep, diskVars, procVars, At, Goes, Retains, Execute, Executing
<1>31. CASE Answered
  BY <1>31 DEF Answered, Works, InStep, diskVars, procVars, At, Goes, Retains, Execute, Executing
<1>32. CASE DeadlineExpires
  BY <1>32 DEF DeadlineExpires, Works, InStep, diskVars, procVars, At, Goes, Retains, Execute, Executing
<1>33. CASE ObserveFails
  BY <1>33 DEF ObserveFails, Works, InStep, diskVars, procVars, At, Goes, Retains, Execute, Executing
<1>34. CASE TakeAnswer
  BY <1>34 DEF TakeAnswer, Works, InStep, diskVars, procVars, At, Goes, Retains, Execute, Executing
<1>35. CASE AskUnresumable
  BY <1>35 DEF AskUnresumable, Works, InStep, diskVars, procVars, At, Goes, Retains, Execute, Executing
<1>36. CASE AskResume
  BY <1>36 DEF AskResume, Works, InStep, diskVars, procVars, At, Goes, Retains, Execute, Executing
<1>37. CASE AskSessionLost
  BY <1>37 DEF AskSessionLost, Works, InStep, diskVars, procVars, At, Goes, Retains, Execute, Executing
<1>38. CASE SessionWorks
  BY <1>38 DEF SessionWorks, Works, InStep, diskVars, procVars, At, Goes, Retains, Execute, Executing
<1>39. CASE SessionLost
  BY <1>39 DEF SessionLost, Works, InStep, diskVars, procVars, At, Goes, Retains, Execute, Executing
<1>40. CASE Crash
  BY <1>40 DEF Crash, Gone, Recorded, At, Leaves
<1>41. CASE UNCHANGED vars
  BY <1>41 DEF Works, vars, diskVars, procVars
<1>42. QED
  BY <1>1, <1>2, <1>3, <1>4, <1>5, <1>6, <1>7, <1>8, <1>9, <1>10, <1>11, <1>12, <1>13, <1>14,
     <1>15, <1>16, <1>17, <1>18, <1>19, <1>20, <1>21, <1>22, <1>23, <1>24, <1>25, <1>26, <1>27, <1>28,
     <1>29, <1>30, <1>31, <1>32, <1>33, <1>34, <1>35, <1>36, <1>37, <1>38, <1>39, <1>40, <1>41
  DEF Next, RunPlan, Process, Records, Plain, Ask

------------------------------------------------------------------------------
(* What memory holds stands for the journal.                               *)

\* The phase in hand is a step of the plan.
LEMMA PhaseNamed ==
  ASSUME NEW j \in Seq(RecordType), NEW o, Sound(j, o), PhaseAt(j) # 0
  PROVE  PhaseAt(j) \in DOMAIN j /\ j[PhaseAt(j)].kind = "PHASE_STARTED" /\ j[PhaseAt(j)].step \in Steps
<1> DEFINE S == {i \in DOMAIN j : j[i].kind = "PHASE_STARTED"}
           T == {0} \union S
<1>1. DOMAIN j = 1 .. Len(j) /\ Len(j) \in Nat
  OBVIOUS
<1>2. T \in SUBSET Nat /\ T # {} /\ \A x \in T : x <= Len(j)
  BY <1>1
<1>3. PhaseAt(j) = Max(T)
  BY DEF PhaseAt, LastOf
<1> HIDE DEF T
<1>4. Max(T) \in T
  BY <1>1, <1>2, MaxOf
<1>5. PhaseAt(j) \in S
  BY <1>3, <1>4 DEF T
<1>6. QED
  BY <1>5 DEF Sound, May, MayName, StepKinds, Kinds

LEMMA PhaseZero ==
  ASSUME IInv, Sound(journal, obs), Stands(mem, journal)
  PROVE  /\ mem.phase = 0 <=> PhaseAt(journal) = 0
         /\ mem.phase = 0 => mem.count = 0
         /\ mem.phase # 0 => mem.phase \in Steps
<1>1. journal \in Seq(RecordType)
  BY DEF IInv, TypeOK
<1>2. 0 \notin Steps
  BY Constants
<1>3. QED
  BY <1>1, <1>2, PhaseNamed DEF Stands, PhaseOf, PhaseCount

\* What a record adds to what memory stands for.
LEMMA LineAdds ==
  ASSUME History, pc = "record", NEW m,
         \A s \in Steps :
           /\ m.completed[s] = IF line.kind = "STEP_COMPLETED" /\ line.step = s THEN line.obs
                               ELSE mem.completed[s]
           /\ m.failed[s] = IF line.kind = "STEP_FAILED" /\ line.step = s /\ Plan[s].action = "continue"
                            THEN line.obs ELSE mem.failed[s]
           /\ m.skipped[s] = IF line.kind = "ASK_SKIPPED" /\ line.step = s THEN line.obs
                             ELSE mem.skipped[s]
           /\ m.attempts[s] = IF line.kind = "STEP_STARTED" /\ line.step = s THEN line.attempt
                              ELSE mem.attempts[s],
         m.phase = IF line.kind = "PHASE_STARTED" THEN line.step ELSE mem.phase,
         m.count = IF line.kind = "PHASE_STARTED" THEN 0
                   ELSE IF line.kind = "GATE_REJECTED" /\ mem.phase # 0 THEN mem.count + 1
                   ELSE mem.count,
         m.phases = IF line.kind = "PHASE_STARTED" THEN mem.phases \union {line.step} ELSE mem.phases
  PROVE  Stands(m, Append(journal, line))
<1>1. journal \in Seq(RecordType) /\ line \in RecordType /\ obs \in Seq(ObsType)
  BY DEF History, IInv, TypeOK
<1>2. /\ Sound(journal, obs) /\ May(journal, Len(journal), obs, line) /\ Stands(mem, journal)
      /\ LineFits /\ IInv
  BY DEF History, LineMay, MemoryStands
<1>3. ASSUME NEW s \in Steps
      PROVE  m.completed[s] = Done(Append(journal, line), s)
             /\ m.failed[s] = Failed(Append(journal, line), s)
  BY <1>1, <1>2, AppendEnd DEF Stands
<1>4. ASSUME NEW s \in Steps
      PROVE  m.skipped[s] = SkippedObs(Append(journal, line), s)
  BY <1>1, <1>2, AppendSkip DEF Stands
<1>5. ASSUME NEW s \in Steps
      PROVE  m.attempts[s] = Attempts(Append(journal, line), s)
  <2>1. \A i \in DOMAIN journal : journal[i].attempt <= Len(journal)
    BY <1>2 DEF IInv, Numbered
  <2>2. line.kind = "STEP_STARTED" /\ line.step = s => line.attempt > Attempts(journal, s)
    <3>1. line.kind = "STEP_STARTED" => line.step = step /\ step \in Steps
      BY <1>2 DEF IInv, InPlace, StepKinds, Kinds
    <3>2. mem.attempts[s] \in Nat /\ mem.attempts[s] = Attempts(journal, s)
      BY <1>2 DEF IInv, TypeOK, MemType, Stands
    <3>3. QED
      BY <1>2, <3>1, <3>2 DEF LineFits
  <2>3. QED
    BY <1>1, <1>2, <2>1, <2>2, AppendAttempt DEF Stands
<1>6. m.phase = PhaseOf(Append(journal, line)) /\ m.phases = PhasesOf(Append(journal, line))
  BY <1>1, <1>2, AppendPhase DEF Stands
<1>7. m.count = PhaseCount(Append(journal, line))
  <2>1. mem.phase = 0 <=> PhaseAt(journal) = 0
    BY <1>2, PhaseZero
  <2>2. mem.phase = 0 => mem.count = 0
    BY <1>2, PhaseZero
  <2>3. PhaseCount(Append(journal, line)) =
          IF line.kind = "PHASE_STARTED" \/ PhaseAt(journal) = 0 THEN 0
          ELSE IF line.kind = "GATE_REJECTED" THEN PhaseCount(journal) + 1 ELSE PhaseCount(journal)
    BY <1>1, AppendPhase
  <2>4. mem.count = PhaseCount(journal)
    BY <1>2 DEF Stands
  <2>5. QED
    BY <2>1, <2>2, <2>3, <2>4
<1>8. QED
  BY <1>3, <1>4, <1>5, <1>6, <1>7 DEF Stands

\* The state of a run that has no journal yet.
LEMMA EmptyStands == Stands(EmptyState, <<>>)
<1>1. <<>> \in Seq(RecordType) /\ DOMAIN <<>> = {} /\ Len(<<>>) = 0
  OBVIOUS
<1>2. ASSUME NEW s PROVE Done(<<>>, s) = 0 /\ Failed(<<>>, s) = 0
  <2>1. ~EndedBy(<<>>, Len(<<>>), s)
    BY <1>1 DEF EndedBy
  <2>2. QED
    BY <1>1, <2>1, Unresolved
<1>3. ASSUME NEW s PROVE SkippedObs(<<>>, s) = 0
  <2>1. SkippedAt(<<>>, s) \in 0 .. Len(<<>>)
    BY <1>1, LastIn
  <2>2. SkippedAt(<<>>, s) = 0
    BY <1>1, <2>1
  <2>3. QED
    BY <2>2 DEF SkippedObs
<1>4. ASSUME NEW s PROVE Attempts(<<>>, s) = 0
  <2> DEFINE K == {k \in DOMAIN <<>> : <<>>[k].kind = "STEP_STARTED" /\ <<>>[k].step = s}
  <2>1. {<<>>[i].attempt : i \in K} = {}
    BY <1>1
  <2>2. Attempts(<<>>, s) = Max({0} \union {<<>>[i].attempt : i \in K})
    BY DEF Attempts
  <2>3. QED
    BY <2>1, <2>2, MaxOfNone
<1>5. PhaseAt(<<>>) = 0
  <2>1. PhaseAt(<<>>) \in 0 .. Len(<<>>)
    BY <1>1, LastIn
  <2>2. QED
    BY <1>1, <2>1
<1>6. PhaseOf(<<>>) = 0 /\ PhaseCount(<<>>) = 0 /\ PhasesOf(<<>>) = {}
  BY <1>1, <1>5 DEF PhaseOf, PhaseCount, PhasesOf
<1>7. QED
  BY <1>2, <1>3, <1>4, <1>6 DEF Stands, EmptyState

\* The state a process resumes from.
LEMMA ReplayStands ==
  ASSUME IInv, Sound(journal, obs)
  PROVE  Stands(Replay(journal), journal)
<1>1. journal \in Seq(RecordType) /\ obs \in Seq(ObsType)
  BY DEF IInv, TypeOK
<1>2. ASSUME NEW s \in Steps
      PROVE  /\ Verified(journal, s) = Done(journal, s)
             /\ Done(journal, s) # 0 => Failed(journal, s) = 0
  <2>1. Verified(journal, s) = Done(journal, s)
    BY <1>1, VerifiedIsDone
  <2>2. ASSUME Done(journal, s) # 0 PROVE Failed(journal, s) = 0
    <3>1. PICK i \in DOMAIN journal : Ends(journal[i], s)
      BY <1>1, <2>2, Unresolved DEF EndedBy
    <3>2. QED
      BY <1>1, <2>2, <3>1, Resolve
  <2>3. QED
    BY <2>1, <2>2
<1>3. QED
  BY <1>2 DEF Stands, Replay, SkippedObs, PhaseOf, PhasesOf

\* A record that leaves memory as it is stands for nothing new.
LEMMA LineMute ==
  ASSUME History, pc = "record",
         line.kind \notin {"STEP_COMPLETED", "ASK_SKIPPED", "STEP_STARTED", "PHASE_STARTED",
                           "GATE_REJECTED"},
         line.kind = "STEP_FAILED" => Plan[line.step].action # "continue"
  PROVE  Stands(mem, Append(journal, line))
<1>1. \A s \in Steps : ~(line.kind = "STEP_FAILED" /\ line.step = s /\ Plan[s].action = "continue")
  OBVIOUS
<1>2. QED
  BY <1>1, LineAdds

\* Each record updates memory as it does the replay.
LEMMA AppendedStands ==
  ASSUME History, Appended
  PROVE  Stands(mem', journal')
<1>1. pc = "record" /\ journal' = Append(journal, line)
  BY DEF Appended, PlanLoaded, MemoryReconciled, PhaseStarted, StepStarted, StepCompleted, AskSkipped,
     GateRejected, RoundCapReached, StepFailed, Recorded, Write, At
<1>2. line.kind \in StepKinds => line.step = step /\ step \in Steps
  BY <1>1 DEF History, IInv, InPlace
<1>3. mem \in MemType
  BY DEF History, IInv, TypeOK
<1>4. CASE PlanLoaded
  BY <1>1, <1>4, LineMute DEF PlanLoaded, Recorded
<1>5. CASE MemoryReconciled
  BY <1>1, <1>5, LineMute DEF MemoryReconciled, Recorded
<1>6. CASE PhaseStarted
  <2>1. line.kind = "PHASE_STARTED" /\ line.step = step
    BY <1>2, <1>6 DEF PhaseStarted, Recorded, StepKinds, Kinds
  <2>2. /\ mem'.phase = step /\ mem'.count = 0 /\ mem'.phases = mem.phases \union {step}
        /\ mem'.completed = mem.completed /\ mem'.failed = mem.failed
        /\ mem'.skipped = mem.skipped /\ mem'.attempts = mem.attempts
    BY <1>3, <1>6 DEF PhaseStarted, MemType
  <2>3. QED
    BY <1>1, <2>1, <2>2, LineAdds
<1>7. CASE StepStarted
  <2>1. line.kind = "STEP_STARTED" /\ line.step = step /\ step \in Steps
    BY <1>2, <1>7 DEF StepStarted, Recorded, StepKinds, Kinds
  <2>2. /\ mem'.phase = mem.phase /\ mem'.count = mem.count /\ mem'.phases = mem.phases
        /\ mem'.completed = mem.completed /\ mem'.failed = mem.failed
        /\ mem'.skipped = mem.skipped
        /\ \A s \in Steps : mem'.attempts[s] = IF s = step THEN line.attempt ELSE mem.attempts[s]
    BY <1>3, <1>7, <2>1 DEF StepStarted, MemType
  <2>3. QED
    BY <1>1, <2>1, <2>2, LineAdds
<1>8. CASE StepCompleted
  <2>1. line.kind = "STEP_COMPLETED" /\ line.step = step /\ step \in Steps
    BY <1>2, <1>8 DEF StepCompleted, Recorded, StepKinds, Kinds
  <2>2. /\ mem'.phase = mem.phase /\ mem'.count = mem.count /\ mem'.phases = mem.phases
        /\ mem'.attempts = mem.attempts /\ mem'.failed = mem.failed
        /\ mem'.skipped = mem.skipped
        /\ \A s \in Steps : mem'.completed[s] = IF s = step THEN line.obs ELSE mem.completed[s]
    BY <1>3, <1>8, <2>1 DEF StepCompleted, MemType
  <2>3. QED
    BY <1>1, <2>1, <2>2, LineAdds
<1>9. CASE AskSkipped
  <2>1. line.kind = "ASK_SKIPPED" /\ line.step = step /\ step \in Steps
    BY <1>2, <1>9 DEF AskSkipped, Recorded, StepKinds, Kinds
  <2>2. /\ mem'.phase = mem.phase /\ mem'.count = mem.count /\ mem'.phases = mem.phases
        /\ mem'.attempts = mem.attempts /\ mem'.failed = mem.failed
        /\ mem'.completed = mem.completed
        /\ \A s \in Steps : mem'.skipped[s] = IF s = step THEN line.obs ELSE mem.skipped[s]
    BY <1>3, <1>9, <2>1 DEF AskSkipped, MemType
  <2>3. QED
    BY <1>1, <2>1, <2>2, LineAdds
<1>10. CASE GateRejected
  <2>1. line.kind = "GATE_REJECTED"
    BY <1>10 DEF GateRejected, Recorded
  <2>2. /\ mem'.phase = mem.phase /\ mem'.phases = mem.phases
        /\ mem'.attempts = mem.attempts /\ mem'.failed = mem.failed
        /\ mem'.completed = mem.completed /\ mem'.skipped = mem.skipped
        /\ mem'.count = IF mem.phase = 0 THEN 0 ELSE mem.count + 1
    BY <1>3, <1>10 DEF GateRejected, MemType
  <2>3. mem.phase = 0 => mem.count = 0
    BY <1>1, PhaseZero DEF History, MemoryStands
  <2>4. QED
    BY <1>1, <2>1, <2>2, <2>3, LineAdds
<1>11. CASE RoundCapReached
  BY <1>1, <1>11, LineMute DEF RoundCapReached, Recorded
<1>12. CASE StepFailed
  <2>1. line.kind = "STEP_FAILED" /\ line.step = step /\ step \in Steps
    BY <1>2, <1>12 DEF StepFailed, Recorded, StepKinds, Kinds
  <2>2. CASE Plan[step].action = "continue"
    <3>1. mem' = [mem EXCEPT !.failed[step] = line.obs]
      BY <1>12, <2>2 DEF StepFailed
    <3>2. /\ mem'.phase = mem.phase /\ mem'.count = mem.count /\ mem'.phases = mem.phases
          /\ mem'.attempts = mem.attempts /\ mem'.completed = mem.completed
          /\ mem'.skipped = mem.skipped
          /\ \A s \in Steps : mem'.failed[s] = IF s = step THEN line.obs ELSE mem.failed[s]
      BY <1>3, <2>1, <3>1 DEF MemType
    <3>3. QED
      BY <1>1, <2>1, <2>2, <3>2, LineAdds
  <2>3. CASE Plan[step].action # "continue"
    <3>1. mem' = mem
      BY <1>12, <2>3 DEF StepFailed
    <3>2. QED
      BY <1>1, <2>1, <2>3, <3>1, LineMute
  <2>4. QED
    BY <2>2, <2>3
<1>13. QED
  BY <1>4, <1>5, <1>6, <1>7, <1>8, <1>9, <1>10, <1>11, <1>12 DEF Appended

LEMMA MemoryStep == History /\ [Next]_vars => MemoryStands'
<1> SUFFICES ASSUME History, [Next]_vars PROVE MemoryStands'
  OBVIOUS
<1>1. CASE Leaves
  BY <1>1 DEF Leaves, MemoryStands
<1>2. CASE Prepare
  <2>1. mem' = EmptyState /\ journal' = <<>>
    BY <1>2 DEF Prepare, Starts, At, History, Blank
  <2>2. QED
    BY <2>1, EmptyStands DEF MemoryStands
<1>3. CASE Resume
  <2>1. mem' = Replay(journal) /\ journal' = journal
    BY <1>3 DEF Resume, diskVars
  <2>2. QED
    BY <2>1, ReplayStands DEF MemoryStands, History
<1>4. CASE Appended
  BY <1>4, AppendedStands DEF MemoryStands
<1>5. CASE SkipStep
  BY <1>5 DEF SkipStep, InStep, At, History, MemoryStands
<1>6. CASE UNCHANGED <<journal, mem>> /\ pc # "idle"
  BY <1>6 DEF History, MemoryStands
<1>7. CASE UNCHANGED <<journal, mem>> /\ pc' = "idle"
  BY <1>7 DEF MemoryStands
<1>8. Works => pc # "idle" \/ pc' = "idle"
  BY DEF Works, AskResume, CreateSession, Execute, Executing, At
<1>9. QED
  BY <1>1, <1>2, <1>3, <1>4, <1>5, <1>6, <1>7, <1>8, Classes DEF History

LEMMA BlankStep == History /\ [Next]_vars => Blank'
<1> SUFFICES ASSUME History, [Next]_vars PROVE Blank'
  OBVIOUS
<1>1. pc' = "idle" => mem' = EmptyState /\ failures' = 0
  <2>1. CASE Leaves
    BY <2>1 DEF Leaves
  <2>2. CASE Prepare \/ Resume \/ Appended \/ SkipStep
    <3>1. Appended => pc' # "idle"
      <4>1. pc' = Plan[step].type /\ StepStarted => pc' # "idle"
        <5>1. StepStarted => step \in Steps
          BY DEF StepStarted, Recorded, At, History, IInv, InPlace, StepKinds, Kinds
        <5>2. QED
          BY <5>1, Constants DEF StepType
      <4>2. QED
        BY <4>1 DEF Appended, PlanLoaded, MemoryReconciled, PhaseStarted, StepStarted, StepCompleted,
           AskSkipped, GateRejected, RoundCapReached, StepFailed, Enter, Appends, Goes, NextStep, Retains
    <3>2. QED
      BY <2>2, <3>1 DEF Prepare, Resume, SkipStep, Enter, Appends, NextStep
  <2>3. CASE UNCHANGED <<journal, mem, failures, step>> /\ Works
    <3>1. pc' = "idle" => pc = "idle"
      BY <2>3 DEF Works, Readies, AskResume, CreateSession, StartPhase, StartGate, StartAttempt, RunGate,
         GateRuns, StartJoin, JoinDeps, AskUnconditional, AskConditional, TakeAnswer, Finish, Appends,
         Retains, Goes
    <3>2. QED
      BY <2>3, <3>1 DEF History, Blank
  <2>4. QED
    BY <2>1, <2>2, <2>3, Classes DEF History
<1>2. dir' = "absent" => journal' = <<>>
  <2>1. dir' = "absent" => dir = "absent" /\ pc = "idle" /\ journal = <<>>
    <3>1. dir' = dir \/ dir' = "ready"
      BY JournalShape DEF History, JournalGrows
    <3>2. QED
      BY <3>1 DEF History, Blank, IInv, Confirmed
  <2>2. pc = "idle" => journal' = journal
    BY JournalShape DEF History, JournalGrows
  <2>3. QED
    BY <2>1, <2>2
<1>3. QED
  BY <1>1, <1>2 DEF Blank

------------------------------------------------------------------------------
(* Where the process is.                                                   *)

\* What a journal says of a step, it says for good.
LEMMA StaysSaid ==
  ASSUME IInv, [Next]_vars, NEW s
  PROVE  /\ PassedBy(journal, Len(journal), s) => PassedBy(journal', Len(journal'), s)
         /\ Opened(journal, s) => Opened(journal', s)
<1>1. /\ DOMAIN journal = 1 .. Len(journal) /\ DOMAIN journal' = 1 .. Len(journal')
      /\ Len(journal) \in Nat /\ Len(journal') \in Nat /\ Len(journal') >= Len(journal)
      /\ \A k \in DOMAIN journal : journal'[k] = journal[k]
  BY JournalGrown DEF IInv, TypeOK
<1>2. \A k \in DOMAIN journal : k \in DOMAIN journal'
  BY <1>1
<1>3. PassedBy(journal, Len(journal), s) => PassedBy(journal', Len(journal'), s)
  BY <1>1, <1>2 DEF PassedBy
<1>4. Opened(journal, s) => Opened(journal', s)
  BY <1>1, <1>2 DEF Opened
<1>5. QED
  BY <1>3, <1>4

\* What a record adds to what is said of a step.
LEMMA LineSaid ==
  ASSUME IInv, NEW s
  PROVE  LET k == Append(journal, line)
         IN  /\ Passes(line, s) => PassedBy(k, Len(k), s)
             /\ line.kind = "STEP_STARTED" /\ line.step = s => Opened(k, s)
             /\ EndedBy(k, Len(k), s) => Ends(line, s) \/ EndedBy(journal, Len(journal), s)
<1> DEFINE k == Append(journal, line)
<1>1. /\ Len(journal) \in Nat /\ DOMAIN journal = 1 .. Len(journal)
      /\ Len(k) = Len(journal) + 1 /\ DOMAIN k = 1 .. (Len(journal) + 1)
      /\ k[Len(journal) + 1] = line /\ \A i \in 1 .. Len(journal) : k[i] = journal[i]
  BY DEF IInv, TypeOK
<1> HIDE DEF k
<1>2. Passes(line, s) => PassedBy(k, Len(k), s)
  BY <1>1 DEF PassedBy
<1>3. line.kind = "STEP_STARTED" /\ line.step = s => Opened(k, s)
  BY <1>1 DEF Opened
<1>4. EndedBy(k, Len(k), s) => Ends(line, s) \/ EndedBy(journal, Len(journal), s)
  BY <1>1 DEF EndedBy
<1>5. QED
  BY <1>2, <1>3, <1>4 DEF k

\* What memory says of a step, the journal does.
LEMMA MemorySays ==
  ASSUME IInv, Sound(journal, obs), Stands(mem, journal), NEW s \in Steps
  PROVE  /\ mem.completed[s] # 0 =>
              \E i \in DOMAIN journal : /\ journal[i].kind = "STEP_COMPLETED" /\ Ends(journal[i], s)
                                        /\ journal[i].obs = mem.completed[s]
         /\ mem.failed[s] # 0 =>
              \E i \in DOMAIN journal : Ends(journal[i], s) /\ journal[i].obs = mem.failed[s]
         /\ EndedBy(journal, Len(journal), s) => mem.completed[s] # 0 \/ mem.failed[s] # 0
<1>1. /\ journal \in Seq(RecordType) /\ obs \in Seq(ObsType) /\ DOMAIN journal = 1 .. Len(journal)
      /\ mem.completed[s] = Done(journal, s) /\ mem.failed[s] = Failed(journal, s)
  BY DEF IInv, TypeOK, Stands
<1>2. CASE EndedBy(journal, Len(journal), s)
  <2>1. PICK i \in DOMAIN journal : Ends(journal[i], s)
    BY <1>1, <1>2 DEF EndedBy
  <2>2. CASE journal[i].kind = "STEP_COMPLETED"
    BY <1>1, <2>1, <2>2, Resolve
  <2>3. CASE journal[i].kind # "STEP_COMPLETED"
    BY <1>1, <2>1, <2>3, Resolve
  <2>4. QED
    BY <2>2, <2>3
<1>3. CASE ~EndedBy(journal, Len(journal), s)
  BY <1>1, <1>3, Unresolved
<1>4. QED
  BY <1>2, <1>3

\* A step that execute returns from at once has passed.
LEMMA SettledPassed ==
  ASSUME History, pc # "idle", step \in Steps, Settles(step)
  PROVE  PassedBy(journal, Len(journal), step)
<1>1. /\ IInv /\ Sound(journal, obs) /\ Stands(mem, journal) /\ journal \in Seq(RecordType)
      /\ DOMAIN journal = 1 .. Len(journal) /\ Len(journal) \in Nat
  BY DEF History, MemoryStands, IInv, TypeOK
<1>2. CASE mem.completed[step] # 0 \/ mem.failed[step] # 0
  <2>1. \E i \in DOMAIN journal : Ends(journal[i], step)
    BY <1>1, <1>2, MemorySays
  <2>2. QED
    BY <1>1, <2>1 DEF PassedBy, Passes
<1>3. CASE step \in mem.phases
  BY <1>1, <1>3 DEF Stands, PhasesOf, PassedBy, Passes
<1>4. CASE Source(step) # 0 /\ mem.skipped[step] = Source(step)
  <2> DEFINE S == {i \in DOMAIN journal : journal[i].kind = "ASK_SKIPPED" /\ journal[i].step = step}
  <2>1. SkippedAt(journal, step) # 0
    BY <1>1, <1>4 DEF Stands, SkippedObs
  <2>2. SkippedAt(journal, step) = Max({0} \union S)
    BY DEF SkippedAt, LastOf
  <2>3. S # {}
    BY <2>1, <2>2, MaxOfNone
  <2>4. QED
    BY <1>1, <2>3 DEF PassedBy, Passes
<1>5. QED
  BY <1>2, <1>3, <1>4 DEF Settles

\* The process moves past a step only when the journal does.
LEMMA PassedStep == History /\ [Next]_vars => Passed'
<1> SUFFICES ASSUME History, [Next]_vars PROVE Passed'
  OBVIOUS
<1>1. IInv /\ Passed /\ 0 \notin Steps /\ Steps \subseteq Nat /\ step \in Nat
  BY Constants DEF History, IInv, TypeOK
<1>2. CASE step' = step
  BY <1>1, <1>2, StaysSaid DEF Passed
<1>3. CASE step' \in {0, 1}
  BY <1>1, <1>3 DEF Passed
<1>4. ASSUME step' = step + 1, PassedBy(journal', Len(journal'), step) PROVE Passed'
  <2>1. \A s \in Steps : s < step + 1 => s < step \/ s = step
    BY <1>1
  <2>2. QED
    BY <1>1, <1>4, <2>1, StaysSaid DEF Passed
<1>5. CASE Leaves \/ Prepare \/ Resume
  BY <1>3, <1>5 DEF Leaves, Prepare, Resume
<1>6. CASE Appended
  <2>1. pc = "record" /\ journal' = Append(journal, line)
    BY <1>6 DEF Appended, PlanLoaded, MemoryReconciled, PhaseStarted, StepStarted, StepCompleted, AskSkipped,
       GateRejected, RoundCapReached, StepFailed, Recorded, Write, At
  <2>2. line.kind \in StepKinds => line.step = step
    BY <2>1 DEF History, IInv, InPlace
  <2>3. Passes(line, step) => PassedBy(journal', Len(journal'), step)
    BY <1>1, <2>1, LineSaid
  <2>4. CASE PlanLoaded \/ MemoryReconciled \/ StepStarted \/ GateRejected \/ RoundCapReached
    BY <1>2, <2>4 DEF PlanLoaded, MemoryReconciled, StepStarted, GateRejected, RoundCapReached
  <2>5. CASE PhaseStarted \/ StepCompleted \/ AskSkipped
    <3>1. Passes(line, step)
      BY <2>2, <2>5 DEF PhaseStarted, StepCompleted, AskSkipped, Recorded, StepKinds, Kinds, Passes, Ends
    <3>2. QED
      BY <1>4, <2>3, <2>5, <3>1 DEF PhaseStarted, StepCompleted, AskSkipped, NextStep
  <2>6. CASE StepFailed
    <3>1. CASE Plan[step].action = "continue"
      <4>1. Passes(line, step)
        BY <2>2, <2>6, <3>1 DEF StepFailed, Recorded, StepKinds, Kinds, Passes, Ends
      <4>2. step' = step + 1
        BY <2>6, <3>1 DEF StepFailed, NextStep
      <4>3. QED
        BY <1>4, <2>3, <4>1, <4>2
    <3>2. CASE Plan[step].action # "continue"
      BY <1>2, <2>6, <3>2 DEF StepFailed
    <3>3. QED
      BY <3>1, <3>2
  <2>7. QED
    BY <1>6, <2>4, <2>5, <2>6 DEF Appended
<1>7. CASE SkipStep
  <2>1. pc # "idle" /\ step \in Steps /\ Settles(step) /\ step' = step + 1
    BY <1>7 DEF SkipStep, At, NextStep
  <2>2. PassedBy(journal', Len(journal'), step)
    BY <1>1, <2>1, SettledPassed, StaysSaid
  <2>3. QED
    BY <1>4, <2>1, <2>2
<1>8. QED
  BY <1>1, <1>2, <1>5, <1>6, <1>7, Classes

\* A process over the cap of its phase only goes on to retain.
LEMMA BudgetStep == History /\ [Next]_vars => Budget'
<1> SUFFICES ASSUME History, [Next]_vars PROVE Budget'
  OBVIOUS
<1>1. IInv /\ Budget /\ mem \in MemType
  BY DEF History, IInv, TypeOK
<1>2. CASE failures' = 0
  BY <1>2 DEF Budget
<1>3. ASSUME failures' = failures, mem'.phase = mem.phase, mem'.count = mem.count, pc # "retain"
      PROVE  Budget'
  BY <1>1, <1>3 DEF Budget, OverCap
<1>4. CASE pc' = "retain"
  BY <1>4 DEF Budget
<1>5. CASE Leaves \/ Prepare \/ Resume \/ SkipStep
  BY <1>2, <1>5 DEF Leaves, Prepare, Resume, SkipStep, NextStep, Starts, At, History, Blank
<1>6. CASE Appended
  <2>1. pc # "retain"
    BY <1>6 DEF Appended, PlanLoaded, MemoryReconciled, PhaseStarted, StepStarted, StepCompleted, AskSkipped,
       GateRejected, RoundCapReached, StepFailed, Recorded, At
  <2>2. CASE PlanLoaded \/ MemoryReconciled
    BY <1>3, <2>1, <2>2 DEF PlanLoaded, MemoryReconciled
  <2>3. CASE PhaseStarted \/ StepCompleted \/ AskSkipped
    BY <1>2, <2>3 DEF PhaseStarted, StepCompleted, AskSkipped, NextStep
  <2>4. CASE StepStarted
    <3>1. mem'.phase = mem.phase /\ mem'.count = mem.count /\ failures' = failures
      BY <1>1, <2>4 DEF StepStarted, MemType
    <3>2. QED
      BY <1>3, <2>1, <3>1
  <2>5. CASE GateRejected
    <3>1. CASE OverCap(mem')
      BY <1>4, <2>5, <3>1 DEF GateRejected, Retains
    <3>2. CASE ~OverCap(mem')
      BY <3>2 DEF Budget, OverCap
    <3>3. QED
      BY <3>1, <3>2
  <2>6. CASE RoundCapReached
    BY <1>4, <2>6 DEF RoundCapReached, Retains
  <2>7. CASE StepFailed
    <3>1. CASE Plan[step].action = "continue"
      BY <1>2, <2>7, <3>1 DEF StepFailed, NextStep
    <3>2. CASE Plan[step].action # "continue"
      BY <1>4, <2>7, <3>2 DEF StepFailed, Retains
    <3>3. QED
      BY <3>1, <3>2
  <2>8. QED
    BY <1>6, <2>2, <2>3, <2>4, <2>5, <2>6, <2>7 DEF Appended
<1>7. CASE UNCHANGED <<journal, mem, failures, step>> /\ Works
  <2>1. pc # "retain" \/ pc' = pc
    BY <1>7 DEF Works, AskResume, CreateSession, Execute, Executing, At
  <2>2. QED
    BY <1>3, <1>4, <1>7, <2>1
<1>8. QED
  BY <1>1, <1>5, <1>6, <1>7, Classes

LEMMA RecordIs ==
  \A kind, s, a, o, d :
    LET e == Record(kind, s, a, o, d)
    IN  e.kind = kind /\ e.step = s /\ e.attempt = a /\ e.obs = o /\ e.deps = d
  BY DEF Record

LEMMA LineFitsStep == History /\ [Next]_vars => LineFits'
<1> SUFFICES ASSUME History, [Next]_vars PROVE LineFits'
  OBVIOUS
<1>1. IInv
  BY DEF History
<1>a. ASSUME line'.kind \notin {"PLAN_LOADED", "STEP_STARTED"} PROVE LineFits'
  BY <1>a DEF LineFits
<1>b. ASSUME pc' # "record" PROVE LineFits'
  BY <1>b DEF LineFits
<1>2. CASE Leaves
  BY <1>2, <1>b DEF Leaves
<1>3. CASE Prepare
  <2>1. journal' = <<>> /\ line'.kind = "PLAN_LOADED"
    BY <1>3 DEF Prepare, Starts, At, History, Blank, Appends, Bare, Record
  <2>2. QED
    BY <2>1 DEF LineFits
<1>4. CASE Resume
  BY <1>4, <1>a, <1>b DEF Resume, Enter, Appends, Bare, Record
<1>5. CASE Appended
  <2>1. CASE PlanLoaded
    BY <2>1, <1>a, <1>b DEF PlanLoaded, Enter, Appends, Bare, Record
  <2>2. CASE GateRejected
    BY <2>2, <1>a, <1>b DEF GateRejected, Retains, Appends, Bare, Record
  <2>3. CASE StepStarted
    <3>1. pc' = Plan[step].type /\ step \in Steps
      BY <2>3, <1>1 DEF StepStarted, Recorded, At, IInv, InPlace, StepKinds, Kinds
    <3>2. QED
      BY <3>1, <1>b, Constants DEF StepType
  <2>4. CASE MemoryReconciled \/ PhaseStarted \/ StepCompleted \/ AskSkipped \/ RoundCapReached
    BY <2>4, <1>b DEF MemoryReconciled, PhaseStarted, StepCompleted, AskSkipped, RoundCapReached,
       Goes, NextStep, Retains
  <2>5. CASE StepFailed
    BY <2>5, <1>b DEF StepFailed, NextStep, Retains
  <2>6. QED
    BY <1>5, <2>1, <2>2, <2>3, <2>4, <2>5 DEF Appended
<1>6. CASE SkipStep
  BY <1>6, <1>b DEF SkipStep, NextStep
<1>7. CASE UNCHANGED <<journal, mem, failures, step>> /\ Works
  <2>1. ASSUME StartAttempt, step \in Steps, mem.pending[step].status = "none" PROVE LineFits'
    <3>1. line'.kind = "STEP_STARTED" /\ line'.attempt = mem.attempts[step] + 1
      BY <2>1 DEF StartAttempt, Appends, Record, Attempts1
    <3>2. QED
      BY <1>7, <2>1, <3>1 DEF LineFits
  <2>2. \A s \in Steps : Plan[s].type # "ask" => mem.pending[s].status = "none"
    BY DEF History, InHand
  <2>3. CASE StartPhase
    BY <2>3, <1>a DEF StartPhase, Appends, Bare, Record
  <2>4. CASE StartGate
    <3>1. step \in Steps /\ Plan[step].type = "gate"
      BY <2>4, <1>1 DEF StartGate, Execute, Executing, At, IInv, InPlace
    <3>2. QED
      BY <2>1, <2>2, <2>4, <3>1 DEF StartGate
  <2>5. CASE RunGate
    BY <2>5, <1>a, <1>b DEF RunGate, GateRuns, Appends, Retains, Record
  <2>6. CASE StartJoin
    BY <2>1, <2>2, <2>6 DEF StartJoin, Execute, Executing
  <2>7. CASE JoinDeps
    <3>1. pc' = "retain" \/ line'.kind = "STEP_COMPLETED"
      <4>1. CASE \E d \in Plan[step].depends : mem.completed[d] = 0
        BY <2>7, <4>1 DEF JoinDeps, Retains
      <4>2. CASE ~\E d \in Plan[step].depends : mem.completed[d] = 0
        <5> DEFINE deps == {<<d, mem.completed[d]>> : d \in Plan[step].depends}
        <5>1. line' = Record("STEP_COMPLETED", step, mem.attempts[step], NewObs, deps)
          BY <2>7, <4>2 DEF JoinDeps, Appends
        <5> HIDE DEF deps
        <5>2. QED
          BY <5>1, RecordIs
      <4>3. QED
        BY <4>1, <4>2
    <3>2. QED
      BY <3>1, <1>a, <1>b
  <2>8. CASE AskUnconditional
    BY <2>1, <2>8 DEF AskUnconditional, Fresh, Execute, Executing
  <2>9. CASE AskConditional
    <3>1. step \in Steps /\ mem.pending[step].status = "none"
      BY <2>9 DEF AskConditional, Fresh, Execute, Executing
    <3>2. StartAttempt \/ pc' = "retain" \/ line'.kind = "ASK_SKIPPED"
      BY <2>9 DEF AskConditional, Retains, Appends, Record
    <3>3. QED
      BY <2>1, <3>1, <3>2, <1>a, <1>b
  <2>10. CASE TakeAnswer
    BY <2>10, <1>a, <1>b DEF TakeAnswer, Appends, Retains, Record
  <2>11. CASE Finish
    BY <2>11, <1>a DEF Finish, Appends, Bare, Record
  <2>12. CASE AskResume \/ CreateSession
    BY <2>12, <1>b DEF AskResume, CreateSession, Goes
  <2>13. CASE pc' # "record"
    BY <2>13, <1>b
  <2>14. CASE UNCHANGED <<pc, line>>
    BY <1>7, <2>14 DEF History, LineFits
  <2>15. QED
    BY <1>7, <2>3, <2>4, <2>5, <2>6, <2>7, <2>8, <2>9, <2>10, <2>11, <2>12, <2>13, <2>14
    DEF Works, Readies
<1>8. QED
  BY <1>1, <1>2, <1>3, <1>4, <1>5, <1>6, <1>7, Classes

\* What a replay reopens is an ask that was started.
LEMMA ReplayPending ==
  ASSUME IInv, NEW s \in Steps
  PROVE  /\ Replay(journal).pending[s].status # "none" => Plan[s].type = "ask" /\ Opened(journal, s)
         /\ /\ Plan[s].type = "ask" /\ Opened(journal, s)
            /\ \A i \in DOMAIN journal : ~(journal[i].kind = "STEP_COMPLETED" /\ journal[i].step = s)
            /\ \A n \in DOMAIN obs : obs[n].status = "failed" => obs[n].session = 0
            => Replay(journal).pending[s].status # "none"
<1> DEFINE S == {i \in DOMAIN journal : journal[i].kind = "STEP_STARTED" /\ journal[i].step = s}
           C == {i \in DOMAIN journal : journal[i].kind = "STEP_COMPLETED" /\ journal[i].step = s}
           a == Attempts(journal, s)
           F == {n \in DOMAIN obs : obs[n].step = s /\ obs[n].intent = "ask" /\ obs[n].attempt = a}
<1>1. Replay(journal).pending[s] =
        IF Plan[s].type = "ask" /\ Cardinality(S) > Cardinality(C)
        THEN LatestAskDispatch(s, a) ELSE [status |-> "none", session |-> 0]
  BY DEF Replay, CountOf
<1>2. IsFiniteSet(S) /\ IsFiniteSet(C)
  <2>1. DOMAIN journal = 1 .. Len(journal) /\ Len(journal) \in Nat
    BY DEF IInv, TypeOK
  <2>2. IsFiniteSet(1 .. Len(journal)) /\ S \in SUBSET (1 .. Len(journal)) /\ C \in SUBSET (1 .. Len(journal))
    BY <2>1, FS_Interval
  <2>3. QED
    BY <2>2, FS_Subset
<1>3. Cardinality(S) \in Nat /\ Cardinality(C) \in Nat
  BY <1>2, FS_CardinalityType
<1>4. Cardinality(S) = 0 <=> S = {}
  BY <1>2, FS_EmptySet
<1>5. Cardinality(C) = 0 <=> C = {}
  BY <1>2, FS_EmptySet
<1>6. S # {} <=> Opened(journal, s)
  BY DEF Opened
<1>7. Replay(journal).pending[s].status # "none" => Plan[s].type = "ask" /\ Opened(journal, s)
  BY <1>1, <1>3, <1>4, <1>6
<1>8. ASSUME Plan[s].type = "ask", Opened(journal, s),
             \A i \in DOMAIN journal : ~(journal[i].kind = "STEP_COMPLETED" /\ journal[i].step = s),
             \A n \in DOMAIN obs : obs[n].status = "failed" => obs[n].session = 0
      PROVE  Replay(journal).pending[s].status # "none"
  <2>1. C = {}
    BY <1>8
  <2>2. Cardinality(S) > Cardinality(C)
    BY <1>3, <1>4, <1>5, <1>6, <1>8, <2>1
  <2>3. F # {} => Max(F) \in DOMAIN obs
    <3>1. DOMAIN obs = 1 .. Len(obs) /\ Len(obs) \in Nat
      BY DEF IInv, TypeOK
    <3>2. F \in SUBSET Nat /\ \A x \in F : x <= Len(obs)
      BY <3>1
    <3>3. F # {} => Max(F) \in F
      BY <3>1, <3>2, MaxOf
    <3>4. QED
      BY <3>3
  <2> HIDE DEF F
  <2>4. LatestAskDispatch(s, a) =
          IF F = {} THEN [status |-> "unknown", session |-> 0]
          ELSE IF obs[Max(F)].session = 0 \/ obs[Max(F)].status \notin {"dispatched", "failed"}
               THEN [status |-> "unreadable", session |-> 0]
          ELSE IF obs[Max(F)].status = "failed" THEN [status |-> "none", session |-> 0]
          ELSE [status |-> "dispatched", session |-> obs[Max(F)].session]
    BY DEF LatestAskDispatch, F
  <2>5. LatestAskDispatch(s, a).status # "none"
    BY <1>8, <2>3, <2>4
  <2>6. QED
    BY <1>1, <1>8, <2>2, <2>5
<1>9. QED
  BY <1>7, <1>8

LEMMA PendingKept ==
  ASSUME IInv, Appended
  PROVE  mem'.pending = mem.pending
<1>1. mem \in MemType
  BY DEF IInv, TypeOK
<1>2. CASE PlanLoaded \/ MemoryReconciled \/ RoundCapReached
  BY <1>2 DEF PlanLoaded, MemoryReconciled, RoundCapReached
<1>3. CASE PhaseStarted
  BY <1>1, <1>3 DEF PhaseStarted, MemType
<1>4. CASE StepStarted
  BY <1>1, <1>4 DEF StepStarted, MemType
<1>5. CASE StepCompleted
  BY <1>1, <1>5 DEF StepCompleted, MemType
<1>6. CASE AskSkipped
  BY <1>1, <1>6 DEF AskSkipped, MemType
<1>7. CASE GateRejected
  BY <1>1, <1>7 DEF GateRejected, MemType
<1>8. CASE StepFailed
  <2>1. mem' = mem \/ mem' = [mem EXCEPT !.failed[step] = line.obs]
    BY <1>8 DEF StepFailed
  <2>2. QED
    BY <1>1, <2>1 DEF MemType
<1>9. QED
  BY <1>2, <1>3, <1>4, <1>5, <1>6, <1>7, <1>8 DEF Appended

\* No step is in hand after these.
LEMMA OutOfHand ==
  ASSUME IInv, [Next]_vars, pc' \in AtWork
  PROVE  \/ StepStarted \/ GateRejected \/ AskResume
         \/ UNCHANGED <<journal, mem, step>> /\ pc \in AtWork
            /\ (pc' = "ask" => pc = "ask")
            /\ (pc' \in {"gate", "join"} \union AskLabels => pc \in {"gate", "join"} \union AskLabels)
<1> DEFINE Kept == /\ UNCHANGED <<journal, mem, step>> /\ pc \in AtWork
                   /\ pc' = "ask" => pc = "ask"
                   /\ pc' \in {"gate", "join"} \union AskLabels => pc \in {"gate", "join"} \union AskLabels
<1>1. ~Leaves /\ ~Prepare /\ ~Resume /\ ~SkipStep
  BY DEF Leaves, Prepare, Resume, SkipStep, AtWork, AskLabels, Enter, Appends, NextStep
<1>2. CASE Appended
  <2>1. ~PlanLoaded /\ ~MemoryReconciled
    BY DEF PlanLoaded, MemoryReconciled, AtWork, AskLabels, Enter, Appends, Goes
  <2>2. ~PhaseStarted /\ ~StepCompleted /\ ~AskSkipped
    BY DEF PhaseStarted, StepCompleted, AskSkipped, AtWork, AskLabels, NextStep
  <2>3. ~RoundCapReached /\ ~StepFailed
    BY DEF RoundCapReached, StepFailed, AtWork, AskLabels, Retains, NextStep
  <2>4. QED
    BY <1>2, <2>1, <2>2, <2>3 DEF Appended
<1>3. CASE UNCHANGED <<journal, mem, failures, step>> /\ Works
  <2>1. ~Readies
    <3>1. ~StartPhase /\ ~StartGate /\ ~StartJoin /\ ~AskUnconditional /\ ~Finish
      BY DEF StartPhase, StartGate, StartJoin, AskUnconditional, Finish, StartAttempt, Appends,
         AtWork, AskLabels
    <3>2. ~RunGate
      BY DEF RunGate, GateRuns, Appends, Retains, AtWork, AskLabels
    <3>3. ~JoinDeps
      BY DEF JoinDeps, Appends, Retains, AtWork, AskLabels
    <3>4. ~AskConditional
      BY DEF AskConditional, StartAttempt, Appends, Retains, AtWork, AskLabels
    <3>5. ~TakeAnswer
      BY DEF TakeAnswer, Appends, Retains, AtWork, AskLabels
    <3>6. QED
      BY <3>1, <3>2, <3>3, <3>4, <3>5 DEF Readies
  <2>2. CASE AskResume
    BY <2>2
  <2>3. CASE CreateSession
    BY <1>3, <2>3 DEF CreateSession, At, Goes, AtWork, AskLabels
  <2>4. CASE <<pc, pc'>> \in {<<"dispatch", "send">>, <<"send", "poll">>, <<"poll", "answer">>}
    BY <1>3, <2>4 DEF AtWork, AskLabels
  <2>5. CASE UNCHANGED <<pc, line>>
    BY <1>3, <2>5
  <2>6. pc' # "retain"
    BY DEF AtWork, AskLabels
  <2>7. QED
    BY <1>3, <2>1, <2>2, <2>3, <2>4, <2>5, <2>6 DEF Works
<1>4. QED
  BY <1>1, <1>2, <1>3, Classes

LEMMA PendingStep ==
  ASSUME History, [Next]_vars
  PROVE  \A s \in Steps : mem'.pending[s].status # "none" => Plan[s].type = "ask" /\ Opened(journal', s)
<1>1. IInv /\ \A s \in Steps : mem.pending[s].status # "none" => Plan[s].type = "ask" /\ Opened(journal, s)
  BY DEF History, InHand
<1>2. CASE mem'.pending = mem.pending
  BY <1>1, <1>2, StaysSaid
<1>3. CASE mem' = EmptyState
  BY <1>3 DEF EmptyState
<1>4. CASE Resume
  <2>1. mem' = Replay(journal)
    BY <1>4 DEF Resume
  <2>2. QED
    BY <1>1, <2>1, ReplayPending, StaysSaid
<1>5. CASE Appended
  BY <1>1, <1>2, <1>5, PendingKept
<1>6. QED
  BY <1>1, <1>2, <1>3, <1>4, <1>5, Classes DEF Leaves, Prepare, SkipStep, InStep

\* A step that execute goes on with has not ended.
LEMMA NotEnded ==
  ASSUME History, pc # "idle", step \in Steps, ~Settles(step)
  PROVE  ~EndedBy(journal, Len(journal), step)
<1>1. IInv /\ Sound(journal, obs) /\ Stands(mem, journal)
  BY DEF History, MemoryStands
<1>2. mem.completed[step] = 0 /\ mem.failed[step] = 0
  BY DEF Settles
<1>3. QED
  BY <1>1, <1>2, MemorySays

LEMMA InHandStep == History /\ [Next]_vars => InHand'
<1> SUFFICES ASSUME History, [Next]_vars PROVE InHand'
  OBVIOUS
<1>1. IInv
  BY DEF History
<1>2. pc = "record" => May(journal, Len(journal), obs, line)
  BY DEF History, LineMay
<1>3. CASE pc' \notin AtWork
  BY <1>3, PendingStep DEF InHand, AtWork, AskLabels
<1>4. CASE StepStarted
  <2>1. /\ pc = "record" /\ line.kind = "STEP_STARTED" /\ line.step = step /\ step \in Steps
        /\ journal' = Append(journal, line) /\ step' = step
    BY <1>1, <1>4 DEF StepStarted, Recorded, At, Write, IInv, InPlace, StepKinds, Kinds
  <2>2. ~EndedBy(journal, Len(journal), step) /\ ~Ends(line, step)
    BY <1>2, <2>1 DEF May, MayRun, Ends
  <2>3. ~EndedBy(journal', Len(journal'), step) /\ Opened(journal', step)
    BY <1>1, <2>1, <2>2, LineSaid
  <2>4. mem'.pending[step].status = "none"
    BY <1>1, <1>4, <2>1, PendingKept DEF Appended, History, LineFits
  <2>5. QED
    BY <2>1, <2>3, <2>4, PendingStep DEF InHand
<1>5. CASE GateRejected
  <2>1. /\ pc = "record" /\ line.kind = "GATE_REJECTED" /\ line.step = step /\ step \in Steps
        /\ journal' = Append(journal, line) /\ step' = step
    BY <1>1, <1>5 DEF GateRejected, Recorded, At, Write, IInv, InPlace, StepKinds, Kinds
  <2>2. ~EndedBy(journal, Len(journal), step) /\ ~Ends(line, step)
    BY <1>2, <2>1 DEF May, MayRun, Naming, Ends
  <2>3. ~EndedBy(journal', Len(journal'), step)
    BY <1>1, <2>1, <2>2, LineSaid
  <2>4. pc' \in {"retain", "record", "again"}
    <3>1. CASE OverCap(mem')
      BY <1>5, <3>1 DEF GateRejected, Retains
    <3>2. CASE ~OverCap(mem')
      BY <1>5, <3>2 DEF GateRejected, Appends
    <3>3. QED
      BY <3>1, <3>2
  <2>5. QED
    BY <2>1, <2>3, <2>4, PendingStep DEF InHand, AskLabels
<1>6. CASE AskResume
  <2>1. /\ pc = "step" /\ step \in Steps /\ ~Settles(step) /\ mem.pending[step].status = "dispatched"
        /\ step' = step /\ journal' = journal /\ pc' \in {"send", "poll"}
    BY <1>6 DEF AskResume, Execute, Executing, At, Pending, InStep
  <2>2. ~EndedBy(journal, Len(journal), step)
    BY <2>1, NotEnded
  <2>3. Opened(journal, step)
    BY <2>1 DEF History, InHand
  <2>4. QED
    BY <2>1, <2>2, <2>3, PendingStep DEF InHand, AskLabels
<1>7. CASE UNCHANGED <<journal, mem, step>> /\ pc \in AtWork
           /\ (pc' = "ask" => pc = "ask")
           /\ (pc' \in {"gate", "join"} \union AskLabels => pc \in {"gate", "join"} \union AskLabels)
  BY <1>7 DEF History, InHand
<1>8. QED
  BY <1>1, <1>3, <1>4, <1>5, <1>6, <1>7, OutOfHand

\* An observation of a session that was not created names none.
LEMMA FailedFiles ==
  ASSUME History, [Next]_vars
  PROVE  \A n \in DOMAIN obs' : obs'[n].status = "failed" => obs'[n].session = 0
<1>1. obs \in Seq(ObsType) /\ \A n \in DOMAIN obs : obs[n].status = "failed" => obs[n].session = 0
  BY DEF History, Known, IInv, TypeOK
<1>2. ASSUME NEW o \in ObsType, o.status = "failed" => o.session = 0, obs' = Append(obs, o)
      PROVE  \A n \in DOMAIN obs' : obs'[n].status = "failed" => obs'[n].session = 0
  <2>1. \A n \in DOMAIN obs' : obs'[n] = IF n \in DOMAIN obs THEN obs[n] ELSE o
    BY <1>1, <1>2
  <2>2. QED
    BY <1>1, <1>2, <2>1
<1>3. QED
  BY <1>1, <1>2, ObsShape DEF History, ObsGrows

\* No step of the process, and no replay, loses sight of a session.
LEMMA ReachedStep ==
  ASSUME History, [Next]_vars, NEW n \in DOMAIN sessions, pc' # "idle"
  PROVE  LET s == sessions[n].step
         IN  \/ s < step' \/ mem'.completed[s] # 0 \/ mem'.pending[s].status # "none"
             \/ s = step' /\ GoesOn'
<1> DEFINE s == sessions[n].step
           R == \/ s < step' \/ mem'.completed[s] # 0 \/ mem'.pending[s].status # "none"
                \/ s = step' /\ GoesOn'
<1>1. IInv /\ Plan[s].type = "ask" /\ Opened(journal, s) /\ (pc # "idle" => Reached(s))
  BY DEF History, Known
<1>2. s \in Steps /\ s \in Nat /\ step \in Nat
  <2>1. sessions[n] \in SessionType
    BY <1>1 DEF IInv, TypeOK
  <2>2. QED
    BY <1>1, <2>1, Constants DEF SessionType, IInv, TypeOK
<1> SUFFICES R
  OBVIOUS
<1> HIDE DEF s
<1>3. CASE Leaves
  BY <1>3 DEF Leaves
<1>4. journal # <<>>
  BY <1>1 DEF Opened
<1>5. CASE Prepare
  BY <1>4, <1>5 DEF Prepare, Starts, At, History, Blank
<1>6. CASE Resume
  <2>1. mem' = Replay(journal)
    BY <1>6 DEF Resume
  <2>2. CASE \E i \in DOMAIN journal : journal[i].kind = "STEP_COMPLETED" /\ journal[i].step = s
    <3>1. PICK i \in DOMAIN journal : journal[i].kind = "STEP_COMPLETED" /\ journal[i].step = s
      BY <2>2
    <3>2. Ends(journal[i], s) /\ journal \in Seq(RecordType) /\ obs \in Seq(ObsType) /\ Sound(journal, obs)
      BY <1>1, <3>1 DEF Ends, IInv, TypeOK, History
    <3>3. Done(journal, s) # 0 /\ Verified(journal, s) = Done(journal, s)
      BY <1>2, <3>1, <3>2, Resolve, VerifiedIsDone
    <3>4. mem'.completed[s] # 0
      BY <1>2, <2>1, <3>3 DEF Replay
    <3>5. QED
      BY <3>4
  <2>3. CASE ~\E i \in DOMAIN journal : journal[i].kind = "STEP_COMPLETED" /\ journal[i].step = s
    <3>1. Replay(journal).pending[s].status # "none"
      BY <1>1, <1>2, <2>3, ReplayPending DEF History, Known
    <3>2. QED
      BY <2>1, <3>1
  <2>4. QED
    BY <2>2, <2>3
<1>7. CASE SkipStep
  <2>1. step' = step + 1 /\ mem' = mem /\ pc = "step"
    BY <1>7 DEF SkipStep, NextStep, InStep, At
  <2>2. QED
    BY <1>1, <1>2, <2>1 DEF Reached
<1>8. CASE Appended
  <2>1. pc = "record"
    BY <1>8 DEF Appended, PlanLoaded, MemoryReconciled, PhaseStarted, StepStarted, StepCompleted, AskSkipped,
       GateRejected, RoundCapReached, StepFailed, Recorded, At
  <2>2. mem'.pending = mem.pending /\ mem \in MemType
    BY <1>1, <1>8, PendingKept DEF IInv, TypeOK
  <2>3. CASE PlanLoaded
    BY <1>4, <2>1, <2>3 DEF PlanLoaded, Recorded, History, LineFits
  <2>4. ASSUME step' = step, mem'.completed = mem.completed, line.kind # "STEP_COMPLETED" PROVE R
    BY <1>1, <2>1, <2>2, <2>4 DEF Reached, GoesOn, Holding
  <2>5. ASSUME step' = step + 1, mem'.completed[s] = mem.completed[s] \/ s = step PROVE R
    BY <1>1, <1>2, <2>1, <2>2, <2>5 DEF Reached
  <2>6. CASE MemoryReconciled \/ StepStarted \/ GateRejected \/ RoundCapReached
    <3>1. step' = step /\ line.kind # "STEP_COMPLETED"
      BY <2>6 DEF MemoryReconciled, StepStarted, GateRejected, RoundCapReached, Recorded
    <3>2. mem'.completed = mem.completed
      BY <2>2, <2>6 DEF MemoryReconciled, StepStarted, GateRejected, RoundCapReached, MemType
    <3>3. QED
      BY <2>4, <3>1, <3>2
  <2>7. CASE PhaseStarted \/ AskSkipped
    <3>1. step' = step + 1 /\ mem'.completed = mem.completed
      BY <2>2, <2>7 DEF PhaseStarted, AskSkipped, NextStep, MemType
    <3>2. QED
      BY <2>5, <3>1
  <2>8. CASE StepCompleted
    <3>1. step' = step + 1 /\ (s # step => mem'.completed[s] = mem.completed[s])
      BY <2>2, <2>8 DEF StepCompleted, NextStep, MemType
    <3>2. QED
      BY <2>5, <3>1
  <2>9. CASE StepFailed
    <3>1. mem'.completed = mem.completed /\ line.kind # "STEP_COMPLETED"
      <4>1. mem' = mem \/ mem' = [mem EXCEPT !.failed[step] = line.obs]
        BY <2>9 DEF StepFailed
      <4>2. QED
        BY <2>2, <2>9, <4>1 DEF MemType, StepFailed, Recorded
    <3>2. step' \in {step, step + 1}
      BY <2>9 DEF StepFailed, NextStep
    <3>3. QED
      BY <2>4, <2>5, <3>1, <3>2
  <2>10. QED
    BY <1>8, <2>3, <2>6, <2>7, <2>8, <2>9 DEF Appended
<1>9. CASE UNCHANGED <<journal, mem, failures, step>> /\ Works
  <2>1. pc # "idle" /\ (GoesOn => GoesOn')
    <3>1. CASE Readies /\ pc \notin {"idle", "retain", "record"}
      <4>1. TakeAnswer => GoesOn'
        BY DEF TakeAnswer, Appends, Retains, Record, GoesOn, Holding
      <4>2. Readies /\ ~TakeAnswer => pc \in {"step", "again", "gate", "join"}
        BY DEF Readies, StartPhase, StartGate, RunGate, GateRuns, StartJoin, JoinDeps, AskUnconditional,
           AskConditional, Finish, Fresh, Execute, Executing, At
      <4>3. QED
        BY <3>1, <4>1, <4>2 DEF GoesOn, Holding
    <3>2. CASE AskResume \/ CreateSession
      BY <3>2 DEF AskResume, CreateSession, Execute, Executing, At, GoesOn, Holding
    <3>3. CASE pc \notin {"idle", "retain"} /\ pc' = "retain"
      BY <3>3 DEF GoesOn, Holding
    <3>4. CASE <<pc, pc'>> \in {<<"dispatch", "send">>, <<"send", "poll">>, <<"poll", "answer">>}
      BY <3>4 DEF GoesOn, Holding
    <3>5. CASE UNCHANGED <<pc, line>>
      BY <3>5 DEF GoesOn, Holding
    <3>6. QED
      BY <1>9, <3>1, <3>2, <3>3, <3>4, <3>5 DEF Works
  <2>2. QED
    BY <1>1, <1>9, <2>1 DEF Reached
<1>10. QED
  BY <1>1, <1>3, <1>5, <1>6, <1>7, <1>8, <1>9, Classes

LEMMA KnownStep == History /\ [Next]_vars => Known'
<1> SUFFICES ASSUME History, [Next]_vars PROVE Known'
  OBVIOUS
<1>1. IInv /\ Known
  BY DEF History
<1>2. ASSUME NEW n \in DOMAIN sessions', n \notin DOMAIN sessions
      PROVE  /\ Plan[sessions'[n].step].type = "ask" /\ Opened(journal', sessions'[n].step)
             /\ sessions'[n].step = step' /\ GoesOn'
  <2>1. pc = "ask" /\ pc' = "dispatch" /\ step' = step /\ sessions'[n].step = step
    BY <1>1, <1>2, SessionsKept
  <2>2. Plan[step].type = "ask" /\ Opened(journal, step)
    BY <2>1 DEF History, InHand, AskLabels, IInv, InPlace
  <2>3. QED
    BY <1>1, <2>1, <2>2, StaysSaid DEF GoesOn, Holding
<1>3. ASSUME NEW n \in DOMAIN sessions', n \in DOMAIN sessions
      PROVE  /\ sessions'[n].step = sessions[n].step
             /\ Plan[sessions'[n].step].type = "ask" /\ Opened(journal', sessions'[n].step)
  BY <1>1, <1>3, SessionsKept, StaysSaid DEF Known
<1>4. ASSUME NEW n \in DOMAIN sessions', pc' # "idle"
      PROVE  LET s == sessions'[n].step
             IN  \/ s < step' \/ mem'.completed[s] # 0 \/ mem'.pending[s].status # "none"
                 \/ s = step' /\ GoesOn'
  <2>1. CASE n \in DOMAIN sessions
    BY <1>3, <1>4, <2>1, ReachedStep
  <2>2. CASE n \notin DOMAIN sessions
    BY <1>2, <2>2
  <2>3. QED
    BY <2>1, <2>2
<1>5. \A n \in DOMAIN sessions' :
        Plan[sessions'[n].step].type = "ask" /\ Opened(journal', sessions'[n].step)
  BY <1>2, <1>3
<1>6. QED
  BY <1>4, <1>5, FailedFiles DEF Known, Reached

------------------------------------------------------------------------------
(* The line in hand may be appended.                                       *)

\* A process at a step has a journal with its plan, and the files it had.
LEMMA InRun ==
  ASSUME History, [Next]_vars
  PROVE  /\ IInv /\ Sound(journal, obs) /\ (pc # "idle" => Stands(mem, journal))
         /\ journal \in Seq(RecordType) /\ Len(journal) \in Nat /\ DOMAIN journal = 1 .. Len(journal)
         /\ pc \notin {"idle", "record"} => Len(journal) # 0
         /\ DOMAIN obs \subseteq DOMAIN obs' /\ \A x \in DOMAIN obs : obs'[x] = obs[x]
<1>1. IInv /\ Sound(journal, obs) /\ (pc # "idle" => Stands(mem, journal))
  BY DEF History, MemoryStands
<1>2. journal \in Seq(RecordType) /\ Len(journal) \in Nat /\ DOMAIN journal = 1 .. Len(journal)
  BY <1>1 DEF IInv, TypeOK
<1>3. pc \notin {"idle", "record"} => Len(journal) # 0
  BY <1>1, <1>2 DEF IInv, Confirmed
<1>4. QED
  BY <1>1, <1>2, <1>3, ObsGrown

\* What starts, and what completes, a step.
LEMMA MayStart ==
  ASSUME NEW j, NEW n \in Nat, n # 0, NEW o, NEW e, e.kind = "STEP_STARTED", e.step \in Steps,
         ~EndedBy(j, n, e.step), \A s \in Steps : s < e.step => PassedBy(j, n, s),
         Plan[e.step].from # 0 => Based(j, n, o, e, {"none", "equal"})
  PROVE  May(j, n, o, e)
  BY DEF May, MayName, MayRun, MayFail, MayComplete, MayAsk, Naming, StepKinds, Kinds, Opens

LEMMA MayEnd ==
  ASSUME NEW j, NEW n \in Nat, n # 0, NEW o, NEW e, e.kind = "STEP_COMPLETED", e.step \in Steps,
         ~EndedBy(j, n, e.step), e.obs \in DOMAIN o,
         Plan[e.step].from # 0 => Based(j, n, o, e, {"none", "equal"}),
         MayComplete(j, n, e)
  PROVE  May(j, n, o, e)
  BY DEF May, MayName, MayRun, MayFail, MayAsk, Naming, StepKinds, Kinds, Opens

\* What the step was started on, it completes on.
LEMMA StartedBased ==
  ASSUME NEW j \in Seq(RecordType), NEW o, NEW p, Sound(j, o), NEW e, Opened(j, e.step), Plan[e.step].from # 0,
         e.kind # "ASK_SKIPPED", DOMAIN o \subseteq DOMAIN p, \A x \in DOMAIN o : p[x] = o[x]
  PROVE  Based(j, Len(j), p, e, {"none", "equal"})
<1>1. PICK i \in DOMAIN j : j[i].kind = "STEP_STARTED" /\ j[i].step = e.step
  BY DEF Opened
<1>2. Based(j, i - 1, o, j[i], {"none", "equal"})
  BY <1>1 DEF Sound, May, MayAsk
<1>3. \A k \in 1 .. (i - 1) : k \in 1 .. Len(j)
  BY <1>1
<1>4. QED
  BY <1>1, <1>2, <1>3 DEF Based

\* The source of a conditional ask, and its verdict.
LEMMA SourceEnds ==
  ASSUME History, pc # "idle", step \in Steps, Source(step) # 0
  PROVE  /\ Plan[step].from # 0 /\ Plan[step].from \in Steps /\ Plan[step].from < step
         /\ Source(step) \in DOMAIN obs
         /\ \E i \in 1 .. Len(journal) :
              Ends(journal[i], Plan[step].from) /\ journal[i].obs = Source(step)
<1> DEFINE t == Plan[step].from
<1>1. /\ IInv /\ Sound(journal, obs) /\ Stands(mem, journal) /\ DOMAIN journal = 1 .. Len(journal)
  BY DEF History, MemoryStands, IInv, TypeOK
<1>2. t # 0 /\ t \in Steps /\ t < step
  <2>1. t # 0 /\ t \in 0 .. (step - 1)
    BY PlanAssumption DEF Source
  <2>2. QED
    BY <2>1, Constants
<1>3. Source(step) = IF mem.completed[t] # 0 THEN mem.completed[t] ELSE mem.failed[t]
  BY <1>2 DEF Source
<1>4. PICK i \in DOMAIN journal : Ends(journal[i], t) /\ journal[i].obs = Source(step)
  BY <1>1, <1>2, <1>3, MemorySays
<1>5. Source(step) \in DOMAIN obs
  <2>1. journal[i].obs \in DOMAIN obs
    BY <1>1, <1>4 DEF Sound, May, MayName, Ends, Naming
  <2>2. QED
    BY <1>4, <2>1
<1>6. QED
  BY <1>1, <1>2, <1>4, <1>5

LEMMA SourceBased ==
  ASSUME History, [Next]_vars, pc # "idle", step \in Steps, Source(step) # 0,
         NEW results, obs[Source(step)].result \in results, NEW e, e.step = step,
         e.kind = "ASK_SKIPPED" => e.obs = Source(step)
  PROVE  Based(journal, Len(journal), obs', e, results) /\ Source(step) \in DOMAIN obs'
<1>1. DOMAIN obs \subseteq DOMAIN obs' /\ \A x \in DOMAIN obs : obs'[x] = obs[x]
  BY InRun
<1>2. /\ Source(step) \in DOMAIN obs
      /\ \E i \in 1 .. Len(journal) :
           Ends(journal[i], Plan[step].from) /\ journal[i].obs = Source(step)
  BY SourceEnds
<1>3. QED
  BY <1>1, <1>2 DEF Based

\* A step is started in its turn.
LEMMA StartMay ==
  ASSUME History, [Next]_vars, pc \notin {"idle", "record"}, step \in Steps, StartAttempt, journal' = journal,
         ~EndedBy(journal, Len(journal), step),
         Plan[step].from # 0 =>
           \A e : e.step = step /\ e.kind # "ASK_SKIPPED" =>
             Based(journal, Len(journal), obs', e, {"none", "equal"})
  PROVE  May(journal', Len(journal'), obs', line')
<1>1. line'.kind = "STEP_STARTED" /\ line'.step = step
  BY RecordIs DEF StartAttempt, Appends
<1>2. Len(journal) \in Nat /\ Len(journal) # 0
  BY InRun
<1>3. \A s \in Steps : s < step => PassedBy(journal, Len(journal), s)
  BY DEF History, Passed
<1>4. QED
  BY <1>1, <1>2, <1>3, MayStart

\* A gate that ran: its verdict is on its own step.
LEMMA GateMay ==
  ASSUME History, [Next]_vars, RunGate, pc' = "record"
  PROVE  May(journal', Len(journal'), obs', line')
<1>1. /\ pc = "gate" /\ journal' = journal /\ step \in Steps /\ Plan[step].type = "gate"
      /\ NewObs \in DOMAIN obs' /\ ~EndedBy(journal, Len(journal), step)
      /\ line' = Record("STEP_COMPLETED", step, mem.attempts[step], NewObs, {})
         \/ line' = Record("GATE_REJECTED", step, mem.attempts[step], NewObs, {})
  <2>1. pc = "gate" /\ journal' = journal
        /\ (line' = Record("STEP_COMPLETED", step, mem.attempts[step], NewObs, {})
            \/ line' = Record("GATE_REJECTED", step, mem.attempts[step], NewObs, {}))
    BY DEF RunGate, GateRuns, At, InStep, Retains, Appends
  <2>2. PICK o : obs' = Append(obs, o)
    BY DEF RunGate, GateRuns, Observes
  <2>3. NewObs \in DOMAIN obs'
    BY <2>2 DEF NewObs, History, IInv, TypeOK
  <2>4. QED
    BY <2>1, <2>3 DEF History, IInv, InPlace, InHand, AtWork
<1>2. Plan[step].from = 0
  BY <1>1, PlanAssumption
<1>3. Len(journal) \in Nat /\ Len(journal) # 0
  BY <1>1, InRun
<1>4. CASE line' = Record("STEP_COMPLETED", step, mem.attempts[step], NewObs, {})
  <2>1. line'.kind = "STEP_COMPLETED" /\ line'.step = step /\ line'.obs = NewObs /\ line'.deps = {}
    BY <1>4, RecordIs
  <2>2. MayComplete(journal, Len(journal), line')
    BY <1>1, <1>2, <2>1 DEF MayComplete
  <2>3. QED
    BY <1>1, <1>2, <1>3, <2>1, <2>2, MayEnd
<1>5. CASE line' = Record("GATE_REJECTED", step, mem.attempts[step], NewObs, {})
  <2>1. line'.kind = "GATE_REJECTED" /\ line'.step = step /\ line'.obs = NewObs
    BY <1>5, RecordIs
  <2>2. QED
    BY <1>1, <1>3, <2>1
    DEF May, MayName, MayRun, MayFail, MayComplete, MayAsk, Naming, StepKinds, Kinds, Opens
<1>6. QED
  BY <1>1, <1>4, <1>5

\* A barrier: every dependency completed.
LEMMA JoinMay ==
  ASSUME History, [Next]_vars, JoinDeps, pc' = "record"
  PROVE  May(journal', Len(journal'), obs', line')
<1> DEFINE deps == {<<d, mem.completed[d]>> : d \in Plan[step].depends}
<1>1. /\ pc = "join" /\ journal' = journal /\ \A d \in Plan[step].depends : mem.completed[d] # 0
      /\ line' = Record("STEP_COMPLETED", step, mem.attempts[step], NewObs, deps)
      /\ Observes(step, "join", mem.attempts[step], "", 0, "none", 0)
  BY DEF JoinDeps, At, InStep, Retains, Appends
<1>2. step \in Steps /\ Plan[step].type = "join" /\ ~EndedBy(journal, Len(journal), step)
  BY <1>1 DEF History, IInv, InPlace, InHand, AtWork
<1>3. NewObs \in DOMAIN obs'
  <2>1. PICK o : obs' = Append(obs, o)
    BY <1>1 DEF Observes
  <2>2. QED
    BY <2>1 DEF NewObs, History, IInv, TypeOK
<1>4. Plan[step].from = 0 /\ Plan[step].depends \subseteq 1 .. (step - 1)
  BY <1>2, PlanAssumption
<1>5. ASSUME NEW d \in deps
      PROVE  /\ d[1] \in Plan[step].depends /\ d[1] \in Steps /\ d[1] < step
             /\ \E i \in 1 .. Len(journal) : /\ journal[i].kind = "STEP_COMPLETED"
                                             /\ Ends(journal[i], d[1]) /\ journal[i].obs = d[2]
  <2>1. PICK t \in Plan[step].depends : d = <<t, mem.completed[t]>>
    OBVIOUS
  <2>2. t \in Steps /\ t < step
    BY <1>2, <1>4, Constants
  <2>3. \E i \in DOMAIN journal : /\ journal[i].kind = "STEP_COMPLETED" /\ Ends(journal[i], t)
                                  /\ journal[i].obs = mem.completed[t]
    BY <1>1, <2>2, InRun, MemorySays
  <2>4. QED
    BY <2>1, <2>2, <2>3, InRun
<1>6. {d[1] : d \in deps} = Plan[step].depends
  <2>1. \A t \in Plan[step].depends : <<t, mem.completed[t]>> \in deps
    OBVIOUS
  <2>2. \A t \in Plan[step].depends : <<t, mem.completed[t]>>[1] = t
    OBVIOUS
  <2> HIDE DEF deps
  <2>3. Plan[step].depends \subseteq {d[1] : d \in deps}
    BY <2>1, <2>2
  <2>4. {d[1] : d \in deps} \subseteq Plan[step].depends
    BY <1>5
  <2>5. QED
    BY <2>3, <2>4
<1>r. line' = Record("STEP_COMPLETED", step, mem.attempts[step], NewObs, deps)
  BY <1>1
<1> HIDE DEF deps
<1>7. /\ line'.kind = "STEP_COMPLETED" /\ line'.step = step /\ line'.obs = NewObs /\ line'.deps = deps
  BY <1>r, RecordIs
<1>8. MayComplete(journal, Len(journal), line')
  BY <1>4, <1>5, <1>6, <1>7 DEF MayComplete, Ends
<1>9. QED
  BY <1>1, <1>2, <1>3, <1>4, <1>7, <1>8, InRun, MayEnd

\* An answer: the step it depends on ended with what it was asked on.
LEMMA AnswerMay ==
  ASSUME History, [Next]_vars, TakeAnswer, pc' = "record"
  PROVE  May(journal', Len(journal'), obs', line')
<1> DEFINE deps == IF Source(step) = 0 THEN {} ELSE {<<Plan[step].from, Source(step)>>}
<1>1. /\ pc = "answer" /\ journal' = journal
      /\ line' = Record("STEP_COMPLETED", step, mem.attempts[step], NewObs, deps)
      /\ \E result : WriteAskState("completed", session, result)
  BY DEF TakeAnswer, At, InStep, Retains, Appends
<1>2. /\ step \in Steps /\ Plan[step].type = "ask" /\ ~EndedBy(journal, Len(journal), step)
      /\ Opened(journal, step)
  BY <1>1 DEF History, IInv, InPlace, InHand, AtWork, AskLabels
<1>3. NewObs \in DOMAIN obs'
  <2>1. PICK o : obs' = Append(obs, o)
    BY <1>1 DEF WriteAskState, Observes
  <2>2. QED
    BY <2>1 DEF NewObs, History, IInv, TypeOK
<1>4. ASSUME NEW d \in deps
      PROVE  /\ d[1] \in Steps /\ d[1] < step /\ d[1] = Plan[step].from
             /\ \E i \in 1 .. Len(journal) : Ends(journal[i], d[1]) /\ journal[i].obs = d[2]
  <2>1. Source(step) # 0 /\ d = <<Plan[step].from, Source(step)>>
    BY <1>4
  <2>2. /\ Plan[step].from \in Steps /\ Plan[step].from < step
        /\ \E i \in 1 .. Len(journal) :
             Ends(journal[i], Plan[step].from) /\ journal[i].obs = Source(step)
    BY <1>1, <1>2, <2>1, SourceEnds
  <2>3. QED
    BY <2>1, <2>2
<1> HIDE DEF deps
<1>5. line'.kind = "STEP_COMPLETED" /\ line'.step = step /\ line'.obs = NewObs /\ line'.deps = deps
  BY <1>1, RecordIs
<1>6. MayComplete(journal, Len(journal), line')
  BY <1>2, <1>4, <1>5 DEF MayComplete
<1>7. Plan[step].from # 0 => Based(journal, Len(journal), obs', line', {"none", "equal"})
  BY <1>2, <1>5, InRun, StartedBased
<1>8. QED
  BY <1>1, <1>2, <1>3, <1>5, <1>6, <1>7, InRun, MayEnd

\* Whatever the process is about to append it may.
LEMMA ReadyMay ==
  ASSUME History, [Next]_vars, Readies, pc \notin {"idle", "retain", "record"}, UNCHANGED <<journal, step>>,
         pc' = "record"
  PROVE  May(journal', Len(journal'), obs', line')
<1>1. Len(journal) \in Nat /\ Len(journal) # 0 /\ IInv
  BY InRun
<1>2. \A s \in Steps : s < step => PassedBy(journal, Len(journal), s)
  BY DEF History, Passed
<1>3. \A s \in Steps : Plan[s].type # "ask" => Plan[s].from = 0
  BY PlanAssumption
<1>4. \A type : Execute(type) => step \in Steps /\ Plan[step].type = type
                                 /\ ~EndedBy(journal, Len(journal), step)
  <2>1. ASSUME NEW type, Execute(type) PROVE step \in Steps /\ Plan[step].type = type /\ ~Settles(step)
    BY <2>1 DEF Execute, Executing
  <2>2. QED
    BY <2>1, NotEnded
<1>5. CASE StartPhase
  <2>1. line' = Bare("PHASE_STARTED", step) /\ step \in Steps
    BY <1>4, <1>5 DEF StartPhase, Appends
  <2>2. line'.kind = "PHASE_STARTED" /\ line'.step = step
    BY <2>1, RecordIs DEF Bare
  <2>3. QED
    BY <1>1, <1>2, <2>1, <2>2
    DEF May, MayName, MayRun, MayFail, MayComplete, MayAsk, Naming, StepKinds, Kinds, Opens
<1>6. CASE StartGate
  <2>1. step \in Steps /\ Plan[step].from = 0 /\ ~EndedBy(journal, Len(journal), step)
    <3>1. CASE Execute("gate")
      BY <1>3, <1>4, <3>1
    <3>2. CASE pc = "again"
      BY <1>3, <3>2 DEF History, IInv, InPlace, InHand, AtWork
    <3>3. QED
      BY <1>6, <3>1, <3>2 DEF StartGate, At
  <2>2. QED
    BY <1>6, <2>1, StartMay DEF StartGate
<1>7. CASE RunGate
  BY <1>7, GateMay
<1>8. CASE StartJoin
  <2>1. step \in Steps /\ Plan[step].from = 0 /\ ~EndedBy(journal, Len(journal), step)
    BY <1>3, <1>4, <1>8 DEF StartJoin
  <2>2. QED
    BY <1>8, <2>1, StartMay DEF StartJoin
<1>9. CASE JoinDeps
  BY <1>9, JoinMay
<1>10. CASE AskUnconditional
  <2>1. step \in Steps /\ Plan[step].from = 0 /\ ~EndedBy(journal, Len(journal), step)
    BY <1>4, <1>10 DEF AskUnconditional, Fresh
  <2>2. QED
    BY <1>10, <2>1, StartMay DEF AskUnconditional
<1>11. CASE AskConditional
  <2>1. step \in Steps /\ Plan[step].from # 0 /\ ~EndedBy(journal, Len(journal), step)
    BY <1>4, <1>11 DEF AskConditional, Fresh
  <2>2. PICK v \in Verdicts :
          /\ Verdict(v)
          /\ \/ v = "equal" /\ StartAttempt
             \/ v = "other" /\ Appends(Record("ASK_SKIPPED", step, 0, Source(step), {}))
    BY <1>11 DEF AskConditional, Retains
  <2>3. Source(step) # 0 /\ obs[Source(step)].result \in {"none", v}
    BY <2>2 DEF Verdict
  <2>4. CASE v = "equal" /\ StartAttempt
    <3>1. ASSUME NEW e, e.step = step, e.kind # "ASK_SKIPPED"
          PROVE  Based(journal, Len(journal), obs', e, {"none", "equal"})
      BY <2>1, <2>3, <2>4, <3>1, SourceBased
    <3>2. QED
      BY <2>1, <2>4, <3>1, StartMay
  <2>5. CASE v = "other" /\ Appends(Record("ASK_SKIPPED", step, 0, Source(step), {}))
    <3>1. line'.kind = "ASK_SKIPPED" /\ line'.step = step /\ line'.obs = Source(step)
      BY <2>5, RecordIs DEF Appends
    <3>2. Based(journal, Len(journal), obs', line', {"none", "other"}) /\ Source(step) \in DOMAIN obs'
      BY <2>1, <2>3, <2>5, <3>1, SourceBased
    <3>3. QED
      BY <1>1, <1>2, <2>1, <3>1, <3>2
      DEF May, MayName, MayRun, MayFail, MayComplete, MayAsk, Naming, StepKinds, Kinds, Opens
  <2>6. QED
    BY <2>2, <2>4, <2>5
<1>12. CASE TakeAnswer
  BY <1>12, AnswerMay
<1>13. CASE Finish
  <2>1. line'.kind = "RUN_COMPLETED" /\ step = Len(Plan) + 1
    BY <1>13, RecordIs DEF Finish, Appends, Bare
  <2>2. \A s \in Steps : PassedBy(journal, Len(journal), s)
    BY <1>2, <2>1, Constants
  <2>3. QED
    BY <1>1, <2>1, <2>2
    DEF May, MayName, MayRun, MayFail, MayComplete, MayAsk, Naming, StepKinds, Kinds, Opens
<1>14. QED
  BY <1>5, <1>6, <1>7, <1>8, <1>9, <1>10, <1>11, <1>12, <1>13 DEF Readies

\* The records of a process that has just read or written its plan.
LEMMA MayPlain ==
  ASSUME NEW j, NEW n \in Nat, NEW o, NEW e,
         e.kind = "PLAN_LOADED" \/ (e.kind = "MEMORY_RECONCILED" /\ n # 0)
  PROVE  May(j, n, o, e)
  BY DEF May, MayName, MayRun, MayFail, MayComplete, MayAsk, Naming, StepKinds, Kinds, Opens

\* A rejection ends its gate, or is the last of its rounds.
LEMMA RejectedMay ==
  ASSUME History, [Next]_vars, GateRejected, pc' = "record"
  PROVE  May(journal', Len(journal'), obs', line')
<1>1. /\ pc = "record" /\ line.kind = "GATE_REJECTED" /\ line.step = step /\ step \in Steps
      /\ journal' = Append(journal, line) /\ Plan[step].type = "gate" /\ IInv /\ obs' = obs
  BY DEF GateRejected, Recorded, At, Write, History, IInv, InPlace, StepKinds, Kinds
<1>2. \/ line' = Record("STEP_FAILED", step, line.attempt, line.obs, {})
      \/ line' = Bare("ROUND_CAP_REACHED", step)
  <2>1. ~OverCap(mem')
    BY DEF GateRejected, Retains
  <2>2. CASE Plan[step].action # "retry"
    BY <2>1, <2>2 DEF GateRejected, Appends
  <2>3. CASE Plan[step].action = "retry" /\ failures + 1 >= Plan[step].rounds
    BY <2>1, <2>3 DEF GateRejected, Appends
  <2>4. CASE Plan[step].action = "retry" /\ ~(failures + 1 >= Plan[step].rounds)
    BY <2>1, <2>4 DEF GateRejected
  <2>5. QED
    BY <2>2, <2>3, <2>4
<1>3. May(journal, Len(journal), obs, line)
  BY <1>1 DEF History, LineMay
<1>4. /\ Len(journal') \in Nat /\ Len(journal') # 0 /\ Len(journal') \in 1 .. Len(journal')
      /\ journal'[Len(journal')] = line
  <2>1. journal \in Seq(RecordType) /\ Len(journal) \in Nat
    BY <1>1 DEF IInv, TypeOK
  <2>2. QED
    BY <1>1, <2>1
<1>5. ~EndedBy(journal', Len(journal'), step)
  <2>1. ~EndedBy(journal, Len(journal), step) /\ ~Ends(line, step)
    BY <1>1, <1>3 DEF May, MayRun, Naming, Ends
  <2>2. QED
    BY <1>1, <2>1, LineSaid
<1>6. line.obs \in DOMAIN obs'
  BY <1>1, <1>3 DEF May, MayName, Naming
<1>7. CASE line' = Record("STEP_FAILED", step, line.attempt, line.obs, {})
  <2>1. line'.kind = "STEP_FAILED" /\ line'.step = step /\ line'.obs = line.obs
    BY <1>7, RecordIs
  <2>2. MayFail(journal', Len(journal'), line')
    BY <1>1, <1>4, <2>1 DEF MayFail
  <2>3. QED
    BY <1>1, <1>4, <1>5, <1>6, <2>1, <2>2
    DEF May, MayName, MayRun, MayComplete, MayAsk, Naming, StepKinds, Kinds, Opens
<1>8. CASE line' = Bare("ROUND_CAP_REACHED", step)
  <2>1. line'.kind = "ROUND_CAP_REACHED" /\ line'.step = step
    BY <1>8, RecordIs DEF Bare
  <2>2. QED
    BY <1>1, <1>4, <2>1
    DEF May, MayName, MayRun, MayFail, MayComplete, MayAsk, Naming, StepKinds, Kinds, Opens
<1>9. QED
  BY <1>2, <1>7, <1>8

LEMMA LineMayStep == History /\ [Next]_vars => LineMay'
<1> SUFFICES ASSUME History, [Next]_vars, pc' = "record"
             PROVE  May(journal', Len(journal'), obs', line')
  BY DEF LineMay
<1>1. IInv /\ Len(journal) \in Nat /\ Len(journal') \in Nat
  BY JournalGrown DEF History, IInv, TypeOK
<1>2. CASE Leaves
  BY <1>2 DEF Leaves
<1>3. CASE Prepare
  <2>1. line'.kind = "PLAN_LOADED"
    BY <1>3, RecordIs DEF Prepare, Appends, Bare
  <2>2. QED
    BY <1>1, <2>1
    DEF May, MayName, MayRun, MayFail, MayComplete, MayAsk, Naming, StepKinds, Kinds, Opens
<1>4. CASE Resume
  <2>1. line'.kind = "MEMORY_RECONCILED" /\ journal' = journal
    BY <1>4, RecordIs DEF Resume, Enter, Appends, Bare, diskVars
  <2>2. Len(journal) # 0
    BY <1>1, <1>4 DEF Resume, Readable, IInv, TypeOK
  <2>3. QED
    BY <1>1, <2>1, <2>2, MayPlain
<1>5. CASE Appended
  <2>1. CASE PlanLoaded
    <3>1. line'.kind = "MEMORY_RECONCILED" /\ journal' = Append(journal, line)
      BY <2>1, RecordIs DEF PlanLoaded, Recorded, Write, Enter, Appends, Bare
    <3>2. Len(journal') # 0
      BY <1>1, <3>1 DEF IInv, TypeOK
    <3>3. QED
      BY <1>1, <3>1, <3>2, MayPlain
  <2>2. CASE GateRejected
    BY <2>2, RejectedMay
  <2>3. ~StepStarted
    <3>1. StepStarted => step \in Steps
      BY <1>1 DEF StepStarted, Recorded, At, IInv, InPlace, StepKinds, Kinds
    <3>2. QED
      BY <3>1, Constants DEF StepStarted, StepType
  <2>4. ~MemoryReconciled /\ ~PhaseStarted /\ ~StepCompleted /\ ~AskSkipped /\ ~RoundCapReached
    BY DEF MemoryReconciled, PhaseStarted, StepCompleted, AskSkipped, RoundCapReached, Goes, NextStep, Retains
  <2>5. ~StepFailed
    BY DEF StepFailed, NextStep, Retains
  <2>6. QED
    BY <1>5, <2>1, <2>2, <2>3, <2>4, <2>5 DEF Appended
<1>6. CASE SkipStep
  BY <1>6 DEF SkipStep, NextStep
<1>7. CASE UNCHANGED <<journal, mem, failures, step>> /\ Works
  <2>1. CASE Readies /\ pc \notin {"idle", "retain", "record"}
    BY <1>7, <2>1, ReadyMay
  <2>2. ~AskResume /\ ~CreateSession
    BY DEF AskResume, CreateSession, Goes
  <2>3. CASE UNCHANGED <<pc, line>>
    <3>1. May(journal, Len(journal), obs, line)
      BY <2>3 DEF History, LineMay
    <3>2. May(journal, Len(journal), obs', line)
      BY <3>1, InRun, MayExt
    <3>3. QED
      BY <1>7, <2>3, <3>2
  <2>4. QED
    BY <1>7, <2>1, <2>2, <2>3 DEF Works
<1>8. QED
  BY <1>1, <1>2, <1>3, <1>4, <1>5, <1>6, <1>7, Classes

LEMMA InitHistory == Init => History
<1> SUFFICES ASSUME Init PROVE History
  OBVIOUS
<1>1. IInv
  BY InitIInv
<1>2. journal = <<>> /\ obs = <<>> /\ sessions = <<>> /\ pc = "idle" /\ mem = EmptyState
      /\ failures = 0 /\ step = 0
  BY DEF Init
<1>3. DOMAIN journal = {} /\ DOMAIN obs = {} /\ DOMAIN sessions = {}
  BY <1>2
<1>4. \A s \in Steps : mem.pending[s].status = "none"
  BY <1>2 DEF EmptyState
<1>5. \A s \in Steps : ~(s < step)
  BY <1>2, Constants
<1>6. Sound(journal, obs) /\ NeverRedispatched
  BY <1>3 DEF Sound, NeverRedispatched
<1>7. LineMay /\ MemoryStands /\ Blank /\ LineFits /\ Passed /\ Budget
  BY <1>2, <1>5 DEF LineMay, MemoryStands, Blank, LineFits, Passed, Budget
<1>8. InHand /\ Known
  BY <1>2, <1>3, <1>4 DEF InHand, Known, AtWork, AskLabels
<1>9. QED
  BY <1>1, <1>6, <1>7, <1>8 DEF History

LEMMA StepHistory == History /\ [Next]_vars => History'
<1> SUFFICES ASSUME History, [Next]_vars PROVE History'
  OBVIOUS
<1>1. IInv' /\ Sound(journal', obs')
  BY StepIInv, SoundStep DEF History
<1>2. LineMay' /\ MemoryStands' /\ Blank' /\ LineFits' /\ Passed'
  BY LineMayStep, MemoryStep, BlankStep, LineFitsStep, PassedStep
<1>3. InHand' /\ Known' /\ NeverRedispatched' /\ Budget'
  BY InHandStep, KnownStep, NeverStep, BudgetStep
<1>4. QED
  BY <1>1, <1>2, <1>3 DEF History

(* The history invariant holds in every reachable state. *)
THEOREM HistoryInvariance == Spec => []History
  BY InitHistory, StepHistory, PTL DEF Spec

------------------------------------------------------------------------------
(* What the history invariant gives.                                       *)

(* A process keeps in memory what its journal says: one killed now and started *)
(* again goes on as it would have.                                             *)
THEOREM ReplayKept == Spec => []MemoryIsReplay
<1>1. History => MemoryIsReplay
  <2> SUFFICES ASSUME History, pc # "idle"
               PROVE  [mem EXCEPT !.pending = 0] = [Replay(journal) EXCEPT !.pending = 0]
    BY DEF MemoryIsReplay
  <2> DEFINE R == Replay(journal)
  <2>1. Stands(mem, journal) /\ Stands(R, journal) /\ mem \in MemType
    BY ReplayStands DEF History, MemoryStands, IInv, TypeOK
  <2>2. /\ mem.completed = [s \in Steps |-> mem.completed[s]]
        /\ mem.failed = [s \in Steps |-> mem.failed[s]]
        /\ mem.skipped = [s \in Steps |-> mem.skipped[s]]
        /\ mem.attempts = [s \in Steps |-> mem.attempts[s]]
    BY <2>1 DEF MemType
  <2>3. /\ R.completed = [s \in Steps |-> R.completed[s]]
        /\ R.failed = [s \in Steps |-> R.failed[s]]
        /\ R.skipped = [s \in Steps |-> R.skipped[s]]
        /\ R.attempts = [s \in Steps |-> R.attempts[s]]
    BY DEF Replay
  <2>4. /\ mem.completed = R.completed /\ mem.failed = R.failed
        /\ mem.skipped = R.skipped /\ mem.attempts = R.attempts
    <3> HIDE DEF R
    <3>1. QED
      BY <2>1, <2>2, <2>3 DEF Stands
  <2>5. mem.phase = R.phase /\ mem.count = R.count /\ mem.phases = R.phases
    BY <2>1 DEF Stands
  <2>6. [mem EXCEPT !.pending = 0] =
          [completed |-> mem.completed, failed |-> mem.failed, skipped |-> mem.skipped,
           attempts |-> mem.attempts, phase |-> mem.phase, count |-> mem.count,
           phases |-> mem.phases, pending |-> 0]
    BY <2>1 DEF MemType
  <2>7. R = [completed |-> R.completed, failed |-> R.failed, skipped |-> R.skipped,
             attempts |-> R.attempts, phase |-> R.phase, count |-> R.count,
             phases |-> R.phases, pending |-> R.pending]
    BY DEF Replay
  <2> HIDE DEF R
  <2>8. [R EXCEPT !.pending = 0] =
          [completed |-> R.completed, failed |-> R.failed, skipped |-> R.skipped,
           attempts |-> R.attempts, phase |-> R.phase, count |-> R.count,
           phases |-> R.phases, pending |-> 0]
    BY <2>7
  <2>9. [mem EXCEPT !.pending = 0] = [R EXCEPT !.pending = 0]
    BY <2>4, <2>5, <2>6, <2>8
  <2>10. QED
    BY <2>9 DEF R
<1>2. QED
  BY HistoryInvariance, <1>1, PTL

(* The journal tells one run of the plan, whatever number of processes wrote  *)
(* it: nothing is started again, and nothing opens before what it follows.    *)
THEOREM OneRunTold == Spec => []OneRun
<1>1. History => OneRun
  <2> SUFFICES ASSUME History PROVE OneRun
    OBVIOUS
  <2>1. Sound(journal, obs) /\ DOMAIN journal = 1 .. Len(journal) /\ Len(journal) \in Nat
    BY DEF History, IInv, TypeOK
  <2>2. NothingTwice
    <3> SUFFICES ASSUME NEW i \in DOMAIN journal, NEW k \in DOMAIN journal, i < k,
                        journal[k].kind = "STEP_STARTED"
                 PROVE  ~Ends(journal[i], journal[k].step)
      BY DEF NothingTwice
    <3>1. ~EndedBy(journal, k - 1, journal[k].step)
      BY <2>1 DEF Sound, May, MayRun
    <3>2. i \in 1 .. (k - 1)
      BY <2>1
    <3>3. QED
      BY <3>1, <3>2 DEF EndedBy
  <2>3. ASSUME NEW k \in DOMAIN journal, NEW s \in Steps,
               \/ Opens(journal[k]) /\ s < journal[k].step
               \/ journal[k].kind = "RUN_COMPLETED"
        PROVE  \E i \in 1 .. (k - 1) : Passes(journal[i], s)
    BY <2>1, <2>3 DEF Sound, May, MayRun, PassedBy
  <2>4. QED
    BY <2>2, <2>3 DEF OneRun
<1>2. QED
  BY HistoryInvariance, <1>1, PTL

(* Whatever is lost or killed, an ask is put to one session only. *)
THEOREM AskedOnce == Spec => []NeverRedispatched
<1>1. History => NeverRedispatched
  BY DEF History
<1>2. QED
  BY HistoryInvariance, <1>1, PTL

(* A phase does not get its rounds again with a new process. *)
THEOREM PhaseCapped == Spec => []PhaseBudget
<1>1. History => PhaseBudget
  <2> DEFINE at == PhaseAt(journal)
             R == {i \in DOMAIN journal : i > at /\ journal[i].kind = "GATE_REJECTED"}
  <2> SUFFICES ASSUME History, at # 0, Plan[journal[at].step].cap # 0, failures > 0, pc # "retain"
               PROVE  Cardinality(R) <= Plan[journal[at].step].cap
    BY DEF PhaseBudget
  <2>1. failures # 0
    BY DEF History, IInv, TypeOK
  <2>2. /\ IInv /\ Stands(mem, journal) /\ Sound(journal, obs) /\ ~OverCap(mem)
        /\ journal \in Seq(RecordType) /\ mem \in MemType
    BY <2>1 DEF History, Blank, MemoryStands, Budget, IInv, TypeOK
  <2>3. journal[at].step \in Steps
    BY <2>2, PhaseNamed
  <2>4. mem.phase = journal[at].step /\ mem.count = Cardinality(R) /\ mem.phase # 0 /\ mem.count \in Nat
    <3>1. mem.phase = journal[at].step
      BY <2>2 DEF Stands, PhaseOf
    <3>2. mem.count = Cardinality(R)
      BY <2>2 DEF Stands, PhaseCount
    <3>3. QED
      BY <2>2, <2>3, <3>1, <3>2, Constants DEF MemType
  <2>5. Plan[mem.phase].cap \in Nat
    BY <2>3, <2>4, Constants DEF StepType
  <2> HIDE DEF R
  <2>6. ~(mem.count > Plan[mem.phase].cap)
    BY <2>2, <2>4 DEF OverCap
  <2>7. QED
    BY <2>4, <2>5, <2>6
<1>2. QED
  BY HistoryInvariance, <1>1, PTL

\* The last observation a step that ended left is that of its end.
LEMMA ObservedIs ==
  ASSUME History, NEW k \in DOMAIN journal, NEW s, NEW i \in 1 .. (k - 1), Ends(journal[i], s)
  PROVE  ObservedBefore(s, k) = journal[i].obs
<1> DEFINE S == {n \in 1 .. (k - 1) :
                  /\ journal[n].step = s
                  /\ \/ journal[n].kind = "STEP_COMPLETED"
                     \/ journal[n].kind = "STEP_FAILED" /\ Plan[s].action = "continue"}
<1>1. journal \in Seq(RecordType) /\ DOMAIN journal = 1 .. Len(journal) /\ Len(journal) \in Nat
      /\ Sound(journal, obs)
  BY DEF History, IInv, TypeOK
<1>2. \A n \in 1 .. (k - 1) : n \in DOMAIN journal
  BY <1>1
<1>3. \A n \in S : n \in DOMAIN journal /\ Ends(journal[n], s)
  BY <1>2 DEF Ends
<1>4. S = {i}
  <2>1. \A n \in S : n = i
    BY <1>1, <1>2, <1>3, EndsOnce
  <2>2. i \in S
    BY DEF Ends
  <2> HIDE DEF S
  <2>3. QED
    BY <2>1, <2>2
<1>5. Max({0} \union S) = i
  BY <1>4, MaxOfOne
<1>6. QED
  BY <1>1, <1>5 DEF ObservedBefore

\* verify accepts each join, each answer and each skip.
LEMMA JoinVerifies ==
  ASSUME History, NEW k \in DOMAIN journal, journal[k].kind = "STEP_COMPLETED",
         Plan[journal[k].step].type = "join"
  PROVE  JoinAccepted(journal[k], k)
<1> DEFINE e == journal[k]
           sub == SubSeq(journal, 1, k - 1)
<1>1. journal \in Seq(RecordType) /\ DOMAIN journal = 1 .. Len(journal) /\ Len(journal) \in Nat
      /\ obs \in Seq(ObsType) /\ Sound(journal, obs) /\ k \in Nat /\ k >= 1 /\ k <= Len(journal)
  BY DEF History, IInv, TypeOK
<1>2. May(journal, k - 1, obs, e)
  BY <1>1 DEF Sound
<1>3. e.step \in Steps /\ Ends(e, e.step)
  BY <1>2 DEF May, MayName, StepKinds, Kinds, Ends
<1>4. Verified(journal, e.step) # 0
  BY <1>1, <1>3, Resolve, VerifiedIsDone
<1>5. /\ {d[1] : d \in e.deps} = Plan[e.step].depends
      /\ \A d \in e.deps :
           /\ \E i \in 1 .. (k - 1) : Ends(journal[i], d[1]) /\ journal[i].obs = d[2]
           /\ \E i \in 1 .. (k - 1) : journal[i].kind = "STEP_COMPLETED" /\ journal[i].step = d[1]
  BY <1>2 DEF May, MayComplete
<1>6. /\ sub \in Seq(RecordType) /\ Len(sub) = k - 1 /\ DOMAIN sub = 1 .. (k - 1)
      /\ \A i \in 1 .. (k - 1) : sub[i] = journal[i]
  BY <1>1
<1> HIDE DEF sub
<1>7. Sound(sub, obs)
  <2>1. ASSUME NEW i \in 1 .. (k - 1) PROVE May(sub, i - 1, obs, sub[i])
    <3>1. May(journal, i - 1, obs, journal[i])
      BY <1>1 DEF Sound
    <3>2. \A m \in 1 .. (i - 1) : sub[m] = journal[m]
      BY <1>1, <1>6
    <3>3. QED
      BY <1>6, <3>1, <3>2, MayExt
  <2>2. QED
    BY <1>6, <2>1 DEF Sound
<1>8. ASSUME NEW d \in e.deps
      PROVE  CompletedBefore(d[1], k) /\ d[2] = Done(sub, d[1])
  <2>1. PICK i \in 1 .. (k - 1) : Ends(journal[i], d[1]) /\ journal[i].obs = d[2]
    BY <1>5
  <2>2. PICK c \in 1 .. (k - 1) : journal[c].kind = "STEP_COMPLETED" /\ journal[c].step = d[1]
    BY <1>5
  <2>3. i \in DOMAIN sub /\ c \in DOMAIN sub /\ Ends(sub[i], d[1]) /\ Ends(sub[c], d[1])
        /\ sub[c].kind = "STEP_COMPLETED" /\ sub[i].obs = d[2]
    BY <1>6, <2>1, <2>2 DEF Ends
  <2>4. i = c
    BY <1>6, <1>7, <2>3, EndsOnce
  <2>5. Done(sub, d[1]) = sub[i].obs
    BY <1>1, <1>6, <1>7, <2>3, <2>4, Resolve
  <2>6. QED
    BY <2>2, <2>3, <2>5 DEF CompletedBefore
<1>9. QED
  BY <1>4, <1>5, <1>8 DEF JoinAccepted, sub

LEMMA AskVerifies ==
  ASSUME History, NEW k \in DOMAIN journal, journal[k].kind = "STEP_COMPLETED",
         Plan[journal[k].step].from # 0
  PROVE  AskAccepted(journal[k], k)
<1> DEFINE e == journal[k]
           t == Plan[e.step].from
<1>1. journal \in Seq(RecordType) /\ DOMAIN journal = 1 .. Len(journal) /\ Len(journal) \in Nat
      /\ obs \in Seq(ObsType) /\ Sound(journal, obs)
  BY DEF History, IInv, TypeOK
<1>2. May(journal, k - 1, obs, e)
  BY <1>1 DEF Sound
<1>3. PICK i \in 1 .. (k - 1) : /\ Ends(journal[i], t) /\ journal[i].obs \in DOMAIN obs
                                /\ obs[journal[i].obs].result \in {"none", "equal"}
  BY <1>2 DEF May, MayAsk, Based
<1>4. ObservedBefore(t, k) = journal[i].obs
  BY <1>3, ObservedIs
<1>5. journal[i].obs # 0
  BY <1>1, <1>3
<1>6. ASSUME NEW d \in e.deps PROVE d[2] = journal[i].obs
  <2>1. d[1] = t /\ \E m \in 1 .. (k - 1) : Ends(journal[m], d[1]) /\ journal[m].obs = d[2]
    BY <1>2 DEF May, MayComplete
  <2>2. PICK m \in 1 .. (k - 1) : Ends(journal[m], t) /\ journal[m].obs = d[2]
    BY <2>1
  <2>3. ObservedBefore(t, k) = journal[m].obs
    BY <2>2, ObservedIs
  <2>4. QED
    BY <1>4, <2>2, <2>3
<1>7. QED
  BY <1>3, <1>4, <1>5, <1>6 DEF AskAccepted

LEMMA SkipVerifies ==
  ASSUME History, NEW k \in DOMAIN journal, journal[k].kind = "ASK_SKIPPED",
         obs[journal[k].obs].result # "none"
  PROVE  SkipAccepted(journal[k], k)
<1> DEFINE e == journal[k]
           t == Plan[e.step].from
<1>1. journal \in Seq(RecordType) /\ DOMAIN journal = 1 .. Len(journal) /\ Len(journal) \in Nat
      /\ obs \in Seq(ObsType) /\ Sound(journal, obs) /\ k \in Nat /\ k <= Len(journal)
  BY DEF History, IInv, TypeOK
<1>2. May(journal, k - 1, obs, e)
  BY <1>1 DEF Sound
<1>3. t # 0 /\ ~EndedBy(journal, k - 1, e.step)
  BY <1>2 DEF May, MayAsk, MayRun, Naming
<1>4. PICK i \in 1 .. (k - 1) : /\ Ends(journal[i], t) /\ journal[i].obs \in DOMAIN obs
                                /\ obs[journal[i].obs].result \in {"none", "other"}
                                /\ e.obs = journal[i].obs
  BY <1>2 DEF May, MayAsk, Based
<1>5. ObservedBefore(t, k) = journal[i].obs
  BY <1>4, ObservedIs
<1>6. journal[i].obs # 0
  BY <1>1, <1>4
<1>7. ~CompletedBefore(e.step, k)
  BY <1>3 DEF CompletedBefore, EndedBy, Ends
<1>8. CompletedBefore(t, k) \/ Plan[t].type = "gate"
  <2>1. CASE journal[i].kind = "STEP_COMPLETED"
    BY <1>4, <2>1 DEF CompletedBefore, Ends
  <2>2. CASE journal[i].kind = "STEP_FAILED"
    <3>1. i \in DOMAIN journal
      BY <1>1
    <3>2. Plan[journal[i].step].type = "gate"
      BY <1>1, <2>2, <3>1 DEF Sound, May, MayFail
    <3>3. QED
      BY <1>4, <3>2 DEF Ends
  <2>3. QED
    BY <1>4, <2>1, <2>2 DEF Ends
<1>9. QED
  BY <1>3, <1>4, <1>5, <1>6, <1>7, <1>8 DEF SkipAccepted

(* verify accepts every journal a process can resume from, but for a skip     *)
(* decided on evidence its source did not keep.                               *)
THEOREM JournalsVerify == Spec => []Verifies
<1>1. History => Verifies
  <2> SUFFICES ASSUME History, Readable, ~LateVerdict PROVE VerifyAccepts
    BY DEF Verifies
  <2>1. journal \in Seq(RecordType) /\ DOMAIN journal = 1 .. Len(journal) /\ Len(journal) \in Nat
        /\ Sound(journal, obs)
    BY DEF History, IInv, TypeOK
  <2>2. journal[1].kind = "PLAN_LOADED"
    <3>1. 1 \in DOMAIN journal
      BY <2>1 DEF Readable
    <3>2. May(journal, 1 - 1, obs, journal[1])
      BY <2>1, <3>1 DEF Sound
    <3>3. QED
      BY <3>2 DEF May, MayName
  <2>3. ASSUME NEW k \in DOMAIN journal
        PROVE  LET e == journal[k]
               IN  /\ e.kind = "STEP_COMPLETED" /\ Plan[e.step].type = "join" => JoinAccepted(e, k)
                   /\ e.kind = "STEP_COMPLETED" /\ Plan[e.step].from # 0 => AskAccepted(e, k)
                   /\ e.kind = "ASK_SKIPPED" => SkipAccepted(e, k)
    BY <2>3, JoinVerifies, AskVerifies, SkipVerifies DEF LateVerdict
  <2>4. QED
    BY <2>2, <2>3 DEF VerifyAccepts
<1>2. QED
  BY HistoryInvariance, <1>1, PTL
===============================================================================
