--------------------------- MODULE Campaign_proofs ----------------------------
(***************************************************************************)
(* Proofs about Campaign, for any sessions, findings, commands, shadows,   *)
(* rounds and bounds: type correctness, the walk of the plan, what a round *)
(* knows of its own gate, and what no step takes away.                     *)
(***************************************************************************)
EXTENDS Campaign, TLAPS

Turn == [candidate : Record \union {None}, read : SUBSET Result]

\* A session verifies a candidate that has changes; an idle gate holds nothing, and one
\* that publishes has its verdict.
HeldOK ==
  /\ \A m \in Mode : turn[m] # TurnIdle => turn[m].candidate # None /\ turn[m].candidate.diff # 0
  /\ \A g \in Gates : gate[g].pc = "idle" => gate[g].candidate = None
  /\ \A g \in Gates : gate[g].pc \in {"publish", "copy"} => gate[g].verdict # None

\* The steps are settled in order, each in the way of its kind, and a gate runs for the
\* step the executor is at.
Walk ==
  /\ \A s \in Steps, e \in Steps : e < s /\ status[s] # "none" => ~Open(e)
  /\ \A s \in Repairs : status[s] \in {"none", "pending", "skipped", "done"}
  /\ \A s \in Verifiers : status[s] \in {"none", "passed", "failed"}
  /\ status[Final] \in {"none", "passed"}
  /\ at = "gate" <=> gate["own"].pc # "idle"
  /\ at = "gate" => \E s \in Verifiers \union {Final} : Here(s)
  /\ at = "ask" => \E s \in Asks : Here(s) /\ status[s] = "pending"
  /\ outcome = "COMPLETED" => at = "down" /\ \A s \in Steps : ~Open(s)

\* What a gate left for its round, when no other gate may write over it.
OwnVerdict ==
  /\ gate["orphan"].pc = "idle"
  /\ gate["own"].pc = "copy" => published.root = gate["own"].verdict
  /\ gate["own"].pc = "exit" /\ gate["own"].verdict # "BLOCKED" =>
       published.root = gate["own"].verdict /\ published.copy = gate["own"].verdict
  /\ \A s \in Repairs :
       /\ status[s - 1] = "none" => seen[s - 1] = None
       /\ status[s - 1] = "failed" =>
            seen[s - 1] \in {None, "FAIL"} /\ (status[s] = "none" => published.root = "FAIL")
       /\ status[s - 1] = "passed" =>
            seen[s - 1] \in {None, "PASS"} /\ (status[s] = "none" => published.root = "PASS")

IInv == TypeOK /\ HeldOK /\ Walk /\ (~killed => OwnVerdict) /\ RoundsAgree

\* The steps of a plan: where each kind is.
LEMMA StepFacts ==
  /\ 1 \in Steps /\ 2 \in Steps /\ Final \in Steps /\ Last \in Steps
  /\ Repairs \subseteq Steps /\ Verifiers \subseteq Steps /\ Asks \subseteq Steps
  /\ \A s \in Repairs : s - 1 \in Verifiers /\ s \notin Verifiers /\ s - 1 < s
                        /\ s \in Nat /\ s # 1 /\ s # 2 /\ s # Final /\ s # Last
  /\ \A s \in Verifiers : s \notin Repairs /\ s # 1 /\ s # 2 /\ s # Final /\ s # Last
                          /\ s \in Nat /\ s + 1 \in Repairs
  /\ Final # 1 /\ Final # 2 /\ Final # Last /\ Steps \subseteq Nat
  BY BoundsAssumption DEF Steps, Last, Final, Repairs, Verifiers, Asks

LEMMA HereOnce ==
  ASSUME NEW s \in Steps, NEW t \in Steps, Here(s), Here(t)
  PROVE  s = t
  BY StepFacts DEF Here, Steps

\* One gate moves to a state of its type.
LEMMA GateType ==
  ASSUME TypeOK, NEW g \in Gates, NEW r \in GateState, gate' = [gate EXCEPT ![g] = r],
         r.pc \in {"candidate", "records", "derive"} => r.plan # None
  PROVE  /\ gate' \in [Gates -> GateState]
         /\ \A x \in Gates : gate'[x].pc \in {"candidate", "records", "derive"} =>
              gate'[x].plan # None
  BY DEF TypeOK

LEMMA IdleType == GateIdle \in GateState /\ GateIdle.pc = "idle" /\ GateIdle.candidate = None
  BY DEF GateIdle, GateState, GatePc

LEMMA EndedType ==
  ASSUME TypeOK, NEW g \in Gates, NEW v \in Verdict, Ended(g, v)
  PROVE  \E r \in GateState : gate' = [gate EXCEPT ![g] = r] /\ r.pc \in {"exit", "idle"}
                              /\ (r.pc = "exit" => r.candidate = gate[g].candidate)
                              /\ (r.verdict # None => r.verdict = v)
<1>1. gate[g] \in GateState
  BY DEF TypeOK
<1>2. [gate[g] EXCEPT !.pc = "exit", !.verdict = v] \in GateState
  BY <1>1 DEF GateState, GatePc
<1>3. CASE g = "own"
  BY <1>1, <1>2, <1>3 DEF Ended, TypeOK, GateState
<1>4. CASE g # "own"
  BY <1>4, IdleType DEF Ended, TypeOK, GateIdle
<1>5. QED
  BY <1>3, <1>4

LEMMA InitHolds == Init => IInv
<1> SUFFICES ASSUME Init PROVE IInv
  OBVIOUS
<1>1. TypeOK
  <2>1. gate \in [Gates -> GateState] /\ \A g \in Gates : gate[g].pc = "idle"
    BY IdleType DEF Init
  <2>2. plan \in Plan /\ turn \in [Mode -> [candidate : Record \union {None}, read : SUBSET Result]]
    BY PlansAssumption DEF Init, TurnIdle
  <2>3. status \in [Steps -> Status] /\ seen \in [Verifiers -> Verdict \union {None}]
        /\ published \in [root : Verdict \union {None}, copy : Verdict \union {None}]
    BY DEF Init, Status
  <2>4. at = "down" /\ outcome = None /\ killed = FALSE /\ candidate = None
        /\ ledger = {} /\ archive = {}
    BY DEF Init
  <2>5. writes \in 0 .. MaxWrites /\ runs \in 0 .. MaxRuns /\ installs \in 0 .. MaxInstalls
        /\ faults \in 0 .. MaxFaults
    BY BoundsAssumption DEF Init
  <2>6. QED
    BY <2>1, <2>2, <2>3, <2>4, <2>5 DEF TypeOK
<1>2. HeldOK /\ Walk
  BY StepFacts, NoneAssumption DEF Init, HeldOK, Walk, GateIdle, TurnIdle, Gates
<1>3. OwnVerdict /\ RoundsAgree
  BY StepFacts DEF Init, OwnVerdict, RoundsAgree, GateIdle, Gates
<1>4. QED
  BY <1>1, <1>2, <1>3 DEF IInv

LEMMA TypeStep == IInv /\ [Next]_vars => TypeOK'
<1> SUFFICES ASSUME TypeOK, HeldOK, [Next]_vars PROVE TypeOK'
  BY DEF IInv
<1>1. ASSUME RecordCandidate
      PROVE  TypeOK'
  BY <1>1 DEF TypeOK, stateVars, runVars, RecordCandidate
<1>2. ASSUME NEW m \in Mode, Verify(m)
      PROVE  TypeOK'
  BY <1>2, BoundsAssumption DEF TypeOK, stateVars, runVars, Verify, TurnIdle, Turn
<1>3. ASSUME NEW m \in Mode, WriteResults(m)
      PROVE  TypeOK'
  <2>1. turn[m].candidate \in Record /\ turn[m].candidate.diff \in 1 .. MaxDiff
    BY <1>3 DEF TypeOK, HeldOK, WriteResults, Record
  <2>2. ledger' \in SUBSET Result
    <3>1. ResultsOf(turn[m].candidate) \subseteq SUBSET Result
      BY <2>1 DEF ResultsOf, Result, Record
    <3>2. turn[m].read \in SUBSET Result
      BY DEF TypeOK
    <3>3. QED
      BY <1>3, <3>1, <3>2 DEF WriteResults
  <2>3. writes' \in 0 .. MaxWrites
    BY <1>3, BoundsAssumption DEF TypeOK, WriteResults
  <2>4. turn' \in [Mode -> [candidate : Record \union {None}, read : SUBSET Result]]
    BY <1>3 DEF TypeOK, WriteResults, TurnIdle
  <2>5. QED
    BY <1>3, <2>2, <2>3, <2>4 DEF TypeOK, WriteResults, runVars
<1>4. ASSUME NEW m \in Mode, DropResults(m)
      PROVE  TypeOK'
  BY <1>4 DEF TypeOK, stateVars, runVars, DropResults, TurnIdle
<1>5. ASSUME Replan
      PROVE  TypeOK'
  BY <1>5, PlansAssumption, BoundsAssumption DEF TypeOK, stateVars, runVars, Replan
<1>6. ASSUME Bind
      PROVE  TypeOK'
  <2>1. ledger' \in SUBSET Result /\ archive' \in SUBSET Result
    BY <1>6 DEF TypeOK, Bind, Preserved
  <2>2. installs' \in 0 .. MaxInstalls
    BY <1>6, BoundsAssumption DEF TypeOK, Bind
  <2>3. QED
    BY <1>6, <2>1, <2>2 DEF TypeOK, Bind, runVars
<1>7. ASSUME NEW g \in Gates, ReadCandidate(g)
      PROVE  TypeOK'
  <2>1. gate[g] \in GateState /\ candidate \in Record \union {None} /\ plan \in Plan
    BY DEF TypeOK, Gates
  <2>2. \E r \in GateState :
          /\ gate' = [gate EXCEPT ![g] = r]
          /\ r.pc \in {"candidate", "records", "derive"} => r.plan # None
    <3> DEFINE r == [gate[g] EXCEPT !.pc = "records", !.candidate = candidate]
    <3>1. r \in GateState
      BY <1>7, <2>1 DEF ReadCandidate, GateState, GatePc, GateIdle, TypeOK
    <3>2. r.pc \in {"candidate", "records", "derive"} => r.plan # None
      BY <1>7, <2>1, NoneAssumption DEF ReadCandidate, GateState, GateIdle, TypeOK
    <3>3. gate' = [gate EXCEPT ![g] = r]
      BY <1>7, <2>1 DEF ReadCandidate, GateState, GateIdle, TypeOK
    <3> HIDE DEF r
    <3>4. QED
      BY <3>1, <3>2, <3>3
  <2>3. gate' \in [Gates -> GateState]
        /\ \A x \in Gates : gate'[x].pc \in {"candidate", "records", "derive"} =>
             gate'[x].plan # None
    BY <2>2, GateType DEF Gates
  <2>4. QED
    BY <1>7, <2>3 DEF TypeOK, ReadCandidate, stateVars, runVars
<1>8. ASSUME NEW g \in Gates, ReadRecords(g)
      PROVE  TypeOK'
  <2>1. gate[g] \in GateState /\ candidate \in Record \union {None} /\ plan \in Plan
    BY DEF TypeOK, Gates
  <2>2. \E r \in GateState :
          /\ gate' = [gate EXCEPT ![g] = r]
          /\ r.pc \in {"candidate", "records", "derive"} => r.plan # None
    <3> DEFINE r == [gate[g] EXCEPT !.pc = "derive", !.records = ledger]
    <3>1. r \in GateState
      BY <1>8, <2>1 DEF ReadRecords, GateState, GatePc, GateIdle, TypeOK
    <3>2. r.pc \in {"candidate", "records", "derive"} => r.plan # None
      BY <1>8, <2>1, NoneAssumption DEF ReadRecords, GateState, GateIdle, TypeOK
    <3>3. gate' = [gate EXCEPT ![g] = r]
      BY <1>8, <2>1 DEF ReadRecords, GateState, GateIdle, TypeOK
    <3> HIDE DEF r
    <3>4. QED
      BY <3>1, <3>2, <3>3
  <2>3. gate' \in [Gates -> GateState]
        /\ \A x \in Gates : gate'[x].pc \in {"candidate", "records", "derive"} =>
             gate'[x].plan # None
    BY <2>2, GateType DEF Gates
  <2>4. QED
    BY <1>8, <2>3 DEF TypeOK, ReadRecords, stateVars, runVars
<1>9. ASSUME NEW g \in Gates, Derive(g)
      PROVE  TypeOK'
  BY <1>9 DEF TypeOK, stateVars, runVars, Derive, GateIdle, Derived, Verdict, GatePc, GateState
<1>10. ASSUME NEW g \in Gates, Publish(g)
      PROVE  TypeOK'
  BY <1>10 DEF TypeOK, stateVars, runVars, Publish, GatePc, GateState
<1>11. ASSUME NEW g \in Gates, PublishCopy(g)
      PROVE  TypeOK'
  <2>1. gate[g].verdict \in Verdict
    BY <1>11 DEF PublishCopy, TypeOK, GateState, Verdict, HeldOK
  <2>2. PICK r \in GateState : gate' = [gate EXCEPT ![g] = r] /\ r.pc \in {"exit", "idle"}
    BY <1>11, <2>1, EndedType DEF PublishCopy
  <2>3. gate' \in [Gates -> GateState]
        /\ \A x \in Gates : gate'[x].pc \in {"candidate", "records", "derive"} =>
             gate'[x].plan # None
    BY <2>2, GateType
  <2>4. faults' \in 0 .. MaxFaults /\ published' \in [root : Verdict \union {None},
      copy : Verdict \union {None}]
    BY <1>11, <2>1, BoundsAssumption DEF TypeOK, PublishCopy
  <2>5. QED
    BY <1>11, <2>3, <2>4 DEF TypeOK, PublishCopy, stateVars, runVars
<1>12. ASSUME NEW g \in Gates, PublishFails(g)
      PROVE  TypeOK'
  <2>1. "BLOCKED" \in Verdict
    BY <1>12 DEF PublishFails, TypeOK, GateState, Verdict, HeldOK
  <2>2. PICK r \in GateState : gate' = [gate EXCEPT ![g] = r] /\ r.pc \in {"exit", "idle"}
    BY <1>12, <2>1, EndedType DEF PublishFails
  <2>3. gate' \in [Gates -> GateState]
        /\ \A x \in Gates : gate'[x].pc \in {"candidate", "records", "derive"} =>
             gate'[x].plan # None
    BY <2>2, GateType
  <2>4. faults' \in 0 .. MaxFaults /\ published' \in [root : Verdict \union {None},
      copy : Verdict \union {None}]
    BY <1>12, <2>1, BoundsAssumption DEF TypeOK, PublishFails
  <2>5. QED
    BY <1>12, <2>3, <2>4 DEF TypeOK, PublishFails, stateVars, runVars
<1>13. ASSUME RunPlan
      PROVE  TypeOK'
  BY <1>13, BoundsAssumption DEF TypeOK, stateVars, runVars, RunPlan
<1>14. ASSUME Preflight
      PROVE  TypeOK'
  BY <1>14, StepFacts DEF TypeOK, stateVars, runVars, Preflight, Settle, Status
<1>15. ASSUME GateImpossible
      PROVE  TypeOK'
  BY <1>15 DEF TypeOK, stateVars, runVars, GateImpossible, Stop
<1>16. ASSUME BeginGate
      PROVE  TypeOK'
  <2>1. gate["own"] \in GateState /\ candidate \in Record \union {None} /\ plan \in Plan
    BY DEF TypeOK, Gates
  <2>2. \E r \in GateState :
          /\ gate' = [gate EXCEPT !["own"] = r]
          /\ r.pc \in {"candidate", "records", "derive"} => r.plan # None
    <3> DEFINE r == [GateIdle EXCEPT !.pc = "candidate", !.plan = plan]
    <3>1. r \in GateState
      BY <1>16, <2>1 DEF BeginGate, GateState, GatePc, GateIdle, TypeOK, StartGate
    <3>2. r.pc \in {"candidate", "records", "derive"} => r.plan # None
      BY <1>16, <2>1, NoneAssumption DEF BeginGate, GateState, GateIdle, TypeOK, StartGate
    <3>3. gate' = [gate EXCEPT !["own"] = r]
      BY <1>16, <2>1 DEF BeginGate, GateState, GateIdle, TypeOK, StartGate
    <3> HIDE DEF r
    <3>4. QED
      BY <3>1, <3>2, <3>3
  <2>3. gate' \in [Gates -> GateState]
        /\ \A x \in Gates : gate'[x].pc \in {"candidate", "records", "derive"} =>
             gate'[x].plan # None
    BY <2>2, GateType DEF Gates
  <2>4. QED
    BY <1>16, <2>3 DEF TypeOK, BeginGate, stateVars, runVars
<1>17. ASSUME NEW s \in Verifiers \union {Final}, GateExits(s)
      PROVE  TypeOK'
  BY <1>17, StepFacts, BoundsAssumption DEF TypeOK, stateVars, runVars, GateExits, GateIdle,
      Stop, Settle, Observed, GatePc, GateState, Status, Gates, ReadBack
<1>18. ASSUME NEW s \in Asks, Dispatch(s)
      PROVE  TypeOK'
  BY <1>18, StepFacts DEF TypeOK, stateVars, runVars, Dispatch, Settle, Status
<1>19. ASSUME NEW s \in Asks, SkipRepair(s)
      PROVE  TypeOK'
  BY <1>19, StepFacts DEF TypeOK, stateVars, runVars, SkipRepair, Settle, Status
<1>20. ASSUME NEW s \in Asks, AskRetained(s)
      PROVE  TypeOK'
  BY <1>20 DEF TypeOK, stateVars, runVars, AskRetained, Stop
<1>21. ASSUME NEW s \in Asks, AskCompletes(s)
      PROVE  TypeOK'
  BY <1>21, StepFacts DEF TypeOK, stateVars, runVars, AskCompletes, Settle, Status
<1>22. ASSUME NEW s \in Asks, ResumeAsk(s)
      PROVE  TypeOK'
  BY <1>22 DEF TypeOK, stateVars, runVars, ResumeAsk
<1>23. ASSUME Close
      PROVE  TypeOK'
  BY <1>23, StepFacts DEF TypeOK, stateVars, runVars, Close, Settle, Status
<1>24. ASSUME Complete
      PROVE  TypeOK'
  BY <1>24 DEF TypeOK, stateVars, runVars, Complete, Stop
<1>25. ASSUME Kill
      PROVE  TypeOK'
  BY <1>25, BoundsAssumption DEF TypeOK, stateVars, runVars, Kill, GateIdle, Stop, GatePc,
      GateState, Gates
<1>26. CASE UNCHANGED vars
  BY <1>26 DEF TypeOK, stateVars, runVars, vars
<1>27. QED
  BY <1>1, <1>2, <1>3, <1>4, <1>5, <1>6, <1>7, <1>8, <1>9, <1>10, <1>11, <1>12, <1>13, <1>14,
      <1>15, <1>16, <1>17, <1>18, <1>19, <1>20, <1>21, <1>22, <1>23, <1>24, <1>25, <1>26
     DEF Next, SessionStep, GateStep, RunStep

LEMMA HeldStep == IInv /\ [Next]_vars => HeldOK'
<1> SUFFICES ASSUME TypeOK, HeldOK, [Next]_vars PROVE HeldOK'
  BY DEF IInv
<1>1. ASSUME RecordCandidate
      PROVE  HeldOK'
  BY <1>1 DEF TypeOK, HeldOK, stateVars, runVars, RecordCandidate
<1>2. ASSUME NEW m \in Mode, Verify(m)
      PROVE  HeldOK'
  BY <1>2 DEF TypeOK, HeldOK, stateVars, runVars, Verify, TurnIdle
<1>3. ASSUME NEW m \in Mode, WriteResults(m)
      PROVE  HeldOK'
  BY <1>3 DEF TypeOK, HeldOK, stateVars, runVars, WriteResults, TurnIdle
<1>4. ASSUME NEW m \in Mode, DropResults(m)
      PROVE  HeldOK'
  BY <1>4 DEF TypeOK, HeldOK, stateVars, runVars, DropResults, TurnIdle
<1>5. ASSUME Replan
      PROVE  HeldOK'
  BY <1>5 DEF TypeOK, HeldOK, stateVars, runVars, Replan
<1>6. ASSUME Bind
      PROVE  HeldOK'
  BY <1>6 DEF TypeOK, HeldOK, stateVars, runVars, Bind, Preserved, Stray
<1>7. ASSUME NEW g \in Gates, ReadCandidate(g)
      PROVE  HeldOK'
  BY <1>7 DEF TypeOK, HeldOK, stateVars, runVars, ReadCandidate, GateState, GatePc
<1>8. ASSUME NEW g \in Gates, ReadRecords(g)
      PROVE  HeldOK'
  BY <1>8 DEF TypeOK, HeldOK, stateVars, runVars, ReadRecords, GateState, GatePc
<1>9. ASSUME NEW g \in Gates, Derive(g)
      PROVE  HeldOK'
  <2>1. Derived(gate[g], ledger) \in Verdict
    BY DEF Derived, Verdict
  <2>2. gate'[g].pc = "publish" /\ gate'[g].verdict # None /\ \A x \in Gates : x # g => gate'[x] = gate[x]
    BY <1>9, <2>1, NoneAssumption DEF Derive, GateIdle, TypeOK
  <2>3. QED
    BY <1>9, <2>2 DEF HeldOK, Derive, stateVars
<1>10. ASSUME NEW g \in Gates, Publish(g)
      PROVE  HeldOK'
  BY <1>10 DEF TypeOK, HeldOK, stateVars, runVars, Publish, GateState, GatePc
<1>11. ASSUME NEW g \in Gates, PublishCopy(g)
      PROVE  HeldOK'
  BY <1>11 DEF TypeOK, HeldOK, stateVars, runVars, PublishCopy, Ended, GateIdle, GateState, GatePc
<1>12. ASSUME NEW g \in Gates, PublishFails(g)
      PROVE  HeldOK'
  BY <1>12 DEF TypeOK, HeldOK, stateVars, runVars, PublishFails, Ended, GateIdle, GateState, GatePc
<1>13. ASSUME RunPlan
      PROVE  HeldOK'
  BY <1>13 DEF TypeOK, HeldOK, stateVars, runVars, RunPlan
<1>14. ASSUME Preflight
      PROVE  HeldOK'
  BY <1>14 DEF TypeOK, HeldOK, stateVars, runVars, Preflight, Settle
<1>15. ASSUME GateImpossible
      PROVE  HeldOK'
  BY <1>15 DEF TypeOK, HeldOK, stateVars, runVars, GateImpossible, Stop
<1>16. ASSUME BeginGate
      PROVE  HeldOK'
  BY <1>16 DEF TypeOK, HeldOK, stateVars, runVars, BeginGate, StartGate, GateIdle, GateState, GatePc
<1>17. ASSUME NEW s \in Verifiers \union {Final}, GateExits(s)
      PROVE  HeldOK'
  BY <1>17 DEF TypeOK, HeldOK, stateVars, runVars, GateExits, GateIdle, Stop, Settle, Observed,
      GateState, GatePc
<1>18. ASSUME NEW s \in Asks, Dispatch(s)
      PROVE  HeldOK'
  BY <1>18 DEF TypeOK, HeldOK, stateVars, runVars, Dispatch, Settle
<1>19. ASSUME NEW s \in Asks, SkipRepair(s)
      PROVE  HeldOK'
  BY <1>19 DEF TypeOK, HeldOK, stateVars, runVars, SkipRepair, Settle
<1>20. ASSUME NEW s \in Asks, AskRetained(s)
      PROVE  HeldOK'
  BY <1>20 DEF TypeOK, HeldOK, stateVars, runVars, AskRetained, Stop
<1>21. ASSUME NEW s \in Asks, AskCompletes(s)
      PROVE  HeldOK'
  BY <1>21 DEF TypeOK, HeldOK, stateVars, runVars, AskCompletes, Settle
<1>22. ASSUME NEW s \in Asks, ResumeAsk(s)
      PROVE  HeldOK'
  BY <1>22 DEF TypeOK, HeldOK, stateVars, runVars, ResumeAsk
<1>23. ASSUME Close
      PROVE  HeldOK'
  BY <1>23 DEF TypeOK, HeldOK, stateVars, runVars, Close, Settle
<1>24. ASSUME Complete
      PROVE  HeldOK'
  BY <1>24 DEF TypeOK, HeldOK, stateVars, runVars, Complete, Stop
<1>25. ASSUME Kill
      PROVE  HeldOK'
  <2>1. \A x \in Gates : gate'[x] = GateIdle \/ gate'[x] = gate[x]
                         \/ (x = "orphan" /\ gate'[x] = gate["own"])
    BY <1>25 DEF Kill, TypeOK, Gates
  <2>2. QED
    BY <1>25, <2>1, IdleType DEF HeldOK, Kill, stateVars, Gates
<1>26. CASE UNCHANGED vars
  BY <1>26 DEF TypeOK, HeldOK, stateVars, runVars, vars
<1>27. QED
  BY <1>1, <1>2, <1>3, <1>4, <1>5, <1>6, <1>7, <1>8, <1>9, <1>10, <1>11, <1>12, <1>13, <1>14,
      <1>15, <1>16, <1>17, <1>18, <1>19, <1>20, <1>21, <1>22, <1>23, <1>24, <1>25, <1>26
     DEF Next, SessionStep, GateStep, RunStep

\* What settling the step the executor is at changes.
LEMMA Settled ==
  ASSUME TypeOK, Walk, NEW s \in Steps, NEW how \in Status \ {"none"}, Here(s), Settle(s, how)
  PROVE  /\ status'[s] = how /\ \A x \in Steps : x # s => status'[x] = status[x]
         /\ \A x \in Steps, e \in Steps : e < x /\ status'[x] # "none" => ~Open(e)'
<1>1. status'[s] = how /\ \A x \in Steps : x # s => status'[x] = status[x]
  BY DEF TypeOK, Settle
<1>2. ASSUME NEW x \in Steps, NEW e \in Steps, e < x, status'[x] # "none"
      PROVE  ~Open(e)'
  <2>1. x \in Nat /\ e \in Nat /\ s \in Nat
    BY StepFacts
  <2>2. CASE x = s
    <3>1. e \in 1 .. (s - 1) /\ e # s
      BY <1>2, <2>1, <2>2 DEF Steps
    <3>2. QED
      BY <1>1, <3>1 DEF Here, Open
  <2>3. CASE x # s
    <3>1. status[x] # "none"
      BY <1>1, <1>2, <2>3
    <3>2. e # s
      BY <1>2, <3>1 DEF Walk, Here
    <3>3. QED
      BY <1>1, <1>2, <3>1, <3>2 DEF Walk, Open
  <2>4. QED
    BY <2>2, <2>3
<1>3. QED
  BY <1>1, <1>2

\* While a gate runs, no round has a verdict to act on.
LEMMA GateQuiet ==
  ASSUME TypeOK, Walk, at = "gate", NEW r \in Repairs, status[r] = "none"
  PROVE  status[r - 1] = "none"
<1>1. PICK s \in Verifiers \union {Final} : Here(s)
  BY DEF Walk
<1>2. r \in Steps /\ s \in Steps /\ r - 1 \in Steps /\ r - 1 < r /\ r # s /\ r \in Nat /\ s \in Nat
  BY StepFacts
<1>3. SUFFICES ASSUME status[r - 1] # "none" PROVE FALSE
  OBVIOUS
<1>4. status[r - 1] # "pending"
  BY StepFacts DEF Walk
<1>5. CASE r < s
  BY <1>1, <1>2, <1>5 DEF Here, Open, Steps
<1>6. CASE r - 1 = s
  BY <1>1, <1>3, <1>4, <1>6 DEF Here, Open
<1>7. CASE s < r - 1
  BY <1>1, <1>2, <1>3, <1>7 DEF Walk, Here
<1>8. QED
  BY <1>2, <1>5, <1>6, <1>7

LEMMA WalkStep == IInv /\ [Next]_vars => Walk'
<1> SUFFICES ASSUME TypeOK, Walk, [Next]_vars PROVE Walk'
  BY DEF IInv
<1>1. ASSUME RecordCandidate
      PROVE  Walk'
  BY <1>1, StepFacts, NoneAssumption DEF TypeOK, Walk, Open, Here, stateVars, runVars,
      RecordCandidate
<1>2. ASSUME NEW m \in Mode, Verify(m)
      PROVE  Walk'
  BY <1>2, StepFacts, NoneAssumption DEF TypeOK, Walk, Open, Here, stateVars, runVars, Verify,
      TurnIdle
<1>3. ASSUME NEW m \in Mode, WriteResults(m)
      PROVE  Walk'
  BY <1>3, StepFacts, NoneAssumption DEF TypeOK, Walk, Open, Here, stateVars, runVars,
      WriteResults, TurnIdle
<1>4. ASSUME NEW m \in Mode, DropResults(m)
      PROVE  Walk'
  BY <1>4, StepFacts, NoneAssumption DEF TypeOK, Walk, Open, Here, stateVars, runVars,
      DropResults, TurnIdle
<1>5. ASSUME Replan
      PROVE  Walk'
  BY <1>5, StepFacts, NoneAssumption DEF TypeOK, Walk, Open, Here, stateVars, runVars, Replan
<1>6. ASSUME Bind
      PROVE  Walk'
  BY <1>6, StepFacts, NoneAssumption DEF TypeOK, Walk, Open, Here, stateVars, runVars, Bind,
      Preserved, Stray
<1>7. ASSUME NEW g \in Gates, ReadCandidate(g)
      PROVE  Walk'
  BY <1>7, StepFacts, NoneAssumption DEF TypeOK, Walk, Open, Here, stateVars, runVars,
      ReadCandidate, Gates, GateState
<1>8. ASSUME NEW g \in Gates, ReadRecords(g)
      PROVE  Walk'
  BY <1>8, StepFacts, NoneAssumption DEF TypeOK, Walk, Open, Here, stateVars, runVars,
      ReadRecords, Gates, GateState
<1>9. ASSUME NEW g \in Gates, Derive(g)
      PROVE  Walk'
  BY <1>9, StepFacts, NoneAssumption DEF TypeOK, Walk, Open, Here, stateVars, runVars, Derive,
      GateIdle, Gates, GateState
<1>10. ASSUME NEW g \in Gates, Publish(g)
      PROVE  Walk'
  BY <1>10, StepFacts, NoneAssumption DEF TypeOK, Walk, Open, Here, stateVars, runVars, Publish,
      Gates, GateState
<1>11. ASSUME NEW g \in Gates, PublishCopy(g)
      PROVE  Walk'
  BY <1>11, StepFacts, NoneAssumption DEF TypeOK, Walk, Open, Here, stateVars, runVars,
      PublishCopy, Ended, GateIdle, Gates, GateState
<1>12. ASSUME NEW g \in Gates, PublishFails(g)
      PROVE  Walk'
  BY <1>12, StepFacts, NoneAssumption DEF TypeOK, Walk, Open, Here, stateVars, runVars,
      PublishFails, Ended, GateIdle, Gates, GateState
<1>13. ASSUME RunPlan
      PROVE  Walk'
  BY <1>13, StepFacts, NoneAssumption DEF TypeOK, Walk, Open, Here, stateVars, runVars, RunPlan
<1>14. ASSUME Preflight
      PROVE  Walk'
  <2>1. 1 \in Steps /\ Here(1) /\ Settle(1,
      "passed") /\ "passed" \in Status \ {"none"} /\ 1 \notin Repairs \union Verifiers \union {Final}
    BY <1>14, StepFacts DEF Preflight, Status, Asks
  <2>2. /\ status'[1] = "passed" /\ \A x \in Steps : x # 1 => status'[x] = status[x]
        /\ \A x \in Steps, e \in Steps : e < x /\ status'[x] # "none" => ~Open(e)'
    BY <2>1, Settled
  <2>3. at' = "walk" /\ outcome' # "COMPLETED" /\ gate["own"].pc = "idle" /\ gate' = gate
    BY <1>14, NoneAssumption DEF Preflight, Walk, TypeOK
  <2>4. QED
    BY <1>14, <2>1, <2>2, <2>3, StepFacts DEF Walk, Here, Asks
<1>15. ASSUME GateImpossible
      PROVE  Walk'
  BY <1>15, StepFacts, NoneAssumption DEF TypeOK, Walk, Open, Here, stateVars, runVars,
      GateImpossible, Stop
<1>16. ASSUME BeginGate
      PROVE  Walk'
  BY <1>16, StepFacts, NoneAssumption DEF TypeOK, Walk, Open, Here, stateVars, runVars,
      BeginGate, StartGate, GateIdle, Gates, GateState
<1>17. ASSUME NEW s \in Verifiers \union {Final}, GateExits(s)
      PROVE  Walk'
  <2>1. s \in Steps /\ Here(s) /\ s \notin Repairs /\ gate'["own"].pc = "idle"
        /\ outcome # "COMPLETED"
    BY <1>17, StepFacts DEF GateExits, GateIdle, Walk, TypeOK, Gates
  <2>2. CASE UNCHANGED status
    BY <1>17, <2>1, <2>2, NoneAssumption DEF GateExits, Walk, Stop, Here, Open
  <2>3. CASE status' # status
    <3>1. /\ gate["own"].verdict = "PASS" \/ (gate["own"].verdict = "FAIL" /\ ~FailureEnds(s))
          /\ Settle(s, IF gate["own"].verdict = "PASS" THEN "passed" ELSE "failed")
          /\ at' = "walk" /\ outcome' = outcome
      BY <1>17, <2>3 DEF GateExits
    <3> DEFINE how == IF gate["own"].verdict = "PASS" THEN "passed" ELSE "failed"
    <3>2. how \in Status \ {"none"} /\ how \in {"passed", "failed"} /\ (s = Final => how = "passed")
      BY <3>1 DEF Status, FailureEnds
    <3> HIDE DEF how
    <3>3. /\ status'[s] = how /\ \A x \in Steps : x # s => status'[x] = status[x]
          /\ \A x \in Steps, e \in Steps : e < x /\ status'[x] # "none" => ~Open(e)'
      BY <2>1, <3>1, <3>2, Settled DEF how
    <3>4. QED
      BY <2>1, <3>1, <3>2, <3>3, StepFacts DEF Walk
  <2>4. QED
    BY <2>2, <2>3
<1>18. ASSUME NEW s \in Asks, Dispatch(s)
      PROVE  Walk'
  BY <1>18, StepFacts, NoneAssumption DEF TypeOK, Walk, Open, Here, stateVars, runVars, Dispatch,
      Settle
<1>19. ASSUME NEW s \in Asks, SkipRepair(s)
      PROVE  Walk'
  BY <1>19, StepFacts, NoneAssumption DEF TypeOK, Walk, Open, Here, stateVars, runVars,
      SkipRepair, Settle
<1>20. ASSUME NEW s \in Asks, AskRetained(s)
      PROVE  Walk'
  BY <1>20, StepFacts, NoneAssumption DEF TypeOK, Walk, Open, Here, stateVars, runVars,
      AskRetained, Stop
<1>21. ASSUME NEW s \in Asks, AskCompletes(s)
      PROVE  Walk'
  <2>1. s \in Steps /\ Here(s) /\ Settle(s,
      "done") /\ "done" \in Status \ {"none"} /\ s \notin Verifiers \union {Final}
    BY <1>21, StepFacts DEF AskCompletes, Status, Asks
  <2>2. /\ status'[s] = "done" /\ \A x \in Steps : x # s => status'[x] = status[x]
        /\ \A x \in Steps, e \in Steps : e < x /\ status'[x] # "none" => ~Open(e)'
    BY <2>1, Settled
  <2>3. at' = "walk" /\ outcome' # "COMPLETED" /\ gate["own"].pc = "idle" /\ gate' = gate
    BY <1>21, NoneAssumption DEF AskCompletes, Walk, TypeOK
  <2>4. QED
    BY <1>21, <2>1, <2>2, <2>3, StepFacts DEF Walk, Here, Asks
<1>22. ASSUME NEW s \in Asks, ResumeAsk(s)
      PROVE  Walk'
  BY <1>22, StepFacts, NoneAssumption DEF TypeOK, Walk, Open, Here, stateVars, runVars, ResumeAsk
<1>23. ASSUME Close
      PROVE  Walk'
  <2>1. Last \in Steps /\ Here(Last) /\ Settle(Last,
      "passed") /\ "passed" \in Status \ {"none"} /\ Last \notin Repairs \union Verifiers \union {Final}
    BY <1>23, StepFacts DEF Close, Status, Asks
  <2>2. /\ status'[Last] = "passed" /\ \A x \in Steps : x # Last => status'[x] = status[x]
        /\ \A x \in Steps, e \in Steps : e < x /\ status'[x] # "none" => ~Open(e)'
    BY <2>1, Settled
  <2>3. at' = "walk" /\ outcome' # "COMPLETED" /\ gate["own"].pc = "idle" /\ gate' = gate
    BY <1>23, NoneAssumption DEF Close, Walk, TypeOK
  <2>4. QED
    BY <1>23, <2>1, <2>2, <2>3, StepFacts DEF Walk, Here, Asks
<1>24. ASSUME Complete
      PROVE  Walk'
  BY <1>24, StepFacts, NoneAssumption DEF TypeOK, Walk, Open, Here, stateVars, runVars, Complete,
      Stop
<1>25. ASSUME Kill
      PROVE  Walk'
  BY <1>25, StepFacts, NoneAssumption DEF TypeOK, Walk, Open, Here, stateVars, runVars, Kill,
      GateIdle, Stop, Gates, GateState
<1>26. CASE UNCHANGED vars
  BY <1>26, StepFacts, NoneAssumption DEF TypeOK, Walk, Open, Here, stateVars, runVars, vars
<1>27. QED
  BY <1>1, <1>2, <1>3, <1>4, <1>5, <1>6, <1>7, <1>8, <1>9, <1>10, <1>11, <1>12, <1>13, <1>14,
      <1>15, <1>16, <1>17, <1>18, <1>19, <1>20, <1>21, <1>22, <1>23, <1>24, <1>25, <1>26
     DEF Next, SessionStep, GateStep, RunStep

LEMMA OwnStep == IInv /\ [Next]_vars => (~killed => OwnVerdict)' /\ RoundsAgree'
<1> SUFFICES ASSUME TypeOK, Walk, ~killed => OwnVerdict, RoundsAgree, [Next]_vars
             PROVE  (~killed => OwnVerdict)' /\ RoundsAgree'
  BY DEF IInv
<1>1. ASSUME RecordCandidate
      PROVE  (~killed => OwnVerdict)' /\ RoundsAgree'
  BY <1>1, StepFacts, NoneAssumption DEF TypeOK, Walk, OwnVerdict, RoundsAgree, Open, Here,
      stateVars, runVars, RecordCandidate
<1>2. ASSUME NEW m \in Mode, Verify(m)
      PROVE  (~killed => OwnVerdict)' /\ RoundsAgree'
  BY <1>2, StepFacts, NoneAssumption DEF TypeOK, Walk, OwnVerdict, RoundsAgree, Open, Here,
      stateVars, runVars, Verify, TurnIdle
<1>3. ASSUME NEW m \in Mode, WriteResults(m)
      PROVE  (~killed => OwnVerdict)' /\ RoundsAgree'
  BY <1>3, StepFacts, NoneAssumption DEF TypeOK, Walk, OwnVerdict, RoundsAgree, Open, Here,
      stateVars, runVars, WriteResults, TurnIdle
<1>4. ASSUME NEW m \in Mode, DropResults(m)
      PROVE  (~killed => OwnVerdict)' /\ RoundsAgree'
  BY <1>4, StepFacts, NoneAssumption DEF TypeOK, Walk, OwnVerdict, RoundsAgree, Open, Here,
      stateVars, runVars, DropResults, TurnIdle
<1>5. ASSUME Replan
      PROVE  (~killed => OwnVerdict)' /\ RoundsAgree'
  BY <1>5, StepFacts, NoneAssumption DEF TypeOK, Walk, OwnVerdict, RoundsAgree, Open, Here,
      stateVars, runVars, Replan
<1>6. ASSUME Bind
      PROVE  (~killed => OwnVerdict)' /\ RoundsAgree'
  BY <1>6, StepFacts, NoneAssumption DEF TypeOK, Walk, OwnVerdict, RoundsAgree, Open, Here,
      stateVars, runVars, Bind, Preserved, Stray
<1>7. ASSUME NEW g \in Gates, ReadCandidate(g)
      PROVE  (~killed => OwnVerdict)' /\ RoundsAgree'
  BY <1>7, StepFacts, NoneAssumption DEF TypeOK, Walk, OwnVerdict, RoundsAgree, Open, Here,
      stateVars, runVars, ReadCandidate, Gates, GateState
<1>8. ASSUME NEW g \in Gates, ReadRecords(g)
      PROVE  (~killed => OwnVerdict)' /\ RoundsAgree'
  BY <1>8, StepFacts, NoneAssumption DEF TypeOK, Walk, OwnVerdict, RoundsAgree, Open, Here,
      stateVars, runVars, ReadRecords, Gates, GateState
<1>9. ASSUME NEW g \in Gates, Derive(g)
      PROVE  (~killed => OwnVerdict)' /\ RoundsAgree'
  BY <1>9, StepFacts, NoneAssumption DEF TypeOK, Walk, OwnVerdict, RoundsAgree, Open, Here,
      stateVars, runVars, Derive, GateIdle, Gates, GateState
<1>10. ASSUME NEW g \in Gates, Publish(g)
      PROVE  (~killed => OwnVerdict)' /\ RoundsAgree'
  <2>1. published'.root = gate[g].verdict /\ published'.copy = published.copy
    BY <1>10 DEF Publish, TypeOK
  <2>2. gate' = [gate EXCEPT ![g].pc = "copy"] /\ UNCHANGED <<status, seen, killed, at>>
    BY <1>10 DEF Publish, runVars
  <2>3. SUFFICES ASSUME ~killed, OwnVerdict PROVE OwnVerdict'
    BY <1>10, <2>2 DEF RoundsAgree
  <2>4. g = "own" /\ at = "gate"
    BY <1>10, <2>3 DEF Publish, OwnVerdict, Gates, Walk
  <2>5. \A r \in Repairs : status[r] = "none" => status[r - 1] = "none"
    BY <2>4, GateQuiet
  <2>6. gate'["own"].pc = "copy" /\ gate'["own"].verdict = gate["own"].verdict
        /\ gate'["orphan"] = gate["orphan"]
    BY <2>2, <2>4 DEF TypeOK, GateState, Gates
  <2>7. QED
    BY <2>1, <2>2, <2>3, <2>4, <2>5, <2>6 DEF OwnVerdict
<1>11. ASSUME NEW g \in Gates, PublishCopy(g)
      PROVE  (~killed => OwnVerdict)' /\ RoundsAgree'
  BY <1>11, StepFacts, NoneAssumption DEF TypeOK, Walk, OwnVerdict, RoundsAgree, Open, Here,
      stateVars, runVars, PublishCopy, Ended, GateIdle, Gates, GateState
<1>12. ASSUME NEW g \in Gates, PublishFails(g)
      PROVE  (~killed => OwnVerdict)' /\ RoundsAgree'
  BY <1>12, StepFacts, NoneAssumption DEF TypeOK, Walk, OwnVerdict, RoundsAgree, Open, Here,
      stateVars, runVars, PublishFails, Ended, GateIdle, Gates, GateState
<1>13. ASSUME RunPlan
      PROVE  (~killed => OwnVerdict)' /\ RoundsAgree'
  BY <1>13, StepFacts, NoneAssumption DEF TypeOK, Walk, OwnVerdict, RoundsAgree, Open, Here,
      stateVars, runVars, RunPlan
<1>14. ASSUME Preflight
      PROVE  (~killed => OwnVerdict)' /\ RoundsAgree'
  BY <1>14, StepFacts, NoneAssumption DEF TypeOK, Walk, OwnVerdict, RoundsAgree, Open, Here,
      stateVars, runVars, Preflight, Settle
<1>15. ASSUME GateImpossible
      PROVE  (~killed => OwnVerdict)' /\ RoundsAgree'
  BY <1>15, StepFacts, NoneAssumption DEF TypeOK, Walk, OwnVerdict, RoundsAgree, Open, Here,
      stateVars, runVars, GateImpossible, Stop
<1>16. ASSUME BeginGate
      PROVE  (~killed => OwnVerdict)' /\ RoundsAgree'
  BY <1>16, StepFacts, NoneAssumption DEF TypeOK, Walk, OwnVerdict, RoundsAgree, Open, Here,
      stateVars, runVars, BeginGate, StartGate, GateIdle, Gates, GateState
<1>17. ASSUME NEW s \in Verifiers \union {Final}, GateExits(s)
      PROVE  (~killed => OwnVerdict)' /\ RoundsAgree'
  <2>1. s \in Steps /\ Here(s) /\ s \notin Repairs /\ gate'["own"] = GateIdle
        /\ gate'["orphan"] = gate["orphan"] /\ gate["own"].pc = "exit" /\ at = "gate"
    BY <1>17, StepFacts DEF GateExits, TypeOK, Gates
  <2>2. UNCHANGED <<published, killed>> /\ gate'["own"].pc = "idle"
    BY <1>17, <2>1, IdleType DEF GateExits
  <2>3. CASE UNCHANGED <<status, seen>>
    BY <2>1, <2>2, <2>3 DEF OwnVerdict, RoundsAgree
  <2>4. CASE ~UNCHANGED <<status, seen>>
    <3> DEFINE how == IF gate["own"].verdict = "PASS" THEN "passed" ELSE "failed"
    <3>1. /\ gate["own"].verdict \in {"PASS", "FAIL"} /\ Settle(s, how)
          /\ Observed(s, ReadBack) \/ Observed(s, None)
      BY <1>17, <2>4 DEF GateExits
    <3>2. how \in Status \ {"none"} /\ how \in {"passed", "failed"}
          /\ (how = "passed" <=> gate["own"].verdict = "PASS")
      BY DEF Status
    <3> HIDE DEF how
    <3>3. status'[s] = how /\ \A x \in Steps : x # s => status'[x] = status[x]
      BY <2>1, <3>1, <3>2, Settled
    <3>4. \A x \in Verifiers : x # s => seen'[x] = seen[x]
      BY <3>1 DEF Observed, TypeOK
    <3>5. \A x \in Repairs : x \in Steps /\ x - 1 \in Steps /\ x - 1 \in Verifiers /\ x # s
      BY <2>1, StepFacts
    <3>6. ASSUME ~killed, OwnVerdict PROVE OwnVerdict'
      <4>1. published.root = gate["own"].verdict /\ published.copy = gate["own"].verdict
        BY <2>1, <3>1, <3>6 DEF OwnVerdict
      <4>2. s \in Verifiers => seen'[s] \in {None, gate["own"].verdict}
        BY <3>1, <4>1 DEF Observed, ReadBack, TypeOK
      <4>3. ASSUME NEW x \in Repairs
            PROVE  /\ status'[x - 1] = "none" => seen'[x - 1] = None
                   /\ status'[x - 1] = "failed" =>
                        seen'[x - 1] \in {None, "FAIL"}
                        /\ (status'[x] = "none" => published'.root = "FAIL")
                   /\ status'[x - 1] = "passed" =>
                        seen'[x - 1] \in {None, "PASS"}
                        /\ (status'[x] = "none" => published'.root = "PASS")
        <5>1. CASE x - 1 = s
          BY <2>2, <3>1, <3>2, <3>3, <3>5, <4>1, <4>2, <5>1
        <5>2. CASE x - 1 # s
          BY <2>2, <3>3, <3>4, <3>5, <3>6, <5>2 DEF OwnVerdict
        <5>3. QED
          BY <5>1, <5>2
      <4>4. QED
        BY <2>1, <2>2, <3>6, <4>3 DEF OwnVerdict
    <3>7. RoundsAgree'
      <4>1. ASSUME ~killed, NEW x \in Repairs
            PROVE  /\ status'[x] \in {"pending", "done"} => status'[x - 1] = "failed"
                   /\ status'[x] = "skipped" => status'[x - 1] = "passed"
        <5>1. status'[x] = status[x]
          BY <3>3, <3>5
        <5>2. CASE status[x] = "none"
          BY <5>1, <5>2
        <5>3. CASE status[x] # "none"
          <6>1. x - 1 < x
            BY StepFacts
          <6>2. ~Open(x - 1)
            BY <3>5, <5>3, <6>1 DEF Walk
          <6>3. x - 1 # s
            BY <2>1, <6>2 DEF Here
          <6>4. QED
            BY <3>3, <3>5, <4>1, <5>1, <6>3 DEF RoundsAgree
        <5>4. QED
          BY <5>2, <5>3
      <4>2. QED
        BY <2>2, <4>1 DEF RoundsAgree
    <3>8. QED
      BY <2>2, <3>6, <3>7
  <2>5. QED
    BY <2>3, <2>4
<1>18. ASSUME NEW s \in Asks, Dispatch(s)
      PROVE  (~killed => OwnVerdict)' /\ RoundsAgree'
  BY <1>18, StepFacts, NoneAssumption DEF TypeOK, Walk, OwnVerdict, RoundsAgree, Open, Here,
      stateVars, runVars, Dispatch, Settle, Repaired, Condition, Asks
<1>19. ASSUME NEW s \in Asks, SkipRepair(s)
      PROVE  (~killed => OwnVerdict)' /\ RoundsAgree'
  BY <1>19, StepFacts, NoneAssumption DEF TypeOK, Walk, OwnVerdict, RoundsAgree, Open, Here,
      stateVars, runVars, SkipRepair, Settle, Repaired, Condition, Asks
<1>20. ASSUME NEW s \in Asks, AskRetained(s)
      PROVE  (~killed => OwnVerdict)' /\ RoundsAgree'
  BY <1>20, StepFacts, NoneAssumption DEF TypeOK, Walk, OwnVerdict, RoundsAgree, Open, Here,
      stateVars, runVars, AskRetained, Stop
<1>21. ASSUME NEW s \in Asks, AskCompletes(s)
      PROVE  (~killed => OwnVerdict)' /\ RoundsAgree'
  <2>1. s \in Steps /\ Here(s) /\ Settle(s, "done") /\ "done" \in Status \ {"none"} /\ at = "ask"
    BY <1>21, StepFacts DEF AskCompletes, Status
  <2>2. status'[s] = "done" /\ \A x \in Steps : x # s => status'[x] = status[x]
    BY <2>1, Settled
  <2>3. status[s] = "pending"
    BY <2>1, HereOnce, StepFacts DEF Walk
  <2>4. UNCHANGED <<gate, published, seen, killed>>
    BY <1>21 DEF AskCompletes
  <2>5. \A r \in Repairs : r \in Steps /\ r - 1 \in Steps /\ r - 1 # s /\ s \notin Verifiers
    BY <1>21, StepFacts DEF Asks
  <2>6. QED
    BY <2>2, <2>3, <2>4, <2>5 DEF OwnVerdict, RoundsAgree
<1>22. ASSUME NEW s \in Asks, ResumeAsk(s)
      PROVE  (~killed => OwnVerdict)' /\ RoundsAgree'
  BY <1>22, StepFacts, NoneAssumption DEF TypeOK, Walk, OwnVerdict, RoundsAgree, Open, Here,
      stateVars, runVars, ResumeAsk
<1>23. ASSUME Close
      PROVE  (~killed => OwnVerdict)' /\ RoundsAgree'
  BY <1>23, StepFacts, NoneAssumption DEF TypeOK, Walk, OwnVerdict, RoundsAgree, Open, Here,
      stateVars, runVars, Close, Settle
<1>24. ASSUME Complete
      PROVE  (~killed => OwnVerdict)' /\ RoundsAgree'
  BY <1>24, StepFacts, NoneAssumption DEF TypeOK, Walk, OwnVerdict, RoundsAgree, Open, Here,
      stateVars, runVars, Complete, Stop
<1>25. ASSUME Kill
      PROVE  (~killed => OwnVerdict)' /\ RoundsAgree'
  BY <1>25, StepFacts, NoneAssumption DEF TypeOK, Walk, OwnVerdict, RoundsAgree, Open, Here,
      stateVars, runVars, Kill, GateIdle, Stop, Gates, GateState
<1>26. CASE UNCHANGED vars
  BY <1>26, StepFacts, NoneAssumption DEF TypeOK, Walk, OwnVerdict, RoundsAgree, Open, Here,
      stateVars, runVars, vars
<1>27. QED
  BY <1>1, <1>2, <1>3, <1>4, <1>5, <1>6, <1>7, <1>8, <1>9, <1>10, <1>11, <1>12, <1>13, <1>14,
      <1>15, <1>16, <1>17, <1>18, <1>19, <1>20, <1>21, <1>22, <1>23, <1>24, <1>25, <1>26
     DEF Next, SessionStep, GateStep, RunStep

LEMMA KeptStep ==
  TypeOK /\ [Next]_vars =>
    (writes' = writes => ledger \union archive \subseteq ledger' \union archive')
<1> SUFFICES ASSUME TypeOK, [Next]_vars
             PROVE  writes' = writes => ledger \union archive \subseteq ledger' \union archive'
  OBVIOUS
<1>1. ASSUME RecordCandidate
      PROVE  writes' = writes => ledger \union archive \subseteq ledger' \union archive'
  BY <1>1 DEF TypeOK, stateVars, runVars, RecordCandidate
<1>2. ASSUME NEW m \in Mode, Verify(m)
      PROVE  writes' = writes => ledger \union archive \subseteq ledger' \union archive'
  BY <1>2 DEF TypeOK, stateVars, runVars, Verify, TurnIdle
<1>3. ASSUME NEW m \in Mode, WriteResults(m)
      PROVE  writes' = writes => ledger \union archive \subseteq ledger' \union archive'
  BY <1>3 DEF TypeOK, stateVars, runVars, WriteResults, TurnIdle
<1>4. ASSUME NEW m \in Mode, DropResults(m)
      PROVE  writes' = writes => ledger \union archive \subseteq ledger' \union archive'
  BY <1>4 DEF TypeOK, stateVars, runVars, DropResults, TurnIdle
<1>5. ASSUME Replan
      PROVE  writes' = writes => ledger \union archive \subseteq ledger' \union archive'
  BY <1>5 DEF TypeOK, stateVars, runVars, Replan
<1>6. ASSUME Bind
      PROVE  writes' = writes => ledger \union archive \subseteq ledger' \union archive'
  BY <1>6 DEF TypeOK, stateVars, runVars, Bind, Preserved, Stray
<1>7. ASSUME NEW g \in Gates, ReadCandidate(g)
      PROVE  writes' = writes => ledger \union archive \subseteq ledger' \union archive'
  BY <1>7 DEF TypeOK, stateVars, runVars, ReadCandidate
<1>8. ASSUME NEW g \in Gates, ReadRecords(g)
      PROVE  writes' = writes => ledger \union archive \subseteq ledger' \union archive'
  BY <1>8 DEF TypeOK, stateVars, runVars, ReadRecords
<1>9. ASSUME NEW g \in Gates, Derive(g)
      PROVE  writes' = writes => ledger \union archive \subseteq ledger' \union archive'
  BY <1>9 DEF TypeOK, stateVars, runVars, Derive, GateIdle
<1>10. ASSUME NEW g \in Gates, Publish(g)
      PROVE  writes' = writes => ledger \union archive \subseteq ledger' \union archive'
  BY <1>10 DEF TypeOK, stateVars, runVars, Publish
<1>11. ASSUME NEW g \in Gates, PublishCopy(g)
      PROVE  writes' = writes => ledger \union archive \subseteq ledger' \union archive'
  BY <1>11 DEF TypeOK, stateVars, runVars, PublishCopy, Ended, GateIdle
<1>12. ASSUME NEW g \in Gates, PublishFails(g)
      PROVE  writes' = writes => ledger \union archive \subseteq ledger' \union archive'
  BY <1>12 DEF TypeOK, stateVars, runVars, PublishFails, Ended, GateIdle
<1>13. ASSUME RunPlan
      PROVE  writes' = writes => ledger \union archive \subseteq ledger' \union archive'
  BY <1>13 DEF TypeOK, stateVars, runVars, RunPlan
<1>14. ASSUME Preflight
      PROVE  writes' = writes => ledger \union archive \subseteq ledger' \union archive'
  BY <1>14 DEF TypeOK, stateVars, runVars, Preflight, Settle
<1>15. ASSUME GateImpossible
      PROVE  writes' = writes => ledger \union archive \subseteq ledger' \union archive'
  BY <1>15 DEF TypeOK, stateVars, runVars, GateImpossible, Stop
<1>16. ASSUME BeginGate
      PROVE  writes' = writes => ledger \union archive \subseteq ledger' \union archive'
  BY <1>16 DEF TypeOK, stateVars, runVars, BeginGate, StartGate, GateIdle
<1>17. ASSUME NEW s \in Verifiers \union {Final}, GateExits(s)
      PROVE  writes' = writes => ledger \union archive \subseteq ledger' \union archive'
  BY <1>17 DEF TypeOK, stateVars, runVars, GateExits, GateIdle, Stop, Settle, Observed
<1>18. ASSUME NEW s \in Asks, Dispatch(s)
      PROVE  writes' = writes => ledger \union archive \subseteq ledger' \union archive'
  BY <1>18 DEF TypeOK, stateVars, runVars, Dispatch, Settle
<1>19. ASSUME NEW s \in Asks, SkipRepair(s)
      PROVE  writes' = writes => ledger \union archive \subseteq ledger' \union archive'
  BY <1>19 DEF TypeOK, stateVars, runVars, SkipRepair, Settle
<1>20. ASSUME NEW s \in Asks, AskRetained(s)
      PROVE  writes' = writes => ledger \union archive \subseteq ledger' \union archive'
  BY <1>20 DEF TypeOK, stateVars, runVars, AskRetained, Stop
<1>21. ASSUME NEW s \in Asks, AskCompletes(s)
      PROVE  writes' = writes => ledger \union archive \subseteq ledger' \union archive'
  BY <1>21 DEF TypeOK, stateVars, runVars, AskCompletes, Settle
<1>22. ASSUME NEW s \in Asks, ResumeAsk(s)
      PROVE  writes' = writes => ledger \union archive \subseteq ledger' \union archive'
  BY <1>22 DEF TypeOK, stateVars, runVars, ResumeAsk
<1>23. ASSUME Close
      PROVE  writes' = writes => ledger \union archive \subseteq ledger' \union archive'
  BY <1>23 DEF TypeOK, stateVars, runVars, Close, Settle
<1>24. ASSUME Complete
      PROVE  writes' = writes => ledger \union archive \subseteq ledger' \union archive'
  BY <1>24 DEF TypeOK, stateVars, runVars, Complete, Stop
<1>25. ASSUME Kill
      PROVE  writes' = writes => ledger \union archive \subseteq ledger' \union archive'
  BY <1>25 DEF TypeOK, stateVars, runVars, Kill, GateIdle, Stop
<1>26. CASE UNCHANGED vars
  BY <1>26 DEF TypeOK, stateVars, runVars, vars
<1>27. QED
  BY <1>1, <1>2, <1>3, <1>4, <1>5, <1>6, <1>7, <1>8, <1>9, <1>10, <1>11, <1>12, <1>13, <1>14,
      <1>15, <1>16, <1>17, <1>18, <1>19, <1>20, <1>21, <1>22, <1>23, <1>24, <1>25, <1>26
     DEF Next, SessionStep, GateStep, RunStep

PassOf(g) ==
  /\ gate'[g].verdict = "PASS" /\ gate[g].verdict # "PASS"
  /\ gate[g].records = ledger /\ gate[g].candidate = candidate
  /\ candidate # None /\ candidate.diff # 0
  => /\ ledger # {}
     /\ \A r \in ledger :
          r.head = candidate.head /\ r.diff = candidate.diff /\ r.result = "PASS"

LEMMA PassStep == TypeOK /\ HeldOK /\ [Next]_vars => \A x \in Gates : PassOf(x)
<1> SUFFICES ASSUME TypeOK, HeldOK, [Next]_vars PROVE \A x \in Gates : PassOf(x)
  OBVIOUS
<1>1. ASSUME RecordCandidate
      PROVE  \A x \in Gates : PassOf(x)
  BY <1>1, NoneAssumption DEF TypeOK, HeldOK, PassOf, stateVars, runVars, RecordCandidate
<1>2. ASSUME NEW m \in Mode, Verify(m)
      PROVE  \A x \in Gates : PassOf(x)
  BY <1>2, NoneAssumption DEF TypeOK, HeldOK, PassOf, stateVars, runVars, Verify, TurnIdle
<1>3. ASSUME NEW m \in Mode, WriteResults(m)
      PROVE  \A x \in Gates : PassOf(x)
  BY <1>3, NoneAssumption DEF TypeOK, HeldOK, PassOf, stateVars, runVars, WriteResults, TurnIdle
<1>4. ASSUME NEW m \in Mode, DropResults(m)
      PROVE  \A x \in Gates : PassOf(x)
  BY <1>4, NoneAssumption DEF TypeOK, HeldOK, PassOf, stateVars, runVars, DropResults, TurnIdle
<1>5. ASSUME Replan
      PROVE  \A x \in Gates : PassOf(x)
  BY <1>5, NoneAssumption DEF TypeOK, HeldOK, PassOf, stateVars, runVars, Replan
<1>6. ASSUME Bind
      PROVE  \A x \in Gates : PassOf(x)
  BY <1>6, NoneAssumption DEF TypeOK, HeldOK, PassOf, stateVars, runVars, Bind, Preserved, Stray
<1>7. ASSUME NEW g \in Gates, ReadCandidate(g)
      PROVE  \A x \in Gates : PassOf(x)
  BY <1>7, NoneAssumption DEF TypeOK, HeldOK, PassOf, stateVars, runVars, ReadCandidate, GateState
<1>8. ASSUME NEW g \in Gates, ReadRecords(g)
      PROVE  \A x \in Gates : PassOf(x)
  BY <1>8, NoneAssumption DEF TypeOK, HeldOK, PassOf, stateVars, runVars, ReadRecords, GateState
<1>9. ASSUME NEW g \in Gates, Derive(g)
      PROVE  \A x \in Gates : PassOf(x)
  BY <1>9, NoneAssumption DEF TypeOK, HeldOK, PassOf, stateVars, runVars, Derive, GateIdle,
      Derived, Valid, Names
<1>10. ASSUME NEW g \in Gates, Publish(g)
      PROVE  \A x \in Gates : PassOf(x)
  BY <1>10, NoneAssumption DEF TypeOK, HeldOK, PassOf, stateVars, runVars, Publish, GateState
<1>11. ASSUME NEW g \in Gates, PublishCopy(g)
      PROVE  \A x \in Gates : PassOf(x)
  <2>1. SUFFICES ASSUME NEW x \in Gates, gate'[x].verdict = "PASS", gate[x].verdict # "PASS",
                        gate[x].candidate = candidate, candidate # None
                 PROVE  FALSE
    BY DEF PassOf
  <2>2. gate[x].pc # "idle"
    BY <2>1 DEF HeldOK
  <2>3. gate[g].verdict \in Verdict
    BY <1>11 DEF PublishCopy, TypeOK, GateState, Verdict, HeldOK
  <2>4. PICK r \in GateState : gate' = [gate EXCEPT ![g] = r] /\ (r.verdict # None => r.verdict = gate[g].verdict)
    BY <1>11, <2>3, EndedType DEF PublishCopy
  <2>5. gate'[x] = gate[x] \/ (x = g /\ gate'[x] = r)
    BY <2>4 DEF TypeOK
  <2>6. QED
    BY <2>1, <2>4, <2>5, NoneAssumption DEF Verdict
<1>12. ASSUME NEW g \in Gates, PublishFails(g)
      PROVE  \A x \in Gates : PassOf(x)
  <2>1. SUFFICES ASSUME NEW x \in Gates, gate'[x].verdict = "PASS", gate[x].verdict # "PASS",
                        gate[x].candidate = candidate, candidate # None
                 PROVE  FALSE
    BY DEF PassOf
  <2>2. gate[x].pc # "idle"
    BY <2>1 DEF HeldOK
  <2>3. "BLOCKED" \in Verdict
    BY <1>12 DEF PublishFails, TypeOK, GateState, Verdict, HeldOK
  <2>4. PICK r \in GateState : gate' = [gate EXCEPT ![g] = r] /\ (r.verdict # None => r.verdict = "BLOCKED")
    BY <1>12, <2>3, EndedType DEF PublishFails
  <2>5. gate'[x] = gate[x] \/ (x = g /\ gate'[x] = r)
    BY <2>4 DEF TypeOK
  <2>6. QED
    BY <2>1, <2>4, <2>5, NoneAssumption DEF Verdict
<1>13. ASSUME RunPlan
      PROVE  \A x \in Gates : PassOf(x)
  BY <1>13, NoneAssumption DEF TypeOK, HeldOK, PassOf, stateVars, runVars, RunPlan
<1>14. ASSUME Preflight
      PROVE  \A x \in Gates : PassOf(x)
  BY <1>14, NoneAssumption DEF TypeOK, HeldOK, PassOf, stateVars, runVars, Preflight, Settle
<1>15. ASSUME GateImpossible
      PROVE  \A x \in Gates : PassOf(x)
  BY <1>15, NoneAssumption DEF TypeOK, HeldOK, PassOf, stateVars, runVars, GateImpossible, Stop
<1>16. ASSUME BeginGate
      PROVE  \A x \in Gates : PassOf(x)
  <2>1. SUFFICES ASSUME NEW x \in Gates, gate'[x].verdict = "PASS", gate[x].verdict # "PASS",
                        gate[x].candidate = candidate, candidate # None
                 PROVE  FALSE
    BY DEF PassOf
  <2>2. gate[x].pc # "idle"
    BY <2>1 DEF HeldOK
  <2>3. gate'[x] = gate[x] \/ gate'[x].verdict = None
    BY <1>16 DEF BeginGate, StartGate, GateIdle, TypeOK, Gates
  <2>4. QED
    BY <2>1, <2>3, NoneAssumption DEF Verdict
<1>17. ASSUME NEW s \in Verifiers \union {Final}, GateExits(s)
      PROVE  \A x \in Gates : PassOf(x)
  <2>1. SUFFICES ASSUME NEW x \in Gates, gate'[x].verdict = "PASS", gate[x].verdict # "PASS",
                        gate[x].candidate = candidate, candidate # None
                 PROVE  FALSE
    BY DEF PassOf
  <2>2. gate[x].pc # "idle"
    BY <2>1 DEF HeldOK
  <2>3. gate'[x] = gate[x] \/ gate'[x] = GateIdle
    BY <1>17 DEF GateExits, TypeOK, Gates
  <2>4. QED
    BY <2>1, <2>3, NoneAssumption DEF Verdict, GateIdle
<1>18. ASSUME NEW s \in Asks, Dispatch(s)
      PROVE  \A x \in Gates : PassOf(x)
  BY <1>18, NoneAssumption DEF TypeOK, HeldOK, PassOf, stateVars, runVars, Dispatch, Settle
<1>19. ASSUME NEW s \in Asks, SkipRepair(s)
      PROVE  \A x \in Gates : PassOf(x)
  BY <1>19, NoneAssumption DEF TypeOK, HeldOK, PassOf, stateVars, runVars, SkipRepair, Settle
<1>20. ASSUME NEW s \in Asks, AskRetained(s)
      PROVE  \A x \in Gates : PassOf(x)
  BY <1>20, NoneAssumption DEF TypeOK, HeldOK, PassOf, stateVars, runVars, AskRetained, Stop
<1>21. ASSUME NEW s \in Asks, AskCompletes(s)
      PROVE  \A x \in Gates : PassOf(x)
  BY <1>21, NoneAssumption DEF TypeOK, HeldOK, PassOf, stateVars, runVars, AskCompletes, Settle
<1>22. ASSUME NEW s \in Asks, ResumeAsk(s)
      PROVE  \A x \in Gates : PassOf(x)
  BY <1>22, NoneAssumption DEF TypeOK, HeldOK, PassOf, stateVars, runVars, ResumeAsk
<1>23. ASSUME Close
      PROVE  \A x \in Gates : PassOf(x)
  BY <1>23, NoneAssumption DEF TypeOK, HeldOK, PassOf, stateVars, runVars, Close, Settle
<1>24. ASSUME Complete
      PROVE  \A x \in Gates : PassOf(x)
  BY <1>24, NoneAssumption DEF TypeOK, HeldOK, PassOf, stateVars, runVars, Complete, Stop
<1>25. ASSUME Kill
      PROVE  \A x \in Gates : PassOf(x)
  <2>1. SUFFICES ASSUME NEW x \in Gates, gate'[x].verdict = "PASS", gate[x].verdict # "PASS",
                        gate[x].candidate = candidate, candidate # None
                 PROVE  FALSE
    BY DEF PassOf
  <2>2. gate[x].pc # "idle"
    BY <2>1 DEF HeldOK
  <2>3. gate'[x] = gate[x] \/ gate'[x] = GateIdle \/ (x = "orphan" /\ gate[x].pc = "idle")
    BY <1>25 DEF Kill, TypeOK, Gates
  <2>4. QED
    BY <2>1, <2>2, <2>3, NoneAssumption DEF Verdict, GateIdle
<1>26. CASE UNCHANGED vars
  BY <1>26, NoneAssumption DEF TypeOK, HeldOK, PassOf, stateVars, runVars, vars
<1>27. QED
  BY <1>1, <1>2, <1>3, <1>4, <1>5, <1>6, <1>7, <1>8, <1>9, <1>10, <1>11, <1>12, <1>13, <1>14,
      <1>15, <1>16, <1>17, <1>18, <1>19, <1>20, <1>21, <1>22, <1>23, <1>24, <1>25, <1>26
     DEF Next, SessionStep, GateStep, RunStep

LEMMA Invariance == Spec => []IInv
<1>1. IInv /\ [Next]_vars => IInv'
  BY TypeStep, HeldStep, WalkStep, OwnStep DEF IInv
<1>2. QED
  BY InitHolds, <1>1, PTL DEF Spec

\* Every variable keeps its type.
THEOREM TypeCorrect == Spec => []TypeOK
<1>1. IInv => TypeOK
  BY DEF IInv
<1>2. QED
  BY Invariance, <1>1, PTL

\* A round repairs exactly what its own gate rejected, unless an executor was killed.
THEOREM RoundsAgreeHolds == Spec => []RoundsAgree
<1>1. IInv => RoundsAgree
  BY DEF IInv
<1>2. QED
  BY Invariance, <1>1, PTL

\* A campaign completes over a last gate that passed and repairs that answered.
THEOREM CompletedPassedHolds == Spec => []CompletedPassed
<1>1. IInv => CompletedPassed
  BY StepFacts DEF IInv, Walk, CompletedPassed, Open
<1>2. QED
  BY Invariance, <1>1, PTL

\* An install loses no result.
THEOREM ResultsKeptHolds == Spec => ResultsKept
<1>1. IInv /\ [Next]_vars =>
        [writes' = writes => ledger \union archive \subseteq ledger' \union archive']_vars
  BY KeptStep DEF IInv
<1>2. QED
  BY Invariance, <1>1, PTL DEF Spec, ResultsKept

\* A gate that passes what nobody replaced passes the registered tree.
THEOREM PassBoundHolds == Spec => PassBound
<1>1. IInv /\ [Next]_vars => [\A g \in Gates : PassOf(g)]_vars
  BY PassStep DEF IInv
<1>2. [][\A g \in Gates : PassOf(g)]_vars => PassBound
  BY DEF PassOf, PassBound
<1>3. QED
  BY Invariance, <1>1, <1>2, PTL DEF Spec
=============================================================================
