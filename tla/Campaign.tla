-------------------------------- MODULE Campaign --------------------------------
(***************************************************************************)
(* The campaign of a workspace.  The plan of scripts/campaign_plan.py asks *)
(* for an audit and then, round after round, runs the gate of              *)
(* scripts/campaign.py and asks for a repair when its verdict is FAIL; a   *)
(* last gate decides whether the campaign completes.  The gate only reads: *)
(* the capability plan, the candidate of work-items.json and the ledger    *)
(* verification-results.jsonl, each on its own, while sessions write them  *)
(* and an install measures the plan again and drops foreign results.       *)
(*                                                                         *)
(* The executor of the plan is Workflow's: here a step is what its journal *)
(* says of it, and a process that is killed loses the step it is running.  *)
(* The gate is a child of that process and outlives it.  Shadows and       *)
(* their records are Candidate's: a head names its target, since each      *)
(* shadow has a first commit of its own, and digest 0 is a clean shadow,   *)
(* whose record (PROVISIONED) carries no digest.                           *)
(***************************************************************************)
EXTENDS Naturals, FiniteSets

CONSTANTS
  Mode,       \* sessions that repair
  Finding,
  Command,    \* entrypoints a capability plan can name
  Target,     \* shadows, by their head
  None,       \* no candidate, no verdict
  Measured,   \* capability plans an install can measure
  Rounds,     \* rondas_max
  MaxDiff,    \* digests a dirty shadow can have (bounds the model)
  MaxWrites,  \* replacements of the ledger by a session (bounds the model)
  MaxRuns,    \* executions of the plan (bounds the model)
  MaxInstalls, \* plans measured again and ledgers bound (bounds the model)
  MaxFaults   \* executors killed, verdicts not written or read (bounds the model)

ASSUME BoundsAssumption ==
  /\ Rounds \in Nat \ {0} /\ MaxDiff \in Nat \ {0}
  /\ MaxWrites \in Nat /\ MaxRuns \in Nat /\ MaxInstalls \in Nat /\ MaxFaults \in Nat

VARIABLES
  plan,       \* capability-plan.json: command -> whether it can run
  candidate,  \* the candidate of work-items.json, or None
  ledger,     \* the records of verification-results.jsonl
  archive,    \* records an install dropped, in its archive
  turn,       \* session -> the candidate it verifies and the ledger it had read
  at,         \* the executor: "down", "walk", "gate" or "ask"
  status,     \* step -> what the journal says of it
  seen,       \* gate -> the verdict in its observation, or None
  gate,       \* gate processes: the executor's own, and one that outlived its executor
  published,  \* evidence/veredicto.json and its copy under campana, or None
  outcome,    \* what the last execution answered
  killed,     \* some executor was killed (history)
  writes, runs, installs, faults

stateVars == <<plan, candidate, ledger, archive, turn, writes, installs>>
runVars == <<at, status, seen, outcome, runs>>
vars == <<stateVars, runVars, gate, published, killed, faults>>

Verdict == {"PASS", "FAIL", "BLOCKED"}
Plan == UNION {[C -> BOOLEAN] : C \in SUBSET Command}
Gap(p) == \E c \in DOMAIN p : ~p[c]
Record == [head : Target, diff : 0 .. MaxDiff]
Result == [finding : Finding, head : Target, diff : 1 .. MaxDiff, result : Verdict,
           command : Command]
TurnIdle == [candidate |-> None, read |-> {}]

\* The steps: preflight, auditar, a gate and a repair for each round, verificar-final, cerrar.
Last == 4 + 2 * Rounds
Steps == 1 .. Last
Final == Last - 1
Repairs == {2 + 2 * i : i \in 1 .. Rounds}
Verifiers == {s - 1 : s \in Repairs}
Asks == {2} \union Repairs

Status == {"none", "passed", "failed", "skipped", "pending", "done"}
Open(s) == status[s] \in {"none", "pending"}
\* The step the executor is at: the first that its journal does not settle.
Here(s) == Open(s) /\ \A e \in 1 .. (s - 1) : ~Open(e)

GateIdle == [pc |-> "idle", plan |-> None, candidate |-> None, records |-> {},
             verdict |-> None]
GatePc == {"idle", "candidate", "records", "derive", "publish", "copy", "exit"}
Gates == {"own", "orphan"}

ASSUME PlansAssumption == Measured \subseteq Plan
ASSUME NoneAssumption ==
  None \notin Plan /\ None \notin Record
  /\ None \notin Verdict \union {"RETAINED", "COMPLETED"}

-----------------------------------------------------------------------------
(* A repair session.                                                       *)

\* The record printed for a shadow, as it is then, replaces the one candidate.
RecordCandidate ==
  /\ candidate' \in Record \ {candidate}
  /\ UNCHANGED <<plan, ledger, archive, turn, writes, installs, runVars, gate, published,
                 killed, faults>>

\* Faulty variant: a candidate without a digest is verified too.
VerifyAny(m) ==
  /\ candidate # None /\ turn[m] = TurnIdle /\ writes < MaxWrites
  /\ turn' = [turn EXCEPT ![m] = [candidate |-> candidate, read |-> ledger]]
  /\ UNCHANGED <<plan, candidate, ledger, archive, writes, installs, runVars, gate,
                 published, killed, faults>>

\* A session verifies the candidate of work-items.json: it runs the entrypoints of the
\* plan in the shadow, over the ledger it has read.
Verify(m) ==
  /\ candidate # None /\ candidate.diff # 0 /\ turn[m] = TurnIdle /\ writes < MaxWrites
  /\ turn' = [turn EXCEPT ![m] = [candidate |-> candidate, read |-> ledger]]
  /\ UNCHANGED <<plan, candidate, ledger, archive, writes, installs, runVars, gate,
                 published, killed, faults>>

SameKey(r, q) == r.finding = q.finding /\ r.head = q.head /\ r.command = q.command

\* The sets of results of entrypoints for candidate c, whose digest each one copies.
ResultsOf(c) ==
  {S \in SUBSET [finding : Finding, head : {c.head}, diff : {c.diff}, result : Verdict,
                 command : Command] :
     S # {} /\ \A r \in S, q \in S : SameKey(r, q) => r = q}

\* No PASS against a FAIL for a finding of a candidate.
Consistent(S) ==
  \A r \in S, q \in S :
    r.finding = q.finding /\ r.head = q.head /\ "BLOCKED" \notin {r.result, q.result}
      => r.result = q.result

\* Every record names a command of the plan, and is BLOCKED when that one cannot run.
Admissible(S, p) ==
  \A r \in S : r.command \in DOMAIN p /\ (r.result # "BLOCKED" => p[r.command])

\* validateManagedVerification: the whole content, against the plan as it is now.
Accepts(S) == Admissible(S, plan) /\ Consistent(S)

\* The session replaces the file: what it keeps of the records it had read, and its own.
WriteResults(m) ==
  /\ turn[m] # TurnIdle /\ writes < MaxWrites
  /\ \E new \in ResultsOf(turn[m].candidate) :
       \E kept \in SUBSET {q \in turn[m].read : \A r \in new : ~SameKey(q, r)} :
         Accepts(kept \union new) /\ ledger' = kept \union new
  /\ turn' = [turn EXCEPT ![m] = TurnIdle]
  /\ writes' = writes + 1
  /\ UNCHANGED <<plan, candidate, archive, installs, runVars, gate, published, killed,
                 faults>>

\* Refused, or ended.
DropResults(m) ==
  /\ turn[m] # TurnIdle
  /\ turn' = [turn EXCEPT ![m] = TurnIdle]
  /\ UNCHANGED <<plan, candidate, ledger, archive, writes, installs, runVars, gate, published,
                 killed, faults>>

-----------------------------------------------------------------------------
(* An install.                                                             *)

\* The plan is measured again: a toolchain appeared, moved or went.
Replan ==
  /\ installs < MaxInstalls /\ installs' = installs + 1
  /\ plan' \in Measured \ {plan}
  /\ UNCHANGED <<candidate, ledger, archive, turn, writes, runVars, gate, published,
                 killed, faults>>

Stray(r) == r.diff # candidate.diff

\* The whole file goes to the archive before anything is dropped from it.
Preserved == archive \union ledger

\* A registered digest drops the results of any other tree; PROVISIONED drops none.
Bind ==
  /\ installs < MaxInstalls /\ installs' = installs + 1
  /\ candidate # None /\ candidate.diff # 0 /\ \E r \in ledger : Stray(r)
  /\ archive' = Preserved
  /\ ledger' = {r \in ledger : ~Stray(r)}
  /\ UNCHANGED <<plan, candidate, turn, writes, runVars, gate, published, killed, faults>>

-----------------------------------------------------------------------------
(* The gate: three reads, a verdict, and its publication.                  *)

StartGate ==
  gate' = [gate EXCEPT !["own"] = [GateIdle EXCEPT !.pc = "candidate", !.plan = plan]]

ReadCandidate(g) ==
  /\ gate[g].pc = "candidate"
  /\ gate' = [gate EXCEPT ![g].pc = "records", ![g].candidate = candidate]
  /\ UNCHANGED <<stateVars, runVars, published, killed, faults>>

ReadRecords(g) ==
  /\ gate[g].pc = "records"
  /\ gate' = [gate EXCEPT ![g].pc = "derive", ![g].records = ledger]
  /\ UNCHANGED <<stateVars, runVars, published, killed, faults>>

\* Faulty variant: the head alone identifies what was verified.
NamesHead(r, c) == c = None \/ r.head = c.head

\* Only a registered digest identifies what was verified.
Names(r, c) == c = None \/ c.diff = 0 \/ (r.diff = c.diff /\ r.head = c.head)

\* validate_verification_results, over the first read of the ledger.
Valid(k) ==
  /\ Admissible(k.records, k.plan) /\ Consistent(k.records)
  /\ \A r \in k.records : Names(r, k.candidate)

\* The worst result of each finding of each candidate, over a second read.  A gap comes
\* first, whatever the ledger says.
Derived(k, second) ==
  IF Gap(k.plan) THEN "BLOCKED"
  ELSE IF k.records # {} /\ ~Valid(k) THEN "FAIL"
  ELSE IF second = {} THEN "BLOCKED"
  ELSE IF \E r \in second : r.result # "PASS" THEN "FAIL"
  ELSE "PASS"

Derive(g) ==
  /\ gate[g].pc = "derive"
  /\ gate' = [gate EXCEPT ![g] = [GateIdle EXCEPT !.pc = "publish",
                                                !.verdict = Derived(gate[g], ledger)]]
  /\ UNCHANGED <<stateVars, runVars, published, killed, faults>>

\* A gate whose executor was killed ends with its publication: nobody waits for it.
Ended(g, v) ==
  gate' = [gate EXCEPT ![g] = IF g = "own" THEN [@ EXCEPT !.pc = "exit", !.verdict = v]
                              ELSE GateIdle]

Publish(g) ==
  /\ gate[g].pc = "publish"
  /\ published' = [published EXCEPT !.root = gate[g].verdict]
  /\ gate' = [gate EXCEPT ![g].pc = "copy"]
  /\ UNCHANGED <<stateVars, runVars, killed, faults>>

PublishCopy(g) ==
  /\ gate[g].pc = "copy"
  /\ published' = [published EXCEPT !.copy = gate[g].verdict]
  /\ Ended(g, gate[g].verdict)
  /\ UNCHANGED <<stateVars, runVars, killed, faults>>

\* Faulty variant: the verdict stands though it could not be written.
PublishFailsSilently(g) ==
  /\ gate[g].pc \in {"publish", "copy"} /\ faults < MaxFaults
  /\ faults' = faults + 1
  /\ Ended(g, gate[g].verdict)
  /\ UNCHANGED <<stateVars, runVars, published, killed>>

\* What cannot be written is BLOCKED.
PublishFails(g) ==
  /\ gate[g].pc \in {"publish", "copy"} /\ faults < MaxFaults
  /\ faults' = faults + 1
  /\ Ended(g, "BLOCKED")
  /\ UNCHANGED <<stateVars, runVars, published, killed>>

-----------------------------------------------------------------------------
(* The executor.                                                           *)

Stop(answer) == at' = "down" /\ outcome' = answer
Settle(s, how) == status' = [status EXCEPT ![s] = how]

RunPlan ==
  /\ at = "down" /\ runs < MaxRuns
  /\ at' = "walk" /\ outcome' = None /\ runs' = runs + 1
  /\ UNCHANGED <<stateVars, status, seen, gate, published, killed, faults>>

\* Every stack of a plan that has one can be verified.
Preflight ==
  /\ at = "walk" /\ Here(1) /\ DOMAIN plan # {} /\ ~Gap(plan)
  /\ Settle(1, "passed")
  /\ UNCHANGED <<stateVars, at, seen, outcome, runs, gate, published, killed, faults>>

\* A gap, no manifest, a preset DSH does not have; or an executable that changed since
\* the campaign was generated, before any gate.
GateImpossible ==
  /\ at = "walk" /\ \E s \in Steps \ Asks : Here(s)
  /\ Stop("RETAINED")
  /\ UNCHANGED <<stateVars, status, seen, runs, gate, published, killed, faults>>

BeginGate ==
  /\ at = "walk" /\ \E s \in Verifiers \union {Final} : Here(s)
  /\ at' = "gate" /\ StartGate
  /\ UNCHANGED <<stateVars, status, seen, outcome, runs, published, killed, faults>>

\* The copy goes into the observation of the gate, and the root where there is none.
ReadBack == IF published.copy # None THEN published.copy ELSE published.root

Observed(s, v) == seen' = IF s \in Verifiers THEN [seen EXCEPT ![s] = v] ELSE seen

\* Faulty variant: the last gate goes on when it fails, as those of the rounds do.
FailureEndsNever(s) == FALSE

\* on_fail: abort, against continue.
FailureEnds(s) == s = Final

GateExits(s) ==
  /\ at = "gate" /\ gate["own"].pc = "exit" /\ Here(s)
  /\ gate' = [gate EXCEPT !["own"] = GateIdle]
  /\ \/ /\ gate["own"].verdict = "BLOCKED"
        /\ Stop("RETAINED") /\ UNCHANGED <<status, seen, faults>>
     \/ /\ gate["own"].verdict = "FAIL" /\ FailureEnds(s)
        /\ Stop("RETAINED") /\ UNCHANGED <<status, seen, faults>>
     \/ /\ gate["own"].verdict = "PASS" \/ (gate["own"].verdict = "FAIL" /\ ~FailureEnds(s))
        /\ Settle(s, IF gate["own"].verdict = "PASS" THEN "passed" ELSE "failed")
        /\ \/ Observed(s, ReadBack) /\ faults' = faults
           \/ faults < MaxFaults /\ faults' = faults + 1 /\ Observed(s, None)
        /\ at' = "walk" /\ outcome' = outcome
  /\ UNCHANGED <<stateVars, runs, published, killed>>

\* if_veredicto: of the observation, or else of the root file as it is now.
Condition(s) == IF seen[s - 1] # None THEN seen[s - 1] ELSE published.root

\* equals: FAIL.
Repaired(s) == Condition(s) = "FAIL"

Dispatch(s) ==
  /\ at = "walk" /\ Here(s) /\ status[s] = "none"
  /\ s = 2 \/ (s \in Repairs /\ Repaired(s))
  /\ Settle(s, "pending") /\ at' = "ask"
  /\ UNCHANGED <<stateVars, seen, outcome, runs, gate, published, killed, faults>>

SkipRepair(s) ==
  /\ at = "walk" /\ Here(s) /\ s \in Repairs /\ status[s] = "none"
  /\ Condition(s) # None /\ ~Repaired(s)
  /\ Settle(s, "skipped")
  /\ UNCHANGED <<stateVars, at, seen, outcome, runs, gate, published, killed, faults>>

\* No verdict, no session, no answer in time, no result.
AskRetained(s) ==
  /\ Here(s)
  /\ \/ at = "walk" /\ s \in Repairs /\ status[s] = "none" /\ Condition(s) = None
     \/ at = "ask"
  /\ Stop("RETAINED")
  /\ UNCHANGED <<stateVars, status, seen, runs, gate, published, killed, faults>>

AskCompletes(s) ==
  /\ at = "ask" /\ Here(s)
  /\ Settle(s, "done") /\ at' = "walk"
  /\ UNCHANGED <<stateVars, seen, outcome, runs, gate, published, killed, faults>>

ResumeAsk(s) ==
  /\ at = "walk" /\ Here(s) /\ status[s] = "pending"
  /\ at' = "ask"
  /\ UNCHANGED <<stateVars, status, seen, outcome, runs, gate, published, killed, faults>>

\* cerrar reads nothing.
Close ==
  /\ at = "walk" /\ Here(Last)
  /\ Settle(Last, "passed")
  /\ UNCHANGED <<stateVars, at, seen, outcome, runs, gate, published, killed, faults>>

Complete ==
  /\ at = "walk" /\ \A s \in Steps : ~Open(s)
  /\ Stop("COMPLETED")
  /\ UNCHANGED <<stateVars, status, seen, runs, gate, published, killed, faults>>

\* The gate it was waiting for dies with it, or goes on alone.
Kill ==
  /\ at # "down" /\ faults < MaxFaults
  /\ faults' = faults + 1 /\ killed' = TRUE
  /\ Stop("RETAINED")
  /\ \/ gate' = [gate EXCEPT !["own"] = GateIdle]
     \/ /\ gate["own"].pc \notin {"idle", "exit"} /\ gate["orphan"].pc = "idle"
        /\ gate' = [gate EXCEPT !["own"] = GateIdle, !["orphan"] = gate["own"]]
  /\ UNCHANGED <<stateVars, status, seen, runs, published>>

-----------------------------------------------------------------------------
Init ==
  /\ plan \in Measured
  /\ candidate = None
  /\ ledger = {} /\ archive = {} /\ turn = [m \in Mode |-> TurnIdle]
  /\ at = "down" /\ status = [s \in Steps |-> "none"]
  /\ seen = [s \in Verifiers |-> None]
  /\ gate = [g \in Gates |-> GateIdle]
  /\ published = [root |-> None, copy |-> None] /\ outcome = None /\ killed = FALSE
  /\ writes = 0 /\ runs = 0 /\ installs = 0 /\ faults = 0

SessionStep ==
  \/ RecordCandidate
  \/ \E m \in Mode : Verify(m) \/ WriteResults(m) \/ DropResults(m)

GateStep(g) ==
  ReadCandidate(g) \/ ReadRecords(g) \/ Derive(g) \/ Publish(g) \/ PublishCopy(g)
  \/ PublishFails(g)

RunStep ==
  \/ RunPlan \/ Preflight \/ GateImpossible \/ BeginGate \/ Close \/ Complete \/ Kill
  \/ \E s \in Verifiers \union {Final} : GateExits(s)
  \/ \E s \in Asks :
       Dispatch(s) \/ SkipRepair(s) \/ AskRetained(s) \/ AskCompletes(s) \/ ResumeAsk(s)

Next == SessionStep \/ Replan \/ Bind \/ (\E g \in Gates : GateStep(g)) \/ RunStep

Spec == Init /\ [][Next]_vars

-----------------------------------------------------------------------------
(* Properties.                                                             *)

GateState ==
  [pc : GatePc, plan : Plan \union {None}, candidate : Record \union {None},
   records : SUBSET Result, verdict : Verdict \union {None}]

\* A gate past its first read holds a capability plan; the rest have their types.
TypeOK ==
  /\ plan \in Plan
  /\ candidate \in Record \union {None}
  /\ ledger \in SUBSET Result /\ archive \in SUBSET Result
  /\ turn \in [Mode -> [candidate : Record \union {None}, read : SUBSET Result]]
  /\ at \in {"down", "walk", "gate", "ask"} /\ status \in [Steps -> Status]
  /\ seen \in [Verifiers -> Verdict \union {None}]
  /\ gate \in [Gates -> GateState]
  /\ \A g \in Gates : gate[g].pc \in {"candidate", "records", "derive"} => gate[g].plan # None
  /\ published \in [root : Verdict \union {None}, copy : Verdict \union {None}]
  /\ outcome \in {"RETAINED", "COMPLETED", None} /\ killed \in BOOLEAN
  /\ writes \in 0 .. MaxWrites /\ runs \in 0 .. MaxRuns
  /\ installs \in 0 .. MaxInstalls /\ faults \in 0 .. MaxFaults

\* A gate that passes while nobody replaced the candidate or the ledger it read passes
\* exactly the registered tree: every record names its head and its digest, and is a PASS.
PassBound ==
  [][\A g \in Gates :
       /\ gate'[g].verdict = "PASS" /\ gate[g].verdict # "PASS"
       /\ gate[g].records = ledger /\ gate[g].candidate = candidate
       /\ candidate # None /\ candidate.diff # 0
       => /\ ledger # {}
          /\ \A r \in ledger :
               r.head = candidate.head /\ r.diff = candidate.diff /\ r.result = "PASS"]_vars

\* A campaign that completes passed its last gate, over everything its rounds settled:
\* no execution, resumed or not, completes over a repair that never answered.
CompletedPassed ==
  outcome = "COMPLETED" =>
    /\ status[Final] = "passed"
    /\ \A s \in Repairs : status[s] \in {"skipped", "done"}

\* Unless an executor was killed and its gate went on, a round repairs exactly what its
\* own gate rejected, though the verdict travels through a file.
RoundsAgree ==
  ~killed =>
    \A s \in Repairs :
      /\ status[s] \in {"pending", "done"} => status[s - 1] = "failed"
      /\ status[s] = "skipped" => status[s - 1] = "passed"

\* An install loses no result: only a session's own write takes one away.
ResultsKept ==
  [][writes' = writes => ledger \union archive \subseteq ledger' \union archive']_vars

=============================================================================
