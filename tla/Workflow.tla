------------------------------- MODULE Workflow -------------------------------
(***************************************************************************)
(* The executor of workflow plans (scripts/workflow.py): a process runs    *)
(* the steps of a plan in order and appends what happened to a chained     *)
(* journal, whose length head.json confirms.  The process may be killed    *)
(* anywhere; running the plan again replays the journal and goes on.       *)
(*                                                                         *)
(* Digests are identities: an observation file is its number in obs, and   *)
(* a record that carries the digest of a file carries that number.  Every  *)
(* record of the journal takes one unit of the store.                      *)
(***************************************************************************)
EXTENDS Integers, Sequences, FiniteSetsExt

CONSTANTS
  Plan,        \* the steps, in order
  Campaign,    \* the plan is a campaign: its gates run from sealed copies
  Memory,      \* the plan asks for the evidence memory
  Limit,       \* records the store can hold, the reserved one included
  MaxRuns,     \* processes started (bounds the model)
  MaxCrashes,  \* processes killed (bounds the model)
  MaxFaults    \* DSH calls that fail, sessions lost (bounds the model)

Steps == 1..Len(Plan)
Verdicts == {"none", "equal", "other"}

\* What _validate_step and _validate_plan let through.
StepType == [type    : {"gate", "join", "fase", "ask"},
             depends : SUBSET Nat,                     \* join: its barrier
             action  : {"retry", "abort", "continue"}, \* gate: on_fail
             rounds  : Nat,                            \* gate: of a retry
             cap     : Nat,                            \* fase: max_rounds, 0 if none
             from    : Nat,                            \* ask: if_veredicto.from, 0 if none
             contract : BOOLEAN]                       \* ask: has a result_contract
ASSUME PlanAssumption ==
  /\ Plan \in Seq(StepType) /\ Plan # <<>>
  /\ \A s \in Steps :
       /\ Plan[s].depends \subseteq 1..(s - 1) /\ Plan[s].from \in 0..(s - 1)
       /\ Plan[s].type = "join" => Plan[s].depends # {}
       /\ Plan[s].type # "ask" => Plan[s].from = 0
       /\ Plan[s].type = "gate" /\ Plan[s].action = "retry" => Plan[s].rounds > 0
ASSUME BoundsAssumption ==
  /\ Campaign \in BOOLEAN /\ Memory \in BOOLEAN
  /\ Limit \in Nat /\ Limit >= 2
  /\ MaxRuns \in Nat /\ MaxCrashes \in Nat /\ MaxFaults \in Nat

VARIABLES
  dir,       \* the run directory: "absent", or "ready" with its snapshot
  journal,   \* journal.jsonl
  head,      \* the number of records head.json confirms
  torn,      \* whether the journal ends in a record cut short
  obs,       \* observations/, in the order of their numbers
  sessions,  \* the sessions DSH created for this plan
  pc, step,  \* where the process is, and the index in the plan
  line,      \* the record it is about to append
  mem,       \* the state it keeps in memory
  failures,  \* rejections of the gate in this process
  session,   \* the session of the ask it is running
  given,     \* last_ask_observation
  outcome, cause, journaled,  \* what run_plan answered last
  runs, crashes, faults

diskVars == <<dir, journal, head, torn, obs>>
procVars == <<pc, step, line, mem, failures, session, given>>
lastVars == <<outcome, cause, journaled>>
envVars  == <<runs, crashes, faults>>
vars == <<diskVars, sessions, procVars, lastVars, envVars>>

Kinds == {"PLAN_LOADED", "MEMORY_RECONCILED", "PHASE_STARTED", "STEP_STARTED",
          "STEP_COMPLETED", "ASK_SKIPPED", "GATE_REJECTED", "STEP_FAILED",
          "ROUND_CAP_REACHED", "RUN_RETAINED", "RUN_COMPLETED"}
\* obs is the observation the record names; of ASK_SKIPPED, its source_digest.
Record(kind, s, attempt, o, deps) ==
  [kind |-> kind, step |-> s, attempt |-> attempt, obs |-> o, deps |-> deps]
Bare(kind, s) == Record(kind, s, 0, 0, {})
NoLine == Bare("RUN_COMPLETED", 0)

EmptyState ==
  [completed |-> [s \in Steps |-> 0], failed  |-> [s \in Steps |-> 0],
   skipped   |-> [s \in Steps |-> 0], attempts |-> [s \in Steps |-> 0],
   phase |-> 0, count |-> 0, phases |-> {},
   pending |-> [s \in Steps |-> [status |-> "none", session |-> 0]]]

------------------------------------------------------------------------------
(* Replay: the state a journal stands for.                                 *)

\* The last record of step s that P holds of, 0 if there is none.
LastOf(j, P(_)) == Max({0} \union {i \in DOMAIN j : P(j[i])})
CountOf(j, P(_)) == Cardinality({i \in DOMAIN j : P(j[i])})

CompletedAt(j, s) == LastOf(j, LAMBDA e : e.kind = "STEP_COMPLETED" /\ e.step = s)
\* Faulty variant: a gate that aborted counts as left behind.
AnyFailureAt(j, s) == LastOf(j, LAMBDA e : e.kind = "STEP_FAILED" /\ e.step = s)

\* Only an on_fail "continue" leaves its gate failed for good.
FailedAt(j, s) ==
  LastOf(j, LAMBDA e : e.kind = "STEP_FAILED" /\ e.step = s /\ Plan[s].action = "continue")
SkippedAt(j, s) == LastOf(j, LAMBDA e : e.kind = "ASK_SKIPPED" /\ e.step = s)
PhaseAt(j) == LastOf(j, LAMBDA e : e.kind = "PHASE_STARTED")

Done(j, s) ==
  LET at == CompletedAt(j, s)
  IN  IF at > FailedAt(j, s) THEN j[at].obs ELSE 0
Failed(j, s) ==
  LET at == FailedAt(j, s)
  IN  IF /\ at > CompletedAt(j, s)
         /\ \E i \in DOMAIN j : /\ j[i].kind = "GATE_REJECTED" /\ j[i].step = s
                                /\ j[i].obs = j[at].obs
      THEN j[at].obs ELSE 0
\* Every dependency must still be what the step completed against; a step
\* that does not verify takes with it those that rest on it.
Verified(j, s) ==
  LET holds[t \in Steps] ==
        /\ Done(j, t) # 0
        /\ \A d \in j[CompletedAt(j, t)].deps :
             d[2] = IF holds[d[1]] THEN Done(j, d[1]) ELSE Failed(j, d[1])
  IN  IF holds[s] THEN Done(j, s) ELSE 0
Attempts(j, s) ==
  LET started == {k \in DOMAIN j : j[k].kind = "STEP_STARTED" /\ j[k].step = s}
  IN  Max({0} \union {j[i].attempt : i \in started})

\* Faulty variant: an attempt without a file of its own was never sent.
ReopensUnknown(s, attempt) ==
  LET files == {n \in DOMAIN obs : obs[n].step = s /\ obs[n].status = "dispatched"}
  IN  IF files = {} THEN [status |-> "none", session |-> 0]
      ELSE [status |-> "dispatched", session |-> obs[Max(files)].session]

\* The state of an attempt that has no record of its end, from the last file
\* it left.
LatestAskDispatch(s, attempt) ==
  LET files == {n \in DOMAIN obs : /\ obs[n].step = s /\ obs[n].intent = "ask"
                                   /\ obs[n].attempt = attempt}
      last == obs[Max(files)]
  IN  IF files = {} THEN [status |-> "unknown", session |-> 0]
      ELSE IF last.session = 0 \/ last.status \notin {"dispatched", "failed"}
           THEN [status |-> "unreadable", session |-> 0]
      ELSE IF last.status = "failed" THEN [status |-> "none", session |-> 0]
      ELSE [status |-> "dispatched", session |-> last.session]

\* Faulty variant: the rounds of a phase start again with the process.
PhaseCountForgotten(j) == 0

PhaseCount(j) ==
  IF PhaseAt(j) = 0 THEN 0
  ELSE Cardinality({i \in DOMAIN j : i > PhaseAt(j) /\ j[i].kind = "GATE_REJECTED"})

Replay(j) ==
  [completed |-> [s \in Steps |-> Verified(j, s)],
   failed    |-> [s \in Steps |-> IF Verified(j, s) = 0 THEN Failed(j, s) ELSE 0],
   skipped   |-> [s \in Steps |-> IF SkippedAt(j, s) = 0 THEN 0 ELSE j[SkippedAt(j, s)].obs],
   attempts  |-> [s \in Steps |-> Attempts(j, s)],
   phase     |-> IF PhaseAt(j) = 0 THEN 0 ELSE j[PhaseAt(j)].step,
   count     |-> PhaseCount(j),
   phases    |-> {j[i].step : i \in {k \in DOMAIN j : j[k].kind = "PHASE_STARTED"}},
   pending   |-> [s \in Steps |->
                   LET started == CountOf(j, LAMBDA e : e.kind = "STEP_STARTED" /\ e.step = s)
                       ended == CountOf(j, LAMBDA e : e.kind = "STEP_COMPLETED" /\ e.step = s)
                   IN  IF Plan[s].type = "ask" /\ started > ended
                       THEN LatestAskDispatch(s, Attempts(j, s))
                       ELSE [status |-> "none", session |-> 0]]]

\* _read_verified: a record cut short, or one head.json does not confirm, and
\* the journal is not read at all.
Readable == journal # <<>> /\ ~torn /\ head = Len(journal)

------------------------------------------------------------------------------
Init ==
  /\ dir = "absent" /\ journal = <<>> /\ head = 0 /\ torn = FALSE /\ obs = <<>>
  /\ sessions = <<>>
  /\ pc = "idle" /\ step = 0 /\ line = NoLine /\ mem = EmptyState
  /\ failures = 0 /\ session = 0 /\ given = 0
  /\ outcome = "NONE" /\ cause = "none" /\ journaled = FALSE
  /\ runs = 0 /\ crashes = 0 /\ faults = 0

At(label) == pc = label
Executing(type) == At("step") /\ step \in Steps /\ Plan[step].type = type

\* The process appends e next.
Appends(e) == pc' = "record" /\ line' = e
\* _retain: the run ends for the cause c, which is appended if it fits.
Retains(c) == pc' = "retain" /\ cause' = c
Goes(label) == pc' = label
NextStep == pc' = "step" /\ step' = step + 1 /\ failures' = 0
\* The process is gone with all it kept in memory.
Gone == /\ pc' = "idle" /\ step' = 0 /\ line' = NoLine /\ mem' = EmptyState
        /\ failures' = 0 /\ session' = 0 /\ given' = 0

Fails == faults < MaxFaults /\ faults' = faults + 1 /\ UNCHANGED <<runs, crashes>>

\* A new file of observations/, and its number.
Observes(s, intent, attempt, status, ses, result, input) ==
  obs' = Append(obs, [step |-> s, intent |-> intent, attempt |-> attempt,
                      status |-> status, session |-> ses, result |-> result,
                      given |-> input])
\* Faulty variant: the number of the file is taken before the one it gets.
NewObsAhead == Len(obs) + 2
NewObs == Len(obs) + 1

------------------------------------------------------------------------------
(* run_plan: prepare or resume.                                            *)

Starts == At("idle") /\ runs < MaxRuns /\ runs' = runs + 1 /\ UNCHANGED <<crashes, faults>>

\* A plan never run: its directory and snapshot, then PLAN_LOADED.
Prepare ==
  /\ Starts /\ dir = "absent"
  /\ dir' = "ready" /\ Appends(Bare("PLAN_LOADED", 0)) /\ step' = 1
  /\ outcome' = "NONE" /\ cause' = "none" /\ journaled' = FALSE
  /\ UNCHANGED <<journal, head, torn, obs, sessions, mem, failures, session, given>>

\* A directory prepared without a journal, or a journal that does not verify.
Refuse ==
  /\ Starts /\ dir = "ready" /\ ~Readable
  /\ outcome' = "REFUSED" /\ cause' = "none" /\ journaled' = FALSE
  /\ UNCHANGED <<diskVars, sessions, procVars>>

\* Where a run with its state in hand goes first.
Enter == IF Memory THEN Appends(Bare("MEMORY_RECONCILED", 0))
                   ELSE pc' = "step" /\ line' = NoLine

Resume ==
  /\ Starts /\ dir = "ready" /\ Readable
  /\ mem' = Replay(journal) /\ step' = 1 /\ Enter
  /\ outcome' = "NONE" /\ cause' = "none" /\ journaled' = FALSE
  /\ UNCHANGED <<diskVars, sessions, failures, session, given>>

------------------------------------------------------------------------------
(* The append: record, its effect in memory, and retention.                *)

\* _JournalWriter.append: a record that is not the last one leaves the
\* reserve free.
Fits(terminal) == Len(journal) + 1 + (IF terminal THEN 0 ELSE 1) <= Limit
Write(e) == journal' = Append(journal, e) /\ head' = head + 1 /\ UNCHANGED <<dir, torn, obs>>

Recorded(kind) ==
  /\ At("record") /\ line.kind = kind /\ Fits(FALSE) /\ Write(line)
  /\ UNCHANGED <<sessions, envVars>>
Quiet == UNCHANGED <<lastVars>>

PlanLoaded ==
  /\ Recorded("PLAN_LOADED") /\ Enter /\ Quiet
  /\ UNCHANGED <<step, mem, failures, session, given>>

MemoryReconciled ==
  /\ Recorded("MEMORY_RECONCILED") /\ Goes("step") /\ line' = NoLine /\ Quiet
  /\ UNCHANGED <<step, mem, failures, session, given>>

PhaseStarted ==
  /\ Recorded("PHASE_STARTED")
  /\ mem' = [mem EXCEPT !.phase = step, !.count = 0, !.phases = @ \union {step}]
  /\ NextStep /\ line' = NoLine /\ Quiet /\ UNCHANGED <<session, given>>

StepStarted ==
  /\ Recorded("STEP_STARTED")
  /\ mem' = [mem EXCEPT !.attempts[step] = line.attempt]
  /\ pc' = Plan[step].type /\ line' = NoLine /\ Quiet
  /\ UNCHANGED <<step, failures, session, given>>

\* A completed ask is what WORKFLOW_OBSERVATION names from then on.
StepCompleted ==
  /\ Recorded("STEP_COMPLETED")
  /\ mem' = [mem EXCEPT !.completed[step] = line.obs]
  /\ given' = IF Plan[step].type = "ask" THEN line.obs ELSE given
  /\ NextStep /\ line' = NoLine /\ session' = 0 /\ Quiet

AskSkipped ==
  /\ Recorded("ASK_SKIPPED")
  /\ mem' = [mem EXCEPT !.skipped[step] = line.obs]
  /\ NextStep /\ line' = NoLine /\ Quiet /\ UNCHANGED <<session, given>>

\* A rejection counts in its phase and in its gate; either may end the run.
OverCap(m) == m.phase # 0 /\ Plan[m.phase].cap # 0 /\ m.count > Plan[m.phase].cap
GateRejected ==
  /\ Recorded("GATE_REJECTED")
  /\ mem' = [mem EXCEPT !.count = IF mem.phase = 0 THEN 0 ELSE @ + 1]
  /\ failures' = failures + 1
  /\ IF OverCap(mem') THEN Retains("phase-rounds") /\ line' = NoLine
     ELSE /\ UNCHANGED cause
          /\ IF Plan[step].action # "retry"
             THEN Appends(Record("STEP_FAILED", step, line.attempt, line.obs, {}))
             ELSE IF failures + 1 >= Plan[step].rounds
             THEN Appends(Bare("ROUND_CAP_REACHED", step))
             ELSE pc' = "again" /\ line' = NoLine
  /\ UNCHANGED <<step, session, given, outcome, journaled>>

RoundCapReached ==
  /\ Recorded("ROUND_CAP_REACHED") /\ Retains("gate-rounds") /\ line' = NoLine
  /\ UNCHANGED <<step, mem, failures, session, given, outcome, journaled>>

StepFailed ==
  /\ Recorded("STEP_FAILED") /\ line' = NoLine
  /\ IF Plan[step].action = "continue"
     THEN mem' = [mem EXCEPT !.failed[step] = line.obs] /\ NextStep /\ UNCHANGED cause
     ELSE Retains("gate-abort") /\ UNCHANGED <<mem, step, failures>>
  /\ UNCHANGED <<session, given, outcome, journaled>>

RunCompleted ==
  /\ Recorded("RUN_COMPLETED") /\ Gone /\ outcome' = "COMPLETED" /\ UNCHANGED <<cause, journaled>>

\* The store is full.
StoreFull ==
  /\ At("record") /\ ~Fits(FALSE) /\ Retains("store-limit")
  /\ UNCHANGED <<diskVars, sessions, envVars, step, line, mem, failures, session, given,
                 outcome, journaled>>

Retained ==
  /\ At("retain")
  /\ IF Fits(TRUE) THEN Write(Bare("RUN_RETAINED", 0)) /\ journaled' = TRUE
                   ELSE journaled' = FALSE /\ UNCHANGED diskVars
  /\ Gone /\ outcome' = "RETAINED"
  /\ UNCHANGED <<sessions, envVars, cause>>

------------------------------------------------------------------------------
(* execute: one step of the plan.                                          *)

\* The observation the step it depends on left, completed or failed for good.
Source(s) == IF Plan[s].from = 0 THEN 0
             ELSE IF mem.completed[Plan[s].from] # 0 THEN mem.completed[Plan[s].from]
             ELSE mem.failed[Plan[s].from]

\* Faulty variant: a gate left behind is tried again by the next process.
SettlesIfCompleted(s) ==
  \/ mem.completed[s] # 0 \/ s \in mem.phases
  \/ Source(s) # 0 /\ mem.skipped[s] = Source(s)

\* The early returns of execute and of _fase.
Settles(s) ==
  \/ mem.completed[s] # 0 \/ mem.failed[s] # 0 \/ s \in mem.phases
  \/ Source(s) # 0 /\ mem.skipped[s] = Source(s)

InStep == UNCHANGED <<dir, journal, head, torn, envVars, mem, outcome, journaled>>

SkipStep ==
  /\ At("step") /\ step \in Steps /\ Settles(step) /\ NextStep
  /\ InStep /\ UNCHANGED <<obs, sessions, line, session, given, cause>>

Execute(type) == Executing(type) /\ ~Settles(step)

StartPhase ==
  /\ Execute("fase") /\ Appends(Bare("PHASE_STARTED", step))
  /\ InStep /\ UNCHANGED <<obs, sessions, step, failures, session, given, cause>>

Attempts1 == mem.attempts[step] + 1
StartAttempt == Appends(Record("STEP_STARTED", step, Attempts1, 0, {}))

\* _campaign_command: an executable moved or changed since the manifest.
GateUnsealed ==
  /\ Campaign /\ Execute("gate") /\ Retains("campaign")
  /\ InStep /\ UNCHANGED <<obs, sessions, line, step, failures, session, given>>

StartGate ==
  /\ Execute("gate") \/ At("again")
  /\ StartAttempt
  /\ InStep /\ UNCHANGED <<obs, sessions, step, failures, session, given, cause>>

\* The command runs with WORKFLOW_OBSERVATION set to given.  Only a verdict
\* some later step reads is kept with its observation.
HasReader(s) == \E t \in Steps : Plan[t].from = s
GateRuns(exit, result) ==
  /\ At("gate")
  /\ Observes(step, "gate", mem.attempts[step], exit, 0, result, given)
  /\ \/ exit = "pass"
        /\ Appends(Record("STEP_COMPLETED", step, mem.attempts[step], NewObs, {}))
        /\ UNCHANGED cause
     \/ exit = "fail"
        /\ Appends(Record("GATE_REJECTED", step, mem.attempts[step], NewObs, {})) /\ UNCHANGED cause
     \/ exit = "impossible" /\ result = "none" /\ Retains("gate-impossible") /\ UNCHANGED line
  /\ InStep /\ UNCHANGED <<sessions, step, failures, session, given>>
RunGate ==
  \E exit \in {"pass", "fail", "impossible"} :
    \E result \in IF HasReader(step) THEN Verdicts ELSE {"none"} : GateRuns(exit, result)

StartJoin ==
  /\ Execute("join") /\ StartAttempt
  /\ InStep /\ UNCHANGED <<obs, sessions, step, failures, session, given, cause>>

\* Faulty variant: a gate left behind satisfies the barrier.
JoinAnyEnd ==
  LET end(d) == IF mem.completed[d] # 0 THEN mem.completed[d] ELSE mem.failed[d]
  IN  /\ At("join")
      /\ IF \E d \in Plan[step].depends : end(d) = 0
         THEN Retains("join-dep") /\ UNCHANGED <<obs, line>>
         ELSE /\ Observes(step, "join", mem.attempts[step], "", 0, "none", 0)
              /\ Appends(Record("STEP_COMPLETED", step, mem.attempts[step], NewObs,
                                {<<d, end(d)>> : d \in Plan[step].depends}))
              /\ UNCHANGED cause
      /\ InStep /\ UNCHANGED <<sessions, step, failures, session, given>>

JoinDeps ==
  /\ At("join")
  /\ IF \E d \in Plan[step].depends : mem.completed[d] = 0
     THEN Retains("join-dep") /\ UNCHANGED <<obs, line>>
     ELSE /\ Observes(step, "join", mem.attempts[step], "", 0, "none", 0)
          /\ Appends(Record("STEP_COMPLETED", step, mem.attempts[step], NewObs,
                            {<<d, mem.completed[d]>> : d \in Plan[step].depends}))
          /\ UNCHANGED cause
  /\ InStep /\ UNCHANGED <<sessions, step, failures, session, given>>

------------------------------------------------------------------------------
(* _ask: a step that asks a new session of DSH.                            *)

Fresh == Execute("ask") /\ mem.pending[step].status = "none"

AskUnconditional ==
  /\ Fresh /\ Plan[step].from = 0 /\ StartAttempt
  /\ InStep /\ UNCHANGED <<obs, sessions, step, failures, session, given, cause>>

\* The verdict kept with the source, else whatever evidence/ holds now.  One
\* that differs may be too long to quote in a record.
Verdict(v) ==
  IF Source(step) = 0 THEN v = "none"
  ELSE obs[Source(step)].result \in {v, "none"}
AskConditional ==
  /\ Fresh /\ Plan[step].from # 0
  /\ \E v \in Verdicts :
       /\ Verdict(v)
       /\ \/ v = "none" /\ Retains("no-verdict") /\ UNCHANGED line
          \/ v = "equal" /\ StartAttempt /\ UNCHANGED cause
          \/ v = "other" /\ UNCHANGED cause
             /\ Appends(Record("ASK_SKIPPED", step, 0, Source(step), {}))
          \/ v = "other" /\ Retains("record-limit") /\ UNCHANGED line
  /\ InStep /\ UNCHANGED <<obs, sessions, step, failures, session, given>>

WriteAskState(status, ses, result) ==
  Observes(step, "ask", mem.attempts[step], status, ses, result, 0)

CreateSession ==
  /\ At("ask")
  /\ sessions' = Append(sessions, [step |-> step, attempt |-> mem.attempts[step],
                                   state |-> "new", text |-> FALSE])
  /\ session' = Len(sessions) + 1 /\ Goes("dispatch")
  /\ InStep /\ UNCHANGED <<obs, line, step, failures, given, cause>>

SessionNotCreated ==
  /\ At("ask") /\ Fails /\ WriteAskState("failed", 0, "none") /\ Retains("no-session")
  /\ UNCHANGED <<dir, journal, head, torn, sessions, step, line, mem, failures, session,
                 given, outcome, journaled>>

Dispatch ==
  /\ At("dispatch") /\ WriteAskState("dispatched", session, "none") /\ Goes("send")
  /\ InStep /\ UNCHANGED <<sessions, line, step, failures, session, given, cause>>

Ses == sessions[session]
Becomes(state, text) ==
  sessions' = [sessions EXCEPT ![session] = [@ EXCEPT !.state = state, !.text = text]]

\* send_prompt: DSH takes the same request of a session once.
Send ==
  /\ At("send") /\ Ses.state # "lost"
  /\ Becomes(IF Ses.state = "new" THEN "queued" ELSE Ses.state, Ses.text) /\ Goes("poll")
  /\ InStep /\ UNCHANGED <<obs, line, step, failures, session, given, cause>>

\* _close_ask: cancel_session and the wait for its quiescence.  The cancel may
\* fail, or not be obeyed within the grace.
Closes ==
  \/ UNCHANGED sessions
  \/ Ses.state = "queued" /\ Becomes("new", FALSE)
  \/ Ses.state \in {"running", "busy"} /\ \E text \in BOOLEAN : Becomes("ended", text)

\* The call fails; of a session that is gone, every call does.
CallFails == IF Ses.state = "lost" THEN UNCHANGED envVars ELSE Fails

SendFails ==
  /\ At("send") /\ CallFails /\ Retains("dispatch")
  /\ Closes \/ (Ses.state = "new" /\ Becomes("queued", FALSE))
  /\ UNCHANGED <<diskVars, step, line, mem, failures, session, given, outcome, journaled>>

\* _poll_ask: the turn of the request is over and nothing runs under it.
Answered ==
  /\ At("poll") /\ Ses.state = "ended" /\ Goes("answer")
  /\ InStep /\ UNCHANGED <<obs, sessions, line, step, failures, session, given, cause>>

\* Faulty variant: the deadline only counts once the request is shown.
DeadlineOnceShown ==
  /\ At("poll") /\ Ses.state # "queued" /\ Closes /\ Retains("deadline")
  /\ InStep /\ UNCHANGED <<obs, line, step, failures, session, given>>

DeadlineExpires ==
  /\ At("poll") /\ Closes /\ Retains("deadline")
  /\ InStep /\ UNCHANGED <<obs, line, step, failures, session, given>>

ObserveFails ==
  /\ At("poll") /\ CallFails /\ Closes /\ Retains("observation")
  /\ UNCHANGED <<diskVars, step, line, mem, failures, session, given, outcome, journaled>>

\* The text, the result of its contract, the observation and the record.
TakeAnswer ==
  /\ At("answer")
  /\ \/ ~Ses.text /\ Retains("no-text") /\ UNCHANGED <<obs, line>>
     \/ Ses.text /\ Plan[step].contract /\ Retains("result") /\ UNCHANGED <<obs, line>>
     \/ /\ Ses.text
        /\ \E result \in IF Plan[step].contract THEN Verdicts \ {"none"} ELSE {"none"} :
             WriteAskState("completed", session, result)
        /\ Appends(Record("STEP_COMPLETED", step, mem.attempts[step], NewObs,
                          IF Source(step) = 0 THEN {} ELSE {<<Plan[step].from, Source(step)>>}))
        /\ UNCHANGED cause
  /\ InStep /\ UNCHANGED <<sessions, step, failures, session, given>>

\* _ask_resume: an attempt without a record of its end goes on in its session
\* or ends the run.
Pending == mem.pending[step]
AskUnresumable ==
  /\ Execute("ask") /\ Pending.status \in {"unknown", "unreadable"} /\ Retains(Pending.status)
  /\ InStep /\ UNCHANGED <<obs, sessions, line, step, failures, session, given>>

AskResume ==
  /\ Execute("ask") /\ Pending.status = "dispatched"
  /\ sessions[Pending.session].state # "lost"
  /\ session' = Pending.session
  /\ pc' = IF sessions[Pending.session].state \in {"new", "queued"} THEN "send" ELSE "poll"
  /\ InStep /\ UNCHANGED <<obs, sessions, line, step, failures, given, cause>>

AskSessionLost ==
  /\ Execute("ask") /\ Pending.status = "dispatched"
  /\ IF sessions[Pending.session].state = "lost" THEN UNCHANGED envVars ELSE Fails
  /\ Retains("lost")
  /\ UNCHANGED <<diskVars, sessions, step, line, mem, failures, session, given, outcome, journaled>>

Finish ==
  /\ At("step") /\ step = Len(Plan) + 1 /\ Appends(Bare("RUN_COMPLETED", 0))
  /\ InStep /\ UNCHANGED <<obs, sessions, step, failures, session, given, cause>>

------------------------------------------------------------------------------
(* The world around the process.                                           *)

Turn(n, before, after, texts) ==
  /\ sessions[n].state = before
  /\ \E text \in texts :
       sessions' = [sessions EXCEPT ![n] = [@ EXCEPT !.state = after, !.text = text]]

\* The session shows the request, ends its turn, and stops what ran under it.
SessionWorks ==
  /\ \E n \in DOMAIN sessions :
       \/ Turn(n, "queued", "running", {FALSE})
       \/ Turn(n, "running", "busy", BOOLEAN) \/ Turn(n, "running", "ended", BOOLEAN)
       \/ Turn(n, "busy", "ended", {sessions[n].text})
  /\ UNCHANGED <<diskVars, procVars, lastVars, envVars>>

SessionLost ==
  /\ \E n \in DOMAIN sessions :
       sessions[n].state # "lost" /\ Turn(n, sessions[n].state, "lost", {FALSE})
  /\ Fails /\ UNCHANGED <<diskVars, procVars, lastVars>>

\* An append cut short: part of the record, or all of it unconfirmed.
HalfAppends(e) ==
  \/ torn' = TRUE /\ UNCHANGED journal
  \/ journal' = Append(journal, e) /\ UNCHANGED torn

\* The process dies, or leaves with an OSError that record does not catch:
\* before an append, or within it.
Crash ==
  /\ ~At("idle") /\ crashes < MaxCrashes /\ crashes' = crashes + 1
  /\ \/ UNCHANGED <<journal, torn>>
     \/ At("record") /\ Fits(FALSE) /\ HalfAppends(line)
     \/ At("retain") /\ Fits(TRUE) /\ HalfAppends(Bare("RUN_RETAINED", 0))
  /\ Gone /\ outcome' = "CRASHED" /\ cause' = "none" /\ journaled' = FALSE
  /\ UNCHANGED <<dir, head, obs, sessions, runs, faults>>

RunPlan == Prepare \/ Refuse \/ Resume
Records == \/ PlanLoaded \/ MemoryReconciled \/ PhaseStarted \/ StepStarted
           \/ StepCompleted \/ AskSkipped \/ GateRejected \/ RoundCapReached
           \/ StepFailed \/ RunCompleted \/ StoreFull \/ Retained
Plain == \/ SkipStep \/ StartPhase \/ GateUnsealed \/ StartGate \/ RunGate
         \/ StartJoin \/ JoinDeps \/ Finish
Ask == \/ AskUnconditional \/ AskConditional \/ CreateSession \/ SessionNotCreated
       \/ Dispatch \/ Send \/ SendFails \/ Answered \/ DeadlineExpires \/ ObserveFails
       \/ TakeAnswer \/ AskUnresumable \/ AskResume \/ AskSessionLost
Process == Records \/ Plain \/ Ask
Next == RunPlan \/ Process \/ SessionWorks \/ SessionLost \/ Crash

Spec == Init /\ [][Next]_vars
\* The process is scheduled, its gates end and its calls to DSH answer or
\* fail: it does not stop between two of its steps.  Nothing is assumed of
\* the sessions, nor of how many times the plan is run.
FairSpec == Spec /\ WF_vars(Process)

------------------------------------------------------------------------------
(* verify: what the journal must say of itself.                            *)

\* The last observation s left before the record k; 0 if none.
ObservedBefore(s, k) ==
  LET at == Max({0} \union {i \in 1..(k - 1) :
                  /\ journal[i].step = s
                  /\ \/ journal[i].kind = "STEP_COMPLETED"
                     \/ journal[i].kind = "STEP_FAILED" /\ Plan[s].action = "continue"})
  IN  IF at = 0 THEN 0 ELSE journal[at].obs
CompletedBefore(s, k) ==
  \E i \in 1..(k - 1) : journal[i].step = s /\ journal[i].kind = "STEP_COMPLETED"

JoinAccepted(e, k) ==
  /\ Verified(journal, e.step) # 0
  /\ {d[1] : d \in e.deps} = Plan[e.step].depends
  /\ \A d \in e.deps : CompletedBefore(d[1], k) /\ d[2] = Done(SubSeq(journal, 1, k - 1), d[1])

AskAccepted(e, k) ==
  LET o == ObservedBefore(Plan[e.step].from, k)
  IN  /\ o # 0 /\ \A d \in e.deps : d[2] = o
      /\ obs[o].result \in {"none", "equal"}

SkipAccepted(e, k) ==
  LET from == Plan[e.step].from
      o == ObservedBefore(from, k)
  IN  /\ from # 0 /\ ~CompletedBefore(e.step, k)
      /\ o # 0 /\ (CompletedBefore(from, k) \/ Plan[from].type = "gate")
      /\ e.obs = o /\ obs[o].result \notin {"none", "equal"}

VerifyAccepts ==
  /\ Readable /\ journal[1].kind = "PLAN_LOADED"
  /\ \A k \in DOMAIN journal :
       LET e == journal[k]
       IN  /\ e.kind = "STEP_COMPLETED" /\ Plan[e.step].type = "join" => JoinAccepted(e, k)
           /\ e.kind = "STEP_COMPLETED" /\ Plan[e.step].from # 0 => AskAccepted(e, k)
           /\ e.kind = "ASK_SKIPPED" => SkipAccepted(e, k)

------------------------------------------------------------------------------
(* Properties.                                                             *)

Labels == {"idle", "record", "retain", "step", "gate", "again", "join", "ask",
           "dispatch", "send", "poll", "answer"}
Causes == {"none", "phase-rounds", "gate-rounds", "gate-abort", "store-limit",
           "record-limit", "campaign", "gate-impossible", "join-dep", "no-verdict",
           "no-session", "dispatch", "deadline", "observation", "no-text", "result",
           "unknown", "unreadable", "lost"}
RecordType == [kind : Kinds, step : Nat, attempt : Nat, obs : Nat, deps : SUBSET (Nat \X Nat)]
ObsType == [step : Steps, intent : {"gate", "join", "ask"}, attempt : Nat,
            status : {"", "pass", "fail", "impossible", "failed", "dispatched", "completed"},
            session : Nat, result : Verdicts, given : Nat]
SessionType == [step : Steps, attempt : Nat, text : BOOLEAN,
                state : {"new", "queued", "running", "busy", "ended", "lost"}]
MemType == [completed : [Steps -> Nat], failed : [Steps -> Nat], skipped : [Steps -> Nat],
            attempts : [Steps -> Nat], phase : Nat, count : Nat, phases : SUBSET Nat,
            pending : [Steps -> [status : {"none", "unknown", "unreadable", "dispatched"},
                                 session : Nat]]]

TypeOK ==
  /\ dir \in {"absent", "ready"} /\ journal \in Seq(RecordType) /\ head \in Nat
  /\ torn \in BOOLEAN /\ obs \in Seq(ObsType) /\ sessions \in Seq(SessionType)
  /\ pc \in Labels /\ step \in 0..(Len(Plan) + 1) /\ line \in RecordType
  /\ mem \in MemType /\ failures \in Nat /\ session \in 0..Len(sessions) /\ given \in 0..Len(obs)
  /\ outcome \in {"NONE", "COMPLETED", "RETAINED", "REFUSED", "CRASHED"}
  /\ cause \in Causes /\ journaled \in BOOLEAN
  /\ runs \in Nat /\ crashes \in Nat /\ faults \in Nat

\* What the process keeps in memory is what the journal stands for: a process
\* killed now and started again goes on as this one would have.
MemoryIsReplay ==
  pc # "idle" /\ journal # <<>> =>
    [mem EXCEPT !.pending = 0] = [Replay(journal) EXCEPT !.pending = 0]

Ends(e, s) == /\ e.step = s
              /\ \/ e.kind = "STEP_COMPLETED"
                 \/ e.kind = "STEP_FAILED" /\ Plan[s].action = "continue"
Passes(e, s) == Ends(e, s) \/ (e.step = s /\ e.kind \in {"ASK_SKIPPED", "PHASE_STARTED"})
Opens(e) == e.kind \in {"STEP_STARTED", "PHASE_STARTED", "ASK_SKIPPED"}

\* A step that completed, or a gate that failed and was left behind, is never
\* started again, whatever number of processes run the plan.
NothingTwice ==
  \A i, k \in DOMAIN journal :
    i < k /\ journal[k].kind = "STEP_STARTED" => ~Ends(journal[i], journal[k].step)

\* The journal tells one run of the plan: a step also opens only when every step
\* before it has ended, was skipped or is a phase that began, and the run
\* completes only when all have.
OneRun ==
  /\ NothingTwice
  /\ \A k \in DOMAIN journal : \A s \in Steps :
       \/ Opens(journal[k]) /\ s < journal[k].step
       \/ journal[k].kind = "RUN_COMPLETED"
       => \E i \in 1..(k - 1) : Passes(journal[i], s)

\* verify accepts every journal that can be resumed, but for a skip decided on
\* evidence that appeared after the source was observed.
LateVerdict ==
  \E k \in DOMAIN journal : journal[k].kind = "ASK_SKIPPED" /\ obs[journal[k].obs].result = "none"
Verifies == Readable => VerifyAccepts \/ LateVerdict

\* An ask is put to one session only: a lost session or a restart never
\* dispatches it to another.
NeverRedispatched ==
  \A m, n \in DOMAIN sessions : sessions[m].step = sessions[n].step => m = n

\* An ask completes only with a session that has ended its turn and has
\* nothing running under it.
QuietWhenCompleted ==
  \A k \in DOMAIN journal :
    journal[k].kind = "STEP_COMPLETED" /\ Plan[journal[k].step].type = "ask" =>
      sessions[obs[journal[k].obs].session].state \in {"ended", "lost"}

\* A journal no process was killed over can be resumed.
ResumableUnlessKilled == pc = "idle" /\ dir = "ready" /\ crashes = 0 => Readable

\* The first retention of a plan always reaches the journal: the reserve is
\* kept for it.
RetentionJournaled ==
  outcome = "RETAINED" /\ ~journaled => \E i \in DOMAIN journal : journal[i].kind = "RUN_RETAINED"

\* A process goes on after a rejection only while its phase is within its cap,
\* the rejections of every earlier process counted: a restart does not give a
\* phase its rounds again.
PhaseBudget ==
  LET at == PhaseAt(journal)
  IN  at # 0 /\ Plan[journal[at].step].cap # 0 /\ failures > 0 /\ pc # "retain" =>
        Cardinality({i \in DOMAIN journal : i > at /\ journal[i].kind = "GATE_REJECTED"})
          <= Plan[journal[at].step].cap

\* Every process ends: a deadline, a cap or a failure stops whatever does not
\* finish by itself.
Terminates == pc # "idle" ~> pc = "idle"

------------------------------------------------------------------------------
(* The inductive invariant.                                                *)

AskLabels == {"ask", "dispatch", "send", "poll", "answer"}
StepKinds == Kinds \ {"PLAN_LOADED", "MEMORY_RECONCILED", "RUN_RETAINED", "RUN_COMPLETED"}

\* The step in hand is of the kind its label is about.
InPlace ==
  /\ pc \in {"gate", "again"} => step \in Steps /\ Plan[step].type = "gate"
  /\ pc = "join" => step \in Steps /\ Plan[step].type = "join"
  /\ pc \in AskLabels => step \in Steps /\ Plan[step].type = "ask"
  /\ pc \in AskLabels \ {"ask"} => session # 0
  /\ pc = "record" /\ line.kind \in StepKinds => step \in Steps /\ line.step = step
  /\ pc = "record" /\ line.kind = "STEP_STARTED" => Plan[step].type # "fase"
  /\ pc = "record" /\ line.kind = "GATE_REJECTED" => Plan[step].type = "gate"

\* Whatever names a file or a session names one there is.
References ==
  /\ \A n \in DOMAIN obs : obs[n].session \in 0..Len(sessions)
  /\ line.kind = "STEP_COMPLETED" => line.obs \in 0..Len(obs)
  /\ \A s \in Steps :
       /\ mem.pending[s].session \in 0..Len(sessions)
       /\ mem.pending[s].status = "dispatched" => mem.pending[s].session # 0

\* An attempt has no greater number than the records there are.
Numbered ==
  /\ \A k \in DOMAIN journal : journal[k].attempt <= Len(journal)
  /\ line.attempt <= Len(journal) + 1
  /\ \A s \in Steps : mem.attempts[s] <= Len(journal)

\* The observation o was taken from a session that is over.
OfEnded(o) ==
  /\ o \in DOMAIN obs /\ obs[o].session \in DOMAIN sessions
  /\ sessions[obs[o].session].state \in {"ended", "lost"}
AnswerOf(e) == e.kind = "STEP_COMPLETED" /\ Plan[e.step].type = "ask"
AnswersOver ==
  /\ pc = "answer" => sessions[session].state \in {"ended", "lost"}
  /\ pc = "record" /\ AnswerOf(line) => OfEnded(line.obs)
  /\ \A k \in DOMAIN journal : AnswerOf(journal[k]) => OfEnded(journal[k].obs)

\* Only a process that is killed leaves a journal that does not verify.
Confirmed ==
  /\ crashes = 0 => ~torn /\ head = Len(journal)
  /\ dir = "absent" => pc = "idle"
  /\ journal = <<>> /\ pc # "idle" => pc = "record" /\ line.kind = "PLAN_LOADED"
  /\ journal = <<>> /\ pc = "idle" /\ dir = "ready" => crashes > 0

\* The reserve is spent only on a retention.
Reserve ==
  /\ Len(journal) <= Limit
  /\ Len(journal) = Limit => \E i \in DOMAIN journal : journal[i].kind = "RUN_RETAINED"

IInv == /\ TypeOK /\ InPlace /\ References /\ Numbered /\ AnswersOver /\ Confirmed
        /\ Reserve /\ RetentionJournaled
===============================================================================
