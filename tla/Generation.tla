------------------------------ MODULE Generation ------------------------------
(***************************************************************************)
(* One generation run, from its directory to ACTIVE: the commands of       *)
(* scripts/bootstrap.py (install, finalize), the supervision of the        *)
(* Creator session (scripts/creator_client.py) and the static acceptance   *)
(* (scripts/acceptance.py), against a DSH session that works on its own    *)
(* and requests its acceptance from inside its turn.                       *)
(*                                                                         *)
(* Several processes may run a command on the same run; any of them may    *)
(* be killed between two steps.  Only run_creator takes a lock.  A draft   *)
(* is a state of generated/, named by its number: a digest of the manifest *)
(* or of the candidate is that number.  Every billed step costs one token. *)
(***************************************************************************)
EXTENDS Naturals, Sequences, FiniteSets

CONSTANTS
  Hosts,      \* processes that run a command on this run
  Free,       \* nobody holds .creator.lock
  Commands,   \* what the operator types: "install", "creator", "finalize"
  Kinds,      \* the drafts the session may leave
  MaxTokens,  \* budget.max_tokens of the run
  MaxSteps,   \* billed steps of the session (bounds the model)
  MaxDrafts,  \* times generated/ changes (bounds the model)
  MaxIncidents, \* commands, turns of others and further drafts, all together
                \* (bounds the model; a kill ends a command, so it is bounded too)
  Crashes     \* whether processes may be killed

ASSUME NamesAssumption ==
  /\ Free \notin Hosts
  /\ Commands \in [Hosts -> SUBSET {"install", "creator", "finalize"}]
  \* "broken": verify_generation_output refuses it; "rejected": the validator does.
  /\ Kinds \subseteq {"broken", "rejected", "valid"}
ASSUME BoundsAssumption ==
  /\ MaxTokens \in Nat /\ MaxSteps \in Nat /\ MaxDrafts \in Nat /\ MaxIncidents \in Nat
  /\ Crashes \in BOOLEAN

VARIABLES
  status,     \* run.json, "MISSING" between its unlink and its write
  session,    \* creator-session.json
  finish,     \* finish.json: the draft it names, {} if absent
  request,    \* acceptance/request.json: its draft
  retained,   \* acceptance/static-retained.json: its draft
  verdict,    \* acceptance/host-verdict.json (READY_FOR_INSTALL): its draft
  drafts,     \* the drafts of generated/ so far; the last one is on disk
  log,        \* the durable journal of the DSH session
  turn,       \* the turn DSH is running: "none", "own" or "other"
  inbox,      \* the prompt: "none", "queued" or "taken"
  prompted,   \* session ids a prompt was sent to
  child, job, \* a descendant runs, a background job runs
  accepting,  \* how far the session's own bootstrap accept has got
  lock,       \* who holds .creator.lock
  pc, chain,  \* where each process is, and whether finalize follows
  mem,        \* the session state it holds
  seen,       \* what it has read of the observation under way
  held,       \* the draft it read last
  incidents

diskVars == <<status, session, finish, request, retained, verdict>>
dshVars  == <<drafts, log, turn, inbox, prompted, child, job, accepting>>
hostVars == <<chain, mem, seen, held>>
vars == <<diskVars, dshVars, lock, pc, hostVars, incidents>>

Statuses == {"CREATED", "GENERATING", "GENERATED", "VALIDATING", "READY_FOR_INSTALL",
             "ACTIVE", "RETAINED", "RECOVERY_REQUIRED", "MISSING"}
Events == {"turn/start", "user/message", "assistant/message", "turn/end"}
Labels == {"idle", "lock", "prepare", "session", "adopt", "prompt", "observe", "judge",
           "await", "confirm", "verify", "prevalidate", "finish", "generated", "rerun",
           "retain", "recover", "begin", "request", "unlink", "validating", "discard",
           "verdict", "static", "digest", "early", "retaining", "install", "unready",
           "ready", "unactive", "active"}

\* The session state: what _fold_observation accumulates, id 0 if there is none.
SessionType == [id : Nat, cursor : Nat, usage : SUBSET Nat, open : Nat, request : Nat,
                terminal : BOOLEAN, quiet : BOOLEAN]
NoSession == [id |-> 0, cursor |-> 0, usage |-> {}, open |-> 0, request |-> 0,
              terminal |-> FALSE, quiet |-> FALSE]
SeenType == [read : SUBSET {"follow", "control"}, cursor : Nat, jobs : BOOLEAN]
NothingSeen == [read |-> {}, cursor |-> 0, jobs |-> FALSE]

-----------------------------------------------------------------------------
(* The package, the journal and the account.                               *)

Current == Len(drafts)                      \* 0: no manifest yet
Kind == IF Current = 0 THEN "none" ELSE drafts[Current]

Positions(event, n) == {i \in 1..n : i <= Len(log) /\ log[i] = event}
TurnAt(n) == Cardinality(Positions("turn/start", n))
Billed(n) == Positions("assistant/message", n)

Quiescent(s) == s.terminal /\ s.quiet
OverBudget(s) == Cardinality(s.usage) >= MaxTokens

\* Faulty variant: the end of any turn is the end of the request.
FoldAnyTurn(s, upto, quiet) ==
  LET new == (s.cursor + 1)..upto
  IN  [s EXCEPT !.cursor = upto,
                !.usage = @ \union (new \intersect Billed(upto)),
                !.open = TurnAt(upto),
                !.request = IF Positions("user/message", upto) = {} THEN 0 ELSE 1,
                !.terminal = @ \/ new \intersect Positions("turn/end", upto) # {},
                !.quiet = quiet]

\* The records after the cursor, in their order: which turn is open, which
\* one took the request, whether that one ended, and the steps it billed.
FoldObservation(s, upto, quiet) ==
  LET new == (s.cursor + 1)..upto
      of(event) == new \intersect Positions(event, upto)
      open(i) == IF \E k \in of("turn/start") : k <= i THEN TurnAt(i) ELSE s.open
      asked == {open(k) : k \in of("user/message")}
      turnOf(i) == IF \E k \in of("user/message") : k <= i
                   THEN CHOOSE t \in asked : TRUE ELSE s.request
  IN  [s EXCEPT !.cursor = upto,
                !.usage = @ \union of("assistant/message"),
                !.open = open(upto),
                !.request = turnOf(upto),
                !.terminal = @ \/ \E i \in of("turn/end") : /\ turnOf(i) # 0
                                                            /\ turnOf(i) = TurnAt(i),
                !.quiet = quiet]

-----------------------------------------------------------------------------
(* Helper actions of a process.                                            *)

Goto(h, label) == pc' = [pc EXCEPT ![h] = label]
\* A command ends or dies: a lock it held is free, what it held in memory is lost.
Leaves(h, label) ==
  /\ Goto(h, label)
  /\ lock' = IF lock = h THEN Free ELSE lock
  /\ mem' = [mem EXCEPT ![h] = NoSession]
  /\ seen' = [seen EXCEPT ![h] = NothingSeen]
  /\ held' = [held EXCEPT ![h] = 0]
Ends(h) == Leaves(h, "idle") /\ chain' = [chain EXCEPT ![h] = FALSE]
\* run_creator answered GENERATED or READY_FOR_HOST_REJECTION.
HandsOver(h) == IF chain[h] THEN Leaves(h, "begin") /\ UNCHANGED chain ELSE Ends(h)
Keeps == UNCHANGED <<hostVars, lock>>

\* run.json is unlinked, and then created: neither is done if another process
\* has done the same in between.
Unlink(h, next) ==
  /\ UNCHANGED <<session, finish, request, retained, verdict, dshVars>>
  /\ IF status = "MISSING" THEN Ends(h) /\ UNCHANGED status
     ELSE status' = "MISSING" /\ Goto(h, next) /\ Keeps
Create(h, value, next) ==
  /\ UNCHANGED <<session, finish, request, retained, verdict, dshVars>>
  /\ IF status # "MISSING" \/ next = "idle" THEN Ends(h) ELSE Goto(h, next) /\ Keeps
  /\ status' = IF status = "MISSING" THEN value ELSE status

-----------------------------------------------------------------------------
(* Commands.                                                               *)

\* install finds the run and reads its status, before any lock.
Install(h) ==
  /\ pc[h] = "idle" /\ "install" \in Commands[h]
  /\ \/ /\ status \in {"CREATED", "GENERATING"}
        /\ Goto(h, "lock")
     \/ /\ status \in {"GENERATED", "READY_FOR_INSTALL"}
        /\ Goto(h, "begin")
  /\ chain' = [chain EXCEPT ![h] = TRUE]
  /\ UNCHANGED <<diskVars, dshVars, lock, mem, seen, held>>

\* creator_client.py --run-dir: no finalization follows.
Resume(h) ==
  /\ pc[h] = "idle" /\ "creator" \in Commands[h]
  /\ Goto(h, "lock")
  /\ UNCHANGED <<diskVars, dshVars, lock, hostVars>>

\* bootstrap.py finalize.
Finalize(h) ==
  /\ pc[h] = "idle" /\ "finalize" \in Commands[h]
  /\ Goto(h, "begin")
  /\ UNCHANGED <<diskVars, dshVars, lock, hostVars>>

-----------------------------------------------------------------------------
(* run_creator.                                                            *)

\* _run_lock, the status, and what validate_preconditions says of it.
Acquire(h) ==
  /\ pc[h] = "lock" /\ lock = Free
  /\ \/ /\ status = "MISSING"
        /\ Ends(h)
     \/ /\ status # "MISSING"
        /\ lock' = h
        /\ Goto(h, CASE status = "GENERATED" -> "rerun"
                     [] status \in {"CREATED", "GENERATING"} -> "prepare"
                     [] OTHER -> "retain")
        /\ UNCHANGED hostVars
  /\ UNCHANGED <<diskVars, dshVars>>

\* prepare writes the document it read with the status GENERATING.
Prepare(h) ==
  /\ pc[h] = "prepare"
  /\ status' = "GENERATING"
  /\ Goto(h, "session")
  /\ Keeps
  /\ UNCHANGED <<session, finish, request, retained, verdict, dshVars>>

\* What is next for the session state s: a terminal and quiescent turn with a
\* package is not dispatched again.
AfterLoad(s) ==
  IF ~Quiescent(s) \/ Current = 0 THEN "adopt"
  ELSE IF OverBudget(s) THEN "retain" ELSE "verify"

\* Faulty variant: a run that is not terminal is begun again.
LoadAfresh(h) ==
  /\ pc[h] = "session"
  /\ session' = IF Quiescent(session) THEN session
                ELSE [NoSession EXCEPT !.id = Cardinality(prompted) + 1]
  /\ mem' = [mem EXCEPT ![h] = session']
  /\ Goto(h, AfterLoad(session'))
  /\ UNCHANGED <<status, finish, request, retained, verdict, dshVars, lock, chain,
                 seen, held>>

\* The identity is durable before any RPC; a resumed run must still agree with
\* its prompt and its limit, else it is a ValueError.
LoadOrCreate(h) ==
  /\ pc[h] = "session"
  /\ \/ /\ session.id = 0
        /\ session' = [NoSession EXCEPT !.id = Cardinality(prompted) + 1]
        /\ mem' = [mem EXCEPT ![h] = session']
        /\ Goto(h, "adopt")
     \/ /\ session.id # 0
        /\ mem' = [mem EXCEPT ![h] = session]
        /\ Goto(h, AfterLoad(session)) \/ Goto(h, "retain")
        /\ UNCHANGED session
  /\ UNCHANGED <<status, finish, request, retained, verdict, dshVars, lock, chain,
                 seen, held>>

\* A DSH call answered with an error or an unusable value is a ValueError.
Refused(h, at) == pc[h] = at /\ Goto(h, "retain") /\ Keeps

\* A DSH is acquired, or there is none (PREPARED); the session is created under
\* the persisted id, or adopted.
Adopt(h) ==
  /\ \/ pc[h] = "adopt" /\ Goto(h, "prompt") /\ Keeps
     \/ pc[h] = "adopt" /\ Ends(h)
     \/ Refused(h, "adopt")
  /\ UNCHANGED <<diskVars, dshVars>>

\* DSH takes a requestId once; a call may fail after it was served.
SendPrompt(h) ==
  /\ \/ pc[h] = "prompt" /\ Goto(h, "observe") /\ Keeps
     \/ Refused(h, "prompt")
  /\ \/ /\ prompted' = prompted \union {mem[h].id}
        /\ inbox' = IF inbox = "none" THEN "queued" ELSE inbox
     \/ pc'[h] = "retain" /\ UNCHANGED <<prompted, inbox>>
  /\ UNCHANGED <<diskVars, drafts, log, turn, child, job, accepting>>

Observing == {"observe", "await"}

\* stream_snapshot: the opening frames of session/follow and session/control,
\* in whichever order they come.
ReadFollow(h) ==
  /\ pc[h] \in Observing /\ "follow" \notin seen[h].read
  /\ seen' = [seen EXCEPT ![h].read = @ \union {"follow"}, ![h].cursor = Len(log)]
  /\ UNCHANGED <<diskVars, dshVars, lock, pc, chain, mem, held>>
ReadControl(h) ==
  /\ pc[h] \in Observing /\ "control" \notin seen[h].read
  /\ seen' = [seen EXCEPT ![h].read = @ \union {"control"}, ![h].jobs = job]
  /\ UNCHANGED <<diskVars, dshVars, lock, pc, chain, mem, held>>

\* session/list completes the observation, which is folded and saved.
ReadList(h) ==
  /\ pc[h] \in Observing /\ seen[h].read = {"follow", "control"}
  /\ LET quiet == turn = "none" /\ ~child /\ ~seen[h].jobs
     IN  mem' = [mem EXCEPT ![h] = FoldObservation(@, seen[h].cursor, quiet)]
  /\ session' = mem'[h]
  /\ seen' = [seen EXCEPT ![h] = NothingSeen]
  /\ Goto(h, IF pc[h] = "observe" THEN "judge" ELSE "confirm")
  /\ UNCHANGED <<status, finish, request, retained, verdict, dshVars, lock, chain,
                 held>>

ObservationFails(h) ==
  /\ pc[h] \in Observing
  /\ Goto(h, "retain")
  /\ seen' = [seen EXCEPT ![h] = NothingSeen]
  /\ UNCHANGED <<diskVars, dshVars, lock, chain, mem, held>>

\* Faulty variant: success is looked for before the budget.
JudgeSuccessFirst(h) ==
  /\ pc[h] = "judge"
  /\ Goto(h, IF Quiescent(mem[h]) THEN IF Current > 0 THEN "verify" ELSE "retain"
             ELSE IF OverBudget(mem[h]) THEN "await" ELSE "observe")
  /\ Keeps
  /\ UNCHANGED <<diskVars, dshVars>>

\* The budget first, and then the end of the turn.  A cancel that fails leaves
\* the run RECOVERY_REQUIRED.
Judge(h) ==
  /\ pc[h] = "judge"
  /\ \/ OverBudget(mem[h]) /\ (Goto(h, "await") \/ Goto(h, "recover"))
     \/ /\ ~OverBudget(mem[h]) /\ Quiescent(mem[h])
        /\ Goto(h, IF Current > 0 THEN "verify" ELSE "retain")
     \/ /\ ~OverBudget(mem[h]) /\ ~Quiescent(mem[h])
        /\ Goto(h, "observe")
  /\ Keeps
  /\ UNCHANGED <<diskVars, dshVars>>

\* The deadline has passed.
TimeOut(h) ==
  /\ pc[h] = "judge" /\ ~OverBudget(mem[h]) /\ ~Quiescent(mem[h])
  /\ Goto(h, "await") \/ Goto(h, "recover")
  /\ Keeps
  /\ UNCHANGED <<diskVars, dshVars>>

\* _await_confirmed_quiescence: nothing runs, whatever the turn came to.
Confirm(h) ==
  /\ pc[h] = "confirm"
  /\ Goto(h, IF mem[h].quiet THEN "retain" ELSE "await")
  /\ Keeps
  /\ UNCHANGED <<diskVars, dshVars>>
\* The grace after a cancellation is over.
GiveUp(h) ==
  /\ pc[h] = "await" /\ seen[h].read = {}
  /\ Goto(h, "recover")
  /\ Keeps
  /\ UNCHANGED <<diskVars, dshVars>>

\* Faulty variant: the manifest that was verified is not the one handed on.
VerifyUnread(h) ==
  /\ pc[h] = "verify"
  /\ Goto(h, IF Kind = "broken" THEN "retain" ELSE "prevalidate")
  /\ Keeps
  /\ UNCHANGED <<diskVars, dshVars>>

\* verify_generation_output reads the manifest, then has the package validated;
\* a package the validator rejects is left to the Host.
Verify(h) ==
  /\ pc[h] = "verify"
  /\ held' = [held EXCEPT ![h] = Current]
  /\ Goto(h, IF Kind = "broken" THEN "retain" ELSE "prevalidate")
  /\ UNCHANGED <<diskVars, dshVars, lock, chain, mem, seen>>
Prevalidate(h) ==
  /\ pc[h] = "prevalidate"
  /\ \/ Kind = "valid" /\ Goto(h, "finish") /\ Keeps
     \/ Kind # "valid" /\ HandsOver(h)
  /\ UNCHANGED <<diskVars, dshVars>>

\* create_finish: finish.json if there is none, then run.json.
WriteFinish(h) ==
  /\ pc[h] = "finish"
  /\ finish' = IF finish = {} THEN {held[h]} ELSE finish
  /\ Goto(h, "generated")
  /\ Keeps
  /\ UNCHANGED <<status, session, request, retained, verdict, dshVars>>
WriteGenerated(h) ==
  /\ pc[h] = "generated"
  /\ \/ status = "MISSING" /\ Goto(h, "retain") /\ Keeps /\ UNCHANGED status
     \/ status # "MISSING" /\ HandsOver(h) /\ status' = "GENERATED"
  /\ UNCHANGED <<session, finish, request, retained, verdict, dshVars>>

\* run_creator on a GENERATED run: the account, the package, and finish.json.
\* Every refusal here is a ValueError, the validator's too.
Rerun(h) ==
  /\ pc[h] = "rerun"
  /\ \/ /\ session.id = 0 \/ OverBudget(session) \/ Kind # "valid" \/ finish \notin {{}, {Current}}
        /\ Goto(h, "retain") /\ Keeps
     \/ /\ session.id # 0 /\ ~OverBudget(session) /\ Kind = "valid"
        /\ \/ /\ finish = {}
              /\ held' = [held EXCEPT ![h] = Current]
              /\ Goto(h, "finish")
              /\ UNCHANGED <<lock, chain, mem, seen>>
           \/ finish = {Current} /\ HandsOver(h)
  /\ UNCHANGED <<diskVars, dshVars>>

\* retain and _mark_recovery_required replace whatever status they find.
Settles(h, label, value) ==
  /\ pc[h] = label
  /\ Ends(h)
  /\ status' = IF status = "MISSING" THEN status ELSE value
  /\ UNCHANGED <<session, finish, request, retained, verdict, dshVars>>
Retain(h) == Settles(h, "retain", "RETAINED")
MarkRecoveryRequired(h) ==
  \/ status # "MISSING" /\ Settles(h, "recover", "RECOVERY_REQUIRED")
  \/ status = "MISSING" /\ Refused(h, "recover") /\ UNCHANGED <<diskVars, dshVars>>

-----------------------------------------------------------------------------
(* finalize.                                                               *)

Begin(h) ==
  /\ pc[h] = "begin"
  /\ \/ status = "MISSING" /\ Ends(h)
     \/ status # "MISSING" /\ Goto(h, "request") /\ Keeps
  /\ UNCHANGED <<diskVars, dshVars>>

\* A request of the current draft stands.  Any other is made again, as far as
\* the draft's manifest allows; without run.json neither can be told.
EnsureRequest(h) ==
  /\ pc[h] = "request"
  /\ \/ /\ request = {Current} /\ status # "MISSING"
        /\ Goto(h, "verdict") /\ UNCHANGED request
     \/ /\ request # {Current} \/ status = "MISSING"
        /\ \/ /\ Kind \in {"rejected", "valid"} /\ status # "MISSING"
              /\ request' = {Current}
              /\ Goto(h, "unlink")
           \/ /\ Kind # "valid" \/ status = "MISSING"
              /\ Goto(h, "discard") /\ UNCHANGED request
  /\ Keeps
  /\ UNCHANGED <<status, session, finish, retained, verdict, dshVars>>
UnlinkRun(h) == pc[h] = "unlink" /\ Unlink(h, "validating")
WriteValidating(h) == pc[h] = "validating" /\ Create(h, "VALIDATING", "discard")

\* What the Host found of an earlier candidate goes.
DiscardEvidence(h) ==
  /\ pc[h] = "discard"
  /\ retained' = {} /\ verdict' = {}
  /\ Goto(h, "verdict")
  /\ Keeps
  /\ UNCHANGED <<status, session, finish, request, dshVars>>

ReuseEvidence(h) ==
  /\ pc[h] = "verdict"
  /\ \/ /\ retained = {Current}
        /\ Ends(h) /\ UNCHANGED retained
     \/ /\ retained \notin {{}, {Current}}
        /\ retained' = {}
        /\ Goto(h, "static") /\ Keeps
     \/ /\ retained = {} /\ verdict \notin {{}, {Current}}
        /\ Ends(h) /\ UNCHANGED retained
     \/ /\ retained = {} /\ verdict \in {{}, {Current}}
        /\ Goto(h, IF verdict = {} THEN "static" ELSE "install")
        /\ Keeps /\ UNCHANGED retained
  /\ UNCHANGED <<status, session, finish, request, verdict, dshVars>>

\* Acceptance.run: the static validation, then the acceptance plan of the package, which
\* can be refused although the static layers passed, and then the digest of what is there.
ValidateStatic(h) ==
  /\ pc[h] = "static"
  /\ \/ status = "MISSING" /\ Ends(h)
     \/ status # "MISSING" /\ Keeps /\ Kind = "valid" /\ Goto(h, "digest")
     \/ status # "MISSING" /\ Keeps /\ Goto(h, "early")
  /\ UNCHANGED <<diskVars, dshVars>>
WriteVerdict(h) ==
  /\ pc[h] = "digest"
  /\ verdict' = {Current}
  /\ Goto(h, "install")
  /\ Keeps
  /\ UNCHANGED <<status, session, finish, request, retained, dshVars>>
RetainEarly(h) ==
  /\ pc[h] = "early"
  /\ retained' = {Current}
  /\ Goto(h, "retaining")
  /\ Keeps
  /\ UNCHANGED <<status, session, finish, request, verdict, dshVars>>
WriteRetained(h) == Settles(h, "retaining", "RETAINED")

\* No DSH, a verdict that no longer holds, an installation that is refused or
\* rolled back; or one that is live now or with the next start of DSH.
Activate(h) ==
  /\ pc[h] = "install"
  /\ \/ Ends(h)
     \/ verdict = {Current} /\ (Goto(h, "unready") \/ Goto(h, "unactive")) /\ Keeps
  /\ UNCHANGED <<diskVars, dshVars>>
UnlinkForReady(h) == pc[h] = "unready" /\ Unlink(h, "ready")
WriteReady(h) == pc[h] = "ready" /\ Create(h, "READY_FOR_INSTALL", "idle")
UnlinkForActive(h) ==
  /\ pc[h] = "unactive"
  /\ \/ status = "ACTIVE" /\ Ends(h) /\ UNCHANGED <<diskVars, dshVars>>
     \/ status # "ACTIVE" /\ Unlink(h, "active")
WriteActive(h) == pc[h] = "active" /\ Create(h, "ACTIVE", "idle")

-----------------------------------------------------------------------------
(* The DSH session.                                                        *)

InTurn == turn = "other" \/ (turn = "own" /\ Positions("user/message", Len(log)) # {})
Records(event) == log' = Append(log, event)

StartTurn(kind) ==
  /\ turn = "none" /\ prompted # {}
  /\ kind = "own" => inbox = "queued"
  /\ turn' = kind
  /\ inbox' = IF kind = "own" THEN "taken" ELSE inbox
  /\ Records("turn/start")
  /\ UNCHANGED <<diskVars, drafts, prompted, child, job, accepting, lock, pc, hostVars>>
TakePrompt ==
  /\ turn = "own" /\ ~InTurn
  /\ Records("user/message")
  /\ UNCHANGED <<diskVars, drafts, turn, inbox, prompted, child, job, accepting, lock,
                 pc, hostVars>>
BillStep ==
  /\ InTurn /\ Cardinality(Billed(Len(log))) < MaxSteps
  /\ Records("assistant/message")
  /\ UNCHANGED <<diskVars, drafts, turn, inbox, prompted, child, job, accepting, lock,
                 pc, hostVars>>
EndTurn ==
  /\ InTurn /\ accepting = "no"
  /\ turn' = "none"
  /\ Records("turn/end")
  /\ UNCHANGED <<diskVars, drafts, inbox, prompted, child, job, accepting, lock, pc,
                 hostVars>>

\* The turn and its descendants write generated/; a turn starts a descendant or
\* a job, a descendant a job.
Draft(kind) ==
  /\ InTurn \/ child
  /\ Current < MaxDrafts
  /\ drafts' = Append(drafts, kind)
  /\ UNCHANGED <<diskVars, log, turn, inbox, prompted, child, job, accepting, lock, pc,
                 hostVars>>
StartBackground ==
  /\ \/ ~child /\ child' = TRUE /\ InTurn /\ UNCHANGED job
     \/ ~job /\ job' = TRUE /\ (InTurn \/ child) /\ UNCHANGED child
  /\ UNCHANGED <<diskVars, drafts, log, turn, inbox, prompted, accepting, lock, pc, hostVars>>
EndBackground ==
  /\ \/ child /\ child' = FALSE /\ UNCHANGED job
     \/ job /\ job' = FALSE /\ UNCHANGED child
  /\ UNCHANGED <<diskVars, drafts, log, turn, inbox, prompted, accepting, lock, pc, hostVars>>

\* bootstrap.py accept, run by the session at the end of its work.
SessionAccepts ==
  /\ \/ /\ accepting = "no" /\ InTurn /\ Kind \in {"rejected", "valid"} /\ status # "MISSING"
        /\ request' = {Current} /\ accepting' = "unlink"
        /\ UNCHANGED status
     \/ /\ accepting = "unlink"
        /\ accepting' = IF status = "MISSING" THEN "no" ELSE "write"
        /\ status' = "MISSING"
        /\ UNCHANGED request
     \/ /\ accepting = "write"
        /\ accepting' = "no"
        /\ status' = IF status = "MISSING" THEN "VALIDATING" ELSE status
        /\ UNCHANGED request
  /\ UNCHANGED <<session, finish, retained, verdict, drafts, log, turn, inbox, prompted,
                 child, job, lock, pc, hostVars>>

Incident == incidents < MaxIncidents /\ incidents' = incidents + 1
Dsh ==
  \/ /\ UNCHANGED incidents
     /\ \/ StartTurn("own") \/ TakePrompt \/ BillStep \/ EndTurn \/ SessionAccepts
        \/ StartBackground \/ EndBackground
  \/ Incident /\ StartTurn("other")
  \/ /\ IF Current = 0 THEN UNCHANGED incidents ELSE Incident
     /\ \E kind \in Kinds : Draft(kind)

-----------------------------------------------------------------------------

Crash(h) ==
  /\ Crashes /\ pc[h] # "idle"
  /\ Ends(h)
  /\ UNCHANGED <<diskVars, dshVars>>

Init ==
  /\ status = "CREATED" /\ session = NoSession
  /\ finish = {} /\ request = {} /\ retained = {} /\ verdict = {}
  /\ drafts = <<>> /\ log = <<>> /\ turn = "none" /\ inbox = "none" /\ prompted = {}
  /\ child = FALSE /\ job = FALSE /\ accepting = "no"
  /\ lock = Free /\ incidents = 0
  /\ pc = [h \in Hosts |-> "idle"] /\ chain = [h \in Hosts |-> FALSE]
  /\ mem = [h \in Hosts |-> NoSession]
  /\ seen = [h \in Hosts |-> NothingSeen]
  /\ held = [h \in Hosts |-> 0]

Command(h) == Incident /\ (Install(h) \/ Resume(h) \/ Finalize(h))
Dies(h) == UNCHANGED incidents /\ Crash(h)
Supervise(h) ==
  /\ UNCHANGED incidents
  /\ \/ Prepare(h) \/ LoadOrCreate(h) \/ Adopt(h) \/ SendPrompt(h)
     \/ ReadFollow(h) \/ ReadControl(h) \/ ReadList(h) \/ ObservationFails(h)
     \/ Judge(h) \/ Confirm(h) \/ Verify(h) \/ Prevalidate(h) \/ WriteFinish(h)
     \/ WriteGenerated(h) \/ Rerun(h) \/ Retain(h) \/ MarkRecoveryRequired(h)
Enter(h) == UNCHANGED incidents /\ Acquire(h)
Expires(h) == UNCHANGED incidents /\ (TimeOut(h) \/ GiveUp(h))
Accept(h) ==
  /\ UNCHANGED incidents
  /\ \/ Begin(h) \/ EnsureRequest(h) \/ UnlinkRun(h) \/ WriteValidating(h)
     \/ DiscardEvidence(h) \/ ReuseEvidence(h) \/ ValidateStatic(h) \/ WriteVerdict(h)
     \/ RetainEarly(h) \/ WriteRetained(h) \/ Activate(h) \/ UnlinkForReady(h)
     \/ WriteReady(h) \/ UnlinkForActive(h) \/ WriteActive(h)

Next ==
  \/ \E h \in Hosts : Command(h) \/ Enter(h) \/ Supervise(h) \/ Expires(h) \/ Accept(h)
                      \/ Dies(h)
  \/ Dsh

Spec == Init /\ [][Next]_vars

-----------------------------------------------------------------------------
(* Properties.                                                             *)

\* Every file, session and process is in a state its code can leave it in; what
\* a file of the Host names is a draft there has been.
DiskTypeOK ==
  /\ status \in Statuses /\ session \in SessionType
  /\ finish \subseteq 1..Current /\ request \subseteq 1..Current
  /\ verdict \subseteq 1..Current /\ retained \subseteq 0..Current
DshTypeOK ==
  /\ drafts \in Seq(Kinds) /\ log \in Seq(Events)
  /\ turn \in {"none", "own", "other"} /\ inbox \in {"none", "queued", "taken"}
  /\ prompted \in SUBSET Nat
  /\ child \in BOOLEAN /\ job \in BOOLEAN /\ accepting \in {"no", "unlink", "write"}
HostTypeOK ==
  /\ lock \in Hosts \union {Free} /\ incidents \in 0..MaxIncidents
  /\ pc \in [Hosts -> Labels] /\ chain \in [Hosts -> BOOLEAN]
  /\ mem \in [Hosts -> SessionType]
  /\ seen \in [Hosts -> SeenType]
  /\ held \in [Hosts -> Nat]
TypeOK == DiskTypeOK /\ DshTypeOK /\ HostTypeOK

\* However often the command is repeated or dies, a run has one session: its
\* identity is on disk before the first call that uses it.
OneSession == prompted \subseteq {session.id}

\* The turn that took the request has ended by record n.
AnsweredBy(n) ==
  \E i \in Positions("user/message", n) : \E k \in Positions("turn/end", n) : i < k

\* creator-session.json says of the journal exactly what is in it up to its
\* cursor: every billed step once, and the end of the request's own turn.
RecordTruthful ==
  /\ session.usage = Billed(session.cursor)
  /\ session.terminal <=> AnsweredBy(session.cursor)

\* Who holds .creator.lock, and what it holds it for.
Locked == {"prepare", "session", "adopt", "prompt", "observe", "judge", "await", "confirm",
           "verify", "prevalidate", "finish", "generated", "rerun", "retain", "recover"}
Dispatching == {"adopt", "prompt", "observe", "judge", "await", "confirm"}
Finishing == {"verify", "prevalidate", "finish", "generated"}
LockHeld == \A h \in Hosts : pc[h] \in Locked <=> lock = h
\* The holder and the disk agree on the session; an observation is of its journal.
SessionHeld ==
  \A h \in Hosts :
    /\ pc[h] \in Dispatching => mem[h] = session /\ session.id # 0
    /\ (pc[h] \in Observing /\ seen[h].read # {}) \/ seen[h] = NothingSeen
    /\ "follow" \in seen[h].read => seen[h].cursor \in session.cursor..Len(log)
\* What is being finished has a package, and was earned.
DraftHeld ==
  \A h \in Hosts :
    /\ pc[h] \in Finishing \union {"digest"} => Current > 0
    /\ pc[h] \in {"prevalidate", "finish"} => held[h] \in 1..Current
    /\ pc[h] \in Finishing => Quiescent(session) /\ ~OverBudget(session)
    /\ pc[h] \in {"generated", "rerun"} => finish # {}
    /\ pc[h] \in {"prepare", "session"} \union Dispatching => status # "GENERATED"
\* The journal: one request, taken in an open turn that is closed before the next.
LogSound ==
  /\ turn # "none" => TurnAt(Len(log)) # 0
  /\ turn = "own" => inbox = "taken"
  /\ \A m \in Positions("user/message", Len(log)) :
       /\ inbox = "taken" /\ TurnAt(m) # 0
       /\ \A k \in Positions("user/message", Len(log)) : k = m
       /\ AnsweredBy(Len(log)) \/ (turn = "own" /\ TurnAt(Len(log)) = TurnAt(m))
       /\ \A n \in 1..Len(log) : AnsweredBy(n) /\ m <= n =>
            \E k \in Positions("turn/end", n) : m < k /\ TurnAt(k) = TurnAt(m)
\* A session state that accounts for the journal up to its cursor.
Accounts(s) ==
  /\ s.cursor <= Len(log)
  /\ s.usage = Billed(s.cursor)
  /\ s.open = TurnAt(s.cursor)
  /\ Positions("user/message", s.cursor) = {} => s.request = 0
  /\ \A m \in Positions("user/message", s.cursor) : s.request = TurnAt(m)
  /\ s.terminal <=> AnsweredBy(s.cursor)
GeneratedIsFinished == status = "GENERATED" => finish # {} /\ AnsweredBy(Len(log))

\* The inductive invariant of the proofs.
IInv ==
  /\ TypeOK /\ LockHeld /\ SessionHeld /\ DraftHeld /\ LogSound
  /\ OneSession /\ 0 \notin prompted
  /\ Accounts(session) /\ GeneratedIsFinished

\* A run becomes GENERATED only when the turn of its request has ended, its
\* record says that nothing runs, and it has spent less than its limit; its
\* finish.json is already there.
GeneratedEarned ==
  [][status' = "GENERATED" /\ status # "GENERATED" =>
       /\ AnsweredBy(Len(log)) /\ Quiescent(session)
       /\ ~OverBudget(session) /\ finish # {}]_vars

\* A GENERATED run is not prepared or dispatched again.
GeneratedStays ==
  [][status = "GENERATED" => status' # "GENERATING" /\ prompted' = prompted /\ inbox' = inbox]_vars

=============================================================================
