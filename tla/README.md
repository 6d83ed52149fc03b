# Improvement: a verification development

TLA+ models of the stateful parts of *Improvement*, the Python framework under
`src/`, with the TLC runs that check them on small instances and the TLAPS
proofs of what matters most for every instance. Line numbers below are of
`src/scripts/`.

1. [The system](#1-the-system) · 2. [Plan](#2-plan) · 3. [HostController](#3-hostcontroller-mission)
· 4. [Installer](#4-installer) · 5. [Workflow](#5-workflow) · 6. [Generation](#6-generation)
· 7. [ModeState](#7-modestate) · 8. [Candidate](#8-candidate) · 9. [Campaign](#9-campaign)
· 10. [Publisher](#10-publisher) · 11. [Workspace](#11-workspace)
· 12. [Runs, bounds and fairness](#12-runs-bounds-and-fairness) · 13. [Proofs](#13-proofs)
· 14. [Where code and documents disagree](#14-where-code-and-documents-disagree)
· 15. [What is not modelled](#15-what-is-not-modelled)

## 1. The system

The framework prepares an agent host (DSH) for a project: it generates a package
of presets ("modes") through a supervised *Creator* session, accepts it, installs
it transactionally, and then runs missions, workflow plans and audits with it.
Everything is files under a workspace, written by short-lived processes that one
operator starts; there is no server of its own. What is hard is therefore not
throughput but *durability*: every component writes several files that must agree,
and the process can die between any two of them.

| Component | State it keeps | Operations | What makes it correct | Module |
|---|---|---|---|---|
| Mission controller `host_controller.py`, `missions.py` | `queue.json`, `mission.json`, `events.jsonl`, flocks | register_mandate, enqueue, run_next, cancel, reconcile_on_start | one unit in flight; a closed unit stays closed and has its stores; the journal never runs ahead | `HostController`, `Mission` |
| Budget ledger `budget.py` | limits, one file per reservation | reserve, usage | never over a limit; a crash overcounts, never undercounts | `HostController` |
| Publisher `publisher.py` | content-addressed receipts, batches | open, record, close, stages | a batch closes once; capacity for its closing is reserved | `Publisher`; `HostController` has the batch of a unit |
| Metrics, decisions, episodes `metrics.py`, `decisions.py`, `episodes.py` | chained log and checkpoint; decision files; episode ledger and index | record, supersede, recall | log and checkpoint agree; no repair is forgotten | `HostController` (one append each), `ModeState` (episodes) |
| Transactional installer `transaction.py` | `ACTIVE`, `generations/`, `backups/`, receipt, campaign files | install, rollback, uninstall | always a way back; a rollback restores; an uninstall is all or nothing | `Installer`, `Workspace` (the uninstall of old receipts) |
| Workflow executor `workflow.py` | chained `journal.jsonl`, `head.json`, `observations/` | run_plan, verify | a restart neither repeats nor skips; an ask is put once; the run always ends | `Workflow` |
| Managed mode state `state_commit.py`, `mode_lifecycle.py`, `dsh-plugins/workflow-write.mjs` | the files of `mode-state`, leases, a commit marker, an archive | managed write, reconcile, migrate | nothing accepted is lost; a stamp is earned | `ModeState` |
| Shadow candidates `shadow_candidate.py`, `mode_lifecycle.py`, `state_reconcile.py` | shadows and their receipts, the candidate of `work-items.json` | provision, gate, record, reconcile, resume | code changes only on a shadow the Host bound; work is kept | `Candidate` |
| Creator client `creator_client.py` | `run.json`, `creator-session.json`, `finish.json` | run_creator, supervise, retain | one session per run; a truthful account; GENERATED only when earned, and then for good | `Generation` |
| Inference channel `inference_channel.py` | requests spent by a launch | request, serve | the budget and the deadline hold | not modelled |
| Acceptance `acceptance.py` | `host-verdict.json`, `static-retained.json` | run, retain_early | a verdict is of the candidate on disk | `Generation` |
| Bootstrap `bootstrap.py`, `onboard.py` | run directories, `acceptance/request.json` | install, accept, finalize, update, uninstall, purge-data | a run is taken up where it was left; one run at a time is on its way | `Generation` (one run), `Workspace` (the commands around it) |
| Campaigns, audits `campaign*.py`, `stack.py`, `audit.py` | capability plan, verification results, the verdict in two files | plan, verify, gate, repair round | what passes is what was registered; rounds repair what their gate rejected | `Campaign` |
| Skill corpus, host validator, promotion, pilots, reflection | documents, records | pure checks, one-shot records | | not modelled |

How they interact: the controller *calls* budget, publisher, metrics, decisions
and episodes, in a fixed order, inside `run_next`; the installer *calls* the
plugin manager of DSH, whose effect may only come with DSH's next start; the
workflow executor *polls* DSH sessions that go on working while it is dead; the
mode state is *shared* by sessions that know nothing of each other; and the files
of a generation run are *shared* by every command an operator types for it and by
the Creator session itself, with a lock around only one of them. The
behaviours that are hard, and that the models are about:

- a process killed, or a write refused, between two writes that belong together;
- what a process holds in memory against what the next one reads from disk;
- an external party (a session, the plugin manager) that acts between two steps;
- a retry of something that was done but not recorded, or recorded but not done;
- limits (budget, store, rounds, deadline) met exactly where a record is due.

`PROJECT.json` lists these hazards one by one, at the line where each bites.

## 2. Plan

Ordered by how much of the program's promise rests on the component.

| | Module | Composes / refines | Status |
|---|---|---|---|
| 1 | `Mission`, `HostController` | HostController implements Mission | checked, proved |
| 2 | `Installer` | | checked, proved |
| 3 | `Workflow` | journal, replay, DSH sessions | checked, proved |
| 4 | `Generation` | the run of a Creator, its session, its account, its acceptance | checked, proved |
| 5 | `ModeState` | sessions, marker, episodes and the migration | checked, proved |
| 6 | `Candidate` | provision against repair sessions | checked, proved |
| 7 | `Campaign` | gates, ledger, plan; its executor is Workflow's, its records Candidate's | checked, proved |
| 8 | `Publisher` | processes that race for the store | checked, proved |
| 9 | `Workspace` | the commands around the runs; one step of it is `Generation` and `Installer` | checked, proved |
| 10 | supersession of decisions; the inference channel | | left |

Every safety property that a run checks is proved; what is left to TLC is liveness
(section 13). Worth stating next: that `Publisher` implements what `HostController`
assumes of a unit's batch, that `Campaign` implements `Workflow` over its plan, and an
abstract uninstall that `Workspace` implements.

## 3. HostController, Mission

`Mission` is what a mission promises to whoever reads its directory: each saved
queue moves a unit along `STATES` (`host_controller.py:45`), closes it only when the stores that must
remember it do, and spends within the limits. `HostController` is the code.

| Variable | Code |
|---|---|
| `disk`, `mem` | `queue.json` and `self._queue` of each live controller |
| `mandate` | `mission.json` and the ledger's limits, the two writes of register_mandate |
| `spent` | sum of the ledger's reservation files |
| `batch`, `artifact` | the unit's records in `publish/<unit>`; the files a turn leaves |
| `received` | history: which contents the turns of each unit have left |
| `metrics`, `metered`, `decided`, `episodes` | the stores a closing unit is recorded in |
| `journal` | `events.jsonl`, as the set of what was announced |
| `holder`, `unitLock` | the flock of the mission and of each unit |
| `pc`, `cur`, `why` | the write the controller is about to make, for which unit, and why |

One action per durable write of `run_next` (350-407), `_retain` (512-539), `cancel`
(433-461) and `reconcile_on_start` (299-320), in the order of the code. `Crash`
may come between any two (the kernel frees the flocks); `Fault` makes one write
raise, and memory keeps what it already said. A launcher may leave any contents, call
`update_unit_refs` (`UpdateRefs`, whose save may fail behind the memory it changed), and
return or raise. `metrics` distinguishes a log with no checkpoint, one behind, and a
fork, because `metrics._checkpoint` treats them differently, and an event cut short
(`torn`), which the next one joins (`joined`).

Checked: the budget and its crash rule (`WithinBudget`, `EveryLaunchPaid`),
`ClosureBacked`, `JournalHonest`, the refinement `MissionPromise`, `EvidenceReceived`
(nothing is published of a unit, nor is it saved as DONE, under a digest that no turn of
that unit left, whichever attempt made the batch), and `EnqueuedSettles`: a queued unit is closed in the
end, through crashes, unless the budget at the head of the queue is gone or the
metrics store lost its first checkpoint.

## 4. Installer

| Variable | Code |
|---|---|
| `active` | `.dsh-managed/ACTIVE` |
| `tree[g]` | `generations/<g>`: absent, whole or partly removed |
| `saved`, `manifest[g]` | `backups/<g>/` and `backups/<g>.json`, possibly torn |
| `receipt`, `plan`, `campaign` | `published-presets.json`, `capability-plan.json`, `campaign/` |
| `configured`, `running` | the bundle DSH will load, and the one it runs |
| `pc`, `op`, `gen`, `fresh`, `last` | the write in hand, of which command, and the last result |

A package is its generation id; the content of a backup is the record of what it
restores. Every write of `install` (749-878), `rollback` (880-970), `uninstall`
(1017-1048) and `uninstall_unpublished` (995-1014) is an action. `InstallFails` is
a failure before the swap (raised, nothing undone), `StepFails` one after it (enters
the rollback), `RollbackFails` one inside it, and `Crash` the death of the process;
what each may leave half done is `Interrupted`: a tree partly removed, a torn manifest or
receipt, a campaign of which some of its four files are written (`Torn`), also by a NO_OP,
which writes them again with nothing around it (`NoOp`). The plugin manager applies a bundle
at once, at its next start (`DshRestarts`), or fails.

Checked: `WayBack` (whatever is in place has a manifest that leads elsewhere),
`RollbackRestores`, `ActiveMeansLive`. Proved besides: `RollbackEnds` (manifests never
go round in a circle, which is why a retry must keep the first backup), `ManifestKept`
and `PointerLast`.

## 5. Workflow

| Variable | Code |
|---|---|
| `dir`, `journal`, `head`, `torn` | the run directory, `journal.jsonl`, `head.json`, and whether the last line was cut |
| `obs` | `observations/`, in the order of their numbers; a digest is the number of its file |
| `sessions` | the sessions DSH created for the plan |
| `mem` | what `_Run` keeps: completed, failed_gates, skipped, attempts, phase, pending_asks |
| `line` | the record about to be appended |
| `failures`, `session`, `given` | of the process: rejections of this gate, the session in hand, `last_ask_observation` |
| `outcome`, `cause`, `journaled` | what run_plan answered |

`Replay` is `_replay` (1074-1190) as an operator over the journal: `Done`, `Failed`,
`Verified`, `PhaseCount` and `LatestAskDispatch` are its parts. `Resume` sets
`mem` to it, and from there every record is two things: its append (`Recorded`,
guarded by `Fits`, else `StoreFull`) and its effect on `mem`. The actions of a step
(`RunGate`, `JoinDeps`, `AskConditional`, ...) only decide which record comes next.
A session works, is lost, and goes on while no process runs; `Closes` is a cancel
that may fail or not be obeyed. `VerifyAccepts` is `verify` (669-773).

Checked:

- `MemoryIsReplay`: the memory of a process always equals the replay of its
  journal, so a crash at any point loses nothing and invents nothing;
- `OneRun`: a restart neither repeats a step that ended nor passes over one that did
  not;
- `NeverRedispatched`: an ask goes to one session, whatever was lost or retried;
- `PhaseBudget`: a restart does not give a phase its rounds again;
- `Verifies`: what run_plan writes, verify accepts, except the named case
  `LateVerdict`;
- `Terminates`: every process ends.

Proved besides: an ask completes only with a session that is over
(`QuietWhenCompleted`), and the journal survives every failure the code handles, with
the cause of the first retention in it (`ResumableUnlessKilled`,
`RetentionJournaled`).

## 6. Generation

One run directory, the processes that run a command on it, and the DSH session that
works for it. The session is an actor of its own: it never waits for the Host.

| Variable | Code |
|---|---|
| `status` | `run.json`; "MISSING" between the unlink and the exclusive write of accept and finalize |
| `session`, `finish` | `creator-session.json`, `finish.json` |
| `request`, `retained`, `verdict` | `acceptance/request.json`, `static-retained.json`, `host-verdict.json` |
| `drafts` | the states `generated/` has been in; a digest of a manifest or candidate is the number of its state |
| `log`, `turn`, `inbox`, `prompted` | the durable journal of the session, the turn it runs, whether the prompt is queued, to which sessions it was sent |
| `child`, `job`, `accepting` | a descendant, a background job, the `bootstrap.py accept` the session runs itself |
| `lock` | the flock of `.creator.lock` |
| `pc`, `chain` | where each process is, and whether finalize follows run_creator |
| `mem`, `seen`, `held` | the session state in memory, what has been read of the observation under way, the manifest read last |

`FoldObservation` is `_fold_observation` (2115-2220) over the records after the
cursor: which turn is open, which took the request, whether that one ended, and the
steps billed. An observation is three reads (`ReadFollow`, `ReadControl`, `ReadList`),
with the session working between them. `Judge`, `TimeOut`, `Confirm` and `GiveUp` are
the branches of `_supervise_creator` and `_await_confirmed_quiescence`; a clock is a
choice. `Verify`, `Prevalidate`, `WriteFinish` and `WriteGenerated` are the two halves
of verify_generation_output and the two writes of create_finish; `Begin` to
`WriteActive` are finalize with accept and `Acceptance.run`, one action per durable
write; a package that is valid and whose acceptance plan is not goes the way of a static
retention too (`ValidateStatic`). `transaction.install` is one step here (`Activate`); its writes are `Installer`.
`Crash` kills a process anywhere: the kernel frees its lock.

run_creator reads `run.json` twice, before and in prepare; `Acquire` is both reads.
A retain or a save that reads `run.json` and replaces it is one step, since nothing
it reads decides what it writes.

Checked:

- `OneSession`: a prompt only ever goes to the session on disk, whoever resumes;
- `RecordTruthful`: the account bills each step up to its cursor once, through
  crashes, resumes and replayed pages, and is terminal exactly when the turn of its
  own request has ended, not that of another;
- `GeneratedEarned`: GENERATED is written only over an answered request, a record
  that says nothing runs, an account below the limit, and a finish.json.

Proved besides: a GENERATED run is neither prepared nor dispatched again
(`GeneratedStays`).


## 7. ModeState

Sessions write the files of `mode-state` one by one through `workflow_write`, while the
Host records episodes there, reconciles the marker and, at each install, migrates the
whole directory. One operator runs one Host command at a time; any number of sessions
go on meanwhile.

| Variable | Code |
|---|---|
| `findings`, `handoffs` | the two files of an audit unit, in the order the contract declares |
| `ledger`, `index` | `episodes.jsonl`, with lines torn by a crash, and its cache |
| `marker` | `.commit.json`: the unit and the digests of what has landed |
| `sess[s]` | which call of `workflow_write` a session is in, and the text it has built |
| `host`, `snap`, `todo`, `left`, `hand`, `archive` | the step of the Host, what the preflight has read, what is left to read or to unlink and to replace, the file compared and about to be unlinked, and the archive |
| `closed`, `known`, `owed` | history: what was closed, what an index ever answered, what the last accepted write holds |
| `believed`, `lost` | history: the findings the migration last read or wrote, and what it destroyed in a text it had not read |

A finding is its defect and whether the tool stamped `prior_episode` on it. A call
validates against the text it read (`CallForFindings`), makes sure of the marker
(`OpenCommit` reads it, `Mark` writes it), replaces the file (`WriteText`) and lists it
(`RecordLanded` reads the marker, `ListLanded` writes it back); a lease only lasts its
term, so two sessions can be between their call and their write of one file, or lose each
other's marker. A mode without a handoff id has each file for a unit (`Unnamed`).

The migration lists the directory (`Preflight`), reads one file after the other
(`ReadFile`), decides (`Stage`), archives (`ArchiveLegacy`), compares and unlinks each
legacy file in two steps (`CompareLegacy`, `UnlinkLegacy`: nothing holds the file between
them), replaces the others (`ReplaceStaged`), and puts back what it read when something
fails (`Abandon`, `PutBack`, `PutBackUnlinked`, `Raised`). A session may write between any
two of these. When a controller starts, `ReconcileStateCommit` reads the marker, compares
the files and drops the marker in one step.

Checked: an accepted finding is on disk or in the archive, whatever step the migration
dies or fails at, except those it destroyed itself in a text it had never read
(`FindingsKept`: the exception is narrow, `lost` only takes what an unlink, a replacement
or a putting back destroys in a text other than `believed`, and only where what replaces
it does not hold it); an episode that was ever answered is in the ledger or its archive
(`EpisodesKept`); and a stamp is earned, however stale the index it was made from
(`StampEarned`).

## 8. Candidate

A shadow is a copy of the product in a repository of its own, bound by a receipt to a
base and to what it is for. Host processes provision, repair sessions work, the operator
commits, rewrites and edits the product, and nobody locks anything.

| Variable | Code |
|---|---|
| `head`, `line`, `dirty` | HEAD, what it descends from, `git status` |
| `shadow[t]` | the shadow of a target: whether its tree is that of its base, the digest of its changes (0: none), whether its HEAD moved |
| `receipt[t]` | its receipt: none, torn or whole |
| `host[h]` | the step of a provision: `Provision`, `Copy`, `Rename`, `OpenReceipt`, `FillReceipt`, `Grant` |
| `turn[m]` | the step of a repair turn: `ReadRecord`, `Gate`, `RecordShadow`, `Reconcile`, `Measure`, `Resume`, `WriteRecord`, `Edit` |
| `work` | the candidate of `work-items.json`, the one slot that all sessions share |

Checked: whatever is recorded or being repaired has its whole receipt
(`BoundByReceipt`); a shadow that a crash left without one is never adopted
(`OrphanRetained`); no provision replaces a shadow or the work in it (`WorkKept`); and
code begins to change only when the record says what the shadow holds
(`StartsFromRecord`). The command that resumes a repair measures the shadow (`Measure`) and
reads the record and compares (`Resume`); what another session changes in the shadow
between the two is not seen by the code, and is excepted by name
(`ChangedSinceMeasured`). The commands of a turn are prompts a session is given: that it runs
them, and in that order, is what the prompt says and the hooks check.

## 9. Campaign

The plan that `campaign_plan.py` writes (audit, then per round a gate and a repair on
FAIL, then the last gate), the gate process of `campaign.py`, and what it reads: the
capability plan, the candidate and the verification ledger, which sessions and installs
write meanwhile.

| Variable | Code |
|---|---|
| `plan` | `capability-plan.json`: command to whether it can run |
| `candidate`, `ledger`, `archive` | the candidate of `work-items.json`, `verification-results.jsonl`, and what an install dropped from it |
| `turn[m]` | what a session verifies, and the ledger it had read |
| `at`, `status`, `seen`, `outcome` | the executor, what its journal says of each step, the verdict it saw, and its answer |
| `gate[g]` | the executor's own gate, and one that outlived a killed executor |
| `published` | `evidence/veredicto.json` and its copy under `campana` |

The executor's journal is `Workflow`'s; here each step is what that journal says of it.
A plan with no capability is refused before the first step (`Preflight`). A gate is three reads (`ReadCandidate`, `ReadRecords`, `Derive` over the plan as it is by
then) and two writes (`Publish`, `PublishCopy`). The verdict itself (`Valid`, `Derived`) is
an operator over sets of records.

Checked: a gate that passes over what nobody replaced passes exactly the registered tree
(`PassBound`); a campaign that completes passed its last gate over rounds that all
answered (`CompletedPassed`); unless an executor was killed, a round repairs exactly what
its own gate rejected, though the verdict travels through a file (`RoundsAgree`). Proved
besides: an install loses no result (`ResultsKept`).

## 10. Publisher

`store` is the directory of receipts, by key; `asked[p]` a request that process p has
checked and not yet linked; `vouched` the keys whose receipt an operation on batches has
returned (a history). `Ask` is publish up to the temporary file (the receipt that is
already there is compared, the room is counted), `Link` its hard link, which fails when
the key was taken meanwhile. `OpenBatch`, `PublishRecord`, `CloseBatch` and `ReportStage`
are what asks, for the one owner of the batches. `publish` itself takes any key and any
payload from anybody, so `PublishRaw` asks for any receipt of the constant `Raw` under any
key: an opening, a record, a closing or a report of a stage that followed nothing, in a
batch that is open, closed or not there. What the operations read of such a receipt is in
the model: its type, status, evidence and actor, whether the rest is what they would have
written (`sound`) and whether it is the owner's (`own`).

A receipt refused for its form, for its owner, or because the artefacts of the mission do
not verify changes nothing, so only those that pass are in the model. Keys are pairs of a
batch and a part; in the code they are names joined by a dash, so that record `x-e` of
batch `b` and record `e` of batch `b-x` are one file. Seen from either batch, the receipt
of the other is one published directly, of another type: a case of `PublishRaw`.
`HostController` has the batch of a unit as one value; what it relies on, that a delivery
closed once stays as it is, is `HandoffResolves`. The initial state, next-state relation
and specification are `PublisherInit`, `PublisherNext` and `PublisherSpec`, so that one
module can hold the proofs of both stores of receipts.

Checked, whatever was published directly before, between or after: a batch that
`report_stage` accepted was made, verified and accepted over one delivered evidence, by an
auditor who did neither of the others, and by two others if the verification too went
through `report_stage` (`AcceptedChain`); a delivery that `open_batch` opened and
`close_batch` closed resolves for ever (`HandoffResolves`, although a record may land in a
batch after its closing, of which it is then no part); and the room for the closing and
the stages of every open batch (`RoomKept`): one process alone always keeps it, and each
that races may exceed it by one batch, whose closing may then find the store full. Without
`vouched`, the first two do not hold: a COMPLETE closing published directly is handed off
and then refused (`tests/test_publisher.py:139-174`), and a report published directly is
an acceptance of nothing.

## 11. Workspace

The commands of `bootstrap.py` on a workspace an earlier version installed: its receipt
lists presets, and `transaction.uninstall` retires them by tombstones.

| Variable | Code |
|---|---|
| `home[f]`, `tomb[f]` | what stands under the name of a preset, the receipt or ACTIVE, and under its tombstone: from the old installation, from the user, or from a new install |
| `marker` | `uninstall-recovery.json`: phase and moves, or torn (`_write_new` is not atomic) |
| `bundle`, `skills` | DSH loads a bundle of this workspace; the framework's skills are in `.agents` |
| `runs`, `recalled` | the runs: the status of `run.json` and the base; those accepted or finalized by hand out of turn (a history) |
| `base`, `sha256` | the commit of the project, and whether its revisions have 64 digits |
| `pc`, `todo`, `done`, `last` | the step of the command, the moves its loop has left and has made, its answer |

`UninstallBegins` chooses the path (bundle, tombstones, unpublished, recovery of a
PREPARED or a COMMITTED marker). `Move`, `Restore`, `Recover` and `Clean` are one rename
or removal each, in the order of the code; `RollBackRuns` and `RemoveSkills` what
bootstrap does afterwards. `Crash` may come at any step and leave the marker or a
`run.json` half written; `Fails` makes a step raise, which is undone (`move`), passed over
(`restore`, `clean`) or ends the command. `Install` chooses between a run that exists and
a new one, `Update` and `PurgeData` are whole. `Accept` and `Finish` take any run there is,
as accept and finalize do: they read no status. Everything that makes a run ACTIVE is the
one step `Finish`, which `Generation` and `Installer` take apart. Which of several ACTIVE
runs `Update` compares is arbitrary, as the order of their random names is; where several
runs would be answered for, `InstallAnswers` may give either answer.

Checked: a readable marker names every hidden file (`NothingForgotten`); a cancelled
uninstall has put everything back and a completed one has left nothing
(`AllOrNothing`), through any two deaths or failures; a preset of the user stays
(`EditsKept`); UNINSTALLED leaves no run that answers as active (`UninstallComplete`);
and `OneInProgress`: no command starts a run beside one on its way, so that runs in
progress together were called back by hand, which nothing in accept or finalize
prevents. The user changes presets between commands: one changed while a
command is between its digests and its renames is removed as it is. `UninstallComplete`
speaks of the old installation only: see section 14.

## 12. Runs, bounds and fairness

| Run | Question | Instance |
|---|---|---|
| `host_safety` | all safety of the controller, and that it implements `Mission` | two controllers, two units, two budget dimensions, two contents of the files, a crash and a failed write |
| `host_liveness` | does every queued unit settle? | one controller, two crashes |
| `installer_safety` | is there always a way back, and are results true? | two generations, a failed write and a crash |
| `workflow_safety` | does the journal decide, and does every process end? | the plan below, two processes, a death, a failed call |
| `generation_safety` | safety of a run under every command at once | two processes, two drafts (rejected or valid), two incidents, kills at any step |
| `modestate_safety` | is anything accepted or remembered lost? | two sessions, two defects, a file of one record, four calls (findings, episodes, migrations), one fault |
| `candidate_safety` | do shadows, receipts and record stay together? | two Host processes, a session, a selection and a request, two revisions, two faults |
| `campaign_safety` | is a verdict about what was registered, and a round about its verdict? | one round, two entrypoints, three capability plans, two executions, an install, a fault |
| `publisher_safety` | are batches, stages and room right when processes race? | two processes, two batches, two items, three actors, seven places, ten receipts to publish directly into one of the batches |
| `workspace_safety` | is an uninstall whole, whatever cuts it short? | two presets, two incidents, two runs at a time, two commits, one edit of the user |
| `modestate_forgets`, `candidate_base` | see section 14 | the instances of `modestate_safety` and `candidate_safety`, or smaller |

**Bounds.** Two controllers are enough to interleave (the flock admits one, which
is what is being checked: without it `WithinBudget` fails). Two units give a queue
with a head and a follower; the second demands more seconds than one relaunch of
the first leaves, so the budget does run out. Two generations let one be superseded by
the other and installed again. One crash and one
failed write already combine with every retry, and the proofs hold for any number
of either. The plan of `MCWorkflow` has every kind of step, each
`on_fail`, a phase with a cap, an ask with a contract, and a conditional ask on a
gate that may be left behind, before a join that depends on it. Two processes
suffice there because of `MemoryIsReplay`: a third would start from the state the
second had. `Limit = 16` is fewer records than the longest run writes, so the store
does fill up. In `MCGeneration` one process repeats install and the other resumes
the Creator or finalizes. Two incidents (commands, turns of others, drafts after
the first) let both processes run a command, one command be killed and repeated (a
kill costs nothing: only a command can be killed), or one command meet a foreign
turn or a package rewritten under it; descendants and jobs come and go freely. With
a limit of one token the first billed step is already over it, so a budget met by
the last turn happens. Symmetry is used where only safety is checked.

In `MCModeState` a file of one record makes every second finding push one out; the calls
that write findings, record episodes and begin migrations share one bound, since it is
their succession that matters (two findings, a record and a migration; a record, a torn
one, another and a migration). Both sessions have a handoff id there; `Unnamed` is left to
the proofs. In `MCCandidate` two provisions can race for one target or be of two, and
two faults let a crash and an outsider, or two crashes, meet. In `MCCampaign` one round is
a gate, a repair and the last gate; two executions let one be retained or killed and the
other resume, with a gate that outlives its executor. In `MCPublisher` seven places are
one batch whole; a second one is opened where the first left room, or by a process that
raced, and then neither closes. In `MCWorkspace` two incidents let
the recovery of an interrupted uninstall be interrupted too, or a failed rename be
followed by a failed restoration, and two runs with two commits let both be ACTIVE, one
ACTIVE while the other is on its way, or, after a purge, a run on its way be all there is.
The largest runs have several million distinct states and take two to three minutes.

The deadlock check is off where a system stops: a mission with nothing queued, an
operator who has no command left (a torn receipt), a plan that ended, a run that is
ACTIVE, a store that is full, a bound that is used up.

**Fairness.** `HostController`: a process that began a call goes on (weak, per
controller), someone keeps opening the mission (weak) and reconciling it and
running the next unit (strong: each is enabled again and again between crashes).
The module's contract leaves exactly these to the caller. Nothing is assumed of
enqueue, cancel, crashes or faults. The liveness run has no failed writes: after
a failed save of a closed unit, only a restart saves it again, and nothing obliges
a live controller to be restarted. `Workflow`: the process does not stop between
two of its steps; gates end, calls to DSH answer or fail (they have timeouts).
Nothing is assumed of the sessions, which may never show a request or end a turn.
The other modules state no liveness and assume no fairness: what they leave undone waits
for an operator's next command, which nothing obliges.

## 13. Proofs

The eight `*_proofs` modules (`Receipts_proofs` has those of both `Candidate` and
`Publisher`, the components whose promises rest on receipts that are linked once) hold for
every value of the constants that meets the named assumptions (`BudgetAssumption`, `UnitsAssumption`, `NamesAssumption`, `PlanAssumption`,
...), any number of crashes and faults included. TLC evaluates the assumptions on every
run. Each proves its module's type correctness; where a run does not list `TypeOK`, that
theorem stands for it.

In each, an inductive invariant gives the rest:

- **HostController**: `TypeOK`, the properties, and what a controller in the middle
  of a call relies on: one live controller (`Exclusive`); the unit in hand is in the
  state its phase requires (`InHand`); a checked reservation still fits when it is
  written, and a turn about to be launched is paid (`Paid`); the stores already hold
  what the next saved queue says (`MemoryBacked`); memory is the saved queue or one
  legal move ahead (`MemoryFollows`); one unit in flight in both (`AloneInFlight`);
  the files hold what a turn left, and from the check to the closing the unit in hand has
  a digest that a turn left (`EvidenceKept`, which `EvidenceReceived` rests on). Neither
  `WithinBudget` nor `ClosureBacked` is inductive alone: both rest on the lock, through
  `Exclusive`. `Implements` proves `MissionPromise`, action by action.
- **Installer**: `Journey` says which files are in place at each write;
  `PrevKnown` that the generation a manifest leads to has a manifest too. With it
  `RollbackEnds` is preserved when a manifest is added: the new one is nobody's
  predecessor yet.
- **Workflow**: `InPlace` (the step in hand is of its label's kind), `References`
  (names resolve), `Numbered`, `AnswersOver` (an answer is taken from a session that
  is over, on its way to the journal too), `Confirmed` (only a killed process leaves
  an unconfirmed record), `Reserve` (the last unit of the store is spent on a
  retention only). A second invariant, `History`, rests on this one and has the whole
  journal in it. `May` is what a record may say after the records before it; `Sound` that
  every record of the journal said no more, `LineMay` that the one in hand will not
  either. `Stands` is what each field of `_Run` is of a journal, `MemoryStands` that
  memory is that; the lemmas on "one more record" say that a record changes memory as it
  changes the replay. `Passed`, `InHand` and `Known` place the process: past what has
  ended, at a step that is open, and past, or going on with, every session there is.
  `MemoryIsReplay`, `OneRun`, `NeverRedispatched`, `PhaseBudget` and `Verifies` follow.
  `NeverRedispatched` is a conjunct of it: by `Known`, a process that is about to create
  a session is at a step that has none. That the replay's
  revalidation of what completed takes nothing away is a lemma about sound journals, not
  an assumption.
- **Generation**: `LockHeld` (who is between the lock and its release),
  `SessionHeld` (memory and disk agree while dispatching, and an observation is of
  this journal), `DraftHeld` (what is being finished has a package and was earned),
  `LogSound` (one request, in a turn closed before the next) and `Accounts` (the
  record is that of the journal up to its cursor). `RecordTruthful` rests on the lemma
  `FoldAccounts`: folding the records after the cursor of a session state that accounts
  for the journal gives one that accounts for it up to the new cursor, whatever page
  boundaries and turns of others lie between. `GeneratedStays` needs the journal too: a
  GENERATED run is answered, so its prompt was taken and cannot be queued again.

- **ModeState**: one invariant per promise. `FindingsKept` rests on what compaction
  keeps (the lemmas about `Rank`, `Kept` and `Staged`: every defect of the text it read is
  in what it stages or in what it archives) and on `Migration`: what each step has archived
  before it unlinks, and that what it believes is on disk is what it read or put there; `EpisodesKept` on the index never being ahead of what can be
  recalled; `StampEarned` on every text a session holds being stamped from an index of
  closed defects.
- **Candidate**: `HostBound` and `TurnBound` (what each step of a provision or a turn
  has already made or checked), `ReceiptBound` (no receipt without its shadow). Nothing
  unmakes a shadow or a whole receipt, so a check made long ago still holds when it is
  used: that is why no lock is needed for `BoundByReceipt`. `StartsFromRecord` needs
  `PrintedClean` besides: what a gate prints for a session to start from is the record of
  a shadow without changes, and what it has measured is what `SameDiff` compares.
- **Campaign**: `Walk` (steps are settled in order, and the gate runs for the step the
  executor is at), `OwnVerdict` (what a gate has left in the two files is what its round
  will read, while no other gate is alive), `HeldOK`.
- **Publisher**: `Rests`: a receipt that an operation on batches has returned, or has on
  its way, rests on others that are in the store already (`VouchedRests`, `AskedRests`);
  nothing is assumed of those published directly, except that only the place of a closing
  holds one (`RawAssumption`: a payload is read by its name). Since a receipt is never
  replaced, what was checked before the link still holds after it. `RoomForAll` bounds the places taken and promised by any
  number of processes through `RoomAhead`, which counts every pending request as if it were
  linked already. The process that counted last saw room for itself and the store; what
  the others are about to add is the image of the pairs of a part and a process, so it is
  no more than those pairs, and neither a sum nor an induction is needed. `RoomAlone` is
  its instance for one process.
- **Workspace**: `Steps` says, of every label, what the step about to be taken rests on
  (`AtMove`: what is done is hidden, what is left is in its place; `AtRestore`,
  `AtRecover`, `AtCommit`, `AtClean`, `AtUnlink`). A process that dies takes all of that
  with it, and what the next uninstall finds is `Disk`: a readable marker names every
  hidden file (`NothingForgotten`); while it is PREPARED each file it names is in its
  place or under its tombstone (`Somewhere`); and what it does not name, or names as
  COMMITTED, is not of the old installation (`Named`). `Untouched` (what the moves take is
  what was digested) gives `EditsKept`, `Answered` that UNINSTALLED is an answer only
  between commands. `AllOrNothing` is not a state invariant: it follows from
  `Steps` and `Disk` at the three steps that remove a marker. `OneInProgress` rests on
  `HistoryStep`: what any command may do to the runs, and which of them a command of the
  operator has called back.

Every safety property listed by a passing run, `MissionPromise` included, is the statement
of a theorem. Checked by TLC only: liveness (`EnqueuedSettles`, `Terminates`), since the
prover has neither fairness nor ENABLED.

## 14. Where code and documents disagree

Two runs find them violated; `PROJECT.json` quotes the sentences.

- `modestate_forgets`: every install archives and unlinks the ledger of episodes, and
  with it the memory of every repair (`mode_lifecycle.py:1453`).
- `candidate_base`: a shadow copied while the operator edits the product is bound to the
  clean base (`mode_lifecycle.py:276`).

The models also reach these, which have no run of their own:

- `host_controller.py:494`: a batch closed before a crash is reused by the relaunched turn
  although its references may have changed: the unit ends DONE with the evidence of the
  turn before, where the comment speaks of "el contenido determinista de la unidad"
  (`EvidenceReceived` says what is left of that).
- `mode_lifecycle.py:1583`: only the legacy files are compared again before they are
  unlinked, those replaced or put back (1588) are not, and a session may write between the
  comparison and the unlink (1585): a finding then leaves the live state with no archive
  and no name in the report, which according to 1435-1438 names every file replaced or
  discarded (`lost` is not empty).
- `host_controller.py:307`: `reconcile_on_start` frees a unit in the queue and not the
  flock an exception left behind, against the advice of the message at 369.
- `transaction.py:800`: reinstalling the ACTIVE generation deletes it and is then refused
  by its own earlier backup, outside the rollback.
- `bootstrap.py:1227`: an uninstall between RESTART_REQUIRED and the restart reports
  UNINSTALLED while DSH will load the bundle.
- `bootstrap.py:442`: a second install that read CREATED waits for the lock, and retains
  the run that the first has made ACTIVE.
- `workflow.py:1063`: an attempt that died without a session is said to allow a new one;
  its file has no session id and is taken for unreadable first.
- `workflow.py:1214`: a gate after a restart is not given the answer of the last ask.
- `state_commit.py:164`: a unit that died before its second file is reported
  COMPLETE_UNCLOSED, "escribió todo" in `docs/usage.md:155`.
- `stack.py:943`: a candidate without changes carries no digest, so the head of its
  results is not compared, and a gate passes it on those of another shadow.
- `bootstrap.py:473`: install compares the identity of the ACTIVE run, a sha256, with the
  raw revision, so that with revisions of 40 digits it never answers NO_OP; update, which
  derives both sides alike, does. Several runs can then be ACTIVE at once.
- `transaction.py:1084`: an install between a COMMITTED uninstall and its cleanup is not
  seen by the next uninstall, which removes the tombstones and answers UNINSTALLED while
  the new receipt, ACTIVE and bundle stay; between a PREPARED one and its recovery, the
  state is ambiguous and every later uninstall asks for recovery.
- `bootstrap.py:959`: accept and finalize read no status, so that a retained run can be
  called back beside one on its way.
- `bootstrap.py:1202`: a process that dies between the transaction and `run.json` leaves a
  run that says ACTIVE with nothing installed; update answers NO_OP until the uninstall is
  repeated.

Hazards that are reachable and that no sentence of the repository is precise enough to
settle: a second decision for one unit after a crash (`host_controller.py:517`); a receipt
or a marker torn by `_write_new` (`transaction.py:739`, 1155), which every later command
refuses; NO_OP judged by what DSH runs and not by what it will load (`transaction.py:774`);
an observation written before its STEP_COMPLETED (`workflow.py:1771`); an attempt cancelled
at its deadline and resumed (`workflow.py:1717`); `run.json` unlinked before it is written
(`bootstrap.py:815`); a candidate rewritten between its validation and its digest
(`acceptance.py:607`).

## 15. What is not modelled

Contents: digests are identities, a torn file is a value of its own, messages and
causes are names. Wall-clock time: a deadline or a lease may expire whenever it is looked
at.

Of the modelled files: killing local descendants and the acceptance receipts of
`missions.py`; `bind_role` of the publisher (a map in memory that nothing reads);
`summarize`; the supersession of decisions; in the executor the choice of reasoning
effort, the preset's preflight, the evidence memory's contents (it never decides), the
length of a cause, and two processes of one plan at a time, which the documents leave to
the operator; of a generation run the files it starts with, `--reevaluate`, a changed
prompt or limit other than as a refusal, steps that cost more than one token,
`checkpoint.json` (written, never read), and how a DSH is found and started; of the mode
state the other three files (written by the same tool under the same rules), the report
of the preflight and what a retire compacts; of the candidates the operator's repointing
(`state_reconcile.py` 379-411) and the anchoring of a candidate whose base moved; of the
campaign how capabilities are discovered and measured; of the uninstall a DSH home other
than the one of the marker (refused), tombstones that carry another token, and a mission
in another directory than the workspace.

The inference channel serves one call and leaves nothing behind; the skill corpus, its
gates and the host validator are pure functions over documents; promotion, pilots and
reflection record one thing once.
