--------------------------- MODULE HostController ---------------------------
(***************************************************************************)
(* The mission controller of scripts/host_controller.py with the stores it *)
(* drives: the durable queue (queue.json), the budget ledger (budget.py),  *)
(* the publisher's batch of each unit (publisher.py), the metrics and      *)
(* decision stores (metrics.py, decisions.py), the episode ledger          *)
(* (episodes.py) and the events journal.                                   *)
(*                                                                         *)
(* A controller is a process.  Each durable write is a step of its own, so *)
(* the process can die (Crash) or see one write fail (Fault) between any   *)
(* two of them.  A fresh HostController on the same directory is the same  *)
(* controller leaving "off" again.                                         *)
(***************************************************************************)
EXTENDS Integers, FiniteSets

CONSTANTS
  Controllers,  \* processes that may open the mission
  MaxUnits,     \* entries the queue can hold (bounds the model)
  Dimensions,   \* what the budget counts
  Limits,       \* dimension -> limit of the mandate
  Demand,       \* unit -> dimension -> what one attempt reserves
  Digests,      \* contents a turn can leave in task_ref/result_ref
  NoOne,        \* a lock nobody holds
  NoDigest,     \* artifacts, or an evidence record, that do not exist
  MaxCrashes,   \* process deaths (bounds the model)
  MaxFaults     \* failed writes (bounds the model)

Units == 1 .. MaxUnits  \* unit k is the k-th entry of the queue's list

ASSUME ControllersAssumption == NoOne \notin Controllers
ASSUME DigestsAssumption == NoDigest \notin Digests
ASSUME UnitsAssumption == MaxUnits \in Nat
ASSUME BudgetAssumption ==
  /\ "attempts" \in Dimensions
  /\ Limits \in [Dimensions -> Nat]
  /\ Demand \in [Units -> [Dimensions -> Nat]]
  /\ \A u \in Units : Demand[u]["attempts"] = 1
ASSUME BoundsAssumption ==
  /\ MaxCrashes \in Nat
  /\ MaxFaults \in Nat

VARIABLES
  mandate,    \* "none", only the "ledger" limits, a "torn" file, "registered"
  disk,       \* queue.json
  mem,        \* controller -> the queue it loaded
  artifact,   \* unit -> contents of its task and result files
  spent,      \* dimension -> sum of the ledger's events
  batch,      \* unit -> its batch in publish/<unit>
  metrics,    \* metrics/events.jsonl against metrics/head.json
  metered,    \* unit -> "turn" events on a line of their own in the store
  decided,    \* unit -> retention decisions in the decision store
  episodes,   \* unit -> entries in episodes.jsonl
  journal,    \* the (event, unit) pairs of events.jsonl
  holder,     \* owner of locks/controller.lock
  unitLock,   \* unit -> owner of its lock file
  pc,         \* controller -> the write it is about to make
  cur,        \* controller -> the unit in hand (0: none)
  why,        \* controller -> what the turn's closing is for
  launched,   \* history: turns handed to a launcher
  received,   \* history: the (unit, contents) pairs turns left in the files
  crashes, faults

queueVars  == <<disk, mem>>
storeVars  == <<artifact, batch, received>>
memoryVars == <<metrics, metered, decided, episodes>>
lockVars   == <<holder, unitLock>>
ctlVars    == <<pc, cur, why>>
envVars    == <<crashes, faults>>
vars == <<mandate, queueVars, storeVars, spent, memoryVars, journal, lockVars,
          ctlVars, launched, envVars>>

States == {"ABSENT", "PENDING", "IN_FLIGHT", "DONE", "RETAINED"}
Closed == {"DONE", "RETAINED"}
Queues == [Units -> [state : States, digest : Digests \union {NoDigest}]]
EmptyQueue == [u \in Units |-> [state |-> "ABSENT", digest |-> NoDigest]]
NoBatch == [open |-> FALSE, evidence |-> NoDigest, task |-> FALSE,
            close |-> FALSE]
Batches == [open : BOOLEAN, evidence : Digests \union {NoDigest},
            task : BOOLEAN, close : BOOLEAN]
MetricStates == {"empty", "headless", "whole", "ahead", "forked", "torn", "joined"}
Labels == {"off", "idle", "register", "reserve", "lock", "save_flight",
           "started", "turn", "wrote", "check", "publish", "evidence", "task",
           "close", "published", "metric", "head", "episode", "save_done",
           "done_event", "decide", "save_retained", "retained_event",
           "save_pending"}
EventNames == {"TURN_STARTED", "CHECK_RECEIVED", "PUBLISHED", "UNIT_DONE",
               "UNIT_RETAINED"}

-----------------------------------------------------------------------------
(* Helper state formulae. *)

Fits(u) == \A d \in Dimensions : spent[d] + Demand[u][d] <= Limits[d]

NextPending(queue, u) ==
  /\ queue[u].state = "PENDING"
  /\ \A v \in Units : v < u => queue[v].state # "PENDING"

InFlight(queue) == {u \in Units : queue[u].state = "IN_FLIGHT"}

Goto(c, label) == pc' = [pc EXCEPT ![c] = label]

At(c, from, to) == pc[c] = from /\ Goto(c, to)

SetState(c, u, state) == mem' = [mem EXCEPT ![c][u].state = state]

Log(name, u) == journal' = journal \union {<<name, u>>}

\* What a turn event cut short in the middle of its line leaves of the store.
TornMetrics == CASE metrics \in {"empty", "headless"} -> "headless"
                 [] metrics = "joined" -> "joined"
                 [] OTHER -> "torn"

\* _close_locks: the controller is gone with every flock it holds.
CloseLocks(c) ==
  /\ Goto(c, "off")
  /\ holder' = NoOne
  /\ unitLock' = [u \in Units |-> IF unitLock[u] = c THEN NoOne ELSE unitLock[u]]
  /\ mem' = [mem EXCEPT ![c] = EmptyQueue]

Init ==
  /\ mandate = "none"
  /\ disk = EmptyQueue
  /\ mem = [c \in Controllers |-> EmptyQueue]
  /\ artifact = [u \in Units |-> NoDigest]
  /\ spent = [d \in Dimensions |-> 0]
  /\ batch = [u \in Units |-> NoBatch]
  /\ metrics = "empty"
  /\ metered = [u \in Units |-> 0]
  /\ decided = [u \in Units |-> 0]
  /\ episodes = [u \in Units |-> 0]
  /\ journal = {}
  /\ holder = NoOne
  /\ unitLock = [u \in Units |-> NoOne]
  /\ pc = [c \in Controllers |-> "off"]
  /\ cur = [c \in Controllers |-> 0]
  /\ why = [c \in Controllers |-> "done"]
  /\ launched = 0
  /\ received = {}
  /\ crashes = 0
  /\ faults = 0

-----------------------------------------------------------------------------
(* Opening the mission, its mandate and its queue. *)

\* Faulty variant: the constructor does not take locks/controller.lock.
StartUnlocked(c) ==
  /\ At(c, "off", "idle")
  /\ mandate # "torn"
  /\ holder' = c
  /\ mem' = [mem EXCEPT ![c] = disk]
  /\ UNCHANGED <<mandate, disk, storeVars, spent, memoryVars, journal,
                 unitLock, cur, why, launched, envVars>>

\* __init__: the exclusive, non-blocking flock, then the persisted queue.  A
\* mission.json that does not parse makes every later start raise.
Start(c) ==
  /\ At(c, "off", "idle")
  /\ holder = NoOne
  /\ mandate # "torn"
  /\ holder' = c
  /\ mem' = [mem EXCEPT ![c] = disk]
  /\ UNCHANGED <<mandate, disk, storeVars, spent, memoryVars, journal,
                 unitLock, cur, why, launched, envVars>>

\* register_mandate, first write: the ledger's immutable limits.
RegisterLedger(c) ==
  /\ At(c, "idle", "register")
  /\ mandate \in {"none", "ledger"}
  /\ mandate' = "ledger"
  /\ UNCHANGED <<queueVars, storeVars, spent, memoryVars, journal, lockVars,
                 cur, why, launched, envVars>>

\* register_mandate, second write: mission.json, created exclusively.
RegisterMission(c) ==
  /\ At(c, "register", "idle")
  /\ mandate = "ledger"
  /\ mandate' = "registered"
  /\ UNCHANGED <<queueVars, storeVars, spent, memoryVars, journal, lockVars,
                 cur, why, launched, envVars>>

\* enqueue: the entry is appended and saved; when the save fails it is popped,
\* so memory and file change together or not at all.
Enqueue(c) ==
  /\ pc[c] = "idle"
  /\ mandate = "registered"
  /\ \E u \in Units, d \in Digests :
       /\ mem[c][u].state = "ABSENT"
       /\ \A v \in Units : v < u => mem[c][v].state # "ABSENT"
       /\ mem' = [mem EXCEPT ![c][u] = [state |-> "PENDING", digest |-> d]]
  /\ disk' = mem'[c]
  /\ UNCHANGED <<mandate, storeVars, spent, memoryVars, journal, lockVars,
                 ctlVars, launched, envVars>>

-----------------------------------------------------------------------------
(* run_next, up to the launch of the turn. *)

\* run_next up to the usage budget.reserve reads.  When the demand of the
\* first pending unit does not fit, BudgetExhausted leaves everything as it
\* was: the action is disabled.
BeginTurn(c) ==
  /\ At(c, "idle", "reserve")
  /\ mandate = "registered"
  /\ InFlight(mem[c]) = {}
  /\ \E u \in Units :
       /\ NextPending(mem[c], u)
       /\ Fits(u)
       /\ cur' = [cur EXCEPT ![c] = u]
  /\ why' = [why EXCEPT ![c] = "done"]
  /\ UNCHANGED <<mandate, queueVars, storeVars, spent, memoryVars, journal,
                 lockVars, launched, envVars>>

\* Faulty variant: the relaunch of a unit whose turn already started is free.
ReserveOnce(c) ==
  /\ At(c, "reserve", "lock")
  /\ spent' = IF <<"TURN_STARTED", cur[c]>> \in journal THEN spent
              ELSE [d \in Dimensions |-> spent[d] + Demand[cur[c]][d]]
  /\ UNCHANGED <<mandate, queueVars, storeVars, memoryVars, journal, lockVars,
                 cur, why, launched, envVars>>

\* budget.reserve writes its event: the sum that was checked, if nobody else
\* wrote one since.
Reserve(c) ==
  /\ At(c, "reserve", "lock")
  /\ spent' = [d \in Dimensions |-> spent[d] + Demand[cur[c]][d]]
  /\ UNCHANGED <<mandate, queueVars, storeVars, memoryVars, journal, lockVars,
                 cur, why, launched, envVars>>

\* Faulty variant: the unit takes a state _load_queue does not accept.
LockUnitRunning(c) ==
  /\ At(c, "lock", "save_flight")
  /\ unitLock[cur[c]] = NoOne
  /\ unitLock' = [unitLock EXCEPT ![cur[c]] = c]
  /\ SetState(c, cur[c], "RUNNING")
  /\ UNCHANGED <<mandate, disk, storeVars, spent, memoryVars, journal, holder,
                 cur, why, launched, envVars>>

\* _lock_unit, then the unit is in flight in memory.
LockUnit(c) ==
  /\ At(c, "lock", "save_flight")
  /\ unitLock[cur[c]] = NoOne
  /\ unitLock' = [unitLock EXCEPT ![cur[c]] = c]
  /\ SetState(c, cur[c], "IN_FLIGHT")
  /\ UNCHANGED <<mandate, disk, storeVars, spent, memoryVars, journal, holder,
                 cur, why, launched, envVars>>

\* A flock conflicts even with another descriptor of the same process: run_next
\* raises with the reservation already spent and the unit PENDING.
LockBusy(c) ==
  /\ At(c, "lock", "idle")
  /\ unitLock[cur[c]] # NoOne
  /\ UNCHANGED <<mandate, queueVars, storeVars, spent, memoryVars, journal,
                 lockVars, cur, why, launched, envVars>>

SaveInFlight(c) ==
  /\ At(c, "save_flight", "started")
  /\ disk' = mem[c]
  /\ UNCHANGED <<mandate, mem, storeVars, spent, memoryVars, journal, lockVars,
                 cur, why, launched, envVars>>

TurnStarted(c) ==
  /\ At(c, "started", "turn")
  /\ Log("TURN_STARTED", cur[c])
  /\ UNCHANGED <<mandate, queueVars, storeVars, spent, memoryVars, lockVars,
                 cur, why, launched, envVars>>

\* The injected launcher runs and leaves some contents, or leaves the files of
\* an earlier turn as they were.
LaunchTurn(c) ==
  /\ At(c, "turn", "wrote")
  /\ \E content \in Digests \union {artifact[cur[c]]} :
       /\ artifact' = [artifact EXCEPT ![cur[c]] = content]
       /\ received' = received \union ({cur[c]} \X ({content} \ {NoDigest}))
  /\ launched' = launched + 1
  /\ UNCHANGED <<mandate, queueVars, batch, spent, memoryVars, journal,
                 lockVars, cur, why, envVars>>

-----------------------------------------------------------------------------
(* run_next, from the launcher's return to the publication. *)

\* update_unit_refs, called by a launcher that only knows the digests late.
\* Its save may fail behind the memory it already changed; whether or not it
\* did, the launcher may still return or raise.
UpdateRefs(c) ==
  /\ pc[c] = "wrote"
  /\ artifact[cur[c]] # NoDigest
  /\ mem' = [mem EXCEPT ![c][cur[c]].digest = artifact[cur[c]]]
  /\ \/ disk' = mem'[c] /\ UNCHANGED faults
     \/ faults < MaxFaults /\ faults' = faults + 1 /\ UNCHANGED disk
  /\ UNCHANGED <<mandate, storeVars, spent, memoryVars, journal, lockVars,
                 ctlVars, launched, crashes>>

\* The launcher returns its receipt.
TurnReturns(c) ==
  /\ At(c, "wrote", "check")
  /\ UNCHANGED <<mandate, queueVars, storeVars, spent, memoryVars, journal,
                 lockVars, cur, why, launched, envVars>>

\* The turn raises, or _check_received does not find the digests of the queue:
\* both enter _retain, whose first write is the metrics event.
TurnRejected(c) ==
  /\ \/ pc[c] = "wrote"
     \/ pc[c] = "check" /\ artifact[cur[c]] # mem[c][cur[c]].digest
  /\ Goto(c, "metric")
  /\ why' = [why EXCEPT ![c] = "retain"]
  /\ UNCHANGED <<mandate, queueVars, storeVars, spent, memoryVars, journal,
                 lockVars, cur, launched, envVars>>

\* Faulty variant: the files of the turn are never compared with the queue.
CheckNothing(c) ==
  /\ At(c, "check", "publish")
  /\ Log("CHECK_RECEIVED", cur[c])
  /\ UNCHANGED <<mandate, queueVars, storeVars, spent, memoryVars, lockVars,
                 cur, why, launched, envVars>>

CheckReceived(c) ==
  /\ At(c, "check", "publish")
  /\ artifact[cur[c]] = mem[c][cur[c]].digest
  /\ Log("CHECK_RECEIVED", cur[c])
  /\ UNCHANGED <<mandate, queueVars, storeVars, spent, memoryVars, lockVars,
                 cur, why, launched, envVars>>

\* _publish: a batch with a close record is taken as published; any other is
\* opened (again: the record is idempotent by content).
OpenBatch(c) ==
  /\ pc[c] = "publish"
  /\ Goto(c, IF batch[cur[c]].close THEN "published" ELSE "evidence")
  /\ batch' = [batch EXCEPT ![cur[c]].open = TRUE]
  /\ UNCHANGED <<mandate, queueVars, artifact, received, spent, memoryVars,
                 journal, lockVars, cur, why, launched, envVars>>

\* The evidence record carries the digests of the queue.
PublishEvidence(c) ==
  /\ At(c, "evidence", "task")
  /\ batch[cur[c]].evidence \in {NoDigest, mem[c][cur[c]].digest}
  /\ batch' = [batch EXCEPT ![cur[c]].evidence = mem[c][cur[c]].digest]
  /\ UNCHANGED <<mandate, queueVars, artifact, received, spent, memoryVars,
                 journal, lockVars, cur, why, launched, envVars>>

PublishTask(c) ==
  /\ At(c, "task", "close")
  /\ batch' = [batch EXCEPT ![cur[c]].task = TRUE]
  /\ UNCHANGED <<mandate, queueVars, artifact, received, spent, memoryVars,
                 journal, lockVars, cur, why, launched, envVars>>

CloseBatch(c) ==
  /\ At(c, "close", "published")
  /\ batch' = [batch EXCEPT ![cur[c]].close = TRUE]
  /\ UNCHANGED <<mandate, queueVars, artifact, received, spent, memoryVars,
                 journal, lockVars, cur, why, launched, envVars>>

\* Any exception inside _publish retains the unit: an evidence record with
\* other contents ("Conflicto de registro"), or a record that cannot be
\* written, which counts as one of the failed writes.
PublishRejected(c) ==
  /\ \/ /\ pc[c] = "evidence"
        /\ batch[cur[c]].evidence \notin {NoDigest, mem[c][cur[c]].digest}
        /\ UNCHANGED faults
     \/ /\ pc[c] \in {"publish", "evidence", "task", "close"}
        /\ faults < MaxFaults
        /\ faults' = faults + 1
  /\ Goto(c, "metric")
  /\ why' = [why EXCEPT ![c] = "retain"]
  /\ UNCHANGED <<mandate, queueVars, storeVars, spent, memoryVars, journal,
                 lockVars, cur, launched, crashes>>

PublishedEvent(c) ==
  /\ At(c, "published", "metric")
  /\ Log("PUBLISHED", cur[c])
  /\ UNCHANGED <<mandate, queueVars, storeVars, spent, memoryVars, lockVars,
                 cur, why, launched, envVars>>

-----------------------------------------------------------------------------
(* What every closing writes first: the metrics event and the memory. *)

\* _record_turn_close, first write.  An event appended behind a checkpoint that
\* missed one forks the chain: the new event repeats a sequence number.  Behind
\* an event cut short it joins that line and is an event of nobody.
AppendMetric(c) ==
  /\ At(c, "metric", "head")
  /\ metrics # "headless"
  /\ metrics' = CASE metrics = "empty" -> "headless"
                  [] metrics = "whole" -> "ahead"
                  [] metrics \in {"torn", "joined"} -> "joined"
                  [] OTHER -> "forked"
  /\ metered' = IF metrics = "torn" THEN metered
                ELSE [metered EXCEPT ![cur[c]] = @ + 1]
  /\ UNCHANGED <<mandate, queueVars, storeVars, spent, decided, episodes,
                 journal, lockVars, cur, why, launched, envVars>>

\* Faulty variant: a metrics store that cannot be written is ignored and the
\* retained unit is saved without its decision.
MetricSkipped(c) ==
  /\ pc[c] = "metric"
  /\ metrics = "headless"
  /\ Goto(c, "save_retained")
  /\ SetState(c, cur[c], "RETAINED")
  /\ UNCHANGED <<mandate, disk, storeVars, spent, memoryVars, journal,
                 lockVars, cur, why, launched, envVars>>

\* events.jsonl without head.json: record_event raises out of run_next or
\* cancel, with the unit in flight and every lock still held.
MetricRaises(c) ==
  /\ At(c, "metric", "idle")
  /\ metrics = "headless"
  /\ UNCHANGED <<mandate, queueVars, storeVars, spent, memoryVars, journal,
                 lockVars, cur, why, launched, envVars>>

\* _record_turn_close, second write: the checkpoint replaces head.json.
WriteHead(c) ==
  /\ pc[c] = "head"
  /\ Goto(c, IF why[c] = "done" THEN "episode" ELSE "decide")
  /\ metrics' = IF metrics \in {"forked", "joined"} THEN metrics ELSE "whole"
  /\ UNCHANGED <<mandate, queueVars, storeVars, spent, metered, decided,
                 episodes, journal, lockVars, cur, why, launched, envVars>>

\* _record_episode: the unit may carry an episode or none, and a ledger that
\* refuses it never fails the unit; then the unit is DONE in memory.
Episode(c) ==
  /\ At(c, "episode", "save_done")
  /\ episodes' \in {episodes, [episodes EXCEPT ![cur[c]] = @ + 1]}
  /\ SetState(c, cur[c], "DONE")
  /\ UNCHANGED <<mandate, disk, storeVars, spent, metrics, metered, decided,
                 journal, lockVars, cur, why, launched, envVars>>

\* Faulty variant: UNIT_DONE is journaled before the queue is saved.
SaveDoneLate(c) ==
  /\ At(c, "save_done", "done_event")
  /\ Log("UNIT_DONE", cur[c])
  /\ UNCHANGED <<mandate, queueVars, storeVars, spent, memoryVars, lockVars,
                 cur, why, launched, envVars>>

SaveDone(c) ==
  /\ At(c, "save_done", "done_event")
  /\ disk' = mem[c]
  /\ UNCHANGED <<mandate, mem, storeVars, spent, memoryVars, journal, lockVars,
                 cur, why, launched, envVars>>

DoneEvent(c) ==
  /\ At(c, "done_event", "idle")
  /\ Log("UNIT_DONE", cur[c])
  /\ unitLock' = [unitLock EXCEPT ![cur[c]] = NoOne]
  /\ UNCHANGED <<mandate, queueVars, storeVars, spent, memoryVars, holder,
                 cur, why, launched, envVars>>

\* _record_retention_decision, then the unit is RETAINED in memory.
Decide(c) ==
  /\ At(c, "decide", "save_retained")
  /\ decided' = [decided EXCEPT ![cur[c]] = @ + 1]
  /\ SetState(c, cur[c], "RETAINED")
  /\ UNCHANGED <<mandate, disk, storeVars, spent, metrics, metered, episodes,
                 journal, lockVars, cur, why, launched, envVars>>

SaveRetained(c) ==
  /\ At(c, "save_retained", "retained_event")
  /\ disk' = mem[c]
  /\ UNCHANGED <<mandate, mem, storeVars, spent, memoryVars, journal, lockVars,
                 cur, why, launched, envVars>>

\* The end of _retain unlocks the unit; the end of cancel closes every lock
\* and with them the controller.
RetainedEvent(c) ==
  /\ pc[c] = "retained_event"
  /\ Log("UNIT_RETAINED", cur[c])
  /\ \/ /\ why[c] = "retain"
        /\ Goto(c, "idle")
        /\ unitLock' = [unitLock EXCEPT ![cur[c]] = NoOne]
        /\ UNCHANGED <<holder, mem>>
     \/ /\ why[c] = "cancel"
        /\ CloseLocks(c)
  /\ UNCHANGED <<mandate, disk, storeVars, spent, memoryVars, cur, why,
                 launched, envVars>>

-----------------------------------------------------------------------------
(* Recovery: cancellation, reconciliation, death and failed writes. *)

\* cancel with a unit in flight starts closing it (there is at most one, see
\* OneInFlight); with none it only releases.
Cancel(c) ==
  /\ pc[c] = "idle"
  /\ mandate = "registered"
  /\ \/ /\ \E u \in InFlight(mem[c]) : cur' = [cur EXCEPT ![c] = u]
        /\ Goto(c, "metric")
        /\ why' = [why EXCEPT ![c] = "cancel"]
        /\ UNCHANGED <<mem, lockVars>>
     \/ /\ InFlight(mem[c]) = {}
        /\ CloseLocks(c)
        /\ UNCHANGED <<cur, why>>
  /\ UNCHANGED <<mandate, disk, storeVars, spent, memoryVars, journal,
                 launched, envVars>>

\* Faulty variant: units in flight are reported and not marked again.
ReconcileReadOnly(c) ==
  /\ At(c, "idle", "save_pending")
  /\ mandate = "registered"
  /\ InFlight(mem[c]) # {}
  /\ UNCHANGED <<mandate, queueVars, storeVars, spent, memoryVars, journal,
                 lockVars, cur, why, launched, envVars>>

\* reconcile_on_start: units in flight are pending again in memory.
Reconcile(c) ==
  /\ At(c, "idle", "save_pending")
  /\ mandate = "registered"
  /\ InFlight(mem[c]) # {}
  /\ mem' = [mem EXCEPT ![c] =
               [u \in Units |-> IF @[u].state = "IN_FLIGHT"
                                THEN [@[u] EXCEPT !.state = "PENDING"]
                                ELSE @[u]]]
  /\ UNCHANGED <<mandate, disk, storeVars, spent, memoryVars, journal,
                 lockVars, cur, why, launched, envVars>>

SavePending(c) ==
  /\ At(c, "save_pending", "idle")
  /\ disk' = mem[c]
  /\ UNCHANGED <<mandate, mem, storeVars, spent, memoryVars, journal, lockVars,
                 cur, why, launched, envVars>>

\* The process dies, or release_locks hands the mission over: the kernel frees
\* its flocks.  mission.json and the metrics events are not written atomically
\* and may be left torn.
Crash(c) ==
  /\ pc[c] # "off"
  /\ crashes < MaxCrashes
  /\ crashes' = crashes + 1
  /\ CloseLocks(c)
  /\ mandate' \in {mandate} \union (IF pc[c] = "register" THEN {"torn"} ELSE {})
  /\ metrics' \in {metrics} \union (IF pc[c] = "metric" THEN {TornMetrics} ELSE {})
  /\ UNCHANGED <<disk, storeVars, spent, metered, decided, episodes, journal,
                 cur, why, launched, faults>>

\* A write fails and the exception leaves run_next, reconcile_on_start, cancel
\* or register_mandate.  Memory keeps what it already says; the unit's lock is
\* freed only by the finally of _retain.
Fault(c) ==
  /\ pc[c] \in {"register", "reserve", "save_flight", "started", "check",
                "published", "metric", "head", "save_done", "done_event",
                "decide", "save_retained", "retained_event", "save_pending"}
  /\ faults < MaxFaults
  /\ faults' = faults + 1
  /\ Goto(c, "idle")
  /\ unitLock' = IF pc[c] \in {"save_retained", "retained_event"} /\ why[c] = "retain"
                 THEN [unitLock EXCEPT ![cur[c]] = NoOne]
                 ELSE unitLock
  /\ mandate' \in {mandate} \union (IF pc[c] = "register" THEN {"torn"} ELSE {})
  /\ metrics' \in {metrics} \union (IF pc[c] = "metric" THEN {TornMetrics} ELSE {})
  /\ UNCHANGED <<queueVars, storeVars, spent, metered, decided, episodes,
                 journal, holder, cur, why, launched, crashes>>

-----------------------------------------------------------------------------
Opening(c) == Start(c) \/ RegisterLedger(c) \/ RegisterMission(c) \/ Enqueue(c)

Launching(c) ==
  \/ BeginTurn(c) \/ Reserve(c) \/ LockUnit(c) \/ LockBusy(c)
  \/ SaveInFlight(c) \/ TurnStarted(c) \/ LaunchTurn(c)

Publishing(c) ==
  \/ UpdateRefs(c) \/ TurnReturns(c) \/ TurnRejected(c) \/ CheckReceived(c)
  \/ OpenBatch(c) \/ PublishEvidence(c) \/ PublishTask(c) \/ CloseBatch(c)
  \/ PublishRejected(c) \/ PublishedEvent(c)

Closing(c) ==
  \/ AppendMetric(c) \/ MetricRaises(c) \/ WriteHead(c) \/ Episode(c)
  \/ SaveDone(c) \/ DoneEvent(c) \/ Decide(c) \/ SaveRetained(c)
  \/ RetainedEvent(c)

Recovering(c) == Cancel(c) \/ Reconcile(c) \/ SavePending(c) \/ Crash(c) \/ Fault(c)

Step(c) ==
  Opening(c) \/ Launching(c) \/ Publishing(c) \/ Closing(c) \/ Recovering(c)

Next == \E c \in Controllers : Step(c)

Spec == Init /\ [][Next]_vars

\* A process that started a call goes on; somebody keeps opening the mission,
\* reconciling it and calling run_next, as the module's contract leaves to the
\* caller.  Nothing is assumed of enqueue, cancel, crashes or failed writes.
Working(c) ==
  \/ RegisterMission(c) \/ Closing(c) \/ SavePending(c)
  \/ Reserve(c) \/ LockUnit(c) \/ LockBusy(c) \/ SaveInFlight(c)
  \/ TurnStarted(c) \/ LaunchTurn(c) \/ Publishing(c)

Fairness ==
  /\ WF_vars(\E c \in Controllers : Start(c))
  /\ \A c \in Controllers :
       WF_vars(Working(c)) /\ SF_vars(Reconcile(c)) /\ SF_vars(BeginTurn(c))

FairSpec == Spec /\ Fairness

-----------------------------------------------------------------------------
(* Safety. *)

TypeOK ==
  /\ mandate \in {"none", "ledger", "torn", "registered"}
  /\ disk \in Queues
  /\ mem \in [Controllers -> Queues]
  /\ artifact \in [Units -> Digests \union {NoDigest}]
  /\ spent \in [Dimensions -> Nat]
  /\ batch \in [Units -> Batches]
  /\ metrics \in MetricStates
  /\ metered \in [Units -> Nat]
  /\ decided \in [Units -> Nat]
  /\ episodes \in [Units -> Nat]
  /\ journal \subseteq EventNames \X Units
  /\ holder \in Controllers \union {NoOne}
  /\ unitLock \in [Units -> Controllers \union {NoOne}]
  /\ pc \in [Controllers -> Labels]
  /\ cur \in [Controllers -> Units \union {0}]
  /\ why \in [Controllers -> {"done", "retain", "cancel"}]
  /\ launched \in Nat
  /\ received \subseteq Units \X Digests
  /\ crashes \in 0 .. MaxCrashes
  /\ faults \in 0 .. MaxFaults

\* The persisted reservations never exceed a limit of the mandate, although
\* budget.reserve reads its events and writes the new one in two steps: only
\* the global lock keeps a second controller out of the gap.
WithinBudget == \A d \in Dimensions : spent[d] <= Limits[d]

\* A crash can overcount and never undercount (budget.py, module docstring):
\* every turn that reached a launcher has its own attempt in the ledger,
\* relaunches of the same unit included.
EveryLaunchPaid == launched <= spent["attempts"]

\* The saved queue never shows two units in flight: what a dead controller
\* left there is reconciled or cancelled before another unit starts.
OneInFlight == Cardinality(InFlight(disk)) <= 1

\* The metrics store has a turn event of the unit, unless one was cut short and
\* the next joined its line: no reader accepts such a store any more.
Metered(u) == metered[u] > 0 \/ metrics = "joined"

\* A unit is saved as closed only when the stores that must remember the
\* closing already do: a DONE unit has its batch closed, a RETAINED one its
\* decision, and either one a turn event; an episode is kept only of what was
\* published.
ClosureBacked == \A u \in Units :
  /\ disk[u].state = "DONE" => batch[u].close /\ Metered(u)
  /\ disk[u].state = "RETAINED" => decided[u] > 0 /\ Metered(u)
  /\ episodes[u] > 0 => batch[u].close

\* The journal never runs ahead of the store it reports on: whoever reads
\* UNIT_DONE, UNIT_RETAINED or PUBLISHED in events.jsonl finds it true.
JournalHonest == \A u \in Units :
  /\ <<"UNIT_DONE", u>> \in journal => disk[u].state = "DONE"
  /\ <<"UNIT_RETAINED", u>> \in journal => disk[u].state = "RETAINED"
  /\ <<"PUBLISHED", u>> \in journal => batch[u].close

\* Nothing is published about a unit, nor is the unit saved as DONE, under a
\* digest that is not of contents one of its own turns left in the files,
\* whatever update_unit_refs changed and whichever attempt made the batch.
EvidenceReceived == \A u \in Units :
  /\ batch[u].evidence # NoDigest => <<u, batch[u].evidence>> \in received
  /\ disk[u].state = "DONE" => <<u, disk[u].digest>> \in received

-----------------------------------------------------------------------------
(* Action properties. *)

\* A unit once saved as DONE or RETAINED is never reopened, whatever an older
\* process still has in memory.
ClosedStaysClosed ==
  [][\A u \in Units : disk[u].state \in Closed => disk'[u] = disk[u]]_vars

-----------------------------------------------------------------------------
(* Liveness. *)

\* run_next takes the first pending unit; when its demand no longer fits, the
\* queue behind it waits too.
HeadExhausted == \E u \in Units : NextPending(disk, u) /\ ~Fits(u)

\* A queued unit is eventually closed, through any crash, unless the budget of
\* the unit at the head of the queue is gone or the metrics store lost its
\* first checkpoint, which nothing repairs.
EnqueuedSettles == \A u \in Units :
  disk[u].state = "PENDING" ~>
    \/ disk[u].state \in Closed
    \/ HeadExhausted
    \/ [](metrics = "headless")

-----------------------------------------------------------------------------
(* What the controller implements. *)

Abs == INSTANCE Mission WITH
         status <- [u \in Units |-> disk[u].state],
         usage <- spent,
         published <- {u \in Units : batch[u].close},
         remembered <- {u \in Units : decided[u] > 0}

MissionPromise == Abs!Spec

-----------------------------------------------------------------------------
(* What a controller in the middle of a call may rely on: the strengthening  *)
(* under which the invariants above are inductive.                           *)

Chosen == {"reserve", "lock"}
Turning == {"started", "turn", "wrote", "check", "publish", "evidence", "task",
            "close", "published"}
Flying == Turning \union {"save_flight", "metric", "head", "episode", "decide"}
Storing == {"save_done", "done_event", "save_retained", "retained_event"}

\* The global lock admits one live controller.
Exclusive == \A c \in Controllers : pc[c] # "off" => holder = c

\* The unit in hand is in the state its phase requires, in memory and on disk.
InHand == \A c \in Controllers :
  /\ pc[c] \in Chosen \union Flying \union Storing => cur[c] \in Units
  /\ pc[c] \in Chosen => mem[c][cur[c]].state = "PENDING"
  /\ pc[c] \in Flying => mem[c][cur[c]].state = "IN_FLIGHT"
  /\ pc[c] \in Chosen \union Turning \union {"save_flight", "episode"} => why[c] = "done"
  /\ pc[c] \in Flying \ {"save_flight"} /\ why[c] = "done" =>
       disk[cur[c]].state = "IN_FLIGHT"
  /\ pc[c] = "save_done" => mem[c][cur[c]].state = "DONE"
  /\ pc[c] = "done_event" => disk[cur[c]].state = "DONE"
  /\ pc[c] = "save_retained" => mem[c][cur[c]].state = "RETAINED"
  /\ pc[c] = "retained_event" => disk[cur[c]].state = "RETAINED"

\* A reservation that was checked still fits when it is written, and a turn
\* about to be launched has been paid for.
Paid == \A c \in Controllers :
  /\ pc[c] = "reserve" => Fits(cur[c])
  /\ pc[c] \in {"lock", "save_flight", "started", "turn"} =>
       launched < spent["attempts"]

\* The stores already hold what the next saved queue will say.
MemoryBacked == \A c \in Controllers :
  /\ pc[c] = "published" => batch[cur[c]].close
  /\ pc[c] \in {"metric", "head", "episode"} /\ why[c] = "done" => batch[cur[c]].close
  /\ pc[c] \in {"head", "episode", "decide"} => Metered(cur[c])
  /\ \A u \in Units :
       /\ mem[c][u].state = "DONE" => batch[u].close /\ Metered(u)
       /\ mem[c][u].state = "RETAINED" => decided[u] > 0 /\ Metered(u)

\* The memory of a live controller is the saved queue or one legal move ahead
\* of it, and agrees with it on every closed unit.
MemoryFollows == \A c \in Controllers, u \in Units : pc[c] # "off" =>
  /\ mem[c][u].state = "ABSENT" <=> disk[u].state = "ABSENT"
  /\ mem[c][u].state # disk[u].state =>
       <<disk[u].state, mem[c][u].state>> \in Abs!Lifecycle
  /\ disk[u].state \in Closed => mem[c][u] = disk[u]

\* One unit in flight at a time, in memory and on disk; none when the next is
\* about to be locked.
AloneInFlight ==
  /\ \A u, v \in InFlight(disk) : u = v
  /\ \A c \in Controllers :
       /\ \A u, v \in InFlight(mem[c]) : u = v
       /\ pc[c] \in Chosen => InFlight(mem[c]) = {}

\* The files hold what a turn left there; a queue entry always has a digest,
\* and from the check to the closing the unit in hand has a received one.
EvidenceKept ==
  /\ \A u \in Units :
       /\ artifact[u] # NoDigest => <<u, artifact[u]>> \in received
       /\ disk[u].state # "ABSENT" => disk[u].digest # NoDigest
  /\ \A c \in Controllers :
       /\ \A u \in Units :
            /\ mem[c][u].state # "ABSENT" => mem[c][u].digest # NoDigest
            /\ mem[c][u].state = "DONE" => <<u, mem[c][u].digest>> \in received
       /\ \/ pc[c] \in {"publish", "evidence", "task", "close", "published"}
          \/ pc[c] \in {"metric", "head", "episode"} /\ why[c] = "done"
          => <<cur[c], mem[c][cur[c]].digest>> \in received

IInv ==
  /\ TypeOK /\ Exclusive /\ InHand /\ Paid /\ MemoryBacked /\ MemoryFollows
  /\ AloneInFlight /\ EvidenceKept
  /\ WithinBudget /\ EveryLaunchPaid /\ ClosureBacked /\ JournalHonest
  /\ EvidenceReceived
=============================================================================
