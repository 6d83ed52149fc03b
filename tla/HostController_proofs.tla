------------------------ MODULE HostController_proofs ------------------------
(***************************************************************************)
(* Proofs about HostController, for every number of controllers, units,    *)
(* dimensions, crashes and failed writes.  IInv is shown inductive one     *)
(* conjunct at a time, each lemma with one step per action; the theorems   *)
(* at the end read their properties off it, and the last one shows that    *)
(* every step is a step of Mission or leaves what Mission sees unchanged.  *)
(***************************************************************************)
EXTENDS HostController, FiniteSetTheorems, TLAPS

-----------------------------------------------------------------------------
(* What the two helpers that build most steps do. *)

\* Goto moves one controller to one label and leaves the others where they are.
LEMMA GotoFacts ==
  ASSUME pc \in [Controllers -> Labels],
         NEW c \in Controllers, NEW l \in Labels, Goto(c, l)
  PROVE  /\ pc' \in [Controllers -> Labels]
         /\ pc'[c] = l
         /\ \A o \in Controllers : o # c => pc'[o] = pc[o]
  BY DEF Goto

\* SetState changes the state of one unit in the memory of one controller.
LEMMA SetStateFacts ==
  ASSUME mem \in [Controllers -> Queues],
         NEW c \in Controllers, NEW u \in Units, NEW s \in States,
         SetState(c, u, s)
  PROVE  /\ mem' \in [Controllers -> Queues]
         /\ mem'[c][u] = [mem[c][u] EXCEPT !.state = s]
         /\ mem'[c][u].state = s
         /\ mem'[c][u].digest = mem[c][u].digest
         /\ \A v \in Units : v # u => mem'[c][v] = mem[c][v]
         /\ \A o \in Controllers : o # c => mem'[o] = mem[o]
<1>1. mem' = [mem EXCEPT ![c][u].state = s]
  BY DEF SetState
<1>2. mem[c] \in Queues /\ mem[c][u] \in [state : States, digest : Digests \union {NoDigest}]
  BY DEF Queues
<1>3. [mem[c][u] EXCEPT !.state = s] \in [state : States, digest : Digests \union {NoDigest}]
  BY <1>2
<1>4. [mem[c] EXCEPT ![u] = [mem[c][u] EXCEPT !.state = s]] \in Queues
  BY <1>2, <1>3 DEF Queues
<1>5. mem' = [mem EXCEPT ![c] = [mem[c] EXCEPT ![u] = [mem[c][u] EXCEPT !.state = s]]]
  BY <1>1
<1> QED
  BY <1>2, <1>3, <1>4, <1>5 DEF Queues

\* The memory of a controller that is gone is still a queue.
LEMMA EmptyQueueType == EmptyQueue \in Queues
  BY DEF EmptyQueue, Queues, States

\* In every phase of a turn or of its closing, a unit is in hand.
LEMMA InHandUnit ==
  ASSUME InHand, NEW c \in Controllers,
         pc[c] \in Chosen \union Flying \union Storing
  PROVE  cur[c] \in Units
  BY DEF InHand

\* enqueue adds one pending entry, in memory and on disk.
LEMMA EnqueueFacts ==
  ASSUME TypeOK, NEW c \in Controllers, Enqueue(c)
  PROVE  \E u \in Units :
           /\ mem[c][u].state = "ABSENT"
           /\ mem'[c][u].state = "PENDING"
           /\ mem'[c][u].digest \in Digests
           /\ \A v \in Units : v # u => mem'[c][v] = mem[c][v]
           /\ \A o \in Controllers : o # c => mem'[o] = mem[o]
           /\ disk' = mem'[c]
<1>1. mem \in [Controllers -> Queues]
  BY DEF TypeOK
<1>2. PICK u \in Units, d \in Digests :
        /\ mem[c][u].state = "ABSENT"
        /\ mem' = [mem EXCEPT ![c][u] = [state |-> "PENDING", digest |-> d]]
  BY DEF Enqueue
<1> QED
  BY <1>1, <1>2 DEF Queues, Enqueue

\* update_unit_refs changes the digest of the unit in hand, in memory and, if
\* its save does not fail, on disk, and nobody's state.
LEMMA UpdateRefsFacts ==
  ASSUME TypeOK, InHand, NEW c \in Controllers, UpdateRefs(c)
  PROVE  /\ cur[c] \in Units
         /\ mem'[c][cur[c]].state = mem[c][cur[c]].state
         /\ mem'[c][cur[c]].digest = artifact[cur[c]]
         /\ \A v \in Units : v # cur[c] => mem'[c][v] = mem[c][v]
         /\ \A o \in Controllers : o # c => mem'[o] = mem[o]
         /\ disk' \in {disk, mem'[c]}
<1>1. mem \in [Controllers -> Queues]
  BY DEF TypeOK
<1>2. cur[c] \in Units
  BY InHandUnit DEF UpdateRefs, At, Chosen, Flying, Turning, Storing
<1>3. mem' = [mem EXCEPT ![c][cur[c]].digest = artifact[cur[c]]]
  BY DEF UpdateRefs
<1> QED
  BY <1>1, <1>2, <1>3 DEF Queues, UpdateRefs

-----------------------------------------------------------------------------
(* Each conjunct of IInv is preserved by every step. *)

\* Types.
LEMMA TypeStep ==
  ASSUME TypeOK, InHand, [Next]_vars
  PROVE  TypeOK'
<1> USE DEF queueVars, storeVars, memoryVars, lockVars, ctlVars, envVars
<1> SUFFICES ASSUME NEW c \in Controllers, Step(c) PROVE TypeOK'
  BY DEF Next, vars, TypeOK
<1>1. CASE Start(c)
  <2>1. pc' \in [Controllers -> Labels]
    BY <1>1, GotoFacts DEF Start, At, Labels, TypeOK
  <2>2. holder' \in Controllers \union {NoOne} /\ mem' \in [Controllers -> Queues]
    BY <1>1 DEF Start, TypeOK, At
  <2> QED
    BY <1>1, <2>1, <2>2 DEF Start, TypeOK, At
<1>2. CASE RegisterLedger(c)
  <2>1. pc' \in [Controllers -> Labels]
    BY <1>2, GotoFacts DEF RegisterLedger, At, Labels, TypeOK
  <2> QED
    BY <1>2, <2>1 DEF RegisterLedger, TypeOK, At
<1>3. CASE RegisterMission(c)
  <2>1. pc' \in [Controllers -> Labels]
    BY <1>3, GotoFacts DEF RegisterMission, At, Labels, TypeOK
  <2> QED
    BY <1>3, <2>1 DEF RegisterMission, TypeOK, At
<1>4. CASE Enqueue(c)
  <2>1. pc' \in [Controllers -> Labels]
    BY <1>4 DEF Enqueue, TypeOK
  <2>2. mem' \in [Controllers -> Queues] /\ disk' \in Queues
    BY <1>4 DEF Enqueue, TypeOK, At, Queues, States
  <2> QED
    BY <1>4, <2>1, <2>2 DEF Enqueue, TypeOK, At
<1>5. CASE BeginTurn(c)
  <2>1. pc' \in [Controllers -> Labels]
    BY <1>5, GotoFacts DEF BeginTurn, At, Labels, TypeOK
  <2>2. cur' \in [Controllers -> Units \union {0}]
    BY <1>5 DEF BeginTurn, TypeOK, At
  <2>3. why' \in [Controllers -> {"done", "retain", "cancel"}]
    BY <1>5 DEF BeginTurn, TypeOK, At
  <2> QED
    BY <1>5, <2>1, <2>2, <2>3 DEF BeginTurn, TypeOK, At
<1>6. CASE Reserve(c)
  <2>1. pc' \in [Controllers -> Labels]
    BY <1>6, GotoFacts DEF Reserve, At, Labels, TypeOK
  <2>2. spent' \in [Dimensions -> Nat]
    BY <1>6, InHandUnit, BudgetAssumption DEF Reserve, TypeOK, At,
       Chosen, Flying, Turning, Storing
  <2> QED
    BY <1>6, <2>1, <2>2 DEF Reserve, TypeOK, At
<1>7. CASE LockUnit(c)
  <2>1. pc' \in [Controllers -> Labels]
    BY <1>7, GotoFacts DEF LockUnit, At, Labels, TypeOK
  <2>2. unitLock' \in [Units -> Controllers \union {NoOne}]
    BY <1>7 DEF LockUnit, TypeOK, At
  <2>3. mem' \in [Controllers -> Queues]
    BY <1>7, InHandUnit, SetStateFacts DEF LockUnit, TypeOK, At, Chosen,
       Flying, Turning, Storing, States
  <2> QED
    BY <1>7, <2>1, <2>2, <2>3 DEF LockUnit, TypeOK, At
<1>8. CASE LockBusy(c)
  <2>1. pc' \in [Controllers -> Labels]
    BY <1>8, GotoFacts DEF LockBusy, At, Labels, TypeOK
  <2> QED
    BY <1>8, <2>1 DEF LockBusy, TypeOK, At
<1>9. CASE SaveInFlight(c)
  <2>1. pc' \in [Controllers -> Labels]
    BY <1>9, GotoFacts DEF SaveInFlight, At, Labels, TypeOK
  <2>2. disk' \in Queues
    BY <1>9 DEF SaveInFlight, TypeOK, At
  <2> QED
    BY <1>9, <2>1, <2>2 DEF SaveInFlight, TypeOK, At
<1>10. CASE TurnStarted(c)
  <2>1. pc' \in [Controllers -> Labels]
    BY <1>10, GotoFacts DEF TurnStarted, At, Labels, TypeOK
  <2>2. journal' \subseteq EventNames \X Units
    BY <1>10, InHandUnit DEF TurnStarted, TypeOK, At, Chosen, Flying,
       Turning, Storing, Log, EventNames
  <2> QED
    BY <1>10, <2>1, <2>2 DEF TurnStarted, TypeOK, At
<1>11. CASE LaunchTurn(c)
  <2>1. pc' \in [Controllers -> Labels]
    BY <1>11, GotoFacts DEF LaunchTurn, At, Labels, TypeOK
  <2>2. /\ artifact' \in [Units -> Digests \union {NoDigest}]
        /\ received' \subseteq Units \X Digests
    <3>1. cur[c] \in Units
      BY <1>11, InHandUnit DEF LaunchTurn, At, Chosen, Flying, Turning, Storing
    <3>2. PICK content \in Digests \union {artifact[cur[c]]} :
            /\ artifact' = [artifact EXCEPT ![cur[c]] = content]
            /\ received' = received \union ({cur[c]} \X ({content} \ {NoDigest}))
      BY <1>11 DEF LaunchTurn
    <3>3. content \in Digests \union {NoDigest}
      BY <3>1, <3>2 DEF TypeOK
    <3> QED
      BY <3>1, <3>2, <3>3 DEF TypeOK
  <2> QED
    BY <1>11, <2>1, <2>2 DEF LaunchTurn, TypeOK, At
<1>12. CASE UpdateRefs(c)
  <2>1. pc' \in [Controllers -> Labels]
    BY <1>12 DEF UpdateRefs, TypeOK
  <2>2. mem' \in [Controllers -> Queues] /\ disk' \in Queues
    <3>1. cur[c] \in Units /\ artifact[cur[c]] \in Digests
      BY <1>12, InHandUnit DEF UpdateRefs, TypeOK, At, Chosen, Flying,
         Turning, Storing
    <3> DEFINE entry == [mem[c][cur[c]] EXCEPT !.digest = artifact[cur[c]]]
    <3>2. entry \in [state : States, digest : Digests \union {NoDigest}]
      <4>1. mem[c] \in Queues
        BY DEF TypeOK
      <4> QED
        BY <3>1, <4>1 DEF Queues
    <3>3. [mem[c] EXCEPT ![cur[c]] = entry] \in Queues
      BY <3>1, <3>2 DEF TypeOK, Queues
    <3>4. mem' = [mem EXCEPT ![c] = [mem[c] EXCEPT ![cur[c]] = entry]]
      BY <1>12 DEF UpdateRefs
    <3> QED
      BY <1>12, <3>3, <3>4 DEF UpdateRefs, TypeOK
  <2>3. faults' \in 0 .. MaxFaults
    BY <1>12, BoundsAssumption DEF UpdateRefs, TypeOK
  <2> QED
    BY <1>12, <2>1, <2>2, <2>3 DEF UpdateRefs, TypeOK, At
<1>13. CASE TurnReturns(c)
  <2>1. pc' \in [Controllers -> Labels]
    BY <1>13, GotoFacts DEF TurnReturns, At, Labels, TypeOK
  <2> QED
    BY <1>13, <2>1 DEF TurnReturns, TypeOK, At
<1>14. CASE TurnRejected(c)
  <2>1. pc' \in [Controllers -> Labels]
    BY <1>14, GotoFacts DEF TurnRejected, At, Labels, TypeOK
  <2>2. why' \in [Controllers -> {"done", "retain", "cancel"}]
    BY <1>14 DEF TurnRejected, TypeOK, At
  <2> QED
    BY <1>14, <2>1, <2>2 DEF TurnRejected, TypeOK, At
<1>15. CASE CheckReceived(c)
  <2>1. pc' \in [Controllers -> Labels]
    BY <1>15, GotoFacts DEF CheckReceived, At, Labels, TypeOK
  <2>2. journal' \subseteq EventNames \X Units
    BY <1>15, InHandUnit DEF CheckReceived, TypeOK, At, Chosen, Flying,
       Turning, Storing, Log, EventNames
  <2> QED
    BY <1>15, <2>1, <2>2 DEF CheckReceived, TypeOK, At
<1>16. CASE OpenBatch(c)
  <2>1. pc' \in [Controllers -> Labels]
    BY <1>16, GotoFacts DEF OpenBatch, At, Labels, TypeOK
  <2>2. batch' \in [Units -> Batches]
    BY <1>16, InHandUnit, ZenonT(40) DEF OpenBatch, TypeOK, At, Chosen, Flying,
       Turning, Storing, Batches
  <2> QED
    BY <1>16, <2>1, <2>2 DEF OpenBatch, TypeOK, At
<1>17. CASE PublishEvidence(c)
  <2>1. pc' \in [Controllers -> Labels]
    BY <1>17, GotoFacts DEF PublishEvidence, At, Labels, TypeOK
  <2>2. batch' \in [Units -> Batches]
    <3>1. cur[c] \in Units
      BY <1>17, InHandUnit DEF PublishEvidence, At, Chosen, Flying,
         Turning, Storing
    <3>2. mem[c][cur[c]].digest \in Digests \union {NoDigest}
      BY <3>1 DEF TypeOK, Queues
    <3>3. [batch[cur[c]] EXCEPT !.evidence = mem[c][cur[c]].digest] \in Batches
      BY <3>1, <3>2 DEF TypeOK, Batches
    <3> QED
      BY <1>17, <3>1, <3>3 DEF PublishEvidence, TypeOK
  <2> QED
    BY <1>17, <2>1, <2>2 DEF PublishEvidence, TypeOK, At
<1>18. CASE PublishTask(c)
  <2>1. pc' \in [Controllers -> Labels]
    BY <1>18, GotoFacts DEF PublishTask, At, Labels, TypeOK
  <2>2. batch' \in [Units -> Batches]
    BY <1>18, InHandUnit, ZenonT(40) DEF PublishTask, TypeOK, At, Chosen, Flying,
       Turning, Storing, Batches
  <2> QED
    BY <1>18, <2>1, <2>2 DEF PublishTask, TypeOK, At
<1>19. CASE CloseBatch(c)
  <2>1. pc' \in [Controllers -> Labels]
    BY <1>19, GotoFacts DEF CloseBatch, At, Labels, TypeOK
  <2>2. batch' \in [Units -> Batches]
    BY <1>19, InHandUnit, ZenonT(40) DEF CloseBatch, TypeOK, At, Chosen, Flying,
       Turning, Storing, Batches
  <2> QED
    BY <1>19, <2>1, <2>2 DEF CloseBatch, TypeOK, At
<1>20. CASE PublishRejected(c)
  <2>1. pc' \in [Controllers -> Labels]
    BY <1>20, GotoFacts DEF PublishRejected, At, Labels, TypeOK
  <2>2. why' \in [Controllers -> {"done", "retain", "cancel"}]
    BY <1>20 DEF PublishRejected, TypeOK, At
  <2>3. faults' \in 0 .. MaxFaults
    BY <1>20, BoundsAssumption DEF PublishRejected, TypeOK
  <2> QED
    BY <1>20, <2>1, <2>2, <2>3 DEF PublishRejected, TypeOK, At
<1>21. CASE PublishedEvent(c)
  <2>1. pc' \in [Controllers -> Labels]
    BY <1>21, GotoFacts DEF PublishedEvent, At, Labels, TypeOK
  <2>2. journal' \subseteq EventNames \X Units
    BY <1>21, InHandUnit DEF PublishedEvent, TypeOK, At, Chosen, Flying,
       Turning, Storing, Log, EventNames
  <2> QED
    BY <1>21, <2>1, <2>2 DEF PublishedEvent, TypeOK, At
<1>22. CASE AppendMetric(c)
  <2>1. pc' \in [Controllers -> Labels]
    BY <1>22, GotoFacts DEF AppendMetric, At, Labels, TypeOK
  <2>2. metrics' \in MetricStates
    BY <1>22 DEF AppendMetric, TypeOK, At, MetricStates
  <2>3. metered' \in [Units -> Nat]
    BY <1>22, InHandUnit DEF AppendMetric, TypeOK, At, Chosen, Flying,
       Turning, Storing
  <2> QED
    BY <1>22, <2>1, <2>2, <2>3 DEF AppendMetric, TypeOK, At
<1>23. CASE MetricRaises(c)
  <2>1. pc' \in [Controllers -> Labels]
    BY <1>23, GotoFacts DEF MetricRaises, At, Labels, TypeOK
  <2> QED
    BY <1>23, <2>1 DEF MetricRaises, TypeOK, At
<1>24. CASE WriteHead(c)
  <2>1. pc' \in [Controllers -> Labels]
    BY <1>24, GotoFacts DEF WriteHead, At, Labels, TypeOK
  <2>2. metrics' \in MetricStates
    BY <1>24 DEF WriteHead, TypeOK, At, MetricStates
  <2> QED
    BY <1>24, <2>1, <2>2 DEF WriteHead, TypeOK, At
<1>25. CASE Episode(c)
  <2>1. pc' \in [Controllers -> Labels]
    BY <1>25, GotoFacts DEF Episode, At, Labels, TypeOK
  <2>2. episodes' \in [Units -> Nat]
    BY <1>25, InHandUnit DEF Episode, TypeOK, At, Chosen, Flying,
       Turning, Storing
  <2>3. mem' \in [Controllers -> Queues]
    BY <1>25, InHandUnit, SetStateFacts DEF Episode, TypeOK, At, Chosen,
       Flying, Turning, Storing, States
  <2> QED
    BY <1>25, <2>1, <2>2, <2>3 DEF Episode, TypeOK, At
<1>26. CASE SaveDone(c)
  <2>1. pc' \in [Controllers -> Labels]
    BY <1>26, GotoFacts DEF SaveDone, At, Labels, TypeOK
  <2>2. disk' \in Queues
    BY <1>26 DEF SaveDone, TypeOK, At
  <2> QED
    BY <1>26, <2>1, <2>2 DEF SaveDone, TypeOK, At
<1>27. CASE DoneEvent(c)
  <2>1. pc' \in [Controllers -> Labels]
    BY <1>27, GotoFacts DEF DoneEvent, At, Labels, TypeOK
  <2>2. journal' \subseteq EventNames \X Units
    BY <1>27, InHandUnit DEF DoneEvent, TypeOK, At, Chosen, Flying,
       Turning, Storing, Log, EventNames
  <2>3. unitLock' \in [Units -> Controllers \union {NoOne}]
    BY <1>27 DEF DoneEvent, TypeOK, At
  <2> QED
    BY <1>27, <2>1, <2>2, <2>3 DEF DoneEvent, TypeOK, At
<1>28. CASE Decide(c)
  <2>1. pc' \in [Controllers -> Labels]
    BY <1>28, GotoFacts DEF Decide, At, Labels, TypeOK
  <2>2. decided' \in [Units -> Nat]
    BY <1>28, InHandUnit DEF Decide, TypeOK, At, Chosen, Flying, Turning,
       Storing
  <2>3. mem' \in [Controllers -> Queues]
    BY <1>28, InHandUnit, SetStateFacts DEF Decide, TypeOK, At, Chosen,
       Flying, Turning, Storing, States
  <2> QED
    BY <1>28, <2>1, <2>2, <2>3 DEF Decide, TypeOK, At
<1>29. CASE SaveRetained(c)
  <2>1. pc' \in [Controllers -> Labels]
    BY <1>29, GotoFacts DEF SaveRetained, At, Labels, TypeOK
  <2>2. disk' \in Queues
    BY <1>29 DEF SaveRetained, TypeOK, At
  <2> QED
    BY <1>29, <2>1, <2>2 DEF SaveRetained, TypeOK, At
<1>30. CASE RetainedEvent(c)
  <2>1. pc' \in [Controllers -> Labels]
    BY <1>30, GotoFacts DEF RetainedEvent, At, Labels, TypeOK, CloseLocks
  <2>2. journal' \subseteq EventNames \X Units
    BY <1>30, InHandUnit DEF RetainedEvent, TypeOK, At, Chosen, Flying,
       Turning, Storing, Log, EventNames
  <2>3. unitLock' \in [Units -> Controllers \union {NoOne}] /\ holder' \in Controllers \union {NoOne}
    BY <1>30 DEF RetainedEvent, TypeOK, At, CloseLocks
  <2>4. mem' \in [Controllers -> Queues]
    BY <1>30, EmptyQueueType DEF RetainedEvent, TypeOK, At, CloseLocks
  <2> QED
    BY <1>30, <2>1, <2>2, <2>3, <2>4 DEF RetainedEvent, TypeOK, At, CloseLocks
<1>31. CASE Cancel(c)
  <2>1. pc' \in [Controllers -> Labels]
    BY <1>31, GotoFacts DEF Cancel, At, Labels, TypeOK, CloseLocks
  <2>2. cur' \in [Controllers -> Units \union {0}] /\ why' \in [Controllers -> {"done", "retain", "cancel"}]
    BY <1>31 DEF Cancel, TypeOK, At, InFlight
  <2>3. unitLock' \in [Units -> Controllers \union {NoOne}] /\ holder' \in Controllers \union {NoOne}
    BY <1>31 DEF Cancel, TypeOK, At, CloseLocks
  <2>4. mem' \in [Controllers -> Queues]
    BY <1>31, EmptyQueueType DEF Cancel, TypeOK, At, CloseLocks
  <2> QED
    BY <1>31, <2>1, <2>2, <2>3, <2>4 DEF Cancel, TypeOK, At, CloseLocks
<1>32. CASE Reconcile(c)
  <2>1. pc' \in [Controllers -> Labels]
    BY <1>32, GotoFacts DEF Reconcile, At, Labels, TypeOK
  <2>2. mem' \in [Controllers -> Queues]
    <3> DEFINE queue == [u \in Units |-> IF mem[c][u].state = "IN_FLIGHT"
                                         THEN [mem[c][u] EXCEPT !.state = "PENDING"]
                                         ELSE mem[c][u]]
    <3>1. \A u \in Units : queue[u] \in [state : States, digest : Digests \union {NoDigest}]
      <4>1. mem[c] \in Queues
        BY DEF TypeOK
      <4> QED
        BY <4>1 DEF Queues, States
    <3>2. queue \in Queues
      BY <3>1 DEF Queues
    <3> QED
      BY <1>32, <3>2 DEF Reconcile, TypeOK
  <2> QED
    BY <1>32, <2>1, <2>2 DEF Reconcile, TypeOK, At
<1>33. CASE SavePending(c)
  <2>1. pc' \in [Controllers -> Labels]
    BY <1>33, GotoFacts DEF SavePending, At, Labels, TypeOK
  <2>2. disk' \in Queues
    BY <1>33 DEF SavePending, TypeOK, At
  <2> QED
    BY <1>33, <2>1, <2>2 DEF SavePending, TypeOK, At
<1>34. CASE Crash(c)
  <2>1. pc' \in [Controllers -> Labels]
    BY <1>34, GotoFacts DEF Crash, At, Labels, TypeOK, CloseLocks
  <2>2. unitLock' \in [Units -> Controllers \union {NoOne}] /\ holder' \in Controllers \union {NoOne}
    BY <1>34, BoundsAssumption DEF Crash, TypeOK, CloseLocks
  <2>3. mem' \in [Controllers -> Queues]
    BY <1>34, EmptyQueueType DEF Crash, TypeOK, At, CloseLocks
  <2>4. /\ mandate' \in {"none", "ledger", "torn", "registered"}
        /\ crashes' \in 0 .. MaxCrashes
        /\ metrics' \in MetricStates
    BY <1>34, BoundsAssumption DEF Crash, TypeOK, TornMetrics, MetricStates
  <2> QED
    BY <1>34, <2>1, <2>2, <2>3, <2>4 DEF Crash, TypeOK, At, CloseLocks
<1>35. CASE Fault(c)
  <2>1. pc' \in [Controllers -> Labels]
    BY <1>35, GotoFacts DEF Fault, At, Labels, TypeOK
  <2>2. unitLock' \in [Units -> Controllers \union {NoOne}]
    BY <1>35 DEF Fault, TypeOK, At
  <2>3. /\ mandate' \in {"none", "ledger", "torn", "registered"}
        /\ faults' \in 0 .. MaxFaults
        /\ metrics' \in MetricStates
    BY <1>35, BoundsAssumption DEF Fault, TypeOK, TornMetrics, MetricStates
  <2> QED
    BY <1>35, <2>1, <2>2, <2>3 DEF Fault, TypeOK, At
<1> QED
  BY <1>1, <1>2, <1>3, <1>4, <1>5, <1>6, <1>7, <1>8, <1>9, <1>10, <1>11,
     <1>12, <1>13, <1>14, <1>15, <1>16, <1>17, <1>18, <1>19, <1>20, <1>21,
     <1>22, <1>23, <1>24, <1>25, <1>26, <1>27, <1>28, <1>29, <1>30, <1>31,
     <1>32, <1>33, <1>34, <1>35 DEF Step, Opening, Launching,
     Publishing, Closing, Recovering

\* _lock_unit puts the unit in hand in flight, in one memory, and changes nothing else there.
LEMMA LockUnitFacts ==
  ASSUME TypeOK, InHand, NEW c \in Controllers, LockUnit(c)
  PROVE  /\ cur[c] \in Units
         /\ mem'[c][cur[c]].state = "IN_FLIGHT"
         /\ mem'[c][cur[c]].digest = mem[c][cur[c]].digest
         /\ \A v \in Units : v # cur[c] => mem'[c][v] = mem[c][v]
         /\ \A o \in Controllers : o # c => mem'[o] = mem[o]
<1>1. cur[c] \in Units
  BY InHandUnit DEF LockUnit, At, Chosen, Flying, Turning, Storing
<1>2. SetState(c, cur[c], "IN_FLIGHT")
  BY DEF LockUnit
<1>3. mem \in [Controllers -> Queues]
  BY DEF TypeOK
<1> QED
  BY <1>1, <1>2, <1>3, SetStateFacts DEF States

\* A recorded unit is done, in one memory, and changes nothing else there.
LEMMA EpisodeFacts ==
  ASSUME TypeOK, InHand, NEW c \in Controllers, Episode(c)
  PROVE  /\ cur[c] \in Units
         /\ mem'[c][cur[c]].state = "DONE"
         /\ mem'[c][cur[c]].digest = mem[c][cur[c]].digest
         /\ \A v \in Units : v # cur[c] => mem'[c][v] = mem[c][v]
         /\ \A o \in Controllers : o # c => mem'[o] = mem[o]
<1>1. cur[c] \in Units
  BY InHandUnit DEF Episode, At, Chosen, Flying, Turning, Storing
<1>2. SetState(c, cur[c], "DONE")
  BY DEF Episode
<1>3. mem \in [Controllers -> Queues]
  BY DEF TypeOK
<1> QED
  BY <1>1, <1>2, <1>3, SetStateFacts DEF States

\* A decided unit is retained, in one memory, and changes nothing else there.
LEMMA DecideFacts ==
  ASSUME TypeOK, InHand, NEW c \in Controllers, Decide(c)
  PROVE  /\ cur[c] \in Units
         /\ mem'[c][cur[c]].state = "RETAINED"
         /\ mem'[c][cur[c]].digest = mem[c][cur[c]].digest
         /\ \A v \in Units : v # cur[c] => mem'[c][v] = mem[c][v]
         /\ \A o \in Controllers : o # c => mem'[o] = mem[o]
<1>1. cur[c] \in Units
  BY InHandUnit DEF Decide, At, Chosen, Flying, Turning, Storing
<1>2. SetState(c, cur[c], "RETAINED")
  BY DEF Decide
<1>3. mem \in [Controllers -> Queues]
  BY DEF TypeOK
<1> QED
  BY <1>1, <1>2, <1>3, SetStateFacts DEF States

\* The global lock keeps its meaning: only its holder is live.
LEMMA ExclusiveStep ==
  ASSUME TypeOK, Exclusive, [Next]_vars
  PROVE  Exclusive'
<1> USE ControllersAssumption DEF queueVars, storeVars, memoryVars,
   lockVars, ctlVars, envVars, TypeOK, Exclusive, At, Goto
<1> SUFFICES ASSUME NEW c \in Controllers, Step(c) PROVE Exclusive'
  BY DEF Next, vars
<1>1. CASE Start(c) BY <1>1 DEF Start
<1>2. CASE RegisterLedger(c) BY <1>2 DEF RegisterLedger
<1>3. CASE RegisterMission(c) BY <1>3 DEF RegisterMission
<1>4. CASE Enqueue(c) BY <1>4 DEF Enqueue
<1>5. CASE BeginTurn(c) BY <1>5 DEF BeginTurn
<1>6. CASE Reserve(c) BY <1>6 DEF Reserve
<1>7. CASE LockUnit(c) BY <1>7 DEF LockUnit
<1>8. CASE LockBusy(c) BY <1>8 DEF LockBusy
<1>9. CASE SaveInFlight(c) BY <1>9 DEF SaveInFlight
<1>10. CASE TurnStarted(c) BY <1>10 DEF TurnStarted
<1>11. CASE LaunchTurn(c) BY <1>11 DEF LaunchTurn
<1>12. CASE UpdateRefs(c) BY <1>12 DEF UpdateRefs
<1>13. CASE TurnReturns(c) BY <1>13 DEF TurnReturns
<1>14. CASE TurnRejected(c) BY <1>14 DEF TurnRejected
<1>15. CASE CheckReceived(c) BY <1>15 DEF CheckReceived
<1>16. CASE OpenBatch(c) BY <1>16 DEF OpenBatch
<1>17. CASE PublishEvidence(c) BY <1>17 DEF PublishEvidence
<1>18. CASE PublishTask(c) BY <1>18 DEF PublishTask
<1>19. CASE CloseBatch(c) BY <1>19 DEF CloseBatch
<1>20. CASE PublishRejected(c) BY <1>20 DEF PublishRejected
<1>21. CASE PublishedEvent(c) BY <1>21 DEF PublishedEvent
<1>22. CASE AppendMetric(c) BY <1>22 DEF AppendMetric
<1>23. CASE MetricRaises(c) BY <1>23 DEF MetricRaises
<1>24. CASE WriteHead(c) BY <1>24 DEF WriteHead
<1>25. CASE Episode(c) BY <1>25 DEF Episode
<1>26. CASE SaveDone(c) BY <1>26 DEF SaveDone
<1>27. CASE DoneEvent(c) BY <1>27 DEF DoneEvent
<1>28. CASE Decide(c) BY <1>28 DEF Decide
<1>29. CASE SaveRetained(c) BY <1>29 DEF SaveRetained
<1>30. CASE RetainedEvent(c) BY <1>30 DEF RetainedEvent, CloseLocks
<1>31. CASE Cancel(c) BY <1>31 DEF Cancel, CloseLocks
<1>32. CASE Reconcile(c) BY <1>32 DEF Reconcile
<1>33. CASE SavePending(c) BY <1>33 DEF SavePending
<1>34. CASE Crash(c) BY <1>34 DEF Crash, CloseLocks
<1>35. CASE Fault(c) BY <1>35 DEF Fault
<1> QED
  BY <1>1, <1>2, <1>3, <1>4, <1>5, <1>6, <1>7, <1>8, <1>9, <1>10, <1>11,
     <1>12, <1>13, <1>14, <1>15, <1>16, <1>17, <1>18, <1>19, <1>20, <1>21,
     <1>22, <1>23, <1>24, <1>25, <1>26, <1>27, <1>28, <1>29, <1>30, <1>31,
     <1>32, <1>33, <1>34, <1>35 DEF Step, Opening, Launching,
     Publishing, Closing, Recovering

\* The unit in hand is where its phase says.
LEMMA InHandStep ==
  ASSUME TypeOK, Exclusive, InHand, [Next]_vars
  PROVE  InHand'
<1> USE ControllersAssumption DEF queueVars, storeVars, memoryVars,
   lockVars, ctlVars, envVars, TypeOK, Exclusive, InHand, At, Goto, Chosen,
   Flying, Turning, Storing
<1> SUFFICES ASSUME NEW c \in Controllers, Step(c) PROVE InHand'
  BY DEF Next, vars
<1>1. CASE Start(c) BY <1>1 DEF Start
<1>2. CASE RegisterLedger(c) BY <1>2 DEF RegisterLedger
<1>3. CASE RegisterMission(c) BY <1>3 DEF RegisterMission
<1>4. CASE Enqueue(c) BY <1>4 DEF Enqueue
<1>5. CASE BeginTurn(c) BY <1>5 DEF BeginTurn, NextPending
<1>6. CASE Reserve(c) BY <1>6 DEF Reserve
<1>7. CASE LockUnit(c)
  <2>1. /\ cur[c] \in Units
        /\ mem'[c][cur[c]].state = "IN_FLIGHT"
        /\ mem'[c][cur[c]].digest = mem[c][cur[c]].digest
        /\ \A v \in Units : v # cur[c] => mem'[c][v] = mem[c][v]
        /\ \A o \in Controllers : o # c => mem'[o] = mem[o]
    BY <1>7, LockUnitFacts
  <2> QED
    BY <1>7, <2>1 DEF LockUnit
<1>8. CASE LockBusy(c) BY <1>8 DEF LockBusy
<1>9. CASE SaveInFlight(c) BY <1>9 DEF SaveInFlight
<1>10. CASE TurnStarted(c) BY <1>10 DEF TurnStarted
<1>11. CASE LaunchTurn(c) BY <1>11 DEF LaunchTurn
<1>12. CASE UpdateRefs(c)
  <2>1. /\ cur[c] \in Units
        /\ mem'[c][cur[c]].state = mem[c][cur[c]].state
        /\ \A v \in Units : v # cur[c] => mem'[c][v] = mem[c][v]
        /\ \A o \in Controllers : o # c => mem'[o] = mem[o]
        /\ disk' \in {disk, mem'[c]}
    BY <1>12, UpdateRefsFacts
  <2>2. pc[c] = "wrote" /\ UNCHANGED <<pc, cur, why>>
    BY <1>12 DEF UpdateRefs
  <2> HIDE DEF TypeOK
  <2> QED
    BY <2>1, <2>2
<1>13. CASE TurnReturns(c) BY <1>13 DEF TurnReturns
<1>14. CASE TurnRejected(c) BY <1>14 DEF TurnRejected
<1>15. CASE CheckReceived(c) BY <1>15 DEF CheckReceived
<1>16. CASE OpenBatch(c) BY <1>16 DEF OpenBatch
<1>17. CASE PublishEvidence(c) BY <1>17 DEF PublishEvidence
<1>18. CASE PublishTask(c) BY <1>18 DEF PublishTask
<1>19. CASE CloseBatch(c) BY <1>19 DEF CloseBatch
<1>20. CASE PublishRejected(c) BY <1>20 DEF PublishRejected
<1>21. CASE PublishedEvent(c) BY <1>21 DEF PublishedEvent
<1>22. CASE AppendMetric(c) BY <1>22 DEF AppendMetric
<1>23. CASE MetricRaises(c) BY <1>23 DEF MetricRaises
<1>24. CASE WriteHead(c) BY <1>24 DEF WriteHead
<1>25. CASE Episode(c)
  <2>1. /\ cur[c] \in Units
        /\ mem'[c][cur[c]].state = "DONE"
        /\ mem'[c][cur[c]].digest = mem[c][cur[c]].digest
        /\ \A v \in Units : v # cur[c] => mem'[c][v] = mem[c][v]
        /\ \A o \in Controllers : o # c => mem'[o] = mem[o]
    BY <1>25, EpisodeFacts
  <2> QED
    BY <1>25, <2>1 DEF Episode
<1>26. CASE SaveDone(c) BY <1>26 DEF SaveDone
<1>27. CASE DoneEvent(c) BY <1>27 DEF DoneEvent
<1>28. CASE Decide(c)
  <2>1. /\ cur[c] \in Units
        /\ mem'[c][cur[c]].state = "RETAINED"
        /\ mem'[c][cur[c]].digest = mem[c][cur[c]].digest
        /\ \A v \in Units : v # cur[c] => mem'[c][v] = mem[c][v]
        /\ \A o \in Controllers : o # c => mem'[o] = mem[o]
    BY <1>28, DecideFacts
  <2> QED
    BY <1>28, <2>1 DEF Decide
<1>29. CASE SaveRetained(c) BY <1>29 DEF SaveRetained
<1>30. CASE RetainedEvent(c) BY <1>30 DEF RetainedEvent, CloseLocks
<1>31. CASE Cancel(c) BY <1>31 DEF Cancel, InFlight, CloseLocks
<1>32. CASE Reconcile(c) BY <1>32 DEF Reconcile
<1>33. CASE SavePending(c) BY <1>33 DEF SavePending
<1>34. CASE Crash(c) BY <1>34 DEF Crash, CloseLocks
<1>35. CASE Fault(c) BY <1>35 DEF Fault
<1> QED
  BY <1>1, <1>2, <1>3, <1>4, <1>5, <1>6, <1>7, <1>8, <1>9, <1>10, <1>11,
     <1>12, <1>13, <1>14, <1>15, <1>16, <1>17, <1>18, <1>19, <1>20, <1>21,
     <1>22, <1>23, <1>24, <1>25, <1>26, <1>27, <1>28, <1>29, <1>30, <1>31,
     <1>32, <1>33, <1>34, <1>35 DEF Step, Opening, Launching,
     Publishing, Closing, Recovering

\* What was checked still fits when it is written, so the limits hold; what is
\* launched was paid before.
LEMMA BudgetStep ==
  ASSUME TypeOK, Exclusive, InHand, Paid, WithinBudget, EveryLaunchPaid, [Next]_vars
  PROVE  Paid' /\ WithinBudget' /\ EveryLaunchPaid'
<1> USE ControllersAssumption, BudgetAssumption DEF queueVars, storeVars,
   memoryVars, lockVars, ctlVars, envVars, TypeOK, Exclusive, Paid,
   WithinBudget, EveryLaunchPaid, Fits, At, Goto
<1> SUFFICES ASSUME NEW c \in Controllers, Step(c) PROVE Paid' /\ WithinBudget' /\ EveryLaunchPaid'
  BY DEF Next, vars
<1>1. CASE Start(c) BY <1>1 DEF Start
<1>2. CASE RegisterLedger(c) BY <1>2 DEF RegisterLedger
<1>3. CASE RegisterMission(c) BY <1>3 DEF RegisterMission
<1>4. CASE Enqueue(c) BY <1>4 DEF Enqueue
<1>5. CASE BeginTurn(c) BY <1>5 DEF BeginTurn
<1>6. CASE Reserve(c)
  BY <1>6, InHandUnit DEF Reserve, Chosen, Flying, Turning, Storing
<1>7. CASE LockUnit(c) BY <1>7 DEF LockUnit
<1>8. CASE LockBusy(c) BY <1>8 DEF LockBusy
<1>9. CASE SaveInFlight(c) BY <1>9 DEF SaveInFlight
<1>10. CASE TurnStarted(c) BY <1>10 DEF TurnStarted
<1>11. CASE LaunchTurn(c) BY <1>11, SMTT(30) DEF LaunchTurn
<1>12. CASE UpdateRefs(c) BY <1>12 DEF UpdateRefs
<1>13. CASE TurnReturns(c) BY <1>13 DEF TurnReturns
<1>14. CASE TurnRejected(c) BY <1>14 DEF TurnRejected
<1>15. CASE CheckReceived(c) BY <1>15 DEF CheckReceived
<1>16. CASE OpenBatch(c) BY <1>16 DEF OpenBatch
<1>17. CASE PublishEvidence(c) BY <1>17 DEF PublishEvidence
<1>18. CASE PublishTask(c) BY <1>18 DEF PublishTask
<1>19. CASE CloseBatch(c) BY <1>19 DEF CloseBatch
<1>20. CASE PublishRejected(c) BY <1>20 DEF PublishRejected
<1>21. CASE PublishedEvent(c) BY <1>21 DEF PublishedEvent
<1>22. CASE AppendMetric(c) BY <1>22 DEF AppendMetric
<1>23. CASE MetricRaises(c) BY <1>23 DEF MetricRaises
<1>24. CASE WriteHead(c) BY <1>24 DEF WriteHead
<1>25. CASE Episode(c) BY <1>25 DEF Episode
<1>26. CASE SaveDone(c) BY <1>26 DEF SaveDone
<1>27. CASE DoneEvent(c) BY <1>27 DEF DoneEvent
<1>28. CASE Decide(c) BY <1>28 DEF Decide
<1>29. CASE SaveRetained(c) BY <1>29 DEF SaveRetained
<1>30. CASE RetainedEvent(c) BY <1>30 DEF RetainedEvent, CloseLocks
<1>31. CASE Cancel(c) BY <1>31 DEF Cancel, CloseLocks
<1>32. CASE Reconcile(c) BY <1>32 DEF Reconcile
<1>33. CASE SavePending(c) BY <1>33 DEF SavePending
<1>34. CASE Crash(c) BY <1>34 DEF Crash, CloseLocks
<1>35. CASE Fault(c) BY <1>35 DEF Fault
<1> QED
  BY <1>1, <1>2, <1>3, <1>4, <1>5, <1>6, <1>7, <1>8, <1>9, <1>10, <1>11,
     <1>12, <1>13, <1>14, <1>15, <1>16, <1>17, <1>18, <1>19, <1>20, <1>21,
     <1>22, <1>23, <1>24, <1>25, <1>26, <1>27, <1>28, <1>29, <1>30, <1>31,
     <1>32, <1>33, <1>34, <1>35 DEF Step, Opening, Launching,
     Publishing, Closing, Recovering

\* No memory calls a unit closed before the stores can back it.
LEMMA MemoryBackedStep ==
  ASSUME TypeOK, Exclusive, InHand, MemoryBacked, ClosureBacked, [Next]_vars
  PROVE  MemoryBacked'
<1> USE ControllersAssumption DEF queueVars, storeVars, memoryVars,
   lockVars, ctlVars, envVars, TypeOK, Exclusive, InHand, MemoryBacked,
   Metered, At, Goto, Chosen, Flying, Turning, Storing
<1> SUFFICES ASSUME NEW c \in Controllers, Step(c) PROVE MemoryBacked'
  BY DEF Next, vars
<1>1. CASE Start(c) BY <1>1 DEF Start, ClosureBacked
<1>2. CASE RegisterLedger(c) BY <1>2 DEF RegisterLedger
<1>3. CASE RegisterMission(c) BY <1>3 DEF RegisterMission
<1>4. CASE Enqueue(c) BY <1>4 DEF Enqueue
<1>5. CASE BeginTurn(c) BY <1>5 DEF BeginTurn
<1>6. CASE Reserve(c) BY <1>6 DEF Reserve
<1>7. CASE LockUnit(c)
  <2>1. /\ cur[c] \in Units
        /\ mem'[c][cur[c]].state = "IN_FLIGHT"
        /\ mem'[c][cur[c]].digest = mem[c][cur[c]].digest
        /\ \A v \in Units : v # cur[c] => mem'[c][v] = mem[c][v]
        /\ \A o \in Controllers : o # c => mem'[o] = mem[o]
    BY <1>7, LockUnitFacts
  <2>2. /\ UNCHANGED <<batch, metrics, metered, decided, cur, why>>
        /\ pc \in [Controllers -> Labels]
        /\ Goto(c, "save_flight")
    BY <1>7 DEF LockUnit
  <2> HIDE DEF TypeOK, Goto
  <2> QED
    BY <2>1, <2>2, GotoFacts DEF Labels
<1>8. CASE LockBusy(c) BY <1>8 DEF LockBusy
<1>9. CASE SaveInFlight(c) BY <1>9 DEF SaveInFlight
<1>10. CASE TurnStarted(c) BY <1>10 DEF TurnStarted
<1>11. CASE LaunchTurn(c) BY <1>11 DEF LaunchTurn
<1>12. CASE UpdateRefs(c) BY <1>12 DEF UpdateRefs
<1>13. CASE TurnReturns(c) BY <1>13 DEF TurnReturns
<1>14. CASE TurnRejected(c) BY <1>14 DEF TurnRejected
<1>15. CASE CheckReceived(c) BY <1>15 DEF CheckReceived
<1>16. CASE OpenBatch(c) BY <1>16 DEF OpenBatch
<1>17. CASE PublishEvidence(c) BY <1>17 DEF PublishEvidence
<1>18. CASE PublishTask(c) BY <1>18 DEF PublishTask
<1>19. CASE CloseBatch(c) BY <1>19 DEF CloseBatch
<1>20. CASE PublishRejected(c) BY <1>20 DEF PublishRejected
<1>21. CASE PublishedEvent(c) BY <1>21 DEF PublishedEvent
<1>22. CASE AppendMetric(c) BY <1>22 DEF AppendMetric
<1>23. CASE MetricRaises(c) BY <1>23 DEF MetricRaises
<1>24. CASE WriteHead(c) BY <1>24 DEF WriteHead
<1>25. CASE Episode(c)
  <2>1. /\ cur[c] \in Units
        /\ mem'[c][cur[c]].state = "DONE"
        /\ mem'[c][cur[c]].digest = mem[c][cur[c]].digest
        /\ \A v \in Units : v # cur[c] => mem'[c][v] = mem[c][v]
        /\ \A o \in Controllers : o # c => mem'[o] = mem[o]
    BY <1>25, EpisodeFacts
  <2> QED
    BY <1>25, <2>1 DEF Episode
<1>26. CASE SaveDone(c) BY <1>26 DEF SaveDone
<1>27. CASE DoneEvent(c) BY <1>27 DEF DoneEvent
<1>28. CASE Decide(c)
  <2>1. /\ cur[c] \in Units
        /\ mem'[c][cur[c]].state = "RETAINED"
        /\ mem'[c][cur[c]].digest = mem[c][cur[c]].digest
        /\ \A v \in Units : v # cur[c] => mem'[c][v] = mem[c][v]
        /\ \A o \in Controllers : o # c => mem'[o] = mem[o]
    BY <1>28, DecideFacts
  <2> QED
    BY <1>28, <2>1 DEF Decide
<1>29. CASE SaveRetained(c) BY <1>29 DEF SaveRetained
<1>30. CASE RetainedEvent(c) BY <1>30 DEF RetainedEvent, EmptyQueue, CloseLocks
<1>31. CASE Cancel(c) BY <1>31 DEF Cancel, EmptyQueue, CloseLocks
<1>32. CASE Reconcile(c) BY <1>32 DEF Reconcile
<1>33. CASE SavePending(c) BY <1>33 DEF SavePending
<1>34. CASE Crash(c) BY <1>34 DEF Crash, EmptyQueue, CloseLocks, TornMetrics
<1>35. CASE Fault(c) BY <1>35 DEF Fault, TornMetrics
<1> QED
  BY <1>1, <1>2, <1>3, <1>4, <1>5, <1>6, <1>7, <1>8, <1>9, <1>10, <1>11,
     <1>12, <1>13, <1>14, <1>15, <1>16, <1>17, <1>18, <1>19, <1>20, <1>21,
     <1>22, <1>23, <1>24, <1>25, <1>26, <1>27, <1>28, <1>29, <1>30, <1>31,
     <1>32, <1>33, <1>34, <1>35 DEF Step, Opening, Launching,
     Publishing, Closing, Recovering

\* The memory stays one legal move from the file.
LEMMA MemoryFollowsStep ==
  ASSUME TypeOK, Exclusive, InHand, MemoryFollows, [Next]_vars
  PROVE  MemoryFollows'
<1> USE ControllersAssumption DEF queueVars, storeVars, memoryVars,
   lockVars, ctlVars, envVars, TypeOK, Exclusive, InHand, MemoryFollows,
   Abs!Lifecycle, Closed, At, Goto, Chosen, Flying, Turning, Storing
<1> SUFFICES ASSUME NEW c \in Controllers, Step(c) PROVE MemoryFollows'
  BY DEF Next, vars
<1>1. CASE Start(c) BY <1>1 DEF Start
<1>2. CASE RegisterLedger(c) BY <1>2 DEF RegisterLedger
<1>3. CASE RegisterMission(c) BY <1>3 DEF RegisterMission
<1>4. CASE Enqueue(c) BY <1>4 DEF Enqueue
<1>5. CASE BeginTurn(c) BY <1>5 DEF BeginTurn
<1>6. CASE Reserve(c) BY <1>6 DEF Reserve
<1>7. CASE LockUnit(c)
  <2>1. /\ cur[c] \in Units
        /\ mem'[c][cur[c]].state = "IN_FLIGHT"
        /\ mem'[c][cur[c]].digest = mem[c][cur[c]].digest
        /\ \A v \in Units : v # cur[c] => mem'[c][v] = mem[c][v]
        /\ \A o \in Controllers : o # c => mem'[o] = mem[o]
    BY <1>7, LockUnitFacts
  <2> QED
    BY <1>7, <2>1, SMTT(30) DEF LockUnit
<1>8. CASE LockBusy(c) BY <1>8 DEF LockBusy
<1>9. CASE SaveInFlight(c) BY <1>9 DEF SaveInFlight
<1>10. CASE TurnStarted(c) BY <1>10 DEF TurnStarted
<1>11. CASE LaunchTurn(c) BY <1>11 DEF LaunchTurn
<1>12. CASE UpdateRefs(c)
  <2>1. /\ cur[c] \in Units
        /\ mem'[c][cur[c]].state = mem[c][cur[c]].state
        /\ \A v \in Units : v # cur[c] => mem'[c][v] = mem[c][v]
        /\ \A o \in Controllers : o # c => mem'[o] = mem[o]
        /\ disk' \in {disk, mem'[c]}
    BY <1>12, UpdateRefsFacts
  <2>2. pc[c] = "wrote" /\ UNCHANGED <<pc, cur>>
    BY <1>12 DEF UpdateRefs
  <2> HIDE DEF TypeOK
  <2> QED
    BY <2>1, <2>2
<1>13. CASE TurnReturns(c) BY <1>13 DEF TurnReturns
<1>14. CASE TurnRejected(c) BY <1>14 DEF TurnRejected
<1>15. CASE CheckReceived(c) BY <1>15 DEF CheckReceived
<1>16. CASE OpenBatch(c) BY <1>16 DEF OpenBatch
<1>17. CASE PublishEvidence(c) BY <1>17 DEF PublishEvidence
<1>18. CASE PublishTask(c) BY <1>18 DEF PublishTask
<1>19. CASE CloseBatch(c) BY <1>19 DEF CloseBatch
<1>20. CASE PublishRejected(c) BY <1>20 DEF PublishRejected
<1>21. CASE PublishedEvent(c) BY <1>21 DEF PublishedEvent
<1>22. CASE AppendMetric(c) BY <1>22 DEF AppendMetric
<1>23. CASE MetricRaises(c) BY <1>23 DEF MetricRaises
<1>24. CASE WriteHead(c) BY <1>24 DEF WriteHead
<1>25. CASE Episode(c)
  <2>1. /\ cur[c] \in Units
        /\ mem'[c][cur[c]].state = "DONE"
        /\ mem'[c][cur[c]].digest = mem[c][cur[c]].digest
        /\ \A v \in Units : v # cur[c] => mem'[c][v] = mem[c][v]
        /\ \A o \in Controllers : o # c => mem'[o] = mem[o]
    BY <1>25, EpisodeFacts
  <2> QED
    BY <1>25, <2>1 DEF Episode
<1>26. CASE SaveDone(c) BY <1>26 DEF SaveDone
<1>27. CASE DoneEvent(c) BY <1>27 DEF DoneEvent
<1>28. CASE Decide(c)
  <2>1. /\ cur[c] \in Units
        /\ mem'[c][cur[c]].state = "RETAINED"
        /\ mem'[c][cur[c]].digest = mem[c][cur[c]].digest
        /\ \A v \in Units : v # cur[c] => mem'[c][v] = mem[c][v]
        /\ \A o \in Controllers : o # c => mem'[o] = mem[o]
    BY <1>28, DecideFacts
  <2> QED
    BY <1>28, <2>1, SMTT(30) DEF Decide
<1>29. CASE SaveRetained(c) BY <1>29 DEF SaveRetained
<1>30. CASE RetainedEvent(c) BY <1>30 DEF RetainedEvent, CloseLocks
<1>31. CASE Cancel(c) BY <1>31 DEF Cancel, CloseLocks
<1>32. CASE Reconcile(c) BY <1>32 DEF Reconcile
<1>33. CASE SavePending(c) BY <1>33 DEF SavePending
<1>34. CASE Crash(c) BY <1>34 DEF Crash, CloseLocks
<1>35. CASE Fault(c) BY <1>35 DEF Fault
<1> QED
  BY <1>1, <1>2, <1>3, <1>4, <1>5, <1>6, <1>7, <1>8, <1>9, <1>10, <1>11,
     <1>12, <1>13, <1>14, <1>15, <1>16, <1>17, <1>18, <1>19, <1>20, <1>21,
     <1>22, <1>23, <1>24, <1>25, <1>26, <1>27, <1>28, <1>29, <1>30, <1>31,
     <1>32, <1>33, <1>34, <1>35 DEF Step, Opening, Launching,
     Publishing, Closing, Recovering

\* A second unit never joins the one in flight.
LEMMA AloneStep ==
  ASSUME TypeOK, Exclusive, InHand, AloneInFlight, [Next]_vars
  PROVE  AloneInFlight'
<1> USE ControllersAssumption DEF queueVars, storeVars, memoryVars,
   lockVars, ctlVars, envVars, TypeOK, Exclusive, InHand, AloneInFlight,
   InFlight, At, Goto, Chosen, Flying, Turning, Storing
<1> SUFFICES ASSUME NEW c \in Controllers, Step(c) PROVE AloneInFlight'
  BY DEF Next, vars
<1>1. CASE Start(c) BY <1>1 DEF Start
<1>2. CASE RegisterLedger(c) BY <1>2 DEF RegisterLedger
<1>3. CASE RegisterMission(c) BY <1>3 DEF RegisterMission
<1>4. CASE Enqueue(c) BY <1>4 DEF Enqueue
<1>5. CASE BeginTurn(c) BY <1>5 DEF BeginTurn
<1>6. CASE Reserve(c) BY <1>6 DEF Reserve
<1>7. CASE LockUnit(c)
  <2>1. /\ cur[c] \in Units
        /\ mem'[c][cur[c]].state = "IN_FLIGHT"
        /\ mem'[c][cur[c]].digest = mem[c][cur[c]].digest
        /\ \A v \in Units : v # cur[c] => mem'[c][v] = mem[c][v]
        /\ \A o \in Controllers : o # c => mem'[o] = mem[o]
    BY <1>7, LockUnitFacts
  <2>2. /\ disk' = disk
        /\ pc \in [Controllers -> Labels]
        /\ pc[c] = "lock" /\ Goto(c, "save_flight")
    BY <1>7 DEF LockUnit
  <2> HIDE DEF TypeOK, Goto
  <2> QED
    BY <2>1, <2>2, GotoFacts DEF Labels
<1>8. CASE LockBusy(c) BY <1>8 DEF LockBusy
<1>9. CASE SaveInFlight(c) BY <1>9 DEF SaveInFlight
<1>10. CASE TurnStarted(c) BY <1>10 DEF TurnStarted
<1>11. CASE LaunchTurn(c) BY <1>11 DEF LaunchTurn
<1>12. CASE UpdateRefs(c)
  <2>1. /\ cur[c] \in Units
        /\ mem'[c][cur[c]].state = mem[c][cur[c]].state
        /\ \A v \in Units : v # cur[c] => mem'[c][v] = mem[c][v]
        /\ \A o \in Controllers : o # c => mem'[o] = mem[o]
        /\ disk' \in {disk, mem'[c]}
    BY <1>12, UpdateRefsFacts
  <2>2. pc[c] = "wrote" /\ UNCHANGED <<pc, cur>>
    BY <1>12 DEF UpdateRefs
  <2> HIDE DEF TypeOK
  <2> QED
    BY <2>1, <2>2
<1>13. CASE TurnReturns(c) BY <1>13 DEF TurnReturns
<1>14. CASE TurnRejected(c) BY <1>14 DEF TurnRejected
<1>15. CASE CheckReceived(c) BY <1>15 DEF CheckReceived
<1>16. CASE OpenBatch(c) BY <1>16 DEF OpenBatch
<1>17. CASE PublishEvidence(c) BY <1>17 DEF PublishEvidence
<1>18. CASE PublishTask(c) BY <1>18 DEF PublishTask
<1>19. CASE CloseBatch(c) BY <1>19 DEF CloseBatch
<1>20. CASE PublishRejected(c) BY <1>20 DEF PublishRejected
<1>21. CASE PublishedEvent(c) BY <1>21 DEF PublishedEvent
<1>22. CASE AppendMetric(c) BY <1>22 DEF AppendMetric
<1>23. CASE MetricRaises(c) BY <1>23 DEF MetricRaises
<1>24. CASE WriteHead(c) BY <1>24 DEF WriteHead
<1>25. CASE Episode(c)
  <2>1. /\ cur[c] \in Units
        /\ mem'[c][cur[c]].state = "DONE"
        /\ mem'[c][cur[c]].digest = mem[c][cur[c]].digest
        /\ \A v \in Units : v # cur[c] => mem'[c][v] = mem[c][v]
        /\ \A o \in Controllers : o # c => mem'[o] = mem[o]
    BY <1>25, EpisodeFacts
  <2>2. /\ disk' = disk
        /\ pc \in [Controllers -> Labels]
        /\ Goto(c, "save_done")
    BY <1>25 DEF Episode
  <2> HIDE DEF TypeOK, Goto
  <2> QED
    BY <2>1, <2>2, GotoFacts DEF Labels
<1>26. CASE SaveDone(c) BY <1>26 DEF SaveDone
<1>27. CASE DoneEvent(c) BY <1>27 DEF DoneEvent
<1>28. CASE Decide(c)
  <2>1. /\ cur[c] \in Units
        /\ mem'[c][cur[c]].state = "RETAINED"
        /\ mem'[c][cur[c]].digest = mem[c][cur[c]].digest
        /\ \A v \in Units : v # cur[c] => mem'[c][v] = mem[c][v]
        /\ \A o \in Controllers : o # c => mem'[o] = mem[o]
    BY <1>28, DecideFacts
  <2>2. /\ disk' = disk
        /\ pc \in [Controllers -> Labels]
        /\ Goto(c, "save_retained")
    BY <1>28 DEF Decide
  <2> HIDE DEF TypeOK, Goto
  <2> QED
    BY <2>1, <2>2, GotoFacts DEF Labels
<1>29. CASE SaveRetained(c) BY <1>29 DEF SaveRetained
<1>30. CASE RetainedEvent(c) BY <1>30 DEF RetainedEvent, EmptyQueue, CloseLocks
<1>31. CASE Cancel(c) BY <1>31 DEF Cancel, EmptyQueue, CloseLocks
<1>32. CASE Reconcile(c) BY <1>32 DEF Reconcile
<1>33. CASE SavePending(c) BY <1>33 DEF SavePending
<1>34. CASE Crash(c) BY <1>34 DEF Crash, EmptyQueue, CloseLocks
<1>35. CASE Fault(c) BY <1>35 DEF Fault
<1> QED
  BY <1>1, <1>2, <1>3, <1>4, <1>5, <1>6, <1>7, <1>8, <1>9, <1>10, <1>11,
     <1>12, <1>13, <1>14, <1>15, <1>16, <1>17, <1>18, <1>19, <1>20, <1>21,
     <1>22, <1>23, <1>24, <1>25, <1>26, <1>27, <1>28, <1>29, <1>30, <1>31,
     <1>32, <1>33, <1>34, <1>35 DEF Step, Opening, Launching,
     Publishing, Closing, Recovering

\* EvidenceKept speaks of each controller alone: a step of c has to answer for
\* the files, the saved queue and what c itself holds.
LEMMA EvidenceFrame ==
  ASSUME EvidenceKept, NEW c \in Controllers, received \subseteq received',
         \A o \in Controllers : o # c =>
           mem'[o] = mem[o] /\ pc'[o] = pc[o] /\ cur'[o] = cur[o] /\ why'[o] = why[o],
         \A u \in Units :
           /\ artifact'[u] # NoDigest => <<u, artifact'[u]>> \in received'
           /\ disk'[u].state # "ABSENT" => disk'[u].digest # NoDigest
           /\ mem'[c][u].state # "ABSENT" => mem'[c][u].digest # NoDigest
           /\ mem'[c][u].state = "DONE" => <<u, mem'[c][u].digest>> \in received',
         \/ pc'[c] \in {"publish", "evidence", "task", "close", "published"}
         \/ pc'[c] \in {"metric", "head", "episode"} /\ why'[c] = "done"
         => <<cur'[c], mem'[c][cur'[c]].digest>> \in received'
  PROVE  EvidenceKept'
<1>1. ASSUME NEW o \in Controllers, o # c
      PROVE  /\ \A u \in Units :
                  /\ mem'[o][u].state # "ABSENT" => mem'[o][u].digest # NoDigest
                  /\ mem'[o][u].state = "DONE" => <<u, mem'[o][u].digest>> \in received'
             /\ \/ pc'[o] \in {"publish", "evidence", "task", "close", "published"}
                \/ pc'[o] \in {"metric", "head", "episode"} /\ why'[o] = "done"
                => <<cur'[o], mem'[o][cur'[o]].digest>> \in received'
  BY <1>1 DEF EvidenceKept
<1> QED
  BY <1>1 DEF EvidenceKept

\* Every digest a queue or a batch speaks of is one of contents a turn left.
LEMMA EvidenceStep ==
  ASSUME TypeOK, Exclusive, InHand, EvidenceKept, EvidenceReceived, [Next]_vars
  PROVE  EvidenceKept'
<1> USE ControllersAssumption DEF queueVars, storeVars, memoryVars,
   lockVars, ctlVars, envVars, TypeOK, Exclusive, InHand, EvidenceKept, At,
   Goto, Chosen, Flying, Turning, Storing
<1> SUFFICES ASSUME NEW c \in Controllers, Step(c) PROVE EvidenceKept'
  <2>1. CASE UNCHANGED vars
    <3>1. UNCHANGED <<artifact, received, disk, mem, pc, cur, why>>
      BY <2>1 DEF vars
    <3> HIDE DEF TypeOK, InHand, Exclusive
    <3> QED
      BY <3>1
  <2> QED
    BY <2>1 DEF Next
<1>1. CASE Start(c) BY <1>1 DEF Start, EvidenceReceived
<1>2. CASE RegisterLedger(c) BY <1>2 DEF RegisterLedger
<1>3. CASE RegisterMission(c) BY <1>3 DEF RegisterMission
<1>4. CASE Enqueue(c)
  <2>1. PICK u \in Units : /\ mem[c][u].state = "ABSENT"
                           /\ mem'[c][u].state = "PENDING"
                           /\ mem'[c][u].digest \in Digests
                           /\ \A v \in Units : v # u => mem'[c][v] = mem[c][v]
                           /\ \A o \in Controllers : o # c => mem'[o] = mem[o]
                           /\ disk' = mem'[c]
    BY <1>4, EnqueueFacts
  <2>2. pc[c] = "idle" /\ UNCHANGED <<artifact, received, pc, cur, why>>
    BY <1>4 DEF Enqueue
  <2> HIDE DEF TypeOK, InHand, Exclusive, Goto
  <2>0. \A w \in Units :
          /\ artifact[w] # NoDigest => <<w, artifact[w]>> \in received
          /\ disk[w].state # "ABSENT" => disk[w].digest # NoDigest
          /\ mem[c][w].state # "ABSENT" => mem[c][w].digest # NoDigest
          /\ mem[c][w].state = "DONE" => <<w, mem[c][w].digest>> \in received
    BY DEF EvidenceKept
  <2> HIDE DEF EvidenceKept
  <2>3. \A v \in Units :
          /\ artifact'[v] # NoDigest => <<v, artifact'[v]>> \in received'
          /\ mem'[c][v].state # "ABSENT" => mem'[c][v].digest # NoDigest
          /\ mem'[c][v].state = "DONE" => <<v, mem'[c][v].digest>> \in received'
    BY <2>0, <2>1, <2>2, DigestsAssumption
  <2> QED
    BY <2>1, <2>2, <2>3, EvidenceFrame
<1>5. CASE BeginTurn(c) BY <1>5 DEF BeginTurn
<1>6. CASE Reserve(c) BY <1>6 DEF Reserve
<1>7. CASE LockUnit(c)
  <2>1. /\ cur[c] \in Units
        /\ mem'[c][cur[c]].state = "IN_FLIGHT"
        /\ mem'[c][cur[c]].digest = mem[c][cur[c]].digest
        /\ \A v \in Units : v # cur[c] => mem'[c][v] = mem[c][v]
        /\ \A o \in Controllers : o # c => mem'[o] = mem[o]
    BY <1>7, LockUnitFacts
  <2> QED
    BY <1>7, <2>1 DEF LockUnit
<1>8. CASE LockBusy(c) BY <1>8 DEF LockBusy
<1>9. CASE SaveInFlight(c) BY <1>9 DEF SaveInFlight
<1>10. CASE TurnStarted(c) BY <1>10 DEF TurnStarted
<1>11. CASE LaunchTurn(c)
  <2>1. cur[c] \in Units
    BY <1>11, InHandUnit DEF LaunchTurn
  <2>2. PICK content \in Digests \union {artifact[cur[c]]} :
          /\ artifact' = [artifact EXCEPT ![cur[c]] = content]
          /\ received' = received \union ({cur[c]} \X ({content} \ {NoDigest}))
    BY <1>11 DEF LaunchTurn
  <2>3. \A u \in Units : artifact'[u] # NoDigest => <<u, artifact'[u]>> \in received'
    BY <2>1, <2>2
  <2>4. /\ received \subseteq received'
        /\ UNCHANGED <<mem, disk, cur, why>>
        /\ pc'[c] = "wrote" /\ \A o \in Controllers : o # c => pc'[o] = pc[o]
    BY <1>11 DEF LaunchTurn
  <2> HIDE DEF TypeOK, InHand, Exclusive, Goto
  <2>0. \A u \in Units :
          /\ artifact[u] # NoDigest => <<u, artifact[u]>> \in received
          /\ disk[u].state # "ABSENT" => disk[u].digest # NoDigest
          /\ mem[c][u].state # "ABSENT" => mem[c][u].digest # NoDigest
          /\ mem[c][u].state = "DONE" => <<u, mem[c][u].digest>> \in received
    BY DEF EvidenceKept
  <2> HIDE DEF EvidenceKept
  <2>5. \A u \in Units :
          /\ disk'[u].state # "ABSENT" => disk'[u].digest # NoDigest
          /\ mem'[c][u].state # "ABSENT" => mem'[c][u].digest # NoDigest
          /\ mem'[c][u].state = "DONE" => <<u, mem'[c][u].digest>> \in received'
    BY <2>0, <2>4
  <2> QED
    BY <2>3, <2>4, <2>5, EvidenceFrame
<1>12. CASE UpdateRefs(c)
  <2>1. /\ cur[c] \in Units
        /\ mem'[c][cur[c]].state = mem[c][cur[c]].state
        /\ mem'[c][cur[c]].digest = artifact[cur[c]]
        /\ \A v \in Units : v # cur[c] => mem'[c][v] = mem[c][v]
        /\ \A o \in Controllers : o # c => mem'[o] = mem[o]
        /\ disk' \in {disk, mem'[c]}
    BY <1>12, UpdateRefsFacts
  <2>2. /\ pc[c] = "wrote" /\ artifact[cur[c]] # NoDigest
        /\ UNCHANGED <<artifact, received, pc, cur, why>>
    BY <1>12 DEF UpdateRefs
  <2>3. mem[c][cur[c]].state = "IN_FLIGHT"
    BY <2>2
  <2> HIDE DEF TypeOK, InHand, Exclusive, Goto
  <2>0. \A u \in Units :
          /\ artifact[u] # NoDigest => <<u, artifact[u]>> \in received
          /\ disk[u].state # "ABSENT" => disk[u].digest # NoDigest
          /\ mem[c][u].state # "ABSENT" => mem[c][u].digest # NoDigest
          /\ mem[c][u].state = "DONE" => <<u, mem[c][u].digest>> \in received
    BY DEF EvidenceKept
  <2> HIDE DEF EvidenceKept
  <2>4. ASSUME NEW u \in Units
        PROVE  /\ mem'[c][u].state # "ABSENT" => mem'[c][u].digest # NoDigest
               /\ mem'[c][u].state = "DONE" => <<u, mem'[c][u].digest>> \in received'
    <3>1. CASE u = cur[c]
      BY <2>0, <2>1, <2>2, <2>3, <3>1
    <3>2. CASE u # cur[c]
      <4>1. mem'[c][u] = mem[c][u]
        BY <2>1, <3>2
      <4> QED
        BY <2>0, <2>2, <4>1
    <3> QED
      BY <3>1, <3>2
  <2>5. \A u \in Units :
          /\ disk'[u].state # "ABSENT" => disk'[u].digest # NoDigest
          /\ artifact'[u] # NoDigest => <<u, artifact'[u]>> \in received'
    BY <2>0, <2>1, <2>2, <2>4
  <2> QED
    BY <2>1, <2>2, <2>4, <2>5, EvidenceFrame
<1>13. CASE TurnReturns(c) BY <1>13 DEF TurnReturns
<1>14. CASE TurnRejected(c) BY <1>14 DEF TurnRejected
<1>15. CASE CheckReceived(c) BY <1>15 DEF CheckReceived
<1>16. CASE OpenBatch(c) BY <1>16 DEF OpenBatch
<1>17. CASE PublishEvidence(c) BY <1>17 DEF PublishEvidence
<1>18. CASE PublishTask(c) BY <1>18 DEF PublishTask
<1>19. CASE CloseBatch(c) BY <1>19 DEF CloseBatch
<1>20. CASE PublishRejected(c) BY <1>20 DEF PublishRejected
<1>21. CASE PublishedEvent(c) BY <1>21 DEF PublishedEvent
<1>22. CASE AppendMetric(c) BY <1>22 DEF AppendMetric
<1>23. CASE MetricRaises(c) BY <1>23 DEF MetricRaises
<1>24. CASE WriteHead(c) BY <1>24 DEF WriteHead
<1>25. CASE Episode(c)
  <2>1. /\ cur[c] \in Units
        /\ mem'[c][cur[c]].state = "DONE"
        /\ mem'[c][cur[c]].digest = mem[c][cur[c]].digest
        /\ \A v \in Units : v # cur[c] => mem'[c][v] = mem[c][v]
        /\ \A o \in Controllers : o # c => mem'[o] = mem[o]
    BY <1>25, EpisodeFacts
  <2> QED
    BY <1>25, <2>1 DEF Episode
<1>26. CASE SaveDone(c) BY <1>26 DEF SaveDone
<1>27. CASE DoneEvent(c) BY <1>27 DEF DoneEvent
<1>28. CASE Decide(c)
  <2>1. /\ cur[c] \in Units
        /\ mem'[c][cur[c]].state = "RETAINED"
        /\ mem'[c][cur[c]].digest = mem[c][cur[c]].digest
        /\ \A v \in Units : v # cur[c] => mem'[c][v] = mem[c][v]
        /\ \A o \in Controllers : o # c => mem'[o] = mem[o]
    BY <1>28, DecideFacts
  <2> QED
    BY <1>28, <2>1 DEF Decide
<1>29. CASE SaveRetained(c) BY <1>29 DEF SaveRetained
<1>30. CASE RetainedEvent(c)
  <2>1. mem' = mem \/ mem' = [mem EXCEPT ![c] = EmptyQueue]
    BY <1>30 DEF RetainedEvent, CloseLocks
  <2>2. /\ \A u \in Units : mem'[c][u] = mem[c][u] \/ mem'[c][u].state = "ABSENT"
        /\ \A o \in Controllers : o # c => mem'[o] = mem[o]
    BY <2>1 DEF EmptyQueue
  <2>3. /\ UNCHANGED <<artifact, received, disk>>
        /\ \A o \in Controllers : o # c =>
             pc'[o] = pc[o] /\ cur'[o] = cur[o] /\ why'[o] = why[o]
        /\ pc'[c] \in {"idle", "off"}
    BY <1>30 DEF RetainedEvent, CloseLocks
  <2> HIDE DEF TypeOK, InHand, Exclusive, Goto
  <2>0. \A u \in Units :
          /\ artifact[u] # NoDigest => <<u, artifact[u]>> \in received
          /\ disk[u].state # "ABSENT" => disk[u].digest # NoDigest
          /\ mem[c][u].state # "ABSENT" => mem[c][u].digest # NoDigest
          /\ mem[c][u].state = "DONE" => <<u, mem[c][u].digest>> \in received
    BY DEF EvidenceKept
  <2> HIDE DEF EvidenceKept
  <2>4. \A u \in Units :
          /\ artifact'[u] # NoDigest => <<u, artifact'[u]>> \in received'
          /\ disk'[u].state # "ABSENT" => disk'[u].digest # NoDigest
          /\ mem'[c][u].state # "ABSENT" => mem'[c][u].digest # NoDigest
          /\ mem'[c][u].state = "DONE" => <<u, mem'[c][u].digest>> \in received'
    BY <2>0, <2>2, <2>3
  <2> QED
    BY <2>2, <2>3, <2>4, EvidenceFrame
<1>31. CASE Cancel(c)
  <2>1. mem' = mem \/ mem' = [mem EXCEPT ![c] = EmptyQueue]
    BY <1>31 DEF Cancel, CloseLocks
  <2>2. /\ \A u \in Units : mem'[c][u] = mem[c][u] \/ mem'[c][u].state = "ABSENT"
        /\ \A o \in Controllers : o # c => mem'[o] = mem[o]
    BY <2>1 DEF EmptyQueue
  <2>3. /\ UNCHANGED <<artifact, received, disk>>
        /\ \A o \in Controllers : o # c =>
             pc'[o] = pc[o] /\ cur'[o] = cur[o] /\ why'[o] = why[o]
        /\ pc'[c] = "off" \/ (pc'[c] = "metric" /\ why'[c] = "cancel")
    BY <1>31 DEF Cancel, CloseLocks
  <2> HIDE DEF TypeOK, InHand, Exclusive, Goto
  <2>0. \A u \in Units :
          /\ artifact[u] # NoDigest => <<u, artifact[u]>> \in received
          /\ disk[u].state # "ABSENT" => disk[u].digest # NoDigest
          /\ mem[c][u].state # "ABSENT" => mem[c][u].digest # NoDigest
          /\ mem[c][u].state = "DONE" => <<u, mem[c][u].digest>> \in received
    BY DEF EvidenceKept
  <2> HIDE DEF EvidenceKept
  <2>4. \A u \in Units :
          /\ artifact'[u] # NoDigest => <<u, artifact'[u]>> \in received'
          /\ disk'[u].state # "ABSENT" => disk'[u].digest # NoDigest
          /\ mem'[c][u].state # "ABSENT" => mem'[c][u].digest # NoDigest
          /\ mem'[c][u].state = "DONE" => <<u, mem'[c][u].digest>> \in received'
    BY <2>0, <2>2, <2>3
  <2> QED
    BY <2>2, <2>3, <2>4, EvidenceFrame
<1>32. CASE Reconcile(c)
  <2>1. ASSUME NEW u \in Units
        PROVE  /\ mem'[c][u].digest = mem[c][u].digest
               /\ \/ mem'[c][u].state = mem[c][u].state
                  \/ mem'[c][u].state = "PENDING" /\ mem[c][u].state = "IN_FLIGHT"
    <3>1. mem[c] \in Queues
      OBVIOUS
    <3>2. mem'[c][u] = IF mem[c][u].state = "IN_FLIGHT"
                       THEN [mem[c][u] EXCEPT !.state = "PENDING"] ELSE mem[c][u]
      BY <1>32 DEF Reconcile
    <3>3. mem[c][u] \in [state : States, digest : Digests \union {NoDigest}]
      BY <3>1 DEF Queues
    <3> QED
      BY <3>2, <3>3
  <2>2. /\ UNCHANGED <<artifact, received, disk, cur, why>>
        /\ \A o \in Controllers : o # c => mem'[o] = mem[o] /\ pc'[o] = pc[o]
        /\ pc'[c] = "save_pending"
    BY <1>32 DEF Reconcile
  <2> HIDE DEF TypeOK, InHand, Exclusive, Goto
  <2>0. \A u \in Units :
          /\ artifact[u] # NoDigest => <<u, artifact[u]>> \in received
          /\ disk[u].state # "ABSENT" => disk[u].digest # NoDigest
          /\ mem[c][u].state # "ABSENT" => mem[c][u].digest # NoDigest
          /\ mem[c][u].state = "DONE" => <<u, mem[c][u].digest>> \in received
    BY DEF EvidenceKept
  <2> HIDE DEF EvidenceKept
  <2>3. \A u \in Units :
          /\ artifact'[u] # NoDigest => <<u, artifact'[u]>> \in received'
          /\ disk'[u].state # "ABSENT" => disk'[u].digest # NoDigest
          /\ mem'[c][u].state # "ABSENT" => mem'[c][u].digest # NoDigest
          /\ mem'[c][u].state = "DONE" => <<u, mem'[c][u].digest>> \in received'
    BY <2>0, <2>1, <2>2
  <2> QED
    BY <2>2, <2>3, EvidenceFrame
<1>33. CASE SavePending(c) BY <1>33 DEF SavePending
<1>34. CASE Crash(c) BY <1>34 DEF Crash, CloseLocks, EmptyQueue
<1>35. CASE Fault(c) BY <1>35 DEF Fault
<1> QED
  BY <1>1, <1>2, <1>3, <1>4, <1>5, <1>6, <1>7, <1>8, <1>9, <1>10, <1>11,
     <1>12, <1>13, <1>14, <1>15, <1>16, <1>17, <1>18, <1>19, <1>20, <1>21,
     <1>22, <1>23, <1>24, <1>25, <1>26, <1>27, <1>28, <1>29, <1>30, <1>31,
     <1>32, <1>33, <1>34, <1>35 DEF Step, Opening, Launching,
     Publishing, Closing, Recovering

\* What is published, and what a saved queue calls DONE, was received.
LEMMA EvidenceReceivedStep ==
  ASSUME TypeOK, InHand, EvidenceKept, EvidenceReceived, [Next]_vars
  PROVE  EvidenceReceived'
<1> USE DEF queueVars, storeVars, memoryVars, lockVars, ctlVars, envVars,
   TypeOK, Batches, InHand, EvidenceKept, EvidenceReceived, At, Chosen,
   Flying, Turning, Storing
<1> SUFFICES ASSUME NEW c \in Controllers, Step(c) PROVE EvidenceReceived'
  BY DEF Next, vars
<1>1. CASE Start(c) BY <1>1 DEF Start
<1>2. CASE RegisterLedger(c) BY <1>2 DEF RegisterLedger
<1>3. CASE RegisterMission(c) BY <1>3 DEF RegisterMission
<1>4. CASE Enqueue(c)
  <2>1. PICK u \in Units : /\ mem'[c][u].state = "PENDING"
                           /\ \A v \in Units : v # u => mem'[c][v] = mem[c][v]
                           /\ disk' = mem'[c]
    BY <1>4, EnqueueFacts
  <2>2. UNCHANGED <<batch, received>>
    BY <1>4 DEF Enqueue
  <2>3. \A v \in Units : disk'[v].state = "DONE" => <<v, disk'[v].digest>> \in received
    BY <2>1
  <2> HIDE DEF TypeOK, InHand, EvidenceKept
  <2> QED
    BY <2>2, <2>3
<1>5. CASE BeginTurn(c) BY <1>5 DEF BeginTurn
<1>6. CASE Reserve(c) BY <1>6 DEF Reserve
<1>7. CASE LockUnit(c) BY <1>7 DEF LockUnit
<1>8. CASE LockBusy(c) BY <1>8 DEF LockBusy
<1>9. CASE SaveInFlight(c) BY <1>9 DEF SaveInFlight
<1>10. CASE TurnStarted(c) BY <1>10 DEF TurnStarted
<1>11. CASE LaunchTurn(c)
  <2>1. received \subseteq received' /\ UNCHANGED <<disk, batch>>
    BY <1>11 DEF LaunchTurn
  <2> QED
    BY <2>1
<1>12. CASE UpdateRefs(c)
  <2>1. /\ cur[c] \in Units
        /\ mem'[c][cur[c]].state = mem[c][cur[c]].state
        /\ \A v \in Units : v # cur[c] => mem'[c][v] = mem[c][v]
        /\ disk' \in {disk, mem'[c]}
    BY <1>12, UpdateRefsFacts
  <2>2. mem[c][cur[c]].state = "IN_FLIGHT"
    BY <1>12 DEF UpdateRefs
  <2>3. UNCHANGED <<batch, received>>
    BY <1>12 DEF UpdateRefs
  <2> HIDE DEF TypeOK
  <2> QED
    BY <2>1, <2>2, <2>3
<1>13. CASE TurnReturns(c) BY <1>13 DEF TurnReturns
<1>14. CASE TurnRejected(c) BY <1>14 DEF TurnRejected
<1>15. CASE CheckReceived(c) BY <1>15 DEF CheckReceived
<1>16. CASE OpenBatch(c) BY <1>16 DEF OpenBatch
<1>17. CASE PublishEvidence(c)
  <2>1. /\ cur[c] \in Units
        /\ <<cur[c], mem[c][cur[c]].digest>> \in received
        /\ UNCHANGED <<disk, received>>
    BY <1>17 DEF PublishEvidence
  <2>2. /\ batch' = [batch EXCEPT ![cur[c]].evidence = mem[c][cur[c]].digest]
        /\ batch \in [Units -> Batches]
    BY <1>17 DEF PublishEvidence
  <2> HIDE DEF TypeOK, InHand, EvidenceKept
  <2>3. ASSUME NEW u \in Units, batch'[u].evidence # NoDigest
        PROVE  <<u, batch'[u].evidence>> \in received
    <3>1. CASE u = cur[c]
      BY <2>1, <2>2, <3>1
    <3>2. CASE u # cur[c]
      BY <2>2, <2>3, <3>2
    <3> QED
      BY <3>1, <3>2
  <2> QED
    BY <2>1, <2>3
<1>18. CASE PublishTask(c) BY <1>18 DEF PublishTask
<1>19. CASE CloseBatch(c) BY <1>19 DEF CloseBatch
<1>20. CASE PublishRejected(c) BY <1>20 DEF PublishRejected
<1>21. CASE PublishedEvent(c) BY <1>21 DEF PublishedEvent
<1>22. CASE AppendMetric(c) BY <1>22 DEF AppendMetric
<1>23. CASE MetricRaises(c) BY <1>23 DEF MetricRaises
<1>24. CASE WriteHead(c) BY <1>24 DEF WriteHead
<1>25. CASE Episode(c) BY <1>25 DEF Episode
<1>26. CASE SaveDone(c) BY <1>26 DEF SaveDone
<1>27. CASE DoneEvent(c) BY <1>27 DEF DoneEvent
<1>28. CASE Decide(c) BY <1>28 DEF Decide
<1>29. CASE SaveRetained(c) BY <1>29 DEF SaveRetained
<1>30. CASE RetainedEvent(c) BY <1>30 DEF RetainedEvent, CloseLocks
<1>31. CASE Cancel(c) BY <1>31 DEF Cancel, CloseLocks
<1>32. CASE Reconcile(c) BY <1>32 DEF Reconcile
<1>33. CASE SavePending(c) BY <1>33 DEF SavePending
<1>34. CASE Crash(c) BY <1>34 DEF Crash, CloseLocks
<1>35. CASE Fault(c) BY <1>35 DEF Fault
<1> QED
  BY <1>1, <1>2, <1>3, <1>4, <1>5, <1>6, <1>7, <1>8, <1>9, <1>10, <1>11,
     <1>12, <1>13, <1>14, <1>15, <1>16, <1>17, <1>18, <1>19, <1>20, <1>21,
     <1>22, <1>23, <1>24, <1>25, <1>26, <1>27, <1>28, <1>29, <1>30, <1>31,
     <1>32, <1>33, <1>34, <1>35 DEF Step, Opening, Launching,
     Publishing, Closing, Recovering

\* Saved queues inherit the backing of the memory they save.
LEMMA ClosureBackedStep ==
  ASSUME TypeOK, InHand, MemoryBacked, ClosureBacked, [Next]_vars
  PROVE  ClosureBacked'
<1> USE DEF queueVars, storeVars, memoryVars, lockVars, ctlVars, envVars,
   TypeOK, InHand, MemoryBacked, ClosureBacked, Metered, At, Chosen, Flying,
   Turning, Storing
<1> SUFFICES ASSUME NEW c \in Controllers, Step(c) PROVE ClosureBacked'
  BY DEF Next, vars
<1>1. CASE Start(c) BY <1>1 DEF Start
<1>2. CASE RegisterLedger(c) BY <1>2 DEF RegisterLedger
<1>3. CASE RegisterMission(c) BY <1>3 DEF RegisterMission
<1>4. CASE Enqueue(c) BY <1>4 DEF Enqueue
<1>5. CASE BeginTurn(c) BY <1>5 DEF BeginTurn
<1>6. CASE Reserve(c) BY <1>6 DEF Reserve
<1>7. CASE LockUnit(c) BY <1>7 DEF LockUnit
<1>8. CASE LockBusy(c) BY <1>8 DEF LockBusy
<1>9. CASE SaveInFlight(c) BY <1>9 DEF SaveInFlight
<1>10. CASE TurnStarted(c) BY <1>10 DEF TurnStarted
<1>11. CASE LaunchTurn(c) BY <1>11 DEF LaunchTurn
<1>12. CASE UpdateRefs(c)
  <2>1. /\ cur[c] \in Units
        /\ mem'[c][cur[c]].state = mem[c][cur[c]].state
        /\ \A v \in Units : v # cur[c] => mem'[c][v] = mem[c][v]
        /\ \A o \in Controllers : o # c => mem'[o] = mem[o]
        /\ disk' \in {disk, mem'[c]}
    BY <1>12, UpdateRefsFacts
  <2>2. pc[c] = "wrote" /\ UNCHANGED <<batch, metrics, metered, decided, episodes>>
    BY <1>12 DEF UpdateRefs
  <2> HIDE DEF TypeOK
  <2> QED
    BY <2>1, <2>2
<1>13. CASE TurnReturns(c) BY <1>13 DEF TurnReturns
<1>14. CASE TurnRejected(c) BY <1>14 DEF TurnRejected
<1>15. CASE CheckReceived(c) BY <1>15 DEF CheckReceived
<1>16. CASE OpenBatch(c) BY <1>16 DEF OpenBatch
<1>17. CASE PublishEvidence(c) BY <1>17 DEF PublishEvidence
<1>18. CASE PublishTask(c) BY <1>18 DEF PublishTask
<1>19. CASE CloseBatch(c) BY <1>19 DEF CloseBatch
<1>20. CASE PublishRejected(c) BY <1>20 DEF PublishRejected
<1>21. CASE PublishedEvent(c) BY <1>21 DEF PublishedEvent
<1>22. CASE AppendMetric(c) BY <1>22 DEF AppendMetric
<1>23. CASE MetricRaises(c) BY <1>23 DEF MetricRaises
<1>24. CASE WriteHead(c) BY <1>24 DEF WriteHead
<1>25. CASE Episode(c) BY <1>25 DEF Episode
<1>26. CASE SaveDone(c) BY <1>26 DEF SaveDone
<1>27. CASE DoneEvent(c) BY <1>27 DEF DoneEvent
<1>28. CASE Decide(c) BY <1>28 DEF Decide
<1>29. CASE SaveRetained(c) BY <1>29 DEF SaveRetained
<1>30. CASE RetainedEvent(c) BY <1>30 DEF RetainedEvent, CloseLocks
<1>31. CASE Cancel(c) BY <1>31 DEF Cancel, CloseLocks
<1>32. CASE Reconcile(c) BY <1>32 DEF Reconcile
<1>33. CASE SavePending(c) BY <1>33 DEF SavePending
<1>34. CASE Crash(c) BY <1>34 DEF Crash, CloseLocks, TornMetrics
<1>35. CASE Fault(c) BY <1>35 DEF Fault, TornMetrics
<1> QED
  BY <1>1, <1>2, <1>3, <1>4, <1>5, <1>6, <1>7, <1>8, <1>9, <1>10, <1>11,
     <1>12, <1>13, <1>14, <1>15, <1>16, <1>17, <1>18, <1>19, <1>20, <1>21,
     <1>22, <1>23, <1>24, <1>25, <1>26, <1>27, <1>28, <1>29, <1>30, <1>31,
     <1>32, <1>33, <1>34, <1>35 DEF Step, Opening, Launching,
     Publishing, Closing, Recovering

\* What no step undoes: a closed unit on disk and a closed batch.
ClosuresKept == \A u \in Units :
  /\ disk[u].state \in Closed => disk'[u] = disk[u]
  /\ batch[u].close => batch'[u].close

\* Every step keeps them.
LEMMA ClosedStep ==
  ASSUME TypeOK, InHand, MemoryFollows, [Next]_vars
  PROVE  ClosuresKept
<1> USE DEF queueVars, storeVars, memoryVars, lockVars, ctlVars, envVars
<1> SUFFICES ASSUME NEW c \in Controllers, Step(c) PROVE ClosuresKept
  BY DEF Next, vars, TypeOK, Batches, InHand, MemoryFollows,
     ClosuresKept, Closed, At, Chosen, Flying, Turning, Storing
<1>1. CASE Start(c)
  BY <1>1 DEF Start, TypeOK, Batches, InHand, MemoryFollows,
     ClosuresKept, Closed, At, Chosen, Flying, Turning, Storing
<1>2. CASE RegisterLedger(c)
  BY <1>2 DEF RegisterLedger, TypeOK, Batches, InHand, MemoryFollows,
     ClosuresKept, Closed, At, Chosen, Flying, Turning, Storing
<1>3. CASE RegisterMission(c)
  BY <1>3 DEF RegisterMission, TypeOK, Batches, InHand, MemoryFollows,
     ClosuresKept, Closed, At, Chosen, Flying, Turning, Storing
<1>4. CASE Enqueue(c)
  <2>1. PICK u \in Units : /\ mem[c][u].state = "ABSENT"
                           /\ mem'[c][u].state = "PENDING"
                           /\ mem'[c][u].digest \in Digests
                           /\ \A v \in Units : v # u => mem'[c][v] = mem[c][v]
                           /\ disk' = mem'[c]
    BY <1>4, EnqueueFacts
  <2> QED
    BY <1>4, <2>1, ZenonT(40) DEF Enqueue, MemoryFollows, ClosuresKept, Closed, At
<1>5. CASE BeginTurn(c)
  BY <1>5 DEF BeginTurn, TypeOK, Batches, InHand, MemoryFollows,
     ClosuresKept, Closed, At, Chosen, Flying, Turning, Storing
<1>6. CASE Reserve(c)
  BY <1>6 DEF Reserve, TypeOK, Batches, InHand, MemoryFollows,
     ClosuresKept, Closed, At, Chosen, Flying, Turning, Storing
<1>7. CASE LockUnit(c)
  BY <1>7 DEF LockUnit, TypeOK, Batches, InHand, MemoryFollows,
     ClosuresKept, Closed, At, Chosen, Flying, Turning, Storing
<1>8. CASE LockBusy(c)
  BY <1>8 DEF LockBusy, TypeOK, Batches, InHand, MemoryFollows,
     ClosuresKept, Closed, At, Chosen, Flying, Turning, Storing
<1>9. CASE SaveInFlight(c)
  BY <1>9 DEF SaveInFlight, TypeOK, Batches, InHand, MemoryFollows,
     ClosuresKept, Closed, At, Chosen, Flying, Turning, Storing
<1>10. CASE TurnStarted(c)
  BY <1>10 DEF TurnStarted, TypeOK, Batches, InHand, MemoryFollows,
     ClosuresKept, Closed, At, Chosen, Flying, Turning, Storing
<1>11. CASE LaunchTurn(c)
  BY <1>11 DEF LaunchTurn, TypeOK, Batches, InHand, MemoryFollows,
     ClosuresKept, Closed, At, Chosen, Flying, Turning, Storing
<1>12. CASE UpdateRefs(c)
  <2>1. /\ cur[c] \in Units
        /\ mem'[c][cur[c]].state = mem[c][cur[c]].state
        /\ \A v \in Units : v # cur[c] => mem'[c][v] = mem[c][v]
        /\ disk' \in {disk, mem'[c]}
    BY <1>12, UpdateRefsFacts
  <2>2. /\ mem[c][cur[c]].state = "IN_FLIGHT" /\ pc[c] # "off"
        /\ batch' = batch
    BY <1>12 DEF UpdateRefs, At, InHand, Flying, Turning
  <2> QED
    BY <2>1, <2>2 DEF MemoryFollows, ClosuresKept, Closed, At
<1>13. CASE TurnReturns(c)
  BY <1>13 DEF TurnReturns, TypeOK, Batches, InHand, MemoryFollows,
     ClosuresKept, Closed, At, Chosen, Flying, Turning, Storing
<1>14. CASE TurnRejected(c)
  BY <1>14 DEF TurnRejected, TypeOK, Batches, InHand, MemoryFollows,
     ClosuresKept, Closed, At, Chosen, Flying, Turning, Storing
<1>15. CASE CheckReceived(c)
  BY <1>15 DEF CheckReceived, TypeOK, Batches, InHand, MemoryFollows,
     ClosuresKept, Closed, At, Chosen, Flying, Turning, Storing
<1>16. CASE OpenBatch(c)
  BY <1>16 DEF OpenBatch, TypeOK, Batches, InHand, MemoryFollows,
     ClosuresKept, Closed, At, Chosen, Flying, Turning, Storing
<1>17. CASE PublishEvidence(c)
  BY <1>17 DEF PublishEvidence, TypeOK, Batches, InHand, MemoryFollows,
     ClosuresKept, Closed, At, Chosen, Flying, Turning, Storing
<1>18. CASE PublishTask(c)
  BY <1>18 DEF PublishTask, TypeOK, Batches, InHand, MemoryFollows,
     ClosuresKept, Closed, At, Chosen, Flying, Turning, Storing
<1>19. CASE CloseBatch(c)
  BY <1>19 DEF CloseBatch, TypeOK, Batches, InHand, MemoryFollows,
     ClosuresKept, Closed, At, Chosen, Flying, Turning, Storing
<1>20. CASE PublishRejected(c)
  BY <1>20 DEF PublishRejected, TypeOK, Batches, InHand, MemoryFollows,
     ClosuresKept, Closed, At, Chosen, Flying, Turning, Storing
<1>21. CASE PublishedEvent(c)
  BY <1>21 DEF PublishedEvent, TypeOK, Batches, InHand, MemoryFollows,
     ClosuresKept, Closed, At, Chosen, Flying, Turning, Storing
<1>22. CASE AppendMetric(c)
  BY <1>22 DEF AppendMetric, TypeOK, Batches, InHand, MemoryFollows,
     ClosuresKept, Closed, At, Chosen, Flying, Turning, Storing
<1>23. CASE MetricRaises(c)
  BY <1>23 DEF MetricRaises, TypeOK, Batches, InHand, MemoryFollows,
     ClosuresKept, Closed, At, Chosen, Flying, Turning, Storing
<1>24. CASE WriteHead(c)
  BY <1>24 DEF WriteHead, TypeOK, Batches, InHand, MemoryFollows,
     ClosuresKept, Closed, At, Chosen, Flying, Turning, Storing
<1>25. CASE Episode(c)
  BY <1>25 DEF Episode, TypeOK, Batches, InHand, MemoryFollows,
     ClosuresKept, Closed, At, Chosen, Flying, Turning, Storing
<1>26. CASE SaveDone(c)
  BY <1>26 DEF SaveDone, TypeOK, Batches, InHand, MemoryFollows,
     ClosuresKept, Closed, At, Chosen, Flying, Turning, Storing
<1>27. CASE DoneEvent(c)
  BY <1>27 DEF DoneEvent, TypeOK, Batches, InHand, MemoryFollows,
     ClosuresKept, Closed, At, Chosen, Flying, Turning, Storing
<1>28. CASE Decide(c)
  BY <1>28 DEF Decide, TypeOK, Batches, InHand, MemoryFollows,
     ClosuresKept, Closed, At, Chosen, Flying, Turning, Storing
<1>29. CASE SaveRetained(c)
  BY <1>29 DEF SaveRetained, TypeOK, Batches, InHand, MemoryFollows,
     ClosuresKept, Closed, At, Chosen, Flying, Turning, Storing
<1>30. CASE RetainedEvent(c)
  BY <1>30 DEF RetainedEvent, TypeOK, Batches, InHand, MemoryFollows,
     ClosuresKept, Closed, At, Chosen, Flying, Turning, Storing, CloseLocks
<1>31. CASE Cancel(c)
  BY <1>31 DEF Cancel, TypeOK, Batches, InHand, MemoryFollows,
     ClosuresKept, Closed, At, Chosen, Flying, Turning, Storing, CloseLocks
<1>32. CASE Reconcile(c)
  BY <1>32 DEF Reconcile, TypeOK, Batches, InHand, MemoryFollows,
     ClosuresKept, Closed, At, Chosen, Flying, Turning, Storing
<1>33. CASE SavePending(c)
  BY <1>33 DEF SavePending, TypeOK, Batches, InHand, MemoryFollows,
     ClosuresKept, Closed, At, Chosen, Flying, Turning, Storing
<1>34. CASE Crash(c)
  BY <1>34 DEF Crash, TypeOK, Batches, InHand, MemoryFollows,
     ClosuresKept, Closed, At, Chosen, Flying, Turning, Storing, CloseLocks
<1>35. CASE Fault(c)
  BY <1>35 DEF Fault, TypeOK, Batches, InHand, MemoryFollows,
     ClosuresKept, Closed, At, Chosen, Flying, Turning, Storing
<1> QED
  BY <1>1, <1>2, <1>3, <1>4, <1>5, <1>6, <1>7, <1>8, <1>9, <1>10, <1>11,
     <1>12, <1>13, <1>14, <1>15, <1>16, <1>17, <1>18, <1>19, <1>20, <1>21,
     <1>22, <1>23, <1>24, <1>25, <1>26, <1>27, <1>28, <1>29, <1>30, <1>31,
     <1>32, <1>33, <1>34, <1>35 DEF Step, Opening, Launching,
     Publishing, Closing, Recovering

\* The journal only gains events that are already true.
LEMMA JournalHonestStep ==
  ASSUME TypeOK, InHand, MemoryBacked, MemoryFollows, JournalHonest, [Next]_vars
  PROVE  JournalHonest'
<1> USE DEF queueVars, storeVars, memoryVars, lockVars, ctlVars, envVars
<1>1. ClosuresKept
  BY ClosedStep
<1>2. CASE journal' = journal
  BY <1>1, <1>2 DEF ClosuresKept, JournalHonest, Closed
<1>3. CASE journal' # journal
  <2>1. PICK c \in Controllers : \/ TurnStarted(c) \/ CheckReceived(c)
                                 \/ PublishedEvent(c)
                                 \/ DoneEvent(c) \/ RetainedEvent(c)
    BY <1>3, ZenonT(40) DEF Next, Step, Opening, Launching, Publishing, Closing,
       Recovering, vars, Start, RegisterLedger, RegisterMission, Enqueue,
       BeginTurn, Reserve, LockUnit, LockBusy, SaveInFlight, LaunchTurn,
       UpdateRefs, TurnReturns, TurnRejected, OpenBatch, PublishEvidence,
       PublishTask, CloseBatch, PublishRejected, AppendMetric, MetricRaises,
       WriteHead, Episode, SaveDone, Decide, SaveRetained, Cancel,
       Reconcile, SavePending, Crash, Fault
  <2>2. /\ disk' = disk /\ batch' = batch
        /\ cur[c] \in Units
    BY <2>1, InHandUnit DEF TurnStarted, CheckReceived, PublishedEvent,
       DoneEvent, RetainedEvent, At, Chosen, Flying, Turning, Storing
  <2>3. PICK e \in EventNames :
          /\ journal' = journal \union {<<e, cur[c]>>}
          /\ e = "PUBLISHED" => batch[cur[c]].close
          /\ e = "UNIT_DONE" => disk[cur[c]].state = "DONE"
          /\ e = "UNIT_RETAINED" => disk[cur[c]].state = "RETAINED"
    BY <2>1 DEF TurnStarted, CheckReceived, PublishedEvent, DoneEvent,
       RetainedEvent, At, Log, InHand, MemoryBacked, EventNames
  <2>4. ASSUME NEW u \in Units, NEW n \in EventNames, <<n, u>> \in journal'
        PROVE  <<n, u>> \in journal \/ (n = e /\ u = cur[c])
    BY <2>3, <2>4
  <2> QED
    BY <2>2, <2>3, <2>4 DEF JournalHonest, EventNames
<1> QED
  BY <1>2, <1>3

-----------------------------------------------------------------------------
(* The invariant. *)

\* Nothing has happened yet.
LEMMA InitIInv == Init => IInv
<1> SUFFICES ASSUME Init PROVE IInv
  OBVIOUS
<1>1. TypeOK
  BY EmptyQueueType, BoundsAssumption DEF Init, TypeOK, NoBatch, Batches,
     MetricStates, Labels
<1>2. Exclusive /\ InHand /\ Paid /\ MemoryFollows
  BY DEF Init, Exclusive, InHand, Paid, MemoryFollows, Chosen, Flying,
     Turning, Storing
<1>3. MemoryBacked /\ ClosureBacked /\ JournalHonest
  BY DEF Init, MemoryBacked, ClosureBacked, JournalHonest, EmptyQueue
<1>4. AloneInFlight /\ EvidenceKept /\ EvidenceReceived
  BY DEF Init, AloneInFlight, EvidenceKept, EvidenceReceived, InFlight,
     EmptyQueue, NoBatch, Chosen
<1>5. WithinBudget /\ EveryLaunchPaid
  BY BudgetAssumption DEF Init, WithinBudget, EveryLaunchPaid
<1> QED
  BY <1>1, <1>2, <1>3, <1>4, <1>5 DEF IInv

\* IInv is inductive: the lemmas above, put together.
LEMMA StepIInv == IInv /\ [Next]_vars => IInv'
  BY TypeStep, ExclusiveStep, InHandStep, BudgetStep, MemoryBackedStep,
     MemoryFollowsStep, AloneStep, EvidenceStep, EvidenceReceivedStep,
     ClosureBackedStep, JournalHonestStep DEF IInv

\* The inductive invariant holds of every behaviour.
THEOREM Invariance == Spec => []IInv
  BY InitIInv, StepIInv, PTL DEF Spec

\* Every reachable state has the types the code validates when it reloads it.
THEOREM TypeCorrect == Spec => []TypeOK
<1>1. IInv => TypeOK
  BY DEF IInv
<1> QED
  BY <1>1, Invariance, PTL

\* The ledger never exceeds the mandate, and no turn runs without an attempt
\* of its own in it.
THEOREM BudgetSafety == Spec => [](WithinBudget /\ EveryLaunchPaid)
<1>1. IInv => WithinBudget /\ EveryLaunchPaid
  BY DEF IInv
<1> QED
  BY <1>1, Invariance, PTL

\* No turn ever runs without an attempt of its own in the ledger.
THEOREM LaunchesPaid == Spec => []EveryLaunchPaid
  BY BudgetSafety, PTL

\* A unit saved as closed has its batch, its decision and its turn event; the
\* journal never claims what the stores do not hold.
THEOREM ClosureSafety == Spec => [](ClosureBacked /\ JournalHonest)
<1>1. IInv => ClosureBacked /\ JournalHonest
  BY DEF IInv
<1> QED
  BY <1>1, Invariance, PTL

\* Whatever the journal announces, the stores already hold.
THEOREM JournalSafety == Spec => []JournalHonest
  BY ClosureSafety, PTL

\* The saved queue has at most one unit in flight.
THEOREM FlightSafety == Spec => []OneInFlight
<1>1. ASSUME IInv PROVE OneInFlight
  <2>1. InFlight(disk) = {} \/ \E u \in Units : InFlight(disk) = {u}
    BY <1>1 DEF IInv, AloneInFlight, InFlight
  <2> QED
    BY <2>1, FS_EmptySet, FS_Singleton DEF OneInFlight
<1> QED
  BY <1>1, Invariance, PTL

\* Nothing is published, and no unit is DONE, under a digest of contents no
\* turn of the unit ever left, through relaunches and update_unit_refs alike.
THEOREM EvidenceSafety == Spec => []EvidenceReceived
<1>1. IInv => EvidenceReceived
  BY DEF IInv
<1> QED
  BY <1>1, Invariance, PTL

\* A unit once saved as closed is never reopened.
THEOREM ClosedForGood == Spec => ClosedStaysClosed
<1>1. IInv /\ [Next]_vars =>
        [\A u \in Units : disk[u].state \in Closed => disk'[u] = disk[u]]_vars
  BY ClosedStep DEF IInv, ClosuresKept
<1> QED
  BY <1>1, Invariance, PTL DEF Spec, ClosedStaysClosed

-----------------------------------------------------------------------------
(* The refinement. *)

\* A queue saved from memory, or with one more entry, is a SaveQueue of Mission.
LEMMA SaveMapped ==
  ASSUME IInv, disk' \in Queues, UNCHANGED <<spent, batch, decided>>,
         \A u \in Units :
           /\ disk'[u].state # disk[u].state =>
                <<disk[u].state, disk'[u].state>> \in Abs!Lifecycle
           /\ disk'[u].state = "DONE" => batch[u].close
           /\ disk'[u].state = "RETAINED" => decided[u] > 0
  PROVE  Abs!SaveQueue
<1>1. [u \in Units |-> disk'[u].state] \in [Units -> Abs!States]
  BY DEF Queues, States, Abs!States
<1> QED
  BY <1>1 DEF Abs!SaveQueue

\* The empty mission is an empty Mission.
LEMMA InitMapped == Init => Abs!Init
  BY DEF Init, Abs!Init, EmptyQueue, NoBatch

\* Every step is a step of Mission, or one it does not see.
LEMMA StepMapped ==
  ASSUME IInv, TypeOK', [Next]_vars
  PROVE  [Abs!Next]_(Abs!missionVars)
<1> USE DEF queueVars, storeVars, memoryVars, lockVars, ctlVars, envVars
<1> SUFFICES ASSUME NEW c \in Controllers, Step(c) PROVE [Abs!Next]_(Abs!missionVars)
  BY DEF Next, vars, Abs!missionVars, At
<1>1. CASE Start(c) BY <1>1 DEF Start, Abs!missionVars, At
<1>2. CASE RegisterLedger(c) BY <1>2 DEF RegisterLedger, Abs!missionVars, At
<1>3. CASE RegisterMission(c) BY <1>3 DEF RegisterMission, Abs!missionVars, At
<1>4. CASE Enqueue(c)
  <2>1. PICK u \in Units : /\ mem[c][u].state = "ABSENT"
                           /\ mem'[c][u].state = "PENDING"
                           /\ \A v \in Units : v # u => mem'[c][v] = mem[c][v]
                           /\ disk' = mem'[c]
    BY <1>4, EnqueueFacts DEF IInv
  <2>2. Abs!SaveQueue
    BY <1>4, <2>1, SaveMapped DEF Enqueue, IInv, TypeOK, MemoryFollows,
       MemoryBacked, Abs!Lifecycle
  <2> QED
    BY <2>2 DEF Abs!Next
<1>5. CASE BeginTurn(c) BY <1>5 DEF BeginTurn, Abs!missionVars, At
<1>6. CASE Reserve(c)
  <2>1. cur[c] \in Units /\ Fits(cur[c])
    BY <1>6, InHandUnit DEF Reserve, At, IInv, Paid, Chosen
  <2>2. Abs!Reserve
    BY <1>6, <2>1 DEF Reserve, Abs!Reserve, Fits
  <2> QED
    BY <2>2 DEF Abs!Next
<1>7. CASE LockUnit(c) BY <1>7 DEF LockUnit, Abs!missionVars, At
<1>8. CASE LockBusy(c) BY <1>8 DEF LockBusy, Abs!missionVars, At
<1>9. CASE SaveInFlight(c)
  <2>1. Abs!SaveQueue
    BY <1>9, SaveMapped DEF SaveInFlight, At, IInv, TypeOK,
       MemoryFollows, MemoryBacked
  <2> QED
    BY <2>1 DEF Abs!Next
<1>10. CASE TurnStarted(c) BY <1>10 DEF TurnStarted, Abs!missionVars, At
<1>11. CASE LaunchTurn(c) BY <1>11 DEF LaunchTurn, Abs!missionVars, At
<1>12. CASE UpdateRefs(c)
  <2>1. /\ cur[c] \in Units
        /\ mem'[c][cur[c]].state = mem[c][cur[c]].state
        /\ \A v \in Units : v # cur[c] => mem'[c][v] = mem[c][v]
        /\ disk' \in {disk, mem'[c]}
    BY <1>12, UpdateRefsFacts DEF IInv
  <2>2. pc[c] # "off" /\ UNCHANGED <<spent, batch, decided>>
    BY <1>12 DEF UpdateRefs
  <2>3. CASE disk' = disk
    BY <2>2, <2>3 DEF Abs!missionVars
  <2>4. CASE disk' = mem'[c]
    <3>1. disk' \in Queues
      BY DEF TypeOK
    <3>2. \A u \in Units : disk'[u].state = mem[c][u].state
      BY <2>1, <2>4
    <3>3. \A u \in Units :
            /\ disk'[u].state # disk[u].state =>
                 <<disk[u].state, disk'[u].state>> \in Abs!Lifecycle
            /\ disk'[u].state = "DONE" => batch[u].close
            /\ disk'[u].state = "RETAINED" => decided[u] > 0
      BY <2>2, <3>2 DEF IInv, MemoryFollows, MemoryBacked
    <3>4. Abs!SaveQueue
      BY <2>2, <3>1, <3>3, SaveMapped
    <3> QED
      BY <3>4 DEF Abs!Next
  <2> QED
    BY <2>1, <2>3, <2>4
<1>13. CASE TurnReturns(c) BY <1>13 DEF TurnReturns, Abs!missionVars, At
<1>14. CASE TurnRejected(c) BY <1>14 DEF TurnRejected, Abs!missionVars, At
<1>15. CASE CheckReceived(c) BY <1>15 DEF CheckReceived, Abs!missionVars, At
<1>16. CASE OpenBatch(c)
  <2>1. \A u \in Units : batch'[u].close = batch[u].close
    BY <1>16 DEF OpenBatch, IInv, TypeOK, Batches
  <2> QED
    BY <1>16, <2>1 DEF OpenBatch, Abs!missionVars
<1>17. CASE PublishEvidence(c)
  <2>1. \A u \in Units : batch'[u].close = batch[u].close
    BY <1>17 DEF PublishEvidence, IInv, TypeOK, Batches
  <2> QED
    BY <1>17, <2>1 DEF PublishEvidence, Abs!missionVars
<1>18. CASE PublishTask(c)
  <2>1. \A u \in Units : batch'[u].close = batch[u].close
    BY <1>18 DEF PublishTask, IInv, TypeOK, Batches
  <2> QED
    BY <1>18, <2>1 DEF PublishTask, Abs!missionVars
<1>19. CASE CloseBatch(c)
  <2>1. cur[c] \in Units
    BY <1>19, InHandUnit DEF CloseBatch, At, IInv, Flying, Turning
  <2>2. \A u \in Units : batch'[u].close = (batch[u].close \/ u = cur[c])
    BY <1>19, <2>1 DEF CloseBatch, IInv, TypeOK, Batches
  <2>3. Abs!Publish
    BY <1>19, <2>1, <2>2 DEF CloseBatch, Abs!Publish
  <2> QED
    BY <2>3 DEF Abs!Next
<1>20. CASE PublishRejected(c)
  BY <1>20 DEF PublishRejected, Abs!missionVars, At
<1>21. CASE PublishedEvent(c) BY <1>21 DEF PublishedEvent, Abs!missionVars, At
<1>22. CASE AppendMetric(c) BY <1>22 DEF AppendMetric, Abs!missionVars, At
<1>23. CASE MetricRaises(c) BY <1>23 DEF MetricRaises, Abs!missionVars, At
<1>24. CASE WriteHead(c) BY <1>24 DEF WriteHead, Abs!missionVars, At
<1>25. CASE Episode(c) BY <1>25 DEF Episode, Abs!missionVars, At
<1>26. CASE SaveDone(c)
  <2>1. Abs!SaveQueue
    BY <1>26, SaveMapped DEF SaveDone, At, IInv, TypeOK, MemoryFollows,
       MemoryBacked
  <2> QED
    BY <2>1 DEF Abs!Next
<1>27. CASE DoneEvent(c) BY <1>27 DEF DoneEvent, Abs!missionVars, At
<1>28. CASE Decide(c)
  <2>1. cur[c] \in Units
    BY <1>28, InHandUnit DEF Decide, At, IInv, Flying
  <2>2. \A u \in Units : decided'[u] > 0 <=> (decided[u] > 0 \/ u = cur[c])
    BY <1>28, <2>1 DEF Decide, IInv, TypeOK
  <2>3. Abs!Remember
    BY <1>28, <2>1, <2>2 DEF Decide, Abs!Remember
  <2> QED
    BY <2>3 DEF Abs!Next
<1>29. CASE SaveRetained(c)
  <2>1. Abs!SaveQueue
    BY <1>29, SaveMapped DEF SaveRetained, At, IInv, TypeOK,
       MemoryFollows, MemoryBacked
  <2> QED
    BY <2>1 DEF Abs!Next
<1>30. CASE RetainedEvent(c)
  BY <1>30 DEF RetainedEvent, Abs!missionVars, At, CloseLocks
<1>31. CASE Cancel(c) BY <1>31 DEF Cancel, Abs!missionVars, At, CloseLocks
<1>32. CASE Reconcile(c) BY <1>32 DEF Reconcile, Abs!missionVars, At
<1>33. CASE SavePending(c)
  <2>1. Abs!SaveQueue
    BY <1>33, SaveMapped DEF SavePending, At, IInv, TypeOK,
       MemoryFollows, MemoryBacked
  <2> QED
    BY <2>1 DEF Abs!Next
<1>34. CASE Crash(c) BY <1>34 DEF Crash, Abs!missionVars, At, CloseLocks
<1>35. CASE Fault(c) BY <1>35 DEF Fault, Abs!missionVars, At
<1> QED
  BY <1>1, <1>2, <1>3, <1>4, <1>5, <1>6, <1>7, <1>8, <1>9, <1>10, <1>11,
     <1>12, <1>13, <1>14, <1>15, <1>16, <1>17, <1>18, <1>19, <1>20, <1>21,
     <1>22, <1>23, <1>24, <1>25, <1>26, <1>27, <1>28, <1>29, <1>30, <1>31,
     <1>32, <1>33, <1>34, <1>35 DEF Step, Opening, Launching,
     Publishing, Closing, Recovering

\* The controller and its stores implement what Mission promises.
THEOREM Implements == Spec => MissionPromise
<1>1. IInv /\ IInv' /\ [Next]_vars => [Abs!Next]_(Abs!missionVars)
  BY StepMapped DEF IInv
<1> QED
  BY <1>1, InitMapped, Invariance, PTL DEF Spec, MissionPromise, Abs!Spec
=============================================================================
