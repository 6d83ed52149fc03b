---------------------------- MODULE Receipts_proofs ----------------------------
(***************************************************************************)
(* Proofs about the two places where processes that race bind a receipt    *)
(* once and never write it again.                                          *)
(*                                                                         *)
(* Candidate, for any processes, sessions, selections, requests and        *)
(* bounds: type correctness with the binding of receipts, which is the     *)
(* inductive invariant, and from it what no step undoes and what a session *)
(* has recorded when it begins.                                            *)
(*                                                                         *)
(* Publisher, for any processes, batches, items and actors: what a receipt *)
(* rests on is there before it and stays, and the places that the store    *)
(* plans, those of the requests on their way included, are bounded.        *)
(***************************************************************************)
EXTENDS Candidate, Publisher, FiniteSetTheorems, TLAPS

-----------------------------------------------------------------------------
(* Candidate: a shadow and its receipt.                                      *)

\* The shadow is there, and its receipt is whole.
Bound(t) == shadow[t] # None /\ receipt[t] = "whole"

\* A receipt is written only beside its shadow.
ReceiptBound == \A t \in Target : receipt[t] # "none" => shadow[t] # None

\* What each step of a provision has already made.
HostBound ==
  \A h \in Host :
    /\ host[h].pc # "idle" => host[h].target \in Target
    /\ host[h].pc \in {"mark", "fill", "check"} => shadow[host[h].target] # None
    /\ host[h].pc = "check" => receipt[host[h].target] = "whole"

\* What each step of a turn has already checked.
TurnBound ==
  \A m \in Mode :
    /\ turn[m].pc # "idle" => turn[m].target \in Target
    /\ turn[m].pc \in {"measured", "gated", "printed", "editing"} => Bound(turn[m].target)

WorkBound == work # None => Bound(work.target)

IInv == TypeOK /\ ReceiptBound /\ HostBound /\ TurnBound /\ WorkBound

LEMMA InitHolds == Init => IInv
  BY BoundsAssumption DEF Init, IInv, TypeOK, ReceiptBound, HostBound, TurnBound,
      WorkBound, Rev,
     Diff, Target, HostIdle, TurnIdle, HostPc, TurnPc

HostRec == [pc : HostPc, target : Target \union {None}, exact : BOOLEAN, reused : BOOLEAN]
TurnRec == [pc : TurnPc, target : Target \union {None}, diff : Diff,
            then : {"start", "continue", "resume"}]

\* An outsider replaces a shadow by another of the same tree.
LEMMA OutsideStep ==
  ASSUME TypeOK, NEW t \in Target, OutsiderEdits(t)
  PROVE  /\ faults' = faults + 1 /\ faults' # faults /\ shadow[t] # None
         /\ shadow' \in [Target -> Shadow \union {None}] /\ shadow'[t] \in Shadow
         /\ shadow'[t].exact = shadow[t].exact
         /\ \A x \in Target : x # t => shadow'[x] = shadow[x]
         /\ UNCHANGED <<productVars, receipt, host, runs, turn, work>>
<1>1. shadow \in [Target -> Shadow \union {None}] /\ shadow[t] \in Shadow /\ faults \in Nat
  BY DEF TypeOK, OutsiderEdits
<1>2. faults' = faults + 1 /\ faults' # faults
  BY <1>1 DEF OutsiderEdits
<1>3. CASE \E d \in Diff \ {shadow[t].diff} : shadow' = [shadow EXCEPT ![t].diff = d]
  BY <1>1, <1>2, <1>3 DEF OutsiderEdits, Shadow, hostVars, turnVars
<1>4. CASE shadow' = [shadow EXCEPT ![t].moved = TRUE, ![t].diff = 0]
  <2>1. 0 \in Diff
    BY BoundsAssumption DEF Diff
  <2>2. shadow' = [shadow EXCEPT ![t] = [shadow[t] EXCEPT !.moved = TRUE, !.diff = 0]]
    BY <1>1, <1>4
  <2>3. [shadow[t] EXCEPT !.moved = TRUE, !.diff = 0] \in Shadow
    BY <1>1, <2>1 DEF Shadow
  <2>4. QED
    BY <1>1, <1>2, <2>2, <2>3 DEF OutsiderEdits, Shadow, hostVars, turnVars
<1>5. QED
  BY <1>3, <1>4 DEF OutsiderEdits

LEMMA TypeStep == IInv /\ [Next]_vars => TypeOK'
<1> SUFFICES ASSUME TypeOK, HostBound, TurnBound, [Next]_vars PROVE TypeOK'
  BY DEF IInv
<1>1. ASSUME OperatorCommits
      PROVE  TypeOK'
  <2>1. head' \in Rev /\ line' \in SUBSET Rev /\ head' \in line' /\ dirty' \in BOOLEAN
    <3>1. head \in Nat /\ MaxRev \in Nat /\ head < MaxRev /\ head \in 1 .. MaxRev
          /\ line \in SUBSET (1 .. MaxRev) /\ head' = head + 1
      BY <1>1, BoundsAssumption DEF TypeOK, Rev, OperatorCommits
    <3>2. head + 1 \in 1 .. MaxRev
      BY <3>1
    <3>3. QED
      BY <1>1, <3>1, <3>2 DEF Rev, OperatorCommits
  <2>2. QED
    BY <1>1, <2>1 DEF TypeOK, OperatorCommits, hostVars, turnVars
<1>2. ASSUME OperatorRewrites
      PROVE  TypeOK'
  <2>1. head' \in Rev /\ line' \in SUBSET Rev /\ head' \in line' /\ dirty' \in BOOLEAN
    <3>1. head \in Nat /\ MaxRev \in Nat /\ head < MaxRev /\ head \in 1 .. MaxRev
          /\ line \in SUBSET (1 .. MaxRev) /\ head' = head + 1
      BY <1>2, BoundsAssumption DEF TypeOK, Rev, OperatorRewrites
    <3>2. head + 1 \in 1 .. MaxRev
      BY <3>1
    <3>3. QED
      BY <1>2, <3>1, <3>2 DEF Rev, OperatorRewrites
  <2>2. QED
    BY <1>2, <2>1 DEF TypeOK, OperatorRewrites, hostVars, turnVars
<1>3. ASSUME OperatorEdits
      PROVE  TypeOK'
  BY <1>3, BoundsAssumption DEF TypeOK, HostBound, TurnBound, Bound, Target, Shadow,
      Record, Rev, Diff, HostPc, TurnPc, productVars, hostVars, turnVars, OperatorEdits
<1>4. ASSUME NEW t \in Target, OutsiderEdits(t)
      PROVE  TypeOK'
  <2>1. faults' \in 0 .. MaxFaults
    <3>1. faults \in 0 .. MaxFaults /\ MaxFaults \in Nat /\ faults < MaxFaults /\ faults' = faults + 1
      BY <1>4, BoundsAssumption DEF TypeOK, OutsiderEdits
    <3>2. QED
      BY <3>1
  <2>2. UNCHANGED <<head, line, dirty, receipt, host, runs, turn, work>>
    BY <1>4, OutsideStep DEF productVars
  <2>3. shadow' \in [Target -> Shadow \union {None}]
    BY <1>4, OutsideStep
  <2>4. QED
    BY <2>1, <2>2, <2>3 DEF TypeOK
<1>5. ASSUME WritesBack
      PROVE  TypeOK'
  BY <1>5, BoundsAssumption DEF TypeOK, HostBound, TurnBound, Bound, Target, Shadow,
      Record, Rev, Diff, HostPc, TurnPc, productVars, hostVars, turnVars, WritesBack
<1>6. ASSUME NEW h \in Host, NEW w \in Selection \union Request, Provision(h, w)
      PROVE  TypeOK'
  <2>1. head \in Rev /\ [base |-> head, for |-> w] \in Target
    BY DEF TypeOK, Target
  <2>2. \A reused \in BOOLEAN :
          [HostIdle EXCEPT !.pc = IF reused THEN "check" ELSE "copy",
                           !.target = [base |-> head, for |-> w], !.reused = reused] \in HostRec
    BY <2>1 DEF HostIdle, HostPc, HostRec
  <2>3. \E r \in HostRec : host' = [host EXCEPT ![h] = r]
    BY <1>6, <2>2 DEF Provision
  <2>4. host' \in [Host -> HostRec]
    BY <2>3 DEF TypeOK, HostRec
  <2>5. runs' \in 0 .. MaxRuns
    BY <1>6, BoundsAssumption DEF TypeOK, Provision
  <2>6. QED
    BY <1>6, <2>4, <2>5 DEF TypeOK, HostRec, Provision, productVars, turnVars
<1>7. ASSUME NEW h \in Host, Copy(h)
      PROVE  TypeOK'
  BY <1>7, BoundsAssumption DEF TypeOK, HostBound, TurnBound, Bound, Target, Shadow,
      Record, Rev, Diff, HostPc, TurnPc, productVars, hostVars, turnVars, Copy
<1>8. ASSUME NEW h \in Host, Rename(h)
      PROVE  TypeOK'
  BY <1>8, BoundsAssumption DEF TypeOK, HostBound, TurnBound, Bound, Target, Shadow,
      Record, Rev, Diff, HostPc, TurnPc, productVars, hostVars, turnVars, Rename
<1>9. ASSUME NEW h \in Host, OpenReceipt(h)
      PROVE  TypeOK'
  BY <1>9, BoundsAssumption DEF TypeOK, HostBound, TurnBound, Bound, Target, Shadow,
      Record, Rev, Diff, HostPc, TurnPc, productVars, hostVars, turnVars, OpenReceipt
<1>10. ASSUME NEW h \in Host, FillReceipt(h)
      PROVE  TypeOK'
  BY <1>10, BoundsAssumption DEF TypeOK, HostBound, TurnBound, Bound, Target, Shadow,
      Record, Rev, Diff, HostPc, TurnPc, productVars, hostVars, turnVars, FillReceipt
<1>11. ASSUME NEW h \in Host, Grant(h)
      PROVE  TypeOK'
  BY <1>11, BoundsAssumption DEF TypeOK, HostBound, TurnBound, Bound, Target, Shadow,
      Record, Rev, Diff, HostPc, TurnPc, productVars, hostVars, turnVars, Grant, HostIdle
<1>12. ASSUME NEW h \in Host, Refuse(h)
      PROVE  TypeOK'
  BY <1>12, BoundsAssumption DEF TypeOK, HostBound, TurnBound, Bound, Target, Shadow,
      Record, Rev, Diff, HostPc, TurnPc, productVars, hostVars, turnVars, Refuse, HostIdle
<1>13. ASSUME NEW h \in Host, HostCrash(h)
      PROVE  TypeOK'
  BY <1>13, BoundsAssumption DEF TypeOK, HostBound, TurnBound, Bound, Target, Shadow,
      Record, Rev, Diff, HostPc, TurnPc, productVars, hostVars, turnVars, HostCrash,
      HostIdle
<1>14. ASSUME NEW m \in Mode, NEW f \in Selection, ReadRecord(m, f)
      PROVE  TypeOK'
  <2>1. turn[m] \in TurnRec /\ turn \in [Mode -> TurnRec]
    BY DEF TypeOK, TurnRec
  <2>2. head \in Rev
    BY DEF TypeOK
  <2>3. [base |-> head, for |-> f] \in Target /\ 0 \in Diff
    BY <1>14, <2>2, BoundsAssumption DEF TypeOK, Target, Diff, ReadRecord
  <2>4. \E r \in TurnRec : turn' = [turn EXCEPT ![m] = r]
    BY <1>14, <2>1, <2>2, <2>3 DEF ReadRecord, TurnIdle, TurnRec, TurnPc
  <2>5. turn' \in [Mode -> TurnRec]
    BY <2>1, <2>4
  <2>7. QED
    BY <1>14, <2>5 DEF TypeOK, TurnRec, ReadRecord, productVars, hostVars, turnVars
<1>15. ASSUME NEW m \in Mode, Gate(m)
      PROVE  TypeOK'
  <2>1. turn[m] \in TurnRec /\ turn \in [Mode -> TurnRec]
    BY DEF TypeOK, TurnRec
  <2>2. turn[m].target \in Target
    BY <1>15 DEF TurnBound, Gate
  <2>4. \E r \in TurnRec : turn' = [turn EXCEPT ![m] = r]
    BY <1>15, <2>1, <2>2 DEF Gate, TurnRec, TurnPc
  <2>5. turn' \in [Mode -> TurnRec]
    BY <2>1, <2>4
  <2>7. QED
    BY <1>15, <2>5 DEF TypeOK, TurnRec, Gate, productVars, hostVars, turnVars
<1>16. ASSUME NEW m \in Mode, RecordShadow(m)
      PROVE  TypeOK'
  <2>1. turn[m] \in TurnRec /\ turn \in [Mode -> TurnRec]
    BY DEF TypeOK, TurnRec
  <2>2. turn[m].target \in Target
    BY <1>16 DEF TurnBound, RecordShadow, Held, Shadow
  <2>3. shadow[turn[m].target].diff \in Diff
    BY <1>16, <2>2, BoundsAssumption DEF TypeOK, Target, Diff, RecordShadow, Held, Shadow
  <2>4. \E r \in TurnRec : turn' = [turn EXCEPT ![m] = r]
    BY <1>16, <2>1, <2>2, <2>3 DEF RecordShadow, Printed, TurnRec, TurnPc
  <2>5. turn' \in [Mode -> TurnRec]
    BY <2>1, <2>4
  <2>7. QED
    BY <1>16, <2>5 DEF TypeOK, TurnRec, RecordShadow, productVars, hostVars, turnVars,
      Printed
<1>17. ASSUME NEW m \in Mode, Reconcile(m)
      PROVE  TypeOK'
  <2>1. turn[m] \in TurnRec /\ turn \in [Mode -> TurnRec]
    BY DEF TypeOK, TurnRec
  <2>2. turn[m].target \in Target
    BY <1>17 DEF TurnBound, Reconcile, Held, Shadow
  <2>3. shadow[turn[m].target].diff \in Diff
    BY <1>17, <2>2, BoundsAssumption DEF TypeOK, Target, Diff, Reconcile, Held, Shadow
  <2>4. \E r \in TurnRec : turn' = [turn EXCEPT ![m] = r]
    BY <1>17, <2>1, <2>2, <2>3 DEF Reconcile, Printed, TurnRec, TurnPc
  <2>5. turn' \in [Mode -> TurnRec]
    BY <2>1, <2>4
  <2>7. QED
    BY <1>17, <2>5 DEF TypeOK, TurnRec, Reconcile, productVars, hostVars, turnVars, Printed
<1>18. ASSUME NEW m \in Mode, WriteRecord(m)
      PROVE  TypeOK'
  <2>1. turn[m] \in TurnRec /\ turn \in [Mode -> TurnRec]
    BY DEF TypeOK, TurnRec
  <2>2. turn[m].target \in Target
    BY <1>18 DEF TurnBound, WriteRecord
  <2>3. 0 \in Diff
    BY <1>18, <2>2, BoundsAssumption DEF TypeOK, Target, Diff, WriteRecord
  <2>4. \E r \in TurnRec : turn' = [turn EXCEPT ![m] = r]
    BY <1>18, <2>1, <2>2, <2>3 DEF WriteRecord, TurnIdle, TurnRec, TurnPc
  <2>5. turn' \in [Mode -> TurnRec]
    BY <2>1, <2>4
  <2>6. work' \in Record
    BY <1>18, <2>1, <2>2 DEF WriteRecord, Record, TurnRec
  <2>7. QED
    BY <1>18, <2>5, <2>6 DEF TypeOK, TurnRec, WriteRecord, productVars, hostVars
<1>19. ASSUME NEW m \in Mode, Resume(m)
      PROVE  TypeOK'
  <2>1. turn[m] \in TurnRec /\ turn \in [Mode -> TurnRec]
    BY DEF TypeOK, TurnRec
  <2>2. turn[m].target \in Target
    BY <1>19 DEF TurnBound, Resume
  <2>2a. 0 \in Diff
    BY BoundsAssumption DEF Diff
  <2>3. [turn[m] EXCEPT !.pc = "editing", !.diff = 0] \in TurnRec
    BY <2>1, <2>2a DEF TurnRec, TurnPc
  <2>4. \E r \in TurnRec : turn' = [turn EXCEPT ![m] = r]
    BY <1>19, <2>1, <2>3 DEF Resume
  <2>5. turn' \in [Mode -> TurnRec]
    BY <2>1, <2>4
  <2>7. QED
    BY <1>19, <2>5 DEF TypeOK, TurnRec, Resume, productVars, hostVars, turnVars
<1>19a. ASSUME NEW m \in Mode, Measure(m)
      PROVE  TypeOK'
  <2>1. turn[m] \in TurnRec /\ turn \in [Mode -> TurnRec]
    BY DEF TypeOK, TurnRec
  <2>2. turn[m].target \in Target
    BY <1>19a DEF TurnBound, Measure
  <2>3. shadow[turn[m].target].diff \in Diff
    BY <1>19a, <2>2 DEF TypeOK, Measure, Held, Shadow
  <2>4. [turn[m] EXCEPT !.pc = "measured", !.diff = shadow[turn[m].target].diff] \in TurnRec
    BY <2>1, <2>3 DEF TurnRec, TurnPc
  <2>5. turn' \in [Mode -> TurnRec]
    BY <1>19a, <2>1, <2>4 DEF Measure
  <2>7. QED
    BY <1>19a, <2>5 DEF TypeOK, TurnRec, Measure, productVars, hostVars, turnVars
<1>20. ASSUME NEW m \in Mode, Edit(m)
      PROVE  TypeOK'
  <2>1. turn[m].target \in Target
    BY <1>20 DEF TurnBound, Edit
  <2>2. shadow \in [Target -> Shadow \union {None}] /\ shadow[turn[m].target] \in Shadow
    BY <1>20, <2>1 DEF TypeOK, TurnBound, Bound, Edit
  <2>3. shadow' \in [Target -> Shadow \union {None}]
    BY <1>20, <2>1, <2>2 DEF Edit, Shadow
  <2>4. QED
    BY <1>20, <2>3 DEF TypeOK, Edit, productVars, hostVars, turnVars
<1>21. ASSUME NEW m \in Mode, TurnEnds(m)
      PROVE  TypeOK'
  BY <1>21, BoundsAssumption DEF TypeOK, HostBound, TurnBound, Bound, Target, Shadow,
      Record, Rev, Diff, HostPc, TurnPc, productVars, hostVars, turnVars, TurnEnds,
      TurnIdle
<1>22. CASE UNCHANGED vars
  BY <1>22, BoundsAssumption DEF TypeOK, HostBound, TurnBound, Bound, Target, Shadow,
      Record, Rev, Diff, HostPc, TurnPc, productVars, hostVars, turnVars, vars
<1>23. QED
  BY <1>1, <1>2, <1>3, <1>4, <1>5, <1>6, <1>7, <1>8, <1>9, <1>10, <1>11, <1>12, <1>13,
      <1>14, <1>15, <1>16, <1>17, <1>18, <1>19, <1>19a, <1>20, <1>21, <1>22 DEF Next, Operator,
      HostStep, ModeStep

\* A printed record keeps the target of its turn.
LEMMA PrintedStep ==
  ASSUME TypeOK, TurnBound, NEW m \in Mode, NEW next, turn[m].pc # "idle",
         Bound(turn[m].target), Printed(m, next)
  PROVE  TurnBound'
<1>1. UNCHANGED <<shadow, receipt>>
  BY DEF Printed, hostVars
<1>2. turn' = [turn EXCEPT ![m].pc = "printed", ![m].then = next,
                           ![m].diff = shadow[turn[m].target].diff]
  BY DEF Printed
<1>3. turn'[m].pc = "printed" /\ turn'[m].target = turn[m].target
  BY <1>2 DEF TypeOK
<1>4. \A n \in Mode \ {m} : turn'[n] = turn[n]
  BY <1>2 DEF TypeOK
<1>5. QED
  BY <1>1, <1>3, <1>4 DEF TurnBound, Bound

LEMMA BoundStep ==
  IInv /\ [Next]_vars => (ReceiptBound /\ HostBound /\ TurnBound /\ WorkBound)'
<1> SUFFICES ASSUME TypeOK, ReceiptBound, HostBound, TurnBound, WorkBound, [Next]_vars
             PROVE  (ReceiptBound /\ HostBound /\ TurnBound /\ WorkBound)'
  BY DEF IInv
<1>1. ASSUME OperatorCommits
      PROVE  (ReceiptBound /\ HostBound /\ TurnBound /\ WorkBound)'
  BY <1>1, NoneAssumption DEF TypeOK, ReceiptBound, HostBound, TurnBound, WorkBound,
      Bound, Target, Shadow, Record, HostPc, TurnPc, productVars, hostVars, turnVars,
      OperatorCommits
<1>2. ASSUME OperatorRewrites
      PROVE  (ReceiptBound /\ HostBound /\ TurnBound /\ WorkBound)'
  BY <1>2, NoneAssumption DEF TypeOK, ReceiptBound, HostBound, TurnBound, WorkBound,
      Bound, Target, Shadow, Record, HostPc, TurnPc, productVars, hostVars, turnVars,
      OperatorRewrites
<1>3. ASSUME OperatorEdits
      PROVE  (ReceiptBound /\ HostBound /\ TurnBound /\ WorkBound)'
  BY <1>3, NoneAssumption DEF TypeOK, ReceiptBound, HostBound, TurnBound, WorkBound,
      Bound, Target, Shadow, Record, HostPc, TurnPc, productVars, hostVars, turnVars,
      OperatorEdits
<1>4. ASSUME NEW t \in Target, OutsiderEdits(t)
      PROVE  (ReceiptBound /\ HostBound /\ TurnBound /\ WorkBound)'
  BY <1>4, OutsideStep, NoneAssumption DEF TypeOK, ReceiptBound, HostBound, TurnBound,
      WorkBound, Bound, Record
<1>5. ASSUME WritesBack
      PROVE  (ReceiptBound /\ HostBound /\ TurnBound /\ WorkBound)'
  BY <1>5, NoneAssumption DEF TypeOK, ReceiptBound, HostBound, TurnBound, WorkBound,
      Bound, Target, Shadow, Record, HostPc, TurnPc, productVars, hostVars, turnVars,
      WritesBack
<1>6. ASSUME NEW h \in Host, NEW w \in Selection \union Request, Provision(h, w)
      PROVE  (ReceiptBound /\ HostBound /\ TurnBound /\ WorkBound)'
  <2>1. UNCHANGED <<shadow, receipt, turn, work>>
    BY <1>6 DEF Provision, turnVars
  <2>2. HostBound'
    BY <1>6, <2>1 DEF TypeOK, HostBound, Provision, Collides, HostIdle, HostPc, Target, ReceiptBound
  <2>3. QED
    BY <2>1, <2>2 DEF ReceiptBound, TurnBound, WorkBound, Bound
<1>7. ASSUME NEW h \in Host, Copy(h)
      PROVE  (ReceiptBound /\ HostBound /\ TurnBound /\ WorkBound)'
  <2>1. UNCHANGED <<shadow, receipt, turn, work>>
    BY <1>7 DEF Copy, turnVars
  <2>2. HostBound'
    <3>1. CASE shadow[host[h].target] # None
      <4>1. host' = [host EXCEPT ![h].pc = "mark"] /\ host[h].pc = "copy"
        BY <1>7, <3>1 DEF Copy
      <4>2. QED
        BY <2>1, <3>1, <4>1 DEF TypeOK, HostBound
    <3>2. CASE shadow[host[h].target] = None
      <4>1. /\ host[h].pc = "copy"
            /\ \E exact \in BOOLEAN :
                 host' = [host EXCEPT ![h].pc = "rename", ![h].exact = exact]
        BY <1>7, <3>2 DEF Copy
      <4>2. QED
        BY <2>1, <4>1 DEF TypeOK, HostBound
    <3>3. QED
      BY <3>1, <3>2
  <2>3. QED
    BY <2>1, <2>2 DEF ReceiptBound, TurnBound, WorkBound, Bound
<1>8. ASSUME NEW h \in Host, Rename(h)
      PROVE  (ReceiptBound /\ HostBound /\ TurnBound /\ WorkBound)'
  <2>1. host[h].target \in Target /\ shadow[host[h].target] = None
    BY <1>8 DEF HostBound, Rename, Free
  <2>2. shadow'[host[h].target] # None /\ \A x \in Target : shadow[x] # None => shadow'[x] # None
    <3>1. shadow \in [Target -> Shadow \union {None}] /\ host[h].exact \in BOOLEAN /\ 0 \in Diff
      BY BoundsAssumption DEF TypeOK, Diff
    <3>2. [exact |-> host[h].exact, diff |-> 0, moved |-> FALSE] \in Shadow
      BY <3>1 DEF Shadow
    <3>3. shadow' = [shadow EXCEPT ![host[h].target] =
                       [exact |-> host[h].exact, diff |-> 0, moved |-> FALSE]]
      BY <1>8 DEF Rename
    <3>4. QED
      BY <2>1, <3>1, <3>2, <3>3, NoneAssumption
  <2>3. UNCHANGED <<receipt, turn, work>>
    BY <1>8 DEF Rename, turnVars
  <2>4. QED
    BY <1>8, <2>1, <2>2, <2>3
       DEF TypeOK, ReceiptBound, HostBound, TurnBound, WorkBound, Bound, Rename, Record
<1>9. ASSUME NEW h \in Host, OpenReceipt(h)
      PROVE  (ReceiptBound /\ HostBound /\ TurnBound /\ WorkBound)'
  <2>1. host[h].target \in Target /\ shadow[host[h].target] # None
    BY <1>9 DEF HostBound, OpenReceipt
  <2>2. UNCHANGED <<shadow, turn, work>>
    BY <1>9 DEF OpenReceipt, turnVars
  <2>3. \A x \in Target : receipt[x] = "whole" => receipt'[x] = "whole"
    BY <1>9 DEF TypeOK, OpenReceipt
  <2>4. ReceiptBound'
    BY <1>9, <2>1, <2>2 DEF TypeOK, ReceiptBound, OpenReceipt
  <2>5. HostBound'
    BY <1>9, <2>1, <2>2, <2>3 DEF TypeOK, HostBound, OpenReceipt
  <2>6. (TurnBound /\ WorkBound)'
    BY <2>2, <2>3, NoneAssumption DEF TypeOK, Record, TurnBound, WorkBound, Bound
  <2>7. QED
    BY <2>4, <2>5, <2>6
<1>10. ASSUME NEW h \in Host, FillReceipt(h)
      PROVE  (ReceiptBound /\ HostBound /\ TurnBound /\ WorkBound)'
  <2>1. host[h].target \in Target /\ shadow[host[h].target] # None
    BY <1>10 DEF HostBound, FillReceipt
  <2>2. UNCHANGED <<shadow, turn, work>>
    BY <1>10 DEF FillReceipt, turnVars
  <2>3. \A x \in Target : receipt[x] = "whole" => receipt'[x] = "whole"
    BY <1>10 DEF TypeOK, FillReceipt
  <2>4. ReceiptBound'
    BY <1>10, <2>1, <2>2 DEF TypeOK, ReceiptBound, FillReceipt
  <2>5. HostBound'
    BY <1>10, <2>1, <2>2, <2>3 DEF TypeOK, HostBound, FillReceipt
  <2>6. (TurnBound /\ WorkBound)'
    BY <2>2, <2>3, NoneAssumption DEF TypeOK, Record, TurnBound, WorkBound, Bound
  <2>7. QED
    BY <2>4, <2>5, <2>6
<1>11. ASSUME NEW h \in Host, Grant(h)
      PROVE  (ReceiptBound /\ HostBound /\ TurnBound /\ WorkBound)'
  <2>1. UNCHANGED <<shadow, receipt, turn, work>>
    BY <1>11 DEF Grant, turnVars
  <2>2. HostBound'
    BY <1>11, <2>1 DEF TypeOK, HostBound, Grant, HostIdle
  <2>3. QED
    BY <2>1, <2>2 DEF ReceiptBound, TurnBound, WorkBound, Bound
<1>12. ASSUME NEW h \in Host, Refuse(h)
      PROVE  (ReceiptBound /\ HostBound /\ TurnBound /\ WorkBound)'
  <2>1. UNCHANGED <<shadow, receipt, turn, work>>
    BY <1>12 DEF Refuse, turnVars
  <2>2. HostBound'
    BY <1>12, <2>1 DEF TypeOK, HostBound, Refuse, HostIdle
  <2>3. QED
    BY <2>1, <2>2 DEF ReceiptBound, TurnBound, WorkBound, Bound
<1>13. ASSUME NEW h \in Host, HostCrash(h)
      PROVE  (ReceiptBound /\ HostBound /\ TurnBound /\ WorkBound)'
  <2>1. UNCHANGED <<shadow, receipt, turn, work>>
    BY <1>13 DEF HostCrash, turnVars
  <2>2. HostBound'
    BY <1>13, <2>1 DEF TypeOK, HostBound, HostCrash, HostIdle
  <2>3. QED
    BY <2>1, <2>2 DEF ReceiptBound, TurnBound, WorkBound, Bound
<1>14. ASSUME NEW m \in Mode, NEW f \in Selection, ReadRecord(m, f)
      PROVE  (ReceiptBound /\ HostBound /\ TurnBound /\ WorkBound)'
  <2>1. UNCHANGED <<shadow, receipt, host, work>>
    BY <1>14 DEF ReadRecord, hostVars
  <2>2. TurnBound'
    BY <1>14, <2>1 DEF TypeOK, TurnBound, Bound, ReadRecord, TurnIdle, Target, TurnPc
  <2>3. QED
    BY <2>1, <2>2 DEF ReceiptBound, HostBound, WorkBound, Bound
<1>15. ASSUME NEW m \in Mode, Gate(m)
      PROVE  (ReceiptBound /\ HostBound /\ TurnBound /\ WorkBound)'
  <2>1. UNCHANGED <<shadow, receipt, host, work>>
    BY <1>15 DEF Gate, hostVars
  <2>2. TurnBound'
    BY <1>15, <2>1 DEF TypeOK, TurnBound, Bound, Gate, Held
  <2>3. QED
    BY <2>1, <2>2 DEF ReceiptBound, HostBound, WorkBound, Bound
<1>16. ASSUME NEW m \in Mode, RecordShadow(m)
      PROVE  (ReceiptBound /\ HostBound /\ TurnBound /\ WorkBound)'
  <2>1. UNCHANGED <<shadow, receipt, host, work>>
    BY <1>16 DEF RecordShadow, Printed, hostVars
  <2>2. TurnBound'
    <3>1. turn[m].pc # "idle" /\ Bound(turn[m].target)
      BY <1>16 DEF RecordShadow, Held, Bound
    <3>2. \E next : Printed(m, next)
      BY <1>16 DEF RecordShadow
    <3>3. QED
      BY <3>1, <3>2, PrintedStep
  <2>3. QED
    BY <2>1, <2>2 DEF ReceiptBound, HostBound, WorkBound, Bound
<1>17. ASSUME NEW m \in Mode, Reconcile(m)
      PROVE  (ReceiptBound /\ HostBound /\ TurnBound /\ WorkBound)'
  <2>1. UNCHANGED <<shadow, receipt, host, work>>
    BY <1>17 DEF Reconcile, Printed, hostVars
  <2>2. TurnBound'
    <3>1. turn[m].pc # "idle" /\ Bound(turn[m].target)
      BY <1>17 DEF Reconcile, Held, Bound
    <3>2. \E next : Printed(m, next)
      BY <1>17 DEF Reconcile
    <3>3. QED
      BY <3>1, <3>2, PrintedStep
  <2>3. QED
    BY <2>1, <2>2 DEF ReceiptBound, HostBound, WorkBound, Bound
<1>18. ASSUME NEW m \in Mode, WriteRecord(m)
      PROVE  (ReceiptBound /\ HostBound /\ TurnBound /\ WorkBound)'
  BY <1>18, NoneAssumption DEF TypeOK, ReceiptBound, HostBound, TurnBound, WorkBound,
      Bound, Target, Shadow, Record, HostPc, TurnPc, productVars, hostVars, turnVars,
      WriteRecord, TurnIdle
<1>19. ASSUME NEW m \in Mode, Resume(m)
      PROVE  (ReceiptBound /\ HostBound /\ TurnBound /\ WorkBound)'
  <2>1. UNCHANGED <<shadow, receipt, host, work>>
    BY <1>19 DEF Resume, hostVars
  <2>2. TurnBound'
    BY <1>19, <2>1 DEF TypeOK, TurnBound, Bound, Resume, Held
  <2>3. QED
    BY <2>1, <2>2 DEF ReceiptBound, HostBound, WorkBound, Bound
<1>19a. ASSUME NEW m \in Mode, Measure(m)
      PROVE  (ReceiptBound /\ HostBound /\ TurnBound /\ WorkBound)'
  <2>1. UNCHANGED <<shadow, receipt, host, work>>
    BY <1>19a DEF Measure, hostVars
  <2>2. TurnBound'
    BY <1>19a, <2>1 DEF TypeOK, TurnBound, Bound, Measure, Held
  <2>3. QED
    BY <2>1, <2>2 DEF ReceiptBound, HostBound, WorkBound, Bound
<1>20. ASSUME NEW m \in Mode, Edit(m)
      PROVE  (ReceiptBound /\ HostBound /\ TurnBound /\ WorkBound)'
  BY <1>20, NoneAssumption DEF TypeOK, ReceiptBound, HostBound, TurnBound, WorkBound,
      Bound, Target, Shadow, Record, HostPc, TurnPc, productVars, hostVars, turnVars, Edit
<1>21. ASSUME NEW m \in Mode, TurnEnds(m)
      PROVE  (ReceiptBound /\ HostBound /\ TurnBound /\ WorkBound)'
  <2>1. UNCHANGED <<shadow, receipt, host, work>>
    BY <1>21 DEF TurnEnds, hostVars
  <2>2. TurnBound'
    BY <1>21, <2>1 DEF TypeOK, TurnBound, Bound, TurnEnds, TurnIdle
  <2>3. QED
    BY <2>1, <2>2 DEF ReceiptBound, HostBound, WorkBound, Bound
<1>22. CASE UNCHANGED vars
  BY <1>22, NoneAssumption DEF TypeOK, ReceiptBound, HostBound, TurnBound, WorkBound,
      Bound, Target, Shadow, Record, HostPc, TurnPc, productVars, hostVars, turnVars, vars
<1>23. QED
  BY <1>1, <1>2, <1>3, <1>4, <1>5, <1>6, <1>7, <1>8, <1>9, <1>10, <1>11, <1>12, <1>13,
      <1>14, <1>15, <1>16, <1>17, <1>18, <1>19, <1>19a, <1>20, <1>21, <1>22 DEF Next, Operator,
      HostStep, ModeStep

LEMMA Invariance == Spec => []IInv
<1>1. IInv /\ [Next]_vars => IInv'
  BY TypeStep, BoundStep DEF IInv
<1>2. QED
  BY InitHolds, <1>1, PTL DEF Spec

\* Every variable keeps its type.
THEOREM TypeCorrect == Spec => []TypeOK
<1>1. IInv => TypeOK
  BY DEF IInv
<1>2. QED
  BY Invariance, <1>1, PTL

\* The record and every session at work name a shadow with its whole receipt.
THEOREM BoundByReceiptHolds == Spec => []BoundByReceipt
<1>1. IInv => BoundByReceipt
  BY DEF IInv, BoundByReceipt, WorkBound, TurnBound, Bound
<1>2. QED
  BY Invariance, <1>1, PTL

-----------------------------------------------------------------------------
(* What no step undoes.                                                    *)

LEMMA OrphanStep ==
  TypeOK /\ [Next]_vars => \A x \in Target : Orphan(x) => Orphan(x)'
<1> SUFFICES ASSUME TypeOK, [Next]_vars
             PROVE  \A x \in Target : Orphan(x) => Orphan(x)'
  OBVIOUS
<1>1. ASSUME OperatorCommits
      PROVE  \A x \in Target : Orphan(x) => Orphan(x)'
  BY <1>1, NoneAssumption DEF TypeOK, Orphan, Binding, Target, Shadow, HostPc,
      productVars, hostVars, turnVars, OperatorCommits
<1>2. ASSUME OperatorRewrites
      PROVE  \A x \in Target : Orphan(x) => Orphan(x)'
  BY <1>2, NoneAssumption DEF TypeOK, Orphan, Binding, Target, Shadow, HostPc,
      productVars, hostVars, turnVars, OperatorRewrites
<1>3. ASSUME OperatorEdits
      PROVE  \A x \in Target : Orphan(x) => Orphan(x)'
  BY <1>3, NoneAssumption DEF TypeOK, Orphan, Binding, Target, Shadow, HostPc,
      productVars, hostVars, turnVars, OperatorEdits
<1>4. ASSUME NEW t \in Target, OutsiderEdits(t)
      PROVE  \A x \in Target : Orphan(x) => Orphan(x)'
  BY <1>4, OutsideStep, NoneAssumption DEF Orphan, Binding, Shadow
<1>5. ASSUME WritesBack
      PROVE  \A x \in Target : Orphan(x) => Orphan(x)'
  BY <1>5, NoneAssumption DEF TypeOK, Orphan, Binding, Target, Shadow, HostPc,
      productVars, hostVars, turnVars, WritesBack
<1>6. ASSUME NEW h \in Host, NEW w \in Selection \union Request, Provision(h, w)
      PROVE  \A x \in Target : Orphan(x) => Orphan(x)'
  BY <1>6, NoneAssumption DEF TypeOK, Orphan, Binding, Target, Shadow, HostPc,
      productVars, hostVars, turnVars, Provision, Collides, HostIdle
<1>7. ASSUME NEW h \in Host, Copy(h)
      PROVE  \A x \in Target : Orphan(x) => Orphan(x)'
  BY <1>7, NoneAssumption DEF TypeOK, Orphan, Binding, Target, Shadow, HostPc,
      productVars, hostVars, turnVars, Copy
<1>8. ASSUME NEW h \in Host, Rename(h)
      PROVE  \A x \in Target : Orphan(x) => Orphan(x)'
  BY <1>8, NoneAssumption DEF TypeOK, Orphan, Binding, Target, Shadow, HostPc,
      productVars, hostVars, turnVars, Rename, Free
<1>9. ASSUME NEW h \in Host, OpenReceipt(h)
      PROVE  \A x \in Target : Orphan(x) => Orphan(x)'
  BY <1>9, NoneAssumption DEF TypeOK, Orphan, Binding, Target, Shadow, HostPc,
      productVars, hostVars, turnVars, OpenReceipt
<1>10. ASSUME NEW h \in Host, FillReceipt(h)
      PROVE  \A x \in Target : Orphan(x) => Orphan(x)'
  BY <1>10, NoneAssumption DEF TypeOK, Orphan, Binding, Target, Shadow, HostPc,
      productVars, hostVars, turnVars, FillReceipt
<1>11. ASSUME NEW h \in Host, Grant(h)
      PROVE  \A x \in Target : Orphan(x) => Orphan(x)'
  BY <1>11, NoneAssumption DEF TypeOK, Orphan, Binding, Target, Shadow, HostPc,
      productVars, hostVars, turnVars, Grant, HostIdle
<1>12. ASSUME NEW h \in Host, Refuse(h)
      PROVE  \A x \in Target : Orphan(x) => Orphan(x)'
  BY <1>12, NoneAssumption DEF TypeOK, Orphan, Binding, Target, Shadow, HostPc,
      productVars, hostVars, turnVars, Refuse, HostIdle
<1>13. ASSUME NEW h \in Host, HostCrash(h)
      PROVE  \A x \in Target : Orphan(x) => Orphan(x)'
  BY <1>13, NoneAssumption DEF TypeOK, Orphan, Binding, Target, Shadow, HostPc,
      productVars, hostVars, turnVars, HostCrash, HostIdle
<1>14. ASSUME NEW m \in Mode, NEW f \in Selection, ReadRecord(m, f)
      PROVE  \A x \in Target : Orphan(x) => Orphan(x)'
  BY <1>14, NoneAssumption DEF TypeOK, Orphan, Binding, Target, Shadow, HostPc,
      productVars, hostVars, turnVars, ReadRecord
<1>15. ASSUME NEW m \in Mode, Gate(m)
      PROVE  \A x \in Target : Orphan(x) => Orphan(x)'
  BY <1>15, NoneAssumption DEF TypeOK, Orphan, Binding, Target, Shadow, HostPc,
      productVars, hostVars, turnVars, Gate
<1>16. ASSUME NEW m \in Mode, RecordShadow(m)
      PROVE  \A x \in Target : Orphan(x) => Orphan(x)'
  BY <1>16, NoneAssumption DEF TypeOK, Orphan, Binding, Target, Shadow, HostPc,
      productVars, hostVars, turnVars, RecordShadow, Printed
<1>17. ASSUME NEW m \in Mode, Reconcile(m)
      PROVE  \A x \in Target : Orphan(x) => Orphan(x)'
  BY <1>17, NoneAssumption DEF TypeOK, Orphan, Binding, Target, Shadow, HostPc,
      productVars, hostVars, turnVars, Reconcile, Printed
<1>18. ASSUME NEW m \in Mode, WriteRecord(m)
      PROVE  \A x \in Target : Orphan(x) => Orphan(x)'
  BY <1>18, NoneAssumption DEF TypeOK, Orphan, Binding, Target, Shadow, HostPc,
      productVars, hostVars, turnVars, WriteRecord
<1>19. ASSUME NEW m \in Mode, Resume(m)
      PROVE  \A x \in Target : Orphan(x) => Orphan(x)'
  BY <1>19, NoneAssumption DEF TypeOK, Orphan, Binding, Target, Shadow, HostPc,
      productVars, hostVars, turnVars, Resume
<1>19a. ASSUME NEW m \in Mode, Measure(m)
      PROVE  \A x \in Target : Orphan(x) => Orphan(x)'
  BY <1>19a, NoneAssumption DEF TypeOK, Orphan, Binding, Target, Shadow, HostPc,
      productVars, hostVars, turnVars, Measure
<1>20. ASSUME NEW m \in Mode, Edit(m)
      PROVE  \A x \in Target : Orphan(x) => Orphan(x)'
  BY <1>20, NoneAssumption DEF TypeOK, Orphan, Binding, Target, Shadow, HostPc,
      productVars, hostVars, turnVars, Edit
<1>21. ASSUME NEW m \in Mode, TurnEnds(m)
      PROVE  \A x \in Target : Orphan(x) => Orphan(x)'
  BY <1>21, NoneAssumption DEF TypeOK, Orphan, Binding, Target, Shadow, HostPc,
      productVars, hostVars, turnVars, TurnEnds
<1>22. CASE UNCHANGED vars
  BY <1>22, NoneAssumption DEF TypeOK, Orphan, Binding, Target, Shadow, HostPc,
      productVars, hostVars, turnVars, vars
<1>23. QED
  BY <1>1, <1>2, <1>3, <1>4, <1>5, <1>6, <1>7, <1>8, <1>9, <1>10, <1>11, <1>12, <1>13,
      <1>14, <1>15, <1>16, <1>17, <1>18, <1>19, <1>19a, <1>20, <1>21, <1>22 DEF Next, Operator,
      HostStep, ModeStep

\* A shadow a crash left without its receipt stays without it, whoever provisions.
THEOREM OrphanRetainedHolds == Spec => OrphanRetained
<1>1. TypeOK /\ [Next]_vars => [\A t \in Target : Orphan(t) => Orphan(t)']_vars
  BY OrphanStep
<1>2. QED
  BY TypeCorrect, <1>1, PTL DEF Spec, OrphanRetained

\* How the shadow of a target may change.
KeptAt(t) ==
  /\ shadow'[t] # None /\ shadow'[t].exact = shadow[t].exact
  /\ \/ faults' # faults
     \/ \E m \in Mode : turn[m].pc = "editing" /\ turn[m].target = t

LEMMA KeptStep ==
  TypeOK /\ [Next]_vars =>
    \A x \in Target : shadow[x] # None /\ shadow'[x] # shadow[x] => KeptAt(x)
<1> SUFFICES ASSUME TypeOK, [Next]_vars
             PROVE  \A x \in Target : shadow[x] # None /\ shadow'[x] # shadow[x] => KeptAt(x)
  OBVIOUS
<1>1. ASSUME OperatorCommits
      PROVE  \A x \in Target : shadow[x] # None /\ shadow'[x] # shadow[x] => KeptAt(x)
  BY <1>1, NoneAssumption DEF TypeOK, KeptAt, Target, Shadow, productVars, hostVars,
      turnVars, OperatorCommits
<1>2. ASSUME OperatorRewrites
      PROVE  \A x \in Target : shadow[x] # None /\ shadow'[x] # shadow[x] => KeptAt(x)
  BY <1>2, NoneAssumption DEF TypeOK, KeptAt, Target, Shadow, productVars, hostVars,
      turnVars, OperatorRewrites
<1>3. ASSUME OperatorEdits
      PROVE  \A x \in Target : shadow[x] # None /\ shadow'[x] # shadow[x] => KeptAt(x)
  BY <1>3, NoneAssumption DEF TypeOK, KeptAt, Target, Shadow, productVars, hostVars,
      turnVars, OperatorEdits
<1>4. ASSUME NEW t \in Target, OutsiderEdits(t)
      PROVE  \A x \in Target : shadow[x] # None /\ shadow'[x] # shadow[x] => KeptAt(x)
  BY <1>4, OutsideStep, NoneAssumption DEF KeptAt, Shadow
<1>5. ASSUME WritesBack
      PROVE  \A x \in Target : shadow[x] # None /\ shadow'[x] # shadow[x] => KeptAt(x)
  BY <1>5, NoneAssumption DEF TypeOK, KeptAt, Target, Shadow, productVars, hostVars,
      turnVars, WritesBack
<1>6. ASSUME NEW h \in Host, NEW w \in Selection \union Request, Provision(h, w)
      PROVE  \A x \in Target : shadow[x] # None /\ shadow'[x] # shadow[x] => KeptAt(x)
  BY <1>6, NoneAssumption DEF TypeOK, KeptAt, Target, Shadow, productVars, hostVars,
      turnVars, Provision
<1>7. ASSUME NEW h \in Host, Copy(h)
      PROVE  \A x \in Target : shadow[x] # None /\ shadow'[x] # shadow[x] => KeptAt(x)
  BY <1>7, NoneAssumption DEF TypeOK, KeptAt, Target, Shadow, productVars, hostVars,
      turnVars, Copy
<1>8. ASSUME NEW h \in Host, Rename(h)
      PROVE  \A x \in Target : shadow[x] # None /\ shadow'[x] # shadow[x] => KeptAt(x)
  BY <1>8, NoneAssumption DEF TypeOK, KeptAt, Target, Shadow, productVars, hostVars,
      turnVars, Rename, Free
<1>9. ASSUME NEW h \in Host, OpenReceipt(h)
      PROVE  \A x \in Target : shadow[x] # None /\ shadow'[x] # shadow[x] => KeptAt(x)
  BY <1>9, NoneAssumption DEF TypeOK, KeptAt, Target, Shadow, productVars, hostVars,
      turnVars, OpenReceipt
<1>10. ASSUME NEW h \in Host, FillReceipt(h)
      PROVE  \A x \in Target : shadow[x] # None /\ shadow'[x] # shadow[x] => KeptAt(x)
  BY <1>10, NoneAssumption DEF TypeOK, KeptAt, Target, Shadow, productVars, hostVars,
      turnVars, FillReceipt
<1>11. ASSUME NEW h \in Host, Grant(h)
      PROVE  \A x \in Target : shadow[x] # None /\ shadow'[x] # shadow[x] => KeptAt(x)
  BY <1>11, NoneAssumption DEF TypeOK, KeptAt, Target, Shadow, productVars, hostVars,
      turnVars, Grant
<1>12. ASSUME NEW h \in Host, Refuse(h)
      PROVE  \A x \in Target : shadow[x] # None /\ shadow'[x] # shadow[x] => KeptAt(x)
  BY <1>12, NoneAssumption DEF TypeOK, KeptAt, Target, Shadow, productVars, hostVars,
      turnVars, Refuse
<1>13. ASSUME NEW h \in Host, HostCrash(h)
      PROVE  \A x \in Target : shadow[x] # None /\ shadow'[x] # shadow[x] => KeptAt(x)
  BY <1>13, NoneAssumption DEF TypeOK, KeptAt, Target, Shadow, productVars, hostVars,
      turnVars, HostCrash
<1>14. ASSUME NEW m \in Mode, NEW f \in Selection, ReadRecord(m, f)
      PROVE  \A x \in Target : shadow[x] # None /\ shadow'[x] # shadow[x] => KeptAt(x)
  BY <1>14, NoneAssumption DEF TypeOK, KeptAt, Target, Shadow, productVars, hostVars,
      turnVars, ReadRecord
<1>15. ASSUME NEW m \in Mode, Gate(m)
      PROVE  \A x \in Target : shadow[x] # None /\ shadow'[x] # shadow[x] => KeptAt(x)
  BY <1>15, NoneAssumption DEF TypeOK, KeptAt, Target, Shadow, productVars, hostVars,
      turnVars, Gate
<1>16. ASSUME NEW m \in Mode, RecordShadow(m)
      PROVE  \A x \in Target : shadow[x] # None /\ shadow'[x] # shadow[x] => KeptAt(x)
  BY <1>16, NoneAssumption DEF TypeOK, KeptAt, Target, Shadow, productVars, hostVars,
      turnVars, RecordShadow, Printed
<1>17. ASSUME NEW m \in Mode, Reconcile(m)
      PROVE  \A x \in Target : shadow[x] # None /\ shadow'[x] # shadow[x] => KeptAt(x)
  BY <1>17, NoneAssumption DEF TypeOK, KeptAt, Target, Shadow, productVars, hostVars,
      turnVars, Reconcile, Printed
<1>18. ASSUME NEW m \in Mode, WriteRecord(m)
      PROVE  \A x \in Target : shadow[x] # None /\ shadow'[x] # shadow[x] => KeptAt(x)
  BY <1>18, NoneAssumption DEF TypeOK, KeptAt, Target, Shadow, productVars, hostVars,
      turnVars, WriteRecord
<1>19. ASSUME NEW m \in Mode, Resume(m)
      PROVE  \A x \in Target : shadow[x] # None /\ shadow'[x] # shadow[x] => KeptAt(x)
  BY <1>19, NoneAssumption DEF TypeOK, KeptAt, Target, Shadow, productVars, hostVars,
      turnVars, Resume
<1>19a. ASSUME NEW m \in Mode, Measure(m)
      PROVE  \A x \in Target : shadow[x] # None /\ shadow'[x] # shadow[x] => KeptAt(x)
  BY <1>19a, NoneAssumption DEF TypeOK, KeptAt, Target, Shadow, productVars, hostVars,
      turnVars, Measure
<1>20. ASSUME NEW m \in Mode, Edit(m)
      PROVE  \A x \in Target : shadow[x] # None /\ shadow'[x] # shadow[x] => KeptAt(x)
  BY <1>20, NoneAssumption DEF TypeOK, KeptAt, Target, Shadow, productVars, hostVars,
      turnVars, Edit
<1>21. ASSUME NEW m \in Mode, TurnEnds(m)
      PROVE  \A x \in Target : shadow[x] # None /\ shadow'[x] # shadow[x] => KeptAt(x)
  BY <1>21, NoneAssumption DEF TypeOK, KeptAt, Target, Shadow, productVars, hostVars,
      turnVars, TurnEnds
<1>22. CASE UNCHANGED vars
  BY <1>22, NoneAssumption DEF TypeOK, KeptAt, Target, Shadow, productVars, hostVars,
      turnVars, vars
<1>23. QED
  BY <1>1, <1>2, <1>3, <1>4, <1>5, <1>6, <1>7, <1>8, <1>9, <1>10, <1>11, <1>12, <1>13,
      <1>14, <1>15, <1>16, <1>17, <1>18, <1>19, <1>19a, <1>20, <1>21, <1>22 DEF Next, Operator,
      HostStep, ModeStep

\* No provision replaces a shadow, nor the changes a session is making in it.
THEOREM WorkKeptHolds == Spec => WorkKept
<1>1. TypeOK /\ [Next]_vars =>
        [\A t \in Target : shadow[t] # None /\ shadow'[t] # shadow[t] =>
           /\ shadow'[t] # None /\ shadow'[t].exact = shadow[t].exact
           /\ \/ faults' # faults
              \/ \E m \in Mode : turn[m].pc = "editing" /\ turn[m].target = t]_vars
  BY KeptStep DEF KeptAt
<1>2. QED
  BY TypeCorrect, <1>1, PTL DEF Spec, WorkKept

-----------------------------------------------------------------------------
(* What a session has in work-items.json when it begins.                     *)

\* A record printed to start from is the record of a clean shadow.
PrintedClean ==
  \A m \in Mode : turn[m].pc = "printed" /\ turn[m].then = "start" => turn[m].diff = 0

\* What a session that begins to change code has in work-items.json.
FromRecord(m) ==
  /\ work' # None /\ work'.target = turn'[m].target
  /\ work'.diff \in {0, shadow[work'.target].diff} \/ ChangedSinceMeasured(m)

\* Of the turns, a step changes that of the session that takes it, and no other.
LEMMA TurnStep ==
  ASSUME IInv, NEW m \in Mode, ModeStep(m)
  PROVE  \A n \in Mode \ {m} : turn'[n] = turn[n]
<1>1. turn \in [Mode -> TurnRec]
  BY DEF IInv, TypeOK, TurnRec
<1>2. QED
  BY <1>1 DEF ModeStep, ReadRecord, Gate, RecordShadow, Reconcile, Printed, WriteRecord,
     Measure, Resume, Edit, TurnEnds, turnVars

\* A dirty shadow is printed to resume, or to continue, never to start.
LEMMA CleanStep == IInv /\ PrintedClean /\ [Next]_vars => PrintedClean'
<1> SUFFICES ASSUME IInv, PrintedClean, [Next]_vars PROVE PrintedClean'
  OBVIOUS
<1>1. turn \in [Mode -> TurnRec]
  BY DEF IInv, TypeOK, TurnRec
<1>2. CASE UNCHANGED turn
  BY <1>2 DEF PrintedClean
<1>3. ASSUME NEW m \in Mode, ModeStep(m)
      PROVE  PrintedClean'
  <2>1. SUFFICES turn'[m].pc = "printed" /\ turn'[m].then = "start" => turn'[m].diff = 0
    BY <1>3, TurnStep DEF PrintedClean
  <2>2. turn[m] \in TurnRec
    BY <1>1
  <2>3. CASE RecordShadow(m)
    BY <1>1, <2>2, <2>3 DEF RecordShadow, Printed, TurnRec
  <2>4. CASE Reconcile(m)
    BY <1>1, <2>2, <2>4 DEF Reconcile, Printed, TurnRec
  <2>5. CASE WriteRecord(m)
    BY <1>1, <2>2, <2>5 DEF WriteRecord, TurnIdle, TurnRec
  <2>6. CASE \E f \in Selection : ReadRecord(m, f)
    BY <1>1, <2>2, <2>6 DEF ReadRecord, TurnIdle, TurnRec
  <2>7. CASE Gate(m) \/ Measure(m) \/ Resume(m) \/ Edit(m) \/ TurnEnds(m)
    BY <1>1, <2>2, <2>7 DEF Gate, Measure, Resume, Edit, TurnEnds, turnVars, TurnIdle, TurnRec, PrintedClean
  <2>8. QED
    BY <1>3, <2>3, <2>4, <2>5, <2>6, <2>7 DEF ModeStep
<1>4. CASE Operator \/ WritesBack \/ (\E t \in Target : OutsiderEdits(t))
           \/ \E h \in Host : HostStep(h)
  BY <1>2, <1>4 DEF Operator, OperatorCommits, OperatorRewrites, OperatorEdits, WritesBack,
     OutsiderEdits, HostStep, Provision, Copy, Rename, OpenReceipt, FillReceipt, Grant,
     Refuse, HostCrash, turnVars
<1>5. QED
  BY <1>2, <1>3, <1>4 DEF Next, vars, turnVars

\* Of the steps that lead to changing code, one writes a record and one has checked it.
LEMMA StartsStep ==
  IInv /\ PrintedClean /\ [Next]_vars => \A m \in Mode : Starts(m) => FromRecord(m)
<1> SUFFICES ASSUME IInv, PrintedClean, [Next]_vars, NEW m \in Mode, Starts(m)
             PROVE  FromRecord(m)
  OBVIOUS
<1>1. turn \in [Mode -> TurnRec] /\ turn[m] \in TurnRec /\ turn'[m] # turn[m]
  BY DEF IInv, TypeOK, TurnRec, Starts
<1>2. ModeStep(m)
  <2>1. ASSUME NEW n \in Mode, ModeStep(n) PROVE n = m
    BY <1>1, <2>1, TurnStep
  <2>2. ~(Operator \/ WritesBack \/ (\E t \in Target : OutsiderEdits(t))
          \/ (\E h \in Host : HostStep(h)) \/ UNCHANGED vars)
    BY <1>1 DEF Operator, OperatorCommits, OperatorRewrites, OperatorEdits, WritesBack,
       OutsiderEdits, HostStep, Provision, Copy, Rename, OpenReceipt, FillReceipt, Grant,
       Refuse, HostCrash, turnVars, vars
  <2>3. QED
    BY <2>1, <2>2 DEF Next
<1>3. turn[m].pc # "editing" /\ turn'[m].pc = "editing" /\ turn[m].then # "continue"
  BY DEF Starts
\* What is written is the record that was printed, of a clean shadow.
<1>4. CASE WriteRecord(m)
  <2>1. turn[m].pc = "printed" /\ turn[m].then = "start"
    BY <1>1, <1>3, <1>4 DEF WriteRecord, TurnIdle, TurnRec
  <2>2. work' = [target |-> turn[m].target, diff |-> 0] /\ turn'[m].target = turn[m].target
    BY <1>1, <1>4, <2>1 DEF WriteRecord, TurnIdle, TurnRec, PrintedClean
  <2>3. work' # None
    <3>1. turn[m].target \in Target /\ 0 \in Diff
      BY <2>1, BoundsAssumption DEF IInv, TurnBound, Diff
    <3>2. work' \in Record
      BY <2>2, <3>1 DEF Record
    <3>3. QED
      BY <3>2, NoneAssumption
  <2>4. QED
    BY <2>2, <2>3 DEF FromRecord
\* What is resumed is what the record says.
<1>5. CASE Resume(m)
  BY <1>1, <1>5 DEF Resume, Matches, SameDiff, FromRecord, ChangedSinceMeasured, TurnRec
<1>6. CASE \E f \in Selection : ReadRecord(m, f)
  BY <1>1, <1>3, <1>6 DEF ReadRecord, TurnIdle, TurnRec
<1>7. CASE Gate(m) \/ RecordShadow(m) \/ Reconcile(m) \/ Measure(m) \/ Edit(m)
           \/ TurnEnds(m)
  BY <1>1, <1>3, <1>7 DEF Gate, Measure, RecordShadow, Reconcile, Printed, Edit, TurnEnds, turnVars,
     TurnIdle, TurnRec
<1>8. QED
  BY <1>2, <1>4, <1>5, <1>6, <1>7 DEF ModeStep

\* A session begins only with a record in work-items.json that says what its shadow holds,
\* for any sessions, Host processes and outsiders that write in between, but for what they
\* write in the shadow after the command of the resume has measured it.
THEOREM StartsFromRecordHolds == Spec => StartsFromRecord
<1>1. Init => PrintedClean
  BY DEF Init, PrintedClean, TurnIdle
<1>2. IInv /\ PrintedClean /\ [Next]_vars => PrintedClean'
  BY CleanStep
<1>3. IInv /\ PrintedClean /\ [Next]_vars =>
        [\A m \in Mode : Starts(m) =>
           /\ work' # None /\ work'.target = turn'[m].target
           /\ \/ work'.diff \in {0, shadow[work'.target].diff}
              \/ ChangedSinceMeasured(m)]_vars
  BY StartsStep DEF FromRecord
<1>4. QED
  BY <1>1, <1>2, <1>3, Invariance, PTL DEF Spec, StartsFromRecord

-----------------------------------------------------------------------------
(* Publisher: every operation is a request of one receipt for one key.       *)

\* What a report of a stage has checked.
Earned(b, stage, r) ==
  /\ Resolves(b)
  /\ r.type = "stage" /\ r.status \in Allowed[stage]
  /\ Follows(b, stage, r)
  /\ r.status \in Positive => Grounded(b, stage, r)

\* What close_batch has checked of a delivery, before it knows what opened the batch.
Delivers(b, r) ==
  /\ r.type = "receipt" /\ r.own /\ r.sound
  /\ r.open = store[<<b, "open">>] /\ store[<<b, "open">>] # Nothing
  /\ r.status = "COMPLETE" =>
       /\ \A i \in Item : r.records[i] # Nothing =>
            store[<<b, i>>] = r.records[i] /\ Deliverable(r.records[i]) /\ r.records[i].sound
       /\ Whole(r.records)

\* A receipt that an operation returned, or has on its way, rests on others that are
\* there already.
Rests(k, r) ==
  /\ \A b \in Batch : k = <<b, "open">> => r = Opening
  /\ \A b \in Batch : k = <<b, "close">> => Delivers(b, r)
  /\ \A b \in Batch, stage \in Stage : k = <<b, stage>> => Earned(b, stage, r)

VouchedRests == \A k \in vouched : store[k] # Nothing /\ Rests(k, store[k])
AskedRests == \A p \in Proc : asked[p] # Nothing /\ asked[p].op => Rests(asked[p].key, asked[p].receipt)

LEMMA Keys ==
  /\ \A b \in Batch, x \in Part \union Item : <<b, x>> \in Key /\ <<b, x>>[1] = b /\ <<b, x>>[2] = x
  /\ \A l \in Loose : <<"loose", l>> \in Key
  /\ \A k \in Key : \/ \E b \in Batch, x \in Part \union Item : k = <<b, x>>
                    \/ \E l \in Loose : k = <<"loose", l>>
<1>1. \A b \in Batch, x \in Part \union Item : <<b, x>> \in Key /\ <<b, x>>[1] = b /\ <<b, x>>[2] = x
  BY DEF Key
<1>2. \A l \in Loose : <<"loose", l>> \in Key
  BY DEF Key
<1>3. \A k \in Batch \X (Part \union Item) : \E b \in Batch, x \in Part \union Item : k = <<b, x>>
  OBVIOUS
<1>4. \A k \in {"loose"} \X Loose : \E l \in Loose : k = <<"loose", l>>
  OBVIOUS
<1>5. QED
  BY <1>1, <1>2, <1>3, <1>4 DEF Key

LEMMA PartNames ==
  /\ "open" \notin Stage \union Item /\ "close" \notin Stage \union Item /\ Stage \intersect Item = {}
  /\ "open" \in Part /\ "close" \in Part /\ Stage \subseteq Part
  BY PartsAssumption DEF Part, Stage

LEMMA Names == \A b, c \in Batch, x, y \in Part \union Item : <<b, x>> = <<c, y>> <=> b = c /\ x = y
  OBVIOUS

\* The receipts the operations write are receipts.
LEMMA Written ==
  /\ Opening \in Entry /\ Evidence \in Entry /\ \A e \in Item : Task(e) \in Entry
  /\ \A stage \in Stage : \A status \in Allowed[stage] : \A e \in Item \union {Nothing}, a \in Actor :
       LET r == Report(status, e, a)
       IN r \in Entry /\ r.type = "stage" /\ r.status = status /\ r.evidence = e /\ r.actor = a
<1>1. Blank \in Entry
  BY DEF Blank, Entry
<1>2. Opening \in Entry /\ Evidence \in Entry /\ \A e \in Item : Task(e) \in Entry
  BY <1>1 DEF Opening, Evidence, Task, Entry
<1>3. \A stage \in Stage : Allowed[stage] \subseteq Verdict
  BY DEF Verdict
<1>4. ASSUME NEW status \in Verdict, NEW e \in Item \union {Nothing}, NEW a \in Actor
      PROVE  LET r == Report(status, e, a)
             IN r \in Entry /\ r.type = "stage" /\ r.status = status /\ r.evidence = e /\ r.actor = a
  BY DEF Report, Blank, Entry
<1>5. QED
  BY <1>2, <1>3, <1>4

\* A request is published directly, or comes from an operation of the owner's that has
\* checked what its receipt rests on.
Operation(p) ==
  \/ PublishRaw(p)
  \/ \E b \in Batch : \/ OpenBatch(p, b) \/ CloseBatch(p, b)
                      \/ \E i \in Item : PublishRecord(p, b, i)
                      \/ \E stage \in Stage : ReportStage(p, b, stage)

LEMMA Requests ==
  ASSUME PublisherTypeOK, NEW p \in Proc, Operation(p)
  PROVE  \E k \in Key, r \in Receipt : /\ Placed(k, r)
                                       /\ \/ Ask(p, k, r, FALSE)
                                          \/ Publish(p, k, r) /\ Rests(k, r)
<1>1. CASE PublishRaw(p)
  <2>1. PICK x \in Raw : Ask(p, x.key, x.receipt, FALSE)
    BY <1>1 DEF PublishRaw
  <2>2. x.key \in Key /\ x.receipt \in Receipt
    BY RawAssumption
  <2>3. Placed(x.key, x.receipt)
    BY <2>2, RawAssumption DEF Placed, Receipt
  <2>4. QED
    BY <2>1, <2>2, <2>3
<1>2. CASE \E b \in Batch : OpenBatch(p, b)
  <2>1. PICK b \in Batch : OpenBatch(p, b)
    BY <1>2
  <2>2. \A c \in Batch, x \in {"close"} \union Stage : <<b, "open">> # <<c, x>>
    BY PartNames
  <2>3. Rests(<<b, "open">>, Opening)
    BY <2>2 DEF Rests
  <2>4. QED
    BY <2>1, <2>3, Keys, PartNames, Written DEF OpenBatch, Placed, Receipt
<1>3. CASE \E b \in Batch, i \in Item : PublishRecord(p, b, i)
  <2>1. PICK b \in Batch, i \in Item : PublishRecord(p, b, i)
    BY <1>3
  <2>2. PICK r \in {Evidence} \union {Task(e) : e \in Item} : Publish(p, <<b, i>>, r)
    BY <2>1 DEF PublishRecord
  <2>3. r \in Entry
    BY Written
  <2>4. \A c \in Batch, x \in {"open", "close"} \union Stage : <<b, i>> # <<c, x>>
    BY PartNames
  <2>5. Rests(<<b, i>>, r)
    BY <2>4 DEF Rests
  <2>6. QED
    BY <2>2, <2>3, <2>5, Keys DEF Placed, Receipt
<1>4. CASE \E b \in Batch : CloseBatch(p, b)
  <2>1. PICK b \in Batch : CloseBatch(p, b)
    BY <1>4
  <2>2. PICK R \in SUBSET {i \in Item : Deliverable(store[<<b, i>>])}, st \in {"COMPLETE", "PARTIAL"} :
          LET records == [i \in Item |-> IF i \in R THEN store[<<b, i>>] ELSE Nothing]
          IN /\ st = "COMPLETE" => Whole(records) /\ \A i \in R : records[i].sound
             /\ Publish(p, <<b, "close">>,
                        [type |-> "receipt", status |-> st, open |-> store[<<b, "open">>],
                         records |-> records, sound |-> TRUE, own |-> TRUE])
    BY <2>1 DEF CloseBatch
  <2> DEFINE records == [i \in Item |-> IF i \in R THEN store[<<b, i>>] ELSE Nothing]
             r == [type |-> "receipt", status |-> st, open |-> store[<<b, "open">>],
                   records |-> records, sound |-> TRUE, own |-> TRUE]
  <2>3. \A x \in (Part \union Item) \ {"close"} : store[<<b, x>>] # Nothing => store[<<b, x>>] \in Entry
    BY Keys DEF PublisherTypeOK, Placed
  <2>4. \A i \in R : i \in Item /\ Deliverable(store[<<b, i>>]) /\ store[<<b, i>>] \in Entry
    BY <2>3, PartNames DEF Deliverable
  <2>5. store[<<b, "open">>] \in Entry /\ store[<<b, "open">>] # Nothing
    BY <2>1, <2>3, PartNames DEF CloseBatch, Owned
  <2>6. records \in [Item -> Entry \union {Nothing}]
    BY <2>4
  <2>7. r \in Closing
    BY <2>5, <2>6 DEF Closing
  <2>8. \A c \in Batch, x \in {"open"} \union Stage : <<b, "close">> # <<c, x>>
    BY PartNames
  <2>9. Delivers(b, r)
    <3>1. \A i \in Item : records[i] # Nothing => i \in R /\ records[i] = store[<<b, i>>]
      OBVIOUS
    <3>2. r.status = "COMPLETE" => Whole(r.records) /\ \A i \in R : r.records[i].sound
      BY <2>2
    <3>3. QED
      BY <2>4, <2>5, <3>1, <3>2 DEF Delivers
  <2>10. \A c \in Batch : <<b, "close">> = <<c, "close">> => c = b
    OBVIOUS
  <2> HIDE DEF r
  <2>11. Rests(<<b, "close">>, r)
    BY <2>8, <2>9, <2>10 DEF Rests
  <2>12. Publish(p, <<b, "close">>, r)
    BY <2>2 DEF r
  <2>13. QED
    BY <2>7, <2>11, <2>12, Keys, PartNames DEF Placed, Receipt
<1>5. CASE \E b \in Batch, stage \in Stage : ReportStage(p, b, stage)
  <2>1. PICK b \in Batch, stage \in Stage : ReportStage(p, b, stage)
    BY <1>5
  <2>2. PICK status \in Allowed[stage], evidence \in Item \union {Nothing}, actor \in Actor :
          LET r == Report(status, evidence, actor)
          IN /\ Follows(b, stage, r)
             /\ IF status \in Positive THEN Grounded(b, stage, r) ELSE evidence = Nothing
             /\ Publish(p, <<b, stage>>, r)
    BY <2>1 DEF ReportStage
  <2> DEFINE r == Report(status, evidence, actor)
  <2>3. r \in Entry /\ r.type = "stage" /\ r.status = status
    BY Written
  <2> HIDE DEF r
  <2>4. Earned(b, stage, r)
    BY <2>1, <2>2, <2>3 DEF ReportStage, Earned, r
  <2>5. \A c \in Batch, x \in {"open", "close"} : <<b, stage>> # <<c, x>>
    BY PartNames
  <2>6. \A c \in Batch, x \in Stage : <<b, stage>> = <<c, x>> => c = b /\ x = stage
    OBVIOUS
  <2>7. Rests(<<b, stage>>, r)
    BY <2>4, <2>5, <2>6 DEF Rests
  <2>8. Publish(p, <<b, stage>>, r)
    BY <2>2 DEF r
  <2>9. QED
    BY <2>3, <2>7, <2>8, Keys, PartNames DEF Placed, Receipt
<1>6. QED
  BY <1>1, <1>2, <1>3, <1>4, <1>5 DEF Operation

-----------------------------------------------------------------------------
(* What a step may do: request, return what is there, link what was          *)
(* requested, or give it up.                                                 *)

LEMMA Steps ==
  ASSUME PublisherTypeOK, PublisherNext
  PROVE  \E p \in Proc :
           \/ \E k \in Key, r \in Receipt, op \in BOOLEAN :
                Ask(p, k, r, op) /\ Placed(k, r) /\ (op => Rests(k, r))
           \/ \E k \in Key, r \in Receipt : Again(p, k, r) /\ Placed(k, r) /\ Rests(k, r)
           \/ Link(p) \/ Crash(p)
<1>1. PICK p \in Proc : Operation(p) \/ Link(p) \/ Crash(p)
  BY DEF PublisherNext, Operation
<1>2. CASE Operation(p)
  <2>1. PICK k \in Key, r \in Receipt : Placed(k, r) /\ (Ask(p, k, r, FALSE) \/ (Publish(p, k, r) /\ Rests(k, r)))
    BY <1>2, Requests
  <2>2. \/ Ask(p, k, r, FALSE)
        \/ Ask(p, k, r, TRUE) /\ Rests(k, r)
        \/ Again(p, k, r) /\ Rests(k, r)
    BY <2>1 DEF Publish
  <2>3. QED
    BY <2>1, <2>2
<1>3. QED
  BY <1>1, <1>2

\* What the steps leave in each variable.
LEMMA Effects ==
  ASSUME PublisherTypeOK
  PROVE  /\ \A p \in Proc, k \in Key, r \in Receipt, op \in BOOLEAN : Ask(p, k, r, op) =>
              /\ store' = store /\ vouched' = vouched /\ DOMAIN asked' = Proc
              /\ asked'[p] = [key |-> k, receipt |-> r, op |-> op]
              /\ \A q \in Proc \ {p} : asked'[q] = asked[q]
         /\ \A p \in Proc, k \in Key, r \in Receipt : Again(p, k, r) =>
              store' = store /\ asked' = asked /\ store[k] = r /\ vouched' = vouched \union {k}
         /\ \A p \in Proc : Link(p) \/ Crash(p) =>
              /\ asked[p] # Nothing /\ DOMAIN asked' = Proc /\ asked'[p] = Nothing
              /\ \A q \in Proc \ {p} : asked'[q] = asked[q]
         /\ \A p \in Proc : Link(p) =>
              /\ asked[p].key \in Key /\ asked[p].receipt \in Receipt /\ DOMAIN store' = Key
              /\ \A k \in Key : store'[k] = IF k = asked[p].key /\ store[k] = Nothing
                                             THEN asked[p].receipt ELSE store[k]
              /\ vouched' = IF asked[p].op /\ store'[asked[p].key] = asked[p].receipt
                            THEN vouched \union {asked[p].key} ELSE vouched
         /\ \A p \in Proc : Crash(p) => store' = store /\ vouched' = vouched
<1>1. ASSUME NEW p \in Proc, NEW k \in Key, NEW r \in Receipt, NEW op \in BOOLEAN, Ask(p, k, r, op)
      PROVE  /\ store' = store /\ vouched' = vouched /\ DOMAIN asked' = Proc
             /\ asked'[p] = [key |-> k, receipt |-> r, op |-> op]
             /\ \A q \in Proc \ {p} : asked'[q] = asked[q]
  BY <1>1 DEF Ask, PublisherTypeOK
<1>2. ASSUME NEW p \in Proc, Link(p) \/ Crash(p)
      PROVE  /\ asked[p] # Nothing /\ DOMAIN asked' = Proc /\ asked'[p] = Nothing
             /\ \A q \in Proc \ {p} : asked'[q] = asked[q]
  BY <1>2 DEF Link, Crash, Return, PublisherTypeOK
<1>3. ASSUME NEW p \in Proc, Link(p)
      PROVE  /\ asked[p].key \in Key /\ asked[p].receipt \in Receipt /\ DOMAIN store' = Key
             /\ \A k \in Key : store'[k] = IF k = asked[p].key /\ store[k] = Nothing
                                            THEN asked[p].receipt ELSE store[k]
             /\ vouched' = IF asked[p].op /\ store'[asked[p].key] = asked[p].receipt
                           THEN vouched \union {asked[p].key} ELSE vouched
  <2>1. asked[p].key \in Key /\ asked[p].receipt \in Receipt
    BY <1>3 DEF Link, PublisherTypeOK
  <2>2. QED
    BY <1>3, <2>1 DEF Link, Return, PublisherTypeOK
<1>4. QED
  BY <1>1, <1>2, <1>3 DEF Again, Crash

\* A receipt is never written again.
LEMMA Kept ==
  ASSUME PublisherTypeOK, [PublisherNext]_publisherVars
  PROVE  \A k \in Key : store[k] # Nothing => store'[k] = store[k]
<1>1. CASE UNCHANGED publisherVars
  BY <1>1 DEF publisherVars
<1>2. CASE PublisherNext
  BY <1>2, Steps, Effects
<1>3. QED
  BY <1>1, <1>2

THEOREM ReceiptsTyped == PublisherSpec => []PublisherTypeOK
<1>1. PublisherInit => PublisherTypeOK
  BY DEF PublisherInit, PublisherTypeOK
<1>2. PublisherTypeOK /\ [PublisherNext]_publisherVars => PublisherTypeOK'
  <2>1. SUFFICES ASSUME PublisherTypeOK, [PublisherNext]_publisherVars PROVE PublisherTypeOK'
    OBVIOUS
  <2>2. CASE UNCHANGED publisherVars
    BY <2>1, <2>2 DEF PublisherTypeOK, publisherVars, Placed
  <2>3. CASE PublisherNext
    <3> DEFINE Wanted == [key : Key, receipt : Receipt, op : BOOLEAN]
    <3>0. asked \in [Proc -> Wanted \union {Nothing}]
      BY <2>1 DEF PublisherTypeOK
    <3>1. PICK p \in Proc :
            \/ \E k \in Key, r \in Receipt, op \in BOOLEAN : Ask(p, k, r, op) /\ Placed(k, r)
            \/ \E k \in Key, r \in Receipt : Again(p, k, r)
            \/ Link(p) \/ Crash(p)
      BY <2>1, <2>3, Steps
    <3>2. ASSUME NEW k \in Key, NEW r \in Receipt, NEW op \in BOOLEAN, Ask(p, k, r, op), Placed(k, r)
          PROVE  PublisherTypeOK'
      <4>1. [key |-> k, receipt |-> r, op |-> op] \in Wanted
        OBVIOUS
      <4>2. asked' \in [Proc -> Wanted \union {Nothing}]
        BY <3>0, <3>2, <4>1 DEF Ask
      <4>3. asked'[p].key = k /\ asked'[p].receipt = r /\ \A q \in Proc \ {p} : asked'[q] = asked[q]
        <5>1. asked'[p] = [key |-> k, receipt |-> r, op |-> op]
          BY <2>1, <3>2, Effects
        <5>2. QED
          BY <2>1, <3>2, <5>1, Effects
      <4>4. \A q \in Proc : asked'[q] # Nothing => Placed(asked'[q].key, asked'[q].receipt)
        BY <2>1, <3>2, <4>3 DEF PublisherTypeOK
      <4>5. QED
        BY <2>1, <3>2, <4>2, <4>4, Effects DEF PublisherTypeOK, Placed
    <3>3. ASSUME NEW k \in Key, NEW r \in Receipt, Again(p, k, r)
          PROVE  PublisherTypeOK'
      BY <2>1, <3>3, Effects DEF PublisherTypeOK, Placed
    <3>4. CASE Link(p)
      <4>1. asked[p].receipt \in Receipt /\ Placed(asked[p].key, asked[p].receipt) /\ asked[p].key \in Key
        BY <2>1, <3>4, Effects DEF PublisherTypeOK
      <4>2. store' \in [Key -> Receipt \union {Nothing}]
        BY <2>1, <3>4, <4>1 DEF PublisherTypeOK, Link
      <4>3. asked' \in [Proc -> Wanted \union {Nothing}]
        BY <3>0, <3>4 DEF Link, Return
      <4>4. \A q \in Proc : asked'[q] # Nothing => Placed(asked'[q].key, asked'[q].receipt)
        BY <2>1, <3>4, Effects DEF PublisherTypeOK
      <4>5. \A k \in Key : store'[k] # Nothing => Placed(k, store'[k])
        BY <2>1, <3>4, <4>1, Effects DEF PublisherTypeOK
      <4>6. vouched' \subseteq Key
        BY <2>1, <3>4, <4>1, Effects DEF PublisherTypeOK
      <4>7. QED
        BY <4>2, <4>3, <4>4, <4>5, <4>6 DEF PublisherTypeOK, Placed
    <3>5. CASE Crash(p)
      <4>1. asked' \in [Proc -> Wanted \union {Nothing}]
        BY <3>0, <3>5 DEF Crash
      <4>2. \A q \in Proc : asked'[q] # Nothing => Placed(asked'[q].key, asked'[q].receipt)
        BY <2>1, <3>5, Effects DEF PublisherTypeOK
      <4>3. QED
        BY <2>1, <3>5, <4>1, <4>2, Effects DEF PublisherTypeOK, Placed
    <3>6. QED
      BY <3>1, <3>2, <3>3, <3>4, <3>5
  <2>4. QED
    BY <2>1, <2>2, <2>3
<1>3. QED
  BY <1>1, <1>2, PTL DEF PublisherSpec

-----------------------------------------------------------------------------
(* What a receipt rests on stays.                                            *)

LEMMA ResolvesStays ==
  ASSUME PublisherTypeOK, [PublisherNext]_publisherVars, NEW b \in Batch, Resolves(b)
  PROVE  Resolves(b)'
<1>1. <<b, "open">> \in Key /\ <<b, "close">> \in Key /\ \A i \in Item : <<b, i>> \in Key
  BY Keys, PartNames
<1>2. store'[<<b, "open">>] = store[<<b, "open">>] /\ store'[<<b, "close">>] = store[<<b, "close">>]
  BY <1>1, Kept DEF Resolves
<1>3. \A i \in Item : store[<<b, "close">>].records[i] # Nothing => store'[<<b, i>>] = store[<<b, i>>]
  BY <1>1, Kept DEF Resolves
<1>4. QED
  BY <1>2, <1>3 DEF Resolves, Whole, Deliverable

LEMMA RestsStays ==
  ASSUME PublisherTypeOK, [PublisherNext]_publisherVars, NEW k \in Key, NEW r \in Receipt, Rests(k, r)
  PROVE  Rests(k, r)'
<1>1. ASSUME NEW b \in Batch, k = <<b, "close">>
      PROVE  Delivers(b, r)'
  <2>1. <<b, "open">> \in Key /\ \A i \in Item : <<b, i>> \in Key
    BY Keys, PartNames
  <2>2. Delivers(b, r)
    BY <1>1 DEF Rests
  <2>3. store'[<<b, "open">>] = store[<<b, "open">>]
    BY <2>1, <2>2, Kept DEF Delivers
  <2>4. r.status = "COMPLETE" => \A i \in Item : r.records[i] # Nothing => store'[<<b, i>>] = r.records[i]
    BY <2>1, <2>2, Kept DEF Delivers
  <2>5. QED
    BY <2>2, <2>3, <2>4 DEF Delivers, Whole, Deliverable
<1>2. ASSUME NEW b \in Batch, NEW stage \in Stage, k = <<b, stage>>
      PROVE  Earned(b, stage, r)'
  <2>1. Earned(b, stage, r)
    BY <1>2 DEF Rests
  <2>2. \A x \in {"open", "close"} \union Stage : <<b, x>> \in Key
    BY Keys, PartNames DEF Part
  <2>3. \A x \in {"open", "close"} \union Stage : store[<<b, x>>] # Nothing => store'[<<b, x>>] = store[<<b, x>>]
    BY <2>2, Kept
  <2>4. Resolves(b)' /\ store'[<<b, "close">>] = store[<<b, "close">>]
    BY <2>1, <2>3, ResolvesStays DEF Earned, Resolves
  <2>5. Follows(b, stage, r)'
    BY <2>1, <2>3 DEF Earned, Follows, Reported, Staged, Stage
  <2>6. r.status \in Positive => Grounded(b, stage, r)'
    BY <2>1, <2>3, <2>4 DEF Earned, Follows, Grounded, Reported, Staged, Stage
  <2>7. QED
    BY <2>1, <2>4, <2>5, <2>6 DEF Earned
<1>3. QED
  BY <1>1, <1>2 DEF Rests, Opening, Blank

THEOREM RestsHolds == PublisherSpec => [](VouchedRests /\ AskedRests)
<1>1. PublisherInit => VouchedRests /\ AskedRests
  BY DEF PublisherInit, VouchedRests, AskedRests
<1>2. PublisherTypeOK /\ VouchedRests /\ AskedRests /\ [PublisherNext]_publisherVars => (VouchedRests /\ AskedRests)'
  <2>1. SUFFICES ASSUME PublisherTypeOK, VouchedRests, AskedRests, [PublisherNext]_publisherVars
                 PROVE  (VouchedRests /\ AskedRests)'
    OBVIOUS
  <2>2. ASSUME NEW k \in Key, NEW r \in Receipt, Rests(k, r)
        PROVE  Rests(k, r)'
    BY <2>1, <2>2, RestsStays
  <2>3. \A k \in vouched : k \in Key /\ store[k] # Nothing /\ store[k] \in Receipt /\ Rests(k, store[k])
    BY <2>1 DEF PublisherTypeOK, VouchedRests
  <2>4. \A p \in Proc : asked[p] # Nothing => asked[p].key \in Key /\ asked[p].receipt \in Receipt
    BY <2>1 DEF PublisherTypeOK
  <2>5. \A p \in Proc : asked[p] # Nothing /\ asked[p].op => Rests(asked[p].key, asked[p].receipt)
    BY <2>1 DEF AskedRests
  \* What is vouched for after the step rested on what was there before it.
  <2>6. ASSUME \A k \in vouched' : \E r \in Receipt : k \in Key /\ r = store'[k] /\ Rests(k, r)
        PROVE  VouchedRests'
    <3>1. SUFFICES ASSUME NEW k \in vouched' PROVE store'[k] # Nothing /\ Rests(k, store[k])'
      BY DEF VouchedRests
    <3>2. PICK r \in Receipt : k \in Key /\ r = store'[k] /\ Rests(k, r)
      BY <2>6, <3>1
    <3>3. r # Nothing
      BY NothingAssumption
    <3>4. Rests(k, r)'
      BY <2>2, <3>2
    <3>5. QED
      BY <3>2, <3>3, <3>4
  <2>7. ASSUME \A p \in Proc : asked'[p] # Nothing /\ asked'[p].op =>
                 \E k \in Key, r \in Receipt : k = asked'[p].key /\ r = asked'[p].receipt /\ Rests(k, r)
        PROVE  AskedRests'
    <3>1. SUFFICES ASSUME NEW p \in Proc, asked'[p] # Nothing, asked'[p].op
                   PROVE  Rests(asked[p].key, asked[p].receipt)'
      BY DEF AskedRests
    <3>2. PICK k \in Key, r \in Receipt : k = asked'[p].key /\ r = asked'[p].receipt /\ Rests(k, r)
      BY <2>7, <3>1
    <3>3. Rests(k, r)'
      BY <2>2, <3>2
    <3>4. QED
      BY <3>2, <3>3
  <2>8. CASE UNCHANGED publisherVars
    BY <2>3, <2>4, <2>5, <2>6, <2>7, <2>8 DEF publisherVars
  <2>9. CASE PublisherNext
    <3>1. PICK p \in Proc :
            \/ \E k \in Key, r \in Receipt, op \in BOOLEAN : Ask(p, k, r, op) /\ (op => Rests(k, r))
            \/ \E k \in Key, r \in Receipt : Again(p, k, r) /\ Rests(k, r)
            \/ Link(p) \/ Crash(p)
      BY <2>1, <2>9, Steps
    <3>2. ASSUME NEW k \in Key, NEW r \in Receipt, NEW op \in BOOLEAN, Ask(p, k, r, op), op => Rests(k, r)
          PROVE  (VouchedRests /\ AskedRests)'
      <4>1. /\ store' = store /\ vouched' = vouched
            /\ asked'[p].key = k /\ asked'[p].receipt = r /\ asked'[p].op = op
            /\ \A q \in Proc \ {p} : asked'[q] = asked[q]
        <5>1. asked'[p] = [key |-> k, receipt |-> r, op |-> op]
          BY <2>1, <3>2, Effects
        <5>2. QED
          BY <2>1, <3>2, <5>1, Effects
      <4>2. VouchedRests'
        BY <2>3, <2>6, <4>1
      <4>3. AskedRests'
        BY <2>4, <2>5, <2>7, <3>2, <4>1
      <4>4. QED
        BY <4>2, <4>3
    <3>3. ASSUME NEW k \in Key, NEW r \in Receipt, Again(p, k, r), Rests(k, r)
          PROVE  (VouchedRests /\ AskedRests)'
      <4>1. store' = store /\ asked' = asked /\ store[k] = r /\ vouched' = vouched \union {k}
        BY <2>1, <3>3, Effects
      <4>2. VouchedRests'
        BY <2>3, <2>6, <3>3, <4>1
      <4>3. AskedRests'
        BY <2>4, <2>5, <2>7, <4>1
      <4>4. QED
        BY <4>2, <4>3
    <3>4. CASE Link(p)
      <4>1. /\ asked[p] # Nothing /\ asked[p].key \in Key /\ asked[p].receipt \in Receipt
            /\ \A k \in Key : store[k] # Nothing => store'[k] = store[k]
            /\ \A k \in vouched' : k \in vouched \/ (k = asked[p].key /\ asked[p].op /\ store'[k] = asked[p].receipt)
        BY <2>1, <3>4, Effects
      <4>2. VouchedRests'
        BY <2>3, <2>5, <2>6, <4>1
      <4>3. \A q \in Proc : asked'[q] # Nothing => asked'[q] = asked[q]
        BY <2>1, <3>4, Effects
      <4>4. AskedRests'
        BY <2>4, <2>5, <2>7, <4>3
      <4>5. QED
        BY <4>2, <4>4
    <3>5. CASE Crash(p)
      <4>1. /\ store' = store /\ vouched' = vouched
            /\ \A q \in Proc : asked'[q] # Nothing => asked'[q] = asked[q]
        BY <2>1, <3>5, Effects
      <4>2. QED
        BY <2>3, <2>4, <2>5, <2>6, <2>7, <4>1
    <3>6. QED
      BY <3>1, <3>2, <3>3, <3>4, <3>5
  <2>10. QED
    BY <2>1, <2>8, <2>9
<1>3. QED
  BY <1>1, <1>2, ReceiptsTyped, PTL DEF PublisherSpec

\* What open_batch opened and close_batch delivered always resolves, for any processes that
\* race, any batches and items, and anything published directly into the batch.
THEOREM HandoffHolds == PublisherSpec => []HandoffResolves
<1>1. VouchedRests => HandoffResolves
  <2>1. SUFFICES ASSUME VouchedRests, NEW b \in Batch, <<b, "open">> \in vouched, <<b, "close">> \in vouched,
                        store[<<b, "close">>].status = "COMPLETE"
                 PROVE  Resolves(b)
    BY DEF HandoffResolves
  <2>2. store[<<b, "close">>] # Nothing /\ Delivers(b, store[<<b, "close">>])
    BY <2>1 DEF VouchedRests, Rests
  <2>3. store[<<b, "open">>] # Nothing /\ store[<<b, "open">>] = Opening
    BY <2>1 DEF VouchedRests, Rests
  <2>4. Opening.type = "open" /\ Opening.status = "OPEN" /\ Opening.sound /\ Opening.own
    BY DEF Opening, Blank
  <2>5. QED
    BY <2>1, <2>2, <2>3, <2>4 DEF Delivers, Resolves
<1>2. QED
  BY <1>1, RestsHolds, PTL

\* What report_stage accepted was made, verified and accepted in turn over one delivered
\* evidence, by actors that differ from those before them, for any number of processes,
\* actors and batches and anything published directly into them.
THEOREM AcceptedChainHolds == PublisherSpec => []AcceptedChain
<1>1. VouchedRests => AcceptedChain
  <2>1. SUFFICES ASSUME VouchedRests, NEW b \in Batch, <<b, "auditor">> \in vouched,
                        Reported(b, "auditor", "ACCEPTED")
                 PROVE  LET ex == store[<<b, "executor">>]
                            qa == store[<<b, "qa">>]
                            au == store[<<b, "auditor">>]
                        IN /\ Reported(b, "executor", "CANDIDATE") /\ Reported(b, "qa", "VERIFIED")
                           /\ au.actor \notin {ex.actor, qa.actor}
                           /\ <<b, "qa">> \in vouched => ex.actor # qa.actor
                           /\ ex.evidence = qa.evidence /\ qa.evidence = au.evidence
                           /\ Resolves(b) /\ store[<<b, "close">>].records[au.evidence] # Nothing
    BY DEF AcceptedChain
  <2>2. \A stage \in Stage : <<b, stage>> \in vouched => Earned(b, stage, store[<<b, stage>>])
    BY <2>1 DEF VouchedRests, Rests
  <2>3. Resolves(b) /\ Follows(b, "auditor", store[<<b, "auditor">>])
        /\ Grounded(b, "auditor", store[<<b, "auditor">>]) /\ store[<<b, "auditor">>].status = "ACCEPTED"
    BY <2>1, <2>2 DEF Earned, Positive, Stage, Reported
  <2>4. <<b, "qa">> \in vouched => Follows(b, "qa", store[<<b, "qa">>])
    BY <2>2 DEF Earned, Stage
  <2>5. QED
    BY <2>3, <2>4 DEF Follows, Grounded, Reported, Staged
<1>2. QED
  BY <1>1, RestsHolds, PTL

-----------------------------------------------------------------------------
(* The room of the store, when several processes fill it.                    *)

\* The places that a receipt may take: an opening brings those of its whole batch, unless
\* something that delivers nothing stands already where the batch is closed.
Claims(k, r) ==
  IF k[2] = "open" /\ k[1] \in Batch /\ r.type = "open"
  THEN {k[1]} \X (IF Closed(store, k[1]) /\ store[<<k[1], "close">>].status # "COMPLETE"
                 THEN {"open"} ELSE Part)
  ELSE {k}

\* The places the store has planned, and those the processes in Q are about to add.
PlannedWith(Q) ==
  Planned(store) \union UNION {Claims(asked[p].key, asked[p].receipt) : p \in {q \in Q : asked[q] # Nothing}}

\* What is planned once all that was checked is linked is still within the bound.
RoomAhead ==
  Cardinality(PlannedWith(Proc)) <= MaxRecords + Cardinality(Part) * (Cardinality(Proc) - 1)

\* Keys and parts are finitely many.
LEMMA Finite ==
  /\ IsFiniteSet(Key) /\ IsFiniteSet(Part)
  /\ Cardinality(Part) \in Nat /\ Cardinality(Proc) \in Nat
<1>1. IsFiniteSet(Part)
  <2>1. IsFiniteSet({"open"}) /\ IsFiniteSet({"close"}) /\ IsFiniteSet({"executor"})
        /\ IsFiniteSet({"qa"}) /\ IsFiniteSet({"auditor"})
    BY FS_Singleton
  <2>2. IsFiniteSet(({"open"} \union {"close"}) \union (({"executor"} \union {"qa"}) \union {"auditor"}))
    BY <2>1, FS_Union
  <2>3. Part = ({"open"} \union {"close"}) \union (({"executor"} \union {"qa"}) \union {"auditor"})
    BY DEF Part, Stage
  <2>4. QED
    BY <2>2, <2>3
<1>2. IsFiniteSet(Part \union Item)
  BY <1>1, FS_Union, SetsAssumption
<1>3. IsFiniteSet(Batch \X (Part \union Item)) /\ IsFiniteSet({"loose"} \X Loose)
  BY <1>2, FS_Product, FS_Singleton, SetsAssumption
<1>4. IsFiniteSet(Key)
  BY <1>3, FS_Union DEF Key
<1>5. QED
  BY <1>1, <1>4, FS_CardinalityType, SetsAssumption

\* Only keys are ever planned.
LEMMA PlannedInKeys ==
  ASSUME NEW s
  PROVE  Planned(s) \subseteq Key
  BY Keys, PartNames DEF Planned, Occupied, Reserved, Part, Stage

\* A request claims its key, and no more than the places of one batch.
LEMMA ClaimsKeys ==
  ASSUME NEW k \in Key, NEW r
  PROVE  k \in Claims(k, r) /\ Claims(k, r) \subseteq Key
<1>1. k[2] = "open" /\ k[1] \in Batch => k = <<k[1], "open">>
  BY DEF Key
<1>2. \A b \in Batch, x \in Part : <<b, x>> \in Key
  BY Keys
<1>3. QED
  BY <1>1, <1>2, PartNames DEF Claims

LEMMA ClaimsFew ==
  ASSUME NEW Q \in SUBSET Proc, \A q \in Q : asked[q] # Nothing => asked[q].key \in Key
  PROVE  LET claims == UNION {Claims(asked[p].key, asked[p].receipt) : p \in {q \in Q : asked[q] # Nothing}}
         IN  /\ IsFiniteSet(claims) /\ claims \subseteq Key
             /\ Cardinality(claims) <= Cardinality(Part) * Cardinality(Q)
<1> DEFINE Asking == {q \in Q : asked[q] # Nothing}
           Claimed(q) == Claims(asked[q].key, asked[q].receipt)
           claims == UNION {Claims(asked[p].key, asked[p].receipt) : p \in Asking}
           place == [x \in Part \X Asking |->
                       IF <<asked[x[2]].key[1], x[1]>> \in Claimed(x[2])
                       THEN <<asked[x[2]].key[1], x[1]>> ELSE asked[x[2]].key]
<1>1. IsFiniteSet(Q) /\ IsFiniteSet(Asking) /\ Cardinality(Asking) <= Cardinality(Q)
  BY FS_Subset, SetsAssumption
<1>2. \A q \in Asking : asked[q].key \in Claimed(q) /\ Claimed(q) \subseteq Key
  BY ClaimsKeys
<1>2a. claims \subseteq Key
  BY <1>2
<1>3. place \in [Part \X Asking -> claims]
  <2>1. SUFFICES ASSUME NEW x \in Part \X Asking PROVE place[x] \in claims
    OBVIOUS
  <2>2. x[1] \in Part /\ x[2] \in Asking
    BY <2>1
  <2>3. place[x] \in Claimed(x[2])
    BY <1>2, <2>2
  <2>4. QED
    BY <2>2, <2>3
<1>4. ASSUME NEW k \in claims PROVE \E x \in Part \X Asking : place[x] = k
  <2>1. PICK q \in Asking : k \in Claimed(q)
    BY <1>4
  <2>2. CASE Claimed(q) = {asked[q].key}
    <3>1. <<"open", q>> \in Part \X Asking
      BY PartNames
    <3>2. place[<<"open", q>>] = asked[q].key
      BY <2>2, <3>1
    <3>3. QED
      BY <2>1, <2>2, <3>1, <3>2
  <2>3. CASE Claimed(q) # {asked[q].key}
    <3>1. PICK y \in Part : k = <<asked[q].key[1], y>>
      BY <2>1, <2>3, PartNames DEF Claims
    <3>2. <<y, q>> \in Part \X Asking
      OBVIOUS
    <3>3. place[<<y, q>>] = k
      BY <2>1, <3>1, <3>2
    <3>4. QED
      BY <3>2, <3>3
  <2>4. QED
    BY <2>2, <2>3
<1>5. place \in Surjection(Part \X Asking, claims)
  BY <1>3, <1>4 DEF Surjection
<1>6. IsFiniteSet(Part \X Asking)
      /\ Cardinality(Part \X Asking) = Cardinality(Part) * Cardinality(Asking)
  BY <1>1, Finite, FS_Product
<1>7. IsFiniteSet(claims) /\ Cardinality(claims) <= Cardinality(Part \X Asking)
  BY <1>5, <1>6, FS_Surjection
<1>8. Cardinality(Part) * Cardinality(Asking) <= Cardinality(Part) * Cardinality(Q)
  <2>1. Cardinality(Asking) \in Nat /\ Cardinality(Q) \in Nat /\ Cardinality(Part) \in Nat
    BY <1>1, Finite, FS_CardinalityType
  <2> HIDE DEF Asking
  <2>2. \A x, y, z \in Nat : x <= y => z * x <= z * y
    OBVIOUS
  <2>3. QED
    BY <1>1, <2>1, <2>2
<1>9. Cardinality(claims) <= Cardinality(Part) * Cardinality(Q)
  <2>1. Cardinality(claims) \in Nat
    BY <1>7, FS_CardinalityType
  <2>2. Cardinality(Part) * Cardinality(Asking) \in Nat /\ Cardinality(Part) * Cardinality(Q) \in Nat
    BY <1>1, Finite, FS_CardinalityType
  <2> HIDE DEF claims, Asking
  <2>3. QED
    BY <1>6, <1>7, <1>8, <2>1, <2>2
<1>10. QED
  BY <1>2a, <1>7, <1>9

\* What is published never makes a request claim more.
LEMMA ClaimsShrink ==
  ASSUME PublisherTypeOK, [PublisherNext]_publisherVars, NEW k \in Key, NEW r
  PROVE  Claims(k, r)' \subseteq Claims(k, r)
<1>1. CASE k[1] \in Batch
  <2>1. Closed(store, k[1]) => store'[<<k[1], "close">>] = store[<<k[1], "close">>] /\ Closed(store', k[1])
    BY <1>1, Keys, Kept, PartNames DEF Closed
  <2>2. QED
    BY <2>1, PartNames DEF Claims
<1>2. CASE k[1] \notin Batch
  BY <1>2 DEF Claims
<1>3. QED
  BY <1>1, <1>2

\* Linking a receipt plans no place that its key does not claim.
LEMMA LinkPlans ==
  ASSUME PublisherTypeOK, NEW k \in Key, NEW r \in Receipt, store[k] = Nothing
  PROVE  Planned(With(k, r)) \subseteq Planned(store) \union Claims(k, r)
<1> DEFINE new == With(k, r)
<1>1. \A x \in Key : new[x] = IF x = k THEN r ELSE store[x]
  BY DEF With, PublisherTypeOK
<1>2. k \in Claims(k, r)
  BY ClaimsKeys
<1>3. Occupied(new) \subseteq Planned(store) \union Claims(k, r)
  BY <1>1, <1>2 DEF Occupied, Planned
<1>4. ASSUME NEW b \in Batch, new[<<b, "open">>] # Nothing, new[<<b, "open">>].type = "open",
             NEW x \in {"close"} \union Stage,
             x = "close" => ~Closed(new, b),
             x \in Stage => (Closed(new, b) => new[<<b, "close">>].status = "COMPLETE")
      PROVE  <<b, x>> \in Planned(store) \union Claims(k, r)
  <2>1. <<b, "open">> \in Key /\ <<b, "close">> \in Key /\ <<b, "open">> # <<b, "close">>
    BY Keys, PartNames
  <2>2. CASE k = <<b, "open">>
    <3>1. new[<<b, "close">>] = store[<<b, "close">>]
      BY <1>1, <2>1, <2>2
    <3>2. ~(Closed(store, b) /\ store[<<b, "close">>].status # "COMPLETE")
      BY <1>4, <3>1 DEF Closed
    <3>3. r.type = "open"
      BY <1>1, <1>4, <2>1, <2>2
    <3>4. Claims(k, r) = {b} \X Part
      BY <2>2, <3>2, <3>3 DEF Claims
    <3>5. QED
      BY <1>4, <3>4, PartNames
  <2>3. CASE k # <<b, "open">>
    <3>1. store[<<b, "open">>] # Nothing /\ store[<<b, "open">>].type = "open"
      BY <1>1, <1>4, <2>1, <2>3
    <3>2. Closed(store, b) => Closed(new, b) /\ new[<<b, "close">>] = store[<<b, "close">>]
      BY <1>1, <2>1 DEF Closed
    <3>3. CASE x = "close"
      BY <1>4, <3>1, <3>2, <3>3 DEF Planned, Reserved
    <3>4. CASE x \in Stage
      BY <1>4, <3>1, <3>2, <3>4 DEF Planned, Reserved
    <3>5. QED
      BY <1>4, <3>3, <3>4
  <2>4. QED
    BY <2>2, <2>3
<1>5. Reserved(new) \subseteq Planned(store) \union Claims(k, r)
  <2>1. SUFFICES ASSUME NEW y \in Reserved(new) PROVE y \in Planned(store) \union Claims(k, r)
    OBVIOUS
  <2>2. \E b \in Batch, x \in {"close"} \union Stage :
          /\ new[<<b, "open">>] # Nothing /\ new[<<b, "open">>].type = "open" /\ y = <<b, x>>
          /\ x = "close" => ~Closed(new, b)
          /\ x \in Stage => (Closed(new, b) => new[<<b, "close">>].status = "COMPLETE")
    <3>1. CASE \E b \in Batch : /\ new[<<b, "open">>] # Nothing /\ new[<<b, "open">>].type = "open"
                                /\ ~Closed(new, b) /\ y = <<b, "close">>
      BY <3>1, PartNames
    <3>2. CASE \E b \in Batch, x \in Stage :
                 /\ new[<<b, "open">>] # Nothing /\ new[<<b, "open">>].type = "open"
                 /\ Closed(new, b) => new[<<b, "close">>].status = "COMPLETE"
                 /\ y = <<b, x>>
      BY <3>2, PartNames
    <3>3. QED
      BY <2>1, <3>1, <3>2 DEF Reserved
  <2>3. QED
    BY <1>4, <2>2
<1>6. QED
  BY <1>3, <1>5 DEF Planned

\* A receipt that fits has its places planned by the check; the others had theirs before.
LEMMA AskPlans ==
  ASSUME PublisherTypeOK, NEW k \in Key, NEW r, r # Nothing, store[k] = Nothing
  PROVE  \/ Claims(k, r) \subseteq Planned(store)
         \/ Planned(store) \union Claims(k, r) \subseteq Planned(With(k, r))
<1> DEFINE new == With(k, r)
           True(s, b) == s[<<b, "open">>] # Nothing /\ s[<<b, "open">>].type = "open"
<1>1. \A x \in Key : new[x] = IF x = k THEN r ELSE store[x]
  BY DEF With, PublisherTypeOK
<1>2. Occupied(store) \subseteq Planned(new) /\ k \in Planned(new)
  BY <1>1 DEF Occupied, Planned
<1>3. \A b \in Batch : <<b, "open">> \in Key /\ <<b, "close">> \in Key
  BY Keys, PartNames
<1>4. ASSUME \A b \in Batch : k = <<b, "close">> => ~True(store, b)
      PROVE  Reserved(store) \subseteq Planned(new)
  <2>1. \A b \in Batch : True(store, b) => True(new, b) /\ new[<<b, "close">>] = store[<<b, "close">>]
    BY <1>1, <1>3, <1>4
  <2>2. \A b \in Batch : True(store, b) => (Closed(new, b) <=> Closed(store, b))
    BY <2>1 DEF Closed
  <2>3. Reserved(store) \subseteq Reserved(new)
    BY <2>1, <2>2 DEF Reserved
  <2>4. QED
    BY <2>3 DEF Planned
<1>5. CASE \E b \in Batch : k = <<b, "close">> /\ True(store, b)
  <2>1. PICK b \in Batch : k = <<b, "close">> /\ True(store, b)
    BY <1>5
  <2>2. Claims(k, r) = {<<b, "close">>}
    BY <2>1 DEF Claims
  <2>3. <<b, "close">> \in Reserved(store)
    BY <2>1 DEF Reserved, Closed
  <2>4. QED
    BY <2>2, <2>3 DEF Planned
<1>6. CASE \A b \in Batch : k = <<b, "close">> => ~True(store, b)
  <2>1. Planned(store) \subseteq Planned(new)
    BY <1>2, <1>4, <1>6 DEF Planned
  <2>2. CASE Claims(k, r) = {k}
    BY <1>2, <2>1, <2>2
  <2>3. CASE Claims(k, r) # {k}
    <3>1. k[2] = "open" /\ k[1] \in Batch /\ r.type = "open"
      BY <2>3 DEF Claims
    <3>2. PICK b \in Batch : k = <<b, "open">>
      BY <3>1 DEF Key
    <3>3. True(new, b) /\ new[<<b, "close">>] = store[<<b, "close">>]
      BY <1>1, <1>3, <3>1, <3>2
    <3>4. ~(Closed(new, b) /\ new[<<b, "close">>].status # "COMPLETE")
      BY <2>3, <3>1, <3>2, <3>3 DEF Claims, Closed
    <3>5. \A x \in Stage : <<b, x>> \in Reserved(new)
      BY <3>3, <3>4 DEF Reserved
    <3>6. <<b, "close">> \in Planned(new)
      BY <1>3, <3>3 DEF Reserved, Planned, Occupied, Closed
    <3>7. \A x \in Part : <<b, x>> \in Planned(new)
      BY <1>2, <3>2, <3>5, <3>6 DEF Planned, Part
    <3>8. Claims(k, r) \subseteq {b} \X Part
      BY <3>2, PartNames DEF Claims
    <3>9. QED
      BY <2>1, <3>7, <3>8
  <2>4. QED
    BY <2>2, <2>3
<1>7. QED
  BY <1>5, <1>6

\* A request either claims places that are planned already, or has just counted all but
\* those that the other processes are about to add.
LEMMA AskKeepsRoom ==
  ASSUME PublisherTypeOK, RoomAhead, NEW p \in Proc, NEW k \in Key, NEW r \in Receipt, NEW op \in BOOLEAN,
         Ask(p, k, r, op)
  PROVE  RoomAhead'
<1> DEFINE others == UNION {Claims(asked[q].key, asked[q].receipt) : q \in {q \in Proc \ {p} : asked[q] # Nothing}}
           bound == MaxRecords + Cardinality(Part) * (Cardinality(Proc) - 1)
<1>2. /\ store' = store /\ asked[p] = Nothing /\ asked'[p] # Nothing
      /\ asked'[p].key = k /\ asked'[p].receipt = r
      /\ \A q \in Proc \ {p} : asked'[q] = asked[q]
      /\ store[k] = Nothing /\ Fits(k, r) /\ r # Nothing
  BY NothingAssumption DEF Ask, PublisherTypeOK
<1>3. PlannedWith(Proc)' = Planned(store) \union Claims(k, r) \union others
  <2>1. \A q \in Proc : asked'[q] # Nothing <=> (q = p \/ asked[q] # Nothing)
    BY <1>2
  <2>2. {q \in Proc : asked'[q] # Nothing} = {p} \union {q \in Proc \ {p} : asked[q] # Nothing}
    BY <2>1
  <2>3. UNION {Claims(asked'[q].key, asked'[q].receipt) : q \in {q \in Proc : asked'[q] # Nothing}}
        = Claims(k, r) \union others
    BY <1>2, <2>2
  <2>4. Planned(store)' = Planned(store)
    BY <1>2 DEF Planned, Occupied, Reserved, Closed
  <2>5. \A q \in Proc : Claims(asked[q].key, asked[q].receipt)' = Claims(asked'[q].key, asked'[q].receipt)
    BY <1>2 DEF Claims, Closed
  <2>6. UNION {Claims(asked[q].key, asked[q].receipt)' : q \in {q \in Proc : asked'[q] # Nothing}}
        = UNION {Claims(asked'[q].key, asked'[q].receipt) : q \in {q \in Proc : asked'[q] # Nothing}}
    BY <2>5
  <2>7. QED
    BY <2>3, <2>4, <2>6 DEF PlannedWith
<1>4. PlannedWith(Proc) = Planned(store) \union others
  <2>1. {q \in Proc : asked[q] # Nothing} = {q \in Proc \ {p} : asked[q] # Nothing}
    BY <1>2
  <2>2. QED
    BY <2>1 DEF PlannedWith
<1>6. CASE Claims(k, r) \subseteq Planned(store)
  <2>1. PlannedWith(Proc)' = PlannedWith(Proc)
    BY <1>3, <1>4, <1>6
  <2>2. QED
    BY <2>1 DEF RoomAhead
<1>7. CASE Planned(store) \union Claims(k, r) \subseteq Planned(With(k, r))
  <2> DEFINE new == Planned(With(k, r))
  <2>1. /\ IsFiniteSet(others) /\ others \subseteq Key
        /\ Cardinality(others) <= Cardinality(Part) * Cardinality(Proc \ {p})
    <3>1. \A q \in Proc \ {p} : asked[q] # Nothing => asked[q].key \in Key
      BY DEF PublisherTypeOK
    <3>2. QED
      BY <3>1, ClaimsFew
  <2>2. Cardinality(Proc \ {p}) = Cardinality(Proc) - 1
    BY FS_RemoveElement, SetsAssumption
  <2>3. IsFiniteSet(new) /\ Cardinality(new) <= MaxRecords
    <3>1. new \subseteq Key
      BY PlannedInKeys
    <3>2. QED
      BY <1>2, <3>1, Finite, FS_Subset DEF Fits
  <2>4. IsFiniteSet(new \union others)
        /\ Cardinality(new \union others) <= Cardinality(new) + Cardinality(others)
    <3>1. IsFiniteSet(new \cap others)
      BY <2>3, FS_Subset
    <3>2. Cardinality(new \cap others) \in Nat /\ Cardinality(new) \in Nat /\ Cardinality(others) \in Nat
      BY <2>1, <2>3, <3>1, FS_CardinalityType
    <3>3. IsFiniteSet(new \union others)
          /\ Cardinality(new \union others) = Cardinality(new) + Cardinality(others) - Cardinality(new \cap others)
      BY <2>1, <2>3, FS_Union
    <3> HIDE DEF new, others
    <3>4. QED
      BY <3>2, <3>3
  <2>5. PlannedWith(Proc)' \subseteq new \union others
    BY <1>3, <1>7
  <2>6. IsFiniteSet(PlannedWith(Proc)') /\ Cardinality(PlannedWith(Proc)') <= Cardinality(new \union others)
    BY <2>4, <2>5, FS_Subset
  <2>7. Cardinality(PlannedWith(Proc)') \in Nat /\ Cardinality(new \union others) \in Nat
        /\ Cardinality(new) \in Nat /\ Cardinality(others) \in Nat
        /\ Cardinality(Part) * (Cardinality(Proc) - 1) \in Int
    BY <2>1, <2>3, <2>4, <2>6, Finite, FS_CardinalityType
  <2>8. Cardinality(PlannedWith(Proc)') <= bound
    <3> HIDE DEF new, others
    <3>1. Cardinality(others) <= Cardinality(Part) * (Cardinality(Proc) - 1)
      BY <2>1, <2>2
    <3>2. QED
      BY <2>3, <2>4, <2>6, <2>7, <3>1, LimitAssumption
  <2>9. QED
    BY <2>8 DEF RoomAhead
<1>8. QED
  BY <1>2, <1>6, <1>7, AskPlans

\* Linking a request, or giving it up, plans nothing that was not planned ahead.
LEMMA RoomShrinks ==
  ASSUME PublisherTypeOK, RoomAhead, PlannedWith(Proc)' \subseteq PlannedWith(Proc)
  PROVE  RoomAhead'
<1>1. IsFiniteSet(PlannedWith(Proc))
  <2>1. PlannedWith(Proc) \subseteq Key
    <3>1. \A q \in Proc : asked[q] # Nothing => asked[q].key \in Key
      BY DEF PublisherTypeOK
    <3>2. QED
      BY <3>1, ClaimsFew, PlannedInKeys DEF PlannedWith
  <2>2. QED
    BY <2>1, Finite, FS_Subset
<1>2. IsFiniteSet(PlannedWith(Proc)')
      /\ Cardinality(PlannedWith(Proc)') <= Cardinality(PlannedWith(Proc))
  BY <1>1, FS_Subset
<1>3. Cardinality(PlannedWith(Proc)') \in Nat /\ Cardinality(PlannedWith(Proc)) \in Nat
      /\ Cardinality(Part) * (Cardinality(Proc) - 1) \in Int
  BY <1>1, <1>2, Finite, FS_CardinalityType
<1>4. QED
  BY <1>2, <1>3, LimitAssumption DEF RoomAhead

\* Whatever their number, the processes that race take the store over its limit by one
\* batch each, but for one of them: all that was checked and waits to be linked included.
THEOREM RoomForAll ==
  ASSUME Proc # {}
  PROVE  PublisherSpec => []RoomKept
<1>1. PublisherInit => RoomAhead
  <2>1. SUFFICES ASSUME PublisherInit PROVE RoomAhead
    OBVIOUS
  <2>2. \A b \in Batch : store[<<b, "open">>] = Nothing /\ store[<<b, "close">>] = Nothing
    BY <2>1, Keys, PartNames DEF PublisherInit
  <2>3. Occupied(store) = {} /\ Reserved(store) = {}
    BY <2>1, <2>2 DEF PublisherInit, Occupied, Reserved
  <2>4. PlannedWith(Proc) = {}
    BY <2>1, <2>3 DEF PublisherInit, PlannedWith, Planned
  <2>5. Cardinality(Proc) - 1 \in Nat
    BY FS_EmptySet, SetsAssumption, Finite
  <2>6. Cardinality(Part) * (Cardinality(Proc) - 1) \in Nat
    BY <2>5, Finite
  <2>7. QED
    BY <2>4, <2>6, FS_EmptySet, LimitAssumption DEF RoomAhead
<1>2. PublisherTypeOK /\ RoomAhead /\ [PublisherNext]_publisherVars => RoomAhead'
  <2>1. SUFFICES ASSUME PublisherTypeOK, RoomAhead, [PublisherNext]_publisherVars PROVE RoomAhead'
    OBVIOUS
  <2>2. CASE UNCHANGED publisherVars
    BY <2>1, <2>2 DEF publisherVars, RoomAhead, PlannedWith, Planned, Occupied, Reserved, Closed, Claims
  <2>3. CASE PublisherNext
    <3>1. PICK p \in Proc :
            \/ \E k \in Key, r \in Receipt, op \in BOOLEAN : Ask(p, k, r, op)
            \/ \E k \in Key, r \in Receipt : Again(p, k, r)
            \/ Link(p) \/ Crash(p)
      BY <2>1, <2>3, Steps
    <3>2. CASE \E k \in Key, r \in Receipt, op \in BOOLEAN : Ask(p, k, r, op)
      BY <2>1, <3>2, AskKeepsRoom
    <3>3. CASE \E k \in Key, r \in Receipt : Again(p, k, r)
      <4>1. store' = store /\ asked' = asked
        BY <3>3 DEF Again
      <4>2. QED
        BY <2>1, <4>1 DEF RoomAhead, PlannedWith, Planned, Occupied, Reserved, Closed, Claims
    <3>4. CASE Link(p) \/ Crash(p)
      <4>1. asked[p] # Nothing
            /\ \A q \in Proc : asked'[q] # Nothing => asked'[q] = asked[q] /\ asked[q] # Nothing
        BY <2>1, <3>4, Effects
      <4>2. \A q \in Proc : asked[q] # Nothing => asked[q].key \in Key /\ asked[q].receipt \in Receipt
        BY <2>1 DEF PublisherTypeOK
      <4>3. Planned(store)' \subseteq Planned(store) \union Claims(asked[p].key, asked[p].receipt)
        <5>1. CASE store' = store
          BY <5>1 DEF Planned, Occupied, Reserved, Closed
        <5>2. CASE Link(p) /\ store[asked[p].key] = Nothing
          <6>1. store' = With(asked[p].key, asked[p].receipt)
            BY <2>1, <4>1, <4>2, <5>2 DEF Link, With, PublisherTypeOK
          <6>2. Planned(store)' = Planned(With(asked[p].key, asked[p].receipt))
            BY <6>1 DEF Planned, Occupied, Reserved, Closed
          <6>3. QED
            BY <2>1, <4>1, <4>2, <5>2, <6>2, LinkPlans
        <5>3. CASE Link(p) /\ store[asked[p].key] # Nothing
          <6>1. store' = store
            BY <2>1, <4>1, <4>2, <5>3 DEF Link, PublisherTypeOK
          <6>2. QED
            BY <5>1, <6>1
        <5>4. QED
          BY <3>4, <5>1, <5>2, <5>3 DEF Crash
      <4>4. Claims(asked[p].key, asked[p].receipt) \subseteq PlannedWith(Proc)
        BY <4>1 DEF PlannedWith
      <4>5. \A q \in Proc : asked'[q] # Nothing =>
              Claims(asked[q].key, asked[q].receipt)' \subseteq Claims(asked[q].key, asked[q].receipt)
        <5>1. SUFFICES ASSUME NEW q \in Proc, asked'[q] # Nothing, NEW k, NEW r,
                              k = asked[q].key, r = asked[q].receipt, k \in Key
                       PROVE  Claims(asked[q].key, asked[q].receipt)' \subseteq Claims(k, r)
          BY <4>1, <4>2
        <5>2. asked'[q].key = k /\ asked'[q].receipt = r
          BY <4>1, <5>1
        <5>3. Claims(asked[q].key, asked[q].receipt)' = Claims(k, r)'
          BY <5>2
        <5>4. QED
          BY <2>1, <5>1, <5>3, ClaimsShrink
      <4>6. PlannedWith(Proc)' \subseteq PlannedWith(Proc)
        BY <4>1, <4>3, <4>4, <4>5 DEF PlannedWith
      <4>7. QED
        BY <2>1, <4>6, RoomShrinks
    <3>5. QED
      BY <3>1, <3>2, <3>3, <3>4
  <2>4. QED
    BY <2>1, <2>2, <2>3
<1>3. PublisherTypeOK /\ RoomAhead => RoomKept
  <2>1. SUFFICES ASSUME PublisherTypeOK, RoomAhead PROVE RoomKept
    OBVIOUS
  <2>2. PlannedWith(Proc) \subseteq Key
    <3>1. \A q \in Proc : asked[q] # Nothing => asked[q].key \in Key
      BY <2>1 DEF PublisherTypeOK
    <3>2. QED
      BY <3>1, ClaimsFew, PlannedInKeys DEF PlannedWith
  <2>3. IsFiniteSet(PlannedWith(Proc))
    BY <2>2, Finite, FS_Subset
  <2>4. Planned(store) \subseteq PlannedWith(Proc)
    BY DEF PlannedWith
  <2>5. IsFiniteSet(Planned(store)) /\ Cardinality(Planned(store)) <= Cardinality(PlannedWith(Proc))
    BY <2>3, <2>4, FS_Subset
  <2>6. Cardinality(PlannedWith(Proc)) \in Nat /\ Cardinality(Planned(store)) \in Nat
        /\ Cardinality(Part) * (Cardinality(Proc) - 1) \in Int
    BY <2>3, <2>5, Finite, FS_CardinalityType
  <2>7. QED
    BY <2>1, <2>5, <2>6, LimitAssumption DEF RoomAhead, RoomKept
<1>4. QED
  BY <1>1, <1>2, <1>3, ReceiptsTyped, PTL DEF PublisherSpec

\* What the code promises of a store that only one process writes: the room to close and to
\* report every batch it has opened is always there.
Room == Cardinality(Planned(store)) <= MaxRecords

\* One publisher alone never goes over the limit, not even by one batch.
THEOREM RoomAlone ==
  ASSUME NEW p0, Proc = {p0}
  PROVE  PublisherSpec => []Room
<1>1. Cardinality(Proc) - 1 = 0
  <2>1. Cardinality({p0}) = 1
    BY FS_Singleton
  <2>2. QED
    BY <2>1
<1>2. PublisherTypeOK /\ RoomKept => Room
  BY <1>1, Finite, LimitAssumption DEF RoomKept, Room
<1>3. Proc # {}
  OBVIOUS
<1>4. QED
  BY <1>2, <1>3, RoomForAll, ReceiptsTyped, PTL
=============================================================================
