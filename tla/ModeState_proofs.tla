--------------------------- MODULE ModeState_proofs ---------------------------
(***************************************************************************)
(* Proofs about ModeState, for any sessions, defects and bounds.  First    *)
(* what the migration keeps of a text, then type correctness, then one     *)
(* inductive invariant for each of the three promises.                     *)
(***************************************************************************)
EXTENDS ModeState, FiniteSetTheorems, TLAPS

------------------------------------------------------------------------------
(* Ranks, and what Staged keeps.                                           *)

\* The ranks in a finite set of numbers are 1 .. its cardinality.
LEMMA RankOnto ==
  ASSUME NEW keep \in SUBSET Nat, IsFiniteSet(keep)
  PROVE  /\ Cardinality(keep) \in Nat
         /\ \A i \in keep : Rank(keep, i) \in 1 .. Cardinality(keep)
         /\ \A n \in 1 .. Cardinality(keep) : \E i \in keep : Rank(keep, i) = n
<1> DEFINE below(i) == {j \in keep : j <= i}
           rank == [i \in keep |-> Cardinality(below(i))]
           C == Cardinality(keep)
<1>1. C \in Nat
  BY FS_CardinalityType
<1>2. ASSUME NEW i \in keep
      PROVE  IsFiniteSet(below(i)) /\ Cardinality(below(i)) \in 1 .. C
  <2>1. below(i) \in SUBSET keep /\ below(i) # {}
    OBVIOUS
  <2>2. IsFiniteSet(below(i)) /\ Cardinality(below(i)) <= C
    BY <2>1, FS_Subset
  <2>3. Cardinality(below(i)) \in Nat /\ Cardinality(below(i)) # 0
    BY <2>1, <2>2, FS_CardinalityType, FS_EmptySet
  <2>4. QED
    BY <1>1, <2>2, <2>3
<1>3. ASSUME NEW i \in keep, NEW j \in keep, i < j
      PROVE  rank[i] # rank[j]
  <2> i \in Nat /\ j \in Nat /\ i < j
    BY <1>3
  <2>0. \A k \in keep : k <= i => k <= j
    OBVIOUS
  <2>1. below(i) \in SUBSET below(j) /\ j \in below(j) /\ j \notin below(i)
    <3>1. below(i) \subseteq below(j)
      BY <2>0
    <3>2. j <= j /\ ~(j <= i)
      OBVIOUS
    <3>3. QED
      BY <3>1, <3>2
  <2>2. Cardinality(below(i)) # Cardinality(below(j))
    BY <1>2, <2>1, FS_Subset
  <2>3. QED
    BY <2>2
<1>4. rank \in Injection(keep, 1 .. C)
  <2>1. rank \in [keep -> 1 .. C]
    BY <1>2
  <2>2. \A i, j \in keep : rank[i] = rank[j] => i = j
    BY <1>3
  <2>3. QED
    BY <2>1, <2>2 DEF Injection, IsInjective
<1>5. IsFiniteSet(1 .. C) /\ Cardinality(1 .. C) = C
  BY <1>1, FS_Interval
<1>6. rank \in Surjection(keep, 1 .. C)
  BY <1>4, <1>5, FS_Injection
<1>7. \A n \in 1 .. C : \E i \in keep : rank[i] = n
  BY <1>6 DEF Surjection
<1>8. \A i \in keep : rank[i] = Rank(keep, i)
  BY DEF Rank
<1>9. QED
  BY <1>1, <1>2, <1>7, <1>8

\* A finite set of numbers that is not empty has a last element.
LEMMA LastElement ==
  ASSUME NEW keep \in SUBSET Nat, IsFiniteSet(keep), keep # {}
  PROVE  \E i \in keep : \A j \in keep : j <= i
<1>1. Cardinality(keep) \in Nat /\ Cardinality(keep) # 0
  BY FS_CardinalityType, FS_EmptySet
<1>2. PICK i \in keep : Rank(keep, i) = Cardinality(keep)
  BY <1>1, RankOnto
<1>3. {j \in keep : j <= i} = keep
  <2>1. {j \in keep : j <= i} \in SUBSET keep
    OBVIOUS
  <2>2. Cardinality({j \in keep : j <= i}) = Cardinality(keep)
    BY <1>2 DEF Rank
  <2>3. QED
    BY <2>1, <2>2, FS_Subset
<1>4. QED
  BY <1>3

LEMMA TextIndices ==
  ASSUME NEW text \in Seq(Record), NEW keep \in SUBSET DOMAIN text
  PROVE  keep \in SUBSET Nat /\ IsFiniteSet(keep)
<1>1. DOMAIN text = 1 .. Len(text) /\ Len(text) \in Nat
  OBVIOUS
<1>2. IsFiniteSet(1 .. Len(text))
  BY <1>1, FS_Interval
<1>3. QED
  BY <1>1, <1>2, FS_Subset

\* What the migration writes back is the records it keeps, and no other.
LEMMA StagedRecords ==
  ASSUME NEW text \in Seq(Record)
  PROVE  /\ Staged(text) \in Seq(Record)
         /\ \A n \in DOMAIN Staged(text) : \E i \in Kept(text) : Staged(text)[n] = text[i]
         /\ \A i \in Kept(text) : \E n \in DOMAIN Staged(text) : Staged(text)[n] = text[i]
<1> DEFINE keep == Kept(text)
           pick(n) == CHOOSE i \in keep : Rank(keep, i) = n
<1>1. keep \in SUBSET DOMAIN text
  BY DEF Kept, Newest
<1>2. keep \in SUBSET Nat /\ IsFiniteSet(keep)
  BY <1>1, TextIndices
<1>3. Cardinality(keep) \in Nat /\ \A i \in keep : Rank(keep, i) \in 1 .. Cardinality(keep)
  BY <1>2, RankOnto
<1>4. \A n \in 1 .. Cardinality(keep) : \E i \in keep : Rank(keep, i) = n
  BY <1>2, RankOnto
<1>5. \A n \in 1 .. Cardinality(keep) : pick(n) \in keep /\ Rank(keep, pick(n)) = n
  BY <1>4
<1>6. Staged(text) = [n \in 1 .. Cardinality(keep) |-> text[pick(n)]]
  BY DEF Staged
<1>7. ASSUME NEW i \in keep, NEW j \in keep, i < j
      PROVE  Rank(keep, i) # Rank(keep, j)
  <2>1. {k \in keep : k <= i} \in SUBSET {k \in keep : k <= j}
    BY <1>2, <1>7
  <2>2. {k \in keep : k <= i} # {k \in keep : k <= j}
    BY <1>2, <1>7
  <2>3. {k \in keep : k <= j} \in SUBSET keep
    OBVIOUS
  <2>4. IsFiniteSet({k \in keep : k <= j})
    BY <1>2, <2>3, FS_Subset
  <2>5. QED
    BY <2>1, <2>2, <2>4, FS_Subset DEF Rank
<1>8. \A i \in keep : pick(Rank(keep, i)) = i
  <2> TAKE i \in keep
  <2>1. pick(Rank(keep, i)) \in keep /\ Rank(keep, pick(Rank(keep, i))) = Rank(keep, i)
    BY <1>3, <1>5
  <2>2. ~(pick(Rank(keep, i)) < i) /\ ~(i < pick(Rank(keep, i)))
    BY <1>7, <2>1
  <2>3. QED
    BY <1>2, <2>1, <2>2
<1>9. \A n \in 1 .. Cardinality(keep) : text[pick(n)] \in Record
  BY <1>1, <1>5
<1> HIDE DEF pick, keep
<1>10. Staged(text) \in Seq(Record)
  <2>1. Staged(text) \in [1 .. Cardinality(keep) -> Record]
    BY <1>6, <1>9, Zenon
  <2>2. QED
    BY <1>3, <2>1
<1>11. DOMAIN Staged(text) = 1 .. Cardinality(keep)
  BY <1>6
<1>12. \A n \in DOMAIN Staged(text) : \E i \in keep : Staged(text)[n] = text[i]
  BY <1>5, <1>6
<1>13. \A i \in keep : \E n \in DOMAIN Staged(text) : Staged(text)[n] = text[i]
  BY <1>3, <1>6, <1>8
<1>14. QED
  BY <1>10, <1>12, <1>13 DEF keep

LEMMA StagedSubset ==
  ASSUME NEW text \in Seq(Record)
  PROVE  /\ Defects(Staged(text)) \subseteq Defects(text)
         /\ \A n \in DOMAIN Staged(text) : ~Staged(text)[n].prior
<1>1. \A i \in Kept(text) : i \in DOMAIN text /\ ~text[i].prior
  BY DEF Kept, Newest, Admits
<1>2. QED
  BY <1>1, StagedRecords DEF Defects

\* Unless the text is to be archived, every defect it names stays.
LEMMA StagedKeepsCompatible ==
  ASSUME NEW text \in Seq(Record), ~Incompatible(text)
  PROVE  Defects(text) \subseteq Defects(Staged(text))
<1> DEFINE keep == Newest(text)
<1>1. keep \in SUBSET DOMAIN text
  BY DEF Newest
<1>2. keep \in SUBSET Nat /\ IsFiniteSet(keep)
  BY <1>1, TextIndices
<1>3. Kept(text) = keep
  <2>1. Cardinality(keep) <= Limit
    BY <1>2, FS_CardinalityType, BoundsAssumption DEF Incompatible
  <2>2. Cardinality(keep) \in Nat /\ \A i \in keep : Rank(keep, i) \in 1 .. Cardinality(keep)
    BY <1>2, RankOnto
  <2>3. QED
    BY <2>1, <2>2, BoundsAssumption DEF Kept
<1>4. ASSUME NEW k \in DOMAIN text
      PROVE  \E i \in keep : text[i].d = text[k].d
  <2> DEFINE same == {j \in DOMAIN text : text[j].d = text[k].d}
  <2>1. same \in SUBSET Nat /\ IsFiniteSet(same) /\ same # {}
    BY TextIndices
  <2>2. PICK i \in same : \A j \in same : j <= i
    BY <2>1, LastElement
  <2>3. \A j \in DOMAIN text : j > i => text[j].d # text[i].d
    BY <2>1, <2>2
  <2>4. \A j \in DOMAIN text : ~text[j].prior
    BY DEF Incompatible, Admits
  <2>5. i \in keep
    BY <2>3, <2>4 DEF Newest, Admits
  <2>6. QED
    BY <2>5
<1>5. ASSUME NEW k \in DOMAIN text
      PROVE  text[k].d \in Defects(Staged(text))
  <2>1. PICK i \in keep : text[i].d = text[k].d
    BY <1>4
  <2>2. PICK n \in DOMAIN Staged(text) : Staged(text)[n] = text[i]
    BY <1>3, StagedRecords
  <2>3. QED
    BY <2>1, <2>2 DEF Defects
<1>6. QED
  BY <1>5 DEF Defects

------------------------------------------------------------------------------
(* The ledger.                                                             *)

LEMMA AppendedLines ==
  ASSUME NEW lines \in Seq(Lines), NEW line \in Defect \union {Half}
  PROVE  /\ Appended(lines, line) \in Seq(Lines)
         /\ Recalled(lines) \subseteq Recalled(Appended(lines, line))
         /\ Recalled(Appended(lines, line)) \subseteq Recalled(lines) \union {line}
<1> DEFINE torn == lines # <<>> /\ lines[Len(lines)] = Half
           new == Appended(lines, line)
<1>1. CASE torn
  <2>1. new = [lines EXCEPT ![Len(lines)] = IF line = Half THEN Half ELSE Bad]
    BY <1>1 DEF Appended
  <2>2. DOMAIN lines = 1 .. Len(lines) /\ Len(lines) \in DOMAIN lines
    BY <1>1
  <2>3. new \in Seq(Lines) /\ DOMAIN new = DOMAIN lines
    BY <2>1, <2>2 DEF Lines
  <2>4. \A i \in DOMAIN lines : i # Len(lines) => new[i] = lines[i]
    BY <2>1
  <2>5. lines[Len(lines)] \notin Defect /\ new[Len(lines)] \notin Defect
    BY <1>1, <2>1, <2>2, NamesAssumption
  <2>6. QED
    BY <2>3, <2>4, <2>5 DEF Recalled
<1>2. CASE ~torn
  <2>1. new = Append(lines, line)
    BY <1>2 DEF Appended
  <2>2. line \in Lines
    BY DEF Lines
  <2>3. new \in Seq(Lines)
    BY <2>1, <2>2
  <2>4. /\ DOMAIN lines = 1 .. Len(lines) /\ Len(lines) \in Nat
        /\ DOMAIN new = 1 .. Len(lines) + 1
        /\ new[Len(lines) + 1] = line
    BY <2>1
  <2>5. \A i \in DOMAIN lines : i \in DOMAIN new /\ new[i] = lines[i]
    BY <2>1, <2>4
  <2>6. \A i \in DOMAIN new : i \in DOMAIN lines \/ i = Len(lines) + 1
    BY <2>4
  <2>7. QED
    BY <2>3, <2>4, <2>5, <2>6 DEF Recalled
<1>3. QED
  BY <1>1, <1>2

------------------------------------------------------------------------------
(* Type correctness.                                                       *)

LEMMA DefectsType ==
  ASSUME NEW text \in Seq(Record)
  PROVE  Defects(text) \in SUBSET Defect
<1>1. \A i \in DOMAIN text : text[i] \in Record
  OBVIOUS
<1>2. \A i \in DOMAIN text : text[i].d \in Defect
  BY <1>1 DEF Record
<1>3. QED
  BY <1>2 DEF Defects

LEMMA StampedRecords ==
  ASSUME NEW text \in Seq(Record)
  PROVE  Stamped(text) \in Seq(Record)
<1>1. \A i \in DOMAIN text : text[i].d \in Defect
  <2>1. \A i \in DOMAIN text : text[i] \in Record
    OBVIOUS
  <2>2. QED
    BY <2>1 DEF Record
<1>2. DOMAIN text = 1 .. Len(text) /\ Len(text) \in Nat
  OBVIOUS
<1>3. \A i \in DOMAIN text :
        [d |-> text[i].d, prior |-> text[i].d \in index] \in Record
  BY <1>1 DEF Record
<1>4. Stamped(text) \in [1 .. Len(text) -> Record]
  BY <1>2, <1>3 DEF Stamped
<1>5. QED
  BY <1>2, <1>4

LEMMA SessionTypes ==
  /\ SessIdle \in SessType /\ Dead \in SessType
  /\ [SessIdle EXCEPT !.file = "handoffs"] \in SessType
  /\ [SessIdle EXCEPT !.pc = "done"] \in SessType
  /\ \A s \in Session : NextFile(s) \in SessType
<1>1. SessIdle \in SessType
  BY DEF SessIdle, SessType, Files
<1>2. /\ Dead \in SessType /\ [SessIdle EXCEPT !.file = "handoffs"] \in SessType
      /\ [SessIdle EXCEPT !.pc = "done"] \in SessType
  BY <1>1 DEF SessType, Dead, Files
<1>3. QED
  BY <1>1, <1>2 DEF NextFile

\* The unit a write belongs to is a session or a file.
LEMMA UnitType ==
  ASSUME NEW s \in Session, sess[s] \in SessType
  PROVE  [unit |-> Unit(s), files |-> NoFiles] \in MarkerType
<1>1. Unit(s) \in Session \union Files
  BY DEF Unit, SessType
<1>2. NoFiles \in Listing
  BY DEF NoFiles, Listing
<1>3. QED
  BY <1>1, <1>2 DEF MarkerType

LEMMA TypeInit == Init => TypeOK
<1> SUFFICES ASSUME Init PROVE TypeOK
  OBVIOUS
<1>1. sess \in [Session -> SessType]
  BY SessionTypes DEF Init
<1>2. snap \in SnapType
  BY DEF Init, NoSnap, SnapType
<1>3. /\ findings \in Seq(Record) /\ ledger \in Seq(Lines)
      /\ archive \in [findings : SUBSET Defect, ledger : SUBSET Defect]
  BY DEF Init
<1>4. /\ faults \in 0 .. MaxFaults /\ calls \in 0 .. MaxCalls
  BY BoundsAssumption DEF Init
<1>5. QED
  BY <1>1, <1>2, <1>3, <1>4 DEF Init, TypeOK

LEMMA TypeNext == TypeOK /\ [Next]_vars => TypeOK'
<1> SUFFICES ASSUME TypeOK, [Next]_vars
             PROVE  TypeOK'
  OBVIOUS
<1> USE BoundsAssumption
<1>1. ASSUME NEW d \in Defect, RecordEpisode(d)
      PROVE  TypeOK'
  BY <1>1, AppendedLines
  DEF TypeOK, SnapType, stateVars, memoryVars, installVars, boundVars, memoryHistory, findingsHistory,
      RecordEpisode
<1>2. ASSUME TearEpisode
      PROVE  TypeOK'
  BY <1>2, AppendedLines
  DEF TypeOK, SnapType, stateVars, memoryVars, installVars, boundVars, memoryHistory, findingsHistory,
      TearEpisode
<1>3. ASSUME Reindex
      PROVE  TypeOK'
  BY <1>3
  DEF TypeOK, SnapType, stateVars, memoryVars, installVars, boundVars, memoryHistory, findingsHistory,
      Reindex, Recalled
<1>4. ASSUME NEW s \in Session, NEW d \in Defect, CallForFindings(s, d)
      PROVE  TypeOK'
  <2>1. sess[s] \in SessType
    BY DEF TypeOK, SnapType
  <2>2. Stamped(Append(findings, [d |-> d, prior |-> FALSE])) \in Seq(Record)
    <3>1. Append(findings, [d |-> d, prior |-> FALSE]) \in Seq(Record)
      BY DEF TypeOK, SnapType, Record
    <3>2. QED
      BY <3>1, StampedRecords
  <2>3. [sess[s] EXCEPT !.pc = "open",
                     !.text = Stamped(Append(findings, [d |-> d, prior |-> FALSE]))] \in SessType
    BY <2>1, <2>2 DEF SessType
  <2>4. sess' \in [Session -> SessType]
    BY <1>4, <2>3 DEF TypeOK, SnapType, CallForFindings
  <2>9. QED
    BY <1>4, <2>4
    DEF TypeOK, SnapType, stateVars, memoryVars, installVars, boundVars, memoryHistory, findingsHistory,
        CallForFindings
<1>5. ASSUME NEW s \in Session, CallForHandoff(s)
      PROVE  TypeOK'
  <2>1. sess[s] \in SessType
    BY DEF TypeOK, SnapType
  <2>2. Defects(findings) \in SUBSET Defect
    BY DefectsType DEF TypeOK, SnapType
  <2>3. [sess[s] EXCEPT !.pc = "open", !.names = Defects(findings)] \in SessType
    BY <2>1, <2>2 DEF SessType
  <2>4. sess' \in [Session -> SessType]
    BY <1>5, <2>3 DEF TypeOK, SnapType, CallForHandoff
  <2>9. QED
    BY <1>5, <2>4
    DEF TypeOK, SnapType, stateVars, memoryVars, installVars, boundVars, memoryHistory, findingsHistory,
        CallForHandoff
<1>6. ASSUME NEW s \in Session, WriteText(s)
      PROVE  TypeOK'
  <2>1. sess[s] \in SessType
    BY DEF TypeOK, SnapType
  <2>2. sess[s].text \in Seq(Record) /\ sess[s].names \in SUBSET Defect
    BY <2>1 DEF SessType
  <2>3. Defects(sess[s].text) \in SUBSET Defect
    BY <2>2, DefectsType
  <2>4. [sess[s] EXCEPT !.pc = "record"] \in SessType
    BY <2>1 DEF SessType
  <2>5. sess' \in [Session -> SessType]
    BY <1>6, <2>4 DEF TypeOK, SnapType, WriteText
  <2>9. QED
    BY <1>6, <2>2, <2>3, <2>5
    DEF TypeOK, SnapType, stateVars, memoryVars, installVars, boundVars, memoryHistory, findingsHistory,
        WriteText
<1>7. ASSUME NEW s \in Session, RecordLanded(s)
      PROVE  TypeOK'
  <2>1. sess[s] \in SessType
    BY DEF TypeOK, SnapType
  <2>2. sess[s].text \in Seq(Record) /\ sess[s].names \in SUBSET Defect /\ sess[s].file \in Files
    BY <2>1 DEF SessType
  <2>3. ASSUME marker # None
        PROVE  /\ [marker EXCEPT !.files.findings = {sess[s].text}] \in MarkerType
               /\ [marker EXCEPT !.files.handoffs = {sess[s].names}] \in MarkerType
    BY <2>2, <2>3 DEF TypeOK, SnapType, MarkerType, Listing
  <2>4. \A m \in MarkerType :
          [SessIdle EXCEPT !.pc = "list", !.file = sess[s].file, !.held = m] \in SessType
    BY <2>2, SessionTypes DEF SessType
  <2>5. sess' \in [Session -> SessType]
    BY <1>7, <2>3, <2>4, SessionTypes DEF TypeOK, SnapType, RecordLanded
  <2>9. QED
    BY <1>7, <2>5
    DEF TypeOK, SnapType, stateVars, memoryVars, installVars, boundVars, memoryHistory, findingsHistory,
        RecordLanded
<1>8. ASSUME NEW s \in Session, SessionDies(s)
      PROVE  TypeOK'
  <2>2. sess' \in [Session -> SessType]
    BY <1>8, SessionTypes DEF TypeOK, SnapType, SessionDies
  <2>9. QED
    BY <1>8, <2>2
    DEF TypeOK, SnapType, stateVars, memoryVars, installVars, boundVars, memoryHistory, findingsHistory,
        SessionDies
<1>9. ASSUME ReconcileStateCommit
      PROVE  TypeOK'
  BY <1>9
  DEF TypeOK, SnapType, stateVars, memoryVars, installVars, boundVars, memoryHistory, findingsHistory,
      ReconcileStateCommit
<1>10. ASSUME Preflight
      PROVE  TypeOK'
  BY <1>10
  DEF TypeOK, SnapType, stateVars, memoryVars, installVars, boundVars, memoryHistory, findingsHistory,
      Preflight, Sources
<1>11. ASSUME ArchiveLegacy
      PROVE  TypeOK'
  <2>1. Defects(snap.findings) \in SUBSET Defect /\ Recalled(snap.ledger) \in SUBSET Defect
    BY DefectsType DEF TypeOK, SnapType, Recalled
  <2>2. archive' \in [findings : SUBSET Defect, ledger : SUBSET Defect]
    BY <1>11, <2>1 DEF TypeOK, SnapType, ArchiveLegacy
  <2>9. QED
    BY <1>11, <2>2
    DEF TypeOK, SnapType, stateVars, memoryVars, installVars, boundVars, memoryHistory, findingsHistory,
        ArchiveLegacy
<1>12. ASSUME NEW f \in {"ledger", "index", "findings"}, CompareLegacy(f)
      PROVE  TypeOK'
  BY <1>12 DEF SessType, stateVars, memoryVars, installVars, boundVars,
      memoryHistory, findingsHistory, TypeOK, CompareLegacy
<1>13. ASSUME NEW f \in Files, ReplaceStaged(f)
      PROVE  TypeOK'
  <2>1. Staged(snap.findings) \in Seq(Record)
    BY StagedRecords DEF TypeOK, SnapType
  <2>2. Defects(findings) \in SUBSET Defect
    BY DefectsType DEF TypeOK, SnapType
  <2>3. /\ findings' \in Seq(Record) /\ handoffs' \in SUBSET Defect
        /\ lost' \in SUBSET Defect
    BY <1>13, <2>1, <2>2 DEF TypeOK, SnapType, ReplaceStaged, Destroys
  <2>4. NoSnap \in SnapType
    BY DEF NoSnap, SnapType
  <2>5. /\ snap' \in SnapType
        /\ believed' \in Seq(Record) /\ hand' \in {None, "ledger", "index", "findings"}
        /\ left' \in SUBSET Files /\ todo' \in SUBSET Sources
    <3>1. CASE left = {f}
      BY <1>13, <2>4, <3>1 DEF TypeOK, ReplaceStaged, Forget
    <3>2. CASE left # {f}
      BY <1>13, <2>3, <3>2 DEF TypeOK, ReplaceStaged
    <3>3. QED
      BY <3>1, <3>2
  <2>9. QED
    BY <1>13, <2>3, <2>5
    DEF TypeOK, SnapType, stateVars, memoryVars, boundVars, memoryHistory, ReplaceStaged, Forget
<1>14. ASSUME Abandon
      PROVE  TypeOK'
  BY <1>14 DEF SessType, stateVars, memoryVars, installVars, boundVars,
      memoryHistory, findingsHistory, TypeOK, Abandon, Legacy, Sources, Files
<1>15. ASSUME Crash
      PROVE  TypeOK'
  BY <1>15
  DEF TypeOK, SnapType, stateVars, memoryVars, installVars, boundVars, memoryHistory, findingsHistory,
      Crash, Forget, NoSnap
<1>16. CASE UNCHANGED vars
  BY <1>16 DEF TypeOK, SnapType, vars, stateVars, memoryVars, installVars, boundVars,
              memoryHistory, findingsHistory
<1>17. ASSUME NEW s \in Session, OpenCommit(s)
      PROVE  TypeOK'
  <2>1. sess[s] \in SessType
    BY DEF TypeOK, SnapType
  <2>2. \A c \in {"write", "mark"} : [sess[s] EXCEPT !.pc = c] \in SessType
    BY <2>1 DEF SessType
  <2>3. sess' \in [Session -> SessType]
    BY <1>17, <2>2 DEF TypeOK, SnapType, OpenCommit
  <2>4. QED
    BY <1>17, <2>3 DEF TypeOK, SnapType, stateVars, memoryVars, installVars, boundVars, memoryHistory, findingsHistory, OpenCommit
<1>18. ASSUME NEW s \in Session, Mark(s)
      PROVE  TypeOK'
  <2>1. sess[s] \in SessType
    BY DEF TypeOK, SnapType
  <2>2. [sess[s] EXCEPT !.pc = "write"] \in SessType
    BY <2>1 DEF SessType
  <2>3. sess' \in [Session -> SessType] /\ marker' \in MarkerType
    BY <1>18, <2>1, <2>2, UnitType DEF TypeOK, SnapType, Mark
  <2>4. QED
    BY <1>18, <2>3 DEF TypeOK, SnapType, stateVars, memoryVars, installVars, boundVars, memoryHistory, findingsHistory, Mark
<1>19. ASSUME NEW s \in Session, ListLanded(s)
      PROVE  TypeOK'
  <2>1. sess[s].held \in MarkerType \union {None}
    BY DEF TypeOK, SnapType, SessType
  <2>2. sess' \in [Session -> SessType]
    BY <1>19, SessionTypes DEF TypeOK, SnapType, ListLanded
  <2>3. QED
    BY <1>19, <2>1, <2>2 DEF TypeOK, SnapType, stateVars, memoryVars, installVars, boundVars, memoryHistory, findingsHistory, ListLanded
<1>20. ASSUME NEW f \in Sources, ReadFile(f)
      PROVE  TypeOK'
  <2>1. snap' \in SnapType
    BY <1>20 DEF TypeOK, SnapType, ReadFile, Sources, Files
  <2>2. QED
    BY <1>20, <2>1 DEF TypeOK, SnapType, stateVars, memoryVars, installVars, boundVars, memoryHistory, findingsHistory, ReadFile
<1>21. ASSUME Stage
      PROVE  TypeOK'
  BY <1>21 DEF SessType, stateVars, memoryVars, installVars, boundVars,
      memoryHistory, findingsHistory, TypeOK, Stage, Legacy, Sources, Files
<1>22. ASSUME UnlinkLegacy
      PROVE  TypeOK'
  <2>1. Defects(findings) \in SUBSET Defect
    BY DefectsType DEF TypeOK, SnapType
  <2>2. /\ findings' \in Seq(Record) /\ ledger' \in Seq(Lines) /\ index' \in SUBSET Defect
        /\ lost' \in SUBSET Defect /\ believed' \in Seq(Record)
    <3>1. findings' \in Seq(Record) /\ ledger' \in Seq(Lines) /\ index' \in SUBSET Defect
      BY <1>22 DEF TypeOK, UnlinkLegacy
    <3>2. lost' \in SUBSET Defect /\ believed' \in Seq(Record)
      <4>1. lost \in SUBSET Defect /\ believed \in Seq(Record) /\ <<>> \in Seq(Record)
        BY DEF TypeOK
      <4>2. CASE hand = "findings"
        BY <1>22, <2>1, <4>1, <4>2 DEF UnlinkLegacy, Destroys
      <4>3. CASE hand # "findings"
        BY <1>22, <4>1, <4>3 DEF UnlinkLegacy
      <4>4. QED
        BY <4>2, <4>3
    <3>3. QED
      BY <3>1, <3>2
  <2>3. todo' \in SUBSET Sources /\ host' \in {"replace", "remove"} /\ hand' = None
    BY <1>22 DEF TypeOK, SnapType, UnlinkLegacy
  <2>4. QED
    BY <1>22, <2>2, <2>3 DEF TypeOK, SnapType, boundVars, memoryHistory, UnlinkLegacy
<1>23. ASSUME NEW f \in Files, PutBack(f)
      PROVE  TypeOK'
  <2>1. Defects(findings) \in SUBSET Defect
    BY DefectsType DEF TypeOK, SnapType
  <2>2. QED
    BY <1>23, <2>1 DEF TypeOK, SnapType, stateVars, memoryVars, installVars, boundVars, memoryHistory, findingsHistory, PutBack, Destroys
<1>24. ASSUME NEW f \in Sources, PutBackUnlinked(f)
      PROVE  TypeOK'
  BY <1>24 DEF SessType, stateVars, memoryVars, installVars, boundVars,
      memoryHistory, findingsHistory, TypeOK, SnapType, PutBackUnlinked
<1>25. ASSUME Raised
      PROVE  TypeOK'
  <2>1. NoSnap \in SnapType
    BY DEF NoSnap, SnapType
  <2>2. QED
    BY <1>25, <2>1 DEF TypeOK, stateVars, memoryVars, boundVars, memoryHistory,
       findingsHistory, Raised, Forget
<1>26. QED
  BY <1>1, <1>2, <1>3, <1>4, <1>5, <1>6, <1>7, <1>8, <1>9, <1>10, <1>11, <1>12,
     <1>13, <1>14, <1>15, <1>16, <1>17, <1>18, <1>19, <1>20, <1>21, <1>22, <1>23, <1>24,
     <1>25 DEF Next, SessionStep, HostStep

\* What is on disk, in the archive and in the Host's memory is what it should be.
THEOREM TypeCorrect == Spec => []TypeOK
<1>1. QED
  BY TypeInit, TypeNext, PTL DEF Spec

------------------------------------------------------------------------------
(* A finding is stamped only for what was closed.                          *)

Earned(text) == \A i \in DOMAIN text : text[i].prior => text[i].d \in closed

\* Whatever an index, a ledger or a snapshot of them answers was closed.
StampInv ==
  /\ StampEarned
  /\ Recalled(ledger) \subseteq closed /\ index \subseteq closed
  /\ \A s \in Session : Earned(sess[s].text)
  /\ Earned(snap.findings)
  /\ Recalled(snap.ledger) \subseteq closed /\ snap.index \subseteq closed

LEMMA StampInit == Init => StampInv
  BY DEF Init, StampInv, StampEarned, Earned, Recalled, SessIdle, NoSnap

LEMMA StampNext == TypeOK /\ StampInv /\ [Next]_vars => StampInv'
<1> SUFFICES ASSUME TypeOK, StampInv, [Next]_vars
             PROVE  StampInv'
  OBVIOUS
<1>1. ASSUME NEW d \in Defect, RecordEpisode(d)
      PROVE  StampInv'
  BY <1>1, AppendedLines DEF StampInv, StampEarned, Earned, stateVars, memoryVars, installVars, boundVars,
      memoryHistory, findingsHistory, TypeOK, RecordEpisode
<1>2. ASSUME TearEpisode
      PROVE  StampInv'
  <2>1. Recalled(ledger') \subseteq Recalled(ledger)
    <3>1. Recalled(ledger') \subseteq Recalled(ledger) \union {Half}
      BY <1>2, AppendedLines DEF TypeOK, TearEpisode
    <3>2. Half \notin Recalled(ledger')
      BY NamesAssumption DEF Recalled
    <3>3. QED
      BY <3>1, <3>2
  <2>2. QED
    BY <1>2, <2>1 DEF StampInv, StampEarned, Earned, stateVars, memoryVars, installVars, boundVars,
      memoryHistory, findingsHistory, 
      TearEpisode
<1>3. ASSUME Reindex
      PROVE  StampInv'
  BY <1>3 DEF StampInv, StampEarned, Earned, stateVars, memoryVars, installVars, boundVars,
      memoryHistory, findingsHistory, TypeOK, Reindex
<1>4. ASSUME NEW s \in Session, NEW d \in Defect, CallForFindings(s, d)
      PROVE  StampInv'
  <2> DEFINE new == Append(findings, [d |-> d, prior |-> FALSE])
  <2>1. DOMAIN Stamped(new) = DOMAIN new
        /\ \A i \in DOMAIN new : Stamped(new)[i] =
              [d |-> new[i].d, prior |-> new[i].d \in index]
    BY DEF Stamped
  <2>2. \A i \in DOMAIN new : Stamped(new)[i].prior => Stamped(new)[i].d \in index
    <3> TAKE i \in DOMAIN new
    <3> DEFINE stamp == [d |-> new[i].d, prior |-> new[i].d \in index]
    <3>1. Stamped(new)[i] = stamp
      BY <2>1
    <3>2. stamp.d = new[i].d /\ (stamp.prior <=> new[i].d \in index)
      BY Zenon
    <3> HIDE DEF stamp
    <3>3. QED
      BY <3>1, <3>2, Zenon
  <2>3. \A i \in DOMAIN Stamped(new) : Stamped(new)[i].prior => Stamped(new)[i].d \in closed
    BY <2>1, <2>2 DEF StampInv
  <2>4. sess'[s].text = Stamped(new)
    BY <1>4 DEF TypeOK, CallForFindings, SessType
  <2>7. closed' = closed
    BY <1>4 DEF CallForFindings, memoryHistory
  <2> HIDE DEF new
  <2>5. Earned(sess[s].text)'
    BY <2>3, <2>4, <2>7 DEF Earned
  <2>6. \A t \in Session : t # s => sess'[t] = sess[t]
    BY <1>4 DEF TypeOK, CallForFindings
  <2>8. \A t \in Session : Earned(sess[t].text)'
    BY <2>5, <2>6, <2>7 DEF StampInv, Earned
  <2>9. QED
    BY <1>4, <2>7, <2>8 DEF StampInv, StampEarned, Earned, stateVars, memoryVars,
       installVars, CallForFindings
<1>5. ASSUME NEW s \in Session, CallForHandoff(s)
      PROVE  StampInv'
  BY <1>5 DEF StampInv, StampEarned, Earned, stateVars, memoryVars, installVars, boundVars,
      memoryHistory, findingsHistory, TypeOK, CallForHandoff
<1>6. ASSUME NEW s \in Session, WriteText(s)
      PROVE  StampInv'
  BY <1>6 DEF StampInv, StampEarned, Earned, stateVars, memoryVars, installVars, boundVars,
      memoryHistory, findingsHistory, TypeOK, WriteText
<1>7. ASSUME NEW s \in Session, RecordLanded(s)
      PROVE  StampInv'
  BY <1>7 DEF StampInv, StampEarned, Earned, stateVars, memoryVars, installVars, boundVars,
      memoryHistory, findingsHistory, TypeOK, RecordLanded, NextFile, SessIdle
<1>8. ASSUME NEW s \in Session, SessionDies(s)
      PROVE  StampInv'
  BY <1>8 DEF StampInv, StampEarned, Earned, stateVars, memoryVars, installVars, boundVars,
      memoryHistory, findingsHistory, TypeOK, SessionDies, Dead, SessIdle
<1>9. ASSUME ReconcileStateCommit
      PROVE  StampInv'
  BY <1>9 DEF StampInv, StampEarned, Earned, stateVars, memoryVars, installVars, boundVars,
      memoryHistory, findingsHistory, TypeOK, ReconcileStateCommit
<1>10. ASSUME Preflight
      PROVE  StampInv'
  BY <1>10 DEF StampInv, StampEarned, Earned, stateVars, memoryVars, installVars, boundVars,
      memoryHistory, findingsHistory, TypeOK, Preflight
<1>11. ASSUME ArchiveLegacy
      PROVE  StampInv'
  BY <1>11 DEF StampInv, StampEarned, Earned, stateVars, memoryVars, installVars, boundVars,
      memoryHistory, findingsHistory, TypeOK, ArchiveLegacy
<1>12. ASSUME NEW f \in {"ledger", "index", "findings"}, CompareLegacy(f)
      PROVE  StampInv'
  BY <1>12 DEF StampInv, StampEarned, Earned, stateVars, memoryVars, installVars,
      boundVars, memoryHistory, findingsHistory, TypeOK, CompareLegacy
<1>13. ASSUME NEW f \in Files, ReplaceStaged(f)
      PROVE  StampInv'
  BY <1>13, StagedSubset DEF StampInv, StampEarned, Earned, stateVars, memoryVars, installVars, boundVars,
      memoryHistory, findingsHistory, TypeOK, SnapType, ReplaceStaged, Destroys, Forget, NoSnap, Recalled
<1>14. ASSUME Abandon
      PROVE  StampInv'
  BY <1>14 DEF StampInv, StampEarned, Earned, stateVars, memoryVars, installVars,
      boundVars, memoryHistory, findingsHistory, TypeOK, Abandon
<1>15. ASSUME Crash
      PROVE  StampInv'
  BY <1>15 DEF StampInv, StampEarned, Earned, stateVars, memoryVars, installVars, boundVars,
      memoryHistory, findingsHistory, TypeOK, Crash, Forget, NoSnap, Recalled
<1>16. CASE UNCHANGED vars
  BY <1>16 DEF StampInv, StampEarned, Earned, stateVars, memoryVars, installVars, boundVars,
      memoryHistory, findingsHistory,
      vars
<1>17. ASSUME NEW s \in Session, OpenCommit(s)
      PROVE  StampInv'
  BY <1>17 DEF StampInv, StampEarned, Earned, stateVars, memoryVars, installVars,
      boundVars, memoryHistory, findingsHistory, TypeOK, OpenCommit
<1>18. ASSUME NEW s \in Session, Mark(s)
      PROVE  StampInv'
  BY <1>18 DEF StampInv, StampEarned, Earned, stateVars, memoryVars, installVars,
      boundVars, memoryHistory, findingsHistory, TypeOK, Mark
<1>19. ASSUME NEW s \in Session, ListLanded(s)
      PROVE  StampInv'
  BY <1>19 DEF StampInv, StampEarned, Earned, stateVars, memoryVars, installVars,
      boundVars, memoryHistory, findingsHistory, TypeOK, ListLanded, NextFile,
      SessIdle
<1>20. ASSUME NEW f \in Sources, ReadFile(f)
      PROVE  StampInv'
  <2>1. CASE f = "findings"
    BY <1>20, <2>1 DEF StampInv, StampEarned, Earned, stateVars, memoryVars, memoryHistory,
       TypeOK, SnapType, ReadFile
  <2>2. CASE f # "findings"
    BY <1>20, <2>2 DEF StampInv, StampEarned, Earned, stateVars, memoryVars, memoryHistory,
       TypeOK, SnapType, ReadFile, Sources, Files, Recalled
  <2>3. QED
    BY <2>1, <2>2
<1>21. ASSUME Stage
      PROVE  StampInv'
  BY <1>21 DEF StampInv, StampEarned, Earned, stateVars, memoryVars, installVars,
      boundVars, memoryHistory, findingsHistory, TypeOK, Stage
<1>22. ASSUME UnlinkLegacy
      PROVE  StampInv'
  BY <1>22 DEF StampInv, StampEarned, Earned, stateVars, memoryVars, installVars,
      boundVars, memoryHistory, findingsHistory, TypeOK, UnlinkLegacy, Recalled
<1>23. ASSUME NEW f \in Files, PutBack(f)
      PROVE  StampInv'
  BY <1>23 DEF StampInv, StampEarned, Earned, stateVars, memoryVars, installVars,
      boundVars, memoryHistory, findingsHistory, TypeOK, PutBack, Destroys, Recalled
<1>24. ASSUME NEW f \in Sources, PutBackUnlinked(f)
      PROVE  StampInv'
  BY <1>24 DEF StampInv, StampEarned, Earned, stateVars, memoryVars, installVars,
      boundVars, memoryHistory, findingsHistory, TypeOK, PutBackUnlinked, Recalled
<1>25. ASSUME Raised
      PROVE  StampInv'
  BY <1>25 DEF StampInv, StampEarned, Earned, stateVars, memoryVars, installVars,
      boundVars, memoryHistory, findingsHistory, TypeOK, Raised, Forget, NoSnap, Recalled
<1>26. QED
  BY <1>1, <1>2, <1>3, <1>4, <1>5, <1>6, <1>7, <1>8, <1>9, <1>10, <1>11, <1>12,
     <1>13, <1>14, <1>15, <1>16, <1>17, <1>18, <1>19, <1>20, <1>21, <1>22, <1>23, <1>24,
     <1>25 DEF Next, SessionStep, HostStep

\* Whatever the tool stamps, however stale its index, was closed by a verified
\* repair.
THEOREM StampEarnedHolds == Spec => []StampEarned
<1>1. StampInv => StampEarned
  BY DEF StampInv
<1>2. QED
  BY TypeInit, TypeNext, StampInit, StampNext, <1>1, PTL DEF Spec

------------------------------------------------------------------------------
(* An episode once answered is in the ledger or in its archive.            *)

EpisodesInv ==
  /\ EpisodesKept
  /\ host \in {"remove", "unlink"} /\ "ledger" \in todo =>
       Recalled(snap.ledger) \subseteq archive.ledger
  /\ host = "unlink" /\ hand = "ledger" => ledger = snap.ledger /\ "ledger" \in todo

LEMMA EpisodesInit == Init => EpisodesInv
  BY DEF Init, EpisodesInv, EpisodesKept

LEMMA EpisodesNext == TypeOK /\ EpisodesInv /\ [Next]_vars => EpisodesInv'
<1> SUFFICES ASSUME TypeOK, EpisodesInv, [Next]_vars
             PROVE  EpisodesInv'
  OBVIOUS
<1>1. ASSUME NEW d \in Defect, RecordEpisode(d)
      PROVE  EpisodesInv'
  BY <1>1, AppendedLines DEF EpisodesInv, EpisodesKept, stateVars, memoryVars, installVars, boundVars,
      memoryHistory, findingsHistory, TypeOK, RecordEpisode
<1>2. ASSUME TearEpisode
      PROVE  EpisodesInv'
  BY <1>2, AppendedLines DEF EpisodesInv, EpisodesKept, stateVars, memoryVars, installVars, boundVars,
      memoryHistory, findingsHistory, TypeOK, TearEpisode
<1>3. ASSUME Reindex
      PROVE  EpisodesInv'
  BY <1>3 DEF EpisodesInv, EpisodesKept, stateVars, memoryVars, installVars, boundVars,
      memoryHistory, findingsHistory, TypeOK, Reindex
<1>4. ASSUME NEW s \in Session, NEW d \in Defect, CallForFindings(s, d)
      PROVE  EpisodesInv'
  BY <1>4 DEF EpisodesInv, EpisodesKept, stateVars, memoryVars, installVars, boundVars,
      memoryHistory, findingsHistory, TypeOK, CallForFindings
<1>5. ASSUME NEW s \in Session, CallForHandoff(s)
      PROVE  EpisodesInv'
  BY <1>5 DEF EpisodesInv, EpisodesKept, stateVars, memoryVars, installVars, boundVars,
      memoryHistory, findingsHistory, TypeOK, CallForHandoff
<1>6. ASSUME NEW s \in Session, WriteText(s)
      PROVE  EpisodesInv'
  BY <1>6 DEF EpisodesInv, EpisodesKept, stateVars, memoryVars, installVars, boundVars,
      memoryHistory, findingsHistory, TypeOK, WriteText
<1>7. ASSUME NEW s \in Session, RecordLanded(s)
      PROVE  EpisodesInv'
  BY <1>7 DEF EpisodesInv, EpisodesKept, stateVars, memoryVars, installVars, boundVars,
      memoryHistory, findingsHistory, TypeOK, RecordLanded, NextFile, SessIdle
<1>8. ASSUME NEW s \in Session, SessionDies(s)
      PROVE  EpisodesInv'
  BY <1>8 DEF EpisodesInv, EpisodesKept, stateVars, memoryVars, installVars, boundVars,
      memoryHistory, findingsHistory, TypeOK, SessionDies, Dead, SessIdle
<1>9. ASSUME ReconcileStateCommit
      PROVE  EpisodesInv'
  BY <1>9 DEF EpisodesInv, EpisodesKept, stateVars, memoryVars, installVars, boundVars,
      memoryHistory, findingsHistory, TypeOK, ReconcileStateCommit
<1>10. ASSUME Preflight
      PROVE  EpisodesInv'
  BY <1>10 DEF EpisodesInv, EpisodesKept, stateVars, memoryVars, installVars, boundVars,
      memoryHistory, findingsHistory, TypeOK, Preflight
<1>11. ASSUME ArchiveLegacy
      PROVE  EpisodesInv'
  BY <1>11 DEF EpisodesInv, EpisodesKept, stateVars, memoryVars, installVars, boundVars,
      memoryHistory, findingsHistory, TypeOK, ArchiveLegacy
<1>12. ASSUME NEW f \in {"ledger", "index", "findings"}, CompareLegacy(f)
      PROVE  EpisodesInv'
  BY <1>12 DEF EpisodesInv, EpisodesKept, stateVars, memoryVars, installVars, boundVars,
      memoryHistory, findingsHistory, TypeOK, CompareLegacy, Unchanged
<1>13. ASSUME NEW f \in Files, ReplaceStaged(f)
      PROVE  EpisodesInv'
  BY <1>13, StagedSubset DEF EpisodesInv, EpisodesKept, stateVars, memoryVars, installVars, boundVars,
      memoryHistory, findingsHistory, TypeOK, ReplaceStaged, Destroys, Forget, NoSnap
<1>14. ASSUME Abandon
      PROVE  EpisodesInv'
  BY <1>14 DEF EpisodesInv, EpisodesKept, stateVars, memoryVars, installVars,
      boundVars, memoryHistory, findingsHistory, TypeOK, Abandon
<1>15. ASSUME Crash
      PROVE  EpisodesInv'
  BY <1>15 DEF EpisodesInv, EpisodesKept, stateVars, memoryVars, installVars, boundVars,
      memoryHistory, findingsHistory, TypeOK, Crash, Forget, NoSnap
<1>16. CASE UNCHANGED vars
  BY <1>16 DEF EpisodesInv, EpisodesKept, stateVars, memoryVars, installVars, boundVars,
      memoryHistory, findingsHistory,
      vars
<1>17. ASSUME NEW s \in Session, OpenCommit(s)
      PROVE  EpisodesInv'
  BY <1>17 DEF EpisodesInv, EpisodesKept, stateVars, memoryVars, installVars,
      boundVars, memoryHistory, findingsHistory, TypeOK, OpenCommit
<1>18. ASSUME NEW s \in Session, Mark(s)
      PROVE  EpisodesInv'
  BY <1>18 DEF EpisodesInv, EpisodesKept, stateVars, memoryVars, installVars,
      boundVars, memoryHistory, findingsHistory, TypeOK, Mark
<1>19. ASSUME NEW s \in Session, ListLanded(s)
      PROVE  EpisodesInv'
  BY <1>19 DEF EpisodesInv, EpisodesKept, stateVars, memoryVars, installVars,
      boundVars, memoryHistory, findingsHistory, TypeOK, ListLanded, NextFile,
      SessIdle
<1>20. ASSUME NEW f \in Sources, ReadFile(f)
      PROVE  EpisodesInv'
  BY <1>20 DEF EpisodesInv, EpisodesKept, stateVars, memoryVars, installVars,
      boundVars, memoryHistory, findingsHistory, TypeOK, ReadFile
<1>21. ASSUME Stage
      PROVE  EpisodesInv'
  BY <1>21 DEF EpisodesInv, EpisodesKept, stateVars, memoryVars, installVars,
      boundVars, memoryHistory, findingsHistory, TypeOK, Stage
<1>22. ASSUME UnlinkLegacy
      PROVE  EpisodesInv'
  BY <1>22 DEF EpisodesInv, EpisodesKept, stateVars, memoryVars, installVars,
      boundVars, memoryHistory, findingsHistory, TypeOK, UnlinkLegacy
<1>23. ASSUME NEW f \in Files, PutBack(f)
      PROVE  EpisodesInv'
  BY <1>23 DEF EpisodesInv, EpisodesKept, stateVars, memoryVars, installVars,
      boundVars, memoryHistory, findingsHistory, TypeOK, PutBack, Destroys
<1>24. ASSUME NEW f \in Sources, PutBackUnlinked(f)
      PROVE  EpisodesInv'
  <2>1. Recalled(ledger) \subseteq Recalled(ledger')
    BY <1>24 DEF PutBackUnlinked, Recalled
  <2>2. known' = known /\ archive' = archive /\ host' = "undo"
    BY <1>24 DEF PutBackUnlinked, memoryHistory
  <2>3. QED
    BY <2>1, <2>2 DEF EpisodesInv, EpisodesKept
<1>25. ASSUME Raised
      PROVE  EpisodesInv'
  BY <1>25 DEF EpisodesInv, EpisodesKept, stateVars, memoryVars, installVars,
      boundVars, memoryHistory, findingsHistory, TypeOK, Raised, Forget, NoSnap
<1>26. QED
  BY <1>1, <1>2, <1>3, <1>4, <1>5, <1>6, <1>7, <1>8, <1>9, <1>10, <1>11, <1>12,
     <1>13, <1>14, <1>15, <1>16, <1>17, <1>18, <1>19, <1>20, <1>21, <1>22, <1>23, <1>24,
     <1>25 DEF Next, SessionStep, HostStep

\* Neither a torn append nor a migration, wherever it dies or fails, loses an
\* episode that an index ever answered from.
THEOREM EpisodesKeptHolds == Spec => []EpisodesKept
<1>1. EpisodesInv => EpisodesKept
  BY DEF EpisodesInv
<1>2. QED
  BY TypeInit, TypeNext, EpisodesInit, EpisodesNext, <1>1, PTL DEF Spec

------------------------------------------------------------------------------
(* A finding the tool accepted is on disk or in the archive.               *)

\* How far the migration is, what it has archived of what it is to unlink, and which
\* text it takes findings.jsonl to be.
Migration ==
  /\ host = "archive" => todo = Legacy(snap)
  /\ host \in {"archive", "remove", "unlink"} => left = Files
  /\ host \in {"remove", "unlink"} =>
       /\ todo \subseteq Legacy(snap)
       /\ "findings" \in Legacy(snap) =>
            "findings" \in todo /\ Defects(snap.findings) \subseteq archive.findings
  /\ host = "unlink" => hand \in todo /\ (hand = "findings" => todo = {"findings"})
  /\ host \in {"idle", "reindex", "read", "archive", "remove", "unlink"} =>
       believed = snap.findings
  /\ host = "replace" /\ "findings" \in left =>
       believed = IF "findings" \in Legacy(snap) THEN <<>> ELSE snap.findings
  /\ host \in {"replace", "undo"} => Defects(believed) \subseteq Defects(snap.findings)

FindingsInv == FindingsKept /\ Migration

LEMMA FindingsInit == Init => FindingsInv
  BY DEF Init, FindingsInv, FindingsKept, Migration, NoSnap

LEMMA MigrationNext == TypeOK /\ Migration /\ [Next]_vars => Migration'
<1> SUFFICES ASSUME TypeOK, Migration, [Next]_vars
             PROVE  Migration'
  OBVIOUS
<1>1. ASSUME NEW d \in Defect, RecordEpisode(d)
      PROVE  Migration'
  BY <1>1 DEF Migration, stateVars, memoryVars, installVars, boundVars,
      memoryHistory, findingsHistory, TypeOK, RecordEpisode
<1>2. ASSUME TearEpisode
      PROVE  Migration'
  BY <1>2 DEF Migration, stateVars, memoryVars, installVars, boundVars,
      memoryHistory, findingsHistory, TypeOK, TearEpisode
<1>3. ASSUME Reindex
      PROVE  Migration'
  BY <1>3 DEF Migration, stateVars, memoryVars, installVars, boundVars,
      memoryHistory, findingsHistory, TypeOK, Reindex
<1>4. ASSUME NEW s \in Session, NEW d \in Defect, CallForFindings(s, d)
      PROVE  Migration'
  BY <1>4 DEF Migration, stateVars, memoryVars, installVars, boundVars,
      memoryHistory, findingsHistory, TypeOK, CallForFindings
<1>5. ASSUME NEW s \in Session, CallForHandoff(s)
      PROVE  Migration'
  BY <1>5 DEF Migration, stateVars, memoryVars, installVars, boundVars,
      memoryHistory, findingsHistory, TypeOK, CallForHandoff
<1>6. ASSUME NEW s \in Session, WriteText(s)
      PROVE  Migration'
  BY <1>6 DEF Migration, stateVars, memoryVars, installVars, boundVars,
      memoryHistory, findingsHistory, TypeOK, WriteText
<1>7. ASSUME NEW s \in Session, RecordLanded(s)
      PROVE  Migration'
  BY <1>7 DEF Migration, stateVars, memoryVars, installVars, boundVars,
      memoryHistory, findingsHistory, TypeOK, RecordLanded, NextFile, SessIdle
<1>8. ASSUME NEW s \in Session, SessionDies(s)
      PROVE  Migration'
  BY <1>8 DEF Migration, stateVars, memoryVars, installVars, boundVars,
      memoryHistory, findingsHistory, TypeOK, SessionDies, Dead, SessIdle
<1>9. ASSUME ReconcileStateCommit
      PROVE  Migration'
  BY <1>9 DEF Migration, stateVars, memoryVars, installVars, boundVars,
      memoryHistory, findingsHistory, TypeOK, ReconcileStateCommit
<1>10. ASSUME Preflight
      PROVE  Migration'
  BY <1>10 DEF Migration, stateVars, memoryVars, installVars, boundVars,
      memoryHistory, findingsHistory, TypeOK, Preflight
<1>11. ASSUME ArchiveLegacy
      PROVE  Migration'
  BY <1>11 DEF Migration, stateVars, memoryVars, installVars, boundVars,
      memoryHistory, findingsHistory, TypeOK, ArchiveLegacy
<1>12. ASSUME NEW f \in {"ledger", "index", "findings"}, CompareLegacy(f)
      PROVE  Migration'
  BY <1>12 DEF Migration, stateVars, memoryVars, installVars, boundVars,
      memoryHistory, findingsHistory, TypeOK, CompareLegacy
<1>13. ASSUME NEW f \in Files, ReplaceStaged(f)
      PROVE  Migration'
  <2>1. Defects(Staged(snap.findings)) \subseteq Defects(snap.findings)
    BY StagedSubset DEF TypeOK, SnapType
  <2>2. QED
    BY <1>13, <2>1 DEF Migration, ReplaceStaged, Forget, NoSnap
<1>14. ASSUME Abandon
      PROVE  Migration'
  BY <1>14 DEF Migration, stateVars, memoryVars, installVars, boundVars,
      memoryHistory, findingsHistory, TypeOK, Abandon
<1>15. ASSUME Crash
      PROVE  Migration'
  BY <1>15 DEF Migration, stateVars, memoryVars, installVars, boundVars,
      memoryHistory, findingsHistory, TypeOK, Crash, Forget, NoSnap
<1>16. CASE UNCHANGED vars
  BY <1>16 DEF Migration, stateVars, memoryVars, installVars, boundVars,
      memoryHistory, findingsHistory,
      vars
<1>17. ASSUME NEW s \in Session, OpenCommit(s)
      PROVE  Migration'
  BY <1>17 DEF Migration, stateVars, memoryVars, installVars, boundVars,
      memoryHistory, findingsHistory, TypeOK, OpenCommit
<1>18. ASSUME NEW s \in Session, Mark(s)
      PROVE  Migration'
  BY <1>18 DEF Migration, stateVars, memoryVars, installVars, boundVars,
      memoryHistory, findingsHistory, TypeOK, Mark
<1>19. ASSUME NEW s \in Session, ListLanded(s)
      PROVE  Migration'
  BY <1>19 DEF Migration, stateVars, memoryVars, installVars, boundVars,
      memoryHistory, findingsHistory, TypeOK, ListLanded, NextFile, SessIdle
<1>20. ASSUME NEW f \in Sources, ReadFile(f)
      PROVE  Migration'
  <2>1. CASE f = "findings"
    BY <1>20, <2>1 DEF Migration, ReadFile, TypeOK, SnapType
  <2>2. CASE f # "findings"
    <3>1. snap'.findings = snap.findings
      BY <1>20, <2>2 DEF ReadFile, TypeOK, SnapType, Sources, Files
    <3>2. QED
      BY <1>20, <2>2, <3>1 DEF Migration, ReadFile
  <2>3. QED
    BY <2>1, <2>2
<1>21. ASSUME Stage
      PROVE  Migration'
  <2>1. CASE Legacy(snap) = {}
    BY <1>21, <2>1 DEF Migration, installVars, Stage
  <2>2. CASE Legacy(snap) # {}
    BY <1>21, <2>2 DEF Migration, installVars, Stage
  <2>3. QED
    BY <2>1, <2>2
<1>22. ASSUME UnlinkLegacy
      PROVE  Migration'
  <2>1. CASE hand = "findings"
    BY <1>22, <2>1 DEF Migration, UnlinkLegacy, Defects
  <2>2. CASE hand # "findings"
    BY <1>22, <2>2 DEF Migration, UnlinkLegacy
  <2>3. QED
    BY <2>1, <2>2
<1>23. ASSUME NEW f \in Files, PutBack(f)
      PROVE  Migration'
  BY <1>23 DEF Migration, stateVars, memoryVars, installVars, boundVars,
      memoryHistory, findingsHistory, TypeOK, PutBack, Destroys
<1>24. ASSUME NEW f \in Sources, PutBackUnlinked(f)
      PROVE  Migration'
  BY <1>24 DEF Migration, stateVars, memoryVars, installVars, boundVars,
      memoryHistory, findingsHistory, TypeOK, PutBackUnlinked
<1>25. ASSUME Raised
      PROVE  Migration'
  BY <1>25 DEF Migration, stateVars, memoryVars, installVars, boundVars,
      memoryHistory, findingsHistory, TypeOK, Raised, Forget, NoSnap
<1>26. QED
  BY <1>1, <1>2, <1>3, <1>4, <1>5, <1>6, <1>7, <1>8, <1>9, <1>10, <1>11, <1>12,
     <1>13, <1>14, <1>15, <1>16, <1>17, <1>18, <1>19, <1>20, <1>21, <1>22, <1>23, <1>24,
     <1>25 DEF Next, SessionStep, HostStep

LEMMA FindingsNext == TypeOK /\ FindingsInv /\ [Next]_vars => FindingsInv'
<1> SUFFICES ASSUME TypeOK, FindingsInv, [Next]_vars
             PROVE  FindingsKept'
  BY MigrationNext DEF FindingsInv
<1>1. ASSUME NEW d \in Defect, RecordEpisode(d)
      PROVE  FindingsKept'
  BY <1>1 DEF FindingsInv, FindingsKept, stateVars, memoryVars, installVars, boundVars,
      memoryHistory, findingsHistory, TypeOK, RecordEpisode
<1>2. ASSUME TearEpisode
      PROVE  FindingsKept'
  BY <1>2 DEF FindingsInv, FindingsKept, stateVars, memoryVars, installVars, boundVars,
      memoryHistory, findingsHistory, TypeOK, TearEpisode
<1>3. ASSUME Reindex
      PROVE  FindingsKept'
  BY <1>3 DEF FindingsInv, FindingsKept, stateVars, memoryVars, installVars, boundVars,
      memoryHistory, findingsHistory, TypeOK, Reindex
<1>4. ASSUME NEW s \in Session, NEW d \in Defect, CallForFindings(s, d)
      PROVE  FindingsKept'
  BY <1>4 DEF FindingsInv, FindingsKept, stateVars, memoryVars, installVars, boundVars,
      memoryHistory, findingsHistory, TypeOK, CallForFindings
<1>5. ASSUME NEW s \in Session, CallForHandoff(s)
      PROVE  FindingsKept'
  BY <1>5 DEF FindingsInv, FindingsKept, stateVars, memoryVars, installVars, boundVars,
      memoryHistory, findingsHistory, TypeOK, CallForHandoff
<1>6. ASSUME NEW s \in Session, WriteText(s)
      PROVE  FindingsKept'
  BY <1>6 DEF FindingsInv, FindingsKept, stateVars, memoryVars, installVars, boundVars,
      memoryHistory, findingsHistory, TypeOK, WriteText
<1>7. ASSUME NEW s \in Session, RecordLanded(s)
      PROVE  FindingsKept'
  BY <1>7 DEF FindingsInv, FindingsKept, stateVars, memoryVars, installVars, boundVars,
      memoryHistory, findingsHistory, TypeOK, RecordLanded, NextFile, SessIdle
<1>8. ASSUME NEW s \in Session, SessionDies(s)
      PROVE  FindingsKept'
  BY <1>8 DEF FindingsInv, FindingsKept, stateVars, memoryVars, installVars, boundVars,
      memoryHistory, findingsHistory, TypeOK, SessionDies, Dead, SessIdle
<1>9. ASSUME ReconcileStateCommit
      PROVE  FindingsKept'
  BY <1>9 DEF FindingsInv, FindingsKept, stateVars, memoryVars, installVars, boundVars,
      memoryHistory, findingsHistory, TypeOK, ReconcileStateCommit
<1>10. ASSUME Preflight
      PROVE  FindingsKept'
  BY <1>10 DEF FindingsInv, FindingsKept, stateVars, memoryVars, installVars, boundVars,
      memoryHistory, findingsHistory, TypeOK, Preflight
<1>11. ASSUME ArchiveLegacy
      PROVE  FindingsKept'
  BY <1>11 DEF FindingsInv, FindingsKept, stateVars, memoryVars, installVars, boundVars,
      memoryHistory, findingsHistory, TypeOK, ArchiveLegacy
<1>12. ASSUME NEW f \in {"ledger", "index", "findings"}, CompareLegacy(f)
      PROVE  FindingsKept'
  BY <1>12 DEF FindingsInv, FindingsKept, stateVars, findingsHistory, CompareLegacy
<1>13. ASSUME NEW f \in Files, ReplaceStaged(f)
      PROVE  FindingsKept'
  <2>1. CASE f = "handoffs"
    BY <1>13, <2>1 DEF ReplaceStaged, FindingsInv, FindingsKept
  <2>2. CASE f = "findings"
    <3>1. owed \subseteq Defects(findings) \union archive.findings \union lost
      BY DEF FindingsInv, FindingsKept
    <3>2. /\ findings' = Staged(snap.findings) /\ host = "replace" /\ "findings" \in left
          /\ owed' = owed /\ archive' = archive /\ Destroys
      BY <1>13, <2>2 DEF ReplaceStaged
    <3>3. snap.findings \in Seq(Record)
      BY DEF TypeOK, SnapType
    <3>4. CASE findings # believed
      BY <3>1, <3>2, <3>4 DEF Destroys, FindingsKept
    <3>5. CASE findings = believed /\ "findings" \in Legacy(snap)
      <4>1. Defects(findings) = {}
        BY <3>2, <3>5 DEF FindingsInv, Migration, Defects
      <4>2. QED
        BY <3>1, <3>2, <3>5, <4>1 DEF Destroys, FindingsKept
    <3>6. CASE findings = believed /\ "findings" \notin Legacy(snap)
      <4>1. findings = snap.findings /\ ~Incompatible(snap.findings)
        BY <3>2, <3>6 DEF Legacy, FindingsInv, Migration
      <4>2. Defects(findings) \subseteq Defects(findings')
        BY <3>2, <3>3, <4>1, StagedKeepsCompatible
      <4>3. QED
        BY <3>1, <3>2, <3>6, <4>2 DEF Destroys, FindingsKept
    <3>7. QED
      BY <3>4, <3>5, <3>6
  <2>3. QED
    BY <2>1, <2>2 DEF Files
<1>14. ASSUME Abandon
      PROVE  FindingsKept'
  BY <1>14 DEF FindingsInv, FindingsKept, stateVars, memoryVars, installVars,
      boundVars, memoryHistory, findingsHistory, TypeOK, Abandon
<1>15. ASSUME Crash
      PROVE  FindingsKept'
  BY <1>15 DEF FindingsInv, FindingsKept, stateVars, memoryVars, installVars, boundVars,
      memoryHistory, findingsHistory, TypeOK, Crash, Forget, NoSnap
<1>16. CASE UNCHANGED vars
  BY <1>16 DEF FindingsInv, FindingsKept, stateVars, memoryVars, installVars, boundVars,
      memoryHistory, findingsHistory,
      vars
<1>17. ASSUME NEW s \in Session, OpenCommit(s)
      PROVE  FindingsKept'
  BY <1>17 DEF FindingsInv, FindingsKept, stateVars, memoryVars, installVars,
      boundVars, memoryHistory, findingsHistory, TypeOK, OpenCommit
<1>18. ASSUME NEW s \in Session, Mark(s)
      PROVE  FindingsKept'
  BY <1>18 DEF FindingsInv, FindingsKept, stateVars, memoryVars, installVars,
      boundVars, memoryHistory, findingsHistory, TypeOK, Mark
<1>19. ASSUME NEW s \in Session, ListLanded(s)
      PROVE  FindingsKept'
  BY <1>19 DEF FindingsInv, FindingsKept, stateVars, memoryVars, installVars,
      boundVars, memoryHistory, findingsHistory, TypeOK, ListLanded, NextFile,
      SessIdle
<1>20. ASSUME NEW f \in Sources, ReadFile(f)
      PROVE  FindingsKept'
  BY <1>20 DEF FindingsInv, FindingsKept, stateVars, memoryVars, installVars,
      boundVars, memoryHistory, findingsHistory, TypeOK, ReadFile
<1>21. ASSUME Stage
      PROVE  FindingsKept'
  BY <1>21 DEF FindingsInv, FindingsKept, stateVars, memoryVars, installVars,
      boundVars, memoryHistory, findingsHistory, TypeOK, Stage
<1>22. ASSUME UnlinkLegacy
      PROVE  FindingsKept'
  <2>1. CASE hand # "findings"
    BY <1>22, <2>1 DEF UnlinkLegacy, FindingsInv, FindingsKept
  <2>2. CASE hand = "findings" /\ findings # believed
    BY <1>22, <2>2 DEF UnlinkLegacy, Destroys, FindingsInv, FindingsKept
  <2>3. CASE hand = "findings" /\ findings = believed
    <3>1. Defects(findings) \subseteq archive.findings
      BY <1>22, <2>3 DEF UnlinkLegacy, FindingsInv, Migration
    <3>2. QED
      BY <1>22, <2>3, <3>1 DEF UnlinkLegacy, Destroys, FindingsInv, FindingsKept
  <2>4. QED
    BY <2>1, <2>2, <2>3
<1>23. ASSUME NEW f \in Files, PutBack(f)
      PROVE  FindingsKept'
  <2>1. CASE f = "handoffs"
    BY <1>23, <2>1 DEF PutBack, FindingsInv, FindingsKept
  <2>2. CASE f = "findings" /\ findings # believed
    BY <1>23, <2>2 DEF PutBack, Destroys, FindingsInv, FindingsKept
  <2>3. CASE f = "findings" /\ findings = believed
    <3>1. Defects(findings) \subseteq Defects(findings')
      BY <1>23, <2>3 DEF PutBack, FindingsInv, Migration
    <3>2. QED
      BY <1>23, <2>3, <3>1 DEF PutBack, Destroys, FindingsInv, FindingsKept
  <2>4. QED
    BY <2>1, <2>2, <2>3 DEF Files
<1>24. ASSUME NEW f \in Sources, PutBackUnlinked(f)
      PROVE  FindingsKept'
  BY <1>24 DEF FindingsInv, FindingsKept, stateVars, memoryVars, installVars,
      boundVars, memoryHistory, findingsHistory, TypeOK, PutBackUnlinked
<1>25. ASSUME Raised
      PROVE  FindingsKept'
  BY <1>25 DEF FindingsInv, FindingsKept, stateVars, memoryVars, installVars,
      boundVars, memoryHistory, findingsHistory, TypeOK, Raised, Forget, NoSnap
<1>26. QED
  BY <1>1, <1>2, <1>3, <1>4, <1>5, <1>6, <1>7, <1>8, <1>9, <1>10, <1>11, <1>12,
     <1>13, <1>14, <1>15, <1>16, <1>17, <1>18, <1>19, <1>20, <1>21, <1>22, <1>23, <1>24,
     <1>25 DEF Next, SessionStep, HostStep

\* No migration, and no death or failure in one, loses a finding of the last text the
\* tool accepted, but for those it destroys in a text it had not read.
THEOREM FindingsKeptHolds == Spec => []FindingsKept
<1>1. FindingsInv => FindingsKept
  BY DEF FindingsInv
<1>2. QED
  BY TypeInit, TypeNext, FindingsInit, FindingsNext, <1>1, PTL DEF Spec

=============================================================================
