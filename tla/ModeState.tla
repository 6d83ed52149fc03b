------------------------------ MODULE ModeState ------------------------------
(***************************************************************************)
(* The managed state of a workspace, <workspace>/mode-state.  DSH sessions *)
(* replace its files one at a time through workflow_write, with a lease    *)
(* per file and a commit marker per unit.  The Host records there what it  *)
(* closed (scripts/episodes.py), reads the marker when a controller starts *)
(* (scripts/state_commit.py) and migrates the whole directory at every     *)
(* install (initialize_state of scripts/mode_lifecycle.py).                *)
(*                                                                         *)
(* A finding is the defect it describes and whether the tool stamped       *)
(* prior_episode on it; a unit of a session is findings.jsonl and then     *)
(* handoffs.jsonl, the order the contract declares.  The operator runs one *)
(* Host command at a time; sessions go on by themselves.  Controller and   *)
(* sessions share the directory, that is, the mission lives in the         *)
(* workspace.                                                              *)
(***************************************************************************)
EXTENDS Naturals, Sequences, FiniteSets

CONSTANTS
  Session,      \* DSH sessions; each writes one unit under its handoff id
  Unnamed,      \* the sessions whose mode declares no handoff id
  Defect,       \* the fingerprints of the quoted code
  None,         \* no session, no marker
  Half,         \* a last line of the ledger without its end
  Bad,          \* a line that does not parse
  Limit,        \* LIMITS["findings.jsonl"]
  MaxCalls,     \* findings written, episodes recorded and migrations begun (bounds the model)
  MaxFaults     \* deaths of the Host or a session, failed writes (bounds the model)

ASSUME NamesAssumption ==
  None \notin Session /\ Unnamed \subseteq Session /\ Half \notin Defect /\ Bad \notin Defect /\ Half # Bad
ASSUME BoundsAssumption ==
  Limit \in Nat \ {0} /\ MaxCalls \in Nat /\ MaxFaults \in Nat

VARIABLES
  findings,   \* the records of findings.jsonl; one that is absent is empty
  handoffs,   \* the defects handoffs.jsonl names
  ledger,     \* the lines of episodes.jsonl
  index,      \* the defects of episodes-index.json
  marker,     \* .commit.json: its unit and the files it lists, with their digests
  sess,       \* session -> the call of workflow_write it is in
  host,       \* the step the Host is about to make
  snap,       \* what the preflight has read
  todo, left, \* what it has yet to read or to unlink, and to replace or put back
  hand,       \* the legacy file it has compared and is about to unlink
  archive,    \* what the archive of legacy evidence holds
  faults, calls,
  closed,     \* history: the defects whose episode was appended whole
  known,      \* history: the defects an index was ever written with
  owed,       \* history: the defects of the last write of findings.jsonl
  believed,   \* history: the findings.jsonl the migration last read or wrote
  lost        \* history: what of that write the migration destroyed without reading it

stateVars == <<findings, handoffs>>
memoryVars == <<ledger, index>>
installVars == <<snap, todo, left, hand, archive, believed>>
boundVars == <<faults, calls>>
memoryHistory == <<closed, known>>
findingsHistory == <<owed, lost>>
vars == <<stateVars, memoryVars, marker, sess, host, installVars, boundVars,
          memoryHistory, findingsHistory>>

Record == [d : Defect, prior : BOOLEAN]
Files == {"findings", "handoffs"}
Lines == Defect \union {Half, Bad}

Defects(text) == {text[i].d : i \in DOMAIN text}

SessIdle == [pc |-> "idle", file |-> "findings", text |-> <<>>, names |-> {}, held |-> None]
Dead == [SessIdle EXCEPT !.pc = "dead"]
Listing == [findings : SUBSET Seq(Record), handoffs : SUBSET SUBSET Defect]
MarkerType == [unit : Session \union Files, files : Listing]
SessType == [pc : {"idle", "open", "mark", "write", "record", "list", "done", "dead"},
             file : Files, text : Seq(Record), names : SUBSET Defect,
             held : MarkerType \union {None}]
NoFiles == [findings |-> {}, handoffs |-> {}]
SnapType == [findings : Seq(Record), handoffs : SUBSET Defect,
             ledger : Seq(Lines), index : SUBSET Defect]
NoSnap == [findings |-> <<>>, handoffs |-> {}, ledger |-> <<>>, index |-> {}]

-----------------------------------------------------------------------------
(* The ledger of episodes and its index.                                   *)

\* Faulty variant: the ledger is opened to be written from its start.
AppendedTruncating(lines, line) == <<line>>

\* os.write with O_APPEND: what follows a line that never ended joins it.
Appended(lines, line) ==
  IF lines # <<>> /\ lines[Len(lines)] = Half
  THEN [lines EXCEPT ![Len(lines)] = IF line = Half THEN Half ELSE Bad]
  ELSE Append(lines, line)

\* read_episodes skips the last line when it does not parse, and raises for another.
Readable(lines) == \A i \in 1 .. Len(lines) - 1 : lines[i] \in Defect
Recalled(lines) == {lines[i] : i \in DOMAIN lines} \intersect Defect

\* episodes.record: the ledger first, then the index.
RecordEpisode(d) ==
  /\ host = "idle" /\ calls < MaxCalls
  /\ calls' = calls + 1
  /\ ledger' = Appended(ledger, d)
  /\ closed' = closed \union {d}
  /\ host' = "reindex"
  /\ UNCHANGED <<stateVars, index, marker, sess, installVars, faults, known,
                 findingsHistory>>

\* The process dies inside the append.
TearEpisode ==
  /\ host = "idle" /\ calls < MaxCalls /\ faults < MaxFaults
  /\ calls' = calls + 1
  /\ ledger' = Appended(ledger, Half)
  /\ faults' = faults + 1
  /\ UNCHANGED <<stateVars, index, marker, sess, host, installVars,
                 memoryHistory, findingsHistory>>

\* read_index: the cache is derived again; a ledger it cannot read is only reported.
Reindex ==
  /\ host = "reindex"
  /\ IF Readable(ledger)
     THEN /\ index' = Recalled(ledger)
          /\ known' = known \union Recalled(ledger)
     ELSE UNCHANGED <<index, known>>
  /\ host' = "idle"
  /\ UNCHANGED <<stateVars, ledger, marker, sess, installVars, boundVars, closed,
                 findingsHistory>>

-----------------------------------------------------------------------------
(* A session replaces a file.                                              *)

\* commitUnitId: the handoff the mode declared, or the file being written.
Unit(s) == IF s \in Unnamed THEN sess[s].file ELSE s

\* The marker is read, and written if it is not the one of this unit: that of another
\* unit is replaced, not refused.
OpenCommit(s) ==
  /\ sess[s].pc = "open"
  /\ sess' = [sess EXCEPT ![s].pc =
       IF marker # None /\ marker.unit = Unit(s) THEN "write" ELSE "mark"]
  /\ UNCHANGED <<stateVars, memoryVars, marker, host, installVars, boundVars,
                 memoryHistory, findingsHistory>>

\* Faulty variant: the marker is opened before the handoff id is known.
MarkUnnamed(s) ==
  /\ sess[s].pc = "mark"
  /\ marker' = [unit |-> None, files |-> NoFiles]
  /\ sess' = [sess EXCEPT ![s].pc = "write"]
  /\ UNCHANGED <<stateVars, memoryVars, host, installVars, boundVars,
                 memoryHistory, findingsHistory>>

Mark(s) ==
  /\ sess[s].pc = "mark"
  /\ marker' = [unit |-> Unit(s), files |-> NoFiles]
  /\ sess' = [sess EXCEPT ![s].pc = "write"]
  /\ UNCHANGED <<stateVars, memoryVars, host, installVars, boundVars,
                 memoryHistory, findingsHistory>>

\* The tool computes the stamp of every record of the text, those that were there
\* before too: a text that carries one of its own is refused.
Stamped(text) ==
  [i \in DOMAIN text |-> [d |-> text[i].d, prior |-> text[i].d \in index]]

\* Faulty variant: any index that is not empty is taken as an answer.
StampedAnyway(s, d) ==
  /\ sess[s].pc = "idle" /\ sess[s].file = "findings" /\ calls < MaxCalls
  /\ sess' = [sess EXCEPT ![s].pc = "open",
       ![s].text = [i \in 1 .. Len(findings) + 1 |->
         [d |-> IF i > Len(findings) THEN d ELSE findings[i].d, prior |-> index # {}]]]
  /\ calls' = calls + 1
  /\ UNCHANGED <<stateVars, memoryVars, marker, host, installVars, faults,
                 memoryHistory, findingsHistory>>

\* The session read findings.jsonl and hands in the whole new text; the tool
\* stamps what the index says was closed before.
CallForFindings(s, d) ==
  /\ sess[s].pc = "idle" /\ sess[s].file = "findings" /\ calls < MaxCalls
  /\ sess' = [sess EXCEPT ![s].pc = "open",
       ![s].text = Stamped(Append(findings, [d |-> d, prior |-> FALSE]))]
  /\ calls' = calls + 1
  /\ UNCHANGED <<stateVars, memoryVars, marker, host, installVars, faults,
                 memoryHistory, findingsHistory>>

\* An audit handoff is accepted when it names what findings.jsonl holds.
CallForHandoff(s) ==
  /\ sess[s].pc = "idle" /\ sess[s].file = "handoffs"
  /\ sess' = [sess EXCEPT ![s].pc = "open", ![s].names = Defects(findings)]
  /\ UNCHANGED <<stateVars, memoryVars, marker, host, installVars, boundVars,
                 memoryHistory, findingsHistory>>

WriteText(s) ==
  /\ sess[s].pc = "write"
  /\ IF sess[s].file = "findings"
     THEN /\ findings' = sess[s].text
          /\ owed' = Defects(sess[s].text) /\ lost' = {}
          /\ UNCHANGED handoffs
     ELSE /\ handoffs' = sess[s].names
          /\ UNCHANGED <<findings, findingsHistory>>
  /\ sess' = [sess EXCEPT ![s].pc = "record"]
  /\ UNCHANGED <<memoryVars, marker, host, installVars, boundVars,
                 memoryHistory>>

\* The unit goes on with its next file.
NextFile(s) ==
  IF sess[s].file = "findings" THEN [SessIdle EXCEPT !.file = "handoffs"]
  ELSE [SessIdle EXCEPT !.pc = "done"]

\* The file that landed is to be listed in whatever marker is there by then.
RecordLanded(s) ==
  /\ sess[s].pc = "record"
  /\ sess' = [sess EXCEPT ![s] =
       IF marker = None THEN NextFile(s)
       ELSE [SessIdle EXCEPT !.pc = "list", !.file = sess[s].file, !.held =
              IF sess[s].file = "findings"
              THEN [marker EXCEPT !.files.findings = {sess[s].text}]
              ELSE [marker EXCEPT !.files.handoffs = {sess[s].names}]]]
  /\ UNCHANGED <<stateVars, memoryVars, marker, host, installVars, boundVars,
                 memoryHistory, findingsHistory>>

\* The marker it read is written back, whatever became of the one on disk.
ListLanded(s) ==
  /\ sess[s].pc = "list"
  /\ marker' = sess[s].held
  /\ sess' = [sess EXCEPT ![s] = NextFile(s)]
  /\ UNCHANGED <<stateVars, memoryVars, host, installVars, boundVars, memoryHistory,
                 findingsHistory>>

\* A session can end at any point of its unit, and a lease that another holds ends
\* it.  Leases do nothing else here: one is taken over once LEASE_TTL_MS passed, and
\* is read before it is written, so that two sessions can be between their call and
\* their write of one file.
SessionDies(s) ==
  /\ sess[s].pc \notin {"done", "dead"} /\ faults < MaxFaults
  /\ sess' = [sess EXCEPT ![s] = Dead]
  /\ faults' = faults + 1
  /\ UNCHANGED <<stateVars, memoryVars, marker, host, installVars, calls,
                 memoryHistory, findingsHistory>>

-----------------------------------------------------------------------------
(* The controller starts.                                                  *)

Torn == \/ \E text \in marker.files.findings : findings # text
        \/ \E names \in marker.files.handoffs : handoffs # names

\* COMPLETE_UNCLOSED drops the marker; TORN only reports it.
ReconcileStateCommit ==
  /\ host = "idle" /\ marker # None
  /\ ~Torn
  /\ marker' = None
  /\ UNCHANGED <<stateVars, memoryVars, sess, host, installVars, boundVars,
                 memoryHistory, findingsHistory>>

-----------------------------------------------------------------------------
(* initialize_state, at every install.                                     *)

\* The schema of a finding has no prior_episode, and no room for a field of no name.
Admits(record) == ~record.prior

\* The records that stay: of those the schema admits, the newest of each defect, and of
\* these the last Limit.
Newest(text) ==
  {i \in DOMAIN text : Admits(text[i]) /\ \A j \in DOMAIN text :
                          j > i /\ Admits(text[j]) => text[j].d # text[i].d}
Rank(keep, i) == Cardinality({j \in keep : j <= i})
Kept(text) ==
  LET keep == Newest(text)
  IN {i \in keep : Rank(keep, i) + Limit > Cardinality(keep)}
Staged(text) ==
  [n \in 1 .. Cardinality(Kept(text)) |->
     text[CHOOSE i \in Kept(text) : Rank(Kept(text), i) = n]]
Incompatible(text) ==
  \/ \E i \in DOMAIN text : ~Admits(text[i])
  \/ Cardinality(Newest(text)) > Limit

\* What is archived and then unlinked: the files no schema names, and the
\* findings when one of their records cannot stay.
Legacy(s) ==
  {f \in {"ledger", "index", "findings"} :
     \/ f = "ledger" /\ s.ledger # <<>>
     \/ f = "index" /\ s.index # {}
     \/ f = "findings" /\ Incompatible(s.findings)}

Sources == {"ledger", "index"} \union Files
Filled(f) == CASE f = "findings" -> findings # <<>>
               [] f = "handoffs" -> handoffs # {}
               [] f = "ledger" -> ledger # <<>>
               [] f = "index" -> index # {}

\* The directory is listed first: a file that is not there yet is not read at all, and
\* one without content may be there or not.  A marker is a name it refuses.
Preflight ==
  /\ host = "idle" /\ marker = None /\ calls < MaxCalls
  /\ \E empty \in SUBSET {f \in Files : ~Filled(f)} :
       todo' = {f \in Sources : Filled(f)} \union empty
  /\ calls' = calls + 1
  /\ host' = "read"
  /\ UNCHANGED <<stateVars, memoryVars, marker, sess, snap, left, hand, archive, believed,
                 faults, memoryHistory, findingsHistory>>

\* Then the files are read one after the other, those no schema names first.
ReadFile(f) ==
  /\ host = "read" /\ f \in todo
  /\ f \in Files => todo \subseteq Files
  /\ snap' = CASE f = "findings" -> [snap EXCEPT !.findings = findings]
               [] f = "handoffs" -> [snap EXCEPT !.handoffs = handoffs]
               [] f = "ledger" -> [snap EXCEPT !.ledger = ledger]
               [] f = "index" -> [snap EXCEPT !.index = index]
  /\ believed' = IF f = "findings" THEN findings ELSE believed
  /\ todo' = todo \ {f}
  /\ UNCHANGED <<stateVars, memoryVars, marker, sess, host, left, hand, archive, boundVars,
                 memoryHistory, findingsHistory>>

\* What has been read decides what is archived, unlinked and replaced.
Stage ==
  /\ host = "read" /\ todo = {}
  /\ todo' = Legacy(snap) /\ left' = Files
  /\ host' = IF Legacy(snap) = {} THEN "replace" ELSE "archive"
  /\ UNCHANGED <<stateVars, memoryVars, marker, sess, snap, hand, archive, believed,
                 boundVars, memoryHistory, findingsHistory>>

\* Faulty variant: only the files no schema names are archived.
ArchiveUnexpectedOnly ==
  /\ host = "archive"
  /\ archive' = [archive EXCEPT !.ledger = @ \union
                   (IF "ledger" \in todo THEN Recalled(snap.ledger) ELSE {})]
  /\ host' = "remove"
  /\ UNCHANGED <<stateVars, memoryVars, marker, sess, snap, todo, left, hand, believed,
                 boundVars, memoryHistory, findingsHistory>>

\* Written aside and renamed: the archive of this set is whole or not there.
ArchiveLegacy ==
  /\ host = "archive"
  /\ archive' =
       [findings |-> archive.findings \union
                     (IF "findings" \in todo THEN Defects(snap.findings) ELSE {}),
        ledger |-> archive.ledger \union
                     (IF "ledger" \in todo THEN Recalled(snap.ledger) ELSE {})]
  /\ host' = "remove"
  /\ UNCHANGED <<stateVars, memoryVars, marker, sess, snap, todo, left, hand, believed,
                 boundVars, memoryHistory, findingsHistory>>

Unchanged(f) == CASE f = "findings" -> findings = snap.findings
                  [] f = "ledger" -> ledger = snap.ledger
                  [] f = "index" -> index = snap.index

\* What the migration puts in the place of a text that is not the one it last read or
\* wrote there destroys whatever of that text it does not itself hold.
Destroys ==
  lost' = IF findings = believed THEN lost
          ELSE lost \union (Defects(findings) \ Defects(findings'))

\* The findings come last; nothing holds the file between this step and the next.
CompareLegacy(f) ==
  /\ host = "remove" /\ f \in todo /\ Unchanged(f)
  /\ f = "findings" => todo = {f}
  /\ hand' = f
  /\ host' = "unlink"
  /\ UNCHANGED <<stateVars, memoryVars, marker, sess, snap, todo, left, archive, believed,
                 boundVars, memoryHistory, findingsHistory>>

UnlinkLegacy ==
  /\ host = "unlink"
  /\ findings' = IF hand = "findings" THEN <<>> ELSE findings
  /\ ledger' = IF hand = "ledger" THEN <<>> ELSE ledger
  /\ index' = IF hand = "index" THEN {} ELSE index
  /\ IF hand = "findings" THEN Destroys /\ believed' = <<>> ELSE UNCHANGED <<lost, believed>>
  /\ todo' = todo \ {hand}
  /\ host' = IF todo = {hand} THEN "replace" ELSE "remove"
  /\ hand' = None
  /\ UNCHANGED <<handoffs, marker, sess, snap, left, archive, boundVars, memoryHistory, owed>>

\* The command ends, and its memory with it.
Forget ==
  /\ host' = "idle" /\ snap' = NoSnap /\ todo' = {} /\ left' = {} /\ hand' = None
  /\ believed' = <<>>

ReplaceStaged(f) ==
  /\ host = "replace" /\ f \in left
  /\ IF f = "findings"
     THEN findings' = Staged(snap.findings) /\ Destroys /\ UNCHANGED handoffs
     ELSE handoffs' = snap.handoffs /\ UNCHANGED <<findings, lost>>
  /\ IF left = {f} THEN Forget
     ELSE /\ left' = left \ {f}
          /\ believed' = IF f = "findings" THEN findings' ELSE believed
          /\ UNCHANGED <<host, snap, todo, hand>>
  /\ UNCHANGED <<memoryVars, marker, sess, archive, boundVars, memoryHistory, owed>>

\* A changed legacy file, or a write that fails: what was read is to be put back.
Abandon ==
  /\ host \in {"remove", "unlink", "replace"}
  /\ \/ host = "remove" /\ (\E f \in todo : ~Unchanged(f)) /\ UNCHANGED faults
     \/ faults < MaxFaults /\ faults' = faults + 1
  /\ host' = "undo"
  /\ left' = Files
  /\ todo' = (Legacy(snap) \ todo) \ Files
  /\ hand' = None
  /\ UNCHANGED <<stateVars, memoryVars, marker, sess, snap, archive, believed, calls,
                 memoryHistory, findingsHistory>>

\* The files of the schema first, over whatever is there.
PutBack(f) ==
  /\ host = "undo" /\ f \in left
  /\ IF f = "findings"
     THEN findings' = snap.findings /\ Destroys /\ believed' = findings' /\ UNCHANGED handoffs
     ELSE handoffs' = snap.handoffs /\ UNCHANGED <<findings, lost, believed>>
  /\ left' = left \ {f}
  /\ UNCHANGED <<memoryVars, marker, sess, host, snap, todo, hand, archive, boundVars,
                 memoryHistory, owed>>

\* Then what was unlinked, where nothing has its name.
PutBackUnlinked(f) ==
  /\ host = "undo" /\ left = {} /\ f \in todo
  /\ ledger' = IF f = "ledger" /\ ledger = <<>> THEN snap.ledger ELSE ledger
  /\ index' = IF f = "index" /\ index = {} THEN snap.index ELSE index
  /\ todo' = todo \ {f}
  /\ UNCHANGED <<stateVars, marker, sess, host, snap, left, hand, archive, believed,
                 boundVars, memoryHistory, findingsHistory>>

Raised ==
  /\ host = "undo" /\ left = {} /\ todo = {}
  /\ Forget
  /\ UNCHANGED <<stateVars, memoryVars, marker, sess, archive, boundVars, memoryHistory,
                 findingsHistory>>

\* The Host dies, or raises before it changed anything or while it puts back.
Crash ==
  /\ host # "idle" /\ faults < MaxFaults
  /\ faults' = faults + 1
  /\ Forget
  /\ UNCHANGED <<stateVars, memoryVars, marker, sess, archive, calls,
                 memoryHistory, findingsHistory>>

-----------------------------------------------------------------------------
Init ==
  /\ findings = <<>> /\ handoffs = {}
  /\ ledger = <<>> /\ index = {}
  /\ marker = None
  /\ sess = [s \in Session |-> SessIdle]
  /\ host = "idle"
  /\ snap = NoSnap /\ todo = {} /\ left = {} /\ hand = None /\ believed = <<>>
  /\ archive = [findings |-> {}, ledger |-> {}]
  /\ faults = 0 /\ calls = 0
  /\ closed = {} /\ known = {} /\ owed = {} /\ lost = {}

SessionStep(s) ==
  \/ \E d \in Defect : CallForFindings(s, d)
  \/ CallForHandoff(s) \/ OpenCommit(s) \/ Mark(s) \/ WriteText(s)
  \/ RecordLanded(s) \/ ListLanded(s) \/ SessionDies(s)

HostStep ==
  \/ \E d \in Defect : RecordEpisode(d)
  \/ TearEpisode \/ Reindex \/ ReconcileStateCommit
  \/ Preflight \/ Stage \/ ArchiveLegacy \/ UnlinkLegacy \/ Abandon \/ Raised \/ Crash
  \/ \E f \in Sources : ReadFile(f) \/ PutBackUnlinked(f)
  \/ \E f \in {"ledger", "index", "findings"} : CompareLegacy(f)
  \/ \E f \in Files : ReplaceStaged(f) \/ PutBack(f)

Next ==
  \/ \E s \in Session : SessionStep(s)
  \/ HostStep

Spec == Init /\ [][Next]_vars

-----------------------------------------------------------------------------
\* The files, the calls of the sessions and the migration in progress have their types.
TypeOK ==
  /\ findings \in Seq(Record)
  /\ handoffs \in SUBSET Defect
  /\ ledger \in Seq(Lines) /\ index \in SUBSET Defect
  /\ marker \in MarkerType \union {None}
  /\ sess \in [Session -> SessType]
  /\ host \in {"idle", "reindex", "read", "archive", "remove", "unlink", "replace", "undo"}
  /\ snap \in SnapType
  /\ todo \in SUBSET Sources /\ left \in SUBSET Files
  /\ hand \in {None, "ledger", "index", "findings"} /\ believed \in Seq(Record)
  /\ archive \in [findings : SUBSET Defect, ledger : SUBSET Defect]
  /\ faults \in 0 .. MaxFaults /\ calls \in 0 .. MaxCalls
  /\ closed \in SUBSET Defect /\ known \in SUBSET Defect /\ owed \in SUBSET Defect
  /\ lost \in SUBSET Defect

\* Every finding of the last text the tool accepted is on disk or in the archive,
\* whatever step of a migration the Host dies or fails at, but for those that the
\* migration itself destroyed in a text it had never read.
FindingsKept == owed \subseteq Defects(findings) \union archive.findings \union lost

\* An episode that was ever answered from the index is a line of the ledger or
\* of an archived ledger: neither a torn append nor a migration loses it.
EpisodesKept == known \subseteq Recalled(ledger) \union archive.ledger

\* A finding says its defect was closed before only if a verified repair of that
\* defect was recorded, however stale the index the tool stamped it from.
StampEarned ==
  \A i \in DOMAIN findings :
    findings[i].prior => findings[i].d \in closed

\* scripts/episodes.py:22: the ledger survives what the index does not, so that no
\* proven repair turns into a repeat.
LedgerSurvives == [][Recalled(ledger) \subseteq Recalled(ledger')]_vars

=============================================================================
