------------------------------- MODULE Publisher -------------------------------
(***************************************************************************)
(* The store of receipts of scripts/publisher.py: batches that are opened, *)
(* filled with evidence and tasks, closed, and then reported on by an      *)
(* executor, a qa and an auditor.  A receipt is a file that is linked into *)
(* place and never written again.  Several processes publish: each checks  *)
(* the store, writes a temporary file and links it, so that what it        *)
(* checked may be older than what it links to.                             *)
(*                                                                         *)
(* The operations on batches are those of one owner: another caller of     *)
(* theirs is refused by _read_batch.  publish itself takes any key and any *)
(* payload from anybody, the keys of batches included: what it stores      *)
(* there is a receipt of Raw.  A positive report also asks that the        *)
(* artefacts of the mission verify at that moment; an operation that is    *)
(* refused changes nothing, so the model only has those that pass.         *)
(*                                                                         *)
(* The formulas that every specification has carry this one's name, since  *)
(* Receipts_proofs extends Candidate beside it.                            *)
(***************************************************************************)
EXTENDS Naturals, FiniteSets

CONSTANTS
  Proc,         \* processes that hold a Publisher on the same root
  Batch,
  Item,         \* ids of evidence and task records in a batch
  Loose,        \* ids of receipts that belong to no batch
  Actor,        \* actors of the stages
  Nothing,      \* no receipt, no request, no evidence
  Raw,          \* what is published directly: receipts, each with its key
  MaxRecords    \* MAX_RECORDS

ASSUME SetsAssumption ==
  IsFiniteSet(Proc) /\ IsFiniteSet(Batch) /\ IsFiniteSet(Item) /\ IsFiniteSet(Loose)
ASSUME LimitAssumption == MaxRecords \in Nat

VARIABLES
  store,    \* key -> its receipt, or Nothing
  asked,    \* process -> the request it has checked and not linked, or Nothing
  vouched   \* keys whose receipt an operation on batches has returned (a history)

publisherVars == <<store, asked, vouched>>

Stage == {"executor", "qa", "auditor"}
Part == {"open", "close"} \union Stage
Key == (Batch \X (Part \union Item)) \union ({"loose"} \X Loose)

ASSUME PartsAssumption == "loose" \notin Batch /\ Part \intersect Item = {}

Allowed == [executor |-> {"CANDIDATE", "FAILED"},
            qa |-> {"VERIFIED", "UNVERIFIED", "REJECTED"},
            auditor |-> {"ACCEPTED", "RETAINED"}]
Positive == {"CANDIDATE", "VERIFIED", "ACCEPTED"}
Verdict == UNION {Allowed[s] : s \in Stage}

\* What the operations read of a receipt: its payload's type, status, evidence and
\* actor, whether the rest of the payload is what they would write, and whether it is
\* of the owner of the batches.  A receipt of another batch is of another type.
Entry == [type : {"open", "evidence", "task", "stage", "other"},
           status : {"OPEN", "COMPLETE", "none"} \union Verdict,
           evidence : Item \union {Nothing}, actor : Actor \union {Nothing},
           sound : BOOLEAN, own : BOOLEAN]

\* A closing: a digest it holds is the receipt that has the digest; a COMPLETE one
\* that has gaps is not sound.
Closing == [type : {"receipt"}, status : {"COMPLETE", "PARTIAL"}, open : Entry,
            records : [Item -> Entry \union {Nothing}],
            sound : BOOLEAN, own : BOOLEAN]
Receipt == Entry \union Closing

Blank == [type |-> "other", status |-> "none", evidence |-> Nothing, actor |-> Nothing,
          sound |-> TRUE, own |-> TRUE]
Opening == [Blank EXCEPT !.type = "open", !.status = "OPEN"]
Evidence == [Blank EXCEPT !.type = "evidence"]
Task(i) == [Blank EXCEPT !.type = "task", !.evidence = i]
Report(status, evidence, actor) ==
  [Blank EXCEPT !.type = "stage", !.status = status, !.evidence = evidence, !.actor = actor]

\* The name of a key is what makes a closing one: elsewhere its type is another.
ASSUME RawAssumption ==
  /\ Raw \subseteq [key : Key, receipt : Receipt]
  /\ \A x \in Raw : x.receipt \in Entry \/ x.key[2] = "close"
ASSUME NothingAssumption == /\ Nothing \notin Receipt /\ Nothing \notin Item
                            /\ Nothing \notin [key : Key, receipt : Receipt, op : BOOLEAN]

-----------------------------------------------------------------------------
(* Room: a batch that is open keeps four places, one delivered keeps three. *)

Occupied(s) == {k \in Key : s[k] # Nothing}
Closed(s, b) == s[<<b, "close">>] # Nothing

Reserved(s) ==
  LET open == {b \in Batch : s[<<b, "open">>] # Nothing /\ s[<<b, "open">>].type = "open"}
      pending == {b \in open : ~Closed(s, b)}
      staged == {b \in open : Closed(s, b) => s[<<b, "close">>].status = "COMPLETE"}
  IN (pending \X {"close"}) \union (staged \X Stage)

Planned(s) == Occupied(s) \union Reserved(s)
With(k, r) == [store EXCEPT ![k] = r]

\* Faulty variant: the places that the open batches keep are not counted.
FitsOccupied(k, r) == Cardinality(Occupied(With(k, r))) <= MaxRecords

Fits(k, r) == Cardinality(Planned(With(k, r))) <= MaxRecords

\* What a process has checked, before it links it.
Ask(p, k, r, op) ==
  /\ asked[p] = Nothing
  /\ store[k] = Nothing /\ Fits(k, r)
  /\ asked' = [asked EXCEPT ![p] = [key |-> k, receipt |-> r, op |-> op]]
  /\ UNCHANGED <<store, vouched>>

\* The very receipt is there: it is returned and nothing is written.
Again(p, k, r) ==
  /\ asked[p] = Nothing
  /\ store[k] = r
  /\ vouched' = vouched \union {k}
  /\ UNCHANGED <<store, asked>>

\* The end of every operation on a batch; another receipt there is a conflict.
Publish(p, k, r) == Ask(p, k, r, TRUE) \/ Again(p, k, r)

-----------------------------------------------------------------------------
(* The operations.                                                          *)

\* Anybody, any key, any payload.
PublishRaw(p) == \E x \in Raw : Ask(p, x.key, x.receipt, FALSE)

OpenBatch(p, b) == Publish(p, <<b, "open">>, Opening)

\* The owner's batch, whatever published its opening.
Owned(b) == store[<<b, "open">>] # Nothing /\ store[<<b, "open">>].own

PublishRecord(p, b, i) ==
  /\ Owned(b) /\ ~Closed(store, b)
  /\ \E r \in {Evidence} \union {Task(e) : e \in Item} : Publish(p, <<b, i>>, r)

\* What a delivery must hold: both types, and the evidence of every task.
Whole(records) ==
  LET type(t) == {i \in Item : records[i] # Nothing /\ records[i].type = t}
  IN /\ type("evidence") # {} /\ type("task") # {}
     /\ \A i \in type("task") : records[i].evidence \in type("evidence")

Deliverable(r) == r # Nothing /\ r.own /\ r.type \in {"evidence", "task"}

CloseBatch(p, b) ==
  /\ Owned(b) /\ store[<<b, "open">>].status = "OPEN"
  /\ \E R \in SUBSET {i \in Item : Deliverable(store[<<b, i>>])}, st \in {"COMPLETE", "PARTIAL"} :
       LET records == [i \in Item |-> IF i \in R THEN store[<<b, i>>] ELSE Nothing]
       IN /\ st = "COMPLETE" => Whole(records) /\ \A i \in R : records[i].sound
          /\ Publish(p, <<b, "close">>,
                      [type |-> "receipt", status |-> st, open |-> store[<<b, "open">>],
                       records |-> records, sound |-> TRUE, own |-> TRUE])

\* resolve_handoff: the closing leads to a batch of its owner's and to all it
\* delivered, unaltered.
Resolves(b) ==
  LET o == store[<<b, "open">>]
      c == store[<<b, "close">>]
  IN /\ o # Nothing /\ o.type = "open" /\ o.status = "OPEN" /\ o.sound /\ o.own
     /\ c # Nothing /\ c.type = "receipt" /\ c.status = "COMPLETE" /\ c.sound /\ c.own
     /\ c.open = o
     /\ \A i \in Item : c.records[i] # Nothing => /\ store[<<b, i>>] = c.records[i]
                                                 /\ Deliverable(c.records[i]) /\ c.records[i].sound
     /\ Whole(c.records)

Staged(b, stage) == store[<<b, stage>>] # Nothing /\ store[<<b, stage>>].type = "stage"
Reported(b, stage, status) == Staged(b, stage) /\ store[<<b, stage>>].status = status

\* Faulty variant: the executor may verify its own candidate.
FollowsAnyone(b, stage, r) ==
  /\ stage # "executor" => Reported(b, "executor", "CANDIDATE")
  /\ stage = "auditor" =>
       /\ Staged(b, "qa") /\ store[<<b, "qa">>].actor # r.actor
       /\ r.status = "ACCEPTED" => store[<<b, "qa">>].status = "VERIFIED"

\* Each stage needs the one before it, by somebody else.
Follows(b, stage, r) ==
  /\ stage # "executor" => /\ Reported(b, "executor", "CANDIDATE")
                           /\ store[<<b, "executor">>].actor # r.actor
  /\ stage = "auditor" =>
       /\ Staged(b, "qa") /\ store[<<b, "qa">>].actor # r.actor
       /\ r.status = "ACCEPTED" => store[<<b, "qa">>].status = "VERIFIED"

\* A positive report is on an evidence delivered with a task of its own, and on
\* the one the stages before it reported.
Grounded(b, stage, r) ==
  LET records == store[<<b, "close">>].records
  IN /\ r.evidence \in Item /\ records[r.evidence] # Nothing /\ records[r.evidence].type = "evidence"
     /\ \E t \in Item : /\ records[t] # Nothing
                       /\ records[t].type = "task" /\ records[t].evidence = r.evidence
     /\ stage # "executor" => store[<<b, "executor">>].evidence = r.evidence
     /\ stage = "auditor" => store[<<b, "qa">>].evidence = r.evidence

\* Any text is evidence of a report that is not positive.
ReportStage(p, b, stage) ==
  /\ Resolves(b)
  /\ \E status \in Allowed[stage], evidence \in Item \union {Nothing}, actor \in Actor :
       LET r == Report(status, evidence, actor)
       IN /\ Follows(b, stage, r)
          /\ IF status \in Positive THEN Grounded(b, stage, r) ELSE evidence = Nothing
          /\ Publish(p, <<b, stage>>, r)

-----------------------------------------------------------------------------
(* The end of every publication.                                            *)

\* The request is over; an operation whose receipt is in place has returned it.
Return(p) ==
  LET a == asked[p]
  IN /\ asked' = [asked EXCEPT ![p] = Nothing]
     /\ vouched' = IF a.op /\ store'[a.key] = a.receipt THEN vouched \union {a.key} ELSE vouched

\* Faulty variant: os.replace instead of os.link.
LinkOver(p) ==
  /\ asked[p] # Nothing
  /\ store' = [store EXCEPT ![asked[p].key] = asked[p].receipt]
  /\ Return(p)

\* A link that collides returns the receipt that won when it is the very same,
\* and raises a conflict otherwise.
Link(p) ==
  /\ asked[p] # Nothing
  /\ store' = [store EXCEPT ![asked[p].key] = IF @ = Nothing THEN asked[p].receipt ELSE @]
  /\ Return(p)

\* The process dies, or its write fails: a hidden temporary file may stay.
Crash(p) ==
  /\ asked[p] # Nothing
  /\ asked' = [asked EXCEPT ![p] = Nothing]
  /\ UNCHANGED <<store, vouched>>

PublisherInit ==
  /\ store = [k \in Key |-> Nothing]
  /\ asked = [p \in Proc |-> Nothing]
  /\ vouched = {}

PublisherNext == \E p \in Proc :
  \/ PublishRaw(p)
  \/ \E b \in Batch : \/ OpenBatch(p, b) \/ CloseBatch(p, b)
                      \/ \E i \in Item : PublishRecord(p, b, i)
                      \/ \E stage \in Stage : ReportStage(p, b, stage)
  \/ Link(p) \/ Crash(p)

PublisherSpec == PublisherInit /\ [][PublisherNext]_publisherVars

-----------------------------------------------------------------------------
\* Only the place of a closing holds one.
Placed(k, r) == r \in Entry \/ (r \in Closing /\ k[2] = "close")

\* The store and the requests hold receipts, closings in their place only.
PublisherTypeOK ==
  /\ store \in [Key -> Receipt \union {Nothing}]
  /\ \A k \in Key : store[k] # Nothing => Placed(k, store[k])
  /\ asked \in [Proc -> [key : Key, receipt : Receipt, op : BOOLEAN] \union {Nothing}]
  /\ \A p \in Proc : asked[p] # Nothing => Placed(asked[p].key, asked[p].receipt)
  /\ vouched \subseteq Key

\* A batch that report_stage accepted was made, verified and accepted on one evidence of a
\* delivery that can still be followed, and nobody accepts what he made or verified, nor
\* verifies through report_stage what he made: however the processes raced, and whatever
\* was published directly into the batch before, between or after.
AcceptedChain ==
  \A b \in Batch : <<b, "auditor">> \in vouched /\ Reported(b, "auditor", "ACCEPTED") =>
    LET ex == store[<<b, "executor">>]
        qa == store[<<b, "qa">>]
        au == store[<<b, "auditor">>]
    IN /\ Reported(b, "executor", "CANDIDATE") /\ Reported(b, "qa", "VERIFIED")
       /\ au.actor \notin {ex.actor, qa.actor}
       /\ <<b, "qa">> \in vouched => ex.actor # qa.actor
       /\ ex.evidence = qa.evidence /\ qa.evidence = au.evidence
       /\ Resolves(b) /\ store[<<b, "close">>].records[au.evidence] # Nothing

\* A delivery that open_batch opened and close_batch closed always resolves: the closing
\* leads to its opening and to every record it names as it was, though others published
\* into the batch directly, before or after.
HandoffResolves ==
  \A b \in Batch : {<<b, "open">>, <<b, "close">>} \subseteq vouched
                   /\ store[<<b, "close">>].status = "COMPLETE" => Resolves(b)

\* Each publisher that races with another may take the store over its limit by one batch
\* and no more, whatever it publishes; one alone always keeps the room to close and report
\* its batches.
RoomKept ==
  Cardinality(Planned(store)) <= MaxRecords + Cardinality(Part) * (Cardinality(Proc) - 1)
=============================================================================
