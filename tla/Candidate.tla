------------------------------- MODULE Candidate -------------------------------
(***************************************************************************)
(* The shadow candidates of a workspace.  A Host process copies the clean  *)
(* product into a repository of its own, renames it into place and binds   *)
(* it to a base and a selection of findings (or to a request) with a       *)
(* receipt: provision_repair and provision_implementation of               *)
(* scripts/mode_lifecycle.py over scripts/shadow_candidate.py.  Repair     *)
(* sessions then work in it through the generated commands: the gate, the  *)
(* recording, the reconciliation and the resume, around the one candidate  *)
(* slot of work-items.json.                                                *)
(*                                                                         *)
(* The tree of a shadow is told apart only by whether it is the one of its *)
(* base, and its changes by their digest: 0 is a clean shadow.  Nobody     *)
(* locks anything: two Host processes, two sessions, the operator in the   *)
(* product and anybody in the workspace interleave.                        *)
(***************************************************************************)
EXTENDS Naturals, FiniteSets

CONSTANTS
  Host,         \* processes that provision
  Mode,         \* repair sessions
  Selection,    \* sets of finding ids
  Request,      \* user changes, for the implementer
  None,         \* no shadow, no record
  MaxRev,       \* revisions of the product (bounds the model)
  MaxDiff,      \* digests a dirty shadow can have (bounds the model)
  MaxRuns,      \* provisions begun (bounds the model)
  MaxFaults     \* crashes, and writes from outside any turn (bounds the model)

ASSUME KindsAssumption == Selection \intersect Request = {}
ASSUME BoundsAssumption ==
  MaxRev \in Nat \ {0} /\ MaxDiff \in Nat /\ MaxRuns \in Nat /\ MaxFaults \in Nat

VARIABLES
  head,       \* HEAD of the product; revisions are numbered as they are made
  line,       \* the revisions HEAD descends from, with HEAD
  dirty,      \* git status of the product is not empty
  shadow,     \* target -> its shadow, or None
  receipt,    \* target -> its receipt: "none", "torn" or "whole"
  host,       \* process -> where its provision stands
  turn,       \* session -> where its turn stands
  work,       \* the candidate of work-items.json, or None
  runs, faults

productVars == <<head, line, dirty>>
hostVars == <<receipt, host, runs>>
turnVars == <<turn, work>>
vars == <<productVars, shadow, hostVars, turnVars, faults>>

Rev == 1 .. MaxRev
Diff == 0 .. MaxDiff
Target == [base : Rev, for : Selection \union Request]
Shadow == [exact : BOOLEAN, diff : Diff, moved : BOOLEAN]
Record == [target : Target, diff : Diff]     \* PROVISIONED when diff is 0, else DIRTY

Audited == 1                                 \* the declared base of every selection
Clean(r) == head = r /\ ~dirty

ASSUME NoneAssumption == None \notin Shadow /\ None \notin Record

HostPc == {"idle", "copy", "rename", "mark", "fill", "check"}
HostIdle == [pc |-> "idle", target |-> None, exact |-> FALSE, reused |-> FALSE]
TurnPc == {"idle", "claim", "recover", "resume", "measured", "gated", "printed", "editing"}
TurnIdle == [pc |-> "idle", target |-> None, diff |-> 0, then |-> "start"]

-----------------------------------------------------------------------------
(* The operator works in the product.                                      *)

OperatorCommits ==
  /\ head < MaxRev
  /\ head' = head + 1 /\ line' = line \union {head + 1} /\ dirty' = FALSE
  /\ UNCHANGED <<shadow, hostVars, turnVars, faults>>

\* commit --amend, or any rewrite that drops HEAD.
OperatorRewrites ==
  /\ head < MaxRev
  /\ head' = head + 1 /\ line' = (line \ {head}) \union {head + 1} /\ dirty' = FALSE
  /\ UNCHANGED <<shadow, hostVars, turnVars, faults>>

OperatorEdits ==
  /\ dirty' = ~dirty
  /\ UNCHANGED <<head, line, shadow, hostVars, turnVars, faults>>

\* Anybody who writes in the workspace outside a repair turn: the implementer
\* session, whose candidate has no record, the operator, another tool.
OutsiderEdits(t) ==
  /\ faults < MaxFaults /\ shadow[t] # None
  /\ faults' = faults + 1
  /\ \/ \E d \in Diff \ {shadow[t].diff} : shadow' = [shadow EXCEPT ![t].diff = d]
     \/ shadow' = [shadow EXCEPT ![t].moved = TRUE, ![t].diff = 0]
  /\ UNCHANGED <<productVars, hostVars, turnVars>>

\* An auditor session writes back the work-items.json it had read before the claim:
\* it preserves the candidate it knew of.
WritesBack ==
  /\ faults < MaxFaults /\ work # None
  /\ faults' = faults + 1
  /\ work' = None
  /\ UNCHANGED <<productVars, shadow, hostVars, turn>>

-----------------------------------------------------------------------------
(* A Host process provisions.                                              *)

\* Faulty variant: a shadow without its receipt is left to the copy, which reuses it.
CollidesUnlessWhole(t) == shadow[t] = None /\ receipt[t] # "none"

\* Whatever exists must be the shadow and its whole receipt.
Collides(t) ==
  /\ shadow[t] # None \/ receipt[t] # "none"
  /\ shadow[t] = None \/ receipt[t] # "whole"

Provision(h, w) ==
  LET t == [base |-> head, for |-> w]
      reused == receipt[t] = "whole"
  IN /\ host[h].pc = "idle" /\ runs < MaxRuns
     /\ ~dirty /\ Audited \in line /\ ~Collides(t)
     /\ runs' = runs + 1
     /\ host' = [host EXCEPT ![h] = [HostIdle EXCEPT !.pc = IF reused THEN "check" ELSE "copy",
                                                     !.target = t, !.reused = reused]]
     /\ UNCHANGED <<productVars, shadow, receipt, turnVars, faults>>

\* shadow_candidate.provision: what appeared meanwhile is returned as it is, and a
\* copy made while the operator edits takes the edits or misses them.
Copy(h) ==
  LET t == host[h].target
  IN /\ host[h].pc = "copy"
     /\ \/ /\ shadow[t] # None
           /\ host' = [host EXCEPT ![h].pc = "mark"]
        \/ /\ shadow[t] = None
           /\ \E exact \in BOOLEAN :
                /\ exact => head = t.base
                /\ ~exact => ~Clean(t.base)
                /\ host' = [host EXCEPT ![h].pc = "rename", ![h].exact = exact]
     /\ UNCHANGED <<productVars, shadow, receipt, runs, turnVars, faults>>

\* Faulty variant: the staged copy replaces what is there.
FreeAlways(t) == TRUE

\* os.rename refuses a directory that is not empty.
Free(t) == shadow[t] = None

Rename(h) ==
  LET t == host[h].target
  IN /\ host[h].pc = "rename" /\ Audited \in line /\ Free(t)
     /\ shadow' = [shadow EXCEPT ![t] = [exact |-> host[h].exact, diff |-> 0,
                                         moved |-> FALSE]]
     /\ host' = [host EXCEPT ![h].pc = "mark"]
     /\ UNCHANGED <<productVars, receipt, runs, turnVars, faults>>

\* open("x"), and then its lines.
OpenReceipt(h) ==
  LET t == host[h].target
  IN /\ host[h].pc = "mark" /\ receipt[t] = "none"
     /\ receipt' = [receipt EXCEPT ![t] = "torn"]
     /\ host' = [host EXCEPT ![h].pc = "fill"]
     /\ UNCHANGED <<productVars, shadow, runs, turnVars, faults>>

FillReceipt(h) ==
  /\ host[h].pc = "fill"
  /\ receipt' = [receipt EXCEPT ![host[h].target] = "whole"]
  /\ host' = [host EXCEPT ![h].pc = "check"]
  /\ UNCHANGED <<productVars, shadow, runs, turnVars, faults>>

\* The last checks.  A fresh implementation is returned without them, and a reused
\* one looked at the product only when it began.
Grant(h) ==
  LET t == host[h].target
  IN /\ host[h].pc = "check"
     /\ t.for \in Selection => ~shadow[t].moved /\ Clean(t.base)
     /\ t.for \in Request /\ host[h].reused => ~shadow[t].moved
     /\ host' = [host EXCEPT ![h] = HostIdle]
     /\ UNCHANGED <<productVars, shadow, receipt, runs, turnVars, faults>>

\* A check fails, an exclusive open or a rename meets what another process put there.
Refuse(h) ==
  LET t == host[h].target
  IN /\ \/ host[h].pc = "rename" /\ (Audited \notin line \/ ~Free(t))
        \/ host[h].pc = "mark" /\ receipt[t] # "none"
        \/ /\ host[h].pc = "check"
           /\ \/ t.for \in Selection /\ ~(~shadow[t].moved /\ Clean(t.base))
              \/ t.for \in Request /\ host[h].reused /\ shadow[t].moved
     /\ host' = [host EXCEPT ![h] = HostIdle]
     /\ UNCHANGED <<productVars, shadow, receipt, runs, turnVars, faults>>

\* Killed, or its disk is full, between any two steps.
HostCrash(h) ==
  /\ host[h].pc # "idle" /\ faults < MaxFaults
  /\ faults' = faults + 1
  /\ host' = [host EXCEPT ![h] = HostIdle]
  /\ UNCHANGED <<productVars, shadow, receipt, runs, turnVars>>

-----------------------------------------------------------------------------
(* A turn of a repair session.                                             *)

Matches(t) == work # None /\ work.target = t

\* Faulty variant: the receipt of the Host is not read.
HeldUnreceipted(t) == Clean(t.base) /\ shadow[t] # None /\ ~shadow[t].moved

\* The checks every generated command begins with.
Held(t) ==
  /\ Clean(t.base)
  /\ shadow[t] # None /\ ~shadow[t].moved
  /\ receipt[t] = "whole"

\* The session reads work-items.json, and what it says decides the command to run.
ReadRecord(m, f) ==
  LET t == [base |-> head, for |-> f]
      plan == IF ~Matches(t) THEN "claim"
              ELSE IF work.diff = 0 THEN "recover" ELSE "resume"
  IN /\ turn[m].pc = "idle"
     /\ turn' = [turn EXCEPT ![m] = [TurnIdle EXCEPT !.pc = plan, !.target = t]]
     /\ UNCHANGED <<productVars, shadow, hostVars, work, faults>>

\* repair_provision_command: a clean shadow.
Gate(m) ==
  LET t == turn[m].target
  IN /\ turn[m].pc \in {"claim", "recover"}
     /\ Held(t) /\ Audited \in line /\ shadow[t].diff = 0
     /\ turn' = [turn EXCEPT ![m].pc = "gated"]
     /\ UNCHANGED <<productVars, shadow, hostVars, work, faults>>

\* Faulty variant: the printed record of a dirty shadow carries no digest.
PrintedBare(m, next) ==
  /\ turn' = [turn EXCEPT ![m].pc = "printed", ![m].then = next, ![m].diff = None]
  /\ UNCHANGED <<productVars, shadow, hostVars, work, faults>>

Printed(m, next) ==
  /\ turn' = [turn EXCEPT ![m].pc = "printed", ![m].then = next,
                          ![m].diff = shadow[turn[m].target].diff]
  /\ UNCHANGED <<productVars, shadow, hostVars, work, faults>>

\* repair_recording_command prints the record of the shadow as it is.
RecordShadow(m) ==
  LET t == turn[m].target
  IN /\ turn[m].pc \in {"recover", "gated", "editing"} /\ Held(t)
     /\ turn[m].pc = "recover" => shadow[t].diff # 0
     /\ Printed(m, IF turn[m].pc = "editing" THEN "continue"
                   ELSE IF shadow[t].diff = 0 THEN "start" ELSE "resume")

\* repair_reconcile_command: the record is this target's, and only its digest is old.
Reconcile(m) ==
  LET t == turn[m].target
  IN /\ turn[m].pc = "resume" /\ Held(t)
     /\ Matches(t) /\ work.diff # 0 /\ shadow[t].diff \notin {0, work.diff}
     /\ Printed(m, "resume")

\* The session replaces the one candidate of work-items.json with what was printed.
WriteRecord(m) ==
  LET t == turn[m].target
  IN /\ turn[m].pc = "printed"
     /\ work' = [target |-> t, diff |-> turn[m].diff]
     /\ turn' = [turn EXCEPT ![m] =
                  [TurnIdle EXCEPT !.target = t,
                                   !.pc = IF turn[m].then = "resume" THEN "resume"
                                          ELSE "editing"]]
     /\ UNCHANGED <<productVars, shadow, hostVars, faults>>

\* repair_resume_command, first half: the checks, and the digest of the changes there.
Measure(m) ==
  LET t == turn[m].target
  IN /\ turn[m].pc = "resume" /\ Held(t) /\ shadow[t].diff # 0
     /\ turn' = [turn EXCEPT ![m].pc = "measured", ![m].diff = shadow[t].diff]
     /\ UNCHANGED <<productVars, shadow, hostVars, work, faults>>

\* Faulty variant: the resume accepts what the reconciliation accepts.
SameDiffAny(m) == work.diff # 0

SameDiff(m) == work.diff = turn[m].diff

\* Second half, a process of its own: the record is read and must be of what was measured.
Resume(m) ==
  /\ turn[m].pc = "measured"
  /\ Matches(turn[m].target) /\ SameDiff(m)
  /\ turn' = [turn EXCEPT ![m].pc = "editing", ![m].diff = 0]
  /\ UNCHANGED <<productVars, shadow, hostVars, work, faults>>

\* The session changes code in the shadow.
Edit(m) ==
  LET t == turn[m].target
  IN /\ turn[m].pc = "editing"
     /\ \E d \in Diff \ {0, shadow[t].diff} : shadow' = [shadow EXCEPT ![t].diff = d]
     /\ UNCHANGED <<productVars, hostVars, turnVars, faults>>

\* A command that fails ends the turn as RETAINED, and a session may die at any step.
TurnEnds(m) ==
  /\ turn[m].pc # "idle"
  /\ turn' = [turn EXCEPT ![m] = TurnIdle]
  /\ UNCHANGED <<productVars, shadow, hostVars, work, faults>>

-----------------------------------------------------------------------------
Init ==
  /\ head = 1 /\ line = {1} /\ dirty \in BOOLEAN
  /\ shadow = [t \in Target |-> None] /\ receipt = [t \in Target |-> "none"]
  /\ host = [h \in Host |-> HostIdle] /\ turn = [m \in Mode |-> TurnIdle]
  /\ work = None /\ runs = 0 /\ faults = 0

Operator == OperatorCommits \/ OperatorRewrites \/ OperatorEdits

HostStep(h) ==
  \/ \E w \in Selection \union Request : Provision(h, w)
  \/ Copy(h) \/ Rename(h) \/ OpenReceipt(h) \/ FillReceipt(h) \/ Grant(h)
  \/ Refuse(h) \/ HostCrash(h)

ModeStep(m) ==
  \/ \E f \in Selection : ReadRecord(m, f)
  \/ Gate(m) \/ RecordShadow(m) \/ Reconcile(m) \/ WriteRecord(m) \/ Measure(m) \/ Resume(m)
  \/ Edit(m) \/ TurnEnds(m)

Next ==
  \/ Operator
  \/ \E t \in Target : OutsiderEdits(t)
  \/ WritesBack
  \/ \E h \in Host : HostStep(h)
  \/ \E m \in Mode : ModeStep(m)

Spec == Init /\ [][Next]_vars

-----------------------------------------------------------------------------
(* Properties.                                                             *)

\* Shadows, receipts, the record of work-items.json and the turns have their types.
TypeOK ==
  /\ head \in Rev /\ line \in SUBSET Rev /\ head \in line /\ dirty \in BOOLEAN
  /\ shadow \in [Target -> Shadow \union {None}]
  /\ receipt \in [Target -> {"none", "torn", "whole"}]
  /\ host \in [Host -> [pc : HostPc, target : Target \union {None}, exact : BOOLEAN,
                        reused : BOOLEAN]]
  /\ turn \in [Mode -> [pc : TurnPc, target : Target \union {None}, diff : Diff,
                        then : {"start", "continue", "resume"}]]
  /\ work \in Record \union {None}
  /\ runs \in 0 .. MaxRuns /\ faults \in 0 .. MaxFaults

\* A record of work-items.json, and a session at work, name a shadow the Host bound
\* with a whole receipt, whatever crashed or raced while it was provisioned.
BoundByReceipt ==
  /\ work # None => shadow[work.target] # None /\ receipt[work.target] = "whole"
  /\ \A m \in Mode : turn[m].pc \in {"printed", "editing"} =>
       shadow[turn[m].target] # None /\ receipt[turn[m].target] = "whole"

\* A session begins to change code only when work-items.json says of that shadow what
\* it holds: that it is claimed, or exactly the changes there (record_before_first_edit,
\* resume_policy: exact-recorded-only), whoever wrote in between.  Only what others
\* change there while the command of the resume runs, after it measured, escapes it.
Starts(m) ==
  turn[m].pc # "editing" /\ turn'[m].pc = "editing" /\ turn[m].then # "continue"
ChangedSinceMeasured(m) ==
  turn[m].pc = "measured" /\ shadow[turn[m].target].diff # turn[m].diff
StartsFromRecord ==
  [][\A m \in Mode : Starts(m) =>
       /\ work' # None /\ work'.target = turn'[m].target
       /\ \/ work'.diff \in {0, shadow[work'.target].diff}
          \/ ChangedSinceMeasured(m)]_vars

\* Between the check of a provision and its receipt.
Binding(t) == \E h \in Host : host[h].target = t /\ host[h].pc \in {"copy", "mark", "fill"}

Orphan(t) == shadow[t] # None /\ receipt[t] # "whole" /\ ~Binding(t)

\* A crash that leaves a shadow without its whole receipt retains it for good: no later
\* provision adopts it, only one that was already past its check may.
OrphanRetained == [][\A t \in Target : Orphan(t) => Orphan(t)']_vars

\* No provision, reused or raced, replaces a shadow or the changes in it: they change
\* only by the hand of a session at work there or of an outsider.
WorkKept ==
  [][\A t \in Target : shadow[t] # None /\ shadow'[t] # shadow[t] =>
       /\ shadow'[t] # None /\ shadow'[t].exact = shadow[t].exact
       /\ \/ faults' # faults
          \/ \E m \in Mode : turn[m].pc = "editing" /\ turn[m].target = t]_vars

\* The shadow a session repairs is a copy of the base its receipt binds it to.
RepairsTheBase ==
  \A m \in Mode : turn[m].pc = "editing" => shadow[turn[m].target].exact
=============================================================================
