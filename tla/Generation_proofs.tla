--------------------------- MODULE Generation_proofs ---------------------------
(***************************************************************************)
(* Proofs about Generation, for any processes, commands, kinds of draft    *)
(* and bounds.  IInv is shown inductive: first what the journal of the     *)
(* session tells the fold, then one lemma per part of IInv.                *)
(***************************************************************************)
EXTENDS Generation, FiniteSetTheorems, TLAPS

------------------------------------------------------------------------------
(* The journal and the fold of an observation.                             *)

\* A count of turns is a number, and is 0 only if no turn has started.
LEMMA TurnCount ==
  ASSUME NEW n \in Nat
  PROVE  /\ TurnAt(n) \in Nat
         /\ TurnAt(n) = 0 <=> Positions("turn/start", n) = {}
<1>1. IsFiniteSet(1..n)
  BY FS_Interval
<1>2. Positions("turn/start", n) \subseteq 1..n
  BY DEF Positions
<1>3. IsFiniteSet(Positions("turn/start", n))
  BY <1>1, <1>2, FS_Subset
<1>4. QED
  BY <1>3, FS_CardinalityType, FS_EmptySet DEF TurnAt

\* Between two positions with no turn/start the same turn is the last one.
LEMMA SameTurn ==
  ASSUME NEW m \in Nat, NEW n \in Nat, m <= n,
         \A k \in Positions("turn/start", n) : k <= m
  PROVE  TurnAt(m) = TurnAt(n)
<1>1. Positions("turn/start", m) = Positions("turn/start", n)
  BY DEF Positions
<1>2. QED
  BY <1>1 DEF TurnAt

\* The account of the records up to the cursor, with the records after it
\* folded in, is the account up to the new cursor.
LEMMA FoldAccounts ==
  ASSUME LogSound, log \in Seq(Events), NEW s \in SessionType, Accounts(s),
         NEW upto \in s.cursor..Len(log), NEW quiet \in BOOLEAN
  PROVE  LET f == FoldObservation(s, upto, quiet)
         IN  f \in SessionType /\ Accounts(f) /\ f.id = s.id /\ f.cursor = upto
<1> DEFINE new == (s.cursor + 1)..upto
           of(event) == new \intersect Positions(event, upto)
           open(i) == IF \E k \in of("turn/start") : k <= i THEN TurnAt(i) ELSE s.open
           asked == {open(k) : k \in of("user/message")}
           turnOf(i) == IF \E k \in of("user/message") : k <= i
                        THEN CHOOSE t \in asked : TRUE ELSE s.request
           terminal == s.terminal \/ \E i \in of("turn/end") : /\ turnOf(i) # 0
                                                               /\ turnOf(i) = TurnAt(i)
           f == FoldObservation(s, upto, quiet)
<1>1. /\ s.cursor \in Nat /\ upto \in Nat /\ s.cursor <= upto /\ upto <= Len(log)
      /\ Len(log) \in Nat
  BY DEF SessionType
<1>2. f = [s EXCEPT !.cursor = upto, !.usage = @ \union of("assistant/message"),
                    !.open = open(upto), !.request = turnOf(upto),
                    !.terminal = terminal, !.quiet = quiet]
  BY DEF FoldObservation
<1>3. \A event : Positions(event, upto) = Positions(event, s.cursor) \union of(event)
  BY <1>1 DEF Positions
<1>4. \A i \in s.cursor..upto : open(i) = TurnAt(i)
  <2> SUFFICES ASSUME NEW i \in s.cursor..upto, ~\E k \in of("turn/start") : k <= i
               PROVE  s.open = TurnAt(i)
    OBVIOUS
  <2>1. \A k \in Positions("turn/start", i) : k <= s.cursor
    BY <1>1 DEF Positions
  <2>2. TurnAt(s.cursor) = TurnAt(i)
    BY <1>1, <2>1, SameTurn
  <2>3. QED
    BY <2>2 DEF Accounts
<1>5. \A i \in s.cursor..upto : \A m \in Positions("user/message", i) : turnOf(i) = TurnAt(m)
  <2> SUFFICES ASSUME NEW i \in s.cursor..upto, NEW m \in Positions("user/message", i)
               PROVE  turnOf(i) = TurnAt(m)
    OBVIOUS
  <2>1. m \in Positions("user/message", Len(log)) /\ m \in 1..i /\ m \in Positions("user/message", upto)
    BY <1>1 DEF Positions
  <2>2. \A k \in Positions("user/message", Len(log)) : k = m
    BY <2>1 DEF LogSound
  <2>3. \A k \in of("user/message") : k = m
    BY <1>1, <2>2 DEF Positions
  <2>4. CASE m \in new
    <3>1. m \in of("user/message") /\ m <= i
      BY <1>1, <2>1, <2>4
    <3>2. open(m) = TurnAt(m)
      BY <1>1, <1>4, <2>4
    <3> HIDE DEF of, open
    <3>3. asked = {TurnAt(m)}
      BY <2>3, <3>1, <3>2
    <3>4. (CHOOSE t \in asked : TRUE) = TurnAt(m)
      BY <3>3
    <3>5. QED
      BY <3>1, <3>4
  <2>5. CASE m \notin new
    <3>1. of("user/message") = {}
      BY <2>3, <2>5
    <3>2. m \in Positions("user/message", s.cursor)
      BY <1>1, <2>1, <2>5 DEF Positions
    <3>3. s.request = TurnAt(m)
      BY <3>2 DEF Accounts
    <3>4. QED
      BY <3>1, <3>3
  <2>6. QED
    BY <2>4, <2>5
<1>6. \A i \in s.cursor..upto : Positions("user/message", i) = {} => turnOf(i) = 0
  <2> SUFFICES ASSUME NEW i \in s.cursor..upto, Positions("user/message", i) = {}
               PROVE  turnOf(i) = 0
    OBVIOUS
  <2>1. ~\E k \in of("user/message") : k <= i
    BY <1>1 DEF Positions
  <2>2. Positions("user/message", s.cursor) = {}
    BY <1>1 DEF Positions
  <2>3. QED
    BY <2>1, <2>2 DEF Accounts
<1>7. terminal <=> AnsweredBy(upto)
  <2>1. ASSUME s.terminal PROVE AnsweredBy(upto)
    BY <1>3, <2>1 DEF Accounts, AnsweredBy
  <2>2. ASSUME NEW i \in of("turn/end"), turnOf(i) # 0 PROVE AnsweredBy(upto)
    <3>1. i \in s.cursor..upto /\ i \in Positions("turn/end", upto)
      BY <1>1
    <3>2. PICK m : m \in Positions("user/message", i)
      BY <1>6, <2>2, <3>1
    <3>3. m \in Positions("user/message", upto) /\ m < i
      BY <1>1, <3>1, <3>2 DEF Positions
    <3>4. QED
      BY <3>1, <3>3 DEF AnsweredBy
  <2>3. ASSUME AnsweredBy(upto), ~s.terminal
        PROVE  \E i \in of("turn/end") : turnOf(i) # 0 /\ turnOf(i) = TurnAt(i)
    <3>1. PICK m \in Positions("user/message", upto) : TRUE
      BY <2>3 DEF AnsweredBy
    <3>2. m \in Positions("user/message", Len(log)) /\ m <= upto /\ upto \in 1..Len(log)
      BY <1>1 DEF Positions
    <3>3. PICK k \in Positions("turn/end", upto) : m < k /\ TurnAt(k) = TurnAt(m)
      BY <2>3, <3>2 DEF LogSound
    <3>4. TurnAt(m) # 0
      BY <3>2 DEF LogSound
    <3>5. k \in of("turn/end")
      <4>1. SUFFICES ASSUME k \notin new PROVE FALSE
        OBVIOUS
      <4>2. k \in Positions("turn/end", s.cursor) /\ m \in Positions("user/message", s.cursor)
        BY <1>1, <3>3, <4>1 DEF Positions
      <4>3. QED
        BY <2>3, <3>3, <4>2 DEF Accounts, AnsweredBy
    <3>6. m \in Positions("user/message", k) /\ k \in s.cursor..upto
      BY <1>1, <3>3, <3>5 DEF Positions
    <3>7. turnOf(k) = TurnAt(m)
      BY <1>5, <3>6
    <3>8. QED
      BY <3>3, <3>4, <3>5, <3>7
  <2>4. QED
    BY <2>1, <2>2, <2>3
<1>8. of("assistant/message") \subseteq Nat
  BY <1>1
<1> HIDE DEF of, open, asked, turnOf, terminal
<1>9. turnOf(upto) \in Nat /\ open(upto) \in Nat
  <2>0. upto \in s.cursor..upto
    BY <1>1
  <2>1. open(upto) = TurnAt(upto) /\ TurnAt(upto) \in Nat
    BY <1>1, <1>4, <2>0, TurnCount
  <2>2. ASSUME NEW m \in Positions("user/message", upto) PROVE turnOf(upto) \in Nat
    <3>1. m \in Nat
      BY DEF Positions
    <3>2. turnOf(upto) = TurnAt(m)
      BY <1>5, <2>0
    <3>3. QED
      BY <3>1, <3>2, TurnCount
  <2>3. QED
    BY <1>6, <2>0, <2>1, <2>2
<1>10. terminal \in BOOLEAN
  BY DEF terminal, SessionType
<1>11. f \in SessionType
  BY <1>1, <1>2, <1>8, <1>9, <1>10 DEF SessionType
<1>12. /\ f.id = s.id /\ f.cursor = upto /\ f.open = open(upto)
       /\ f.usage = s.usage \union of("assistant/message")
       /\ f.request = turnOf(upto) /\ f.terminal = terminal
  BY <1>2 DEF SessionType
<1>13. f.usage = Billed(upto)
  BY <1>3, <1>12 DEF Accounts, Billed
<1>14. f.open = TurnAt(upto)
  BY <1>1, <1>4, <1>12
<1>15. /\ Positions("user/message", upto) = {} => f.request = 0
       /\ \A m \in Positions("user/message", upto) : f.request = TurnAt(m)
  BY <1>1, <1>5, <1>6, <1>12
<1>16. Accounts(f)
  BY <1>1, <1>7, <1>12, <1>13, <1>14, <1>15 DEF Accounts
<1>17. QED
  BY <1>11, <1>12, <1>16

\* What one more record leaves of the positions, and what it adds.
LEMMA Appended ==
  ASSUME log \in Seq(Events), NEW event \in Events, Records(event)
  PROVE  /\ Len(log) \in Nat /\ Len(log') = Len(log) + 1
         /\ \A n \in 0..Len(log) : \A e : Positions(e, n)' = Positions(e, n)
         /\ \A n \in 0..Len(log) : TurnAt(n)' = TurnAt(n)
         /\ \A n \in 0..Len(log) : AnsweredBy(n)' = AnsweredBy(n)
         /\ \A e : e # event => Positions(e, Len(log))' = Positions(e, Len(log))
         /\ Positions(event, Len(log))' = Positions(event, Len(log)) \union {Len(log')}
         /\ event = "turn/start" => TurnAt(Len(log))' # 0
         /\ event # "turn/start" => TurnAt(Len(log))' = TurnAt(Len(log))
<1>1. /\ Len(log) \in Nat /\ Len(log') = Len(log) + 1
      /\ \A i \in 1..Len(log) : log'[i] = log[i]
      /\ log'[Len(log) + 1] = event
  BY DEF Records
<1>2. \A n \in 0..Len(log) : \A e : Positions(e, n)' = Positions(e, n)
  BY <1>1 DEF Positions
<1>3. /\ \A e : e # event => Positions(e, Len(log))' = Positions(e, Len(log))
      /\ Positions(event, Len(log))' = Positions(event, Len(log)) \union {Len(log')}
  BY <1>1 DEF Positions
<1>4. ASSUME NEW n \in 0..Len(log) PROVE TurnAt(n)' = TurnAt(n)
  BY <1>2 DEF TurnAt
<1>5. ASSUME NEW n \in 0..Len(log) PROVE AnsweredBy(n)' = AnsweredBy(n)
  BY <1>2 DEF AnsweredBy
<1>6. event # "turn/start" => TurnAt(Len(log))' = TurnAt(Len(log))
  BY <1>3 DEF TurnAt
<1>7. ASSUME event = "turn/start" PROVE TurnAt(Len(log))' # 0
  <2> DEFINE S == Positions("turn/start", Len(log)) \union {Len(log) + 1}
  <2>1. IsFiniteSet(1..(Len(log) + 1))
    BY <1>1, FS_Interval
  <2>2. S \subseteq 1..(Len(log) + 1)
    BY <1>1 DEF Positions
  <2>3. IsFiniteSet(S)
    BY <2>1, <2>2, FS_Subset
  <2>4. Cardinality(S) # 0
    BY <2>3, FS_EmptySet
  <2>5. Positions("turn/start", Len(log))' = S
    BY <1>1, <1>3, <1>7
  <2>6. QED
    BY <2>4, <2>5 DEF TurnAt
<1>8. QED
  BY <1>1, <1>2, <1>3, <1>4, <1>5, <1>6, <1>7

\* The last clause of LogSound, after one more record that is not the request.
LEMMA Extended ==
  ASSUME LogSound, log \in Seq(Events), NEW event \in Events, event # "user/message",
         Records(event), NEW m \in Positions("user/message", Len(log)),
         AnsweredBy(Len(log))' => \E k \in Positions("turn/end", Len(log))' :
                                     m < k /\ TurnAt(k)' = TurnAt(m)'
  PROVE  /\ TurnAt(m)' # 0
         /\ \A n \in 1..Len(log') : AnsweredBy(n)' /\ m <= n =>
              \E k \in Positions("turn/end", n)' : m < k /\ TurnAt(k)' = TurnAt(m)'
<1>1. TurnAt(m) # 0 /\ m \in 1..Len(log)
  BY DEF LogSound, Positions
<1>2. ASSUME NEW n \in 1..Len(log'), AnsweredBy(n)', m <= n
      PROVE  \E j \in Positions("turn/end", n)' : m < j /\ TurnAt(j)' = TurnAt(m)'
  <2>1. CASE n = Len(log')
    BY <1>2, <2>1
  <2>2. CASE n # Len(log')
    <3>1. n \in 1..Len(log)
      BY <2>2, Appended
    <3>2. AnsweredBy(n)
      BY <1>2, <3>1, Appended
    <3>3. PICK j \in Positions("turn/end", n) : m < j /\ TurnAt(j) = TurnAt(m)
      BY <1>2, <3>1, <3>2 DEF LogSound
    <3>4. j \in 1..Len(log)
      BY <3>1 DEF Positions
    <3>5. QED
      BY <1>1, <3>1, <3>3, <3>4, Appended
  <2>3. QED
    BY <2>1, <2>2
<1>3. QED
  BY <1>1, <1>2, Appended

\* With the journal as it was, so are its positions, its turns and its answer.
LEMMA SameJournal ==
  ASSUME UNCHANGED log
  PROVE  /\ \A e, n : Positions(e, n)' = Positions(e, n)
         /\ \A n : TurnAt(n)' = TurnAt(n)
         /\ \A n : AnsweredBy(n)' = AnsweredBy(n)
<1>1. \A e, n : Positions(e, n)' = Positions(e, n)
  BY DEF Positions
<1>2. \A n : TurnAt(n)' = TurnAt(n)
  BY <1>1 DEF TurnAt
<1>3. \A n : AnsweredBy(n)' = AnsweredBy(n)
  BY <1>1 DEF AnsweredBy
<1>4. QED
  BY <1>1, <1>2, <1>3

\* Only these change the journal, the turn or the inbox.
LEMMA JournalStep ==
  ASSUME LogSound, log \in Seq(Events),
         \/ UNCHANGED <<log, turn, inbox>>
         \/ \E h \in Hosts : SendPrompt(h)
         \/ \E kind \in {"own", "other"} : StartTurn(kind)
         \/ TakePrompt \/ BillStep \/ EndTurn
  PROVE  LogSound'
<1> USE DEF Events
<1>1. ASSUME UNCHANGED <<log, turn, inbox>> PROVE LogSound'
  BY <1>1, SameJournal DEF LogSound
<1>2. ASSUME NEW h \in Hosts, SendPrompt(h) PROVE LogSound'
  <2>1. UNCHANGED <<log, turn>> /\ (inbox' = inbox \/ (inbox = "none" /\ inbox' = "queued"))
    BY <1>2 DEF SendPrompt
  <2>2. turn = "own" => inbox' = "taken"
    BY <2>1 DEF LogSound
  <2>3. \A m \in Positions("user/message", Len(log)) : inbox' = "taken"
    BY <2>1 DEF LogSound
  <2>4. QED
    BY <2>1, <2>2, <2>3, SameJournal DEF LogSound
<1>3. ASSUME NEW kind \in {"own", "other"}, StartTurn(kind) PROVE LogSound'
  <2>1. /\ Records("turn/start") /\ turn = "none" /\ turn' = kind
        /\ inbox' = IF kind = "own" THEN "taken" ELSE inbox
        /\ kind = "own" => inbox = "queued"
    BY <1>3 DEF StartTurn
  <2>2. Positions("user/message", Len(log))' = Positions("user/message", Len(log))
    BY <2>1, Appended
  <2>3. ASSUME NEW m \in Positions("user/message", Len(log))
        PROVE  /\ inbox' = "taken" /\ TurnAt(m)' # 0 /\ AnsweredBy(Len(log))'
               /\ \A n \in 1..Len(log') : AnsweredBy(n)' /\ m <= n =>
                    \E k \in Positions("turn/end", n)' : m < k /\ TurnAt(k)' = TurnAt(m)'
    <3>1. inbox = "taken" /\ AnsweredBy(Len(log)) /\ m \in 1..Len(log)
      BY <2>1 DEF LogSound, Positions
    <3>2. PICK k \in Positions("turn/end", Len(log)) : m < k /\ TurnAt(k) = TurnAt(m)
      BY <2>1, <3>1, Appended DEF LogSound
    <3>3. k \in 1..Len(log)
      BY DEF Positions
    <3>4. k \in Positions("turn/end", Len(log))' /\ TurnAt(k)' = TurnAt(m)'
      BY <2>1, <3>1, <3>2, <3>3, Appended
    <3>5. inbox' = "taken" /\ AnsweredBy(Len(log))'
      BY <2>1, <3>1, Appended DEF AnsweredBy
    <3>6. QED
      BY <2>1, <3>2, <3>4, <3>5, Extended
  <2>4. TurnAt(Len(log))' # 0 /\ (turn' = "own" => inbox' = "taken")
    BY <2>1, Appended
  <2>5. \A m, k \in Positions("user/message", Len(log)) : k = m
    BY DEF LogSound
  <2>6. QED
    BY <2>2, <2>3, <2>4, <2>5 DEF LogSound
<1>4. ASSUME TakePrompt PROVE LogSound'
  <2>1. /\ Records("user/message") /\ turn = "own" /\ turn' = turn /\ inbox' = inbox
        /\ Positions("user/message", Len(log)) = {}
    BY <1>4 DEF TakePrompt, InTurn
  <2>2. Positions("user/message", Len(log))' = {Len(log')}
    BY <2>1, Appended
  <2>3. TurnAt(Len(log))' # 0 /\ inbox' = "taken"
    BY <2>1, Appended DEF LogSound
  <2>4. ASSUME NEW n \in 1..Len(log'), AnsweredBy(n)', Len(log') <= n PROVE FALSE
    <3>1. n = Len(log')
      BY <2>1, <2>4, Appended
    <3>2. PICK i \in Positions("user/message", n)', k \in Positions("turn/end", n)' : i < k
      BY <2>4 DEF AnsweredBy
    <3>3. i = Len(log') /\ k <= Len(log')
      BY <2>2, <3>1, <3>2 DEF Positions
    <3>4. QED
      BY <2>1, <3>2, <3>3, Appended DEF Positions
  <2>5. QED
    BY <2>1, <2>2, <2>3, <2>4 DEF LogSound
<1>5. ASSUME BillStep PROVE LogSound'
  <2>1. /\ Records("assistant/message") /\ turn # "none" /\ turn' = turn /\ inbox' = inbox
    BY <1>5 DEF BillStep, InTurn
  <2>2. /\ Positions("user/message", Len(log))' = Positions("user/message", Len(log))
        /\ Positions("turn/end", Len(log))' = Positions("turn/end", Len(log))
        /\ TurnAt(Len(log))' = TurnAt(Len(log))
    BY <2>1, Appended
  <2>3. AnsweredBy(Len(log))' = AnsweredBy(Len(log))
    BY <2>2 DEF AnsweredBy
  <2>4. ASSUME NEW m \in Positions("user/message", Len(log))
        PROVE  /\ inbox' = "taken" /\ TurnAt(m)' # 0 /\ TurnAt(m)' = TurnAt(m)
               /\ AnsweredBy(Len(log)) \/ (turn = "own" /\ TurnAt(Len(log)) = TurnAt(m))
               /\ \A n \in 1..Len(log') : AnsweredBy(n)' /\ m <= n =>
                    \E k \in Positions("turn/end", n)' : m < k /\ TurnAt(k)' = TurnAt(m)'
    <3>1. m \in 1..Len(log) /\ TurnAt(m)' = TurnAt(m)
      BY <2>1, Appended DEF Positions
    <3>2. ASSUME AnsweredBy(Len(log))
          PROVE  \E k \in Positions("turn/end", Len(log))' : m < k /\ TurnAt(k)' = TurnAt(m)'
      <4>1. PICK k \in Positions("turn/end", Len(log)) : m < k /\ TurnAt(k) = TurnAt(m)
        BY <3>1, <3>2, Appended, <2>1 DEF LogSound
      <4>2. k \in 1..Len(log)
        BY DEF Positions
      <4>3. QED
        BY <2>1, <2>2, <3>1, <4>1, <4>2, Appended
    <3>3. QED
      BY <2>1, <2>3, <3>1, <3>2, Extended DEF LogSound
  <2>5. TurnAt(Len(log))' # 0 /\ (turn' = "own" => inbox' = "taken")
    BY <2>1, <2>2 DEF LogSound
  <2>6. \A m, k \in Positions("user/message", Len(log)) : k = m
    BY DEF LogSound
  <2>7. QED
    BY <2>1, <2>2, <2>3, <2>4, <2>5, <2>6 DEF LogSound
<1>6. ASSUME EndTurn PROVE LogSound'
  <2>1. Records("turn/end") /\ turn' = "none" /\ inbox' = inbox
    BY <1>6 DEF EndTurn
  <2>2. /\ Positions("user/message", Len(log))' = Positions("user/message", Len(log))
        /\ Positions("turn/end", Len(log))' = Positions("turn/end", Len(log)) \union {Len(log')}
        /\ TurnAt(Len(log))' = TurnAt(Len(log))
    BY <2>1, Appended
  <2>3. ASSUME NEW m \in Positions("user/message", Len(log))
        PROVE  /\ inbox' = "taken" /\ TurnAt(m)' # 0 /\ AnsweredBy(Len(log))'
               /\ \A n \in 1..Len(log') : AnsweredBy(n)' /\ m <= n =>
                    \E k \in Positions("turn/end", n)' : m < k /\ TurnAt(k)' = TurnAt(m)'
    <3>1. m \in 1..Len(log) /\ TurnAt(m)' = TurnAt(m) /\ m < Len(log')
      BY <2>1, Appended DEF Positions
    <3>2. AnsweredBy(Len(log))'
      BY <2>2, <3>1 DEF AnsweredBy
    <3>3. CASE AnsweredBy(Len(log))
      <4>1. PICK k \in Positions("turn/end", Len(log)) : m < k /\ TurnAt(k) = TurnAt(m)
        BY <3>1, <3>3, Appended, <2>1 DEF LogSound
      <4>2. k \in 1..Len(log)
        BY DEF Positions
      <4>3. k \in Positions("turn/end", Len(log))' /\ TurnAt(k)' = TurnAt(m)'
        BY <2>1, <2>2, <3>1, <4>1, <4>2, Appended
      <4>4. QED
        BY <2>1, <3>2, <4>1, <4>3, Extended DEF LogSound
    <3>4. CASE ~AnsweredBy(Len(log))
      <4>1. TurnAt(Len(log)) = TurnAt(m)
        BY <3>4 DEF LogSound
      <4>2. TurnAt(Len(log))' = TurnAt(m)'
        BY <2>2, <3>1, <4>1
      <4>3. \E k \in Positions("turn/end", Len(log))' : m < k /\ TurnAt(k)' = TurnAt(m)'
        BY <2>2, <3>1, <4>2
      <4>4. QED
        BY <2>1, <3>2, <4>3, Extended DEF LogSound
    <3>5. QED
      BY <3>3, <3>4
  <2>4. \A m, k \in Positions("user/message", Len(log)) : k = m
    BY DEF LogSound
  <2>5. QED
    BY <2>1, <2>2, <2>3, <2>4 DEF LogSound
<1>7. QED
  BY <1>1, <1>2, <1>3, <1>4, <1>5, <1>6

------------------------------------------------------------------------------
(* The processes: who holds the lock, and what for.                        *)

\* The parts of IInv about the processes.
HostInv == HostTypeOK /\ LockHeld /\ SessionHeld /\ DraftHeld

\* What a step of another process, or of DSH, leaves of HostInv.
Frame ==
  /\ UNCHANGED <<session, drafts, log>> /\ incidents' \in 0..MaxIncidents
  /\ finish # {} => finish' # {}

\* h may be at l after the step: what DraftHeld and the rest say of l.
MayBeAt(h, l) ==
  /\ l \in Labels
  /\ l \in Locked <=> pc[h] \in Locked
  /\ l \in Dispatching => pc[h] \in Dispatching
  /\ l \in Observing \/ seen[h] = NothingSeen
  /\ l \in Finishing \union {"digest"} => Current > 0
  /\ l \in {"prevalidate", "finish"} => held[h] \in 1..Current
  /\ l \in Finishing => Quiescent(session) /\ ~OverBudget(session)
  /\ l \in {"generated", "rerun"} => finish' # {}
  /\ l \in {"prepare", "session"} \union Dispatching => status' # "GENERATED"

\* A process goes on to a label that it may be at, and keeps what it holds.
LEMMA Moving ==
  ASSUME HostInv, NEW h \in Hosts, NEW l, Goto(h, l), Keeps, Frame,
         status' = "GENERATED" => status = "GENERATED", MayBeAt(h, l)
  PROVE  HostInv'
<1>1. HostTypeOK'
  BY DEF HostInv, Frame, HostTypeOK, Goto, Keeps, hostVars, MayBeAt
<1>2. pc'[h] = l /\ \A g \in Hosts \ {h} : pc'[g] = pc[g]
  BY DEF HostInv, HostTypeOK, Goto
<1>3. LockHeld'
  BY <1>2 DEF HostInv, LockHeld, MayBeAt, Keeps
<1>4. SessionHeld'
  BY <1>2 DEF HostInv, SessionHeld, MayBeAt, Keeps, Frame, hostVars
<1>5. DraftHeld'
  BY <1>2 DEF HostInv, DraftHeld, MayBeAt, Keeps, Frame, hostVars, Current, Quiescent, OverBudget
<1>6. QED
  BY <1>1, <1>3, <1>4, <1>5 DEF HostInv

\* A command ends, hands over or dies: the lock is free, and nothing is held.
LEMMA Leaving ==
  ASSUME HostInv, NEW h \in Hosts, NEW l \in {"idle", "begin"}, Leaves(h, l), Frame,
         chain' \in [Hosts -> BOOLEAN],
         status' = "GENERATED" => status = "GENERATED" \/ lock = h
  PROVE  HostInv'
<1>1. NoSession \in SessionType /\ NothingSeen \in SeenType
  BY DEF NoSession, SessionType, NothingSeen, SeenType
<1>2. HostTypeOK'
  BY <1>1 DEF HostInv, Frame, HostTypeOK, Goto, Leaves, Labels
<1>3. /\ pc'[h] = l /\ seen'[h] = NothingSeen
      /\ \A g \in Hosts \ {h} : pc'[g] = pc[g] /\ mem'[g] = mem[g] /\ seen'[g] = seen[g] /\ held'[g] = held[g]
  BY DEF HostInv, HostTypeOK, Goto, Leaves
<1>4. l \notin Locked /\ l \notin Dispatching /\ l \notin Observing /\ l \notin Finishing
  BY DEF Locked, Dispatching, Observing, Finishing
<1>5. LockHeld'
  BY <1>3, <1>4, NamesAssumption DEF HostInv, LockHeld, Leaves
<1>6. SessionHeld'
  BY <1>3, <1>4 DEF HostInv, SessionHeld, Frame, NothingSeen
<1>7. DraftHeld'
  <2>1. ASSUME NEW g \in Hosts, pc'[g] \in {"prepare", "session"} \union Dispatching PROVE status' # "GENERATED"
    BY <1>3, <1>4, <2>1 DEF HostInv, DraftHeld, LockHeld, Locked, Dispatching
  <2>2. QED
    BY <1>3, <1>4, <2>1 DEF HostInv, DraftHeld, Frame, Current, Quiescent, OverBudget
<1>8. QED
  BY <1>2, <1>5, <1>6, <1>7 DEF HostInv

\* A command begins.
LEMMA Commanded ==
  ASSUME HostInv, NEW h \in Hosts, Goto(h, "lock") \/ Goto(h, "begin"), pc[h] = "idle", Frame,
         chain' \in [Hosts -> BOOLEAN], UNCHANGED <<status, lock, mem, seen, held>>
  PROVE  HostInv'
<1>1. HostTypeOK'
  BY DEF HostInv, Frame, HostTypeOK, Goto, Labels
<1>2. /\ pc'[h] \in {"lock", "begin"} /\ seen[h] = NothingSeen
      /\ \A g \in Hosts \ {h} : pc'[g] = pc[g]
  BY DEF HostInv, HostTypeOK, Goto, SessionHeld, Observing
<1> USE DEF Locked, Dispatching, Observing, Finishing
<1>3. LockHeld'
  BY <1>2 DEF HostInv, LockHeld
<1>4. SessionHeld'
  BY <1>2 DEF HostInv, SessionHeld, Frame
<1>5. DraftHeld'
  BY <1>2 DEF HostInv, DraftHeld, Frame, Current, Quiescent, OverBudget
<1>6. QED
  BY <1>1, <1>3, <1>4, <1>5 DEF HostInv

\* The holder of the lock changes what it holds, or the session: the parts of
\* HostInv that are about it follow if they hold of it.
LEMMA Holding ==
  ASSUME HostInv, NEW h \in Hosts, lock' = h, lock \in {Free, h}, HostTypeOK', NEW l, l \in Locked,
         pc' = [pc EXCEPT ![h] = l],
         \A g \in Hosts \ {h} : mem'[g] = mem[g] /\ seen'[g] = seen[g] /\ held'[g] = held[g],
         UNCHANGED <<drafts, log>>, finish # {} => finish' # {},
         status' = "GENERATED" => status = "GENERATED",
         l \in Dispatching => mem'[h] = session' /\ session'.id # 0,
         l \in Dispatching \union {"prepare", "session"} => status' # "GENERATED",
         (l \in Observing /\ seen'[h].read # {}) \/ seen'[h] = NothingSeen,
         "follow" \in seen'[h].read => seen'[h].cursor \in session'.cursor..Len(log),
         l \in Finishing => Current > 0 /\ Quiescent(session') /\ ~OverBudget(session'),
         l \in {"prevalidate", "finish"} => held'[h] \in 1..Current,
         l \in {"generated", "rerun"} => finish' # {}
  PROVE  HostInv'
<1>1. pc'[h] = l /\ \A g \in Hosts \ {h} : pc'[g] = pc[g]
  BY DEF HostInv, HostTypeOK
<1>2. \A g \in Hosts \ {h} : pc[g] \notin Locked
  BY NamesAssumption DEF HostInv, LockHeld
<1>3. \A g \in Hosts \ {h} : pc[g] \notin Dispatching /\ pc[g] \notin Observing /\ pc[g] \notin Finishing
                             /\ pc[g] \notin {"prepare", "session", "rerun"}
  BY <1>2 DEF Locked, Dispatching, Observing, Finishing
<1>4. "digest" \notin Locked
  BY DEF Locked
<1>5. LockHeld'
  BY <1>1, <1>2 DEF LockHeld
<1>6. SessionHeld'
  <2>1. \A g \in Hosts \ {h} : seen[g] = NothingSeen
    BY <1>3 DEF HostInv, SessionHeld
  <2>2. QED
    BY <1>1, <1>3, <2>1 DEF SessionHeld, NothingSeen
<1>7. DraftHeld'
  <2>1. ASSUME NEW g \in Hosts \ {h}
        PROVE  /\ pc'[g] \notin Finishing \union Dispatching
               /\ pc'[g] \notin {"prevalidate", "finish", "generated", "rerun", "prepare", "session"}
               /\ pc'[g] = "digest" => Current' > 0
    <3>1. "prevalidate" \in Finishing /\ "finish" \in Finishing /\ "generated" \in Finishing
      BY DEF Finishing
    <3>2. QED
      BY <1>1, <1>3, <3>1 DEF HostInv, DraftHeld, Current
  <2>2. QED
    BY <1>1, <1>4, <2>1 DEF DraftHeld, Current, Quiescent, OverBudget
<1>8. QED
  BY <1>5, <1>6, <1>7 DEF HostInv

\* A session created for a run is the first: its id is 1.
LEMMA Created ==
  ASSUME prompted \subseteq {session.id}, session.id = 0, 0 \notin prompted,
         NEW s, s = [NoSession EXCEPT !.id = Cardinality(prompted) + 1]
  PROVE  /\ s \in SessionType
         /\ s = [id |-> 1, cursor |-> 0, usage |-> {}, open |-> 0, request |-> 0,
                 terminal |-> FALSE, quiet |-> FALSE]
<1>1. prompted = {}
  OBVIOUS
<1>2. Cardinality(prompted) + 1 = 1
  BY <1>1, FS_EmptySet
<1>3. s = [id |-> 1, cursor |-> 0, usage |-> {}, open |-> 0, request |-> 0,
           terminal |-> FALSE, quiet |-> FALSE]
  BY <1>2 DEF NoSession
<1>4. NoSession \in SessionType
  BY DEF NoSession, SessionType
<1>5. s \in SessionType
  BY <1>2, <1>4 DEF SessionType
<1>6. QED
  BY <1>3, <1>5

\* Every step of a process keeps HostInv, action by action.
LEMMA HostActions ==
  ASSUME IInv, HostInv, NEW h \in Hosts,
         Command(h) \/ Enter(h) \/ Supervise(h) \/ Expires(h) \/ Accept(h) \/ Dies(h)
  PROVE  HostInv'
<1>1. /\ HostInv /\ HostTypeOK /\ incidents \in 0..MaxIncidents
      /\ pc[h] \in Labels /\ chain \in [Hosts -> BOOLEAN]
  BY DEF HostInv, HostTypeOK
<1> DEFINE Stands == UNCHANGED <<session, drafts, log, incidents, finish>>
<1>0. Stands => Frame
  BY <1>1 DEF Frame
<1> HIDE DEF Stands
<1>m. ASSUME NEW l, Goto(h, l), Keeps, Stands, status' = "GENERATED" => status = "GENERATED", MayBeAt(h, l)
      PROVE  HostInv'
  BY <1>0, <1>1, <1>m, Moving
<1>l. ASSUME Leaves(h, "idle") \/ Leaves(h, "begin"), Stands, chain' \in [Hosts -> BOOLEAN],
             status' = "GENERATED" => status = "GENERATED" \/ lock = h
      PROVE  HostInv'
  BY <1>0, <1>1, <1>l, Leaving
<1>e. ASSUME Ends(h), Stands, status' = "GENERATED" => status = "GENERATED" \/ lock = h
      PROVE  HostInv'
  BY <1>1, <1>e, <1>l DEF Ends
<1>h. ASSUME HandsOver(h), Stands, status' = "GENERATED" => status = "GENERATED" \/ lock = h
      PROVE  HostInv'
  BY <1>1, <1>e, <1>h, <1>l DEF HandsOver
<1> USE DEF Labels, Locked, Dispatching, Finishing, Observing, MayBeAt, diskVars, dshVars, Stands
<1>s. (pc[h] \in Observing /\ seen[h].read # {}) \/ seen[h] = NothingSeen
  BY DEF HostInv, SessionHeld
<1>2. ASSUME UNCHANGED incidents, Prepare(h) PROVE HostInv'
  BY <1>2, <1>m, <1>s DEF Prepare
<1>3. ASSUME UNCHANGED incidents, Adopt(h) PROVE HostInv'
  BY <1>3, <1>m, <1>s, <1>e DEF Adopt, Refused, HostInv, DraftHeld
<1>4. ASSUME UNCHANGED incidents, SendPrompt(h) PROVE HostInv'
  BY <1>4, <1>m, <1>s DEF SendPrompt, Refused, HostInv, DraftHeld
<1>5. ASSUME UNCHANGED incidents, Begin(h) PROVE HostInv'
  BY <1>5, <1>m, <1>s, <1>e DEF Begin
<1>6. ASSUME UNCHANGED incidents, EnsureRequest(h) PROVE HostInv'
  BY <1>6, <1>m, <1>s DEF EnsureRequest
<1>7. ASSUME UNCHANGED incidents, UnlinkRun(h) PROVE HostInv'
  BY <1>7, <1>m, <1>s, <1>e DEF UnlinkRun, Unlink
<1>8. ASSUME UNCHANGED incidents, WriteValidating(h) PROVE HostInv'
  BY <1>8, <1>m, <1>s, <1>e DEF WriteValidating, Create
<1>9. ASSUME UNCHANGED incidents, DiscardEvidence(h) PROVE HostInv'
  BY <1>9, <1>m, <1>s, <1>e DEF DiscardEvidence
<1>10. ASSUME UNCHANGED incidents, ReuseEvidence(h) PROVE HostInv'
  BY <1>10, <1>m, <1>s, <1>e DEF ReuseEvidence
<1>11. ASSUME UNCHANGED incidents, ValidateStatic(h) PROVE HostInv'
  BY <1>11, <1>m, <1>s, <1>e DEF ValidateStatic, Kind, Current
<1>12. ASSUME UNCHANGED incidents, WriteVerdict(h) PROVE HostInv'
  BY <1>12, <1>m, <1>s, <1>e DEF WriteVerdict
<1>13. ASSUME UNCHANGED incidents, RetainEarly(h) PROVE HostInv'
  BY <1>13, <1>m, <1>s, <1>e DEF RetainEarly
<1>14. ASSUME UNCHANGED incidents, WriteRetained(h) PROVE HostInv'
  BY <1>14, <1>m, <1>s, <1>e DEF WriteRetained, Settles
<1>15. ASSUME UNCHANGED incidents, Activate(h) PROVE HostInv'
  BY <1>15, <1>m, <1>s, <1>e DEF Activate
<1>16. ASSUME UNCHANGED incidents, UnlinkForReady(h) PROVE HostInv'
  BY <1>16, <1>m, <1>s, <1>e DEF UnlinkForReady, Unlink
<1>17. ASSUME UNCHANGED incidents, WriteReady(h) PROVE HostInv'
  BY <1>17, <1>m, <1>s, <1>e DEF WriteReady, Create
<1>18. ASSUME UNCHANGED incidents, UnlinkForActive(h) PROVE HostInv'
  BY <1>18, <1>m, <1>s, <1>e DEF UnlinkForActive, Unlink
<1>19. ASSUME UNCHANGED incidents, WriteActive(h) PROVE HostInv'
  BY <1>19, <1>m, <1>s, <1>e DEF WriteActive, Create
<1>20. ASSUME UNCHANGED incidents, Judge(h) PROVE HostInv'
  <2>1. mem[h] = session /\ pc[h] = "judge" /\ status # "GENERATED"
    BY <1>20 DEF Judge, HostInv, SessionHeld, DraftHeld
  <2>2. Keeps /\ Stands /\ status' = status
    BY <1>20 DEF Judge
  <2>3. CASE Goto(h, "await") \/ Goto(h, "recover") \/ Goto(h, "observe") \/ Goto(h, "retain")
    BY <1>m, <1>s, <2>1, <2>2, <2>3
  <2>4. CASE Goto(h, "verify") /\ Quiescent(session) /\ ~OverBudget(session) /\ Current > 0
    BY <1>m, <1>s, <2>1, <2>2, <2>4
  <2>5. QED
    BY <1>20, <2>1, <2>3, <2>4 DEF Judge
<1>21. ASSUME UNCHANGED incidents, TimeOut(h) PROVE HostInv'
  BY <1>21, <1>m, <1>s DEF TimeOut, HostInv, DraftHeld
<1>22. ASSUME UNCHANGED incidents, Confirm(h) PROVE HostInv'
  BY <1>22, <1>m, <1>s DEF Confirm, HostInv, DraftHeld
<1>23. ASSUME UNCHANGED incidents, GiveUp(h) PROVE HostInv'
  BY <1>23, <1>m, <1>s DEF GiveUp, HostInv, DraftHeld
<1>24. ASSUME UNCHANGED incidents, Prevalidate(h) PROVE HostInv'
  BY <1>24, <1>m, <1>s, <1>h DEF Prevalidate, HostInv, DraftHeld
<1>25. ASSUME UNCHANGED incidents, Retain(h) PROVE HostInv'
  BY <1>25, <1>e DEF Retain, Settles
<1>26. ASSUME UNCHANGED incidents, MarkRecoveryRequired(h) PROVE HostInv'
  BY <1>26, <1>m, <1>s, <1>e DEF MarkRecoveryRequired, Settles, Refused
<1>27. ASSUME UNCHANGED incidents, WriteGenerated(h) PROVE HostInv'
  <2>1. lock = h
    BY <1>1, <1>27 DEF WriteGenerated, HostInv, LockHeld
  <2>2. QED
    BY <1>27, <1>m, <1>s, <1>h, <2>1 DEF WriteGenerated
<1>28. ASSUME Command(h) PROVE HostInv'
  <2>1. /\ incidents' \in 0..MaxIncidents /\ Frame /\ pc[h] = "idle"
        /\ chain' \in [Hosts -> BOOLEAN] /\ UNCHANGED <<status, lock, mem, seen, held>>
        /\ Goto(h, "lock") \/ Goto(h, "begin")
    <3>1. incidents' \in 0..MaxIncidents
      BY <1>1, <1>28, BoundsAssumption DEF Command, Incident
    <3>2. Install(h) \/ Resume(h) \/ Finalize(h)
      BY <1>28 DEF Command
    <3>3. QED
      BY <1>1, <3>1, <3>2 DEF Install, Resume, Finalize, hostVars, Frame
  <2>2. QED
    BY <1>1, <2>1, Commanded
<1>29. ASSUME Dies(h) PROVE HostInv'
  <2>1. Frame /\ Leaves(h, "idle") /\ status' = status /\ chain' \in [Hosts -> BOOLEAN]
    BY <1>1, <1>29, BoundsAssumption DEF Dies, Crash, Ends, Frame
  <2>2. QED
    BY <1>1, <2>1, Leaving
<1>30. /\ session \in SessionType /\ Len(log) \in Nat /\ Current \in Nat /\ prompted \subseteq {session.id}
       /\ drafts \in Seq(Kinds) /\ Accounts(session) /\ LogSound /\ log \in Seq(Events)
       /\ session.cursor \in Nat /\ session.cursor <= Len(log)
  BY DEF IInv, TypeOK, DiskTypeOK, DshTypeOK, Current, OneSession, SessionType, Accounts
<1>31. Free \notin Hosts /\ (pc[h] \in Locked <=> lock = h)
  BY NamesAssumption DEF HostInv, LockHeld
<1>32. ASSUME Enter(h) PROVE HostInv'
  <2>1. pc[h] = "lock" /\ lock = Free /\ seen[h] = NothingSeen /\ UNCHANGED <<diskVars, dshVars, incidents>>
    BY <1>32, <1>s DEF Enter, Acquire
  <2>2. CASE Ends(h)
    BY <1>e, <2>1, <2>2
  <2>3. ASSUME NEW l \in {"rerun", "prepare", "retain"}, lock' = h, Goto(h, l), UNCHANGED hostVars,
               l = "rerun" => status = "GENERATED", l = "prepare" => status # "GENERATED"
        PROVE  HostInv'
    <3>1. HostTypeOK'
      BY <1>1, <2>1, <2>3 DEF HostTypeOK, Goto, hostVars
    <3>2. l = "rerun" => finish # {}
      BY <2>3 DEF IInv, GeneratedIsFinished
    <3>3. seen[h].read = {}
      BY <2>1 DEF NothingSeen
    <3>4. QED
      BY <2>1, <2>3, <3>1, <3>2, <3>3, Holding DEF Goto, hostVars
  <2>4. QED
    BY <1>32, <2>2, <2>3 DEF Enter, Acquire
<1>33. ASSUME UNCHANGED incidents, LoadOrCreate(h) PROVE HostInv'
  <2>1. /\ pc[h] = "session" /\ lock = h /\ seen[h] = NothingSeen /\ status # "GENERATED"
        /\ UNCHANGED <<status, finish, drafts, log, lock, chain, seen, held, incidents>>
    BY <1>31, <1>33, <1>s DEF LoadOrCreate, HostInv, DraftHeld
  <2>2. seen[h].read = {}
    BY <2>1 DEF NothingSeen
  <2>3. session' \in SessionType /\ session'.id # 0 /\ mem' = [mem EXCEPT ![h] = session']
    <3>1. session.id = 0 => session' \in SessionType /\ session'.id = 1
      BY <1>30, <1>33, Created DEF LoadOrCreate, IInv, NoSession
    <3>2. session.id # 0 => session' = session
      BY <1>33 DEF LoadOrCreate
    <3>3. mem' = [mem EXCEPT ![h] = session']
      BY <1>33 DEF LoadOrCreate
    <3>4. QED
      BY <1>30, <3>1, <3>2, <3>3
  <2>4. mem'[h] = session' /\ \A g \in Hosts \ {h} : mem'[g] = mem[g]
    BY <1>1, <2>3 DEF HostTypeOK
  <2>5. ASSUME NEW l \in {"adopt", "retain", "verify"}, Goto(h, l),
               l = "verify" => Quiescent(session') /\ ~OverBudget(session') /\ Current > 0
        PROVE  HostInv'
    <3>1. HostTypeOK'
      BY <1>1, <2>1, <2>3, <2>5 DEF HostTypeOK, Goto
    <3>2. QED
      BY <2>1, <2>2, <2>3, <2>4, <2>5, <3>1, Holding DEF Goto
  <2>6. CASE Goto(h, "adopt") \/ Goto(h, "retain")
    BY <2>5, <2>6
  <2>7. CASE session' = session /\ Goto(h, AfterLoad(session))
    BY <1>30, <2>5, <2>7 DEF AfterLoad
  <2>8. QED
    BY <1>33, <2>6, <2>7 DEF LoadOrCreate
<1>34. ASSUME UNCHANGED incidents, ReadFollow(h) \/ ReadControl(h) PROVE HostInv'
  <2>1. /\ pc[h] \in Observing /\ lock = h /\ status # "GENERATED" /\ mem[h] = session /\ session.id # 0
        /\ UNCHANGED <<status, session, finish, drafts, log, lock, pc, chain, mem, held, incidents>>
    BY <1>31, <1>34 DEF ReadFollow, ReadControl, HostInv, DraftHeld, SessionHeld
  <2>2. job \in BOOLEAN
    BY DEF IInv, TypeOK, DshTypeOK
  <2>3. /\ HostTypeOK' /\ seen'[h].read # {} /\ \A g \in Hosts \ {h} : seen'[g] = seen[g]
        /\ "follow" \in seen'[h].read => seen'[h].cursor \in session.cursor..Len(log)
    <3>0. "follow" \in seen[h].read => seen[h].cursor \in session.cursor..Len(log)
      BY DEF HostInv, SessionHeld
    <3>1. CASE ReadFollow(h)
      <4> DEFINE r == [seen[h] EXCEPT !.read = @ \union {"follow"}, !.cursor = Len(log)]
      <4>1. seen' = [seen EXCEPT ![h] = r]
        BY <3>1 DEF ReadFollow
      <4>2. /\ r \in SeenType /\ r.read # {}
            /\ "follow" \in r.read => r.cursor \in session.cursor..Len(log)
        <5>1. seen[h] \in SeenType
          BY <1>1 DEF HostTypeOK
        <5>2. r.cursor = Len(log) /\ r.read = seen[h].read \union {"follow"}
          BY <5>1 DEF SeenType
        <5>3. r \in SeenType
          BY <1>30, <5>1 DEF SeenType
        <5>4. Len(log) \in session.cursor..Len(log)
          BY <1>30
        <5> HIDE DEF r
        <5>5. QED
          BY <5>2, <5>3, <5>4
      <4> HIDE DEF r
      <4>3. QED
        BY <1>1, <2>1, <4>1, <4>2 DEF HostTypeOK, SeenType
    <3>2. CASE ReadControl(h)
      <4> DEFINE r == [seen[h] EXCEPT !.read = @ \union {"control"}, !.jobs = job]
      <4>1. seen' = [seen EXCEPT ![h] = r]
        BY <3>2 DEF ReadControl
      <4>2. /\ r \in SeenType /\ r.read # {}
            /\ "follow" \in r.read => r.cursor \in session.cursor..Len(log)
        BY <1>1, <2>2, <3>0 DEF HostTypeOK, SeenType
      <4> HIDE DEF r
      <4>3. QED
        BY <1>1, <2>1, <4>1, <4>2 DEF HostTypeOK, SeenType
    <3>3. QED
      BY <1>34, <3>1, <3>2
  <2>5. pc' = [pc EXCEPT ![h] = pc[h]]
    BY <1>1, <2>1 DEF HostTypeOK
  <2>6. QED
    BY <2>1, <2>3, <2>5, Holding
<1>35. ASSUME UNCHANGED incidents, ReadList(h) PROVE HostInv'
  <2>1. /\ pc[h] \in Observing /\ lock = h /\ status # "GENERATED" /\ mem[h] = session /\ session.id # 0
        /\ "follow" \in seen[h].read /\ seen[h].cursor \in session.cursor..Len(log)
        /\ UNCHANGED <<status, finish, drafts, log, lock, chain, held, incidents>>
    BY <1>31, <1>35 DEF ReadList, HostInv, DraftHeld, SessionHeld
  <2>2. PICK quiet \in BOOLEAN :
          /\ session' = mem'[h]
          /\ mem' = [mem EXCEPT ![h] = FoldObservation(session, seen[h].cursor, quiet)]
    BY <1>1, <1>35, <2>1 DEF ReadList, HostTypeOK
  <2>3. session' = FoldObservation(session, seen[h].cursor, quiet) /\ mem'[h] = session'
        /\ \A g \in Hosts \ {h} : mem'[g] = mem[g]
    BY <1>1, <2>2 DEF HostTypeOK
  <2>4. session' \in SessionType /\ session'.id = session.id
    BY <1>30, <2>1, <2>3, FoldAccounts
  <2>5. PICK l \in {"judge", "confirm"} : Goto(h, l)
    BY <1>35 DEF ReadList
  <2>6. /\ seen' = [seen EXCEPT ![h] = NothingSeen] /\ NothingSeen.read = {}
        /\ NothingSeen \in SeenType
    BY <1>35 DEF ReadList, NothingSeen, SeenType
  <2>7. HostTypeOK'
    BY <1>1, <2>1, <2>2, <2>3, <2>4, <2>5, <2>6 DEF HostTypeOK, Goto
  <2>8. seen'[h] = NothingSeen /\ \A g \in Hosts \ {h} : seen'[g] = seen[g]
    BY <1>1, <2>6 DEF HostTypeOK
  <2>9. QED
    BY <2>1, <2>3, <2>4, <2>5, <2>6, <2>7, <2>8, Holding DEF Goto
<1>36. ASSUME UNCHANGED incidents, ObservationFails(h) PROVE HostInv'
  <2>1. /\ pc[h] \in Observing /\ lock = h /\ Goto(h, "retain")
        /\ UNCHANGED <<status, session, finish, drafts, log, lock, chain, mem, held, incidents>>
    BY <1>31, <1>36 DEF ObservationFails
  <2>2. /\ seen' = [seen EXCEPT ![h] = NothingSeen] /\ NothingSeen.read = {}
        /\ NothingSeen \in SeenType
    BY <1>36 DEF ObservationFails, NothingSeen, SeenType
  <2>3. HostTypeOK' /\ seen'[h] = NothingSeen /\ \A g \in Hosts \ {h} : seen'[g] = seen[g]
    BY <1>1, <2>1, <2>2 DEF HostTypeOK, Goto
  <2>4. QED
    BY <2>1, <2>2, <2>3, Holding DEF Goto
<1>37. ASSUME UNCHANGED incidents, Verify(h) PROVE HostInv'
  <2>1. /\ pc[h] = "verify" /\ lock = h /\ seen[h] = NothingSeen
        /\ Current > 0 /\ Quiescent(session) /\ ~OverBudget(session)
        /\ held' = [held EXCEPT ![h] = Current]
        /\ UNCHANGED <<status, session, finish, drafts, log, lock, chain, mem, seen, incidents>>
    BY <1>31, <1>37, <1>s DEF Verify, HostInv, DraftHeld
  <2>2. PICK l \in {"retain", "prevalidate"} : Goto(h, l)
    BY <1>37 DEF Verify
  <2>3. HostTypeOK' /\ held'[h] = Current /\ \A g \in Hosts \ {h} : held'[g] = held[g]
    BY <1>1, <1>30, <2>1, <2>2 DEF HostTypeOK, Goto
  <2>4. seen[h].read = {} /\ Current \in 1..Current
    BY <1>30, <2>1 DEF NothingSeen
  <2>5. QED
    BY <2>1, <2>2, <2>3, <2>4, Holding DEF Goto
<1>38. ASSUME UNCHANGED incidents, WriteFinish(h) PROVE HostInv'
  <2>1. /\ pc[h] = "finish" /\ Goto(h, "generated") /\ Keeps /\ finish' # {} /\ status' = status
        /\ UNCHANGED <<session, drafts, log, incidents>>
    BY <1>38 DEF WriteFinish
  <2>2. MayBeAt(h, "generated")
    BY <1>s, <2>1 DEF HostInv, DraftHeld
  <2>3. QED
    BY <1>1, <2>1, <2>2, Moving DEF Frame
<1>39. ASSUME UNCHANGED incidents, Rerun(h) PROVE HostInv'
  <2>1. pc[h] = "rerun" /\ finish # {} /\ UNCHANGED <<diskVars, dshVars>>
    BY <1>39 DEF Rerun, HostInv, DraftHeld
  <2>2. (Goto(h, "retain") /\ Keeps) \/ HandsOver(h)
    BY <1>39, <2>1 DEF Rerun
  <2>3. QED
    BY <1>39, <1>m, <1>h, <1>s, <2>1, <2>2
<1>40. ASSUME Supervise(h) PROVE HostInv'
  BY <1>2, <1>3, <1>4, <1>20, <1>22, <1>24, <1>25, <1>26, <1>27, <1>33, <1>34, <1>35, <1>36, <1>37,
     <1>38, <1>39, <1>40 DEF Supervise
<1>41. ASSUME Accept(h) PROVE HostInv'
  BY <1>5, <1>6, <1>7, <1>8, <1>9, <1>10, <1>11, <1>12, <1>13, <1>14, <1>15, <1>16, <1>17, <1>18,
     <1>19, <1>41 DEF Accept
<1>42. ASSUME Expires(h) PROVE HostInv'
  BY <1>21, <1>23, <1>42 DEF Expires
<1>43. QED
  BY <1>28, <1>29, <1>32, <1>40, <1>41, <1>42

\* What DSH does to the rest: journal and package grow, the run may be taken.
DshFrame ==
  /\ UNCHANGED <<session, finish, lock, pc, hostVars>> /\ incidents' \in 0..MaxIncidents
  /\ Current' \in Nat /\ Current' >= Current /\ Len(log') \in Nat /\ Len(log') >= Len(log)
  /\ status' = "GENERATED" => status = "GENERATED"

\* Nothing DSH does takes from a process what it relies on.
LEMMA DshKeepsHosts ==
  ASSUME HostInv, Current \in Nat, Len(log) \in Nat, session.cursor \in Nat, DshFrame
  PROVE  HostInv'
<1>1. HostTypeOK'
  BY DEF HostInv, HostTypeOK, DshFrame, hostVars
<1>2. LockHeld'
  BY DEF HostInv, LockHeld, DshFrame
<1>3. SessionHeld'
  <2>1. \A h \in Hosts : "follow" \in seen[h].read => seen[h].cursor \in session.cursor..Len(log')
    BY DEF HostInv, SessionHeld, HostTypeOK, DshFrame, SeenType
  <2>2. QED
    BY <2>1 DEF HostInv, SessionHeld, DshFrame, hostVars
<1>4. DraftHeld'
  BY DEF HostInv, HostTypeOK, DraftHeld, DshFrame, hostVars, Quiescent, OverBudget
<1>5. QED
  BY <1>1, <1>2, <1>3, <1>4 DEF HostInv

------------------------------------------------------------------------------
(* What each step leaves alone.                                            *)

\* A step of the process h.
HostStep(h) == Command(h) \/ Enter(h) \/ Supervise(h) \/ Expires(h) \/ Accept(h) \/ Dies(h)

\* Each file has one writer among the steps of a process, and DSH its own state.
LEMMA HostFootprint ==
  ASSUME NEW h \in Hosts, HostStep(h)
  PROVE  /\ UNCHANGED <<drafts, log, turn, child, job, accepting>>
         /\ UNCHANGED <<prompted, inbox>> \/ SendPrompt(h)
         /\ UNCHANGED session \/ LoadOrCreate(h) \/ ReadList(h)
         /\ UNCHANGED finish \/ WriteFinish(h)
         /\ UNCHANGED request \/ EnsureRequest(h)
         /\ UNCHANGED verdict \/ WriteVerdict(h) \/ verdict' = {}
         /\ UNCHANGED retained \/ RetainEarly(h) \/ retained' = {}
         /\ status' \in Statuses \union {status}
         /\ status' = "GENERATED" => status = "GENERATED" \/ WriteGenerated(h)
         /\ status' = "GENERATING" => status = "GENERATING" \/ Prepare(h)
<1> USE DEF diskVars, dshVars, Statuses
<1>1. ASSUME Command(h) \/ Enter(h) \/ Dies(h) PROVE UNCHANGED <<diskVars, dshVars>>
  BY <1>1 DEF Command, Install, Resume, Finalize, Enter, Acquire, Dies, Crash
<1>2. ASSUME Expires(h) PROVE UNCHANGED <<diskVars, dshVars>>
  BY <1>2 DEF Expires, TimeOut, GiveUp
<1>3. ASSUME Prepare(h) \/ Adopt(h) \/ ReadFollow(h) \/ ReadControl(h) \/ ObservationFails(h) \/ Judge(h)
             \/ Confirm(h) \/ Verify(h) \/ Prevalidate(h) \/ Rerun(h)
      PROVE  UNCHANGED <<session, finish, request, retained, verdict, dshVars>>
             /\ (status' = status \/ (Prepare(h) /\ status' = "GENERATING"))
  BY <1>3 DEF Prepare, Adopt, ReadFollow, ReadControl, ObservationFails, Judge, Confirm, Verify, Prevalidate, Rerun
<1>4. ASSUME SendPrompt(h) PROVE UNCHANGED <<diskVars, drafts, log, turn, child, job, accepting>>
  BY <1>4 DEF SendPrompt
<1>5. ASSUME LoadOrCreate(h) \/ ReadList(h) PROVE UNCHANGED <<status, finish, request, retained, verdict, dshVars>>
  BY <1>5 DEF LoadOrCreate, ReadList
<1>6. ASSUME WriteFinish(h) PROVE UNCHANGED <<status, session, request, retained, verdict, dshVars>>
  BY <1>6 DEF WriteFinish
<1>7. ASSUME WriteGenerated(h)
      PROVE  UNCHANGED <<session, finish, request, retained, verdict, dshVars>> /\ status' \in {status, "GENERATED"}
  BY <1>7 DEF WriteGenerated
<1>8. ASSUME Retain(h) \/ MarkRecoveryRequired(h) \/ WriteRetained(h)
      PROVE  UNCHANGED <<session, finish, request, retained, verdict, dshVars>>
             /\ status' \in {status, "RETAINED", "RECOVERY_REQUIRED"}
  BY <1>8 DEF Retain, MarkRecoveryRequired, WriteRetained, Settles
<1>9. ASSUME Begin(h) \/ ValidateStatic(h) \/ Activate(h) PROVE UNCHANGED <<diskVars, dshVars>>
  BY <1>9 DEF Begin, ValidateStatic, Activate
<1>10. ASSUME EnsureRequest(h) PROVE UNCHANGED <<status, session, finish, retained, verdict, dshVars>>
  BY <1>10 DEF EnsureRequest
<1>11. ASSUME UnlinkRun(h) \/ WriteValidating(h) \/ UnlinkForReady(h) \/ WriteReady(h)
              \/ UnlinkForActive(h) \/ WriteActive(h)
       PROVE  UNCHANGED <<session, finish, request, retained, verdict, dshVars>>
              /\ status' \in {status, "MISSING", "VALIDATING", "READY_FOR_INSTALL", "ACTIVE"}
  BY <1>11 DEF UnlinkRun, WriteValidating, UnlinkForReady, WriteReady, UnlinkForActive, WriteActive,
               Unlink, Create
<1>12. ASSUME DiscardEvidence(h)
       PROVE  UNCHANGED <<status, session, finish, request, dshVars>> /\ retained' = {} /\ verdict' = {}
  BY <1>12 DEF DiscardEvidence
<1>13. ASSUME ReuseEvidence(h)
       PROVE  UNCHANGED <<status, session, finish, request, verdict, dshVars>>
              /\ retained' \in {retained, {}}
  BY <1>13 DEF ReuseEvidence
<1>14. ASSUME WriteVerdict(h) PROVE UNCHANGED <<status, session, finish, request, retained, dshVars>>
  BY <1>14 DEF WriteVerdict
<1>15. ASSUME RetainEarly(h) PROVE UNCHANGED <<status, session, finish, request, verdict, dshVars>>
  BY <1>15 DEF RetainEarly
<1>16. CASE Supervise(h)
  BY <1>3, <1>4, <1>5, <1>6, <1>7, <1>8, <1>16 DEF Supervise
<1>17. CASE Accept(h)
  BY <1>8, <1>9, <1>10, <1>11, <1>12, <1>13, <1>14, <1>15, <1>17 DEF Accept
<1>18. QED
  BY <1>1, <1>2, <1>16, <1>17 DEF HostStep

\* DSH writes its own state, and of the run only the request and run.json.
LEMMA DshFootprint ==
  ASSUME TypeOK, Dsh
  PROVE  /\ UNCHANGED <<session, finish, retained, verdict, prompted, lock, pc, hostVars>>
         /\ incidents' \in 0..MaxIncidents
         /\ request' = request \/ (request' = {Current} /\ Current # 0)
         /\ status' \in {status, "MISSING", "VALIDATING"}
         /\ \/ UNCHANGED <<log, turn, inbox>>
            \/ \E kind \in {"own", "other"} : StartTurn(kind)
            \/ TakePrompt \/ BillStep \/ EndTurn
         /\ log' = log \/ \E event \in Events : Records(event)
         /\ DshTypeOK' /\ Current' \in Nat /\ Current' >= Current
<1> USE DEF DshTypeOK, diskVars
<1>1. /\ DshTypeOK /\ incidents \in 0..MaxIncidents /\ Current \in Nat
  BY DEF TypeOK, HostTypeOK, Current
<1>2. ASSUME Incident PROVE incidents' \in 0..MaxIncidents
  BY <1>1, <1>2, BoundsAssumption DEF Incident
<1>3. ASSUME NEW event \in Events, Records(event) PROVE log' \in Seq(Events)
  BY <1>1, <1>3 DEF Records
<1>4. ASSUME UNCHANGED drafts PROVE Current' = Current
  BY <1>4 DEF Current
<1>5. ASSUME NEW kind \in {"own", "other"}, StartTurn(kind)
      PROVE  /\ UNCHANGED <<diskVars, drafts, prompted, lock, pc, hostVars>> /\ DshTypeOK' /\ Records("turn/start")
  BY <1>1, <1>3, <1>5 DEF StartTurn, Events
<1>6. ASSUME TakePrompt
      PROVE  /\ UNCHANGED <<diskVars, drafts, prompted, lock, pc, hostVars>> /\ DshTypeOK' /\ Records("user/message")
  BY <1>1, <1>3, <1>6 DEF TakePrompt, Events
<1>7. ASSUME BillStep
      PROVE  /\ UNCHANGED <<diskVars, drafts, prompted, lock, pc, hostVars>> /\ DshTypeOK' /\ Records("assistant/message")
  BY <1>1, <1>3, <1>7 DEF BillStep, Events
<1>8. ASSUME EndTurn
      PROVE  /\ UNCHANGED <<diskVars, drafts, prompted, lock, pc, hostVars>> /\ DshTypeOK' /\ Records("turn/end")
  BY <1>1, <1>3, <1>8 DEF EndTurn, Events
<1>9. ASSUME StartBackground \/ EndBackground
      PROVE  /\ UNCHANGED <<diskVars, drafts, log, turn, inbox, prompted, lock, pc, hostVars>> /\ DshTypeOK'
  BY <1>1, <1>9 DEF StartBackground, EndBackground
<1>10. ASSUME SessionAccepts
       PROVE  /\ UNCHANGED <<session, finish, retained, verdict, drafts, log, turn, inbox, prompted, lock, pc, hostVars>>
              /\ DshTypeOK' /\ status' \in {status, "MISSING", "VALIDATING"}
              /\ request' = request \/ (request' = {Current} /\ Current # 0)
  <2>1. Kind \in {"rejected", "valid"} => Current # 0
    BY DEF Kind
  <2>2. QED
    BY <1>1, <1>10, <2>1 DEF SessionAccepts
<1>11. ASSUME NEW kind \in Kinds, Draft(kind)
       PROVE  /\ UNCHANGED <<diskVars, log, turn, inbox, prompted, lock, pc, hostVars>> /\ DshTypeOK'
              /\ Current' = Current + 1
  <2>1. drafts' = Append(drafts, kind)
    BY <1>11 DEF Draft
  <2>2. drafts' \in Seq(Kinds) /\ Len(drafts') = Len(drafts) + 1
    BY <1>1, <2>1
  <2>3. QED
    BY <1>1, <1>11, <2>2 DEF Draft, Current
<1>12. incidents' \in 0..MaxIncidents
  BY <1>1, <1>2 DEF Dsh
<1>13. \/ \E kind \in {"own", "other"} : StartTurn(kind)
       \/ TakePrompt \/ BillStep \/ EndTurn \/ StartBackground \/ EndBackground \/ SessionAccepts
       \/ \E kind \in Kinds : Draft(kind)
  BY DEF Dsh
<1>14. QED
  BY <1>1, <1>4, <1>5, <1>6, <1>7, <1>8, <1>9, <1>10, <1>11, <1>12, <1>13 DEF Events

------------------------------------------------------------------------------
(* IInv is inductive.                                                      *)

\* What IInv says, one by one.
LEMMA Facts ==
  ASSUME IInv
  PROVE  /\ HostInv /\ TypeOK /\ DiskTypeOK /\ DshTypeOK /\ HostTypeOK /\ LogSound
         /\ session \in SessionType /\ session.cursor \in Nat /\ session.cursor <= Len(log)
         /\ Accounts(session) /\ OneSession /\ 0 \notin prompted /\ GeneratedIsFinished
         /\ log \in Seq(Events) /\ Len(log) \in Nat /\ Current \in Nat
BY DEF IInv, TypeOK, HostInv, DiskTypeOK, DshTypeOK, SessionType, Accounts, Current

\* The session state written to disk accounts for the journal: a created one for
\* none of it, an observed one by FoldAccounts.
LEMMA NextSession ==
  ASSUME IInv, NEW h \in Hosts, UNCHANGED log, LoadOrCreate(h) \/ ReadList(h)
  PROVE  /\ session' \in SessionType /\ Accounts(session)'
         /\ prompted' = prompted /\ prompted \subseteq {session'.id}
         /\ (lock = h /\ status # "GENERATED") /\ UNCHANGED finish /\ status' = status
<1>1. HostInv /\ NamesAssumption /\ LogSound /\ Accounts(session) /\ log \in Seq(Events)
      /\ session \in SessionType /\ OneSession /\ 0 \notin prompted /\ Len(log) \in Nat
      /\ session.cursor \in Nat
  BY Facts, NamesAssumption
<1>2. ASSUME LoadOrCreate(h), session.id = 0 PROVE session' \in SessionType /\ Accounts(session') /\ prompted = {}
  <2>1. prompted = {}
    BY <1>1, <1>2 DEF OneSession
  <2>2. session' = [NoSession EXCEPT !.id = Cardinality(prompted) + 1]
    BY <1>2 DEF LoadOrCreate
  <2>3. session' \in SessionType
        /\ session' = [id |-> 1, cursor |-> 0, usage |-> {}, open |-> 0, request |-> 0,
                       terminal |-> FALSE, quiet |-> FALSE]
    BY <1>1, <1>2, <2>2, Created DEF OneSession
  <2>4. \A e : Positions(e, 0) = {}
    BY DEF Positions
  <2>5. TurnAt(0) = 0
    BY <2>4, TurnCount
  <2>6. Accounts(session')
    BY <1>1, <2>3, <2>4, <2>5 DEF Accounts, Billed, AnsweredBy
  <2>7. QED
    BY <2>1, <2>3, <2>6
<1>3. ASSUME LoadOrCreate(h), session.id # 0 PROVE session' = session
  BY <1>3 DEF LoadOrCreate
<1>4. ASSUME ReadList(h)
      PROVE  session' \in SessionType /\ Accounts(session') /\ session'.id = session.id
  <2>1. pc[h] \in Observing /\ mem[h] = session /\ seen[h].cursor \in session.cursor..Len(log)
        /\ seen[h] \in SeenType
    BY <1>1, <1>4 DEF ReadList, HostInv, SessionHeld, Observing, Dispatching, HostTypeOK
  <2>2. PICK quiet \in BOOLEAN :
          /\ session' = mem'[h]
          /\ mem' = [mem EXCEPT ![h] = FoldObservation(session, seen[h].cursor, quiet)]
    BY <1>1, <1>4, <2>1 DEF ReadList, SeenType, DshTypeOK
  <2>3. session' = FoldObservation(session, seen[h].cursor, quiet)
    BY <1>1, <2>2 DEF HostInv, HostTypeOK
  <2>4. QED
    BY <1>1, <2>1, <2>3, FoldAccounts
<1>5. session' \in SessionType /\ Accounts(session') /\ prompted \subseteq {session'.id}
  BY <1>1, <1>2, <1>3, <1>4 DEF OneSession
<1>6. Accounts(session)'
  BY <1>5, SameJournal DEF Accounts, Billed
<1>7. lock = h /\ status # "GENERATED"
  BY <1>1 DEF LoadOrCreate, ReadList, HostInv, LockHeld, DraftHeld, Locked, Dispatching, Observing
<1>8. QED
  BY <1>5, <1>6, <1>7 DEF LoadOrCreate, ReadList, dshVars

\* One more record leaves the account of those before the cursor.
LEMMA AppendedAccounts ==
  ASSUME IInv, log \in Seq(Events), NEW event \in Events, Records(event), UNCHANGED session
  PROVE  Accounts(session)'
<1>1. session.cursor \in 0..Len(log) /\ Accounts(session) /\ log \in Seq(Events)
  BY Facts
<1>2. session.cursor' = session.cursor /\ Len(log') = Len(log) + 1 /\ Len(log) \in Nat
  BY <1>1, Appended
<1>3. /\ \A e : Positions(e, session.cursor)' = Positions(e, session.cursor)
      /\ TurnAt(session.cursor)' = TurnAt(session.cursor)
      /\ AnsweredBy(session.cursor)' = AnsweredBy(session.cursor)
  BY <1>1, <1>2, Appended
<1>4. \A m \in Positions("user/message", session.cursor) : TurnAt(m)' = TurnAt(m)
  <2>1. \A m \in Positions("user/message", session.cursor) : m \in 0..Len(log)
    BY <1>1 DEF Positions
  <2>2. QED
    BY <1>1, <2>1, Appended
<1>5. session.cursor <= Len(log')
  BY <1>1, <1>2
<1>6. QED
  BY <1>1, <1>3, <1>4, <1>5 DEF Accounts, Billed

\* An answered request stays answered.
LEMMA StillAnswered ==
  ASSUME IInv, NEW event \in Events, Records(event), AnsweredBy(Len(log))
  PROVE  AnsweredBy(Len(log))'
<1>1. log \in Seq(Events)
  BY Facts
<1>2. Positions("user/message", Len(log)) \subseteq Positions("user/message", Len(log))'
      /\ Positions("turn/end", Len(log)) \subseteq Positions("turn/end", Len(log))'
  BY <1>1, Appended
<1>3. QED
  BY <1>2 DEF AnsweredBy

\* A step of DSH keeps the invariant.
LEMMA DshKeeps ==
  ASSUME IInv, Dsh
  PROVE  IInv'
<1>1. /\ HostInv /\ TypeOK /\ DiskTypeOK /\ HostTypeOK /\ LogSound /\ log \in Seq(Events)
      /\ Len(log) \in Nat /\ Current \in Nat /\ session.cursor \in Nat /\ OneSession /\ 0 \notin prompted
      /\ Accounts(session) /\ GeneratedIsFinished
  BY Facts
<1>2. /\ UNCHANGED <<session, finish, retained, verdict, prompted, lock, pc, hostVars>>
      /\ incidents' \in 0..MaxIncidents
      /\ request' = request \/ (request' = {Current} /\ Current # 0)
      /\ status' \in {status, "MISSING", "VALIDATING"}
      /\ \/ UNCHANGED <<log, turn, inbox>>
         \/ \E kind \in {"own", "other"} : StartTurn(kind)
         \/ TakePrompt \/ BillStep \/ EndTurn
      /\ log' = log \/ \E event \in Events : Records(event)
      /\ DshTypeOK' /\ Current' \in Nat /\ Current' >= Current
  BY <1>1, DshFootprint
<1>3. Len(log') \in Nat /\ Len(log') >= Len(log)
  BY <1>1, <1>2, Appended
<1>4. HostInv'
  <2>1. DshFrame
    BY <1>2, <1>3 DEF DshFrame
  <2>2. QED
    BY <1>1, <2>1, DshKeepsHosts
<1>5. DiskTypeOK'
  <2>1. status' \in Statuses
    BY <1>1, <1>2 DEF DiskTypeOK, Statuses
  <2>2. 1..Current \subseteq 1..Current' /\ 0..Current \subseteq 0..Current'
    BY <1>1, <1>2
  <2>3. request' \subseteq 1..Current'
    <3>1. CASE request' = request
      BY <1>1, <2>2, <3>1 DEF DiskTypeOK
    <3>2. CASE request' = {Current} /\ Current # 0
      <4>1. Current \in 1..Current
        BY <1>1, <3>2
      <4>2. QED
        BY <2>2, <3>2, <4>1
    <3>3. QED
      BY <1>2, <3>1, <3>2
  <2>4. QED
    BY <1>1, <1>2, <2>1, <2>2, <2>3 DEF DiskTypeOK
<1>6. LogSound'
  BY <1>1, <1>2, JournalStep
<1>7. Accounts(session)'
  <2>1. CASE log' = log
    BY <1>1, <1>2, <2>1, SameJournal DEF Accounts, Billed
  <2>2. ASSUME NEW event \in Events, Records(event) PROVE Accounts(session)'
    BY <1>1, <1>2, <2>2, AppendedAccounts
  <2>3. QED
    BY <1>2, <2>1, <2>2
<1>8. GeneratedIsFinished'
  <2>1. SUFFICES ASSUME status' = "GENERATED" PROVE finish' # {} /\ AnsweredBy(Len(log))'
    BY DEF GeneratedIsFinished
  <2>2. finish # {} /\ AnsweredBy(Len(log))
    BY <1>1, <1>2, <2>1 DEF GeneratedIsFinished
  <2>3. CASE log' = log
    BY <1>2, <2>2, <2>3, SameJournal
  <2>4. ASSUME NEW event \in Events, Records(event) PROVE AnsweredBy(Len(log))'
    BY <2>2, <2>4, StillAnswered
  <2>5. QED
    BY <1>2, <2>2, <2>3, <2>4
<1>9. OneSession' /\ 0 \notin prompted'
  BY <1>1, <1>2 DEF OneSession
<1>10. QED
  BY <1>2, <1>4, <1>5, <1>6, <1>7, <1>8, <1>9 DEF IInv, HostInv, TypeOK

\* The account of a terminal session is of an answered request.
LEMMA TerminalAnswered ==
  ASSUME IInv, session.terminal
  PROVE  AnsweredBy(Len(log))
<1>1. AnsweredBy(session.cursor) /\ session.cursor <= Len(log) /\ session.cursor \in Nat /\ Len(log) \in Nat
  BY Facts DEF Accounts
<1>2. QED
  BY <1>1 DEF AnsweredBy, Positions

\* A step of a process keeps the invariant.
LEMMA HostKeeps ==
  ASSUME IInv, NEW h \in Hosts, HostStep(h)
  PROVE  IInv'
<1>1. /\ HostInv /\ TypeOK /\ DiskTypeOK /\ DshTypeOK /\ HostTypeOK /\ LogSound /\ log \in Seq(Events)
      /\ Len(log) \in Nat /\ Current \in Nat /\ OneSession /\ 0 \notin prompted
      /\ session \in SessionType /\ Accounts(session) /\ GeneratedIsFinished
  BY Facts
<1>2. /\ UNCHANGED <<drafts, log, turn, child, job, accepting>>
      /\ UNCHANGED <<prompted, inbox>> \/ SendPrompt(h)
      /\ UNCHANGED session \/ LoadOrCreate(h) \/ ReadList(h)
      /\ UNCHANGED finish \/ WriteFinish(h)
      /\ UNCHANGED request \/ EnsureRequest(h)
      /\ UNCHANGED verdict \/ WriteVerdict(h) \/ verdict' = {}
      /\ UNCHANGED retained \/ RetainEarly(h) \/ retained' = {}
      /\ status' \in Statuses \union {status}
      /\ status' = "GENERATED" => status = "GENERATED" \/ WriteGenerated(h)
  BY HostFootprint
<1>3. HostInv'
  BY <1>1, HostActions DEF HostStep
<1>4. Current' = Current
  BY <1>2 DEF Current
<1>5. LogSound'
  BY <1>1, <1>2, JournalStep
<1>6. session' \in SessionType /\ Accounts(session)'
  BY <1>1, <1>2, NextSession, SameJournal DEF Accounts, Billed
<1>7. OneSession' /\ 0 \notin prompted' /\ DshTypeOK'
  <2>1. CASE SendPrompt(h)
    <3>1. mem[h] = session /\ session.id # 0 /\ session' = session
      BY <1>1, <2>1 DEF SendPrompt, Refused, HostInv, SessionHeld, Dispatching, diskVars
    <3>2. prompted' \in {prompted, prompted \union {session.id}} /\ inbox' \in {inbox, "queued"}
      BY <2>1, <3>1 DEF SendPrompt
    <3>3. session.id \in Nat
      BY <1>1 DEF SessionType
    <3>4. QED
      BY <1>1, <1>2, <3>1, <3>2, <3>3 DEF OneSession, DshTypeOK
  <2>2. CASE UNCHANGED <<prompted, inbox>>
    BY <1>1, <1>2, <2>2, NextSession DEF OneSession, DshTypeOK
  <2>3. QED
    BY <1>2, <2>1, <2>2
<1>8. DiskTypeOK'
  <2>1. finish' \subseteq 1..Current
    <3>1. CASE WriteFinish(h)
      <4>1. held[h] \in 1..Current /\ finish' \in {finish, {held[h]}}
        BY <1>1, <3>1 DEF WriteFinish, HostInv, DraftHeld
      <4>2. QED
        BY <1>1, <4>1 DEF DiskTypeOK
    <3>2. QED
      BY <1>1, <1>2, <3>1 DEF DiskTypeOK
  <2>2. request' \subseteq 1..Current
    <3>1. CASE EnsureRequest(h)
      <4>1. request' = request \/ (request' = {Current} /\ Current # 0)
        BY <3>1 DEF EnsureRequest, Kind
      <4>2. CASE request' = {Current} /\ Current # 0
        <5>1. Current \in 1..Current
          BY <1>1, <4>2
        <5>2. QED
          BY <4>2, <5>1
      <4>3. QED
        BY <1>1, <4>1, <4>2 DEF DiskTypeOK
    <3>2. QED
      BY <1>1, <1>2, <3>1 DEF DiskTypeOK
  <2>3. verdict' \subseteq 1..Current
    <3>1. CASE WriteVerdict(h)
      <4>1. Current > 0 /\ verdict' = {Current}
        BY <1>1, <3>1 DEF WriteVerdict, HostInv, DraftHeld
      <4>2. QED
        BY <1>1, <4>1
    <3>2. QED
      BY <1>1, <1>2, <3>1 DEF DiskTypeOK
  <2>4. retained' \subseteq 0..Current
    <3>1. CASE RetainEarly(h)
      <4>1. retained' = {Current}
        BY <3>1 DEF RetainEarly
      <4>2. QED
        BY <1>1, <4>1
    <3>2. QED
      BY <1>1, <1>2, <3>1 DEF DiskTypeOK
  <2>5. status' \in Statuses
    BY <1>1, <1>2 DEF DiskTypeOK
  <2>6. QED
    BY <1>4, <1>6, <2>1, <2>2, <2>3, <2>4, <2>5 DEF DiskTypeOK
<1>9. GeneratedIsFinished'
  <2>1. SUFFICES ASSUME status' = "GENERATED" PROVE finish' # {} /\ AnsweredBy(Len(log))
    BY <1>2, SameJournal DEF GeneratedIsFinished
  <2>2. CASE status = "GENERATED"
    BY <1>1, <1>2, <2>2 DEF GeneratedIsFinished, WriteFinish
  <2>3. CASE WriteGenerated(h)
    <3>1. finish # {} /\ session.terminal /\ finish' = finish
      BY <1>1, <2>3 DEF WriteGenerated, HostInv, DraftHeld, Finishing, Quiescent
    <3>2. QED
      BY <3>1, TerminalAnswered
  <2>4. QED
    BY <1>2, <2>1, <2>2, <2>3
<1>10. QED
  BY <1>3, <1>5, <1>6, <1>7, <1>8, <1>9 DEF IInv, HostInv, TypeOK

\* A run begins in IInv.
LEMMA Start ==
  Init => IInv
<1> SUFFICES ASSUME Init PROVE IInv
  OBVIOUS
<1>1. NoSession \in SessionType /\ NothingSeen \in SeenType
  BY DEF NoSession, SessionType, NothingSeen, SeenType
<1>2. Current = 0 /\ Len(log) = 0 /\ \A e, n : Positions(e, n) = {}
  BY DEF Init, Current, Positions
<1>3. TurnAt(0) = 0
  BY <1>2, TurnCount
<1>4. DiskTypeOK
  BY <1>1, <1>2 DEF Init, DiskTypeOK, Statuses
<1>5. DshTypeOK
  <2>1. drafts \in Seq(Kinds) /\ log \in Seq(Events)
    BY DEF Init
  <2>2. QED
    BY <2>1 DEF Init, DshTypeOK
<1>6. HostTypeOK
  BY <1>1, BoundsAssumption DEF Init, HostTypeOK, Labels
<1>7. LockHeld
  BY NamesAssumption DEF Init, LockHeld, Locked
<1>8. SessionHeld
  BY DEF Init, SessionHeld, NothingSeen, Dispatching
<1>9. DraftHeld
  BY DEF Init, DraftHeld, Finishing, Dispatching
<1>10. LogSound
  BY <1>2 DEF Init, LogSound
<1>11. Accounts(session)
  BY <1>2, <1>3 DEF Init, Accounts, NoSession, Billed, AnsweredBy
<1>12. OneSession /\ 0 \notin prompted /\ GeneratedIsFinished
  BY DEF Init, OneSession, GeneratedIsFinished
<1>13. QED
  BY <1>4, <1>5, <1>6, <1>7, <1>8, <1>9, <1>10, <1>11, <1>12 DEF IInv, TypeOK

\* Every step keeps IInv.
LEMMA Inductive ==
  IInv /\ [Next]_vars => IInv'
<1> SUFFICES ASSUME IInv, [Next]_vars PROVE IInv'
  OBVIOUS
<1>1. CASE UNCHANGED vars
  <2>1. UNCHANGED <<diskVars, dshVars, lock, pc, hostVars, incidents>>
    BY <1>1 DEF vars
  <2>2. UNCHANGED <<status, session, finish, request, retained, verdict>>
        /\ UNCHANGED <<drafts, log, turn, inbox, prompted, child, job, accepting>>
        /\ UNCHANGED <<lock, pc, chain, mem, seen, held, incidents>>
    BY <2>1 DEF diskVars, dshVars, hostVars
  <2> USE <2>2
  <2>3. TypeOK'
    BY DEF IInv, TypeOK, DiskTypeOK, DshTypeOK, HostTypeOK, Current
  <2>4. LockHeld' /\ SessionHeld' /\ DraftHeld'
    BY DEF IInv, LockHeld, SessionHeld, DraftHeld, Current, Quiescent, OverBudget
  <2>5. LogSound' /\ Accounts(session)' /\ GeneratedIsFinished'
    BY SameJournal, Facts, JournalStep DEF IInv, Accounts, Billed, GeneratedIsFinished
  <2>6. OneSession' /\ 0 \notin prompted'
    BY DEF IInv, OneSession
  <2>7. QED
    BY <2>3, <2>4, <2>5, <2>6 DEF IInv
<1>2. CASE Dsh
  BY <1>2, DshKeeps
<1>3. ASSUME NEW h \in Hosts, HostStep(h) PROVE IInv'
  BY <1>3, HostKeeps
<1>4. QED
  BY <1>1, <1>2, <1>3 DEF Next, HostStep

------------------------------------------------------------------------------
(* Theorems.                                                               *)

\* IInv holds of every behaviour.
THEOREM Invariance == Spec => []IInv
<1>1. QED
  BY Start, Inductive, PTL DEF Spec

\* Files, session and processes are always in states their code leaves them in.
THEOREM TypeCorrect == Spec => []TypeOK
<1>1. IInv => TypeOK
  BY DEF IInv
<1>2. QED
  BY <1>1, Invariance, PTL

\* Prompts only ever reach the one session named in creator-session.json.
THEOREM OneSessionHolds == Spec => []OneSession
<1>1. IInv => OneSession
  BY DEF IInv
<1>2. QED
  BY <1>1, Invariance, PTL

\* The account on disk bills every step up to its cursor once, and is terminal
\* exactly when the turn of its own request has ended: through crashes, resumes
\* and turns of others.
THEOREM RecordIsTruthful == Spec => []RecordTruthful
<1>1. IInv => RecordTruthful
  BY DEF IInv, Accounts, RecordTruthful
<1>2. QED
  BY <1>1, Invariance, PTL

\* run.json says GENERATED only of an answered, quiescent run within its budget,
\* with its finish.json on disk.
THEOREM GeneratedEarnedHolds == Spec => GeneratedEarned
<1>1. IInv /\ [Next]_vars =>
        [status' = "GENERATED" /\ status # "GENERATED" =>
           /\ AnsweredBy(Len(log)) /\ Quiescent(session)
           /\ ~OverBudget(session) /\ finish # {}]_vars
  <2> SUFFICES ASSUME IInv, Next, status' = "GENERATED", status # "GENERATED"
               PROVE  /\ AnsweredBy(Len(log)) /\ Quiescent(session)
                      /\ ~OverBudget(session) /\ finish # {}
    OBVIOUS
  <2>1. TypeOK /\ HostInv
    BY Facts
  <2>2. ~Dsh
    BY <2>1, DshFootprint
  <2>3. PICK h \in Hosts : HostStep(h)
    BY <2>2 DEF Next, HostStep
  <2>4. WriteGenerated(h)
    BY <2>3, HostFootprint
  <2>5. finish # {} /\ Quiescent(session) /\ ~OverBudget(session)
    BY <2>1, <2>4 DEF WriteGenerated, HostInv, DraftHeld, Finishing
  <2>6. QED
    BY <2>5, TerminalAnswered DEF Quiescent
<1>2. QED
  BY <1>1, Invariance, PTL DEF Spec, GeneratedEarned

\* A GENERATED run is not dispatched again, whoever runs which command.
THEOREM GeneratedStaysHolds == Spec => GeneratedStays
<1>1. IInv /\ [Next]_vars =>
        [status = "GENERATED" => status' # "GENERATING" /\ prompted' = prompted /\ inbox' = inbox]_vars
  <2> SUFFICES ASSUME IInv, Next, status = "GENERATED"
               PROVE  status' # "GENERATING" /\ prompted' = prompted /\ inbox' = inbox
    OBVIOUS
  <2>1. TypeOK /\ HostInv /\ LogSound /\ AnsweredBy(Len(log)) /\ log \in Seq(Events)
    BY Facts DEF GeneratedIsFinished
  <2>2. PICK m \in Positions("user/message", Len(log)) : TRUE
    BY <2>1 DEF AnsweredBy
  <2>3. inbox = "taken"
    BY <2>1, <2>2 DEF LogSound
  <2>4. CASE Dsh
    <3>1. status' # "GENERATING" /\ prompted' = prompted
      BY <2>1, <2>4, DshFootprint
    <3>2. inbox' = inbox
      BY <2>1, <2>3, <2>4, DshFootprint DEF StartTurn, TakePrompt, BillStep, EndTurn
    <3>3. QED
      BY <3>1, <3>2
  <2>5. ASSUME NEW h \in Hosts, HostStep(h)
        PROVE  status' # "GENERATING" /\ prompted' = prompted /\ inbox' = inbox
    <3>1. pc[h] # "prepare" /\ pc[h] # "prompt"
      BY <2>1 DEF HostInv, DraftHeld, Dispatching
    <3>2. prompted' = prompted /\ inbox' = inbox
      BY <2>5, <3>1, HostFootprint DEF SendPrompt, Refused
    <3>3. status' # "GENERATING"
      BY <2>1, <2>5, <3>1, HostFootprint DEF Prepare
    <3>4. QED
      BY <3>2, <3>3
  <2>6. QED
    BY <2>4, <2>5 DEF Next, HostStep
<1>2. QED
  BY <1>1, Invariance, PTL DEF Spec, GeneratedStays
==============================================================================
