----------------------- MODULE PredictionLedgerProofs -----------------------
(***************************************************************************)
(* The ledger of predictions, for any matches, fixtures, ratings, instants *)
(* and callers: one prediction for a match, made before it, matured once   *)
(* and unchanged.                                                          *)
(***************************************************************************)
EXTENDS PredictionLedger, NaturalSets

\* A caller that is doing nothing holds well-typed locals.
LEMMA IdleFields ==
    /\ Idle \in Locals /\ Idle.pc = "idle"
<1>1. 0 \in Times /\ <<>> \in Seq(Match)
  BY HorizonAssumption DEF Times
<1> QED
  BY <1>1 DEF Idle, Locals

\* An empty ledger and idle callers: the state before the first call.
LEMMA InitIInv == Init => IInv
<1> SUFFICES ASSUME Init PROVE IInv
  OBVIOUS
<1>1. ledger = <<>> /\ DOMAIN ledger = {} /\ ledger \in Seq(Row)
  BY DEF Init
<1>2. \A c \in Callers : call[c] = Idle
  BY DEF Init
<1>3. TypeOK
  BY <1>1, IdleFields, HorizonAssumption DEF Init, TypeOK, Times
<1>4. OneHolder /\ RegistrationLocals /\ MaturationLocals
  BY <1>2, IdleFields DEF OneHolder, RegistrationLocals, MaturationLocals
<1>5. /\ OnePredictionPerMatch /\ PredictedBeforeTheMatch
      /\ MaturedKeepsPrediction /\ MaturedOnce
  BY <1>1 DEF OnePredictionPerMatch, PredictedBeforeTheMatch,
              MaturedKeepsPrediction, MaturedOnce, Rows
<1> QED
  BY <1>3, <1>4, <1>5 DEF IInv

\* The first and the last of some positions of a fixture are among them.
LEMMA FirstAndLast ==
    ASSUME NEW fixture \in Seq(Match), NEW T \in SUBSET DOMAIN fixture, T # {}
    PROVE  First(T) \in T /\ Last(T) \in T
<1>1. T \in SUBSET Nat /\ Len(fixture) \in Nat /\ \A i \in T : i <= Len(fixture)
  OBVIOUS
<1>2. First(T) \in T
  <2>1. \E i \in T : \A j \in T : i <= j
    BY <1>1, LeastExists, Zenon
  <2> QED
    BY <2>1, Zenon DEF First
<1>3. Last(T) \in T
  <2>1. \E i \in T : \A j \in T : i >= j
    BY <1>1, GreatestExists, Zenon
  <2> QED
    BY <2>1, Zenon DEF Last
<1> QED
  BY <1>2, <1>3

\* What an appended row adds to the ledger.
LEMMA AppendedRow ==
    ASSUME ledger \in Seq(Row), NEW row \in Row, ledger' = Append(ledger, row),
           NEW n, n = Len(ledger) + 1
    PROVE  /\ ledger' \in Seq(Row) /\ n \notin DOMAIN ledger
           /\ DOMAIN ledger' = DOMAIN ledger \union {n}
           /\ ledger'[n] = row /\ \A i \in DOMAIN ledger : ledger'[i] = ledger[i] /\ i < n
           /\ \A s : Rows(s)' = IF row.status = s THEN Rows(s) \union {n} ELSE Rows(s)
<1>1. /\ ledger' \in Seq(Row) /\ n \notin DOMAIN ledger
      /\ DOMAIN ledger' = DOMAIN ledger \union {n}
      /\ ledger'[n] = row /\ \A i \in DOMAIN ledger : ledger'[i] = ledger[i] /\ i < n
  OBVIOUS
<1>2. ASSUME NEW s
      PROVE  Rows(s)' = IF row.status = s THEN Rows(s) \union {n} ELSE Rows(s)
  BY <1>1 DEF Rows
<1> QED
  BY <1>1, <1>2

-----------------------------------------------------------------------------
\* The steps that leave the ledger alone: it is enough to look at what the
\* caller holds now.
LEMMA OwnLocals ==
    ASSUME IInv, NEW c \in Callers, NEW l \in Locals,
           call' = [call EXCEPT ![c] = l], UNCHANGED <<clock, ledger>>,
           \/ l.pc \notin {"append", "results"} /\ lock' \in {lock, None}
              /\ (lock' = None => lock \in {None, c})
           \/ lock \in {None, c} /\ lock' = c,
           l.pc \in {"register", "append"} => l.fixture \in Fixtures /\ l.ratings \in Ratings,
           l.pc = "append" =>
                /\ l.todo # {} /\ l.todo \subseteq DOMAIN l.fixture
                /\ \A i \in l.todo :
                    /\ l.at < l.fixture[i].start
                    /\ \A j \in Rows("PRE_EVENT") : ledger[j].match # l.fixture[i],
           l.pc = "results" => l.matured = {Id(ledger[i]) : i \in Rows("MATURED")}
    PROVE  IInv'
<1>1. \A d \in Callers : call'[d] = IF d = c THEN l ELSE call[d]
  BY DEF IInv, TypeOK
<1>2. TypeOK'
  BY DEF IInv, TypeOK
<1>3. OneHolder'
  BY <1>1, LedgerNoneAssumption DEF IInv, OneHolder
<1>4. \A s : Rows(s)' = Rows(s)
  BY DEF Rows
<1>5. RegistrationLocals'
  BY <1>1, <1>4 DEF IInv, RegistrationLocals, Start
<1>6. MaturationLocals'
  <2>1. {Id(ledger[i]) : i \in Rows("MATURED")}' = {Id(ledger[i]) : i \in Rows("MATURED")}
    BY <1>4
  <2> QED
    BY <1>1, <2>1 DEF IInv, MaturationLocals
<1>7. /\ OnePredictionPerMatch' /\ PredictedBeforeTheMatch'
      /\ MaturedKeepsPrediction' /\ MaturedOnce'
  BY <1>4 DEF IInv, OnePredictionPerMatch, PredictedBeforeTheMatch,
              MaturedKeepsPrediction, MaturedOnce, Matures
<1> QED
  BY <1>2, <1>3, <1>5, <1>6, <1>7 DEF IInv

\* A call that returns, raises or dies.
LEMMA CallEnds ==
    ASSUME IInv, NEW c \in Callers, call' = [call EXCEPT ![c] = Idle],
           UNCHANGED <<clock, ledger>>, lock' \in {lock, None},
           lock' = None => lock \in {None, c}
    PROVE  IInv'
  BY IdleFields, OwnLocals

\* A call that begins has read nothing of the ledger yet.
LEMMA CallBegins ==
    ASSUME IInv, NEW c \in Callers, RegisterCall(c) \/ MatureCall(c)
    PROVE  IInv'
<1>1. CASE RegisterCall(c)
  <2>1. PICK fixture \in Fixtures, r \in Ratings :
            call' = [call EXCEPT ![c] = [Idle EXCEPT !.pc = "register", !.fixture = fixture,
                                                     !.ratings = r]]
    BY <1>1 DEF RegisterCall
  <2> DEFINE l == [Idle EXCEPT !.pc = "register", !.fixture = fixture, !.ratings = r]
  <2>2. l \in Locals /\ l.pc = "register" /\ l.fixture = fixture /\ l.ratings = r
    <3>1. Idle \in Locals /\ fixture \in Seq(Match)
      BY IdleFields, FixturesAssumption
    <3> QED
      BY <3>1 DEF Locals
  <2> HIDE DEF l
  <2>3. call' = [call EXCEPT ![c] = l] /\ UNCHANGED <<clock, ledger, lock>>
    BY <1>1, <2>1 DEF RegisterCall, l
  <2>4. lock' = None => lock \in {None, c}
    BY <2>3
  <2> QED
    BY <2>2, <2>3, <2>4, OwnLocals
<1>2. CASE MatureCall(c)
  <2> DEFINE l == [Idle EXCEPT !.pc = "mature"]
  <2>1. l \in Locals /\ l.pc = "mature"
    BY IdleFields DEF Locals
  <2>2. call' = [call EXCEPT ![c] = l] /\ UNCHANGED <<clock, ledger, lock>>
    BY <1>2 DEF MatureCall
  <2> HIDE DEF l
  <2>3. lock' = None => lock \in {None, c}
    BY <2>2
  <2> QED
    BY <2>1, <2>2, <2>3, OwnLocals
<1> QED
  BY <1>1, <1>2

\* The first loop of register_pre_event leaves what is new and has not begun.
LEMMA RegistrationReads ==
    ASSUME IInv, NEW c \in Callers, RegisterReads(c)
    PROVE  IInv'
<1> DEFINE last == Start(c, Last(New(c)))
           l == [call[c] EXCEPT !.pc = "append", !.at = clock, !.todo = New(c), !.last = last]
<1>1. /\ call[c] \in Locals /\ call[c].pc = "register" /\ clock \in Times
      /\ call[c].fixture \in Fixtures /\ call[c].ratings \in Ratings
  BY DEF RegisterReads, IInv, TypeOK, RegistrationLocals
<1>2. call[c].fixture \in Seq(Match)
  BY <1>1, FixturesAssumption
<1>3. New(c) # {} /\ New(c) \in SUBSET DOMAIN call[c].fixture
  BY DEF RegisterReads, New
<1>4. last \in Starts
  <2>1. Last(New(c)) \in DOMAIN call[c].fixture
    BY <1>2, <1>3, FirstAndLast
  <2>2. call[c].fixture[Last(New(c))] \in Match
    BY <1>2, <2>1
  <2> QED
    BY <2>2 DEF Start, Match
<1>5. New(c) \in SUBSET (Nat \ {0})
  BY <1>2, <1>3
<1> HIDE DEF last
<1>6. /\ l \in Locals /\ l.pc = "append" /\ l.at = clock /\ l.todo = New(c)
      /\ l.fixture = call[c].fixture /\ l.ratings = call[c].ratings
  BY <1>1, <1>4, <1>5 DEF Locals
<1>7. call' = [call EXCEPT ![c] = l] /\ lock = None /\ lock' = c /\ UNCHANGED <<clock, ledger>>
  BY DEF RegisterReads, last
<1>8. ASSUME NEW i \in New(c)
      PROVE  /\ clock < call[c].fixture[i].start
             /\ \A j \in Rows("PRE_EVENT") : ledger[j].match # call[c].fixture[i]
  BY <1>8 DEF RegisterReads, New, Known, Start
<1> HIDE DEF l
<1> QED
  BY <1>1, <1>3, <1>6, <1>7, <1>8, OwnLocals

\* A prediction is appended: nobody else is between reading and appending.
LEMMA PredictionAppended ==
    ASSUME IInv, NEW c \in Callers, RegisterAppends(c)
    PROVE  IInv'
<1> DEFINE first == First(call[c].todo)
           match == call[c].fixture[first]
           row == [status |-> "PRE_EVENT", match |-> match, ratings |-> call[c].ratings,
                   at |-> call[c].at, maturedAt |-> None]
           n == Len(ledger) + 1
<1>1. /\ call[c] \in Locals /\ call[c].pc = "append" /\ lock = c /\ ledger \in Seq(Row)
      /\ call[c].fixture \in Fixtures /\ call[c].ratings \in Ratings /\ call[c].at \in Times
      /\ call[c].todo # {} /\ call[c].todo \in SUBSET DOMAIN call[c].fixture
  BY DEF RegisterAppends, IInv, TypeOK, OneHolder, RegistrationLocals, Locals
<1>2. call[c].fixture \in Seq(Match)
  BY <1>1, FixturesAssumption
<1>3. first \in call[c].todo /\ first \in DOMAIN call[c].fixture
  BY <1>1, <1>2, FirstAndLast
<1>4. match \in Match
  BY <1>2, <1>3
<1>5. /\ call[c].at < match.start
      /\ \A j \in Rows("PRE_EVENT") : ledger[j].match # match
  BY <1>1, <1>3 DEF IInv, RegistrationLocals, Start
<1>6. row \in Row
  BY <1>1, <1>4 DEF Row
<1>7. /\ row.status = "PRE_EVENT" /\ row.match = match /\ row.at = call[c].at
      /\ row.status # "MATURED"
  OBVIOUS
<1>8. ledger' = Append(ledger, row) /\ clock' = clock
  BY DEF RegisterAppends, Pending
<1> HIDE DEF row
<1>9. /\ ledger' \in Seq(Row) /\ n \notin DOMAIN ledger
      /\ DOMAIN ledger' = DOMAIN ledger \union {n}
      /\ ledger'[n] = row /\ \A i \in DOMAIN ledger : ledger'[i] = ledger[i] /\ i < n
      /\ \A s : Rows(s)' = IF row.status = s THEN Rows(s) \union {n} ELSE Rows(s)
  BY <1>1, <1>6, <1>8, AppendedRow
<1>10. /\ Rows("PRE_EVENT")' = Rows("PRE_EVENT") \union {n}
       /\ Rows("MATURED")' = Rows("MATURED")
  BY <1>7, <1>9
<1>11. /\ \A s : Rows(s) \subseteq DOMAIN ledger
       /\ \A i \in Rows("PRE_EVENT") \union Rows("MATURED") : ledger'[i] = ledger[i]
  BY <1>9 DEF Rows
<1>12. /\ call' \in [Callers -> Locals] /\ lock' \in {None, c}
       /\ \A d \in Callers : d # c => call'[d] = call[d]
       /\ \/ call'[c] = Idle /\ lock' = None
          \/ /\ call'[c] = [call[c] EXCEPT !.todo = @ \ {first}]
             /\ call[c].todo # {first} /\ lock' = c
  <2>1. CASE call[c].todo = {first}
    BY <1>1, <2>1, IdleFields DEF RegisterAppends, Proceed, Release, IInv, TypeOK
  <2>2. CASE call[c].todo # {first}
    <3>1. [call[c] EXCEPT !.todo = @ \ {first}] \in Locals
      BY <1>1 DEF Locals
    <3>2. call' = [call EXCEPT ![c].todo = @ \ {first}] /\ lock' = lock
      BY <2>2 DEF RegisterAppends, Proceed
    <3> QED
      BY <1>1, <2>2, <3>1, <3>2 DEF IInv, TypeOK
  <2> QED
    BY <2>1, <2>2
<1>13. TypeOK'
  BY <1>1, <1>8, <1>9, <1>12 DEF IInv, TypeOK
<1>14. \A d \in Callers : d # c => call[d].pc \notin {"append", "results"}
  BY <1>1 DEF IInv, OneHolder
<1>15. OneHolder'
  BY <1>1, <1>12, <1>14, IdleFields DEF OneHolder
<1>16. RegistrationLocals'
  <2> DEFINE l == [call[c] EXCEPT !.todo = @ \ {first}]
  <2>1. /\ l.pc = "append" /\ l.fixture = call[c].fixture /\ l.ratings = call[c].ratings
        /\ l.at = call[c].at /\ l.todo = call[c].todo \ {first}
    BY <1>1 DEF Locals
  <2>2. ASSUME NEW i \in l.todo, NEW j \in Rows("PRE_EVENT")'
        PROVE  ledger'[j].match # call[c].fixture[i]
    <3>1. i \in call[c].todo /\ i \in DOMAIN call[c].fixture /\ i # first
      BY <1>1, <2>1
    <3>2. CASE j = n
      <4>1. call[c].fixture[i] # match
        BY <1>1, <1>3, <3>1, FixturesAssumption
      <4> QED
        BY <1>7, <1>9, <3>2, <4>1
    <3>3. CASE j # n
      BY <1>1, <1>10, <1>11, <3>1, <3>3 DEF IInv, RegistrationLocals
    <3> QED
      BY <3>2, <3>3
  <2>3. \A i \in l.todo : l.at < l.fixture[i].start
    BY <1>1, <2>1 DEF IInv, RegistrationLocals, Start
  <2>4. \A d \in Callers : d # c =>
            (call[d].pc \in {"register", "append"} =>
                call[d].fixture \in Fixtures /\ call[d].ratings \in Ratings)
    BY DEF IInv, RegistrationLocals
  <2> HIDE DEF l
  <2>5. call[c].todo # {first} => l.todo # {}
    BY <1>3, <2>1
  <2>6. ASSUME NEW d \in Callers
        PROVE  /\ call'[d].pc \in {"register", "append"} =>
                    call'[d].fixture \in Fixtures /\ call'[d].ratings \in Ratings
               /\ call'[d].pc = "append" =>
                    /\ call'[d].todo # {} /\ call'[d].todo \subseteq DOMAIN call'[d].fixture
                    /\ \A i \in call'[d].todo :
                        /\ call'[d].at < call'[d].fixture[i].start
                        /\ \A j \in Rows("PRE_EVENT")' : ledger'[j].match # call'[d].fixture[i]
    <3>1. CASE d # c
      BY <1>12, <1>14, <2>4, <3>1
    <3>2. CASE d = c /\ call'[c] = Idle
      BY <3>2, IdleFields
    <3>3. CASE d = c /\ call'[c] = l /\ call[c].todo # {first}
      BY <1>1, <2>1, <2>2, <2>3, <2>5, <3>3
    <3> QED
      BY <1>12, <3>1, <3>2, <3>3 DEF l
  <2> QED
    BY <2>6 DEF RegistrationLocals, Start
<1>17. MaturationLocals'
  <2>1. call'[c].pc # "results"
    BY <1>1, <1>12, IdleFields DEF Locals
  <2> QED
    BY <1>12, <1>14, <2>1 DEF MaturationLocals
<1>18. OnePredictionPerMatch'
  BY <1>5, <1>7, <1>9, <1>10, <1>11 DEF IInv, OnePredictionPerMatch
<1>19. PredictedBeforeTheMatch'
  BY <1>5, <1>7, <1>9, <1>10, <1>11 DEF IInv, PredictedBeforeTheMatch
<1>20. MaturedKeepsPrediction'
  <2>1. \A m : Matures(m)' = Matures(m)
    BY DEF Matures
  <2> QED
    BY <1>10, <1>11, <2>1 DEF IInv, MaturedKeepsPrediction
<1>21. MaturedOnce'
  BY <1>10, <1>11 DEF IInv, MaturedOnce
<1> QED
  BY <1>13, <1>15, <1>16, <1>17, <1>18, <1>19, <1>20, <1>21 DEF IInv

\* The first step of mature_results: what is matured so far is read.
LEMMA MaturationReads ==
    ASSUME IInv, NEW c \in Callers, MatureReads(c)
    PROVE  IInv'
<1> DEFINE done == {Id(ledger[i]) : i \in Rows("MATURED")}
           l == [call[c] EXCEPT !.pc = "results", !.at = clock, !.matured = done]
<1>1. call[c] \in Locals /\ clock \in Times /\ ledger \in Seq(Row)
  BY DEF IInv, TypeOK
<1>2. done \in SUBSET Ids
  <2> SUFFICES ASSUME NEW i \in Rows("MATURED") PROVE Id(ledger[i]) \in Ids
    OBVIOUS
  <2>1. ledger[i] \in Row
    BY <1>1 DEF Rows
  <2> QED
    BY <2>1 DEF Id, Ids, Row
<1>3. call' = [call EXCEPT ![c] = l] /\ lock = None /\ lock' = c /\ UNCHANGED <<clock, ledger>>
  BY DEF MatureReads
<1> HIDE DEF done
<1>4. l \in Locals /\ l.pc = "results" /\ l.matured = done
  BY <1>1, <1>2 DEF Locals
<1> HIDE DEF l
<1> QED
  BY <1>3, <1>4, OwnLocals DEF done

\* A result is recorded: the prediction it is for was not matured, since a
\* match has one prediction.
LEMMA ResultAppended ==
    ASSUME IInv, NEW c \in Callers, MatureAppends(c)
    PROVE  IInv'
<1>1. PICK k \in Rows("PRE_EVENT") :
        /\ Id(ledger[k]) \notin call[c].matured
        /\ call[c].at >= Matures(ledger[k].match)
        /\ ledger' = Append(ledger, [ledger[k] EXCEPT !.status = "MATURED",
                                                      !.maturedAt = call[c].at])
        /\ call' = [call EXCEPT ![c].matured = @ \union {Id(ledger[k])}]
  BY DEF MatureAppends
<1> DEFINE row == [ledger[k] EXCEPT !.status = "MATURED", !.maturedAt = call[c].at]
           n == Len(ledger) + 1
           l == [call[c] EXCEPT !.matured = @ \union {Id(ledger[k])}]
<1>2. /\ call[c] \in Locals /\ call[c].pc = "results" /\ lock = c /\ ledger \in Seq(Row)
      /\ call[c].at \in Times /\ call \in [Callers -> Locals]
      /\ call[c].matured = {Id(ledger[i]) : i \in Rows("MATURED")}
  BY DEF MatureAppends, IInv, TypeOK, OneHolder, MaturationLocals, Locals
<1>3. k \in DOMAIN ledger /\ ledger[k] \in Row /\ ledger[k].status = "PRE_EVENT"
  BY <1>2 DEF Rows
<1>4. /\ row \in Row /\ row.status = "MATURED" /\ row.maturedAt = call[c].at
      /\ row.match = ledger[k].match /\ row.ratings = ledger[k].ratings
  BY <1>2, <1>3 DEF Row
<1>5. Id(ledger[k]) \in Ids
  BY <1>3 DEF Id, Ids, Row
<1>6. /\ l \in Locals /\ l.pc = "results" /\ l.matured = call[c].matured \union {Id(ledger[k])}
  BY <1>2, <1>5 DEF Locals
<1>7. ledger' = Append(ledger, row) /\ clock' = clock /\ lock' = lock
  BY <1>1 DEF MatureAppends
<1>8. /\ call' \in [Callers -> Locals]
      /\ \A d \in Callers : call'[d] = IF d = c THEN l ELSE call[d]
  BY <1>1, <1>2, <1>6
<1> HIDE DEF row, l
<1>9. /\ ledger' \in Seq(Row) /\ n \notin DOMAIN ledger
      /\ DOMAIN ledger' = DOMAIN ledger \union {n}
      /\ ledger'[n] = row /\ \A i \in DOMAIN ledger : ledger'[i] = ledger[i] /\ i < n
      /\ \A s : Rows(s)' = IF row.status = s THEN Rows(s) \union {n} ELSE Rows(s)
  BY <1>2, <1>4, <1>7, AppendedRow
<1>10. /\ Rows("PRE_EVENT")' = Rows("PRE_EVENT")
       /\ Rows("MATURED")' = Rows("MATURED") \union {n}
  BY <1>4, <1>9
<1>11. /\ \A s : Rows(s) \subseteq DOMAIN ledger
       /\ \A i \in Rows("PRE_EVENT") \union Rows("MATURED") : ledger'[i] = ledger[i]
  BY <1>9 DEF Rows
<1>12. TypeOK'
  BY <1>7, <1>8, <1>9 DEF IInv, TypeOK
<1>13. \A d \in Callers : d # c => call[d].pc \notin {"append", "results"}
  BY <1>2 DEF IInv, OneHolder
<1>14. ledger[k].match \notin {ledger[i].match : i \in Rows("MATURED")}
  <2> SUFFICES ASSUME NEW i \in Rows("MATURED"), ledger[i].match = ledger[k].match
               PROVE  FALSE
    OBVIOUS
  <2>1. PICK j \in Rows("PRE_EVENT") :
            ledger[i] = [ledger[j] EXCEPT !.status = "MATURED",
                                          !.maturedAt = ledger[i].maturedAt]
    BY DEF IInv, MaturedKeepsPrediction
  <2>2. ledger[j] \in Row
    BY <1>2 DEF Rows
  <2>3. ledger[i].match = ledger[j].match /\ ledger[i].ratings = ledger[j].ratings
    BY <2>1, <2>2 DEF Row
  <2>4. j = k
    BY <2>3 DEF IInv, OnePredictionPerMatch
  <2>5. Id(ledger[i]) = Id(ledger[k])
    BY <2>3, <2>4 DEF Id
  <2> QED
    BY <1>1, <1>2, <2>5
<1>15. OneHolder'
  BY <1>2, <1>6, <1>7, <1>8 DEF IInv, OneHolder
<1>16. RegistrationLocals'
  <2>1. \A d \in Callers : call'[d].pc = "append" => FALSE
    BY <1>6, <1>8, <1>13
  <2>2. \A d \in Callers : call'[d].pc = "register" =>
            call'[d].fixture \in Fixtures /\ call'[d].ratings \in Ratings
    BY <1>6, <1>8 DEF IInv, RegistrationLocals
  <2> QED
    BY <2>1, <2>2 DEF RegistrationLocals
<1>17. MaturationLocals'
  <2>1. Id(row) = Id(ledger[k])
    BY <1>4 DEF Id
  <2>2. \A i \in Rows("MATURED") : Id(ledger'[i]) = Id(ledger[i])
    BY <1>11
  <2>3. {Id(ledger'[i]) : i \in Rows("MATURED")'} = l.matured
    BY <1>2, <1>6, <1>9, <1>10, <2>1, <2>2
  <2>4. {Id(ledger[i]) : i \in Rows("MATURED")}' = {Id(ledger'[i]) : i \in Rows("MATURED")'}
    BY DEF Id
  <2> QED
    BY <1>8, <1>13, <2>3, <2>4 DEF MaturationLocals
<1>18. OnePredictionPerMatch'
  BY <1>10, <1>11 DEF IInv, OnePredictionPerMatch
<1>19. PredictedBeforeTheMatch'
  BY <1>10, <1>11 DEF IInv, PredictedBeforeTheMatch
<1>20. MaturedKeepsPrediction'
  <2>1. \A m : Matures(m)' = Matures(m)
    BY DEF Matures
  <2>2. k < n /\ ledger'[k] = ledger[k] /\ k \in Rows("PRE_EVENT")'
    BY <1>3, <1>9, <1>10
  <2>3. ledger'[n] = [ledger'[k] EXCEPT !.status = "MATURED", !.maturedAt = ledger'[n].maturedAt]
    BY <1>4, <1>9, <2>2 DEF row
  <2>4. ledger'[n].maturedAt >= Matures(ledger'[n].match)
    BY <1>1, <1>4, <1>9
  <2>5. \A i \in Rows("MATURED") :
        /\ ledger'[i].maturedAt >= Matures(ledger'[i].match)
        /\ \E j \in Rows("PRE_EVENT")' :
            /\ j < i
            /\ ledger'[i] = [ledger'[j] EXCEPT !.status = "MATURED",
                                               !.maturedAt = ledger'[i].maturedAt]
    BY <1>10, <1>11 DEF IInv, MaturedKeepsPrediction
  <2> QED
    BY <1>10, <2>1, <2>2, <2>3, <2>4, <2>5 DEF MaturedKeepsPrediction
<1>21. MaturedOnce'
  BY <1>4, <1>9, <1>10, <1>11, <1>14 DEF IInv, MaturedOnce
<1> QED
  BY <1>12, <1>15, <1>16, <1>17, <1>18, <1>19, <1>20, <1>21 DEF IInv

\* Time passes: no property of the ledger or of a call looks at the clock.
LEMMA TimePasses ==
    ASSUME IInv, clock' \in Times, UNCHANGED <<ledger, lock, call>>
    PROVE  IInv'
<1>1. \A s : Rows(s)' = Rows(s)
  BY DEF Rows
<1>2. {Id(ledger[i]) : i \in Rows("MATURED")}' = {Id(ledger[i]) : i \in Rows("MATURED")}
  BY <1>1
<1>3. TypeOK' /\ OneHolder'
  BY DEF IInv, TypeOK, OneHolder
<1>4. RegistrationLocals'
  BY <1>1 DEF IInv, RegistrationLocals, Start
<1>5. MaturationLocals'
  BY <1>2 DEF IInv, MaturationLocals
<1>6. /\ OnePredictionPerMatch' /\ PredictedBeforeTheMatch'
      /\ MaturedKeepsPrediction' /\ MaturedOnce'
  BY <1>1 DEF IInv, OnePredictionPerMatch, PredictedBeforeTheMatch,
              MaturedKeepsPrediction, MaturedOnce, Matures
<1> QED
  BY <1>3, <1>4, <1>5, <1>6 DEF IInv

\* Every step keeps the inductive invariant.
LEMMA StepIInv == IInv /\ [Next]_vars => IInv'
<1> SUFFICES ASSUME IInv, [Next]_vars PROVE IInv'
  OBVIOUS
<1>1. CASE Tick
  <2>1. clock' \in Times
    BY <1>1, HorizonAssumption DEF Tick, Times, IInv, TypeOK
  <2> QED
    BY <1>1, <2>1, TimePasses DEF Tick
<1>2. ASSUME NEW c \in Callers, Register(c) PROVE IInv'
  <2>1. CASE RegisterCall(c)
    BY <2>1, CallBegins
  <2>2. CASE RegisterReads(c)
    BY <2>2, RegistrationReads
  <2>3. CASE RegisterRefuses(c)
    <3>1. lock' = None => lock \in {None, c}
      BY <2>3 DEF RegisterRefuses
    <3> QED
      BY <2>3, <3>1, CallEnds DEF RegisterRefuses
  <2>4. CASE RegisterAppends(c)
    BY <2>4, PredictionAppended
  <2>5. CASE RegisterRaises(c)
    <3>1. lock = c
      BY <2>5 DEF RegisterRaises, IInv, OneHolder
    <3> QED
      BY <2>5, <3>1, CallEnds DEF RegisterRaises, Release
  <2> QED
    BY <1>2, <2>1, <2>2, <2>3, <2>4, <2>5 DEF Register
<1>3. ASSUME NEW c \in Callers, Mature(c) PROVE IInv'
  <2>1. CASE MatureCall(c)
    BY <2>1, CallBegins
  <2>2. CASE MatureReads(c)
    BY <2>2, MaturationReads
  <2>3. CASE MatureAppends(c)
    BY <2>3, ResultAppended
  <2>4. CASE MatureEnds(c)
    <3>1. lock = c
      BY <2>4 DEF MatureEnds, IInv, OneHolder
    <3> QED
      BY <2>4, <3>1, CallEnds DEF MatureEnds, Release
  <2> QED
    BY <1>3, <2>1, <2>2, <2>3, <2>4 DEF Mature
<1>4. ASSUME NEW c \in Callers, Die(c) PROVE IInv'
  <2>1. /\ call' = [call EXCEPT ![c] = Idle] /\ UNCHANGED <<clock, ledger>>
        /\ lock' \in {lock, None} /\ (lock' = None => lock \in {None, c})
    BY <1>4 DEF Die
  <2> QED
    BY <2>1, CallEnds
<1>5. CASE UNCHANGED vars
  <2>1. clock' \in Times
    BY <1>5 DEF vars, IInv, TypeOK
  <2> QED
    BY <1>5, <2>1, TimePasses DEF vars
<1> QED
  BY <1>1, <1>2, <1>3, <1>4, <1>5 DEF Next

-----------------------------------------------------------------------------
\* The ledger, the lock and the locals of the calls agree at every moment.
THEOREM LedgerInvariant == Spec => []IInv
<1> QED
  BY InitIInv, StepIInv, PTL DEF Spec

\* Rows, lock and locals keep their types.
THEOREM TypeCorrect == Spec => []TypeOK
<1>1. IInv => TypeOK
  BY DEF IInv
<1> QED
  BY <1>1, LedgerInvariant, PTL

\* However often a fixture is registered, by whom, after which failure and
\* with which ratings, a match has one prediction.
THEOREM RegisteredOnce == Spec => []OnePredictionPerMatch
<1>1. IInv => OnePredictionPerMatch
  BY DEF IInv
<1> QED
  BY <1>1, LedgerInvariant, PTL

\* No prediction is dated at or after the start of its match.
THEOREM NeverAfterTheStart == Spec => []PredictedBeforeTheMatch
<1>1. IInv => PredictedBeforeTheMatch
  BY DEF IInv
<1> QED
  BY <1>1, LedgerInvariant, PTL

\* A result is recorded past the horizon, after the prediction it repeats.
THEOREM ResultsKeepPredictions == Spec => []MaturedKeepsPrediction
<1>1. IInv => MaturedKeepsPrediction
  BY DEF IInv
<1> QED
  BY <1>1, LedgerInvariant, PTL

\* However often results are applied, a match has one result.
THEOREM RecordedOnce == Spec => []MaturedOnce
<1>1. IInv => MaturedOnce
  BY DEF IInv
<1> QED
  BY <1>1, LedgerInvariant, PTL
=============================================================================
