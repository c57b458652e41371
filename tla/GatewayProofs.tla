---------------------------- MODULE GatewayProofs ----------------------------
(***************************************************************************)
(* Every safety property of the gateway, for any number of answers,        *)
(* handlers, requests, runs, title calls, tool tasks and events.  Each     *)
(* component has an inductive invariant of its own; the steps of another   *)
(* scene leave its variables as they are.                                  *)
(***************************************************************************)
EXTENDS Gateway, FiniteSetTheorems, SequenceTheorems, TLAPS

-----------------------------------------------------------------------------
(* Cards.  A resumed run holds the claim that it answered with.            *)

\* A resumed run answers a card, by its id or by no id.
KeysMatch == \A a \in InFlight : answer[a].key \in {NoId, answer[a].card.id}

\* No two runs in flight hold the same claim.
KeysDistinct == \A a, b \in InFlight : answer[a].key = answer[b].key => a = b

CardsInv == TypeOK /\ ClaimsAreHeld /\ KeysMatch /\ KeysDistinct

\* The initial state satisfies the invariant: nothing is in flight.
LEMMA CardsInit == Init => CardsInv
<1> SUFFICES ASSUME Init PROVE CardsInv
  OBVIOUS
<1>1. InFlight = {}
  BY DEF Init, InFlight, Idle
<1>2. TypeOK
  BY CardsAssumption DEF Init, TypeOK, Idle, NoCard, Kinds
<1> QED
  BY <1>1, <1>2 DEF Init, CardsInv, ClaimsAreHeld, KeysMatch, KeysDistinct

\* What a run records keeps the card and the counter typed.
LEMMA RecordedTyped ==
  ASSUME TypeOK, Recorded
  PROVE  /\ card' \in [id: Ids \cup {NoId}, no: 0..MaxRaised]
         /\ raised' \in 0..MaxRaised
<1>1. CASE card' = NoCard /\ UNCHANGED raised
  BY <1>1, CardsAssumption DEF TypeOK, NoCard
<1>2. CASE raised < MaxRaised /\ raised' = raised + 1
           /\ \E id \in Ids : card' = [id |-> id, no |-> raised + 1]
  BY <1>2, CardsAssumption DEF TypeOK
<1> QED
  BY <1>1, <1>2 DEF Recorded

\* The runs in flight do not change when answers in flight keep their place.
LEMMA SameFlights ==
  ASSUME CardsInv, UNCHANGED claims, InFlight' = InFlight,
         \A a \in InFlight : /\ answer'[a].key = answer[a].key
                             /\ answer'[a].card = answer[a].card
  PROVE  (ClaimsAreHeld /\ KeysMatch /\ KeysDistinct)'
BY DEF CardsInv, ClaimsAreHeld, KeysMatch, KeysDistinct

\* The end of a chat run touches the card only.
LEMMA ChatRecordsStep == CardsInv /\ ChatRecords => CardsInv'
<1> SUFFICES ASSUME CardsInv, ChatRecords PROVE CardsInv'
  OBVIOUS
<1>1. TypeOK'
  BY RecordedTyped DEF CardsInv, ChatRecords, TypeOK
<1>2. InFlight' = InFlight /\ answer' = answer
  BY DEF ChatRecords, InFlight
<1> QED
  BY <1>1, <1>2, SameFlights DEF CardsInv, ChatRecords

\* Reading the session starts nothing.
LEMMA ReadStep == ASSUME NEW a \in Answers PROVE CardsInv /\ Read(a) => CardsInv'
<1> SUFFICES ASSUME CardsInv, Read(a) PROVE CardsInv'
  OBVIOUS
<1>1. PICK kind \in Kinds, key \in Ids \cup {NoId} :
        answer' = [answer EXCEPT ![a] =
           [pc |-> "read", kind |-> kind, key |-> key,
            card |-> IF card # NoCard /\ KindOf[card.id] = kind THEN card ELSE NoCard]]
  BY DEF Read
<1>2. TypeOK'
  BY <1>1, CardsAssumption DEF CardsInv, TypeOK, Read, NoCard
<1>3. InFlight' = InFlight
  BY <1>1 DEF InFlight, Read, CardsInv, TypeOK
<1>4. \A b \in InFlight : answer'[b] = answer[b]
  BY <1>1 DEF InFlight, Read, CardsInv, TypeOK
<1> QED
  BY <1>2, <1>3, <1>4, SameFlights DEF CardsInv, Read

\* Moving a handler on keeps the types.
LEMMA GoesTyped ==
  ASSUME TypeOK, NEW a \in Answers, NEW to \in {"running", "recorded", "over"}, Goes(a, to)
  PROVE  /\ answer' \in [Answers -> [pc: {"idle", "read", "running", "recorded", "over"},
                               kind: Kinds, key: Ids \cup {NoId},
                               card: [id: Ids \cup {NoId}, no: 0..MaxRaised]]]
         /\ answer'[a] = [answer[a] EXCEPT !.pc = to]
         /\ \A b \in Answers \ {a} : answer'[b] = answer[b]
         /\ answer'[a].pc = to /\ answer'[a].key = answer[a].key
         /\ answer'[a].card = answer[a].card
BY DEF TypeOK, Goes

\* An answer is refused, fails to start a run, or starts the only run of its claim.
LEMMA RespondStep == ASSUME NEW a \in Answers PROVE CardsInv /\ Respond(a) => CardsInv'
<1> SUFFICES ASSUME CardsInv, Respond(a) PROVE CardsInv'
  OBVIOUS
<1>1. a \notin InFlight
  BY DEF Respond, InFlight
<1>2. card' \in [id: Ids \cup {NoId}, no: 0..MaxRaised] /\ raised' = raised
  BY CardsAssumption DEF Respond, Retired, CardsInv, TypeOK, NoCard
<1>3. CASE Goes(a, "over") /\ UNCHANGED claims
  <2>1. InFlight' = InFlight /\ \A b \in InFlight : answer'[b] = answer[b]
    BY <1>1, <1>3, GoesTyped DEF InFlight, CardsInv
  <2> QED
    BY <1>2, <1>3, <2>1, GoesTyped, SameFlights DEF CardsInv, TypeOK
<1>4. CASE /\ Matches(a) /\ answer[a].key \notin claims
           /\ Goes(a, "running") /\ claims' = Claimed(a)
  <2>1. InFlight' = InFlight \cup {a} /\ \A b \in InFlight : answer'[b] = answer[b]
    BY ZenonT(60), <1>1, <1>4, GoesTyped DEF InFlight, CardsInv
  <2>2. answer'[a].key = answer[a].key /\ answer'[a].card = answer[a].card
    BY <1>4, GoesTyped DEF CardsInv
  <2>3. TypeOK'
    BY ZenonT(60), <1>2, <1>4, GoesTyped DEF CardsInv, TypeOK, Claimed
  <2>4. ClaimsAreHeld'
    BY <1>4, <2>1, <2>2 DEF CardsInv, ClaimsAreHeld, Claimed
  <2>5. KeysMatch'
    BY <1>4, <2>1, <2>2 DEF CardsInv, KeysMatch, Matches
  <2>6. KeysDistinct'
    BY <1>4, <2>1, <2>2 DEF CardsInv, KeysDistinct, ClaimsAreHeld
  <2> QED
    BY <2>3, <2>4, <2>5, <2>6 DEF CardsInv
<1> QED
  BY <1>3, <1>4 DEF Respond

\* A run that records its result stays in flight with its claim.
LEMMA RecordStep == ASSUME NEW a \in Answers PROVE CardsInv /\ Record(a) => CardsInv'
<1> SUFFICES ASSUME CardsInv, Record(a) PROVE CardsInv'
  OBVIOUS
<1>1. TypeOK'
  BY RecordedTyped, GoesTyped DEF CardsInv, Record, TypeOK
<1>2. InFlight' = InFlight
  BY GoesTyped DEF CardsInv, Record, InFlight
<1>3. \A b \in InFlight : answer'[b].key = answer[b].key /\ answer'[b].card = answer[b].card
  BY GoesTyped DEF CardsInv, Record, InFlight
<1> QED
  BY <1>1, <1>2, <1>3, SameFlights DEF CardsInv, Record

\* A run that is over takes its own claim with it, and no other run's.
LEMMA EndRunStep == ASSUME NEW a \in Answers PROVE CardsInv /\ EndRun(a) => CardsInv'
<1> SUFFICES ASSUME CardsInv, EndRun(a) PROVE CardsInv'
  OBVIOUS
<1>1. InFlight' = InFlight \ {a} /\ \A b \in InFlight \ {a} : answer'[b] = answer[b]
  BY GoesTyped DEF CardsInv, EndRun, InFlight
<1>2. TypeOK'
  BY GoesTyped DEF CardsInv, EndRun, TypeOK, Released
<1>3. ClaimsAreHeld'
  BY <1>1 DEF CardsInv, EndRun, Released, ClaimsAreHeld, KeysDistinct
<1>4. KeysMatch' /\ KeysDistinct'
  BY <1>1 DEF CardsInv, KeysMatch, KeysDistinct
<1> QED
  BY <1>2, <1>3, <1>4 DEF CardsInv

\* Every step preserves the invariant.
LEMMA CardsKeep == CardsInv /\ [Next]_vars => CardsInv'
<1> SUFFICES ASSUME CardsInv, [Next]_vars PROVE CardsInv'
  OBVIOUS
<1>1. CASE UNCHANGED vars
  BY <1>1 DEF CardsInv, TypeOK, ClaimsAreHeld, KeysMatch, KeysDistinct, InFlight, vars
<1> QED
  BY <1>1, ChatRecordsStep, ReadStep, RespondStep, RecordStep, EndRunStep DEF Next

LEMMA CardsHold == GatewaySpec => []CardsInv
<1>1. [GatewayNext]_gatewayVars => [Next]_vars
  BY DEF GatewayNext, gatewayVars, OnlyCards, OnlyChat, OnlyStatus, OnlyNames, OnlyTools, OnlyEvents
<1>2. GatewayInit => Init
  BY DEF GatewayInit
<1> QED
  BY <1>1, <1>2, CardsInit, CardsKeep, PTL DEF GatewaySpec

\* The claims of a session are those of the resumed runs in flight: none is left
\* behind and none is lost (_claim_pending_request, _release_pending_claim).
THEOREM ClaimsMatchRuns == GatewaySpec => []ClaimsAreHeld
<1>1. CardsInv => ClaimsAreHeld
  BY DEF CardsInv
<1> QED
  BY <1>1, CardsHold, PTL

\* A card has one resumed run in flight, as docs/runtime_contract.md promises, unless
\* one answer named its id and another did not.
THEOREM CardsResumeOnce == GatewaySpec => []OneResumePerCard
<1>1. CardsInv => OneResumePerCard
  BY DEF CardsInv, KeysMatch, KeysDistinct, OneResumePerCard
<1> QED
  BY <1>1, CardsHold, PTL

-----------------------------------------------------------------------------
(* Chat runs.  Submissions of one request are kept apart by its record:    *)
(* while one of them works on it, the record is there, unless the registry *)
(* lost sight of the request, which hidden and dropped remember.           *)

\* A handler works on its request from its registration to the outcome of the run.
Works(h) == pc[h] \in {"registered", "following"} \/ run[h] \in Chat!InProgress \/ h \in watched

\* It has begun the request, whatever became of that.
Begun(h) == pc[h] = "registered" \/ run[h] # "none"

HandlersAgree ==
    \A h \in Handlers :
        /\ pc[h] \in {"idle", "checked", "registered"} => run[h] = "none" /\ h \notin watched
        /\ run[h] \in Chat!InProgress => pc[h] \in {"following", "draining"}
        /\ h \in watched => pc[h] \in {"draining", "over"}

\* The record of a request is there, and of the session of handler h.
HasRecord(h) == records[RequestOf[h]].state # "absent" /\ records[RequestOf[h]].session = SessionOf[h]

OneWorks ==
    \A h \in Handlers : Works(h) /\ RequestOf[h] \notin hidden =>
        HasRecord(h) /\ \A g \in Handlers : RequestOf[g] = RequestOf[h] /\ Works(g) => g = h

OneBegan ==
    \A h \in Handlers : Begun(h) /\ RequestOf[h] \notin hidden \cup dropped =>
        HasRecord(h) /\ \A g \in Handlers : RequestOf[g] = RequestOf[h] /\ Begun(g) => g = h

ChatInv ==
    /\ Chat!TypeOK
    /\ HandlersAgree /\ OneWorks /\ OneBegan

\* A step of handler h that touches the record of its own request at most.
StepOf(h) ==
    /\ Chat!TypeOK' /\ HandlersAgree'
    /\ hidden' = hidden /\ dropped' = dropped
    /\ \A g \in Handlers \ {h} : pc'[g] = pc[g] /\ run'[g] = run[g] /\ (g \in watched' <=> g \in watched)
    /\ (Works(h)' => Works(h)) /\ (Begun(h)' => Begun(h))
    /\ \A r \in Requests \ {RequestOf[h]} : records'[r] = records[r]
    /\ (records'[RequestOf[h]].state = "absent") <=> (records[RequestOf[h]].state = "absent")
    /\ records'[RequestOf[h]].session = records[RequestOf[h]].session

LEMMA StepKeeps ==
  ASSUME ChatInv, NEW h \in Handlers, StepOf(h)
  PROVE  ChatInv'
<1>1. \A g \in Handlers : RequestOf[g] \in Requests
  BY GatewayAssumption DEF Chat!ChatAssumption
<1>2. \A g \in Handlers : (Works(g)' => Works(g)) /\ (Begun(g)' => Begun(g))
  <2>1. \A g \in Handlers \ {h} : (Works(g)' => Works(g)) /\ (Begun(g)' => Begun(g))
    BY DEF StepOf, Works, Begun
  <2> QED
    BY <2>1 DEF StepOf
<1>3. \A g \in Handlers : HasRecord(g) => HasRecord(g)'
  <2> SUFFICES ASSUME NEW g \in Handlers, HasRecord(g) PROVE HasRecord(g)'
    OBVIOUS
  <2>1. CASE RequestOf[g] = RequestOf[h]
    BY <2>1 DEF StepOf, HasRecord
  <2>2. CASE RequestOf[g] # RequestOf[h]
    BY <1>1, <2>2 DEF StepOf, HasRecord
  <2> QED
    BY <2>1, <2>2
<1>4. hidden' = hidden /\ dropped' = dropped
  BY DEF StepOf
<1>5. OneWorks'
  BY <1>2, <1>3, <1>4 DEF ChatInv, OneWorks
<1>6. OneBegan'
  BY <1>2, <1>3, <1>4 DEF ChatInv, OneBegan
<1> QED
  BY <1>5, <1>6 DEF ChatInv, StepOf

\* A new run leaves the records others work with, or remembers that it does not.
LEMMA RegisterKeeps ==
  ASSUME ChatInv, NEW h \in Handlers, Chat!Register(h),
         UNCHANGED <<run, watched>>, pc[h] \in {"idle", "checked"},
         pc[h] = "idle" => ~Chat!Existing(h)
  PROVE  ChatInv'
<1> DEFINE q == RequestOf[h]
<1>1. /\ \A g \in Handlers : RequestOf[g] \in Requests /\ SessionOf[g] \in Sessions
      /\ None \notin Handlers /\ q \in Requests
  BY GatewayAssumption DEF Chat!ChatAssumption
<1>0. PICK stale \in Chat!Stale(h) : \E gone \in Chat!Dropped(h, stale) : records' = Chat!Started(h, stale, gone)
  BY DEF Chat!Register
<1>2. PICK gone \in Chat!Dropped(h, stale) : records' = Chat!Started(h, stale, gone)
  BY <1>0
<1>3. /\ pc' = [pc EXCEPT ![h] = "registered"] /\ run' = run /\ watched' = watched
      /\ pc \in [Handlers -> {"idle", "checked", "registered", "following", "draining", "over"}]
      /\ records \in [Requests -> Chat!Records] /\ hidden \cup dropped \subseteq Requests
  BY DEF Chat!Register, Chat!Goes, ChatInv, Chat!TypeOK
<1>4. run[h] = "none" /\ h \notin watched /\ ~Works(h) /\ ~Begun(h)
  BY DEF ChatInv, HandlersAgree, Works, Begun, Chat!InProgress
<1>5. \A g \in Handlers \ {h} : (Works(g)' <=> Works(g)) /\ (Begun(g)' <=> Begun(g))
  BY <1>3 DEF Works, Begun
<1>6. /\ dropped' = dropped \cup Chat!Vanishing
      /\ hidden' = hidden \cup {r \in Chat!Vanishing : ~Chat!Dead(r)} \cup {r \in {q} : Chat!Misses(h)}
  BY DEF Chat!Register
<1>7. \A g \in Handlers : Works(g) => ~Chat!Dead(RequestOf[g])
  BY DEF Chat!Dead, Works
<1>8. q \notin stale /\ q \notin gone
  BY DEF Chat!Stale, Chat!Dropped
<1>9. records[q].state # "absent" => q \in hidden'
  <2> SUFFICES ASSUME records[q].state # "absent" PROVE Chat!Misses(h)
    BY <1>6
  <2> QED
    BY DEF Chat!Misses, Chat!Existing
<1>10. \/ records' = records
       \/ /\ records'[q] = Chat!New(SessionOf[h])
          /\ \A r \in Requests \ {q} : records'[r] = IF r \in gone THEN Chat!Absent
                                                   ELSE IF r \in stale
                                                   THEN [records[r] EXCEPT !.state = "failed", !.task = None]
                                                   ELSE records[r]
          /\ records' = [r \in Requests |-> records'[r]]
  BY <1>1, <1>2 DEF Chat!Started
<1>11. /\ Chat!New(SessionOf[h]) \in Chat!Records /\ Chat!Absent \in Chat!Records
       /\ Chat!New(SessionOf[h]).state = "running" /\ Chat!New(SessionOf[h]).session = SessionOf[h]
       /\ Chat!Absent.state = "absent"
       /\ \A x \in Chat!Records : /\ [x EXCEPT !.state = "failed", !.task = None] \in Chat!Records
                                  /\ [x EXCEPT !.state = "failed", !.task = None].session = x.session
                                  /\ [x EXCEPT !.state = "failed", !.task = None].state = "failed"
  BY <1>1 DEF Chat!New, Chat!Absent, Chat!Records, Chat!Terminal
<1>12. Chat!TypeOK'
  <2>1. records' \in [Requests -> Chat!Records]
    <3>1. CASE records' = records
      BY <1>3, <3>1
    <3>2. CASE records' # records
      <4>1. ASSUME NEW r \in Requests PROVE records'[r] \in Chat!Records
        <5>1. records[r] \in Chat!Records
          BY <1>3
        <5>2. \/ records'[r] = Chat!New(SessionOf[h]) \/ records'[r] = Chat!Absent
              \/ records'[r] = [records[r] EXCEPT !.state = "failed", !.task = None]
              \/ records'[r] = records[r]
          BY <1>10, <3>2
        <5> QED
          BY <1>11, <5>1, <5>2
      <4> QED
        BY <1>10, <3>2, <4>1
    <3> QED
      BY <3>1, <3>2
  <2>2. hidden' \cup dropped' \subseteq Requests
    BY <1>1, <1>3, <1>6 DEF Chat!Vanishing
  <2> QED
    BY <1>3, <2>1, <2>2 DEF ChatInv, Chat!TypeOK
<1>13. HandlersAgree'
  BY <1>3, <1>4 DEF ChatInv, HandlersAgree
\* The record of another request is kept, or the request is remembered.
<1>14. ASSUME NEW g \in Handlers, RequestOf[g] # q, HasRecord(g)
       PROVE  HasRecord(g)' \/ RequestOf[g] \in Chat!Vanishing
  <2> DEFINE r == RequestOf[g]
  <2>1. r \in Requests \ {q} /\ records[r] \in Chat!Records
    BY <1>1, <1>3, <1>14
  <2>2. CASE records' = records
    BY <1>14, <2>2 DEF HasRecord
  <2>3. CASE records' # records /\ r \in gone
    <3>1. records'[r].state = "absent"
      BY <1>10, <1>11, <2>1, <2>3
    <3> QED
      BY <1>14, <2>1, <3>1 DEF Chat!Vanishing, HasRecord
  <2>4. CASE records' # records /\ r \notin gone
    <3>1. records'[r].session = records[r].session /\ records'[r].state # "absent"
      BY <1>10, <1>11, <1>14, <2>1, <2>4 DEF HasRecord
    <3> QED
      BY <1>14, <3>1 DEF HasRecord
  <2> QED
    BY <2>2, <2>3, <2>4
\* Where nothing is remembered, the request had no record and has a new one.
<1>15. ASSUME q \notin hidden'
       PROVE  /\ \A g \in Handlers : RequestOf[g] = q => ~HasRecord(g)
              /\ HasRecord(h)'
  <2>1. records[q].state = "absent"
    BY <1>9, <1>15
  <2>2. ~Chat!Existing(h)
    BY <2>1 DEF Chat!Existing
  <2>3. records'[q] = Chat!New(SessionOf[h])
    BY <1>1, <1>2, <2>2 DEF Chat!Started
  <2> QED
    BY <1>11, <2>1, <2>3 DEF HasRecord
<1>16. OneWorks'
  <2> SUFFICES ASSUME NEW g \in Handlers, Works(g)', RequestOf[g] \notin hidden'
               PROVE  HasRecord(g)' /\ \A b \in Handlers : RequestOf[b] = RequestOf[g] /\ Works(b)' => b = g
    BY DEF OneWorks
  <2>1. RequestOf[g] \notin hidden
    BY <1>6
  <2>2. CASE RequestOf[g] = q
    <3>1. \A b \in Handlers : RequestOf[b] = q => ~Works(b)
      BY <1>15, <2>1, <2>2 DEF ChatInv, OneWorks
    <3>2. g = h
      BY <1>5, <2>2, <3>1
    <3> QED
      BY <1>5, <1>15, <2>2, <3>1, <3>2
  <2>3. CASE RequestOf[g] # q
    <3>1. Works(g) /\ HasRecord(g) /\ \A b \in Handlers : RequestOf[b] = RequestOf[g] /\ Works(b) => b = g
      BY <1>5, <2>1, <2>3 DEF ChatInv, OneWorks
    <3>2. RequestOf[g] \notin Chat!Vanishing
      BY <1>6, <1>7, <3>1
    <3> QED
      BY <1>5, <1>14, <2>3, <3>1, <3>2
  <2> QED
    BY <2>2, <2>3
<1>17. OneBegan'
  <2> SUFFICES ASSUME NEW g \in Handlers, Begun(g)', RequestOf[g] \notin hidden' \cup dropped'
               PROVE  HasRecord(g)' /\ \A b \in Handlers : RequestOf[b] = RequestOf[g] /\ Begun(b)' => b = g
    BY DEF OneBegan
  <2>1. RequestOf[g] \notin hidden \cup dropped /\ RequestOf[g] \notin Chat!Vanishing
    BY <1>6
  <2>2. CASE RequestOf[g] = q
    <3>1. \A b \in Handlers : RequestOf[b] = q => ~Begun(b)
      BY <1>15, <2>1, <2>2 DEF ChatInv, OneBegan
    <3>2. g = h
      BY <1>5, <2>2, <3>1
    <3> QED
      BY <1>5, <1>15, <2>2, <3>1, <3>2
  <2>3. CASE RequestOf[g] # q
    <3>1. Begun(g) /\ HasRecord(g) /\ \A b \in Handlers : RequestOf[b] = RequestOf[g] /\ Begun(b) => b = g
      BY <1>5, <2>1, <2>3 DEF ChatInv, OneBegan
    <3> QED
      BY <1>5, <1>14, <2>1, <2>3, <3>1
  <2> QED
    BY <2>2, <2>3
<1> QED
  BY <1>12, <1>13, <1>16, <1>17 DEF ChatInv

\* What the operations on a record do to it.
LEMMA RecordOperations ==
  ASSUME Chat!TypeOK, NEW h \in Handlers,
         NEW new \in {records, Chat!Attached(h), Chat!Completed(h), Chat!Failed(h), Chat!Finalized(h)}
  PROVE  /\ new \in [Requests -> Chat!Records]
         /\ \A r \in Requests \ {RequestOf[h]} : new[r] = records[r]
         /\ (new[RequestOf[h]].state = "absent") <=> (records[RequestOf[h]].state = "absent")
         /\ new[RequestOf[h]].session = records[RequestOf[h]].session
         /\ new \in {records, Chat!Attached(h)} => new[RequestOf[h]].state = records[RequestOf[h]].state
<1> DEFINE q == RequestOf[h]
<1>1. q \in Requests /\ records \in [Requests -> Chat!Records] /\ records[q] \in Chat!Records
  BY GatewayAssumption DEF Chat!ChatAssumption, Chat!TypeOK
<1>2. ASSUME NEW x \in Chat!Records, x.session = records[q].session,
             (x.state = "absent") <=> (records[q].state = "absent"),
             new = [records EXCEPT ![q] = x]
      PROVE  /\ new \in [Requests -> Chat!Records]
             /\ \A r \in Requests \ {q} : new[r] = records[r]
             /\ (new[q].state = "absent") <=> (records[q].state = "absent")
             /\ new[q].session = records[q].session
             /\ new[q].state = x.state
  BY <1>1, <1>2
<1>3. CASE new = records
  BY <1>1, <1>3
<1>4. CASE new = Chat!Attached(h) /\ new # records
  <2> DEFINE x == [records[q] EXCEPT !.task = h]
  <2>1. new = [records EXCEPT ![q] = x] /\ records[q].state # "absent"
    BY <1>4 DEF Chat!Attached
  <2>2. x \in Chat!Records /\ x.session = records[q].session /\ x.state = records[q].state
    BY <1>1 DEF Chat!Records
  <2> HIDE DEF x
  <2> QED
    BY <1>2, <2>1, <2>2
<1>5. ASSUME new = Chat!Completed(h), new # records
      PROVE  /\ new \in [Requests -> Chat!Records] /\ new # Chat!Attached(h)
             /\ \A r \in Requests \ {q} : new[r] = records[r]
             /\ (new[q].state = "absent") <=> (records[q].state = "absent")
             /\ new[q].session = records[q].session
  <2> DEFINE x == [records[q] EXCEPT !.state = "completed", !.task = None, !.payload = h]
  <2>1. new = [records EXCEPT ![q] = x] /\ records[q].state # "absent"
    BY <1>5 DEF Chat!Completed
  <2>2. x \in Chat!Records /\ x.session = records[q].session /\ x.state = "completed" /\ x.task = None
    BY <1>1 DEF Chat!Records, Chat!Terminal
  <2>3. Chat!Attached(h)[q].task = h /\ h # None
    BY <1>1, <2>1, GatewayAssumption DEF Chat!Attached, Chat!Records, Chat!ChatAssumption
  <2>4. new[q] = x
    BY <1>1, <2>1
  <2> HIDE DEF x
  <2> QED
    BY <1>2, <2>1, <2>2, <2>3, <2>4
<1>6. ASSUME new = Chat!Failed(h), new # records
      PROVE  /\ new \in [Requests -> Chat!Records] /\ new # Chat!Attached(h)
             /\ \A r \in Requests \ {q} : new[r] = records[r]
             /\ (new[q].state = "absent") <=> (records[q].state = "absent")
             /\ new[q].session = records[q].session
  <2> DEFINE x == [records[q] EXCEPT !.state = "failed", !.task = None]
  <2>1. new = [records EXCEPT ![q] = x] /\ records[q].state # "absent"
    BY <1>6 DEF Chat!Failed
  <2>2. x \in Chat!Records /\ x.session = records[q].session /\ x.state = "failed" /\ x.task = None
    BY <1>1 DEF Chat!Records, Chat!Terminal
  <2>3. Chat!Attached(h)[q].task = h /\ h # None
    BY <1>1, <2>1, GatewayAssumption DEF Chat!Attached, Chat!Records, Chat!ChatAssumption
  <2>4. new[q] = x
    BY <1>1, <2>1
  <2> HIDE DEF x
  <2> QED
    BY <1>2, <2>1, <2>2, <2>3, <2>4
<1>7. new \in {records, Chat!Attached(h), Chat!Completed(h), Chat!Failed(h)}
  BY DEF Chat!Finalized
<1> QED
  BY <1>3, <1>4, <1>5, <1>6, <1>7

\* A handler moves on, its run ends or its callback is called.
Move(h, at, how) ==
    /\ pc' = [pc EXCEPT ![h] = at] /\ at \in {"idle", "checked", "registered", "following", "draining", "over"}
    /\ run' = [run EXCEPT ![h] = how] /\ how \in {"none"} \cup Chat!InProgress \cup Chat!Ended
    /\ watched' \in {watched, watched \cup {h}, watched \ {h}}
    /\ h \in watched' => h \in Streams
    /\ records' \in {records, Chat!Attached(h), Chat!Completed(h), Chat!Failed(h), Chat!Finalized(h)}
    /\ at \in {"idle", "checked", "registered"} => how = "none" /\ h \notin watched'
    /\ how \in Chat!InProgress => at \in {"following", "draining"}
    /\ h \in watched' => at \in {"draining", "over"}
    /\ (Works(h)' => Works(h)) /\ (Begun(h)' => Begun(h))
    /\ UNCHANGED <<hidden, dropped>>

LEMMA HandlerStep ==
  ASSUME ChatInv, NEW h \in Handlers, NEW at, NEW how, Move(h, at, how)
  PROVE  ChatInv'
<1> USE DEF Move
<1>1. /\ pc \in [Handlers -> {"idle", "checked", "registered", "following", "draining", "over"}]
      /\ run \in [Handlers -> {"none"} \cup Chat!InProgress \cup Chat!Ended]
      /\ watched \subseteq Streams /\ hidden \cup dropped \subseteq Requests /\ Chat!TypeOK
  BY DEF ChatInv, Chat!TypeOK
<1>2. /\ records' \in [Requests -> Chat!Records]
      /\ \A r \in Requests \ {RequestOf[h]} : records'[r] = records[r]
      /\ (records'[RequestOf[h]].state = "absent") <=> (records[RequestOf[h]].state = "absent")
      /\ records'[RequestOf[h]].session = records[RequestOf[h]].session
      /\ records' \in {records, Chat!Attached(h)} => records'[RequestOf[h]].state = records[RequestOf[h]].state
  <2> DEFINE new == records'
  <2>1. new \in {records, Chat!Attached(h), Chat!Completed(h), Chat!Failed(h), Chat!Finalized(h)}
    OBVIOUS
  <2> HIDE DEF new
  <2>2. /\ new \in [Requests -> Chat!Records]
        /\ \A r \in Requests \ {RequestOf[h]} : new[r] = records[r]
        /\ (new[RequestOf[h]].state = "absent") <=> (records[RequestOf[h]].state = "absent")
        /\ new[RequestOf[h]].session = records[RequestOf[h]].session
        /\ new \in {records, Chat!Attached(h)} => new[RequestOf[h]].state = records[RequestOf[h]].state
    BY <1>1, <2>1, RecordOperations
  <2> QED
    BY <2>2 DEF new
<1>3. Chat!TypeOK'
  BY <1>1, <1>2 DEF Chat!TypeOK
<1>4. /\ pc'[h] = at /\ run'[h] = how
      /\ \A g \in Handlers \ {h} : pc'[g] = pc[g] /\ run'[g] = run[g] /\ (g \in watched' <=> g \in watched)
  BY <1>1
<1>5. HandlersAgree'
  BY <1>4 DEF ChatInv, HandlersAgree
<1>6. StepOf(h)
  BY <1>2, <1>3, <1>4, <1>5 DEF StepOf
<1> QED
  BY <1>6, StepKeeps

\* A cancelled record stays, until it is dropped.
LEMMA CancelKeeps ==
  ASSUME ChatInv, NEW q \in Requests, Chat!CancelRun(q)
  PROVE  ChatInv'
<1> DEFINE x == [records[q] EXCEPT !.state = "cancelled", !.task = None]
<1>1. /\ q \in Cancellable /\ records[q].state = "running" /\ records' = [records EXCEPT ![q] = x]
      /\ pc' = pc /\ watched' = watched /\ hidden' = hidden /\ dropped' = dropped
      /\ run' = IF records[q].task = None THEN run ELSE Chat!Cancelling(run, records[q].task)
  BY DEF Chat!CancelRun, Chat!forgotten
<1>2. /\ pc \in [Handlers -> {"idle", "checked", "registered", "following", "draining", "over"}]
      /\ run \in [Handlers -> {"none"} \cup Chat!InProgress \cup Chat!Ended]
      /\ records \in [Requests -> Chat!Records] /\ watched \subseteq Streams
      /\ hidden \cup dropped \subseteq Requests
  BY DEF ChatInv, Chat!TypeOK
<1>3. x \in Chat!Records /\ x.session = records[q].session /\ x.state = "cancelled"
  <2>1. records[q] \in Chat!Records
    BY <1>2
  <2> QED
    BY <2>1 DEF Chat!Records, Chat!Terminal
<1> HIDE DEF x
<1>4. /\ records'[q] = x /\ \A r \in Requests \ {q} : records'[r] = records[r]
      /\ records' \in [Requests -> Chat!Records]
  BY <1>1, <1>2, <1>3
<1>5. records[q].task \in Handlers \cup {None}
  BY <1>2 DEF Chat!Records
<1>6. /\ run' \in [Handlers -> {"none"} \cup Chat!InProgress \cup Chat!Ended]
      /\ \A h \in Handlers : /\ run'[h] \in Chat!InProgress <=> run[h] \in Chat!InProgress
                             /\ run'[h] = "none" <=> run[h] = "none"
  BY <1>1, <1>2, <1>5 DEF Chat!Cancelling, Chat!InProgress
<1>7. \A h \in Handlers : (Works(h)' <=> Works(h)) /\ (Begun(h)' <=> Begun(h))
  BY <1>1, <1>6 DEF Works, Begun
<1>8. Chat!TypeOK'
  BY <1>1, <1>2, <1>4, <1>6 DEF Chat!TypeOK
<1>9. HandlersAgree'
  BY <1>1, <1>6 DEF ChatInv, HandlersAgree
<1>10. \A h \in Handlers : HasRecord(h) => HasRecord(h)'
  <2>1. \A h \in Handlers : RequestOf[h] \in Requests
    BY GatewayAssumption DEF Chat!ChatAssumption
  <2> QED
    BY <1>3, <1>4, <2>1 DEF HasRecord
<1>11. OneWorks' /\ OneBegan'
  BY <1>1, <1>7, <1>10 DEF ChatInv, OneWorks, OneBegan
<1> QED
  BY <1>8, <1>9, <1>11 DEF ChatInv

LEMMA ChatKeeps ==
  ASSUME ChatInv, Chat!Next
  PROVE  ChatInv'
<1>1. /\ pc \in [Handlers -> {"idle", "checked", "registered", "following", "draining", "over"}]
      /\ run \in [Handlers -> {"none"} \cup Chat!InProgress \cup Chat!Ended]
      /\ watched \subseteq Streams /\ Streams \subseteq Handlers
      /\ Endings \subseteq {"returned", "raised", "invalid"}
      /\ DOMAIN pc = Handlers /\ DOMAIN run = Handlers
  BY GatewayAssumption DEF ChatInv, Chat!TypeOK, Chat!ChatAssumption
<1>2. \A h \in Handlers : run = [run EXCEPT ![h] = run[h]] /\ pc = [pc EXCEPT ![h] = pc[h]]
  BY <1>1
<1>3. ASSUME NEW h \in Handlers
      PROVE  /\ pc[h] \in {"idle", "checked", "registered"} => run[h] = "none" /\ h \notin watched
             /\ run[h] \in Chat!InProgress => pc[h] \in {"following", "draining"}
             /\ h \in watched => pc[h] \in {"draining", "over"}
             /\ run[h] \in {"none"} \cup Chat!InProgress \cup Chat!Ended
             /\ pc[h] \in {"idle", "checked", "registered", "following", "draining", "over"}
             /\ h \in watched => h \in Streams
  BY <1>1 DEF ChatInv, HandlersAgree
<1>4. ASSUME NEW h \in Handlers, Chat!Check(h) PROVE ChatInv'
  <2>0. pc[h] = "idle" /\ run' = run /\ watched' = watched
    BY <1>4 DEF Chat!Check
  <2>1. CASE Chat!Goes(h, "over") /\ UNCHANGED <<records, Chat!forgotten>>
    <3>1. Move(h, "over", run[h])
      BY <1>1, <1>2, <1>3, <2>0, <2>1 DEF Move, Begun, Chat!forgotten, Chat!Goes, Works, Chat!InProgress
    <3> QED
      BY <3>1, HandlerStep
  <2>2. CASE h \in Slow /\ Chat!Goes(h, "checked") /\ UNCHANGED <<records, Chat!forgotten>>
    <3>1. Move(h, "checked", run[h])
      BY <1>1, <1>2, <1>3, <2>0, <2>2 DEF Move, Begun, Chat!forgotten, Chat!Goes, Works, Chat!InProgress
    <3> QED
      BY <3>1, HandlerStep
  <2>3. CASE ~Chat!Existing(h) /\ Chat!Register(h)
    BY <2>0, <2>3, RegisterKeeps
  <2> QED
    BY <1>4, <2>1, <2>2, <2>3 DEF Chat!Check
<1>5. ASSUME NEW h \in Handlers, Chat!Start(h) PROVE ChatInv'
  BY <1>3, <1>5, RegisterKeeps DEF Chat!Start
<1>6. ASSUME NEW h \in Handlers, Chat!GiveUp(h) PROVE ChatInv'
  <2>1. /\ pc[h] \in {"checked", "registered"} /\ pc' = [pc EXCEPT ![h] = "over"]
        /\ run' = run /\ watched' = watched /\ records' \in {records, Chat!Failed(h)}
        /\ run[h] = "none" /\ h \notin watched
        /\ hidden' = hidden /\ dropped' = dropped
    BY <1>3, <1>6 DEF Chat!GiveUp, Chat!Goes, Chat!forgotten
  <2>2. ~Works(h)'
    BY <1>1, <2>1 DEF Works, Chat!InProgress
  <2>3. Move(h, "over", "none")
    BY <1>2, <2>1, <2>2 DEF Move, Begun, Chat!forgotten, Chat!InProgress
  <2> QED
    BY <2>3, HandlerStep
<1>7. ASSUME NEW h \in Handlers, Chat!Launch(h) PROVE ChatInv'
  <2>1. /\ pc[h] = "registered" /\ pc' = [pc EXCEPT ![h] = "following"]
        /\ run' = [run EXCEPT ![h] = "running"] /\ watched' = watched
        /\ records' \in {records, Chat!Attached(h)} /\ h \notin watched
        /\ hidden' = hidden /\ dropped' = dropped
    BY <1>3, <1>7 DEF Chat!Launch, Chat!Goes, Chat!forgotten
  <2>2. Move(h, "following", "running")
    BY <2>1 DEF Move, Begun, Chat!forgotten, Chat!InProgress, Works
  <2> QED
    BY <2>2, HandlerStep
<1>8. ASSUME NEW h \in Handlers, Chat!RunEnds(h) PROVE ChatInv'
  <2>1. PICK how \in Endings \cup {"cancelled"} : run' = [run EXCEPT ![h] = how]
    BY <1>8 DEF Chat!RunEnds
  <2>2. /\ run[h] \in Chat!InProgress /\ pc' = pc /\ watched' = watched /\ records' = records
        /\ how \in Chat!Ended /\ how \notin Chat!InProgress
        /\ hidden' = hidden /\ dropped' = dropped
    BY <1>1, <1>8 DEF Chat!RunEnds, Chat!Ended, Chat!InProgress, Chat!forgotten
  <2>3. Works(h) /\ Begun(h)
    BY <2>2 DEF Works, Begun, Chat!InProgress
  <2>4. Move(h, pc[h], how)
    BY <1>2, <1>3, <2>1, <2>2, <2>3 DEF Move
  <2> QED
    BY <2>4, HandlerStep
<1>9. ASSUME NEW h \in Handlers, Chat!Record(h) PROVE ChatInv'
  <2>1. /\ pc[h] = "following" /\ pc' = [pc EXCEPT ![h] = "over"] /\ run' = run /\ watched' = watched
        /\ records' \in {records, Chat!Completed(h), Chat!Failed(h), Chat!Finalized(h)}
        /\ run[h] \in Chat!Ended /\ run[h] \notin Chat!InProgress /\ h \notin watched
        /\ hidden' = hidden /\ dropped' = dropped
    BY <1>3, <1>9 DEF Chat!Record, Chat!Goes, Chat!Ended, Chat!InProgress, Chat!forgotten
  <2>2. Works(h) /\ ~Works(h)'
    BY <1>1, <2>1 DEF Works
  <2>3. Move(h, "over", run[h])
    BY <1>2, <2>1, <2>2 DEF Move, Begun, Chat!forgotten
  <2> QED
    BY <2>3, HandlerStep
<1>10. ASSUME NEW h \in Handlers, Chat!CancelHandler(h) PROVE ChatInv'
  <2>1. CASE /\ pc[h] \in {"checked", "registered"} /\ Chat!Goes(h, "over")
             /\ records' = (IF h \in Streams THEN records ELSE Chat!Failed(h))
             /\ UNCHANGED <<run, watched, Chat!forgotten>>
    <3>1. /\ pc[h] \in {"checked", "registered"} /\ pc' = [pc EXCEPT ![h] = "over"]
          /\ run' = run /\ watched' = watched /\ records' \in {records, Chat!Failed(h)}
          /\ run[h] = "none" /\ h \notin watched
          /\ hidden' = hidden /\ dropped' = dropped
      BY <1>3, <2>1 DEF Chat!Goes, Chat!forgotten
    <3>2. ~Works(h)'
      BY <1>1, <3>1 DEF Works, Chat!InProgress
    <3>3. Move(h, "over", "none")
      BY <1>2, <3>1, <3>2 DEF Move, Begun, Chat!forgotten, Chat!InProgress
    <3> QED
      BY <3>3, HandlerStep
  <2>2. CASE /\ pc[h] = "following" /\ run[h] \in Chat!Ended /\ Chat!Goes(h, "over")
             /\ records' = (IF h \in Streams THEN Chat!Finalized(h) ELSE Chat!Failed(h))
             /\ UNCHANGED <<run, watched, Chat!forgotten>>
    <3>1. /\ pc[h] = "following" /\ pc' = [pc EXCEPT ![h] = "over"] /\ run' = run /\ watched' = watched
          /\ records' \in {Chat!Failed(h), Chat!Finalized(h)}
          /\ run[h] \in Chat!Ended /\ run[h] \notin Chat!InProgress /\ h \notin watched
          /\ hidden' = hidden /\ dropped' = dropped
      BY <1>3, <2>2 DEF Chat!Goes, Chat!Ended, Chat!InProgress, Chat!forgotten
    <3>2. Works(h) /\ ~Works(h)'
      BY <1>1, <3>1 DEF Works
    <3>3. Move(h, "over", run[h])
      BY <1>2, <3>1, <3>2 DEF Move, Begun, Chat!forgotten
    <3> QED
      BY <3>3, HandlerStep
  <2>3. CASE /\ pc[h] = "following" /\ run[h] \in Chat!InProgress /\ h \in Streams
             /\ Chat!Goes(h, "draining") /\ watched' = Chat!Detached(h)
             /\ UNCHANGED <<records, run, Chat!forgotten>>
    <3>1. Move(h, "draining", run[h])
      BY <1>2, <1>3, <2>3 DEF Move, Begun, Chat!forgotten, Chat!Goes, Chat!Detached, Works
    <3> QED
      BY <3>1, HandlerStep
  <2>4. CASE /\ ((pc[h] = "following" /\ h \notin Streams) \/ pc[h] = "draining")
             /\ run[h] \in Chat!InProgress /\ run' = Chat!Cancelling(run, h)
             /\ UNCHANGED <<records, pc, watched, Chat!forgotten>>
    <3>1. run' = [run EXCEPT ![h] = "cancelling"]
      BY <1>1, <2>4 DEF Chat!Cancelling, Chat!InProgress
    <3>2. Move(h, pc[h], "cancelling")
      BY <1>2, <1>3, <2>4, <3>1 DEF Move, Begun, Chat!forgotten, Works, Chat!InProgress
    <3> QED
      BY <3>2, HandlerStep
  <2> QED
    BY <1>10, <2>1, <2>2, <2>3, <2>4 DEF Chat!CancelHandler
<1>11. ASSUME NEW h \in Handlers, Chat!Callback(h) PROVE ChatInv'
  <2>1. /\ h \in watched /\ run[h] \in Chat!Ended /\ watched' = watched \ {h}
        /\ records' = Chat!Finalized(h) /\ pc' = pc /\ run' = run
        /\ pc[h] \in {"draining", "over"} /\ run[h] \notin Chat!InProgress
        /\ hidden' = hidden /\ dropped' = dropped
    BY <1>3, <1>11 DEF Chat!Callback, Chat!Ended, Chat!InProgress, Chat!forgotten
  <2>2. Works(h) /\ ~Works(h)'
    BY <2>1 DEF Works
  <2>3. Move(h, pc[h], run[h])
    BY <1>2, <2>1, <2>2 DEF Move, Begun, Chat!forgotten
  <2> QED
    BY <2>3, HandlerStep
<1>12. ASSUME NEW h \in Handlers, Chat!Drained(h) PROVE ChatInv'
  <2>1. /\ pc[h] = "draining" /\ run[h] \in Chat!Ended /\ pc' = [pc EXCEPT ![h] = "over"]
        /\ records' = records /\ run' = run /\ watched' = watched /\ run[h] \notin Chat!InProgress
        /\ hidden' = hidden /\ dropped' = dropped
    BY <1>12 DEF Chat!Drained, Chat!Goes, Chat!Ended, Chat!InProgress, Chat!forgotten
  <2>2. Works(h)' => Works(h)
    BY <1>1, <2>1 DEF Works
  <2>3. Move(h, "over", run[h])
    BY <1>2, <1>3, <2>1, <2>2 DEF Move, Begun, Chat!forgotten
  <2> QED
    BY <2>3, HandlerStep
<1>13. ASSUME NEW r \in Requests, Chat!CancelRun(r) PROVE ChatInv'
  BY <1>13, CancelKeeps
<1> QED
  BY <1>4, <1>5, <1>6, <1>7, <1>8, <1>9, <1>10, <1>11, <1>12, <1>13 DEF Chat!Next, Chat!Progress

LEMMA ChatHolds == GatewaySpec => []ChatInv
<1>1. GatewayInit => ChatInv
  <2> SUFFICES ASSUME GatewayInit PROVE ChatInv
    OBVIOUS
  <2>1. /\ records = [r \in Requests |-> Chat!Absent] /\ pc = [h \in Handlers |-> "idle"]
        /\ run = [h \in Handlers |-> "none"] /\ watched = {} /\ hidden = {} /\ dropped = {}
    BY DEF GatewayInit, Chat!Init
  <2>2. Chat!Absent \in Chat!Records
    BY DEF Chat!Absent, Chat!Records
  <2>3. Chat!TypeOK
    BY <2>1, <2>2 DEF Chat!TypeOK
  <2>4. HandlersAgree /\ \A h \in Handlers : ~Works(h) /\ ~Begun(h)
    BY <2>1 DEF HandlersAgree, Works, Begun, Chat!InProgress
  <2> QED
    BY <2>3, <2>4 DEF ChatInv, OneWorks, OneBegan
<1>2. ChatInv /\ [GatewayNext]_gatewayVars => ChatInv'
  <2> SUFFICES ASSUME ChatInv, [GatewayNext]_gatewayVars PROVE ChatInv'
    OBVIOUS
  <2>1. CASE OnlyChat /\ Chat!Next
    BY <2>1, ChatKeeps
  <2>2. CASE UNCHANGED chatting
    <3>1. records' = records /\ pc' = pc /\ run' = run /\ watched' = watched
          /\ hidden' = hidden /\ dropped' = dropped
      BY <2>2 DEF chatting
    <3> QED
      BY <3>1 DEF ChatInv, Chat!TypeOK, HandlersAgree, OneWorks, OneBegan, Works, Begun, HasRecord
  <2> QED
    BY <2>1, <2>2 DEF GatewayNext, gatewayVars, OnlyCards, OnlyStatus, OnlyNames, OnlyTools, OnlyEvents
<1> QED
  BY <1>1, <1>2, PTL DEF GatewaySpec

\* A request that is submitted again is executed again only if the registry lost it: the
\* look-up missed the other submission, another session used the id, or its record was
\* dropped (chat_run_registry.start, get and _prune_terminal_records), whoever submits and
\* cancels what, and however many records the registry keeps.
THEOREM RequestsRunOnce == GatewaySpec => []RunsOnce
<1>1. ChatInv => RunsOnce
  BY DEF ChatInv, OneWorks, OneBegan, RunsOnce, Chat!RunsOnce, Works, Begun
<1> QED
  BY <1>1, ChatHolds, PTL

-----------------------------------------------------------------------------
(* What the gateway says of runs.  The status in session metadata tells    *)
(* the truth only together with the registry and with the runs it has      *)
(* lost track of, which is what the inductive invariant says.              *)

\* The registry has a run in flight as running unless its client cancelled it; as running
\* too it may have a run that is not told yet or was missed; what else it has is true.  A
\* dead process has neither runs nor records.
RegistryAgrees ==
    /\ ~up => Status!InFlight = {} /\ telling = {} /\ \A r \in Requests : record[r] = "none"
    /\ \A r \in Requests : state[r] = "in flight" /\ r \notin asked => record[r] = "running"
    /\ \A r \in Requests : record[r] = "running" => r \in Status!InFlight \cup telling \cup missed
    /\ \A r \in telling : state[r] \in Status!Outcomes \cup {"raised"}
    /\ \A r \in telling : state[r] = "raised" => r \in missed
    /\ \A r \in missed : state[r] \in {"raised", "dead"}

\* The outcomes it has are true.
RegistryIsRight == Status!OutcomeIsTrue

\* A session that says "running" has a last run in flight, or one that is missed, or will
\* be swept at the next start.
RunningIsMeant ==
    meta.status = "running" =>
        /\ meta.last \in Requests
        /\ meta.last \in Status!InFlight \cup missed \/ (~up /\ ~meta.card)

\* A session that says anything else has the runs in flight crossed by the one that wrote
\* it, and its last run is over.
OtherIsMeant ==
    meta.status # "running" => Status!InFlight \subseteq crossed /\ meta.last \notin Status!InFlight

\* A blocked run keeps its status and its card, also while the process is down.
BlockedStays ==
    meta.last \in Requests /\ state[meta.last] = "blocked" => meta.status = "blocked" /\ meta.card

\* A compaction knows of no run that began later, and goes on only if all that was in
\* flight then and still is was crossed.
CompactKnows ==
    /\ compact.since \subseteq {r \in Requests : state[r] # "none"}
    /\ compact.pc # "idle" /\ compact.saw # "running" => compact.since \cap Status!InFlight \subseteq crossed
    /\ compact.pc = "compacted" => compact.saw # "running"

\* The inductive invariant.
StatusInv ==
    Status!TypeOK /\ RegistryAgrees /\ RegistryIsRight /\ RunningIsMeant /\ OtherIsMeant /\ BlockedStays /\ CompactKnows

-----------------------------------------------------------------------------
\* The invariant gives what is told of runs and what compactions may do.
LEMMA StatusInvSuffices == StatusInv => Status!TypeOK /\ Status!StatusIsTrue /\ Status!CompactsBetweenRuns
<1> SUFFICES ASSUME StatusInv PROVE Status!StatusIsTrue /\ Status!CompactsBetweenRuns
  BY DEF StatusInv
<1> USE DEF StatusInv, Status!InFlight
<1>1. Status!RunningIsTrue
  BY DEF Status!RunningIsTrue, Status!Reported, RegistryAgrees, RunningIsMeant, Status!TypeOK
<1>2. Status!OverIsTrue
  BY DEF Status!OverIsTrue, Status!Reported, RegistryAgrees, OtherIsMeant
<1>3. Status!BlockedIsKept
  BY DEF Status!BlockedIsKept, BlockedStays, Status!TypeOK
<1>4. Status!CompactsBetweenRuns
  BY DEF Status!CompactsBetweenRuns, CompactKnows
<1> QED
  BY <1>1, <1>2, <1>3, <1>4 DEF Status!StatusIsTrue, RegistryIsRight

\* It holds at first.
LEMMA StatusInit == Status!Init => StatusInv
<1> SUFFICES ASSUME Status!Init PROVE StatusInv
  OBVIOUS
<1> USE DEF Status!Init, Status!InFlight
<1>1. Status!TypeOK
  BY DEF Status!TypeOK, Status!Idle
<1>2. RegistryAgrees /\ RegistryIsRight /\ RunningIsMeant /\ OtherIsMeant /\ BlockedStays
  BY DEF RegistryAgrees, RegistryIsRight, Status!OutcomeIsTrue, RunningIsMeant, OtherIsMeant, BlockedStays,
     Status!Outcomes
<1>3. CompactKnows
  BY DEF CompactKnows, Status!Idle
<1> QED
  BY <1>1, <1>2, <1>3 DEF StatusInv

\* A run begins.
LEMMA StartKeeps ==
  ASSUME StatusInv, NEW r \in Requests, NEW answers \in BOOLEAN, Status!Start(r, answers)
  PROVE  StatusInv'
<1> USE DEF StatusInv, Status!Start, Status!TypeOK, Status!InFlight, Status!Outcomes, Status!Terminal
<1>1. Status!TypeOK'
  OBVIOUS
<1>2. RegistryAgrees'
  <2>1. /\ state'[r] = "in flight" /\ record'[r] = "running" /\ state[r] = "none"
        /\ telling' = telling /\ asked' = asked /\ missed' = missed /\ telling \cup missed \subseteq Requests
        /\ \A q \in Requests \ {r} : state'[q] = state[q] /\ record'[q] = record[q]
        /\ up' /\ RegistryAgrees
    <3>1. /\ state' = [state EXCEPT ![r] = "in flight"] /\ record' = [record EXCEPT ![r] = "running"]
          /\ DOMAIN state = Requests /\ DOMAIN record = Requests /\ up' /\ RegistryAgrees /\ state[r] = "none"
          /\ telling' = telling /\ asked' = asked /\ missed' = missed /\ telling \cup missed \subseteq Requests
      OBVIOUS
    <3> HIDE DEF StatusInv, Status!Start, Status!TypeOK
    <3> QED
      BY <3>1
  <2> HIDE DEF StatusInv, Status!Start, Status!TypeOK
  <2>2. \A q \in Requests : state'[q] = "in flight" /\ q \notin asked' => record'[q] = "running"
    BY <2>1 DEF RegistryAgrees
  <2>3. \A q \in Requests : record'[q] = "running" => q \in (Status!InFlight \cup telling \cup missed)'
    BY <2>1 DEF RegistryAgrees
  <2>4. \A q \in telling' : state'[q] \in Status!Outcomes \cup {"raised"} /\ (state'[q] = "raised" => q \in missed')
    BY <2>1 DEF RegistryAgrees
  <2>5. \A q \in missed' : state'[q] \in {"raised", "dead"}
    BY <2>1 DEF RegistryAgrees
  <2> QED
    BY <2>1, <2>2, <2>3, <2>4, <2>5 DEF RegistryAgrees
<1>3. RegistryIsRight'
  BY DEF RegistryIsRight, Status!OutcomeIsTrue
<1>4. RunningIsMeant' /\ OtherIsMeant' /\ BlockedStays'
  BY DEF RunningIsMeant, OtherIsMeant, BlockedStays
<1>5. CompactKnows'
  BY DEF CompactKnows
<1> QED
  BY <1>1, <1>2, <1>3, <1>4, <1>5

\* A run ends and says how.
LEMMA ResultKeeps ==
  ASSUME StatusInv, NEW r \in Requests, NEW outcome \in Status!Outcomes, Status!Result(r, outcome)
  PROVE  StatusInv'
<1> USE DEF StatusInv, Status!Result, Status!TypeOK, Status!InFlight, Status!Outcomes, Status!Terminal
<1>1. Status!TypeOK'
  OBVIOUS
<1>2. RegistryAgrees'
  <2>1. /\ state'[r] = outcome /\ record'[r] = record[r] /\ state[r] = "in flight"
        /\ telling' = telling \cup {r} /\ asked' = asked /\ missed' = missed /\ telling \cup missed \subseteq Requests
        /\ \A q \in Requests \ {r} : state'[q] = state[q] /\ record'[q] = record[q]
        /\ up' /\ RegistryAgrees
    BY DEF RegistryAgrees
  <2> HIDE DEF StatusInv, Status!Result, Status!TypeOK
  <2>2. \A q \in Requests : state'[q] = "in flight" /\ q \notin asked' => record'[q] = "running"
    BY <2>1 DEF RegistryAgrees
  <2>3. \A q \in Requests : record'[q] = "running" => q \in (Status!InFlight \cup telling \cup missed)'
    BY <2>1 DEF RegistryAgrees
  <2>4. \A q \in telling' : state'[q] \in Status!Outcomes \cup {"raised"} /\ (state'[q] = "raised" => q \in missed')
    BY <2>1 DEF RegistryAgrees
  <2>5. \A q \in missed' : state'[q] \in {"raised", "dead"}
    BY <2>1 DEF RegistryAgrees
  <2> QED
    BY <2>1, <2>2, <2>3, <2>4, <2>5 DEF RegistryAgrees
<1>3. RegistryIsRight'
  BY DEF RegistryIsRight, Status!OutcomeIsTrue
<1>4. RunningIsMeant' /\ OtherIsMeant' /\ BlockedStays'
  BY DEF RunningIsMeant, OtherIsMeant, BlockedStays
<1>5. CompactKnows'
  BY DEF CompactKnows
<1> QED
  BY <1>1, <1>2, <1>3, <1>4, <1>5

\* A run raises or is cancelled: the session is not told.
LEMMA RaiseKeeps ==
  ASSUME StatusInv, NEW r \in Requests, Status!Raise(r)
  PROVE  StatusInv'
<1> USE DEF StatusInv, Status!Raise, Status!TypeOK, Status!InFlight, Status!Outcomes, Status!Terminal
<1>1. Status!TypeOK'
  OBVIOUS
<1>2. RegistryAgrees'
  <2>1. /\ state'[r] = "raised" /\ record'[r] = record[r] /\ state[r] = "in flight"
        /\ telling' = telling \cup {r} /\ asked' = asked /\ missed' = missed \cup {r} /\ telling \cup missed \subseteq Requests
        /\ \A q \in Requests \ {r} : state'[q] = state[q] /\ record'[q] = record[q]
        /\ up' /\ RegistryAgrees
    BY DEF RegistryAgrees
  <2> HIDE DEF StatusInv, Status!Raise, Status!TypeOK
  <2>2. \A q \in Requests : state'[q] = "in flight" /\ q \notin asked' => record'[q] = "running"
    BY <2>1 DEF RegistryAgrees
  <2>3. \A q \in Requests : record'[q] = "running" => q \in (Status!InFlight \cup telling \cup missed)'
    BY <2>1 DEF RegistryAgrees
  <2>4. \A q \in telling' : state'[q] \in Status!Outcomes \cup {"raised"} /\ (state'[q] = "raised" => q \in missed')
    BY <2>1 DEF RegistryAgrees
  <2>5. \A q \in missed' : state'[q] \in {"raised", "dead"}
    BY <2>1 DEF RegistryAgrees
  <2> QED
    BY <2>1, <2>2, <2>3, <2>4, <2>5 DEF RegistryAgrees
<1>3. RegistryIsRight'
  BY DEF RegistryIsRight, Status!OutcomeIsTrue
<1>4. RunningIsMeant' /\ OtherIsMeant' /\ BlockedStays'
  BY DEF RunningIsMeant, OtherIsMeant, BlockedStays
<1>5. CompactKnows'
  BY DEF CompactKnows
<1> QED
  BY <1>1, <1>2, <1>3, <1>4, <1>5

\* The registry is told.
LEMMA RecordKeeps ==
  ASSUME StatusInv, NEW r \in Requests, Status!Record(r)
  PROVE  StatusInv'
<1> USE DEF StatusInv, Status!Record, Status!TypeOK, Status!InFlight, Status!Outcomes, Status!Terminal, Status!Completed, Status!Failed
<1>1. Status!TypeOK'
  OBVIOUS
<1>2. RegistryAgrees'
  <2>1. /\ state' = state /\ r \in telling /\ (record'[r] \in Status!Terminal \cup {"none"} \/ state[r] = "raised")
        /\ telling' = telling \ {r} /\ asked' = asked /\ missed' = missed /\ telling \cup missed \subseteq Requests
        /\ \A q \in Requests \ {r} : state'[q] = state[q] /\ record'[q] = record[q]
        /\ up' /\ RegistryAgrees
    <3>1. RegistryAgrees /\ up'
      BY DEF RegistryAgrees
    <3>2. /\ state' = state /\ r \in telling /\ telling' = telling \ {r} /\ asked' = asked /\ missed' = missed
          /\ telling \cup missed \subseteq Requests
      OBVIOUS
    <3>3. /\ \A q \in Requests \ {r} : record'[q] = record[q]
          /\ record'[r] \in Status!Terminal \cup {"none"} \/ state[r] = "raised"
      OBVIOUS
    <3> QED
      BY <3>1, <3>2, <3>3
  <2> HIDE DEF StatusInv, Status!Record, Status!TypeOK
  <2>2. \A q \in Requests : state'[q] = "in flight" /\ q \notin asked' => record'[q] = "running"
    BY <2>1 DEF RegistryAgrees
  <2>3. \A q \in Requests : record'[q] = "running" => q \in (Status!InFlight \cup telling \cup missed)'
    BY <2>1 DEF RegistryAgrees
  <2>4. \A q \in telling' : state'[q] \in Status!Outcomes \cup {"raised"} /\ (state'[q] = "raised" => q \in missed')
    BY <2>1 DEF RegistryAgrees
  <2>5. \A q \in missed' : state'[q] \in {"raised", "dead"}
    BY <2>1 DEF RegistryAgrees
  <2> QED
    BY <2>1, <2>2, <2>3, <2>4, <2>5 DEF RegistryAgrees
<1>3. RegistryIsRight'
  <2>1. /\ \A q \in Requests \ {r} : record'[q] = record[q]
        /\ \/ record'[r] = record[r]
           \/ record'[r] = "completed" /\ state[r] \in Status!Outcomes \ {"failed"}
           \/ record'[r] = "failed"
        /\ state' = state /\ asked' = asked /\ state[r] \in Status!Outcomes \cup {"raised"}
    <3>1. state[r] \in Status!Outcomes \cup {"raised"}
      BY DEF RegistryAgrees
    <3>2. \A q \in Requests \ {r} : record'[q] = record[q]
      OBVIOUS
    <3>3. \/ record'[r] = record[r]
          \/ record'[r] = "completed" /\ state[r] \in Status!Outcomes \ {"failed"}
          \/ record'[r] = "failed"
      OBVIOUS
    <3> QED
      BY <3>1, <3>2, <3>3
  <2> HIDE DEF StatusInv, Status!Record, Status!TypeOK
  <2>2. RegistryIsRight
    BY DEF StatusInv
  <2> QED
    BY <2>1, <2>2 DEF RegistryIsRight, Status!OutcomeIsTrue
<1>4. RunningIsMeant' /\ OtherIsMeant' /\ BlockedStays'
  BY DEF RunningIsMeant, OtherIsMeant, BlockedStays
<1>5. CompactKnows'
  BY DEF CompactKnows
<1> QED
  BY <1>1, <1>2, <1>3, <1>4, <1>5

\* A client cancels a run, which then unwinds.
LEMMA CancelRunKeeps ==
  ASSUME StatusInv, NEW r \in Requests, Status!CancelRun(r)
  PROVE  StatusInv'
<1> USE DEF StatusInv, Status!CancelRun, Status!TypeOK, Status!InFlight, Status!Outcomes, Status!Terminal
<1>1. Status!TypeOK'
  OBVIOUS
<1>2. RegistryAgrees'
  BY DEF RegistryAgrees
<1>3. RegistryIsRight'
  BY DEF RegistryIsRight, Status!OutcomeIsTrue
<1>4. RunningIsMeant' /\ OtherIsMeant' /\ BlockedStays'
  BY DEF RunningIsMeant, OtherIsMeant, BlockedStays
<1>5. CompactKnows'
  BY DEF CompactKnows
<1> QED
  BY <1>1, <1>2, <1>3, <1>4, <1>5

\* A silent record fails.
LEMMA StaleKeeps ==
  ASSUME StatusInv, NEW r \in Requests, Status!Stale(r)
  PROVE  StatusInv'
<1> USE DEF StatusInv, Status!Stale, Status!TypeOK, Status!InFlight, Status!Outcomes, Status!Terminal
<1>1. Status!TypeOK'
  OBVIOUS
<1>2. RegistryAgrees'
  <2>1. /\ state' = state /\ r \notin Status!InFlight \cup telling /\ record'[r] = "failed"
        /\ telling' = telling /\ asked' = asked /\ missed' = missed /\ telling \cup missed \subseteq Requests
        /\ \A q \in Requests \ {r} : state'[q] = state[q] /\ record'[q] = record[q]
        /\ up' /\ RegistryAgrees
    BY DEF RegistryAgrees
  <2> HIDE DEF StatusInv, Status!Stale, Status!TypeOK
  <2>2. \A q \in Requests : state'[q] = "in flight" /\ q \notin asked' => record'[q] = "running"
    BY <2>1 DEF RegistryAgrees
  <2>3. \A q \in Requests : record'[q] = "running" => q \in (Status!InFlight \cup telling \cup missed)'
    BY <2>1 DEF RegistryAgrees
  <2>4. \A q \in telling' : state'[q] \in Status!Outcomes \cup {"raised"} /\ (state'[q] = "raised" => q \in missed')
    BY <2>1 DEF RegistryAgrees
  <2>5. \A q \in missed' : state'[q] \in {"raised", "dead"}
    BY <2>1 DEF RegistryAgrees
  <2> QED
    BY <2>1, <2>2, <2>3, <2>4, <2>5 DEF RegistryAgrees
<1>3. RegistryIsRight'
  BY DEF RegistryAgrees, RegistryIsRight, Status!OutcomeIsTrue
<1>4. RunningIsMeant' /\ OtherIsMeant' /\ BlockedStays'
  BY DEF RunningIsMeant, OtherIsMeant, BlockedStays
<1>5. CompactKnows'
  BY DEF CompactKnows
<1> QED
  BY <1>1, <1>2, <1>3, <1>4, <1>5

\* A record of a run that is over or cancelled is pruned.
LEMMA PruneKeeps ==
  ASSUME StatusInv, NEW r \in Requests, Status!Prune(r)
  PROVE  StatusInv'
<1> USE DEF StatusInv, Status!Prune, Status!TypeOK, Status!InFlight, Status!Outcomes, Status!Terminal
<1>1. Status!TypeOK'
  OBVIOUS
<1>2. RegistryAgrees'
  BY DEF RegistryAgrees
<1>3. RegistryIsRight'
  BY DEF RegistryIsRight, Status!OutcomeIsTrue
<1>4. RunningIsMeant' /\ OtherIsMeant' /\ BlockedStays'
  BY DEF RunningIsMeant, OtherIsMeant, BlockedStays
<1>5. CompactKnows'
  BY DEF CompactKnows
<1> QED
  BY <1>1, <1>2, <1>3, <1>4, <1>5

\* The process dies: what a session with a card says may be missed for good.
LEMMA CrashKeeps == ASSUME StatusInv, Status!Crash PROVE StatusInv'
<1> USE DEF StatusInv, Status!Crash, Status!TypeOK, Status!InFlight, Status!Outcomes, Status!Terminal
<1>1. Status!TypeOK'
  BY DEF Status!Idle
<1>2. RegistryAgrees' /\ RegistryIsRight'
  BY DEF RegistryAgrees, RegistryIsRight, Status!OutcomeIsTrue
<1>3. RunningIsMeant'
  BY DEF RunningIsMeant, RegistryAgrees
<1>4. OtherIsMeant' /\ BlockedStays'
  BY DEF OtherIsMeant, BlockedStays
<1>5. CompactKnows'
  BY DEF CompactKnows, Status!Idle
<1> QED
  BY <1>1, <1>2, <1>3, <1>4, <1>5

\* The sweep at startup touches only what says "running" and has no card.
LEMMA RestartKeeps == ASSUME StatusInv, Status!Restart PROVE StatusInv'
<1> USE DEF StatusInv, Status!Restart, Status!InFlight
<1>0. /\ meta'.last = meta.last /\ meta'.card = meta.card
      /\ meta'.status = IF meta.status = "running" /\ ~meta.card THEN "interrupted" ELSE meta.status
  BY DEF Status!Swept, Status!TypeOK
<1>1. Status!TypeOK'
  BY DEF Status!Swept, Status!TypeOK
<1>2. RegistryAgrees' /\ RegistryIsRight'
  BY DEF RegistryAgrees, RegistryIsRight, Status!OutcomeIsTrue
<1>3. RunningIsMeant'
  BY <1>0 DEF RunningIsMeant
<1>4. OtherIsMeant' /\ BlockedStays'
  BY <1>0 DEF OtherIsMeant, BlockedStays, RegistryAgrees
<1>5. CompactKnows'
  BY DEF CompactKnows
<1> QED
  BY <1>1, <1>2, <1>3, <1>4, <1>5

\* A manual compaction that reads the status knows the runs in flight, and that a status
\* other than "running" means they were crossed.
LEMMA ReadStatusKeeps == ASSUME StatusInv, Status!ReadStatus PROVE StatusInv'
<1> USE DEF StatusInv, Status!ReadStatus, Status!InFlight
<1>1. Status!TypeOK'
  BY DEF Status!TypeOK
<1>2. RegistryAgrees' /\ RegistryIsRight' /\ RunningIsMeant' /\ OtherIsMeant' /\ BlockedStays'
  BY DEF RegistryAgrees, RegistryIsRight, Status!OutcomeIsTrue, RunningIsMeant, OtherIsMeant, BlockedStays
<1>3. CompactKnows'
  BY DEF CompactKnows, OtherIsMeant
<1> QED
  BY <1>1, <1>2, <1>3

\* It goes on with that, or gives up.
LEMMA CompactKeeps == ASSUME StatusInv, Status!Compact PROVE StatusInv'
<1> USE DEF StatusInv, Status!Compact, Status!MayCompact, Status!Idle
<1>1. Status!TypeOK'
  BY DEF Status!TypeOK
<1>2. RegistryAgrees' /\ RegistryIsRight' /\ RunningIsMeant' /\ OtherIsMeant' /\ BlockedStays'
  BY DEF RegistryAgrees, RegistryIsRight, Status!OutcomeIsTrue, RunningIsMeant, OtherIsMeant, BlockedStays, Status!InFlight
<1>3. (compact'.since = compact.since /\ compact'.saw = compact.saw) \/ compact' = Status!Idle
  BY DEF Status!TypeOK
<1>4. CompactKnows'
  BY <1>3 DEF CompactKnows, Status!TypeOK, Status!InFlight
<1> QED
  BY <1>1, <1>2, <1>4

\* It answers.
LEMMA RespondKeeps == ASSUME StatusInv, Status!Respond PROVE StatusInv'
<1> USE DEF StatusInv, Status!Respond, Status!Idle
<1>1. Status!TypeOK'
  BY DEF Status!TypeOK
<1>2. RegistryAgrees' /\ RegistryIsRight' /\ RunningIsMeant' /\ OtherIsMeant' /\ BlockedStays'
  BY DEF RegistryAgrees, RegistryIsRight, Status!OutcomeIsTrue, RunningIsMeant, OtherIsMeant, BlockedStays, Status!InFlight
<1>3. CompactKnows'
  BY DEF CompactKnows
<1> QED
  BY <1>1, <1>2, <1>3

\* Every step keeps the invariant.
LEMMA StatusNext == StatusInv /\ [Status!Next]_running => StatusInv'
<1> SUFFICES ASSUME StatusInv, [Status!Next]_running PROVE StatusInv'
  OBVIOUS
<1>1. ASSUME NEW r \in Requests, NEW answers \in BOOLEAN, Status!Start(r, answers) PROVE StatusInv'
  BY <1>1, StartKeeps
<1>2. ASSUME NEW r \in Requests, NEW outcome \in Status!Outcomes, Status!Result(r, outcome) PROVE StatusInv'
  BY <1>2, ResultKeeps
<1>3. ASSUME NEW r \in Requests, Status!Raise(r) PROVE StatusInv'
  BY <1>3, RaiseKeeps
<1>4. ASSUME NEW r \in Requests, Status!Prune(r) PROVE StatusInv'
  BY <1>4, PruneKeeps
<1>5. ASSUME NEW r \in Requests, Status!Record(r) \/ Status!CancelRun(r) \/ Status!Stale(r) PROVE StatusInv'
  BY <1>5, RecordKeeps, CancelRunKeeps, StaleKeeps
<1>6. CASE UNCHANGED running
  BY ZenonT(60), <1>6 DEF running, StatusInv, Status!TypeOK, RegistryAgrees, RegistryIsRight, Status!OutcomeIsTrue,
     RunningIsMeant, OtherIsMeant, BlockedStays, CompactKnows, Status!InFlight
<1> QED
  BY <1>1, <1>2, <1>3, <1>4, <1>5, <1>6, CrashKeeps, RestartKeeps, ReadStatusKeeps,
     CompactKeeps, RespondKeeps DEF Status!Next

\* The invariant holds throughout.
LEMMA StatusInvHolds == Status!Init /\ [][Status!Next]_running => []StatusInv
BY StatusInit, StatusNext, PTL

-----------------------------------------------------------------------------
(* The other scenes leave the status as it is.                             *)

LEMMA StatusIsRunStatus == GatewaySpec => Status!Init /\ [][Status!Next]_running
<1>1. GatewayInit => Status!Init
  BY DEF GatewayInit
<1>2. [GatewayNext]_gatewayVars => [Status!Next]_running
  BY DEF GatewayNext, gatewayVars, OnlyCards, OnlyChat, OnlyStatus, OnlyNames, OnlyTools, OnlyEvents
<1> QED
  BY <1>1, <1>2, PTL DEF GatewaySpec

\* What clients are told of a run is true, whatever overlaps, is pruned or restarts.
THEOREM StatusStaysTrue == GatewaySpec => []StatusIsTrue
<1>1. StatusInv => StatusIsTrue
  BY StatusInvSuffices DEF StatusIsTrue
<1> QED
  BY <1>1, StatusIsRunStatus, StatusInvHolds, PTL

\* No compaction works on the history of a run that it could have known of.
THEOREM CompactionsKeepOff == GatewaySpec => []CompactsBetweenRuns
<1>1. StatusInv => CompactsBetweenRuns
  BY StatusInvSuffices DEF CompactsBetweenRuns
<1> QED
  BY <1>1, StatusIsRunStatus, StatusInvHolds, PTL

-----------------------------------------------------------------------------
(* The name of a session.  A copy of the metadata that is to be written    *)
(* back has the member's name, and a title in it or under way is of the    *)
(* first question, or of one that was overtaken.                           *)

Metadata == [custom : Nat, generated : Nat]

TitleCalls == [pc : {"idle", "waiting", "started", "reading", "thinking", "storing", "stored", "done"},
               force : BOOLEAN, about : Nat, on : Names!Calls]

NamesTyped ==
    /\ renames \in Nat /\ question \in Nat
    /\ names \in Metadata /\ portal \in Metadata /\ posts \in Seq(Metadata) /\ muddled \in BOOLEAN
    /\ loop \in [op : {"free", "record", "schedule", "edited", "drop"}, copy : Metadata]
    /\ call \in [Names!Calls -> TitleCalls]

\* The name that the Portal was sent last, or that it has if all arrived.
Sent == IF posts = <<>> THEN portal ELSE posts[Len(posts)]

\* The member's name is in the metadata, in a copy, and with the Portal or under way to it.
CustomIsKept ==
    /\ names.custom = renames
    /\ loop.op \in {"record", "drop"} => loop.copy.custom = renames
    /\ renames # 0 =>
         /\ \A c \in Names!Calls : call[c].pc \in {"storing", "stored"} => c \in outrun
         /\ outrun = {} /\ ~muddled => Sent = Names!Custom(renames)

Current == {0, question} \cup overtaken

TitlesAreCurrent ==
    /\ \A c \in Names!Calls :
         /\ call[c].about \in Current
         /\ call[c].pc \in {"idle", "done"} => call[c].about = 0
    /\ loop.op \notin {"edited", "drop"} => names.generated \in Current
    /\ loop.op = "record" => loop.copy.generated \in Current

NamesInv == NamesTyped /\ CustomIsKept /\ TitlesAreCurrent

\* What is sent is under way.
LEMMA SentLast ==
  ASSUME NamesTyped, NEW n \in Metadata, Names!Send(n)
  PROVE  posts' \in Seq(Metadata) /\ Sent' = n /\ portal' = portal /\ muddled' = muddled
<1>1. posts \in Seq(Metadata) /\ posts' = Append(posts, n) /\ portal' = portal /\ muddled' = muddled
  BY DEF NamesTyped, Names!Send
<1>2. posts' \in Seq(Metadata) /\ Len(posts') = Len(posts) + 1 /\ posts'[Len(posts) + 1] = n
      /\ Len(posts) \in Nat
  <2> HIDE DEF Metadata
  <2> QED
    BY <1>1
<1>3. posts' # <<>>
  BY <1>2
<1> QED
  BY <1>1, <1>2, <1>3 DEF Sent

\* Updates of the Portal are sent and arrive, or are lost or overtaken.
LEMMA PortalKeepsNames ==
  ASSUME NamesInv, Names!Carry \/ Names!Arrive \/ \E i \in DOMAIN posts : Names!Muddle(i)
  PROVE  NamesInv'
<1>1. ASSUME posts' \in Seq(Metadata), portal' \in Metadata, muddled' \in BOOLEAN,
             UNCHANGED <<question, names, loop, call, renames, overtaken, outrun>>,
             renames # 0 /\ outrun = {} /\ ~muddled' => Sent' = Names!Custom(renames)
      PROVE  NamesInv'
  <2>1. NamesTyped'
    BY <1>1 DEF NamesInv, NamesTyped
  <2>2. CustomIsKept'
    BY <1>1 DEF NamesInv, CustomIsKept
  <2>3. TitlesAreCurrent'
    BY <1>1 DEF NamesInv, TitlesAreCurrent, Current
  <2> QED
    BY <2>1, <2>2, <2>3 DEF NamesInv
<1>2. /\ posts \in Seq(Metadata) /\ portal \in Metadata /\ muddled \in BOOLEAN
      /\ renames # 0 /\ outrun = {} /\ ~muddled => Sent = Names!Custom(renames)
      /\ names \in Metadata /\ names.custom = renames /\ renames \in Nat
  BY DEF NamesInv, NamesTyped, CustomIsKept
<1>3. CASE Names!Carry
  <2>1. Names!Shown \in Metadata /\ (renames # 0 => Names!Shown = Names!Custom(renames))
    BY <1>2 DEF Names!Shown, Names!Custom, Names!Title, Metadata
  <2>2. Names!Send(Names!Shown) /\ UNCHANGED <<question, names, loop, call, renames, overtaken, outrun>>
    BY <1>3 DEF Names!Carry
  <2>3. posts' \in Seq(Metadata) /\ Sent' = Names!Shown /\ portal' = portal /\ muddled' = muddled
    BY <2>1, <2>2, SentLast DEF NamesInv
  <2> QED
    BY <1>1, <1>2, <2>1, <2>2, <2>3
<1>4. CASE Names!Arrive
  <2>1. /\ posts # <<>> /\ portal' = Head(posts) /\ posts' = Tail(posts) /\ muddled' = muddled
        /\ UNCHANGED <<question, names, loop, call, renames, overtaken, outrun>>
    BY <1>4 DEF Names!Arrive
  <2>2. posts' \in Seq(Metadata) /\ portal' \in Metadata
    <3> HIDE DEF Metadata
    <3> QED
      BY <1>2, <2>1
  <2>3. Sent' = Sent
    <3>1. CASE Len(posts) = 1
      BY <1>2, <2>1, <3>1 DEF Sent
    <3>2. CASE Len(posts) # 1
      <4>1. Len(posts) > 1 /\ Len(posts) \in Nat
        <5>1. posts \in Seq(Metadata) /\ posts # <<>>
          BY <1>2, <2>1
        <5> HIDE DEF Metadata
        <5> QED
          BY <3>2, <5>1, EmptySeq
      <4>2. Len(posts') = Len(posts) - 1 /\ posts'[Len(posts) - 1] = posts[Len(posts)]
        BY <1>2, <2>1, <4>1
      <4>3. posts' # <<>>
        BY <4>1, <4>2
      <4> QED
        BY <2>1, <4>2, <4>3 DEF Sent
    <3> QED
      BY <3>1, <3>2
  <2> QED
    BY <1>1, <1>2, <2>1, <2>2, <2>3
<1>5. ASSUME NEW i \in DOMAIN posts, Names!Muddle(i) PROVE NamesInv'
  <2>1. /\ portal' = portal \/ portal' = posts[i]
        /\ posts' = SubSeq(posts, 1, i - 1) \o SubSeq(posts, i + 1, Len(posts)) /\ muddled' = TRUE
        /\ UNCHANGED <<question, names, loop, call, renames, overtaken, outrun>>
    BY <1>5 DEF Names!Muddle
  <2>2. posts' \in Seq(Metadata) /\ posts[i] \in Metadata
    <3> HIDE DEF Metadata
    <3>1. Len(posts) \in Nat /\ i \in 1..Len(posts) /\ posts[i] \in Metadata
      BY <1>2
    <3>2. SubSeq(posts, 1, i - 1) \in Seq(Metadata) /\ SubSeq(posts, i + 1, Len(posts)) \in Seq(Metadata)
      BY <1>2, <3>1, SubSeqProperties
    <3> QED
      BY <2>1, <3>1, <3>2
  <2> QED
    BY <1>1, <1>2, <2>1, <2>2
<1> QED
  BY <1>3, <1>4, <1>5

\* Operations of the event loop.
LEMMA LoopKeepsNames ==
  ASSUME NamesInv, Names!Rename \/ Names!RecordReads \/ Names!RecordWrites \/ Names!Edit \/ Names!Drop
  PROVE  NamesInv'
<1> USE DEF Names!Free, Names!Unnamed, Names!Custom, Metadata
<1>1. ASSUME Names!Rename PROVE NamesInv'
  <2>0. posts' \in Seq(Metadata) /\ Sent' = Names!Custom(renames + 1) /\ portal' = portal /\ muddled' = muddled
    <3>1. Names!Custom(renames + 1) \in Metadata /\ NamesTyped
      BY DEF NamesInv, NamesTyped
    <3>2. Names!Send(Names!Custom(renames + 1))
      BY <1>1 DEF Names!Rename
    <3> HIDE DEF Names!Custom, Metadata
    <3> QED
      BY <3>1, <3>2, SentLast
  <2> USE <1>1 DEF Names!Rename
  <2>1. NamesTyped'
    <3>1. names' \in Metadata /\ renames' \in Nat
      BY DEF NamesInv, NamesTyped
    <3>2. NamesTyped /\ UNCHANGED <<question, loop, call, overtaken>>
      BY DEF NamesInv
    <3> HIDE DEF Names!Rename, Names!Free, Names!Unnamed, Names!Custom, Metadata
    <3> QED
      BY <2>0, <3>1, <3>2 DEF NamesTyped
  <2>2. CustomIsKept'
    BY <2>0 DEF NamesInv, NamesTyped, CustomIsKept
  <2>3. TitlesAreCurrent'
    BY DEF NamesInv, NamesTyped, TitlesAreCurrent, Current, Names!InFlight
  <2> QED
    BY <2>1, <2>2, <2>3 DEF NamesInv
<1>2. ASSUME Names!RecordReads PROVE NamesInv'
  <2> USE <1>2 DEF Names!RecordReads
  <2>1. NamesTyped'
    BY DEF NamesInv, NamesTyped
  <2>2. CustomIsKept'
    BY DEF NamesInv, NamesTyped, CustomIsKept, Sent
  <2>3. TitlesAreCurrent'
    BY DEF NamesInv, NamesTyped, TitlesAreCurrent, Current, Names!InFlight
  <2> QED
    BY <2>1, <2>2, <2>3 DEF NamesInv
<1>3. ASSUME Names!RecordWrites PROVE NamesInv'
  <2> USE <1>3 DEF Names!RecordWrites
  <2>1. NamesTyped'
    BY DEF NamesInv, NamesTyped
  <2>2. CustomIsKept'
    BY DEF NamesInv, NamesTyped, CustomIsKept, Sent
  <2>3. TitlesAreCurrent'
    BY DEF NamesInv, NamesTyped, TitlesAreCurrent, Current, Names!InFlight
  <2> QED
    BY <2>1, <2>2, <2>3 DEF NamesInv
<1>4. ASSUME Names!Edit PROVE NamesInv'
  <2>1. /\ UNCHANGED <<names, call, portal, posts, muddled, renames, outrun>>
        /\ question' = question + 1 /\ loop' = [op |-> "edited", copy |-> Names!Unnamed]
        /\ overtaken' = overtaken \cup ({call[c].about : c \in Names!InFlight} \ {0})
    BY <1>4 DEF Names!Edit
  <2>2. NamesTyped'
    BY <2>1 DEF NamesInv, NamesTyped
  <2>3. CustomIsKept'
    BY <2>1 DEF NamesInv, NamesTyped, CustomIsKept, Sent
  <2>4. \A c \in Names!Calls : call[c].pc \in {"idle", "done"} => call[c].about = 0
    BY DEF NamesInv, TitlesAreCurrent
  <2>5. ASSUME NEW c \in Names!Calls PROVE call[c].about \in Current'
    <3>1. CASE call[c].about = 0
      BY <3>1 DEF Current
    <3>2. CASE call[c].about # 0
      <4>1. c \in Names!InFlight
        BY <2>4, <3>2 DEF Names!InFlight
      <4>2. call[c].about \in overtaken'
        BY <2>1, <3>2, <4>1
      <4> QED
        BY <4>2 DEF Current
    <3> QED
      BY <3>1, <3>2
  <2>6. loop'.op = "edited" /\ call' = call
    BY <2>1
  <2>7. TitlesAreCurrent'
    BY <2>4, <2>5, <2>6 DEF TitlesAreCurrent
  <2> QED
    BY <2>2, <2>3, <2>7 DEF NamesInv
<1>5. ASSUME Names!Drop PROVE NamesInv'
  <2> USE <1>5 DEF Names!Drop, Names!DropReads
  <2>1. NamesTyped'
    <3>0. names \in Metadata /\ loop \in [op : {"free", "record", "schedule", "edited", "drop"}, copy : Metadata]
      BY DEF NamesInv, NamesTyped
    <3>1. names' \in Metadata /\ loop' \in [op : {"free", "record", "schedule", "edited", "drop"}, copy : Metadata]
      BY <3>0
    <3>2. NamesTyped /\ UNCHANGED <<question, call, portal, posts, muddled, renames, overtaken, outrun>>
      BY DEF NamesInv
    <3> HIDE DEF Names!Drop, Names!DropReads, Names!Free, Names!Unnamed, Metadata
    <3> QED
      BY <3>1, <3>2 DEF NamesTyped
  <2>2. CustomIsKept'
    BY DEF NamesInv, NamesTyped, CustomIsKept, Sent
  <2>3. TitlesAreCurrent'
    BY DEF NamesInv, NamesTyped, TitlesAreCurrent, Current, Names!InFlight
  <2> QED
    BY <2>1, <2>2, <2>3 DEF NamesInv
<1> QED
  BY <1>1, <1>2, <1>3, <1>4, <1>5

\* A call goes on, or ends.
LEMMA CallGoes ==
  ASSUME NamesTyped, NEW c \in Names!Calls,
         NEW to \in {"started", "reading", "storing", "stored", "done"}, Names!Goes(c, to)
  PROVE  /\ call' \in [Names!Calls -> TitleCalls]
         /\ call'[c].pc = to
         /\ call'[c].about = IF to = "done" THEN 0 ELSE call[c].about
         /\ \A d \in Names!Calls \ {c} : call'[d] = call[d]
BY DEF NamesTyped, TitleCalls, Names!Goes, Names!At

\* Title calls, from whatever thread.
LEMMA CallsKeepNames ==
  ASSUME NamesInv, NEW c \in Names!Calls,
         \/ Names!Schedule
         \/ Names!Ask(c) \/ Names!Begin(c) \/ Names!ReadHistory(c) \/ Names!Reply(c) \/ Names!Store(c)
         \/ Names!Publish(c)
  PROVE  NamesInv'
<1> DEFINE Kept(d) ==
      /\ call' \in [Names!Calls -> TitleCalls]
      /\ \A b \in Names!Calls \ {d} : call'[b] = call[b]
      /\ call'[d].about \in Current
      /\ call'[d].pc \in {"idle", "done"} => call'[d].about = 0
<1> USE DEF Names!Free, Names!Unnamed
<1>1. ASSUME NEW d \in Names!Calls, Kept(d), UNCHANGED <<question, names, renames, overtaken, outrun, portal, posts, muddled>>,
             loop' = loop \/ (loop' = Names!Free /\ loop.op = "schedule"),
             call'[d].pc \in {"storing", "stored"} => names.custom = 0
      PROVE  NamesInv'
  <2>1. NamesTyped'
    BY <1>1 DEF NamesInv, NamesTyped, Metadata
  <2>2. CustomIsKept'
    BY <1>1 DEF NamesInv, NamesTyped, CustomIsKept, Sent, TitleCalls
  <2>3. Current' = Current
    BY <1>1 DEF Current
  <2>4. ASSUME NEW b \in Names!Calls
        PROVE  call'[b].about \in Current /\ (call'[b].pc \in {"idle", "done"} => call'[b].about = 0)
    BY <1>1 DEF NamesInv, TitlesAreCurrent
  <2>5. /\ loop'.op \notin {"edited", "drop"} => names'.generated \in Current
        /\ loop'.op = "record" => loop'.copy.generated \in Current
    BY <1>1 DEF NamesInv, TitlesAreCurrent
  <2>6. TitlesAreCurrent'
    BY <2>3, <2>4, <2>5 DEF TitlesAreCurrent
  <2> QED
    BY <2>1, <2>2, <2>6 DEF NamesInv
<1>2. ASSUME NEW d \in Names!Calls, NEW to \in {"started", "reading", "storing", "stored", "done"}, Names!Goes(d, to)
      PROVE  Kept(d) /\ call'[d].pc = to
  <2>1. call[d].about \in Current
    BY <1>2 DEF NamesInv, TitlesAreCurrent
  <2> QED
    BY <1>2, <2>1, CallGoes DEF NamesInv, Current
<1>3. ASSUME Names!Schedule PROVE NamesInv'
  <2>1. CASE call' = call
    <3>1. Kept(c)
      BY <2>1 DEF NamesInv, NamesTyped, TitlesAreCurrent
    <3>2. call[c].pc \in {"storing", "stored"} => (names.custom = 0 \/ c \in outrun)
      BY DEF NamesInv, CustomIsKept
    <3>3. NamesTyped' /\ CustomIsKept' /\ TitlesAreCurrent'
      BY <1>3, <2>1 DEF Names!Schedule, NamesInv, NamesTyped, CustomIsKept, Sent, TitlesAreCurrent, Current, Metadata
    <3> QED
      BY <3>3 DEF NamesInv
  <2>2. CASE \E d \in Background : Names!Goes(d, "started")
    <3>1. PICK d \in Names!Calls : Names!Goes(d, "started")
      BY <2>2 DEF Names!Calls
    <3> HIDE DEF Kept
    <3> QED
      BY <1>1, <1>2, <1>3, <3>1 DEF Names!Schedule
  <2> QED
    BY <1>3, <2>1, <2>2 DEF Names!Schedule
<1>4. ASSUME Names!Ask(c) PROVE NamesInv'
  <2>3. /\ question' = question /\ names' = names /\ renames' = renames /\ overtaken' = overtaken
        /\ outrun' = outrun /\ portal' = portal /\ posts' = posts /\ muddled' = muddled /\ loop' = loop
    BY <1>4 DEF Names!Ask
  <2>1. CASE call[c].pc = "idle"
    <3>1. PICK force \in BOOLEAN, b \in Names!Calls :
             \/ call' = [call EXCEPT ![c] = [@ EXCEPT !.pc = "started", !.force = force]]
             \/ call' = [call EXCEPT ![c] = [@ EXCEPT !.pc = "waiting", !.force = force, !.on = b]]
      BY <1>4, <2>1 DEF Names!Ask, Names!InFlight
    <3>2. /\ call' \in [Names!Calls -> TitleCalls]
          /\ \A d \in Names!Calls \ {c} : call'[d] = call[d]
          /\ call'[c].about = call[c].about
          /\ call'[c].pc \in {"started", "waiting"}
      <4>1. call[c] \in TitleCalls /\ call \in [Names!Calls -> TitleCalls]
        BY DEF NamesInv, NamesTyped
      <4>2. PICK to \in TitleCalls :
              /\ call' = [call EXCEPT ![c] = to]
              /\ to.about = call[c].about /\ to.pc \in {"started", "waiting"}
        <5>1. /\ [call[c] EXCEPT !.pc = "started", !.force = force] \in TitleCalls
              /\ [call[c] EXCEPT !.pc = "waiting", !.force = force, !.on = b] \in TitleCalls
          BY <4>1 DEF TitleCalls
        <5> QED
          BY <3>1, <4>1, <5>1 DEF TitleCalls
      <4> QED
        BY <4>1, <4>2
    <3>3. Kept(c)
      BY <3>2 DEF NamesInv, TitlesAreCurrent
    <3>4. call'[c].pc \notin {"storing", "stored"}
      BY <3>2
    <3> HIDE DEF Kept
    <3> QED
      BY <1>1, <2>3, <3>3, <3>4
  <2>2. CASE Names!Goes(c, "started") \/ Names!Goes(c, "done")
    <3> HIDE DEF Kept
    <3> QED
      BY <1>1, <1>2, <2>2, <2>3
  <2> QED
    BY <1>4, <2>1, <2>2 DEF Names!Ask
<1>5. ASSUME Names!Begin(c) PROVE NamesInv'
  <2>1. Names!Goes(c, "reading") \/ Names!Goes(c, "done")
    BY <1>5 DEF Names!Begin
  <2> HIDE DEF Kept
  <2> QED
    BY <1>1, <1>2, <1>5, <2>1 DEF Names!Begin
<1>6. ASSUME Names!ReadHistory(c) PROVE NamesInv'
  <2>1. Kept(c) /\ call'[c].pc = "thinking"
    BY <1>6 DEF Names!ReadHistory, NamesInv, NamesTyped, TitleCalls, Current
  <2> HIDE DEF Kept
  <2> QED
    BY <1>1, <1>6, <2>1 DEF Names!ReadHistory
<1>7. ASSUME Names!Reply(c) PROVE NamesInv'
  <2>1. Names!Goes(c, "done") \/ (Names!Goes(c, "storing") /\ names.custom = 0)
    BY <1>7 DEF Names!Reply, Names!MayStore
  <2> HIDE DEF Kept
  <2> QED
    BY <1>1, <1>2, <1>7, <2>1 DEF Names!Reply
<1>8. ASSUME Names!Store(c) PROVE NamesInv'
  <2>1. Kept(c) /\ call'[c].pc = "stored"
    BY <1>2, <1>8 DEF Names!Store
  <2>2. names' = [names EXCEPT !.generated = call[c].about] /\ call[c].pc = "storing"
        /\ UNCHANGED <<question, loop, portal, posts, muddled, renames, overtaken, outrun>>
    BY <1>8 DEF Names!Store, Names!Stored
  <2>3. NamesTyped'
    BY <2>1, <2>2 DEF NamesInv, NamesTyped, Metadata, TitleCalls
  <2>4. CustomIsKept'
    BY <2>1, <2>2 DEF NamesInv, NamesTyped, Metadata, CustomIsKept, Sent
  <2>5. TitlesAreCurrent'
    BY <2>1, <2>2 DEF NamesInv, NamesTyped, Metadata, TitlesAreCurrent, Current
  <2> QED
    BY <2>3, <2>4, <2>5 DEF NamesInv
<1>9. ASSUME Names!Publish(c) PROVE NamesInv'
  <2>1. Kept(c) /\ call'[c].pc = "done"
    BY <1>2, <1>9 DEF Names!Publish
  <2>0. Names!Send(Names!Title(call[c].about)) /\ call[c].pc = "stored"
        /\ UNCHANGED <<question, names, loop, renames, overtaken, outrun>>
    BY <1>9 DEF Names!Publish
  <2>2. /\ posts' \in Seq(Metadata) /\ portal' = portal /\ muddled' = muddled /\ call[c].pc = "stored"
        /\ UNCHANGED <<question, names, loop, renames, overtaken, outrun>>
    <3>1. Names!Title(call[c].about) \in Metadata /\ NamesTyped
      BY DEF NamesInv, NamesTyped, Metadata, TitleCalls, Names!Title
    <3> HIDE DEF Metadata, Kept
    <3> QED
      BY <2>0, <3>1, SentLast
  <2>3. NamesTyped'
    BY <2>1, <2>2 DEF NamesInv, NamesTyped, Metadata, TitleCalls, Names!Title
  <2>4. CustomIsKept'
    BY <2>1, <2>2 DEF NamesInv, NamesTyped, CustomIsKept
  <2>5. TitlesAreCurrent'
    BY <2>1, <2>2 DEF NamesInv, NamesTyped, TitlesAreCurrent, Current
  <2> QED
    BY <2>3, <2>4, <2>5 DEF NamesInv
<1> QED
  BY <1>3, <1>4, <1>5, <1>6, <1>7, <1>8, <1>9

\* The name a member gave is never lost, and a title is of the first question there is or
\* of one that was overtaken, for any number of title calls, renames and edits.
THEOREM NamesStayRight == GatewaySpec => []NamesAreRight
<1>1. GatewayInit => NamesInv
  <2> SUFFICES ASSUME Names!Init PROVE NamesInv
    BY DEF GatewayInit
  <2> USE DEF Names!Init, Names!Free, Names!Unnamed, Names!At
  <2>0. <<>> \in Seq(Metadata)
    OBVIOUS
  <2>1. NamesTyped
    <3>1. /\ renames \in Nat /\ question \in Nat /\ names \in Metadata /\ portal \in Metadata /\ muddled \in BOOLEAN
          /\ loop \in [op : {"free", "record", "schedule", "edited", "drop"}, copy : Metadata]
          /\ call \in [Names!Calls -> TitleCalls]
      BY DEF Metadata, TitleCalls
    <3>2. posts = <<>>
      OBVIOUS
    <3> QED
      BY <2>0, <3>1, <3>2 DEF NamesTyped
  <2>2. CustomIsKept
    BY DEF CustomIsKept, Sent
  <2>3. TitlesAreCurrent
    BY DEF TitlesAreCurrent, Current
  <2> QED
    BY <2>1, <2>2, <2>3 DEF NamesInv
<1>2. NamesInv /\ [GatewayNext]_gatewayVars => NamesInv'
  <2> SUFFICES ASSUME NamesInv, Names!Next \/ UNCHANGED naming PROVE NamesInv'
    BY DEF GatewayNext, gatewayVars, OnlyCards, OnlyChat, OnlyStatus, OnlyTools, OnlyEvents
  <2>1. CASE UNCHANGED naming
    BY <2>1 DEF naming, NamesInv, NamesTyped, CustomIsKept, Sent, TitlesAreCurrent, Current
  <2>2. CASE Names!Schedule
    <3>1. CASE Names!Calls = {}
      BY <2>2, <3>1 DEF Names!Schedule, Names!Calls, NamesInv, NamesTyped, CustomIsKept, Sent, TitlesAreCurrent,
           Current, Metadata, Names!Free, Names!Unnamed
    <3>2. CASE Names!Calls # {}
      BY <2>2, <3>2, CallsKeepNames
    <3> QED
      BY <3>1, <3>2
  <2> QED
    BY <2>1, <2>2, LoopKeepsNames, PortalKeepsNames, CallsKeepNames DEF Names!Next
<1>3. NamesInv => NamesAreRight
  BY DEF NamesInv, CustomIsKept, Sent, TitlesAreCurrent, Current, NamesAreRight, Names!NamesAreRight, Names!CustomNameSticks,
     Names!TitleIsOfFirstTurn, Names!Free
<1> QED
  BY <1>1, <1>2, <1>3, PTL DEF GatewaySpec

-----------------------------------------------------------------------------
(* The tool tasks of a session.  What is queued is later than what was     *)
(* served, the queue is in the order of submission, and there is one       *)
(* processor, marked as such.                                              *)

Served == {i \in Tools!Items : item[i] \notin {"none", "queued"}}

QueueInOrder ==
    /\ queue \in Seq(Tools!Items)
    /\ \A m, n \in DOMAIN queue : m < n => queue[m] < queue[n]
    /\ \A i \in Tools!Items : item[i] = "queued" <=> \E n \in DOMAIN queue : queue[n] = i

OneProcessor ==
    /\ proc \subseteq Tools!Items \cup {0} /\ busy = (proc # {})
    /\ \A m, n \in proc : m = n
    /\ \A i \in Tools!Items : item[i] = "executing" <=> i \in proc

ToolsInv ==
    /\ item \in [Tools!Items -> {"none", "queued", "executing", "result", "error", "lost"}]
    /\ \E k \in 0..MaxItems : Tools!Submitted = 1..k
    /\ QueueInOrder /\ OneProcessor
    /\ \A i \in Tools!Items, j \in Served :
         /\ item[i] = "queued" => j < i
         /\ item[i] = "executing" => j <= i

LEMMA ItemsAreNumbers == Tools!Items \subseteq Nat /\ Tools!Items = 1..MaxItems /\ MaxItems \in Nat
BY GatewayAssumption DEF Tools!Items

LEMMA ToolsCardinality == \A S : Tools!Cardinality(S) = Cardinality(S)
BY DEF Tools!Cardinality, Cardinality

\* The processor takes the next item, or ends.
LEMMA ServeKeeps ==
  ASSUME ToolsInv, NEW p \in proc, NEW items \in [Tools!Items -> {"none", "queued", "executing", "result", "error", "lost"}],
         \A i \in Tools!Items \ {p} : items[i] = item[i],
         p \in Tools!Items => items[p] \in {"result", "error"},
         Tools!Serve(p, items)
  PROVE  ToolsInv'
<1>1. /\ p \in Tools!Items \cup {0} /\ proc = {p} /\ 0 \notin Tools!Items
      /\ \A i \in Tools!Items : item[i] = "executing" <=> i = p
  <2>1. p \in Tools!Items \cup {0} /\ 0 \notin Tools!Items
    BY ItemsAreNumbers DEF ToolsInv, OneProcessor
  <2>2. proc = {p}
    BY DEF ToolsInv, OneProcessor
  <2>3. \A i \in Tools!Items : item[i] = "executing" <=> i \in proc
    BY DEF ToolsInv, OneProcessor
  <2> QED
    BY <2>1, <2>2, <2>3
<1>2. /\ \A i \in Tools!Items : (items[i] = "none" <=> item[i] = "none") /\ (items[i] = "queued" <=> item[i] = "queued")
      /\ \A i \in Tools!Items : items[i] # "executing"
  BY <1>1
<1>3. CASE queue = <<>>
  <2>1. proc' = {} /\ busy' = FALSE /\ item' = items /\ queue' = queue
    BY <1>1, <1>3 DEF Tools!Serve, Tools!Exit
  <2>2. Tools!Submitted' = Tools!Submitted /\ Served' = Served
    BY <1>2, <2>1 DEF Tools!Submitted, Served
  <2>3. QueueInOrder'
    BY <1>2, <2>1 DEF ToolsInv, QueueInOrder
  <2>4. OneProcessor'
    BY <1>2, <2>1 DEF OneProcessor
  <2>5. \A i \in Tools!Items, j \in Served' :
          (item'[i] = "queued" => j < i) /\ (item'[i] = "executing" => j <= i)
    BY <1>2, <2>1, <2>2 DEF ToolsInv
  <2> QED
    BY <2>1, <2>2, <2>3, <2>4, <2>5 DEF ToolsInv
<1>4. CASE queue # <<>>
  <2> DEFINE i == queue[1]
  <2>1. /\ queue \in Seq(Tools!Items) /\ i \in Tools!Items /\ Len(queue) \in Nat \ {0}
        /\ 1 \in DOMAIN queue /\ DOMAIN queue = 1..Len(queue)
        /\ Tail(queue) \in Seq(Tools!Items) /\ DOMAIN Tail(queue) = 1..(Len(queue) - 1)
        /\ \A n \in 1..(Len(queue) - 1) : Tail(queue)[n] = queue[n + 1]
    <3>1. queue \in Seq(Tools!Items)
      BY DEF ToolsInv, QueueInOrder
    <3> QED
      BY <1>4, <3>1
  <2>2. /\ queue' = Tail(queue) /\ item' = [items EXCEPT ![i] = "executing"]
        /\ proc' = {i} /\ busy' = busy /\ busy = TRUE
    BY <1>1, <1>4 DEF Tools!Serve, ToolsInv, OneProcessor
  <2>3. item[i] = "queued"
    BY <2>1 DEF ToolsInv, QueueInOrder
  <2>4. item' \in [Tools!Items -> {"none", "queued", "executing", "result", "error", "lost"}]
    BY <2>2
  <2>5. Tools!Submitted' = Tools!Submitted /\ Served' = Served \cup {i}
    BY <1>2, <2>1, <2>2, <2>3 DEF Tools!Submitted, Served
  <2> HIDE DEF i
  <2>6. \A k \in Tools!Items : item[k] = "queued" /\ k # i => i < k
    <3> SUFFICES ASSUME NEW k \in Tools!Items, item[k] = "queued", k # i PROVE i < k
      OBVIOUS
    <3>1. PICK n \in DOMAIN queue : queue[n] = k
      BY DEF ToolsInv, QueueInOrder
    <3>2. 1 < n
      BY <2>1, <3>1 DEF i
    <3> QED
      BY <2>1, <3>1, <3>2 DEF ToolsInv, QueueInOrder, i
  <2>7. QueueInOrder'
    <3>1. \A m, n \in DOMAIN queue' : m < n => queue'[m] < queue'[n]
      BY <2>1, <2>2 DEF ToolsInv, QueueInOrder
    <3>2. ASSUME NEW k \in Tools!Items PROVE item'[k] = "queued" <=> \E n \in DOMAIN queue' : queue'[n] = k
      <4>1. CASE k = i
        <5>1. \A n \in DOMAIN queue' : queue'[n] # i
          <6> SUFFICES ASSUME NEW n \in 1..(Len(queue) - 1) PROVE queue[n + 1] > i
            BY <2>1, <2>2, ItemsAreNumbers
          <6> QED
            BY <2>1 DEF ToolsInv, QueueInOrder, i
        <5> QED
          BY <2>1, <2>2, <4>1, <5>1
      <4>2. CASE k # i
        <5>1. item'[k] = "queued" <=> \E n \in DOMAIN queue : queue[n] = k
          BY <1>2, <2>1, <2>2, <4>2 DEF ToolsInv, QueueInOrder
        <5>2. ASSUME NEW n \in DOMAIN queue, queue[n] = k PROVE \E m \in DOMAIN queue' : queue'[m] = k
          <6>1. n - 1 \in 1..(Len(queue) - 1) /\ n = (n - 1) + 1
            BY <2>1, <4>2, <5>2 DEF i
          <6> QED
            BY <2>1, <2>2, <5>2, <6>1
        <5>3. ASSUME NEW m \in DOMAIN queue', queue'[m] = k PROVE \E n \in DOMAIN queue : queue[n] = k
          BY <2>1, <2>2, <5>3
        <5> QED
          BY <5>1, <5>2, <5>3
      <4> QED
        BY <4>1, <4>2
    <3> QED
      BY <2>1, <2>2, <3>1, <3>2 DEF QueueInOrder
  <2>8. OneProcessor'
    BY <1>2, <2>1, <2>2 DEF OneProcessor
  <2>9. ASSUME NEW k \in Tools!Items, NEW j \in Served'
        PROVE  (item'[k] = "queued" => j < k) /\ (item'[k] = "executing" => j <= k)
    <3>1. item'[k] = "queued" => item[k] = "queued" /\ k # i
      BY <1>2, <2>1, <2>2
    <3>2. item'[k] = "executing" => k = i
      BY <1>2, <2>1, <2>2
    <3>3. j \in Served => j < i
      BY <2>1, <2>3 DEF ToolsInv
    <3>4. j \in Served /\ item[k] = "queued" => j < k
      BY DEF ToolsInv
    <3>5. j \in Served \cup {i} /\ {i, j, k} \subseteq Nat
      BY <2>1, <2>5, ItemsAreNumbers DEF Served
    <3>6. j \in Served \/ j = i
      BY <3>5
    <3> QED
      BY <2>6, <3>1, <3>2, <3>3, <3>4, <3>5, <3>6
  <2> QED
    BY <2>4, <2>5, <2>7, <2>8, <2>9 DEF ToolsInv
<1> QED
  BY <1>3, <1>4

LEMMA SubmitKeeps ==
  ASSUME ToolsInv, Tools!Submit
  PROVE  ToolsInv'
<1>1. PICK k \in 0..MaxItems : Tools!Submitted = 1..k
  BY DEF ToolsInv
<1>2. Cardinality(Tools!Submitted) = k
  BY <1>1, FS_Interval, ItemsAreNumbers
<1>3. PICK i \in Tools!Items :
        /\ i = k + 1 /\ item' = [item EXCEPT ![i] = "queued"] /\ queue' = Append(queue, i)
        /\ busy' = TRUE /\ proc' = IF busy THEN proc ELSE proc \cup {0}
  BY <1>2, ToolsCardinality DEF Tools!Submit, Tools!Started, Tools!Put
<1>4. item[i] = "none" /\ \A j \in Tools!Items : item[j] # "none" <=> j < i
  BY <1>1, <1>3, ItemsAreNumbers DEF Tools!Submitted
<1>5. item' \in [Tools!Items -> {"none", "queued", "executing", "result", "error", "lost"}]
  BY <1>3 DEF ToolsInv
<1>6. Tools!Submitted' = 1..i /\ i \in 0..MaxItems
  <2>1. Tools!Submitted' = Tools!Submitted \cup {i}
    BY <1>3 DEF Tools!Submitted, ToolsInv
  <2> QED
    BY <1>1, <1>3, <2>1, ItemsAreNumbers
<1>7. Served' = Served
  BY <1>3, <1>4 DEF Served, ToolsInv
<1>8. QueueInOrder'
  <2>1. /\ queue \in Seq(Tools!Items) /\ Len(queue) \in Nat /\ DOMAIN queue = 1..Len(queue)
        /\ \A n \in DOMAIN queue : queue[n] \in Tools!Items /\ queue[n] < i
    <3>1. queue \in Seq(Tools!Items)
      BY DEF ToolsInv, QueueInOrder
    <3>2. \A n \in DOMAIN queue : queue[n] \in Tools!Items /\ item[queue[n]] = "queued"
      BY <3>1 DEF ToolsInv, QueueInOrder
    <3> QED
      BY <1>4, <3>1, <3>2
  <2>2. /\ queue' \in Seq(Tools!Items) /\ DOMAIN queue' = 1..(Len(queue) + 1)
        /\ \A n \in 1..Len(queue) : queue'[n] = queue[n]
        /\ queue'[Len(queue) + 1] = i
    BY <1>3, <2>1
  <2>3. \A m, n \in DOMAIN queue' : m < n => queue'[m] < queue'[n]
    BY <2>1, <2>2 DEF ToolsInv, QueueInOrder
  <2>4. ASSUME NEW j \in Tools!Items PROVE item'[j] = "queued" <=> \E n \in DOMAIN queue' : queue'[n] = j
    <3>1. item'[j] = "queued" <=> j = i \/ \E n \in DOMAIN queue : queue[n] = j
      BY <1>3 DEF ToolsInv, QueueInOrder
    <3> QED
      BY <2>1, <2>2, <3>1
  <2> QED
    BY <2>2, <2>3, <2>4 DEF QueueInOrder
<1>9. OneProcessor'
  <2>1. \A j \in Tools!Items : item'[j] = "executing" <=> item[j] = "executing"
    BY <1>3, <1>4 DEF ToolsInv
  <2>2. proc' = (IF proc = {} THEN {0} ELSE proc) /\ busy' = TRUE
    BY <1>3 DEF ToolsInv, OneProcessor
  <2>3. 0 \notin Tools!Items
    BY ItemsAreNumbers
  <2>4. CASE proc = {}
    <3>1. \A j \in Tools!Items : item[j] # "executing"
      BY <2>4 DEF ToolsInv, OneProcessor
    <3> QED
      BY <2>1, <2>2, <2>3, <2>4, <3>1 DEF OneProcessor
  <2>5. CASE proc # {}
    BY <2>1, <2>2, <2>5 DEF ToolsInv, OneProcessor
  <2> QED
    BY <2>4, <2>5
<1>10. \A j \in Tools!Items, s \in Served' :
         (item'[j] = "queued" => s < j) /\ (item'[j] = "executing" => s <= j)
  BY <1>3, <1>4, <1>7 DEF ToolsInv, Served
<1> QED
  BY <1>5, <1>6, <1>8, <1>9, <1>10 DEF ToolsInv

LEMMA ToolsKeeps ==
  ASSUME ToolsInv, Tools!Next \/ UNCHANGED queueing
  PROVE  ToolsInv'
<1>1. ASSUME Tools!Begin PROVE ToolsInv'
  BY <1>1, ServeKeeps, ItemsAreNumbers DEF Tools!Begin, ToolsInv
<1>2. ASSUME NEW i \in Tools!Items, Tools!End(i) PROVE ToolsInv'
  <2>1. i \in proc
    BY <1>2 DEF Tools!End
  <2>2. ASSUME NEW how \in {"result", "error"}, Tools!Serve(i, [item EXCEPT ![i] = how]) PROVE ToolsInv'
    <3> DEFINE items == [item EXCEPT ![i] = how]
    <3>1. /\ items \in [Tools!Items -> {"none", "queued", "executing", "result", "error", "lost"}]
          /\ \A j \in Tools!Items \ {i} : items[j] = item[j]
          /\ items[i] = how
      BY DEF ToolsInv
    <3> HIDE DEF items
    <3> QED
      BY <2>1, <2>2, <3>1, ServeKeeps DEF items
  <2>3. ASSUME Tools!Exit(i), item' = [item EXCEPT ![i] = "lost"], queue' = queue PROVE ToolsInv'
    <3>1. item[i] = "executing" /\ proc' = {} /\ busy' = FALSE /\ \A j \in Tools!Items : item[j] = "executing" => j = i
      BY <2>1, <2>3 DEF Tools!Exit, ToolsInv, OneProcessor
    <3>2. /\ item' \in [Tools!Items -> {"none", "queued", "executing", "result", "error", "lost"}]
          /\ \A j \in Tools!Items : item'[j] # "executing"
          /\ \A j \in Tools!Items : item'[j] = "queued" <=> item[j] = "queued"
      BY <2>3, <3>1 DEF ToolsInv
    <3>3. Tools!Submitted' = Tools!Submitted /\ Served' = Served
      BY <2>3, <3>1 DEF Tools!Submitted, Served, ToolsInv
    <3>4. QueueInOrder' /\ OneProcessor'
      BY ZenonT(60), <2>3, <3>1, <3>2 DEF ToolsInv, QueueInOrder, OneProcessor
    <3> QED
      BY <3>2, <3>3, <3>4 DEF ToolsInv
  <2> QED
    BY <1>2, <2>2, <2>3 DEF Tools!End
<1>3. ASSUME UNCHANGED <<item, queue, busy, proc>> PROVE ToolsInv'
  BY <1>3 DEF ToolsInv, Tools!Submitted, Served, QueueInOrder, OneProcessor
<1>4. ASSUME NEW i \in Tools!Items, Tools!Answer(i) \/ Tools!Leave(i) PROVE ToolsInv'
  BY <1>3, <1>4 DEF Tools!Answer, Tools!Leave
<1> QED
  BY <1>1, <1>2, <1>3, <1>4, SubmitKeeps DEF Tools!Next, queueing

\* Tool tasks of a session are executed one at a time and in the order of their submission,
\* for any number of them.
THEOREM ToolTasksInOrder == GatewaySpec => []OneAtATime
<1>1. GatewayInit => ToolsInv
  <2> SUFFICES ASSUME Tools!Init PROVE ToolsInv
    BY DEF GatewayInit
  <2>1. Tools!Submitted = 1..0 /\ 0 \in 0..MaxItems
    BY ItemsAreNumbers DEF Tools!Init, Tools!Submitted
  <2>2. /\ queue = <<>> /\ proc = {} /\ busy = FALSE /\ Served = {}
        /\ \A i \in Tools!Items : item[i] = "none"
        /\ item \in [Tools!Items -> {"none", "queued", "executing", "result", "error", "lost"}]
    BY DEF Tools!Init, Served
  <2>3. QueueInOrder
    BY <2>2 DEF QueueInOrder
  <2>4. OneProcessor
    BY <2>2 DEF OneProcessor
  <2> QED
    BY <2>1, <2>2, <2>3, <2>4 DEF ToolsInv
<1>2. ToolsInv /\ [GatewayNext]_gatewayVars => ToolsInv'
  <2> SUFFICES ASSUME ToolsInv, [GatewayNext]_gatewayVars PROVE Tools!Next \/ UNCHANGED queueing
    BY ToolsKeeps
  <2> QED
    BY DEF GatewayNext, gatewayVars, OnlyCards, OnlyChat, OnlyStatus, OnlyNames, OnlyEvents
<1>3. ToolsInv => OneAtATime
  BY ItemsAreNumbers DEF ToolsInv, OneAtATime, Tools!OneAtATime, Tools!Submitted, Served
<1> QED
  BY <1>1, <1>2, <1>3, PTL DEF GatewaySpec

-----------------------------------------------------------------------------
(* Events.  The queue of a connection has the newest of the events that    *)
(* the viewer filters for, and what is older than the viewer's last event  *)
(* was received, is queued or was given up: that is what a replay, which   *)
(* starts at the last event, relies on.                                    *)

EventsTyped ==
    /\ emitted \in Nat /\ matching \subseteq 1..emitted
    /\ feed \in Seq(matching)
    /\ conn \in [pc: {"closed", "joined", "replaying", "live"}, replay: SUBSET matching]
    /\ listening <=> conn.pc # "closed"
    /\ conn.pc # "replaying" => conn.replay = {}
    /\ got \subseteq matching /\ last \in {0} \cup got

\* What is not queued is older than what is, the queue has no event twice, and none that
\* was given up.
QueueIsNewest ==
    /\ conn.pc = "closed" => feed = <<>>
    /\ \A i, j \in 1..Len(feed) : i < j => feed[i] < feed[j]
    /\ \A e \in matching, i \in 1..Len(feed) : e < feed[i] \/ \E j \in 1..Len(feed) : feed[j] = e
    /\ excused \subseteq matching /\ \A i \in 1..Len(feed) : feed[i] \notin excused

Queued == {feed[i] : i \in 1..Len(feed)}

\* Nothing older than the last event is forgotten, and the replay, which is sent in its
\* order, has only newer ones.
BeforeLast ==
    /\ \A e \in matching : e <= last => e \in got \cup Queued \cup excused
    /\ \A e \in conn.replay : e > last

NothingForgotten ==
    conn.pc \in {"replaying", "live"} => matching \subseteq got \cup conn.replay \cup Queued \cup excused

EventsInv == EventsTyped /\ QueueIsNewest /\ BeforeLast /\ NothingForgotten

LEMMA EventsCardinality == \A S : Events!Cardinality(S) = Cardinality(S)
BY DEF Events!Cardinality, Cardinality

\* What is left of a sequence is its end.
LEMMA KeptIsTheEnd ==
  ASSUME NEW S, NEW s \in Seq(S), NEW n \in Nat \ {0}, Len(s) > 0
  PROVE  /\ Events!Kept(s, n) \in Seq(S)
         /\ \E k \in 0..(Len(s) - 1) :
              /\ Len(Events!Kept(s, n)) = Len(s) - k
              /\ \A i \in 1..(Len(s) - k) : Events!Kept(s, n)[i] = s[i + k]
<1>1. CASE Len(s) <= n
  <2>1. Events!Kept(s, n) = s /\ Len(s) \in Nat
    BY <1>1 DEF Events!Kept
  <2>2. 0 \in 0..(Len(s) - 1) /\ Len(s) = Len(s) - 0 /\ \A i \in 1..(Len(s) - 0) : s[i] = s[i + 0]
    BY <2>1
  <2> QED
    BY <2>1, <2>2
<1>2. CASE Len(s) > n
  <2> DEFINE k == Len(s) - n
  <2>1. Events!Kept(s, n) = SubSeq(s, k + 1, Len(s)) /\ k \in 0..(Len(s) - 1)
    BY <1>2 DEF Events!Kept
  <2>2. \A i \in (k + 1)..Len(s) : s[i] \in S
    BY <2>1, ElementOfSeq
  <2>3. /\ SubSeq(s, k + 1, Len(s)) \in Seq(S) /\ Len(SubSeq(s, k + 1, Len(s))) = Len(s) - k
        /\ \A i \in 1..(Len(s) - k) : SubSeq(s, k + 1, Len(s))[i] = s[i + k]
    <3> HIDE DEF k
    <3>1. Len(s) \in Nat /\ k + 1 \in 1..(Len(s) + 1) /\ k \in Nat
      BY <2>1
    <3> QED
      BY <2>1, <2>2, <3>1, SubSeqProperties
  <2> QED
    BY <2>1, <2>3, <1>2
<1> QED
  BY <1>1, <1>2

LEMMA EmitKeeps ==
  ASSUME EventsInv, NEW isMatching \in BOOLEAN, Events!Emit(isMatching)
  PROVE  EventsInv'
<1> DEFINE new == emitted + 1
<1>1. /\ emitted' = new /\ matching' = IF isMatching THEN matching \cup {new} ELSE matching
      /\ listening' = listening /\ conn' = conn /\ last' = last /\ got' = got
  BY DEF Events!Emit
<1>2. /\ emitted \in Nat /\ matching \subseteq 1..emitted /\ last <= emitted /\ last \in Nat
      /\ matching' \subseteq 1..new /\ matching \subseteq matching'
  BY <1>1 DEF EventsInv, EventsTyped
<1>3. CASE listening /\ isMatching
  <2> DEFINE s == Append(feed, new)
  <2>1. /\ feed' = Events!Kept(s, QueueSize)
        /\ excused' = excused \cup (Events!Range(s) \ Events!Range(feed'))
        /\ matching' = matching \cup {new}
    BY <1>1, <1>3 DEF Events!Emit, Events!Offered
  <2>2. /\ s \in Seq(matching') /\ Len(s) = Len(feed) + 1 /\ Len(feed) \in Nat /\ s[Len(s)] = new
        /\ \A i \in 1..Len(feed) : s[i] = feed[i]
        /\ DOMAIN s = 1..Len(s)
    BY <2>1 DEF EventsInv, EventsTyped
  <2> HIDE DEF s
  <2>3. PICK k \in 0..(Len(s) - 1) : /\ feed' \in Seq(matching') /\ Len(feed') = Len(s) - k
                                     /\ \A i \in 1..(Len(s) - k) : feed'[i] = s[i + k]
    <3>1. QueueSize \in Nat \ {0} /\ Len(s) > 0
      BY <2>2, GatewayAssumption
    <3>2. \A S : s \in Seq(S) =>
             /\ Events!Kept(s, QueueSize) \in Seq(S)
             /\ \E k \in 0..(Len(s) - 1) :
                  /\ Len(Events!Kept(s, QueueSize)) = Len(s) - k
                  /\ \A i \in 1..(Len(s) - k) : Events!Kept(s, QueueSize)[i] = s[i + k]
      BY <3>1, KeptIsTheEnd
    <3> QED
      BY <2>1, <2>2, <3>2
  <2>0. \A i \in 1..Len(feed) : feed[i] \in matching /\ feed[i] \in Nat /\ feed[i] < new
    <3>1. \A i \in 1..Len(feed) : feed[i] \in matching
      BY DEF EventsInv, EventsTyped
    <3>2. \A e \in matching : e \in Nat /\ e < new
      BY <1>2
    <3> QED
      BY <3>1, <3>2
  <2>4. \A i, j \in 1..Len(s) : i < j => s[i] < s[j]
    <3> SUFFICES ASSUME NEW i \in 1..Len(s), NEW j \in 1..Len(s), i < j PROVE s[i] < s[j]
      OBVIOUS
    <3>1. i \in 1..Len(feed) /\ s[i] = feed[i]
      BY <2>2
    <3>2. CASE j = Len(s)
      BY <2>0, <2>2, <3>1, <3>2
    <3>3. CASE j # Len(s)
      <4>1. j \in 1..Len(feed) /\ s[j] = feed[j]
        BY <2>2, <3>3
      <4> QED
        BY <3>1, <4>1 DEF EventsInv, QueueIsNewest
    <3> QED
      BY <3>2, <3>3
  <2>5. \A e \in matching', i \in 1..Len(s) : e < s[i] \/ \E j \in 1..Len(s) : s[j] = e
    <3> SUFFICES ASSUME NEW e \in matching', NEW i \in 1..Len(s), ~(e < s[i])
                 PROVE  \E j \in 1..Len(s) : s[j] = e
      OBVIOUS
    <3>1. CASE e = new
      BY <2>2, <3>1
    <3>2. CASE e # new
      <4>1. e \in matching /\ e <= emitted
        BY <1>2, <2>1, <3>2
      <4>2. i \in 1..Len(feed) /\ s[i] = feed[i]
        BY <1>2, <2>2, <4>1
      <4>3. PICK j \in 1..Len(feed) : feed[j] = e
        BY <4>1, <4>2 DEF EventsInv, QueueIsNewest
      <4> QED
        BY <2>2, <4>3
    <3> QED
      BY <3>1, <3>2
  <2>6. \A i \in 1..Len(s) : s[i] \in Nat
    <3> SUFFICES ASSUME NEW i \in 1..Len(s) PROVE s[i] \in Nat
      OBVIOUS
    <3>1. CASE i = Len(s)
      BY <1>2, <2>2, <3>1
    <3>2. CASE i # Len(s)
      BY <2>0, <2>2, <3>2
    <3> QED
      BY <3>1, <3>2
  <2>7. QueueIsNewest'
    <3>1. conn'.pc # "closed"
      BY <1>1, <1>3 DEF EventsInv, EventsTyped
    <3>2. \A i, j \in 1..Len(feed') : i < j => feed'[i] < feed'[j]
      BY <2>2, <2>3, <2>4
    <3>3. ASSUME NEW e \in matching', NEW i \in 1..Len(feed')
          PROVE  e < feed'[i] \/ \E j \in 1..Len(feed') : feed'[j] = e
      <4>1. i + k \in 1..Len(s) /\ feed'[i] = s[i + k]
        BY <2>2, <2>3
      <4>2. CASE e < s[i + k]
        BY <4>1, <4>2
      <4>3. CASE ~(e < s[i + k])
        <5>1. PICK j \in 1..Len(s) : s[j] = e
          BY <2>5, <4>1, <4>3
        <5>2. j >= i + k
          BY <2>4, <2>6, <4>1, <4>3, <5>1
        <5>3. j - k \in 1..Len(feed') /\ feed'[j - k] = s[j]
          BY <2>2, <2>3, <5>2
        <5> QED
          BY <5>1, <5>3
      <4> QED
        BY <4>2, <4>3
    <3>4. excused \subseteq matching /\ \A i \in 1..Len(s) : s[i] \notin excused
      <4>1. excused \subseteq matching /\ new \notin excused
        BY <1>2 DEF EventsInv, QueueIsNewest
      <4>2. ASSUME NEW i \in 1..Len(s), i # Len(s) PROVE s[i] = feed[i] /\ feed[i] \notin excused
        BY <2>2, <4>2 DEF EventsInv, QueueIsNewest
      <4> QED
        BY <2>2, <4>1, <4>2
    <3>5. Events!Range(s) = {s[i] : i \in 1..Len(s)} /\ Events!Range(feed') = {feed'[i] : i \in 1..Len(feed')}
      <4>1. DOMAIN feed' = 1..Len(feed')
        BY <2>3
      <4> QED
        BY <2>2, <4>1 DEF Events!Range
    <3>6. excused' \subseteq matching'
      <4>1. \A i \in 1..Len(s) : s[i] \in matching'
        BY <2>2
      <4> QED
        BY <1>2, <2>1, <3>4, <3>5, <4>1
    <3>7. ASSUME NEW i \in 1..Len(feed') PROVE feed'[i] \notin excused'
      <4>1. i + k \in 1..Len(s) /\ feed'[i] = s[i + k]
        BY <2>2, <2>3
      <4> QED
        BY <2>1, <3>4, <3>5, <4>1
    <3> QED
      BY <3>1, <3>2, <3>3, <3>6, <3>7 DEF QueueIsNewest
  <2>8. Queued \cup {new} \subseteq Queued' \cup excused'
    <3>1. Events!Range(s) = {s[i] : i \in 1..Len(s)} /\ Events!Range(feed') = Queued'
      <4>1. DOMAIN feed' = 1..Len(feed')
        BY <2>3
      <4> QED
        BY <2>2, <4>1 DEF Events!Range, Queued
    <3>2. Queued \cup {new} \subseteq {s[i] : i \in 1..Len(s)}
      BY <2>2 DEF Queued
    <3> QED
      BY <2>1, <3>1, <3>2
  <2>9. excused \subseteq excused'
    BY <2>1
  <2>10. EventsTyped'
    BY <1>1, <1>2, <2>3 DEF EventsInv, EventsTyped
  <2>11. BeforeLast'
    BY <1>1, <1>2, <2>1, <2>8, <2>9 DEF EventsInv, BeforeLast
  <2>12. NothingForgotten'
    BY <1>1, <2>1, <2>8, <2>9 DEF EventsInv, NothingForgotten
  <2> QED
    BY <2>7, <2>10, <2>11, <2>12 DEF EventsInv
<1>4. CASE ~(listening /\ isMatching)
  <2>1. feed' = feed /\ excused' = excused
    BY <1>4 DEF Events!Emit
  <2>2. Queued' = Queued
    BY <2>1 DEF Queued
  <2>3. conn.pc = "closed" \/ matching' = matching
    BY <1>1, <1>4 DEF EventsInv, EventsTyped
  <2>4. EventsTyped'
    <3>1. feed \in Seq(matching')
      BY <2>3 DEF EventsInv, EventsTyped, QueueIsNewest
    <3> QED
      BY <1>1, <1>2, <2>1, <3>1 DEF EventsInv, EventsTyped
  <2>5. QueueIsNewest'
    BY <1>1, <1>2, <2>1, <2>3 DEF EventsInv, QueueIsNewest
  <2>6. BeforeLast'
    BY <1>1, <1>2, <2>1, <2>2 DEF EventsInv, BeforeLast
  <2>7. NothingForgotten'
    BY <1>1, <2>1, <2>2, <2>3 DEF EventsInv, NothingForgotten
  <2> QED
    BY <2>4, <2>5, <2>6, <2>7 DEF EventsInv
<1> QED
  BY <1>3, <1>4

LEMMA ConnectKeeps == ASSUME EventsInv, Events!Connect PROVE EventsInv'
<1>1. /\ conn' = [pc |-> "joined", replay |-> {}] /\ listening' /\ feed' = <<>>
      /\ feed = <<>> /\ emitted' = emitted /\ matching' = matching
      /\ last' = last /\ got' = got /\ excused' = excused
  BY DEF Events!Connect, Events!Closed, Events!Registers, EventsInv, QueueIsNewest
<1>2. Queued' = Queued
  BY <1>1 DEF Queued
<1> QED
  BY <1>1, <1>2 DEF EventsInv, EventsTyped, QueueIsNewest, BeforeLast, NothingForgotten

\* The replay has what the queue has not, or it is given up.
LEMMA ReplayKeeps == ASSUME EventsInv, Events!Replay PROVE EventsInv'
<1> DEFINE after == Events!After(last)
           newest == {e \in after \cap Events!Range(history) :
                         Events!Cardinality({x \in after \cap Events!Range(history) : x > e}) < ReplayLimit}
           lost == {e \in after \ Events!Range(feed) :
                       \/ e \notin Events!Range(history)
                       \/ Events!Cardinality({x \in after : x > e}) >= ReplayLimit}
<1>1. /\ conn.pc = "joined" /\ conn' = [pc |-> "replaying", replay |-> newest]
      /\ excused' = excused \cup lost /\ emitted' = emitted /\ matching' = matching
      /\ feed' = feed /\ last' = last /\ got' = got /\ listening' = listening
  BY DEF Events!Replay, Events!ReplayOf, Events!Due
<1>2. after = {e \in matching : e > last}
  BY DEF Events!After
<1>3. Events!Range(feed) = Queued
  BY DEF Events!Range, Queued, EventsInv, EventsTyped
<1>4. ASSUME NEW e \in after, e \notin Queued, e \notin lost PROVE e \in newest
  <2>1. e \in Events!Range(history) /\ ~(Cardinality({x \in after : x > e}) >= ReplayLimit)
    BY <1>3, <1>4, EventsCardinality
  <2> DEFINE all == {x \in after : x > e}
             some == {x \in after \cap Events!Range(history) : x > e}
  <2>2. IsFiniteSet(1..emitted) /\ all \subseteq 1..emitted /\ some \subseteq all
    <3>1. emitted \in Nat /\ matching \subseteq 1..emitted
      BY DEF EventsInv, EventsTyped
    <3>2. IsFiniteSet(1..emitted)
      BY <3>1, FS_Interval
    <3> QED
      BY <1>2, <3>1, <3>2
  <2> HIDE DEF all, some
  <2>3. /\ IsFiniteSet(all) /\ Cardinality(all) \in Nat
        /\ Cardinality(some) \in Nat /\ Cardinality(some) <= Cardinality(all)
    BY <2>2, FS_Subset, FS_CardinalityType
  <2>4. Cardinality(some) < ReplayLimit
    BY <2>1, <2>3, GatewayAssumption DEF all
  <2> QED
    BY <1>4, <2>1, <2>4, EventsCardinality DEF some
<1>5. newest \subseteq after /\ lost \subseteq after \ Queued
  BY <1>3
<1> HIDE DEF newest, lost, after
<1>6. Queued' = Queued
  BY <1>1 DEF Queued
<1>7. EventsTyped'
  BY <1>1, <1>2, <1>5 DEF EventsInv, EventsTyped
<1>8. QueueIsNewest'
  <2>1. \A i \in 1..Len(feed) : feed[i] \in Queued
    BY DEF Queued
  <2> QED
    BY <1>1, <1>2, <1>5, <2>1 DEF EventsInv, QueueIsNewest
<1>9. BeforeLast'
  BY <1>1, <1>2, <1>5, <1>6 DEF EventsInv, BeforeLast
<1>10. NothingForgotten'
  <2> SUFFICES ASSUME NEW e \in matching PROVE e \in got \cup newest \cup Queued \cup excused \cup lost
    BY <1>1, <1>6 DEF NothingForgotten
  <2>1. CASE e <= last
    BY <2>1 DEF EventsInv, BeforeLast
  <2>2. CASE e > last
    BY <1>2, <1>4, <2>2
  <2>3. e \in Nat /\ last \in Nat
    BY DEF EventsInv, EventsTyped
  <2> QED
    BY <2>1, <2>2, <2>3
<1> QED
  BY <1>7, <1>8, <1>9, <1>10 DEF EventsInv

LEMMA SendReplayKeeps == ASSUME EventsInv, Events!SendReplay PROVE EventsInv'
<1>1. /\ conn.pc = "replaying" /\ emitted' = emitted /\ matching' = matching
      /\ feed' = feed /\ excused' = excused
  BY DEF Events!SendReplay
<1>2. Queued' = Queued
  BY <1>1 DEF Queued
<1>3. CASE conn.replay = {}
  <2>1. conn' = [pc |-> "live", replay |-> {}] /\ listening' /\ last' = last /\ got' = got
    BY <1>3 DEF Events!SendReplay, Events!Registers, EventsInv, EventsTyped
  <2> QED
    BY <1>1, <1>2, <1>3, <2>1 DEF EventsInv, EventsTyped, QueueIsNewest, BeforeLast, NothingForgotten
<1>4. CASE conn.replay # {}
  <2>1. PICK event \in conn.replay : /\ \A e \in conn.replay : event <= e
                                     /\ conn' = [conn EXCEPT !.replay = @ \ {event}]
                                     /\ last' = event /\ got' = got \cup {event}
    BY <1>4 DEF Events!SendReplay, Events!Receives
  <2>2. conn' = [pc |-> "replaying", replay |-> conn.replay \ {event}] /\ listening' = listening
    BY <1>1, <1>4, <2>1 DEF Events!SendReplay, EventsInv, EventsTyped
  <2>3. event \in matching /\ \A e \in matching : e \in Nat
    BY <2>1 DEF EventsInv, EventsTyped
  <2>4. EventsTyped'
    BY <1>1, <2>1, <2>2, <2>3 DEF EventsInv, EventsTyped
  <2>5. QueueIsNewest'
    BY <1>1, <2>2 DEF EventsInv, QueueIsNewest
  <2>6. matching \subseteq got' \cup conn'.replay \cup Queued \cup excused
    BY <1>1, <2>1, <2>2 DEF EventsInv, NothingForgotten
  <2>7. \A e \in conn'.replay : e > event
    <3> SUFFICES ASSUME NEW e \in conn.replay, e # event PROVE e > event
      BY <2>2
    <3>1. event <= e /\ e \in Nat /\ event \in Nat
      BY <2>1, <2>3 DEF EventsInv, EventsTyped
    <3> QED
      BY <3>1
  <2>8. BeforeLast'
    BY <1>1, <1>2, <2>1, <2>3, <2>6, <2>7 DEF BeforeLast
  <2>9. NothingForgotten'
    BY <1>1, <1>2, <2>6 DEF NothingForgotten
  <2> QED
    BY <2>4, <2>5, <2>8, <2>9 DEF EventsInv
<1> QED
  BY <1>3, <1>4

LEMMA SendLiveKeeps == ASSUME EventsInv, Events!SendLive PROVE EventsInv'
<1>1. /\ conn.pc = "live" /\ feed # <<>> /\ feed' = Tail(feed) /\ last' = feed[1] /\ got' = got \cup {feed[1]}
      /\ emitted' = emitted /\ matching' = matching /\ conn' = conn /\ listening' = listening
      /\ excused' = excused
  BY DEF Events!SendLive, Events!Receives
<1>2. /\ feed \in Seq(matching) /\ Len(feed) \in Nat \ {0} /\ feed' \in Seq(matching)
      /\ Len(feed') = Len(feed) - 1 /\ \A i \in 1..Len(feed') : feed'[i] = feed[i + 1]
      /\ feed[1] \in matching /\ \A e \in matching : e \in Nat
      /\ \A i \in 1..Len(feed) : feed[i] \in matching
  BY <1>1 DEF EventsInv, EventsTyped
<1>3. conn.replay = {} /\ conn'.replay = {}
  BY <1>1 DEF EventsInv, EventsTyped
<1>4. Queued \subseteq Queued' \cup {feed[1]}
  <2> SUFFICES ASSUME NEW i \in 1..Len(feed), i # 1 PROVE feed[i] \in Queued'
    BY DEF Queued
  <2>1. i - 1 \in 1..Len(feed') /\ feed'[i - 1] = feed[i]
    BY <1>2
  <2> QED
    BY <2>1 DEF Queued
<1>5. EventsTyped'
  BY <1>1, <1>2 DEF EventsInv, EventsTyped
<1>6. QueueIsNewest'
  <2>1. ASSUME NEW i \in 1..Len(feed'), NEW j \in 1..Len(feed'), i < j PROVE feed'[i] < feed'[j]
    <3>1. i + 1 \in 1..Len(feed) /\ j + 1 \in 1..Len(feed) /\ i + 1 < j + 1
      BY <1>2, <2>1
    <3>2. feed[i + 1] < feed[j + 1]
      BY <3>1 DEF EventsInv, QueueIsNewest
    <3> QED
      BY <1>2, <3>2
  <2>2. ASSUME NEW e \in matching, NEW i \in 1..Len(feed')
        PROVE  e < feed'[i] \/ \E j \in 1..Len(feed') : feed'[j] = e
    <3>1. i + 1 \in 1..Len(feed) /\ 1 \in 1..Len(feed) /\ feed'[i] = feed[i + 1] /\ 1 < i + 1
      BY <1>2
    <3>2. CASE e < feed[i + 1]
      BY <3>1, <3>2
    <3>3. CASE \E j \in 1..Len(feed) : feed[j] = e
      <4>1. PICK j \in 1..Len(feed) : feed[j] = e
        BY <3>3
      <4>2. CASE j = 1
        BY <3>1, <4>1, <4>2 DEF EventsInv, QueueIsNewest
      <4>3. CASE j # 1
        <5>1. j - 1 \in 1..Len(feed') /\ feed'[j - 1] = feed[j]
          BY <1>2, <4>3
        <5> QED
          BY <4>1, <5>1
      <4> QED
        BY <4>2, <4>3
    <3> QED
      BY <3>1, <3>2, <3>3 DEF EventsInv, QueueIsNewest
  <2>3. ASSUME NEW i \in 1..Len(feed') PROVE feed'[i] \notin excused
    <3>1. i + 1 \in 1..Len(feed) /\ feed'[i] = feed[i + 1]
      BY <1>2
    <3> QED
      BY <3>1 DEF EventsInv, QueueIsNewest
  <2> QED
    BY <1>1, <2>1, <2>2, <2>3 DEF EventsInv, QueueIsNewest
<1>7. matching \subseteq got' \cup Queued' \cup excused'
  BY <1>1, <1>3, <1>4 DEF EventsInv, NothingForgotten
<1>8. BeforeLast' /\ NothingForgotten'
  BY <1>1, <1>3, <1>7 DEF BeforeLast, NothingForgotten
<1> QED
  BY <1>5, <1>6, <1>8 DEF EventsInv

LEMMA DisconnectKeeps == ASSUME EventsInv, Events!Disconnect PROVE EventsInv'
<1>1. /\ conn' = [pc |-> "closed", replay |-> {}] /\ ~listening' /\ feed' = <<>>
      /\ excused' = excused \cup {e \in Events!Range(feed) : e < last}
      /\ emitted' = emitted /\ matching' = matching /\ last' = last /\ got' = got
  BY DEF Events!Disconnect, Events!Closed
<1>2. Events!Range(feed) = Queued /\ Queued \subseteq matching
  BY DEF Events!Range, Queued, EventsInv, EventsTyped
<1>3. \A e \in matching : e <= last => e \in got \cup excused'
  <2> SUFFICES ASSUME NEW e \in matching, e <= last, e \notin got PROVE e \in excused'
    OBVIOUS
  <2>1. e \in Nat /\ last \in Nat /\ e # 0 /\ e # last
    BY DEF EventsInv, EventsTyped
  <2>2. e \in Queued \cup excused
    BY DEF EventsInv, BeforeLast
  <2> QED
    BY <1>1, <1>2, <2>1, <2>2
<1>4. EventsTyped'
  BY <1>1 DEF EventsInv, EventsTyped
<1>5. QueueIsNewest'
  BY <1>1, <1>2 DEF EventsInv, QueueIsNewest
<1> QED
  BY <1>1, <1>3, <1>4, <1>5 DEF EventsInv, BeforeLast, NothingForgotten

LEMMA EventsHold == GatewaySpec => []EventsInv
<1>1. GatewayInit => EventsInv
  BY DEF GatewayInit, Events!Init, Events!Closed, EventsInv, EventsTyped, QueueIsNewest, BeforeLast, NothingForgotten
<1>2. EventsInv /\ [GatewayNext]_gatewayVars => EventsInv'
  <2> SUFFICES ASSUME EventsInv, [GatewayNext]_gatewayVars PROVE EventsInv'
    OBVIOUS
  <2>1. CASE Events!Next
    BY <2>1, EmitKeeps, ConnectKeeps, ReplayKeeps, SendReplayKeeps, SendLiveKeeps, DisconnectKeeps DEF Events!Next
  <2>2. CASE UNCHANGED viewing
    <3>1. /\ emitted' = emitted /\ matching' = matching /\ feed' = feed /\ conn' = conn
          /\ listening' = listening /\ got' = got /\ last' = last /\ excused' = excused
      BY <2>2 DEF viewing
    <3> QED
      BY <3>1 DEF EventsInv, EventsTyped, QueueIsNewest, BeforeLast, NothingForgotten, Queued
  <2> QED
    BY <2>1, <2>2 DEF GatewayNext, gatewayVars, OnlyCards, OnlyChat, OnlyStatus, OnlyNames, OnlyTools, OnlyEvents
<1> QED
  BY <1>1, <1>2, PTL DEF GatewaySpec

\* A viewer that reconnects misses only the events that the bus gave up, the oldest first.
THEOREM GapsAreExcused == GatewaySpec => []NoGap
<1>1. EventsInv => NoGap
  <2> SUFFICES ASSUME EventsInv PROVE Events!NoGap
    BY DEF NoGap
  <2>1. Events!Range(feed) = Queued
    BY DEF Events!Range, Queued, EventsInv, EventsTyped
  <2>2. conn.pc \in {"replaying", "live"}
        => matching \subseteq got \cup conn.replay \cup Events!Range(feed) \cup excused
    BY <2>1 DEF EventsInv, NothingForgotten
  <2>3. \A e \in excused \ got, next \in Queued : e < next
    BY DEF EventsInv, QueueIsNewest, Queued
  <2> QED
    BY <2>1, <2>2, <2>3 DEF Events!NoGap
<1> QED
  BY <1>1, EventsHold, PTL
=============================================================================
