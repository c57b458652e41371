---------------------------- MODULE AgentLoopProofs ----------------------------
(***************************************************************************)
(* Theorems about AgentLoop, whatever runtimes, calls and limits there are.*)
(* A run in flight owns the record of its session, and none ends cancelled *)
(* that was not told to; one that is told to stop does.  Unless runs of    *)
(* the session overlapped in time, whatever runtimes they were of, the     *)
(* provider is never sent a call that has no result, and a call is         *)
(* executed once more only when its run was torn down.  A gated tool does  *)
(* not run more often than the user allowed.                               *)
(***************************************************************************)
EXTENDS AgentLoop, RecursionFacts, FiniteSetTheorems, SequenceTheorems, TLAPS

-----------------------------------------------------------------------------
(* The record of the session.  RecordIsOwn is not inductive by itself: a   *)
(* record that is active belongs to a run of its runtime, and a cancel in  *)
(* it was meant for that run.                                              *)

\* What is needed of the types.
OwnTyped ==
    /\ record \in [Runtimes -> [owner : Nat, active : BOOLEAN, cancel : BOOLEAN]]
    /\ DOMAIN run = Runs
    /\ \A r \in Runs : DOMAIN run[r] = DOMAIN NewRun

\* An active record is of a run of the runtime, and so is its cancel.
ActiveIsOwned ==
    \A rt \in Runtimes : record[rt].active =>
        /\ record[rt].owner \in Runs
        /\ RuntimeOf[record[rt].owner] = rt
        /\ record[rt].cancel => run[record[rt].owner].told

\* The inductive invariant.
OwnInv == OwnTyped /\ ActiveIsOwned /\ RecordIsOwn

\* All that a step leaves alone of the run q.
SameEnd(q) == run'[q].told = run[q].told /\ run'[q].status = run[q].status

\* A run goes on: it is told nothing new.
Moves(r) ==
    /\ UNCHANGED record
    /\ DOMAIN run' = Runs
    /\ \A q \in Runs \ {r} : run'[q] = run[q]
    /\ SameEnd(r) /\ DOMAIN run'[r] = DOMAIN NewRun

\* A run ends, and cancelled only if it sees a cancel.
Ends(r) == \E status : Finishes(r, status) /\ (status = "cancelled" => Cancelled(r))

-----------------------------------------------------------------------------
\* Nothing is in flight at first.
LEMMA InitOwn == Init => OwnInv
<1> SUFFICES ASSUME Init PROVE OwnInv
  OBVIOUS
<1>1. OwnTyped
  BY DEF Init, OwnTyped
<1>2. ActiveIsOwned
  BY DEF Init, ActiveIsOwned
<1>3. RecordIsOwn
  BY DEF Init, RecordIsOwn, InFlight, NewRun
<1> QED
  BY <1>1, <1>2, <1>3 DEF OwnInv

\* Going to another place in the loop is a move.
LEMMA GoesMoves ==
  ASSUME OwnTyped, NEW r \in Runs, NEW pc, NEW todo, NEW resumed, Goes(r, pc, todo, resumed)
  PROVE  Moves(r)
BY SMTT(40) DEF OwnTyped, Goes, Moves, SameEnd, NewRun

\* Another attempt and a reply with calls are moves too.
LEMMA RequestShape ==
  ASSUME OwnTyped, NEW r \in Runs, Request(r)
  PROVE  Moves(r) \/ Ends(r)
<1>1. CASE run' = [run EXCEPT ![r].tries = Attempts(r)] /\ UNCHANGED record
  BY <1>1 DEF OwnTyped, Moves, SameEnd, NewRun
<1>2. ASSUME NEW n \in 0..MaxBatch,
             run' = [run EXCEPT ![r] = [run[r] EXCEPT !.pc = "tools", !.todo = SubSeq(script, 1, n),
                               !.resumed = FALSE, !.step = @ + 1, !.tries = 0]],
             UNCHANGED record
      PROVE  Moves(r)
  BY <1>2 DEF OwnTyped, Moves, SameEnd, NewRun
<1>3. ASSUME NEW status \in {"error", "completed", "max_iterations"}, Finishes(r, status)
      PROVE  Ends(r)
  BY <1>3 DEF Ends
<1>4. CASE Cancelled(r) /\ Finishes(r, "cancelled")
  BY <1>4 DEF Ends
<1> QED
  BY <1>1, <1>2, <1>3, <1>4 DEF Request

\* A call is skipped, answered, started, or the run parks at it.
LEMMA CallShape ==
  ASSUME OwnTyped, NEW r \in Runs, Call(r)
  PROVE  Moves(r) \/ Ends(r)
<1> DEFINE c == run[r].todo[1]
           loop == Ask("loop", ArgsOf[c])
           own == IF Repeated(c) THEN RulesAfter(rules[RuntimeOf[r]], loop) ELSE rules[RuntimeOf[r]]
<1>1. ASSUME Answered(r, c) PROVE Moves(r)
  BY <1>1, GoesMoves DEF Answered, Skips
<1>2. ASSUME Started(r, c) PROVE Moves(r)
  BY <1>2, GoesMoves DEF Started
<1>3. ASSUME NEW ask, NEW status \in {"permission", "question"}, Parked(r, ask, status) PROVE Ends(r)
  BY <1>3 DEF Parked, Ends
<1>4. ASSUME Execute(r, c, own) PROVE Moves(r) \/ Ends(r)
  BY <1>1, <1>2, <1>3, <1>4 DEF Execute
<1>5. CASE Stopped(r) /\ Finishes(r, "cancelled")
  BY <1>5 DEF Stopped, Ends
<1>6. \/ Stopped(r) /\ Finishes(r, "cancelled")
      \/ Answered(r, c)
      \/ Execute(r, c, own)
      \/ Parked(r, loop, "permission")
  BY DEF Call
<1> QED
  BY <1>1, <1>3, <1>4, <1>5, <1>6

\* A step of the loop is a move or the end of a run in flight.
LEMMA StepShape ==
  ASSUME OwnTyped, NEW r \in Runs, Step(r)
  PROVE  r \in InFlight /\ (Moves(r) \/ Ends(r))
<1>1. CASE LoopHead(r)
  <2>1. r \in InFlight
    BY <1>1 DEF LoopHead, InFlight
  <2>2. Moves(r) \/ Ends(r)
    BY <1>1, GoesMoves DEF LoopHead, Stopped, Ends
  <2> QED
    BY <2>1, <2>2
<1>2. CASE Request(r)
  BY <1>2, RequestShape DEF Request, InFlight
<1>3. CASE ToolsDone(r)
  <2>1. r \in InFlight
    BY <1>3 DEF ToolsDone, InFlight
  <2>2. Moves(r) \/ Ends(r)
    BY <1>3, GoesMoves DEF ToolsDone, Stopped, Ends
  <2> QED
    BY <2>1, <2>2
<1>4. CASE Call(r)
  BY <1>4, CallShape DEF Call, InFlight
<1>5. CASE Return(r)
  <2>1. r \in InFlight
    BY <1>5 DEF Return, InFlight
  <2>2. ASSUME Skips(r) PROVE Moves(r)
    BY <2>2, GoesMoves DEF Skips
  <2>3. ASSUME Finishes(r, IF Cancelled(r) THEN "cancelled" ELSE "completed") PROVE Ends(r)
    BY <2>3 DEF Ends
  <2> QED
    BY <1>5, <2>1, <2>2, <2>3 DEF Return
<1> QED
  BY <1>1, <1>2, <1>3, <1>4, <1>5 DEF Step

-----------------------------------------------------------------------------
\* Runs of one runtime that are in flight are one run.
LEMMA OneRun ==
  ASSUME RecordIsOwn, NEW q \in InFlight, NEW r \in InFlight, RuntimeOf[q] = RuntimeOf[r]
  PROVE  q = r
BY DEF RecordIsOwn

\* A move keeps the invariant.
LEMMA MovesOwn ==
  ASSUME OwnInv, NEW r \in InFlight, Moves(r)
  PROVE  OwnInv'
<1>1. OwnTyped'
  BY DEF OwnInv, OwnTyped, Moves
<1>2. \A q \in Runs : SameEnd(q)
  BY DEF Moves, SameEnd
<1>3. InFlight' \subseteq InFlight
  BY DEF Moves, InFlight
<1>4. ActiveIsOwned'
  BY <1>2 DEF OwnInv, ActiveIsOwned, SameEnd, Moves
<1>5. RecordIsOwn'
  BY <1>2, <1>3 DEF OwnInv, RecordIsOwn, SameEnd, Moves
<1> QED
  BY <1>1, <1>4, <1>5 DEF OwnInv

\* The end of a run keeps the invariant: its record is finished and nobody else's.
LEMMA EndsOwn ==
  ASSUME OwnInv, NEW r \in InFlight, Ends(r)
  PROVE  OwnInv'
<1> PICK status : Finishes(r, status) /\ (status = "cancelled" => Cancelled(r))
  BY DEF Ends
<1>1. r \in Runs /\ RuntimeOf[r] \in Runtimes
  BY AgentAssumption DEF InFlight
<1>2. /\ DOMAIN run' = Runs
      /\ \A q \in Runs \ {r} : run'[q] = run[q]
      /\ DOMAIN run'[r] = DOMAIN NewRun
      /\ run'[r].pc = "over" /\ run'[r].told = run[r].told /\ run'[r].status = status
  BY <1>1 DEF OwnInv, OwnTyped, Finishes, NewRun
<1>3. /\ record' \in [Runtimes -> [owner : Nat, active : BOOLEAN, cancel : BOOLEAN]]
      /\ \A rt \in Runtimes \ {RuntimeOf[r]} : record'[rt] = record[rt]
      /\ ~record'[RuntimeOf[r]].active
  <2> DEFINE stops == status \in {"cancelled", "interrupted"}
  <2>1. stops \in BOOLEAN
    OBVIOUS
  <2>2. record' = [record EXCEPT ![RuntimeOf[r]] =
                      [record[RuntimeOf[r]] EXCEPT !.active = FALSE, !.cancel = stops]]
    BY DEF Finishes, FinishedRecord
  <2> HIDE DEF stops
  <2>3. record \in [Runtimes -> [owner : Nat, active : BOOLEAN, cancel : BOOLEAN]]
    BY DEF OwnInv, OwnTyped
  <2> QED
    BY <1>1, <2>1, <2>2, <2>3
<1>4. OwnTyped'
  BY <1>2, <1>3 DEF OwnInv, OwnTyped
<1>5. ActiveIsOwned'
  <2> SUFFICES ASSUME NEW rt \in Runtimes, record'[rt].active
               PROVE  /\ record'[rt].owner \in Runs
                      /\ RuntimeOf[record'[rt].owner] = rt
                      /\ record'[rt].cancel => run'[record'[rt].owner].told
    BY DEF ActiveIsOwned
  <2>1. rt # RuntimeOf[r] /\ record'[rt] = record[rt]
    BY <1>3
  <2>2. /\ record[rt].owner \in Runs /\ RuntimeOf[record[rt].owner] = rt
        /\ record[rt].cancel => run[record[rt].owner].told
    BY <2>1 DEF OwnInv, ActiveIsOwned
  <2>3. run'[record[rt].owner] = run[record[rt].owner]
    BY <1>2, <2>1, <2>2
  <2> QED
    BY <2>1, <2>2, <2>3
<1>6. RecordIsOwn'
  <2>1. ASSUME NEW q \in InFlight'
        PROVE  record'[RuntimeOf[q]].active /\ record'[RuntimeOf[q]].owner = q
    <3>1. q \in InFlight /\ q # r /\ RuntimeOf[q] \in Runtimes
      BY <1>2, <2>1, AgentAssumption DEF InFlight
    <3>2. RuntimeOf[q] # RuntimeOf[r]
      BY <3>1, OneRun DEF OwnInv
    <3> QED
      BY <1>3, <3>1, <3>2 DEF OwnInv, RecordIsOwn
  <2>2. ASSUME NEW q \in Runs, run'[q].status = "cancelled"
        PROVE  run'[q].told
    <3>1. CASE q # r
      BY <1>2, <2>2, <3>1 DEF OwnInv, RecordIsOwn
    <3>2. CASE q = r
      <4>1. Cancelled(r)
        BY <1>2, <2>2, <3>2
      <4>2. record[RuntimeOf[r]].owner = r
        BY DEF OwnInv, RecordIsOwn
      <4>3. run[r].told
        BY <1>1, <4>1, <4>2 DEF OwnInv, ActiveIsOwned, Cancelled
      <4> QED
        BY <1>2, <3>2, <4>3
    <3> QED
      BY <3>1, <3>2
  <2> QED
    BY <2>1, <2>2 DEF RecordIsOwn
<1> QED
  BY <1>4, <1>5, <1>6 DEF OwnInv
\* A run begins where none is in flight, with a record of its own.
LEMMA BeginOwn ==
  ASSUME OwnInv, NEW r \in Runs, Begin(r)
  PROVE  OwnInv'
<1>1. RuntimeOf[r] \in Runtimes /\ r \in Nat /\ ~record[RuntimeOf[r]].active
  BY AgentAssumption DEF Runs, Begin, Busy
<1>2. /\ DOMAIN run' = Runs
      /\ \A q \in Runs : q # r => run'[q] = run[q]
      /\ \A q \in Runs : SameEnd(q) /\ DOMAIN run'[q] = DOMAIN NewRun
  BY DEF OwnInv, OwnTyped, Begin, SameEnd, NewRun
<1>3. record' = [record EXCEPT ![RuntimeOf[r]] = [owner |-> r, active |-> TRUE, cancel |-> FALSE]]
  BY DEF Begin, BegunRecord, NewRecord
<1>4. OwnTyped'
  BY <1>1, <1>2, <1>3 DEF OwnInv, OwnTyped
<1>5. ActiveIsOwned'
  BY <1>1, <1>2, <1>3 DEF OwnInv, OwnTyped, ActiveIsOwned, SameEnd
<1>6. RecordIsOwn'
  <2>1. ASSUME NEW q \in InFlight'
        PROVE  record'[RuntimeOf[q]].active /\ record'[RuntimeOf[q]].owner = q
    <3>1. CASE q = r
      BY <1>1, <1>3, <3>1 DEF OwnInv, OwnTyped
    <3>2. CASE q # r
      <4>1. q \in InFlight /\ RuntimeOf[q] \in Runtimes
        BY <1>2, <2>1, <3>2, AgentAssumption DEF InFlight
      <4>2. record[RuntimeOf[q]].active /\ record[RuntimeOf[q]].owner = q
        BY <4>1 DEF OwnInv, RecordIsOwn
      <4> QED
        BY <1>1, <1>3, <4>1, <4>2 DEF OwnInv, OwnTyped
    <3> QED
      BY <3>1, <3>2
  <2> QED
    BY <1>2, <2>1 DEF OwnInv, RecordIsOwn, SameEnd
<1> QED
  BY <1>4, <1>5, <1>6 DEF OwnInv

\* A cancel tells the run that owns the record.
LEMMA CancelOwn ==
  ASSUME OwnInv, NEW rt \in Runtimes, Cancel(rt)
  PROVE  OwnInv'
<1> DEFINE o == record[rt].owner
<1>1. o \in Runs /\ RuntimeOf[o] = rt
  BY DEF OwnInv, ActiveIsOwned, Cancel
<1>2. /\ DOMAIN run' = Runs
      /\ \A q \in Runs : q # o => run'[q] = run[q]
      /\ run'[o].told = TRUE
      /\ \A q \in Runs : DOMAIN run'[q] = DOMAIN NewRun
      /\ \A q \in Runs : run'[q].status = run[q].status /\ run'[q].pc = run[q].pc
  BY <1>1 DEF OwnInv, OwnTyped, Cancel, NewRun
<1>3. /\ record' \in [Runtimes -> [owner : Nat, active : BOOLEAN, cancel : BOOLEAN]]
      /\ \A other \in Runtimes : /\ record'[other].owner = record[other].owner
                                 /\ record'[other].active = record[other].active
      /\ \A other \in Runtimes \ {rt} : record'[other] = record[other]
  BY DEF OwnInv, OwnTyped, Cancel
<1>4. OwnTyped'
  BY <1>2, <1>3 DEF OwnInv, OwnTyped
<1>5. ActiveIsOwned'
  <2> SUFFICES ASSUME NEW other \in Runtimes, record'[other].active
               PROVE  /\ record'[other].owner \in Runs
                      /\ RuntimeOf[record'[other].owner] = other
                      /\ record'[other].cancel => run'[record'[other].owner].told
    BY DEF ActiveIsOwned
  <2>1. CASE other = rt
    BY <1>1, <1>2, <1>3, <2>1
  <2>2. CASE other # rt
    <3>1. /\ record[other].owner \in Runs /\ RuntimeOf[record[other].owner] = other
          /\ record[other].cancel => run[record[other].owner].told
          /\ record'[other] = record[other]
      BY <1>3, <2>2 DEF OwnInv, ActiveIsOwned
    <3>2. record[other].owner # o
      BY <1>1, <2>2, <3>1
    <3> QED
      BY <1>2, <3>1, <3>2
  <2> QED
    BY <2>1, <2>2
<1>6. RecordIsOwn'
  <2>1. InFlight' = InFlight
    BY <1>2 DEF InFlight
  <2>2. \A q \in InFlight : RuntimeOf[q] \in Runtimes
    BY AgentAssumption DEF InFlight
  <2>3. \A q \in Runs : run[q].told => run'[q].told
    BY <1>2
  <2> QED
    BY <1>2, <1>3, <2>1, <2>2, <2>3 DEF OwnInv, RecordIsOwn
<1> QED
  BY <1>4, <1>5, <1>6 DEF OwnInv

\* Every step keeps the invariant.
LEMMA NextOwn == OwnInv /\ [Next]_vars => OwnInv'
<1> SUFFICES ASSUME OwnInv, [Next]_vars PROVE OwnInv'
  OBVIOUS
<1>1. ASSUME NEW r \in Runs, Begin(r) PROVE OwnInv'
  BY <1>1, BeginOwn
<1>2. ASSUME NEW r \in Runs, Interrupt(r) PROVE OwnInv'
  <2>1. r \in InFlight /\ Ends(r)
    BY <1>2 DEF Interrupt, Ends
  <2> QED
    BY <2>1, EndsOwn
<1>3. ASSUME NEW r \in Runs, Step(r) PROVE OwnInv'
  BY <1>3, StepShape, MovesOwn, EndsOwn DEF OwnInv
<1>4. ASSUME NEW rt \in Runtimes, Cancel(rt) PROVE OwnInv'
  BY <1>4, CancelOwn
<1>5. CASE UNCHANGED <<record, run>>
  BY <1>5 DEF OwnInv, OwnTyped, ActiveIsOwned, RecordIsOwn, InFlight
<1>6. ASSUME NEW rt \in Runtimes, NEW ask \in asking[rt], Answer(rt, ask) PROVE OwnInv'
  BY <1>5, <1>6 DEF Answer
<1>7. ASSUME NEW rt \in Runtimes, NEW ask \in asking[rt], NEW action \in {"allow", "deny"},
             NEW always \in BOOLEAN, Decide(rt, ask, action, always)
      PROVE  OwnInv'
  BY <1>5, <1>7 DEF Decide
<1>8. CASE UNCHANGED vars
  BY <1>5, <1>8 DEF vars
<1>9. ASSUME NEW rt \in Runtimes, NEW ask, Seed(rt, ask) PROVE OwnInv'
  BY <1>5, <1>9 DEF Seed
<1> QED
  BY <1>1, <1>2, <1>3, <1>4, <1>6, <1>7, <1>8, <1>9 DEF Next

\* A run in flight owns the record of its session in its runtime, and a run that ends
\* cancelled was told to.
THEOREM OwnRecord == Spec => []RecordIsOwn
<1>1. OwnInv => RecordIsOwn
  BY DEF OwnInv
<1> QED
  BY <1>1, InitOwn, NextOwn, PTL DEF Spec

\* Two runs of one runtime are never in flight together.
THEOREM OneRunInFlight ==
  Spec => [](\A q, r \in InFlight : RuntimeOf[q] = RuntimeOf[r] => q = r)
<1>1. RecordIsOwn => \A q, r \in InFlight : RuntimeOf[q] = RuntimeOf[r] => q = r
  BY OneRun
<1> QED
  BY <1>1, OwnRecord, PTL

-----------------------------------------------------------------------------
(* The history.  What carries it from run to run is that the calls a run   *)
(* has before it are all that have no result.                              *)
(*                                                                         *)
(* Sequences without repetition, first.                                    *)

\* What is left after the first.
LEMMA TailFacts ==
  ASSUME NEW S, NEW s \in Seq(S), s # <<>>, IsInjective(s)
  PROVE  /\ Tail(s) \in Seq(S) /\ IsInjective(Tail(s)) /\ s[1] \in ToSet(s) /\ s[1] \in S
         /\ ToSet(Tail(s)) = ToSet(s) \ {s[1]}
<1>1. Tail(s) \in Seq(S) /\ Len(s) \in Nat \ {0} /\ Len(Tail(s)) = Len(s) - 1
  OBVIOUS
<1>2. \A i \in 1..(Len(s) - 1) : Tail(s)[i] = s[i + 1]
  OBVIOUS
<1>3. \A i, j \in 1..Len(s) : s[i] = s[j] => i = j
  BY DEF IsInjective
<1>4. DOMAIN s = 1..Len(s) /\ DOMAIN Tail(s) = 1..(Len(s) - 1)
  BY <1>1
<1>5. IsInjective(Tail(s))
  BY <1>1, <1>2, <1>3, <1>4 DEF IsInjective
<1>6. ToSet(Tail(s)) \subseteq ToSet(s) \ {s[1]}
  BY <1>1, <1>2, <1>3, <1>4 DEF ToSet
<1>7. ASSUME NEW x \in ToSet(s), x # s[1] PROVE x \in ToSet(Tail(s))
  <2>1. PICK i \in 1..Len(s) : x = s[i]
    BY <1>4 DEF ToSet
  <2>2. i - 1 \in 1..(Len(s) - 1) /\ Tail(s)[i - 1] = s[i]
    BY <1>1, <1>2, <1>7, <2>1
  <2> QED
    BY <1>4, <2>1, <2>2 DEF ToSet
<1> QED
  <2>1. s[1] \in ToSet(s) /\ s[1] \in S
    BY <1>1, <1>4 DEF ToSet
  <2> QED
    BY <1>1, <1>5, <1>6, <1>7, <2>1

\* The first n and the rest.
LEMMA SplitFacts ==
  ASSUME NEW S, NEW s \in Seq(S), IsInjective(s), NEW n \in 0..Len(s)
  PROVE  LET some == SubSeq(s, 1, n)
             rest == SubSeq(s, n + 1, Len(s))
         IN /\ some \in Seq(S) /\ rest \in Seq(S)
            /\ IsInjective(some) /\ IsInjective(rest)
            /\ ToSet(some) \subseteq ToSet(s) /\ ToSet(rest) \subseteq ToSet(s)
            /\ ToSet(some) \cap ToSet(rest) = {}
            /\ n # 0 => some # <<>>
<1> DEFINE some == SubSeq(s, 1, n)
           rest == SubSeq(s, n + 1, Len(s))
<1>1. /\ some \in Seq(S) /\ Len(some) = n /\ DOMAIN some = 1..n
      /\ \A i \in 1..n : some[i] = s[i]
  OBVIOUS
<1>2. /\ rest \in Seq(S) /\ Len(rest) = Len(s) - n /\ DOMAIN rest = 1..(Len(s) - n)
      /\ \A i \in 1..(Len(s) - n) : rest[i] = s[n + i]
  OBVIOUS
<1>3. /\ \A i, j \in 1..Len(s) : s[i] = s[j] => i = j
      /\ DOMAIN s = 1..Len(s) /\ Len(s) \in Nat /\ n \in Nat /\ n <= Len(s)
  BY DEF IsInjective
<1> HIDE DEF some, rest
<1>4. IsInjective(some) /\ IsInjective(rest)
  <2>1. IsInjective(some)
    BY <1>1, <1>3 DEF IsInjective
  <2>2. ASSUME NEW i \in 1..(Len(s) - n), NEW j \in 1..(Len(s) - n), rest[i] = rest[j] PROVE i = j
    <3>1. n + i \in 1..Len(s) /\ n + j \in 1..Len(s) /\ s[n + i] = s[n + j]
      BY <1>2, <1>3, <2>2
    <3>2. n + i = n + j
      BY <1>3, <3>1
    <3> QED
      BY <1>3, <3>2
  <2>3. IsInjective(rest)
    BY <1>2, <2>2 DEF IsInjective
  <2> QED
    BY <2>1, <2>3
<1>5. ToSet(some) \subseteq ToSet(s) /\ ToSet(rest) \subseteq ToSet(s)
  <2>1. \A x \in ToSet(some) : x \in ToSet(s)
    <3>1. \A i \in 1..n : some[i] = s[i] /\ i \in 1..Len(s)
      BY <1>1, <1>3
    <3> QED
      BY <1>1, <1>3, <3>1 DEF ToSet
  <2>2. \A x \in ToSet(rest) : x \in ToSet(s)
    <3>1. \A i \in 1..(Len(s) - n) : rest[i] = s[n + i] /\ n + i \in 1..Len(s)
      BY <1>2, <1>3
    <3> QED
      BY SMTT(40), <1>2, <1>3, <3>1 DEF ToSet
  <2> QED
    BY <2>1, <2>2
<1>6. ToSet(some) \cap ToSet(rest) = {}
  <2>1. \A i \in 1..n, j \in 1..(Len(s) - n) : i \in 1..Len(s) /\ n + j \in 1..Len(s) /\ i # n + j
    BY <1>3
  <2>2. \A i \in 1..n, j \in 1..(Len(s) - n) : some[i] # rest[j]
    BY <1>1, <1>2, <1>3, <2>1
  <2> QED
    BY <1>1, <1>2, <2>2 DEF ToSet
<1>7. n # 0 => some # <<>>
  BY <1>1
<1> QED
  BY <1>1, <1>2, <1>4, <1>5, <1>6, <1>7 DEF some, rest

\* A set of places that is not empty has a greatest.
LEMMA GreatestOf ==
  ASSUME NEW n \in Nat, NEW M, M \subseteq 1..n, M # {}
  PROVE  Max(M) \in M
<1> DEFINE T == {n - i : i \in M}
<1>1. T \subseteq Nat /\ T # {}
  <2>1. \A i \in M : n - i \in Nat
    OBVIOUS
  <2>2. PICK i : i \in M
    OBVIOUS
  <2> QED
    BY <2>1, <2>2
<1>2. PICK x \in T : \A y \in T : x <= y
  <2> HIDE DEF T
  <2> QED
    BY <1>1, LeastMember
<1>3. PICK m \in M : x = n - m
  OBVIOUS
<1>4. ASSUME NEW i \in M PROVE m >= i
  <2>1. n - i \in T
    OBVIOUS
  <2>2. n - m <= n - i
    BY <1>2, <1>3, <2>1
  <2> QED
    BY <2>2
<1> QED
  BY <1>3, <1>4 DEF Max

-----------------------------------------------------------------------------
(* What Pending returns: Unanswered is a recursive function.               *)

\* The calls without a result, and no call more often than the message has it.
LEMMA UnansweredFacts ==
  ASSUME NEW s \in Seq(Calls), IsInjective(s)
  PROVE  /\ Unanswered(s) \in Seq(Calls) /\ IsInjective(Unanswered(s))
         /\ ToSet(Unanswered(s)) = ToSet(s) \ results
<1>1. PICK n : n \in Nat /\ n = Len(s)
  OBVIOUS
<1>2. PICK V : V = Seq(Calls)
  OBVIOUS
<1> DEFINE After(i, q) == IF s[i] \in results THEN q ELSE Append(q, s[i])
           Is(f) == f = [i \in 0..n |-> IF i = 0 THEN <<>>
                           ELSE IF s[i] \in results THEN f[i - 1] ELSE Append(f[i - 1], s[i])]
<1>3. PICK none : none = <<>>
  OBVIOUS
<1>4. ASSUME NEW i \in 1..n, NEW q \in V PROVE After(i, q) \in V
  BY <1>1, <1>2
<1>5. PICK step : step = [i \in 1..n |-> [q \in V |-> After(i, q)]]
  OBVIOUS
<1>6. step \in [1..n -> [V -> V]] /\ \A i \in 1..n, q \in V : step[i][q] = After(i, q)
  <2> HIDE DEF After
  <2> QED
    BY <1>4, <1>5
<1>7. PICK g \in [0..n -> V] : g[0] = none /\ \A i \in 1..n : g[i] = step[i][g[i - 1]]
  <2>1. none \in V
    BY <1>2, <1>3
  <2>2. step \in Steps(n, V)
    BY <1>6 DEF Steps
  <2>3. PICK g : Follows(g, n, V, none, step)
    BY <1>1, <2>1, <2>2, Recursion
  <2> QED
    BY <2>3 DEF Follows
<1>8. \E f : Is(f)
  <2>1. \A i \in 1..n : g[i] = After(i, g[i - 1])
    <3>1. \A i \in 1..n : i - 1 \in 0..n
      BY <1>1
    <3> HIDE DEF After
    <3> QED
      BY <1>6, <1>7, <3>1
  <2>2. \A i \in 0..n : g[i] = IF i = 0 THEN <<>> ELSE After(i, g[i - 1])
    <3>1. \A i \in 0..n : i = 0 \/ i \in 1..n
      BY <1>1
    <3> HIDE DEF After
    <3> QED
      BY <1>3, <1>7, <2>1, <3>1
  <2>3. Is(g)
    BY <2>2
  <2> HIDE DEF Is
  <2> QED
    BY <2>3
<1>9. PICK f : Is(f) /\ Unanswered(s) = f[n]
  BY <1>1, <1>8 DEF Unanswered
<1> DEFINE Kept(i) == {s[j] : j \in 1..i} \ results
           Good(i) == f[i] \in Seq(Calls) /\ IsInjective(f[i]) /\ ToSet(f[i]) = Kept(i)
           T == {i \in 0..n : Good(i)}
<1>10. \A i \in 1..n : s[i] \in Calls /\ i \in DOMAIN s
  BY <1>1
<1>11. 0 \in T
  <2>1. f[0] = <<>> /\ 0 \in 0..n
    BY <1>1, <1>9
  <2>2. <<>> \in Seq(Calls) /\ DOMAIN <<>> = {} /\ 1..0 = {}
    OBVIOUS
  <2>3. IsInjective(<<>>) /\ ToSet(<<>>) = {} /\ Kept(0) = {}
    BY <2>2 DEF IsInjective, ToSet
  <2> QED
    BY <2>1, <2>2, <2>3
<1>12. ASSUME NEW i \in 1..n, i - 1 \in T PROVE i \in T
  <2>1. i \in 0..n /\ i # 0 /\ i - 1 \in 0..n
    BY <1>1
  <2>2. f[i] = After(i, f[i - 1])
    BY <1>9, <2>1
  <2> DEFINE old == f[i - 1]
             new == Append(old, s[i])
  <2>3. old \in Seq(Calls) /\ IsInjective(old) /\ ToSet(old) = Kept(i - 1)
    BY <1>12
  <2>4. Kept(i) = Kept(i - 1) \cup ({s[i]} \ results)
    <3>1. 1..i = 1..(i - 1) \cup {i}
      BY <2>1
    <3> QED
      BY <3>1
  <2>5. CASE s[i] \in results
    BY <2>1, <2>2, <2>3, <2>4, <2>5
  <2>6. CASE s[i] \notin results
    <3>1. s[i] \notin ToSet(old)
      <4>1. \A j \in 1..(i - 1) : j \in 1..n /\ j # i
        BY <1>1
      <4>2. \A j \in 1..(i - 1) : s[j] # s[i]
        BY <1>10, <4>1 DEF IsInjective
      <4> QED
        BY <2>3, <4>2
    <3>2. /\ old \in Seq(Calls) /\ DOMAIN old = 1..Len(old) /\ Len(old) \in Nat
          /\ new \in Seq(Calls) /\ DOMAIN new = 1..(Len(old) + 1)
          /\ new[Len(old) + 1] = s[i] /\ \A j \in 1..Len(old) : new[j] = old[j]
      <4> HIDE DEF old
      <4> QED
        BY <1>10, <2>3
    <3>3. \A j \in 1..Len(old) : old[j] # s[i]
      BY <3>1, <3>2 DEF ToSet
    <3> HIDE DEF old, new
    <3>4. IsInjective(new)
      <4> SUFFICES ASSUME NEW j \in DOMAIN new, NEW k \in DOMAIN new, new[j] = new[k] PROVE j = k
        BY DEF IsInjective
      <4>1. CASE j \in DOMAIN old /\ k \in DOMAIN old
        BY <2>3, <3>2, <4>1 DEF IsInjective
      <4>2. CASE j \notin DOMAIN old \/ k \notin DOMAIN old
        <5>1. \A l \in DOMAIN new : l \in DOMAIN old \/ l = Len(old) + 1
          BY <3>2
        <5> QED
          BY <3>2, <3>3, <4>2, <5>1
      <4> QED
        BY <4>1, <4>2
    <3>5. ToSet(new) = ToSet(old) \cup {s[i]}
      <4>1. DOMAIN new = DOMAIN old \cup {Len(old) + 1}
        BY <3>2
      <4>2. \A j \in DOMAIN old : new[j] = old[j]
        BY <3>2
      <4> QED
        BY ZenonT(60), <3>2, <4>1, <4>2 DEF ToSet
    <3>6. f[i] = new
      BY <2>2, <2>6 DEF old, new
    <3>7. Kept(i) = Kept(i - 1) \cup {s[i]}
      BY <2>4, <2>6
    <3> HIDE DEF Kept
    <3>8. Good(i)
      BY <2>3, <3>2, <3>4, <3>5, <3>6, <3>7
    <3> HIDE DEF Good
    <3> QED
      BY <2>1, <3>8
  <2> QED
    BY <2>5, <2>6
<1>13. Good(n)
  <2> HIDE DEF Good
  <2>1. 0..n \subseteq T
    <3> HIDE DEF T
    <3> QED
      BY <1>1, <1>11, <1>12, Induction
  <2> QED
    BY <1>1, <2>1
<1>14. Kept(n) = ToSet(s) \ results
  BY <1>1 DEF ToSet
<1> QED
  BY <1>9, <1>13, <1>14

-----------------------------------------------------------------------------
(* The inductive invariant.                                                *)

\* No two runs are in flight together, of one runtime or of several.
OneAtATime == \A q, r \in InFlight : q = r

\* The model asks for a call once, and only calls of the last message lack a result.
Story ==
    /\ script \in Seq(Calls) /\ IsInjective(script)
    /\ batches \in Seq(Seq(Calls)) /\ \A i \in DOMAIN batches : IsInjective(batches[i])
    /\ ToSet(script) \cap Asked = {} /\ results \subseteq Asked
    /\ \A i \in DOMAIN batches : i # Len(batches) => ToSet(batches[i]) \subseteq results

\* What a run has before it is all that has no result.
AllBefore(q) ==
    /\ run[q].pc = "request" => Asked \subseteq results
    /\ run[q].pc \in {"tools", "exec"} =>
         /\ run[q].todo \in Seq(Calls) /\ IsInjective(run[q].todo)
         /\ ToSet(run[q].todo) = Asked \ results
    /\ run[q].pc = "exec" => run[q].todo # <<>>

\* The calls that are being executed.
Executing == {run[q].todo[1] : q \in {p \in Runs : run[p].pc = "exec"}}

\* A call was started once for its result or its execution, and once for every cut.
Counted ==
    /\ {begun, cut} \subseteq [Calls -> Nat]
    /\ \A c \in Calls : begun[c] <= cut[c] + (IF c \in results \cup Executing THEN 1 ELSE 0)

LoopInv == OwnInv /\ Story /\ (\A q \in Runs : AllBefore(q)) /\ Counted

-----------------------------------------------------------------------------
\* The calls before a run that takes up what is left are all without a result.
LEMMA PendingFacts ==
  ASSUME Story
  PROVE  /\ Pending \in Seq(Calls) /\ IsInjective(Pending)
         /\ ToSet(Pending) = Asked \ results
<1> DEFINE open == {i \in DOMAIN batches : Unanswered(batches[i]) # <<>>}
<1>1. \A i \in DOMAIN batches :
        /\ Unanswered(batches[i]) \in Seq(Calls) /\ IsInjective(Unanswered(batches[i]))
        /\ ToSet(Unanswered(batches[i])) = ToSet(batches[i]) \ results
  BY UnansweredFacts DEF Story
<1>2. ToSet(<<>>) = {} /\ IsInjective(<<>>) /\ <<>> \in Seq(Calls)
  BY DEF ToSet, IsInjective
<1>3. \A q \in Seq(Calls) : ToSet(q) = {} => q = <<>>
  BY DEF ToSet
<1>4. CASE open = {}
  <2>1. Pending = <<>>
    BY <1>4 DEF Pending
  <2>2. \A i \in DOMAIN batches : ToSet(batches[i]) \ results = {}
    BY <1>1, <1>2, <1>4
  <2>3. Asked \ results = {}
    BY <2>2 DEF Asked
  <2> QED
    BY <1>2, <2>1, <2>3
<1>5. CASE open # {}
  <2> DEFINE n == Len(batches)
  <2>1. open = {n}
    <3>1. \A i \in open : i = n
      BY <1>1, <1>3 DEF Story
    <3> HIDE DEF n
    <3> QED
      BY <1>5, <3>1
  <2>2. Max(open) = n
    <3>1. n \in Nat
      BY DEF Story
    <3> HIDE DEF n, open
    <3> QED
      BY <2>1, <3>1 DEF Max
  <2>3. Pending = Unanswered(batches[n]) /\ n \in DOMAIN batches
    BY <1>5, <2>1, <2>2 DEF Pending
  <2>4. Asked \ results = ToSet(batches[n]) \ results
    <3>1. \A i \in DOMAIN batches : i # n => ToSet(batches[i]) \subseteq results
      BY DEF Story
    <3> HIDE DEF n
    <3> QED
      BY <2>3, <3>1 DEF Asked
  <2> QED
    BY <1>1, <2>3, <2>4
<1> QED
  BY <1>4, <1>5

\* Where one run is in flight, the others neither ask nor execute.
LEMMA OthersRest ==
  ASSUME LoopInv, OneAtATime, NEW r \in InFlight
  PROVE  /\ r \in Runs
         /\ \A q \in Runs \ {r} : run[q].pc \notin {"request", "tools", "exec"}
         /\ Executing = IF run[r].pc = "exec" THEN {run[r].todo[1]} ELSE {}
<1>1. r \in Runs
  BY DEF InFlight
<1>2. \A q \in Runs \ {r} : q \notin InFlight
  BY <1>1 DEF OneAtATime
<1>3. \A q \in Runs \ {r} : run[q].pc \notin {"request", "tools", "exec"}
  BY <1>2 DEF InFlight
<1> QED
  BY <1>1, <1>3 DEF Executing

\* What a step of that run means for the others, and for what is executed.
LEMMA Alone ==
  ASSUME LoopInv, OneAtATime, NEW r \in InFlight, \A q \in Runs \ {r} : run'[q] = run[q]
  PROVE  /\ \A q \in Runs \ {r} : AllBefore(q)'
         /\ Executing' = IF run'[r].pc = "exec" THEN {run'[r].todo[1]} ELSE {}
<1>1. \A q \in Runs \ {r} : run'[q].pc \notin {"request", "tools", "exec"}
  BY OthersRest
<1> QED
  BY <1>1, OthersRest DEF AllBefore, Executing

\* A run that ends leaves nothing in flight.
LEMMA EndAlone ==
  ASSUME LoopInv, OneAtATime, NEW r \in InFlight, NEW status, Finishes(r, status)
  PROVE  (\A q \in Runs : AllBefore(q)') /\ Executing' = {}
<1>1. r \in Runs
  BY DEF InFlight
<1>2. run'[r].pc = "over" /\ \A q \in Runs \ {r} : run'[q] = run[q]
  BY <1>1 DEF LoopInv, OwnInv, OwnTyped, Finishes, NewRun
<1> QED
  BY <1>1, <1>2, Alone DEF AllBefore

\* A run that goes on.
LEMMA GoesAlone ==
  ASSUME LoopInv, OneAtATime, NEW r \in InFlight, NEW pc, NEW todo, NEW resumed,
         Goes(r, pc, todo, resumed)
  PROVE  /\ run'[r].pc = pc /\ run'[r].todo = todo
         /\ \A q \in Runs \ {r} : run'[q] = run[q]
<1>1. r \in Runs
  BY DEF InFlight
<1> QED
  BY <1>1 DEF LoopInv, OwnInv, OwnTyped, Goes, NewRun

-----------------------------------------------------------------------------
(* The steps.                                                              *)

LoopKept == Story' /\ (\A q \in Runs : AllBefore(q)') /\ Counted'

LEMMA LoopHeadKept ==
  ASSUME LoopInv, OneAtATime, NEW r \in Runs, LoopHead(r)
  PROVE  LoopKept
<1>1. r \in InFlight
  BY DEF LoopHead, InFlight
<1>2. Executing = {}
  BY <1>1, OthersRest DEF LoopHead
<1>3. Story'
  BY DEF LoopInv, Story, LoopHead, session, Asked
<1>4. (\A q \in Runs : AllBefore(q)') /\ Executing' = {}
  <2>1. CASE Finishes(r, "cancelled")
    BY <1>1, <2>1, EndAlone
  <2>2. CASE Goes(r, "tools", Pending, TRUE)
    <3>1. /\ run'[r].pc = "tools" /\ run'[r].todo = Pending
          /\ \A q \in Runs \ {r} : run'[q] = run[q]
      BY <1>1, <2>2, GoesAlone
    <3>2. Asked' = Asked /\ results' = results
      BY DEF LoopHead, session, Asked
    <3>3. AllBefore(r)'
      BY <3>1, <3>2, PendingFacts DEF LoopInv, AllBefore
    <3> QED
      BY <1>1, <3>1, <3>3, Alone
  <2>3. CASE Goes(r, "request", <<>>, FALSE) /\ Pending = <<>>
    <3>1. Asked \ results = {}
      BY <2>3, PendingFacts DEF LoopInv, ToSet
    <3>2. /\ run'[r].pc = "request"
          /\ \A q \in Runs \ {r} : run'[q] = run[q]
      BY <1>1, <2>3, GoesAlone
    <3>3. Asked' = Asked /\ results' = results
      BY DEF LoopHead, session, Asked
    <3>4. AllBefore(r)'
      BY <3>1, <3>2, <3>3 DEF AllBefore
    <3> QED
      BY <1>1, <3>2, <3>4, Alone
  <2> QED
    BY <2>1, <2>2, <2>3 DEF LoopHead
<1>5. Counted'
  BY <1>2, <1>4 DEF LoopInv, Counted, LoopHead, session
<1> QED
  BY <1>3, <1>4, <1>5 DEF LoopKept

\* The calls are done.
LEMMA ToolsDoneKept ==
  ASSUME LoopInv, OneAtATime, NEW r \in Runs, ToolsDone(r)
  PROVE  LoopKept
<1>1. r \in InFlight
  BY DEF ToolsDone, InFlight
<1>2. Executing = {}
  BY <1>1, OthersRest DEF ToolsDone
<1>3. Asked' = Asked /\ results' = results
  BY DEF ToolsDone, session, Asked
<1>4. Story'
  BY DEF LoopInv, Story, ToolsDone, session, Asked
<1>5. (\A q \in Runs : AllBefore(q)') /\ Executing' = {}
  <2>1. CASE Finishes(r, "cancelled")
    BY <1>1, <2>1, EndAlone
  <2>2. ASSUME NEW pc \in {"request", "head"}, Goes(r, pc, <<>>, FALSE)
        PROVE  (\A q \in Runs : AllBefore(q)') /\ Executing' = {}
    <3>1. Asked \subseteq results
      BY DEF LoopInv, AllBefore, ToolsDone, ToSet
    <3>2. run'[r].pc = pc /\ \A q \in Runs \ {r} : run'[q] = run[q]
      BY <1>1, <2>2, GoesAlone
    <3>3. AllBefore(r)'
      BY <1>3, <3>1, <3>2 DEF AllBefore
    <3> QED
      BY <1>1, <3>2, <3>3, Alone
  <2> QED
    BY <2>1, <2>2 DEF ToolsDone
<1>6. Counted'
  BY <1>2, <1>5 DEF LoopInv, Counted, ToolsDone, session
<1> QED
  BY <1>4, <1>5, <1>6 DEF LoopKept

\* A call that gets its result, executed or not: the run goes on with the rest, or ends.
LEMMA ResultKept ==
  ASSUME LoopInv, OneAtATime, NEW r \in Runs, run[r].pc \in {"tools", "exec"},
         run[r].todo # <<>>, results' = results \cup {run[r].todo[1]},
         UNCHANGED <<script, batches, begun, cut>>,
         Skips(r) \/ \E status : Finishes(r, status)
  PROVE  LoopKept
<1> DEFINE todo == run[r].todo
           c == todo[1]
<1>1. r \in InFlight
  BY DEF InFlight
<1>2. todo \in Seq(Calls) /\ IsInjective(todo) /\ ToSet(todo) = Asked \ results
  BY DEF LoopInv, AllBefore
<1>3. /\ Tail(todo) \in Seq(Calls) /\ IsInjective(Tail(todo))
      /\ ToSet(Tail(todo)) = ToSet(todo) \ {c} /\ c \in ToSet(todo)
  BY <1>2, TailFacts
<1>4. Asked' = Asked
  BY DEF Asked
<1>5. Story'
  BY <1>2, <1>3, <1>4 DEF LoopInv, Story
<1>6. (\A q \in Runs : AllBefore(q)') /\ Executing' = {}
  <2>1. ASSUME NEW status, Finishes(r, status)
        PROVE  (\A q \in Runs : AllBefore(q)') /\ Executing' = {}
    BY <1>1, <2>1, EndAlone
  <2>2. CASE Skips(r)
    <3>1. /\ run'[r].pc = "tools" /\ run'[r].todo = Tail(todo)
          /\ \A q \in Runs \ {r} : run'[q] = run[q]
      BY <1>1, <2>2, GoesAlone DEF Skips
    <3>2. ToSet(Tail(todo)) = Asked' \ results'
      BY <1>2, <1>3, <1>4
    <3>3. AllBefore(r)'
      BY <1>3, <3>1, <3>2 DEF AllBefore
    <3> QED
      BY <1>1, <3>1, <3>3, Alone
  <2> QED
    BY <2>1, <2>2
<1>7. Counted'
  <2>1. Executing \subseteq {c}
    BY <1>1, OthersRest
  <2>2. results \cup Executing \subseteq results' \cup Executing'
    BY <2>1
  <2>3. \A d \in Calls : begun[d] \in Nat /\ cut[d] \in Nat
    BY DEF LoopInv, Counted
  <2> QED
    BY <2>2, <2>3 DEF LoopInv, Counted
<1> QED
  BY <1>5, <1>6, <1>7 DEF LoopKept

\* A call that is started had neither a result nor an execution.
LEMMA StartedKept ==
  ASSUME LoopInv, OneAtATime, NEW r \in Runs, run[r].pc = "tools", run[r].todo # <<>>,
         Started(r, run[r].todo[1]), cut' = cut
  PROVE  LoopKept
<1> DEFINE todo == run[r].todo
           c == todo[1]
<1>1. r \in InFlight
  BY DEF InFlight
<1>2. todo \in Seq(Calls) /\ IsInjective(todo) /\ ToSet(todo) = Asked \ results
  BY DEF LoopInv, AllBefore
<1>3. c \in Calls /\ c \notin results
  BY <1>2, TailFacts
<1>4. Asked' = Asked /\ results' = results
  BY DEF Started, session, Asked
<1>5. Story'
  BY <1>4 DEF LoopInv, Story, Started, session
<1>6. /\ run'[r].pc = "exec" /\ run'[r].todo = todo
      /\ \A q \in Runs \ {r} : run'[q] = run[q]
  BY <1>1, GoesAlone DEF Started
<1>7. \A q \in Runs : AllBefore(q)'
  <2>1. AllBefore(r)'
    BY <1>2, <1>4, <1>6 DEF AllBefore
  <2> QED
    BY <1>1, <1>6, <2>1, Alone
<1>8. Executing = {} /\ Executing' = {c}
  BY <1>1, <1>6, OthersRest, Alone
<1>9. Counted'
  <2>1. begun' = [begun EXCEPT ![c] = @ + 1] /\ begun \in [Calls -> Nat] /\ cut \in [Calls -> Nat]
    BY DEF Started, LoopInv, Counted
  <2>2. begun' \in [Calls -> Nat]
    BY <1>3, <2>1
  <2>3. begun'[c] <= cut[c] + 1
    <3>1. begun[c] <= cut[c]
      BY <1>3, <1>8 DEF LoopInv, Counted
    <3> QED
      BY <1>3, <2>1, <3>1
  <2>4. \A d \in Calls \ {c} : begun'[d] <= cut[d] + (IF d \in results \cup {c} THEN 1 ELSE 0)
    BY <1>8, <2>1 DEF LoopInv, Counted
  <2> QED
    BY <1>4, <1>8, <2>1, <2>2, <2>3, <2>4 DEF Counted
<1> QED
  BY <1>5, <1>7, <1>9 DEF LoopKept

\* The end of a run that executes nothing.
LEMMA OverKept ==
  ASSUME LoopInv, OneAtATime, NEW r \in InFlight, run[r].pc # "exec",
         UNCHANGED <<script, batches, results, begun, cut>>, NEW status, Finishes(r, status)
  PROVE  LoopKept
<1>1. Executing = {} /\ Executing' = {} /\ \A q \in Runs : AllBefore(q)'
  BY OthersRest, EndAlone
<1>2. Story'
  BY DEF LoopInv, Story, Asked
<1>3. Counted'
  BY <1>1 DEF LoopInv, Counted
<1> QED
  BY <1>1, <1>2, <1>3 DEF LoopKept

\* The call at hand is refused, answered, started, or the run parks at it.
LEMMA CallKept ==
  ASSUME LoopInv, OneAtATime, NEW r \in Runs, Call(r)
  PROVE  LoopKept
<1> DEFINE c == run[r].todo[1]
           loop == Ask("loop", ArgsOf[c])
           own == IF Repeated(c) THEN RulesAfter(rules[RuntimeOf[r]], loop) ELSE rules[RuntimeOf[r]]
<1>1. r \in InFlight /\ run[r].pc = "tools" /\ run[r].todo # <<>> /\ cut' = cut
  BY DEF Call, InFlight
<1>2. ASSUME Answered(r, c) PROVE LoopKept
  BY <1>1, <1>2, ResultKept DEF Answered
<1>3. ASSUME Started(r, c) PROVE LoopKept
  BY <1>1, <1>3, StartedKept
<1>4. ASSUME NEW ask, NEW status, Parked(r, ask, status) PROVE LoopKept
  BY <1>1, <1>4, OverKept DEF Parked, session
<1>5. ASSUME Execute(r, c, own) PROVE LoopKept
  BY <1>2, <1>3, <1>4, <1>5 DEF Execute
<1>6. ASSUME Finishes(r, "cancelled"), UNCHANGED <<session, begun>> PROVE LoopKept
  BY <1>1, <1>6, OverKept DEF session
<1>7. \/ Finishes(r, "cancelled") /\ UNCHANGED <<session, begun>>
      \/ Answered(r, c)
      \/ Execute(r, c, own)
      \/ Parked(r, loop, "permission")
  BY DEF Call
<1> QED
  BY <1>2, <1>4, <1>5, <1>6, <1>7

\* The result of an execution.
LEMMA ReturnKept ==
  ASSUME LoopInv, OneAtATime, NEW r \in Runs, Return(r)
  PROVE  LoopKept
<1>1. run[r].pc = "exec" /\ run[r].todo # <<>>
  BY DEF LoopInv, AllBefore, Return
<1>2. results' = results \cup {run[r].todo[1]} /\ UNCHANGED <<script, batches, begun, cut>>
  BY DEF Return, WithResult
<1>3. Skips(r) \/ \E status : Finishes(r, status)
  BY DEF Return
<1> QED
  BY <1>1, <1>2, <1>3, ResultKept

\* A reply asks for calls that were not asked for, when all before have their results.
LEMMA RepliesStory ==
  ASSUME Story, Asked \subseteq results, results' = results, NEW n \in 0..MaxBatch, Replies(n)
  PROVE  /\ Story'
         /\ n > 0 => LET some == SubSeq(script, 1, n)
                     IN some \in Seq(Calls) /\ IsInjective(some) /\ ToSet(some) = Asked' \ results'
<1> DEFINE some == SubSeq(script, 1, n)
           rest == SubSeq(script, n + 1, Len(script))
<1>1. script \in Seq(Calls) /\ IsInjective(script) /\ n \in 0..Len(script)
  BY AgentAssumption DEF Story, Replies
<1>2. /\ some \in Seq(Calls) /\ rest \in Seq(Calls) /\ IsInjective(some) /\ IsInjective(rest)
      /\ ToSet(some) \subseteq ToSet(script) /\ ToSet(rest) \subseteq ToSet(script)
      /\ ToSet(some) \cap ToSet(rest) = {}
  BY <1>1, SplitFacts
<1>3. /\ script' = rest /\ batches' = IF n = 0 THEN batches ELSE Append(batches, some)
      /\ batches \in Seq(Seq(Calls)) /\ n \in Nat
  BY <1>1 DEF Replies, Story
<1> HIDE DEF some, rest
<1>4. CASE n = 0
  <2>1. batches' = batches /\ Asked' = Asked
    BY <1>3, <1>4 DEF Asked
  <2>2. Story'
    BY <1>2, <1>3, <2>1 DEF Story
  <2> QED
    BY <1>4, <2>2
<1>5. CASE n # 0
  <2> DEFINE m == Len(batches)
  <2>1. /\ m \in Nat /\ DOMAIN batches = 1..m /\ Len(batches') = m + 1
        /\ DOMAIN batches' = 1..(m + 1) /\ batches' \in Seq(Seq(Calls))
        /\ batches'[m + 1] = some /\ \A i \in 1..m : batches'[i] = batches[i]
    BY <1>2, <1>3, <1>5
  <2> HIDE DEF m
  <2>2. 1..(m + 1) = 1..m \cup {m + 1}
    BY <2>1
  <2>3. Asked' = Asked \cup ToSet(some)
    BY SMTT(40), <2>1, <2>2 DEF Asked
  <2>4. ToSet(some) = Asked' \ results'
    BY <1>2, <2>3 DEF Story
  <2>5. \A i \in DOMAIN batches' : IsInjective(batches'[i])
    BY <1>2, <2>1, <2>2 DEF Story
  <2>6. \A i \in DOMAIN batches' : i # Len(batches') => ToSet(batches'[i]) \subseteq results'
    <3>1. \A i \in 1..m : ToSet(batches[i]) \subseteq results
      BY <2>1 DEF Asked
    <3> QED
      BY <2>1, <2>2, <3>1
  <2>7. ToSet(script') \cap Asked' = {}
    BY <1>2, <1>3, <2>3 DEF Story
  <2>8. Story'
    BY SMTT(40), <1>2, <1>3, <2>1, <2>3, <2>5, <2>6, <2>7 DEF Story
  <2> QED
    BY <1>2, <2>4, <2>8 DEF some
<1> QED
  BY <1>4, <1>5

\* Another attempt, or a reply that ends the run or gives it calls to execute.
LEMMA RequestKept ==
  ASSUME LoopInv, OneAtATime, NEW r \in Runs, Request(r)
  PROVE  LoopKept
<1>1. /\ r \in InFlight /\ run[r].pc = "request" /\ Asked \subseteq results
      /\ results' = results /\ UNCHANGED <<begun, cut>>
  BY DEF Request, InFlight, LoopInv, AllBefore
<1>2. Executing = {}
  BY <1>1, OthersRest
<1>3. ASSUME Executing' = {} PROVE Counted'
  BY <1>1, <1>2, <1>3 DEF LoopInv, Counted
<1>4. CASE run' = [run EXCEPT ![r].tries = Attempts(r)] /\ UNCHANGED <<script, batches>>
  <2>1. run'[r].pc = "request" /\ \A q \in Runs \ {r} : run'[q] = run[q]
    BY <1>1, <1>4 DEF LoopInv, OwnInv, OwnTyped, NewRun
  <2>2. Asked' = Asked
    BY <1>4 DEF Asked
  <2>3. AllBefore(r)'
    BY <1>1, <2>1, <2>2 DEF AllBefore
  <2>4. Story'
    BY <1>1, <1>4, <2>2 DEF LoopInv, Story
  <2>5. (\A q \in Runs : AllBefore(q)') /\ Executing' = {}
    BY <1>1, <2>1, <2>3, Alone
  <2> QED
    BY <1>3, <2>4, <2>5 DEF LoopKept
<1>5. ASSUME NEW status, Finishes(r, status), UNCHANGED <<script, batches>> PROVE LoopKept
  BY <1>1, <1>5, OverKept
<1>6. ASSUME NEW n \in 0..MaxBatch, Replies(n), NEW status, Finishes(r, status) PROVE LoopKept
  <2>1. (\A q \in Runs : AllBefore(q)') /\ Executing' = {}
    BY <1>1, <1>6, EndAlone
  <2>2. Story'
    BY <1>1, <1>6, RepliesStory DEF LoopInv
  <2> QED
    BY <1>3, <2>1, <2>2 DEF LoopKept
<1>7. ASSUME NEW n \in 0..MaxBatch, Replies(n), n > 0,
             run' = [run EXCEPT ![r] = [run[r] EXCEPT !.pc = "tools", !.todo = SubSeq(script, 1, n),
                               !.resumed = FALSE, !.step = @ + 1, !.tries = 0]]
      PROVE  LoopKept
  <2> DEFINE some == SubSeq(script, 1, n)
  <2>1. Story' /\ some \in Seq(Calls) /\ IsInjective(some) /\ ToSet(some) = Asked' \ results'
    BY <1>1, <1>7, RepliesStory DEF LoopInv
  <2>2. run'[r].pc = "tools" /\ run'[r].todo = some /\ \A q \in Runs \ {r} : run'[q] = run[q]
    BY <1>1, <1>7 DEF LoopInv, OwnInv, OwnTyped, NewRun
  <2> HIDE DEF some
  <2>3. AllBefore(r)'
    BY <2>1, <2>2 DEF AllBefore
  <2>4. (\A q \in Runs : AllBefore(q)') /\ Executing' = {}
    BY <1>1, <2>2, <2>3, Alone
  <2> QED
    BY <1>3, <2>1, <2>4 DEF LoopKept
<1> QED
  BY <1>4, <1>5, <1>6, <1>7 DEF Request

\* A run that is torn down may leave the call it executed without a result.
LEMMA InterruptKept ==
  ASSUME LoopInv, OneAtATime, NEW r \in Runs, Interrupt(r)
  PROVE  LoopKept
<1>1. r \in InFlight /\ begun' = begun /\ UNCHANGED session /\ \E status : Finishes(r, status)
  BY DEF Interrupt
<1>2. (\A q \in Runs : AllBefore(q)') /\ Executing' = {}
  BY <1>1, EndAlone
<1>3. Story'
  BY <1>1 DEF LoopInv, Story, session, Asked
<1>4. Counted'
  <2>1. CASE run[r].pc # "exec"
    BY <1>1, <1>2, <2>1, OthersRest DEF LoopInv, Counted, Interrupt, session
  <2>2. CASE run[r].pc = "exec"
    <3> DEFINE c == run[r].todo[1]
    <3>1. c \in Calls /\ c \notin results
      BY <2>2, TailFacts DEF LoopInv, AllBefore
    <3>2. cut' = [cut EXCEPT ![c] = @ + 1] /\ Executing = {c} /\ results' = results
      BY <1>1, <2>2, OthersRest DEF Interrupt, session
    <3>3. begun \in [Calls -> Nat] /\ cut \in [Calls -> Nat]
      BY DEF LoopInv, Counted
    <3> HIDE DEF c
    <3>4. cut' \in [Calls -> Nat] /\ begun[c] <= cut'[c]
      <4>1. begun[c] <= cut[c] + 1
        BY <3>1, <3>2 DEF LoopInv, Counted
      <4> QED
        BY <3>1, <3>2, <3>3, <4>1
    <3>5. \A d \in Calls \ {c} : begun[d] <= cut'[d] + (IF d \in results THEN 1 ELSE 0)
      BY <3>2, <3>3 DEF LoopInv, Counted
    <3> QED
      BY <1>1, <1>2, <3>1, <3>2, <3>3, <3>4, <3>5 DEF Counted
  <2> QED
    BY <2>1, <2>2
<1> QED
  BY <1>2, <1>3, <1>4 DEF LoopKept

\* Where the runs keep their places and what is before them, nothing changes.
LEMMA IdleKept ==
  ASSUME LoopInv, UNCHANGED <<script, batches, results, begun, cut>>,
         \A q \in Runs :
           \/ run'[q].pc = run[q].pc /\ run'[q].todo = run[q].todo
           \/ run'[q].pc = "head" /\ run[q].pc = "idle"
  PROVE  LoopKept
<1>1. Story' /\ Asked' = Asked /\ results' = results
  BY DEF LoopInv, Story, Asked
<1>2. \A q \in Runs : AllBefore(q)'
  BY <1>1 DEF LoopInv, AllBefore
<1>3. Executing' = Executing
  BY DEF Executing
<1>4. Counted'
  BY <1>1, <1>3 DEF LoopInv, Counted
<1> QED
  BY <1>1, <1>2, <1>4 DEF LoopKept

-----------------------------------------------------------------------------
LEMMA InitLoop == Init => LoopInv
<1> SUFFICES ASSUME Init PROVE LoopInv
  OBVIOUS
<1>1. Story
  <2>1. script \in Seq(Calls) /\ IsInjective(script)
    BY AgentAssumption DEF Init
  <2>2. batches \in Seq(Seq(Calls)) /\ DOMAIN batches = {} /\ Asked = {}
    BY DEF Init, Asked
  <2> QED
    BY <2>1, <2>2 DEF Init, Story
<1>2. \A q \in Runs : run[q].pc = "idle"
  BY DEF Init, NewRun
<1>3. (\A q \in Runs : AllBefore(q)) /\ Executing = {}
  BY <1>2 DEF AllBefore, Executing
<1>4. Counted
  BY <1>3 DEF Init, Counted
<1> QED
  BY <1>1, <1>3, <1>4, InitOwn DEF LoopInv

\* Every step keeps the invariant.
LEMMA NextLoop ==
  ASSUME OneAtATime, LoopInv, [Next]_vars
  PROVE  LoopInv'
<1>1. ASSUME NEW r \in Runs, Begin(r) PROVE LoopKept
  <2>1. \A q \in Runs :
          \/ run'[q].pc = run[q].pc /\ run'[q].todo = run[q].todo
          \/ run'[q].pc = "head" /\ run[q].pc = "idle"
    BY <1>1 DEF Begin, LoopInv, OwnInv, OwnTyped, NewRun
  <2> QED
    BY <1>1, <2>1, IdleKept DEF Begin
<1>2. ASSUME NEW r \in Runs, Interrupt(r) PROVE LoopKept
  BY <1>2, InterruptKept
<1>3. ASSUME NEW r \in Runs, Step(r) PROVE LoopKept
  BY <1>3, LoopHeadKept, RequestKept, ToolsDoneKept, CallKept, ReturnKept DEF Step
<1>4. ASSUME NEW rt \in Runtimes, Cancel(rt) PROVE LoopKept
  <2>1. record[rt].owner \in Runs
    BY <1>4 DEF Cancel, LoopInv, OwnInv, ActiveIsOwned
  <2>2. \A q \in Runs : run'[q].pc = run[q].pc /\ run'[q].todo = run[q].todo
    BY <1>4, <2>1 DEF Cancel, LoopInv, OwnInv, OwnTyped, NewRun
  <2> QED
    BY <1>4, <2>2, IdleKept DEF Cancel, session
<1>5. ASSUME UNCHANGED <<session, run, begun, cut>> PROVE LoopKept
  <2>1. \A q \in Runs :
          \/ run'[q].pc = run[q].pc /\ run'[q].todo = run[q].todo
          \/ run'[q].pc = "head" /\ run[q].pc = "idle"
    BY <1>5
  <2> QED
    BY <1>5, <2>1, IdleKept DEF session
<1>6. ASSUME NEW rt \in Runtimes, NEW ask \in asking[rt], Answer(rt, ask) PROVE LoopKept
  BY <1>5, <1>6 DEF Answer
<1>7. ASSUME NEW rt \in Runtimes, NEW ask \in asking[rt], NEW action \in {"allow", "deny"},
             NEW always \in BOOLEAN, Decide(rt, ask, action, always)
      PROVE  LoopKept
  BY <1>5, <1>7 DEF Decide
<1>8. ASSUME UNCHANGED vars \/ \E rt \in Runtimes : \E p \in Runtimes \ {rt} : \E ask \in asking[p] : Seed(rt, ask)
      PROVE  LoopKept
  BY <1>5, <1>8 DEF vars, Seed
<1>9. LoopKept
  BY <1>1, <1>2, <1>3, <1>4, <1>6, <1>7, <1>8 DEF Next
<1>10. OwnInv'
  BY NextOwn DEF LoopInv
<1> QED
  BY <1>9, <1>10 DEF LoopInv, LoopKept

\* Runs overlap only where one begins while another is in flight, and it is remembered.
LEMMA StepOverlaps ==
  ASSUME OwnInv, [Next]_vars
  PROVE  \/ overlapped' = overlapped /\ InFlight' \subseteq InFlight
         \/ \E r \in Runs : /\ overlapped' = (overlapped \/ InFlight # {})
                           /\ InFlight' \subseteq InFlight \cup {r}
<1> DEFINE Stays == overlapped' = overlapped /\ InFlight' \subseteq InFlight
<1>1. ASSUME NEW r \in Runs, Begin(r)
      PROVE  overlapped' = (overlapped \/ InFlight # {}) /\ InFlight' \subseteq InFlight \cup {r}
  BY <1>1 DEF Begin, InFlight, OwnInv, OwnTyped
<1>2. ASSUME NEW r \in Runs, Moves(r) \/ Ends(r), r \in InFlight PROVE InFlight' \subseteq InFlight
  BY <1>2 DEF Moves, Ends, Finishes, InFlight, OwnInv, OwnTyped
<1>3. ASSUME NEW r \in Runs, Interrupt(r) PROVE Stays
  BY <1>2, <1>3 DEF Interrupt, Ends, session
<1>4. ASSUME NEW r \in Runs, Step(r) PROVE Stays
  <2>1. InFlight' \subseteq InFlight
    BY <1>2, <1>4, StepShape DEF OwnInv
  <2>2. overlapped' = overlapped
    <3>1. ASSUME Call(r) PROVE overlapped' = overlapped
      BY <3>1 DEF Call, Execute, Answered, Started, Parked, session
    <3> QED
      BY <1>4, <3>1 DEF Step, LoopHead, Request, ToolsDone, Return, session
  <2> QED
    BY <2>1, <2>2
<1>5. ASSUME NEW rt \in Runtimes, Cancel(rt) PROVE Stays
  <2>1. \A q \in Runs : run'[q].pc = run[q].pc
    BY <1>5 DEF Cancel, OwnInv, OwnTyped, ActiveIsOwned, NewRun
  <2> QED
    BY <1>5, <2>1 DEF Cancel, InFlight, session
<1>6. ASSUME UNCHANGED <<run, session>> PROVE Stays
  BY <1>6 DEF InFlight, session
<1>7. \/ \E r \in Runs : Begin(r) \/ Interrupt(r) \/ Step(r)
      \/ \E rt \in Runtimes : Cancel(rt)
      \/ UNCHANGED <<run, session>>
  BY DEF Next, Answer, Seed, Decide, vars
<1> QED
  BY <1>1, <1>3, <1>4, <1>5, <1>6, <1>7

\* As long as no runs overlapped, one was in flight at a time.
SessionInv ==
    /\ OwnInv /\ overlapped \in BOOLEAN
    /\ ~overlapped => OneAtATime /\ LoopInv

LEMMA InitSession == Init => SessionInv
<1>1. Init => OneAtATime
  BY DEF Init, OneAtATime, InFlight, NewRun
<1>2. Init => overlapped \in BOOLEAN
  BY DEF Init
<1> QED
  BY <1>1, <1>2, InitOwn, InitLoop DEF SessionInv

LEMMA NextSession == SessionInv /\ [Next]_vars => SessionInv'
<1> SUFFICES ASSUME SessionInv, [Next]_vars PROVE SessionInv'
  OBVIOUS
<1>1. OwnInv' /\ OwnInv
  BY NextOwn DEF SessionInv
<1>2. PICK some \in BOOLEAN : some = (InFlight # {})
  OBVIOUS
<1>3. overlapped' \in BOOLEAN /\ (~overlapped' => ~overlapped)
  BY ZenonT(60), <1>1, StepOverlaps DEF SessionInv
<1>4. ASSUME ~overlapped' PROVE OneAtATime'
  <2>1. OneAtATime /\ ~overlapped
    BY <1>3, <1>4 DEF SessionInv
  <2>2. CASE InFlight' \subseteq InFlight
    BY <2>1, <2>2 DEF OneAtATime
  <2>3. ASSUME NEW r \in Runs, overlapped' = (overlapped \/ InFlight # {}),
               InFlight' \subseteq InFlight \cup {r}
        PROVE  OneAtATime'
    <3>1. InFlight = {}
      BY <1>4, <2>3
    <3> QED
      BY <2>3, <3>1 DEF OneAtATime
  <2> QED
    BY <1>1, <2>2, <2>3, StepOverlaps
<1>5. ASSUME ~overlapped' PROVE LoopInv'
  BY <1>3, <1>5, NextLoop DEF SessionInv
<1> QED
  BY <1>1, <1>3, <1>4, <1>5 DEF SessionInv

LEMMA SessionHolds == Spec => []SessionInv
BY InitSession, NextSession, PTL DEF Spec

\* Unless runs of the session overlapped, the provider is never sent a call that has no
\* result, however the runs before ended, whatever calls they left and whichever runtimes
\* they were of.
THEOREM RequestsArePaired == Spec => []RequestIsPaired
<1>1. SessionInv => RequestIsPaired
  BY DEF SessionInv, LoopInv, AllBefore, RequestIsPaired
<1> QED
  BY <1>1, SessionHolds, PTL

\* Unless runs of the session overlapped, a tool runs once for a call, and once more for
\* every time its run was torn down before the result was in the history.
THEOREM CallsRunOnce == Spec => []ExecutedOnce
<1>1. SessionInv => ExecutedOnce
  BY DEF SessionInv, LoopInv, Counted, ExecutedOnce
<1> QED
  BY <1>1, SessionHolds, PTL

-----------------------------------------------------------------------------
(* Permissions.  A rule that decides once is a ticket: the user's grant    *)
(* makes one, and the call it lets through uses it up.                     *)

Rules == [action : {"allow", "deny"}, once : BOOLEAN, asks : SUBSET Permissions]

\* The tickets for a call with arguments a among the rules of a runtime.
Tickets(own, a) ==
    {i \in DOMAIN own : own[i].once /\ own[i].action = "allow" /\ Ask("gate", a) \in own[i].asks}

AllTickets(all, a) == {p \in Runtimes \X Nat : p[2] \in Tickets(all[p[1]], a)}

Starts(times, a) == UNION {{c} \X (1..times[c]) : c \in {d \in Calls : KindOf[d] = "gated" /\ ArgsOf[d] = a}}

Granted(a) == {g \in grants.once : g.ask = Ask("gate", a) /\ g.action = "allow"}

AllowedForGood == \E g \in grants.always : g.ask.kind = "gate" /\ g.action = "allow"

\* A rule that stays and allows a call was granted for good.
StayingIsGranted ==
    \A rt \in Runtimes : \A i \in DOMAIN rules[rt] :
        /\ ~rules[rt][i].once /\ rules[rt][i].action = "allow"
        /\ \E a \in Args : Ask("gate", a) \in rules[rt][i].asks
        => AllowedForGood

\* The grants for one request are numbered.
Numbered ==
    /\ IsFiniteSet(grants.once)
    /\ \A g \in grants.once : g.no \in Nat /\ g.no <= Cardinality({h \in grants.once : h.ask = g.ask})

\* What was started and what may still be is no more than what was granted.
Covered(a) ==
    /\ IsFiniteSet(Starts(begun, a)) /\ IsFiniteSet(AllTickets(rules, a))
    /\ Cardinality(Starts(begun, a)) + Cardinality(AllTickets(rules, a)) <= Cardinality(Granted(a))

GrantInv ==
    /\ DOMAIN grants = {"once", "always"}
    /\ rules \in [Runtimes -> Seq(Rules)] /\ begun \in [Calls -> Nat]
    /\ StayingIsGranted /\ Numbered
    /\ AllowedForGood \/ \A a \in Args : Covered(a)

\* What of it changes with the rules and the starts of one run.
LEMMA TicketsFinite ==
  ASSUME NEW own \in Seq(Rules), NEW a
  PROVE  IsFiniteSet(Tickets(own, a)) /\ Cardinality(Tickets(own, a)) \in Nat
<1>1. IsFiniteSet(1..Len(own)) /\ DOMAIN own = 1..Len(own)
  BY FS_Interval
<1>2. Tickets(own, a) \in SUBSET (1..Len(own))
  BY <1>1 DEF Tickets
<1> QED
  BY <1>1, <1>2, FS_Subset, FS_CardinalityType

\* What is left of a sequence without its i-th member.
LEMMA RemoveAtFacts ==
  ASSUME NEW S, NEW s \in Seq(S), NEW i \in DOMAIN s
  PROVE  /\ Len(s) \in Nat /\ DOMAIN s = 1..Len(s) /\ i \in 1..Len(s)
         /\ RemoveAt(s, i) \in Seq(S) /\ Len(RemoveAt(s, i)) = Len(s) - 1
         /\ DOMAIN RemoveAt(s, i) = 1..(Len(s) - 1)
         /\ \A j \in 1..(Len(s) - 1) : RemoveAt(s, i)[j] = IF j < i THEN s[j] ELSE s[j + 1]
<1> DEFINE n == Len(s)
           l == SubSeq(s, 1, i - 1)
           r == SubSeq(s, i + 1, n)
<1>1. n \in Nat /\ DOMAIN s = 1..n /\ i \in 1..n
  OBVIOUS
<1>2. /\ l \in Seq(S) /\ Len(l) = i - 1 /\ DOMAIN l = 1..(i - 1)
      /\ \A j \in 1..(i - 1) : l[j] = s[j]
  BY <1>1
<1>3. /\ r \in Seq(S) /\ Len(r) = n - i /\ DOMAIN r = 1..(n - i)
      /\ \A j \in 1..(n - i) : r[j] = s[i + j]
  BY <1>1
<1> HIDE DEF l, r, n
<1>4. /\ (l \o r) \in Seq(S) /\ Len(l \o r) = n - 1 /\ DOMAIN (l \o r) = 1..(n - 1)
      /\ \A j \in 1..(n - 1) : (l \o r)[j] = IF j < i THEN l[j] ELSE r[j - i + 1]
  <2>1. (l \o r) \in Seq(S) /\ Len(l \o r) = Len(l) + Len(r)
    BY <1>2, <1>3, ConcatProperties
  <2>2. Len(l) + Len(r) = n - 1
    BY <1>1, <1>2, <1>3
  <2>3. \A j \in 1..(Len(l) + Len(r)) :
           (l \o r)[j] = IF j <= Len(l) THEN l[j] ELSE r[j - Len(l)]
    BY SMTT(40), <1>2, <1>3
  <2>4. \A j \in 1..(n - 1) : /\ (j <= Len(l)) = (j < i) /\ j - Len(l) = j - i + 1
    BY <1>1, <1>2
  <2> QED
    BY <2>1, <2>2, <2>3, <2>4
<1>5. ASSUME NEW j \in 1..(n - 1) PROVE (l \o r)[j] = IF j < i THEN s[j] ELSE s[j + 1]
  <2>1. CASE j < i
    BY <1>1, <1>2, <1>4, <2>1
  <2>2. CASE ~(j < i)
    <3>1. j - i + 1 \in 1..(n - i) /\ i + (j - i + 1) = j + 1
      BY <1>1, <2>2
    <3> QED
      BY <1>3, <1>4, <2>2, <3>1
  <2> QED
    BY <2>1, <2>2
<1> QED
  BY <1>1, <1>4, <1>5 DEF RemoveAt, l, r, n

\* A rule that is used up is one ticket less, if it was one.
LEMMA RemovedTicket ==
  ASSUME NEW own \in Seq(Rules), NEW i \in DOMAIN own, NEW a
  PROVE  /\ RemoveAt(own, i) \in Seq(Rules)
         /\ \A j \in DOMAIN RemoveAt(own, i) : \E k \in DOMAIN own : RemoveAt(own, i)[j] = own[k]
         /\ Cardinality(Tickets(RemoveAt(own, i), a)) <= Cardinality(Tickets(own, a) \ {i})
<1> DEFINE new == RemoveAt(own, i)
           n == Len(own)
<1>1. /\ n \in Nat /\ DOMAIN own = 1..n /\ i \in 1..n
      /\ new \in Seq(Rules) /\ Len(new) = n - 1 /\ DOMAIN new = 1..(n - 1)
      /\ \A j \in 1..(n - 1) : new[j] = IF j < i THEN own[j] ELSE own[j + 1]
  BY RemoveAtFacts
<1> HIDE DEF new, n
<1> DEFINE S == Tickets(new, a)
           T == Tickets(own, a) \ {i}
           f == [j \in S |-> IF j < i THEN j ELSE j + 1]
<1>2. \A j \in S : j \in 1..(n - 1) /\ f[j] \in T
  BY <1>1 DEF Tickets
<1>3. \A j, k \in S : f[j] = f[k] => j = k
  BY <1>1, <1>2
<1>4. f \in Injection(S, T)
  BY <1>2, <1>3 DEF Injection, IsInjective
<1>5. IsFiniteSet(T)
  BY TicketsFinite, FS_RemoveElement
<1>6. Cardinality(S) <= Cardinality(T)
  <2> HIDE DEF f, S, T
  <2> QED
    BY <1>4, <1>5, FS_Injection
<1>7. \A j \in DOMAIN new : \E k \in DOMAIN own : new[j] = own[k]
  BY SMTT(40), <1>1
<1> QED
  BY <1>1, <1>6, <1>7 DEF new

\* The last rule that matches is a rule that matches.
LEMMA LastMatch ==
  ASSUME NEW own \in Seq(Rules), NEW ask, Matching(own, ask) # {}
  PROVE  Max(Matching(own, ask)) \in Matching(own, ask)
<1>1. PICK n \in Nat : n = Len(own)
  OBVIOUS
<1>2. Matching(own, ask) \subseteq 1..n
  BY <1>1 DEF Matching
<1> QED
  BY <1>2, GreatestOf

\* A decision leaves rules that were there, and uses the ticket it took.
Left(new, own, a) ==
    /\ new \in Seq(Rules)
    /\ \A j \in DOMAIN new : \E k \in DOMAIN own : new[j] = own[k]
    /\ Cardinality(Tickets(new, a)) <= Cardinality(Tickets(own, a))

Pays(new, own, ask, a) ==
    ask = Ask("gate", a) /\ Decision(own, ask) = "allow" =>
        \/ Cardinality(Tickets(new, a)) + 1 <= Cardinality(Tickets(own, a))
        \/ \E k \in DOMAIN own : ~own[k].once /\ own[k].action = "allow" /\ ask \in own[k].asks

LEMMA RulesAfterFacts ==
  ASSUME NEW own \in Seq(Rules), NEW ask, NEW a
  PROVE  /\ Left(RulesAfter(own, ask), own, a)
         /\ Pays(RulesAfter(own, ask), own, ask, a)
<1> DEFINE new == RulesAfter(own, ask)
           i == Max(Matching(own, ask))
<1>1. Cardinality(Tickets(own, a)) \in Nat /\ IsFiniteSet(Tickets(own, a))
  BY TicketsFinite
<1>2. CASE Matching(own, ask) = {}
  <2>1. new = own /\ Decision(own, ask) # "allow"
    BY <1>2 DEF RulesAfter, Decision
  <2> HIDE DEF new
  <2> QED
    BY <1>1, <2>1 DEF Left, Pays, new
<1>3. CASE Matching(own, ask) # {}
  <2>1. i \in DOMAIN own /\ ask \in own[i].asks
    BY <1>3, LastMatch DEF Matching
  <2>2. Decision(own, ask) = own[i].action
    BY <1>3 DEF Decision
  <2>3. own[i] \in Rules
    BY <2>1
  <2>4. CASE ~own[i].once
    <3>1. new = own
      BY <1>3, <2>4 DEF RulesAfter
    <3> HIDE DEF new, i
    <3> QED
      BY <1>1, <2>1, <2>2, <2>4, <3>1 DEF Left, Pays, new
  <2>5. CASE own[i].once
    <3>1. new = RemoveAt(own, i)
      BY <1>3, <2>5 DEF RulesAfter
    <3>2. /\ new \in Seq(Rules) /\ \A j \in DOMAIN new : \E k \in DOMAIN own : new[j] = own[k]
          /\ Cardinality(Tickets(new, a)) <= Cardinality(Tickets(own, a) \ {i})
      BY <2>1, <3>1, RemovedTicket
    <3>3. /\ Cardinality(Tickets(own, a) \ {i}) = IF i \in Tickets(own, a) THEN Cardinality(Tickets(own, a)) - 1
                                                    ELSE Cardinality(Tickets(own, a))
          /\ Cardinality(Tickets(new, a)) \in Nat
      BY <1>1, <3>2, FS_RemoveElement, TicketsFinite
    <3>4. ask = Ask("gate", a) /\ Decision(own, ask) = "allow" => i \in Tickets(own, a)
      BY <2>1, <2>2, <2>5 DEF Tickets
    <3> HIDE DEF new, i
    <3>5. /\ Cardinality(Tickets(new, a)) <= Cardinality(Tickets(own, a))
          /\ i \in Tickets(own, a) => Cardinality(Tickets(new, a)) + 1 <= Cardinality(Tickets(own, a))
      BY <1>1, <3>2, <3>3
    <3> QED
      BY <3>2, <3>4, <3>5 DEF Left, Pays, new
  <2> QED
    BY <2>4, <2>5
<1> QED
  BY <1>2, <1>3

\* The tickets of one runtime and those of the others.
Others(all, rt, a) == {p \in AllTickets(all, a) : p[1] # rt}

LEMMA TicketsSplit ==
  ASSUME NEW all \in [Runtimes -> Seq(Rules)], NEW rt \in Runtimes, NEW a,
         IsFiniteSet(Others(all, rt, a))
  PROVE  /\ IsFiniteSet(AllTickets(all, a))
         /\ Cardinality(AllTickets(all, a))
              = Cardinality(Others(all, rt, a)) + Cardinality(Tickets(all[rt], a))
<1> DEFINE Own == {rt} \X Tickets(all[rt], a)
<1>1. /\ IsFiniteSet(Tickets(all[rt], a)) /\ Cardinality(Tickets(all[rt], a)) \in Nat
      /\ Tickets(all[rt], a) \subseteq Nat
  <2>1. all[rt] \in Seq(Rules)
    OBVIOUS
  <2>2. Tickets(all[rt], a) \subseteq Nat
    BY <2>1 DEF Tickets
  <2> QED
    BY <2>1, <2>2, TicketsFinite
<1>2. IsFiniteSet(Own) /\ Cardinality(Own) = Cardinality(Tickets(all[rt], a))
  <2>1. IsFiniteSet({rt}) /\ Cardinality({rt}) = 1
    BY FS_Singleton
  <2>2. IsFiniteSet(Own) /\ Cardinality(Own) = 1 * Cardinality(Tickets(all[rt], a))
    BY SMTT(40), <1>1, <2>1, FS_Product
  <2> HIDE DEF Own
  <2> QED
    BY <1>1, <2>2
<1>3. AllTickets(all, a) = Others(all, rt, a) \cup Own /\ Others(all, rt, a) \cap Own = {}
  BY <1>1 DEF AllTickets, Others
<1> HIDE DEF Own
<1>4. Cardinality({}) = 0 /\ Cardinality(Others(all, rt, a)) \in Nat
  BY FS_EmptySet, FS_CardinalityType
<1>5. /\ IsFiniteSet(Others(all, rt, a) \cup Own)
      /\ Cardinality(Others(all, rt, a) \cup Own)
           = Cardinality(Others(all, rt, a)) + Cardinality(Own) - Cardinality({})
  BY <1>2, <1>3, FS_Union
<1> QED
  BY <1>1, <1>2, <1>3, <1>4, <1>5

\* One start more.
LEMMA StartsGrow ==
  ASSUME NEW times \in [Calls -> Nat], NEW c \in Calls, NEW a, IsFiniteSet(Starts(times, a))
  PROVE  LET more == [times EXCEPT ![c] = @ + 1]
         IN /\ IsFiniteSet(Starts(more, a))
            /\ Cardinality(Starts(more, a)) =
                 Cardinality(Starts(times, a)) + (IF KindOf[c] = "gated" /\ ArgsOf[c] = a THEN 1 ELSE 0)
<1> DEFINE more == [times EXCEPT ![c] = @ + 1]
<1>1. CASE KindOf[c] = "gated" /\ ArgsOf[c] = a
  <2>1. Starts(more, a) = Starts(times, a) \cup {<<c, times[c] + 1>>}
    BY <1>1 DEF Starts
  <2>2. <<c, times[c] + 1>> \notin Starts(times, a)
    BY DEF Starts
  <2> HIDE DEF more
  <2>3. /\ IsFiniteSet(Starts(more, a))
        /\ Cardinality(Starts(more, a)) = Cardinality(Starts(times, a)) + 1
    BY <2>1, <2>2, FS_AddElement
  <2> QED
    BY <1>1, <2>3 DEF more
<1>2. CASE ~(KindOf[c] = "gated" /\ ArgsOf[c] = a)
  <2>1. Starts(more, a) = Starts(times, a)
    BY <1>2 DEF Starts
  <2> QED
    BY <1>2, <2>1, FS_CardinalityType
<1> QED
  BY <1>1, <1>2

\* What a call does to the rules of its runtime and to the starts: a gated call that is
\* started uses a ticket, unless a rule that stays let it through.
Fewer(new, old) ==
    /\ new \in Seq(Rules)
    /\ \A j \in DOMAIN new : \E k \in DOMAIN old : new[j] = old[k]
    /\ \A a \in Args : Cardinality(Tickets(new, a)) <= Cardinality(Tickets(old, a))

Used(new, old, c) ==
    \A a \in Args : KindOf[c] = "gated" /\ ArgsOf[c] = a =>
        \/ Cardinality(Tickets(new, a)) + 1 <= Cardinality(Tickets(old, a))
        \/ \E k \in DOMAIN old : ~old[k].once /\ old[k].action = "allow" /\ Ask("gate", a) \in old[k].asks

Spends(r) ==
    \E new :
        /\ rules' = [rules EXCEPT ![RuntimeOf[r]] = new]
        /\ Fewer(new, rules[RuntimeOf[r]])
        /\ \/ begun' = begun
           \/ \E c : begun' = [begun EXCEPT ![c] = @ + 1] /\ Used(new, rules[RuntimeOf[r]], c)

LEMMA FewerFewer ==
  ASSUME NEW s1 \in Seq(Rules), NEW s2, NEW s3, Fewer(s2, s1), Fewer(s3, s2)
  PROVE  Fewer(s3, s1)
<1>1. s2 \in Seq(Rules) /\ s3 \in Seq(Rules)
  BY DEF Fewer
<1>2. \A a \in Args : /\ Cardinality(Tickets(s1, a)) \in Nat /\ Cardinality(Tickets(s2, a)) \in Nat
                      /\ Cardinality(Tickets(s3, a)) \in Nat
  BY <1>1, TicketsFinite
<1> QED
  BY <1>1, <1>2 DEF Fewer

LEMMA SameFewer ==
  ASSUME NEW s \in Seq(Rules)
  PROVE  Fewer(s, s)
BY TicketsFinite DEF Fewer

LEMMA AfterFewer ==
  ASSUME NEW s \in Seq(Rules), NEW ask
  PROVE  Fewer(RulesAfter(s, ask), s)
<1> DEFINE new == RulesAfter(s, ask)
<1> HIDE DEF new
<1>1. ASSUME NEW a
      PROVE  Left(new, s, a)
  BY RulesAfterFacts DEF new
<1>2. new \in Seq(Rules) /\ \A j \in DOMAIN new : \E k \in DOMAIN s : new[j] = s[k]
  BY <1>1 DEF Left
<1>3. \A a \in Args : Cardinality(Tickets(new, a)) <= Cardinality(Tickets(s, a))
  BY <1>1 DEF Left
<1>4. Fewer(new, s)
  BY <1>2, <1>3 DEF Fewer
<1> QED
  BY <1>4 DEF new

LEMMA UsedFewer ==
  ASSUME NEW s1 \in Seq(Rules), NEW s2, NEW s3, NEW c, Fewer(s2, s1), Fewer(s3, s2), Used(s3, s2, c)
  PROVE  Used(s3, s1, c)
<1>1. s2 \in Seq(Rules) /\ s3 \in Seq(Rules)
  BY DEF Fewer
<1> SUFFICES ASSUME NEW a \in Args, KindOf[c] = "gated", ArgsOf[c] = a
             PROVE  \/ Cardinality(Tickets(s3, a)) + 1 <= Cardinality(Tickets(s1, a))
                    \/ \E k \in DOMAIN s1 : ~s1[k].once /\ s1[k].action = "allow" /\ Ask("gate", a) \in s1[k].asks
  BY DEF Used
<1>2. /\ Cardinality(Tickets(s1, a)) \in Nat /\ Cardinality(Tickets(s2, a)) \in Nat
      /\ Cardinality(Tickets(s3, a)) \in Nat /\ Cardinality(Tickets(s2, a)) <= Cardinality(Tickets(s1, a))
  BY <1>1, TicketsFinite DEF Fewer
<1>3. CASE Cardinality(Tickets(s3, a)) + 1 <= Cardinality(Tickets(s2, a))
  BY <1>2, <1>3
<1>4. CASE \E k \in DOMAIN s2 : ~s2[k].once /\ s2[k].action = "allow" /\ Ask("gate", a) \in s2[k].asks
  BY <1>4 DEF Fewer
<1> QED
  BY <1>3, <1>4 DEF Used

\* ToolRuntime.execute: the rules decide, and a start uses what decided.
LEMMA ExecuteSpends ==
  ASSUME rules \in [Runtimes -> Seq(Rules)], NEW r \in Runs, NEW c, NEW own,
         Fewer(own, rules[RuntimeOf[r]]), Execute(r, c, own)
  PROVE  Spends(r)
<1> DEFINE rt == RuntimeOf[r]
           old == rules[rt]
           ask == Ask("gate", ArgsOf[c])
           new == IF KindOf[c] = "gated" THEN RulesAfter(own, ask) ELSE own
<1>1. rt \in Runtimes /\ old \in Seq(Rules) /\ own \in Seq(Rules)
  BY AgentAssumption DEF Fewer
<1>2. rules' = [rules EXCEPT ![rt] = new]
  BY DEF Execute
<1>3. Fewer(new, own) /\ Fewer(new, old)
  BY <1>1, AfterFewer, SameFewer, FewerFewer
<1>4. \/ begun' = begun
      \/ begun' = [begun EXCEPT ![c] = @ + 1] /\ (KindOf[c] = "gated" => Decision(own, ask) = "allow")
  BY DEF Execute, Started, Answered, Parked
<1>5. ASSUME KindOf[c] = "gated" => Decision(own, ask) = "allow" PROVE Used(new, own, c)
  <2> SUFFICES ASSUME NEW a \in Args, KindOf[c] = "gated", ArgsOf[c] = a
               PROVE  \/ Cardinality(Tickets(new, a)) + 1 <= Cardinality(Tickets(own, a))
                      \/ \E k \in DOMAIN own :
                           ~own[k].once /\ own[k].action = "allow" /\ Ask("gate", a) \in own[k].asks
    BY DEF Used
  <2> HIDE DEF ask, new
  <2>1. new = RulesAfter(own, ask) /\ ask = Ask("gate", a) /\ Decision(own, ask) = "allow"
    BY <1>5 DEF new, ask
  <2>2. Pays(new, own, ask, a)
    BY <1>1, <2>1, RulesAfterFacts
  <2> QED
    BY <2>1, <2>2 DEF Pays
<1> HIDE DEF new, ask
<1>6. begun' = [begun EXCEPT ![c] = @ + 1] /\ (KindOf[c] = "gated" => Decision(own, ask) = "allow")
      => Used(new, old, c)
  BY <1>1, <1>3, <1>5, UsedFewer
<1> HIDE DEF old
<1> QED
  BY <1>2, <1>3, <1>4, <1>6 DEF Spends, old

\* One call of the model: the guard against loops decides first.
LEMMA CallSpends ==
  ASSUME rules \in [Runtimes -> Seq(Rules)], NEW r \in Runs, Call(r)
  PROVE  Spends(r) /\ grants' = grants
<1> DEFINE c == run[r].todo[1]
           rt == RuntimeOf[r]
           old == rules[rt]
           loop == Ask("loop", ArgsOf[c])
           own == IF Repeated(c) THEN RulesAfter(old, loop) ELSE old
<1>1. rt \in Runtimes /\ old \in Seq(Rules)
  BY AgentAssumption
<1>2. Fewer(old, old) /\ Fewer(own, old)
  BY <1>1, SameFewer, AfterFewer
<1>3. ASSUME Execute(r, c, own) PROVE Spends(r)
  BY <1>2, <1>3, ExecuteSpends
<1>4. ASSUME rules' = rules, begun' = begun PROVE Spends(r)
  <2>1. rules' = [rules EXCEPT ![rt] = old]
    BY <1>4
  <2> QED
    BY <1>2, <1>4, <2>1 DEF Spends
<1>5. ASSUME rules' = [rules EXCEPT ![rt] = own], begun' = begun PROVE Spends(r)
  BY <1>2, <1>5 DEF Spends
<1>6. grants' = grants
  BY DEF Call
<1>7. \/ rules' = rules /\ begun' = begun
      \/ rules' = [rules EXCEPT ![rt] = own] /\ begun' = begun
      \/ Execute(r, c, own)
  BY DEF Call, Answered, Parked
<1> QED
  BY <1>3, <1>4, <1>5, <1>6, <1>7

-----------------------------------------------------------------------------
\* Neither the grants nor what they say of the rules is touched by a call.
LEMMA SpendsKeeps ==
  ASSUME GrantInv, NEW r \in Runs, Spends(r), grants' = grants
  PROVE  GrantInv'
<1> DEFINE rt == RuntimeOf[r]
           old == rules[rt]
<1> PICK new :
        /\ rules' = [rules EXCEPT ![rt] = new]
        /\ Fewer(new, old)
        /\ \/ begun' = begun
           \/ \E c : begun' = [begun EXCEPT ![c] = @ + 1] /\ Used(new, old, c)
  BY DEF Spends
<1>1. rt \in Runtimes /\ old \in Seq(Rules) /\ new \in Seq(Rules)
  BY AgentAssumption DEF GrantInv, Fewer
<1>2. rules' \in [Runtimes -> Seq(Rules)] /\ begun' \in [Calls -> Nat]
  BY <1>1 DEF GrantInv
<1>3. AllowedForGood' = AllowedForGood /\ Numbered' /\ DOMAIN grants' = {"once", "always"}
  BY DEF GrantInv, Numbered, AllowedForGood
<1>4. StayingIsGranted'
  <2> SUFFICES ASSUME NEW q \in Runtimes, NEW i \in DOMAIN rules'[q],
                      ~rules'[q][i].once, rules'[q][i].action = "allow",
                      NEW a \in Args, Ask("gate", a) \in rules'[q][i].asks
               PROVE  AllowedForGood
    BY <1>3 DEF StayingIsGranted
  <2>1. \E k \in DOMAIN rules[q] : rules'[q][i] = rules[q][k]
    <3>1. CASE q = rt
      BY <1>1, <3>1 DEF Fewer, GrantInv
    <3>2. CASE q # rt
      BY <1>1, <3>2 DEF GrantInv
    <3> QED
      BY <3>1, <3>2
  <2> QED
    BY <2>1 DEF GrantInv, StayingIsGranted
<1>5. ASSUME ~AllowedForGood, NEW a \in Args PROVE Covered(a)'
  <2>1. /\ IsFiniteSet(Starts(begun, a)) /\ IsFiniteSet(AllTickets(rules, a))
        /\ Cardinality(Starts(begun, a)) + Cardinality(AllTickets(rules, a)) <= Cardinality(Granted(a))
    BY <1>5 DEF GrantInv, Covered
  <2>2. Granted(a)' = Granted(a) /\ Cardinality(Granted(a)) \in Nat
    <3>1. Granted(a) \in SUBSET grants.once
      BY DEF Granted
    <3>2. Cardinality(Granted(a)) \in Nat
      BY <3>1, FS_Subset, FS_CardinalityType DEF GrantInv, Numbered
    <3> QED
      BY <3>2 DEF Granted
  <2>3. Others(rules', rt, a) = Others(rules, rt, a) /\ IsFiniteSet(Others(rules, rt, a))
    <3>1. Others(rules, rt, a) \in SUBSET AllTickets(rules, a)
      BY DEF Others
    <3>2. \A q \in Runtimes \ {rt} : rules'[q] = rules[q]
      BY DEF GrantInv
    <3>3. Others(rules', rt, a) = Others(rules, rt, a)
      BY <3>2 DEF Others, AllTickets
    <3> QED
      BY <2>1, <3>1, <3>3, FS_Subset
  <2>4. /\ IsFiniteSet(AllTickets(rules', a))
        /\ Cardinality(AllTickets(rules', a)) = Cardinality(Others(rules, rt, a)) + Cardinality(Tickets(new, a))
        /\ Cardinality(AllTickets(rules, a)) = Cardinality(Others(rules, rt, a)) + Cardinality(Tickets(old, a))
    <3>1. rules \in [Runtimes -> Seq(Rules)] /\ rules'[rt] = new
      BY <1>1 DEF GrantInv
    <3>2. /\ IsFiniteSet(AllTickets(rules', a))
          /\ Cardinality(AllTickets(rules', a)) = Cardinality(Others(rules', rt, a)) + Cardinality(Tickets(rules'[rt], a))
      BY <1>1, <1>2, <2>3, TicketsSplit
    <3>3. Cardinality(AllTickets(rules, a)) = Cardinality(Others(rules, rt, a)) + Cardinality(Tickets(rules[rt], a))
      BY <1>1, <2>3, <3>1, TicketsSplit
    <3> QED
      BY <2>3, <3>1, <3>2, <3>3
  <2>5. /\ Cardinality(Others(rules, rt, a)) \in Nat /\ Cardinality(Tickets(new, a)) \in Nat
        /\ Cardinality(Tickets(old, a)) \in Nat /\ Cardinality(Starts(begun, a)) \in Nat
        /\ Cardinality(Tickets(new, a)) <= Cardinality(Tickets(old, a))
    BY <1>1, <2>1, <2>3, FS_CardinalityType, TicketsFinite DEF Fewer
  <2>6. CASE begun' = begun
    <3>1. Cardinality(Starts(begun, a)) + Cardinality(AllTickets(rules', a)) <= Cardinality(Granted(a))
      BY <2>1, <2>2, <2>4, <2>5
    <3> QED
      BY <2>1, <2>2, <2>4, <2>6, <3>1 DEF Covered
  <2>7. ASSUME NEW c \in Calls, begun' = [begun EXCEPT ![c] = @ + 1], Used(new, old, c)
        PROVE  Covered(a)'
    <3>1. /\ IsFiniteSet(Starts(begun', a))
          /\ Cardinality(Starts(begun', a)) =
               Cardinality(Starts(begun, a)) + (IF KindOf[c] = "gated" /\ ArgsOf[c] = a THEN 1 ELSE 0)
      BY ZenonT(60), <2>1, <2>7, StartsGrow DEF GrantInv
    <3>2. KindOf[c] = "gated" /\ ArgsOf[c] = a
          => Cardinality(Tickets(new, a)) + 1 <= Cardinality(Tickets(old, a))
      BY <1>1, <1>5, <2>7 DEF Used, GrantInv, StayingIsGranted
    <3>3. Cardinality(Starts(begun', a)) + Cardinality(AllTickets(rules', a)) <= Cardinality(Granted(a))
      <4>1. CASE KindOf[c] = "gated" /\ ArgsOf[c] = a
        BY <2>1, <2>2, <2>4, <2>5, <3>1, <3>2, <4>1
      <4>2. CASE ~(KindOf[c] = "gated" /\ ArgsOf[c] = a)
        BY <2>1, <2>2, <2>4, <2>5, <3>1, <4>2
      <4> QED
        BY <4>1, <4>2
    <3> QED
      BY <2>2, <2>4, <3>1, <3>3 DEF Covered
  <2>8. \/ begun' = begun
        \/ \E c \in Calls : begun' = [begun EXCEPT ![c] = @ + 1] /\ Used(new, old, c)
    BY DEF GrantInv
  <2> QED
    BY <2>6, <2>7, <2>8
<1> QED
  BY <1>2, <1>3, <1>4, <1>5 DEF GrantInv

\* A new rule is a ticket if it allows such a call once.
LEMMA TicketsAppend ==
  ASSUME NEW own \in Seq(Rules), NEW rule \in Rules, NEW a
  PROVE  /\ Append(own, rule) \in Seq(Rules)
         /\ Cardinality(Tickets(Append(own, rule), a)) =
              Cardinality(Tickets(own, a))
                + (IF rule.once /\ rule.action = "allow" /\ Ask("gate", a) \in rule.asks THEN 1 ELSE 0)
<1> DEFINE n == Len(own)
           new == Append(own, rule)
<1>1. /\ n \in Nat /\ DOMAIN own = 1..n /\ new \in Seq(Rules) /\ DOMAIN new = 1..(n + 1)
      /\ \A i \in 1..n : new[i] = own[i]
      /\ new[n + 1] = rule
  OBVIOUS
<1> HIDE DEF n, new
<1>2. IsFiniteSet(Tickets(own, a)) /\ Cardinality(Tickets(own, a)) \in Nat
  BY TicketsFinite
<1>3. CASE rule.once /\ rule.action = "allow" /\ Ask("gate", a) \in rule.asks
  <2>1. Tickets(new, a) = Tickets(own, a) \cup {n + 1} /\ n + 1 \notin Tickets(own, a)
    BY <1>1, <1>3 DEF Tickets
  <2>2. Cardinality(Tickets(new, a)) = Cardinality(Tickets(own, a)) + 1
    BY <1>2, <2>1, FS_AddElement
  <2> QED
    BY <1>1, <1>3, <2>2 DEF new
<1>4. CASE ~(rule.once /\ rule.action = "allow" /\ Ask("gate", a) \in rule.asks)
  <2>1. Tickets(new, a) = Tickets(own, a)
    BY <1>1, <1>4 DEF Tickets
  <2> QED
    BY <1>1, <1>2, <1>4, <2>1 DEF new
<1> QED
  BY <1>3, <1>4

\* The user decides: what is allowed once is one grant and one ticket more.
LEMMA DecideKeeps ==
  ASSUME GrantInv, NEW rt \in Runtimes, NEW ask, NEW action \in {"allow", "deny"},
         NEW always \in BOOLEAN, Decide(rt, ask, action, always)
  PROVE  GrantInv'
<1> DEFINE rule == [action |-> action, once |-> ~always,
                    asks |-> IF always THEN {p \in Permissions : p.kind = ask.kind} ELSE {ask}]
           same == {g \in grants.once : g.ask = ask}
           grant == [ask |-> ask, action |-> action, no |-> 1 + Cardinality(same)]
<1>1. /\ ask \in Permissions /\ begun' = begun
      /\ rules' = [rules EXCEPT ![rt] = Append(@, rule)]
      /\ rule \in Rules /\ rules[rt] \in Seq(Rules) /\ rules \in [Runtimes -> Seq(Rules)]
      /\ DOMAIN grants = {"once", "always"}
  BY DEF Decide, GrantInv, Rules
<1>2. /\ always => grants' = [grants EXCEPT !.always = @ \cup {[ask |-> ask, action |-> action]}]
      /\ ~always => grants' = [grants EXCEPT !.once = @ \cup {grant}]
  BY DEF Decide
<1>3. /\ DOMAIN grants' = {"once", "always"}
      /\ grants'.once = IF always THEN grants.once ELSE grants.once \cup {grant}
      /\ grants'.always = IF always THEN grants.always \cup {[ask |-> ask, action |-> action]} ELSE grants.always
  BY <1>1, <1>2
<1>4. /\ AllowedForGood => AllowedForGood'
      /\ always /\ action = "allow" /\ ask.kind = "gate" => AllowedForGood'
  <2>1. grants'.always = IF always THEN grants.always \cup {[ask |-> ask, action |-> action]} ELSE grants.always
    BY <1>3
  <2>2. AllowedForGood' = \E g \in grants'.always : g.ask.kind = "gate" /\ g.action = "allow"
    BY DEF AllowedForGood
  <2> HIDE DEF grant, rule, same
  <2>3. AllowedForGood => AllowedForGood'
    BY <2>1, <2>2 DEF AllowedForGood
  <2>4. ASSUME always, action = "allow", ask.kind = "gate" PROVE AllowedForGood'
    <3>1. [ask |-> ask, action |-> action] \in grants'.always
      BY <2>1, <2>4
    <3> QED
      BY <2>2, <2>4, <3>1
  <2> QED
    BY <2>3, <2>4
<1>5. rules' \in [Runtimes -> Seq(Rules)] /\ begun' \in [Calls -> Nat]
  BY <1>1 DEF GrantInv
<1>6. /\ IsFiniteSet(same) /\ Cardinality(same) \in Nat /\ grant \notin grants.once
      /\ IsFiniteSet(grants.once)
  <2>1. same \in SUBSET grants.once /\ IsFiniteSet(grants.once)
    BY DEF GrantInv, Numbered
  <2>2. IsFiniteSet(same) /\ Cardinality(same) \in Nat
    BY <2>1, FS_Subset, FS_CardinalityType
  <2>3. \A g \in grants.once : g.ask = ask => g.no <= Cardinality(same) /\ g.no \in Nat
    BY DEF GrantInv, Numbered
  <2>4. grant.no = 1 + Cardinality(same) /\ grant.ask = ask
    OBVIOUS
  <2> HIDE DEF same, grant
  <2> QED
    BY <2>1, <2>2, <2>3, <2>4
<1>7. Numbered'
  <2>1. CASE always
    BY <1>3, <2>1 DEF GrantInv, Numbered
  <2>2. CASE ~always
    <3>1. grants'.once = grants.once \cup {grant} /\ IsFiniteSet(grants'.once)
      <4> HIDE DEF grant
      <4> QED
        BY <1>3, <1>6, <2>2, FS_AddElement
    <3>2. ASSUME NEW g \in grants'.once
          PROVE  g.no \in Nat /\ g.no <= Cardinality({h \in grants'.once : h.ask = g.ask})
      <4>1. CASE g.ask # ask
        <5>1. g \in grants.once
          BY <3>1, <4>1
        <5>2. {h \in grants'.once : h.ask = g.ask} = {h \in grants.once : h.ask = g.ask}
          BY <3>1, <4>1
        <5> QED
          BY <5>1, <5>2 DEF GrantInv, Numbered
      <4>2. CASE g.ask = ask
        <5>1. {h \in grants'.once : h.ask = g.ask} = same \cup {grant} /\ grant \notin same
          BY <1>6, <3>1, <4>2
        <5>2. Cardinality(same \cup {grant}) = Cardinality(same) + 1
          <6> HIDE DEF same, grant
          <6> QED
            BY <1>6, <5>1, FS_AddElement
        <5>3. g.no \in Nat /\ g.no <= Cardinality(same) + 1
          <6>1. CASE g = grant
            BY <1>6, <6>1
          <6>2. CASE g \in grants.once
            <7> DEFINE alike == {h \in grants.once : h.ask = g.ask}
            <7>1. g.no \in Nat /\ g.no <= Cardinality(alike)
              BY <6>2 DEF GrantInv, Numbered
            <7>2. alike = same
              BY <4>2
            <7> HIDE DEF alike, same, grant
            <7> QED
              BY <1>6, <7>1, <7>2
          <6> QED
            BY <3>1, <6>1, <6>2
        <5> QED
          BY <5>1, <5>2, <5>3
      <4> QED
        BY <4>1, <4>2
    <3> QED
      BY <3>1, <3>2 DEF Numbered
  <2> QED
    BY <2>1, <2>2
<1>8. StayingIsGranted'
  <2> SUFFICES ASSUME NEW q \in Runtimes, NEW i \in DOMAIN rules'[q],
                      ~rules'[q][i].once, rules'[q][i].action = "allow",
                      NEW a \in Args, Ask("gate", a) \in rules'[q][i].asks
               PROVE  AllowedForGood'
    BY DEF StayingIsGranted
  <2>1. rules'[q][i] = rule \/ \E k \in DOMAIN rules[q] : rules'[q][i] = rules[q][k]
    <3>1. CASE q = rt
      <4>1. rules'[q] = Append(rules[q], rule) /\ rules[q] \in Seq(Rules)
        BY <1>1, <3>1
      <4> HIDE DEF rule
      <4> QED
        BY <4>1
    <3>2. CASE q # rt
      BY <1>1, <3>2
    <3> QED
      BY <3>1, <3>2
  <2>2. CASE rules'[q][i] = rule
    <3>1. rule.once = ~always /\ rule.action = action
          /\ (always => rule.asks = {p \in Permissions : p.kind = ask.kind})
      OBVIOUS
    <3>2. ~rule.once /\ rule.action = "allow" /\ Ask("gate", a) \in rule.asks
      BY <2>2
    <3>. HIDE DEF rule
    <3>3. always /\ action = "allow" /\ Ask("gate", a).kind = ask.kind
      BY <3>1, <3>2
    <3> QED
      BY <1>4, <3>3 DEF Ask
  <2>3. CASE \E k \in DOMAIN rules[q] : rules'[q][i] = rules[q][k]
    BY <1>4, <2>3 DEF GrantInv, StayingIsGranted
  <2> QED
    BY <2>1, <2>2, <2>3
<1>9. ASSUME ~AllowedForGood', NEW a \in Args PROVE Covered(a)'
  <2> DEFINE more == IF ~always /\ action = "allow" /\ ask = Ask("gate", a) THEN 1 ELSE 0
  <2>1. /\ IsFiniteSet(Starts(begun, a)) /\ IsFiniteSet(AllTickets(rules, a))
        /\ Cardinality(Starts(begun, a)) + Cardinality(AllTickets(rules, a)) <= Cardinality(Granted(a))
    BY <1>4, <1>9 DEF GrantInv, Covered
  <2>2. /\ IsFiniteSet(Granted(a)) /\ Cardinality(Granted(a)) \in Nat
        /\ Cardinality(Granted(a)') = Cardinality(Granted(a)) + more
    <3>1. Granted(a) \in SUBSET grants.once
      BY DEF Granted
    <3>2. IsFiniteSet(Granted(a)) /\ Cardinality(Granted(a)) \in Nat
      BY <1>6, <3>1, FS_Subset, FS_CardinalityType
    <3>3. CASE more = 1
      <4>1. Granted(a)' = Granted(a) \cup {grant} /\ grant \notin Granted(a)
        BY <1>3, <1>6, <3>3 DEF Granted
      <4> HIDE DEF grant
      <4> QED
        BY <3>2, <3>3, <4>1, FS_AddElement
    <3>4. CASE more = 0
      <4>1. Granted(a)' = Granted(a)
        BY <1>3, <3>4 DEF Granted
      <4> QED
        BY <3>2, <3>4, <4>1
    <3> QED
      BY <3>2, <3>3, <3>4
  <2>3. /\ Cardinality(Tickets(rules'[rt], a)) = Cardinality(Tickets(rules[rt], a)) + more
        /\ Cardinality(Tickets(rules[rt], a)) \in Nat
    <3>1. rules'[rt] = Append(rules[rt], rule)
      BY <1>1
    <3>2. ~always => (rule.once /\ rule.action = "allow" /\ Ask("gate", a) \in rule.asks
                       <=> action = "allow" /\ ask = Ask("gate", a))
      OBVIOUS
    <3>3. always => ~rule.once
      OBVIOUS
    <3> HIDE DEF rule
    <3> QED
      BY <1>1, <3>1, <3>2, <3>3, TicketsAppend, TicketsFinite
  <2> HIDE DEF more, rule
  <2>4. Others(rules', rt, a) = Others(rules, rt, a) /\ IsFiniteSet(Others(rules, rt, a))
    <3>1. Others(rules, rt, a) \in SUBSET AllTickets(rules, a)
      BY DEF Others
    <3>2. \A q \in Runtimes \ {rt} : rules'[q] = rules[q]
      BY <1>1
    <3>3. Others(rules', rt, a) = Others(rules, rt, a)
      BY <3>2 DEF Others, AllTickets
    <3> QED
      BY <2>1, <3>1, <3>3, FS_Subset
  <2>5. /\ IsFiniteSet(AllTickets(rules', a))
        /\ Cardinality(AllTickets(rules', a)) = Cardinality(Others(rules', rt, a)) + Cardinality(Tickets(rules'[rt], a))
    BY <1>5, <2>4, TicketsSplit
  <2>6. Cardinality(AllTickets(rules, a)) = Cardinality(Others(rules, rt, a)) + Cardinality(Tickets(rules[rt], a))
    BY <1>1, <2>4, TicketsSplit
  <2>7. /\ Cardinality(Others(rules, rt, a)) \in Nat /\ Cardinality(Starts(begun, a)) \in Nat
        /\ more \in Nat
    BY <2>1, <2>4, FS_CardinalityType DEF more
  <2>8. Cardinality(Starts(begun, a)) + Cardinality(AllTickets(rules', a)) <= Cardinality(Granted(a)')
    BY <2>1, <2>2, <2>3, <2>4, <2>5, <2>6, <2>7
  <2> QED
    BY <1>1, <2>1, <2>5, <2>8 DEF Covered
<1> QED
  BY <1>3, <1>5, <1>7, <1>8, <1>9 DEF GrantInv

-----------------------------------------------------------------------------
LEMMA InitGrant ==
  ASSUME Init
  PROVE  GrantInv
<1>1. /\ DOMAIN grants = {"once", "always"} /\ grants.once = {}
      /\ rules = [rt \in Runtimes |-> <<>>] /\ begun = [c \in Calls |-> 0]
  BY DEF Init
<1>2. rules \in [Runtimes -> Seq(Rules)] /\ begun \in [Calls -> Nat]
  BY <1>1
<1>3. StayingIsGranted
  BY <1>1 DEF StayingIsGranted
<1>4. Numbered
  BY <1>1, FS_EmptySet DEF Numbered
<1>5. ASSUME NEW a \in Args PROVE Covered(a)
  <2>1. Starts(begun, a) = {} /\ AllTickets(rules, a) = {} /\ Granted(a) = {}
    BY <1>1 DEF Starts, AllTickets, Tickets, Granted
  <2> QED
    BY <2>1, FS_EmptySet DEF Covered
<1> QED
  BY <1>1, <1>2, <1>3, <1>4, <1>5 DEF GrantInv

LEMMA NextGrant ==
  ASSUME GrantInv, [Next]_vars
  PROVE  GrantInv'
<1>1. ASSUME NEW r \in Runs, Call(r) PROVE GrantInv'
  <2>1. rules \in [Runtimes -> Seq(Rules)] /\ grants' = grants
    BY <1>1 DEF Call, GrantInv
  <2> QED
    BY <1>1, <2>1, CallSpends, SpendsKeeps
<1>2. ASSUME NEW rt \in Runtimes, NEW ask \in asking[rt], NEW action \in {"allow", "deny"},
             NEW always \in BOOLEAN, Decide(rt, ask, action, always)
      PROVE  GrantInv'
  BY <1>2, DecideKeeps
<1>3. ASSUME UNCHANGED <<rules, begun, grants>> PROVE GrantInv'
  <2> USE <1>3
  <2>1. StayingIsGranted' = StayingIsGranted /\ Numbered' = Numbered /\ AllowedForGood' = AllowedForGood
    BY DEF StayingIsGranted, Numbered, AllowedForGood
  <2>2. \A a \in Args : Covered(a)' = Covered(a)
    BY SMTT(40) DEF Covered, Granted
  <2> QED
    BY <2>1, <2>2 DEF GrantInv
<1>4. ASSUME NEW r \in Runs, Begin(r) \/ Interrupt(r) \/ LoopHead(r) \/ Request(r) \/ ToolsDone(r) \/ Return(r)
      PROVE  UNCHANGED <<rules, begun, grants>>
  BY <1>4 DEF Begin, Interrupt, LoopHead, Request, ToolsDone, Return, brokers
<1>5. ASSUME NEW rt \in Runtimes, Cancel(rt) \/ \E ask \in asking[rt] : Answer(rt, ask)
      PROVE  UNCHANGED <<rules, begun, grants>>
  BY <1>5 DEF Cancel, Answer, brokers
<1>6. CASE UNCHANGED vars \/ \E rt \in Runtimes : \E p \in Runtimes \ {rt} : \E ask \in asking[p] : Seed(rt, ask)
  BY <1>3, <1>6 DEF vars, brokers, Seed
<1> QED
  BY <1>1, <1>2, <1>3, <1>4, <1>5, <1>6 DEF Next, Step

\* A gated tool does not run more often than the user allowed it: whatever is asked, decided
\* and interrupted in which order, in however many runtimes the session is run.
THEOREM GrantsAreSpent == Spec => []AllowedOnly
<1>1. GrantInv => AllowedOnly
  <2> SUFFICES ASSUME GrantInv, NEW a \in Args, ~AllowedForGood
               PROVE  Cardinality(Starts(begun, a)) <= Cardinality(Granted(a))
    BY DEF AllowedOnly, AllowedForGood, Starts, Granted
  <2>1. /\ IsFiniteSet(Starts(begun, a)) /\ IsFiniteSet(AllTickets(rules, a))
        /\ Cardinality(Starts(begun, a)) + Cardinality(AllTickets(rules, a)) <= Cardinality(Granted(a))
    BY DEF GrantInv, Covered
  <2>2. Granted(a) \in SUBSET grants.once /\ IsFiniteSet(grants.once)
    BY DEF Granted, GrantInv, Numbered
  <2>3. Cardinality(Granted(a)) \in Nat
    BY <2>2, FS_Subset, FS_CardinalityType
  <2> QED
    BY <2>1, <2>3, FS_CardinalityType
<1> QED
  BY <1>1, InitGrant, NextGrant, PTL DEF Spec

-----------------------------------------------------------------------------
(* Types.  What a run has before it was asked for, and a run that executes *)
(* has a call before it.                                                   *)

RunRecords ==
    [pc : {"idle", "head", "request", "tools", "exec", "over"},
     step : 0..(MaxIterations - 1), tries : 0..MaxRetries, todo : Seq(Calls),
     resumed : BOOLEAN, told : BOOLEAN,
     status : {"none", "completed", "cancelled", "error", "interrupted", "permission", "question",
               "max_iterations"}]

GoodRun(x, asked) ==
    /\ x \in RunRecords /\ ToSet(x.todo) \subseteq asked
    /\ x.pc = "exec" => x.todo # <<>>

RunTyped == DOMAIN run = Runs /\ \A r \in Runs : GoodRun(run[r], Asked)

StoryTyped ==
    /\ script \in Seq(Calls) /\ IsInjective(script)
    /\ batches \in Seq(Seq(Calls)) /\ \A i \in DOMAIN batches : IsInjective(batches[i])
    /\ results \subseteq Asked

RecordTyped == record \in [Runtimes -> [owner : 0..MaxRuns, active : BOOLEAN, cancel : BOOLEAN]]

BrokersTyped ==
    /\ asking \in [Runtimes -> SUBSET (Permissions \cup Questions)]
    /\ answers \in [Runtimes -> SUBSET Calls]
    /\ begun \in [Calls -> Nat] /\ cut \in [Calls -> Nat]

LoopTypesInv == RunTyped /\ StoryTyped /\ RecordTyped /\ BrokersTyped

LEMMA TypesAreOK == LoopTypesInv /\ overlapped \in BOOLEAN => TypeOK
<1> SUFFICES ASSUME LoopTypesInv, overlapped \in BOOLEAN PROVE TypeOK
  OBVIOUS
<1>1. ASSUME NEW r \in Runs
      PROVE  /\ run[r].pc \in {"idle", "head", "request", "tools", "exec", "over"}
             /\ run[r].step \in 0..MaxIterations /\ run[r].tries \in 0..MaxRetries
             /\ ToSet(run[r].todo) \subseteq Asked
             /\ {run[r].resumed, run[r].told} \subseteq BOOLEAN
             /\ run[r].status \in {"none", "completed", "cancelled", "error", "interrupted",
                              "permission", "question", "max_iterations"}
  <2>1. run[r] \in RunRecords /\ ToSet(run[r].todo) \subseteq Asked
    BY DEF LoopTypesInv, RunTyped, GoodRun
  <2>2. \A i \in 0..(MaxIterations - 1) : i \in 0..MaxIterations
    BY AgentAssumption
  <2> QED
    BY <2>1, <2>2 DEF RunRecords
<1>2. script \in Seq(Calls) /\ batches \in Seq(Seq(Calls)) /\ results \subseteq Asked
  BY DEF LoopTypesInv, StoryTyped
<1>3. /\ record \in [Runtimes -> [owner: 0..MaxRuns, active: BOOLEAN, cancel: BOOLEAN]]
      /\ asking \in [Runtimes -> SUBSET (Permissions \cup Questions)]
      /\ answers \in [Runtimes -> SUBSET Calls] /\ {begun, cut} \subseteq [Calls -> Nat]
  BY DEF LoopTypesInv, RecordTyped, BrokersTyped
<1> QED
  BY <1>1, <1>2, <1>3 DEF LoopTypesInv, RunTyped, TypeOK

\* A run goes on to x.
LEMMA RunGoes ==
  ASSUME RunTyped, NEW r \in Runs, NEW x, run' = [run EXCEPT ![r] = x], GoodRun(x, Asked'),
         Asked \subseteq Asked'
  PROVE  RunTyped'
<1>1. ASSUME NEW q \in Runs PROVE GoodRun(run'[q], Asked')
  <2>1. CASE q = r
    BY <2>1 DEF RunTyped
  <2>2. CASE q # r
    <3>1. run'[q] = run[q] /\ GoodRun(run[q], Asked)
      BY <2>2 DEF RunTyped
    <3> QED
      BY <3>1 DEF GoodRun
  <2> QED
    BY <2>1, <2>2
<1> QED
  BY <1>1 DEF RunTyped

LEMMA FinishTyped ==
  ASSUME RunTyped, RecordTyped, NEW r \in Runs,
         NEW status \in {"completed", "cancelled", "error", "interrupted", "permission", "question",
                         "max_iterations"},
         Finishes(r, status), Asked \subseteq Asked'
  PROVE  RunTyped' /\ RecordTyped'
<1> DEFINE x == [NewRun EXCEPT !.pc = "over", !.told = run[r].told, !.status = status]
<1>1. run[r].told \in BOOLEAN /\ run' = [run EXCEPT ![r] = x]
  BY DEF RunTyped, GoodRun, RunRecords, Finishes
<1>2. x \in RunRecords /\ x.todo = <<>> /\ x.pc = "over"
  <2>1. 0 \in 0..(MaxIterations - 1) /\ 0 \in 0..MaxRetries
    BY AgentAssumption
  <2>2. NewRun \in RunRecords /\ NewRun.todo = <<>>
    <3>1. <<>> \in Seq(Calls)
      OBVIOUS
    <3> QED
      BY <2>1, <3>1 DEF NewRun, RunRecords
  <2> HIDE DEF NewRun
  <2> QED
    BY <1>1, <2>2 DEF RunRecords
<1>3. GoodRun(x, Asked')
  BY <1>2 DEF GoodRun, ToSet
<1> HIDE DEF x
<1>4. RunTyped'
  BY <1>1, <1>3, RunGoes
<1> DEFINE stops == status \in {"cancelled", "interrupted"}
<1>5. record' = [record EXCEPT ![RuntimeOf[r]] =
                      [record[RuntimeOf[r]] EXCEPT !.active = FALSE, !.cancel = stops]]
  BY DEF Finishes, FinishedRecord
<1>6. stops \in BOOLEAN
  OBVIOUS
<1> HIDE DEF stops
<1>7. RecordTyped'
  BY <1>5, <1>6 DEF RecordTyped
<1> QED
  BY <1>4, <1>7

LEMMA GoesTyped ==
  ASSUME RunTyped, RecordTyped, NEW r \in Runs, NEW place \in {"head", "request", "tools", "exec"},
         NEW todo \in Seq(Calls), ToSet(todo) \subseteq Asked, place = "exec" => todo # <<>>,
         NEW resumed \in BOOLEAN, Goes(r, place, todo, resumed), Asked \subseteq Asked'
  PROVE  RunTyped' /\ RecordTyped'
<1> DEFINE x == [run[r] EXCEPT !.pc = place, !.todo = todo, !.resumed = resumed]
<1>1. run' = [run EXCEPT ![r] = x] /\ record' = record
  BY DEF Goes
<1>2. run[r] \in RunRecords
  BY DEF RunTyped, GoodRun
<1>3. x \in RunRecords /\ x.pc = place /\ x.todo = todo
  BY <1>2 DEF RunRecords
<1>4. GoodRun(x, Asked')
  BY <1>3 DEF GoodRun
<1> HIDE DEF x
<1> QED
  BY <1>1, <1>4, RunGoes DEF RecordTyped

\* What a run finds before it was asked for.
LEMMA PendingTyped ==
  ASSUME StoryTyped
  PROVE  Pending \in Seq(Calls) /\ ToSet(Pending) \subseteq Asked
<1> DEFINE open == {i \in DOMAIN batches : Unanswered(batches[i]) # <<>>}
<1>1. CASE open = {}
  <2>1. Pending = <<>>
    BY <1>1 DEF Pending
  <2> QED
    BY <2>1 DEF ToSet
<1>2. CASE open # {}
  <2> DEFINE m == Max(open)
  <2>1. PICK n \in Nat : n = Len(batches)
    BY DEF StoryTyped
  <2>2. open \subseteq 1..n
    BY <2>1 DEF StoryTyped
  <2>3. Pending = Unanswered(batches[m])
    BY <1>2 DEF Pending
  <2>4. m \in open
    <3> HIDE DEF open
    <3> QED
      BY <1>2, <2>2, GreatestOf
  <2>5. m \in DOMAIN batches
    BY <2>4
  <2> HIDE DEF m, open
  <2>6. batches[m] \in Seq(Calls) /\ IsInjective(batches[m])
    BY <2>5 DEF StoryTyped
  <2>7. Unanswered(batches[m]) \in Seq(Calls) /\ ToSet(Unanswered(batches[m])) \subseteq ToSet(batches[m])
    BY <2>6, UnansweredFacts
  <2> QED
    BY <2>3, <2>5, <2>7 DEF Asked
<1> QED
  BY <1>1, <1>2

LEMMA RepliesTyped ==
  ASSUME StoryTyped, results' = results, NEW n \in 0..MaxBatch, Replies(n)
  PROVE  /\ StoryTyped' /\ Asked \subseteq Asked'
         /\ n > 0 => SubSeq(script, 1, n) \in Seq(Calls) /\ ToSet(SubSeq(script, 1, n)) \subseteq Asked'
<1> DEFINE some == SubSeq(script, 1, n)
           rest == SubSeq(script, n + 1, Len(script))
<1>1. script \in Seq(Calls) /\ IsInjective(script) /\ n \in 0..Len(script)
  BY AgentAssumption DEF StoryTyped, Replies
<1>2. some \in Seq(Calls) /\ rest \in Seq(Calls) /\ IsInjective(some) /\ IsInjective(rest)
  BY <1>1, SplitFacts
<1>3. /\ script' = rest /\ batches' = IF n = 0 THEN batches ELSE Append(batches, some)
      /\ batches \in Seq(Seq(Calls)) /\ n \in Nat
  BY <1>1 DEF Replies, StoryTyped
<1> HIDE DEF some, rest
<1>4. CASE n = 0
  <2>1. batches' = batches /\ Asked' = Asked
    BY <1>3, <1>4 DEF Asked
  <2> QED
    BY <1>2, <1>3, <1>4, <2>1 DEF StoryTyped
<1>5. CASE n # 0
  <2> DEFINE m == Len(batches)
  <2>1. /\ m \in Nat /\ DOMAIN batches = 1..m
        /\ DOMAIN batches' = 1..(m + 1) /\ batches' \in Seq(Seq(Calls))
        /\ batches'[m + 1] = some /\ \A i \in 1..m : batches'[i] = batches[i]
    BY <1>2, <1>3, <1>5
  <2> HIDE DEF m
  <2>2. 1..(m + 1) = 1..m \cup {m + 1}
    BY <2>1
  <2>3. Asked' = Asked \cup ToSet(some)
    <3>1. Asked = UNION {ToSet(batches[i]) : i \in 1..m}
      BY <2>1 DEF Asked
    <3>2. Asked' = UNION {ToSet(batches'[i]) : i \in 1..m \cup {m + 1}}
      BY <2>1, <2>2 DEF Asked
    <3> QED
      BY <2>1, <3>1, <3>2
  <2>4. \A i \in DOMAIN batches' : IsInjective(batches'[i])
    BY <1>2, <2>1, <2>2 DEF StoryTyped
  <2>5. results' \subseteq Asked'
    BY <2>3 DEF StoryTyped
  <2>6. StoryTyped'
    BY <1>2, <1>3, <2>1, <2>4, <2>5 DEF StoryTyped
  <2> QED
    BY <1>2, <2>3, <2>6 DEF some
<1> QED
  BY <1>4, <1>5

\* The next call of a run was asked for.
LEMMA TodoTyped ==
  ASSUME RunTyped, NEW r \in Runs, run[r].todo # <<>>
  PROVE  /\ run[r].todo \in Seq(Calls) /\ run[r].todo[1] \in Calls /\ run[r].todo[1] \in Asked
         /\ Tail(run[r].todo) \in Seq(Calls) /\ ToSet(Tail(run[r].todo)) \subseteq Asked
<1>1. run[r].todo \in Seq(Calls) /\ ToSet(run[r].todo) \subseteq Asked
  BY DEF RunTyped, GoodRun, RunRecords
<1> DEFINE s == run[r].todo
<1>2. PICK n \in Nat : n = Len(s)
  BY <1>1
<1>3. n # 0 /\ DOMAIN s = 1..n /\ s[1] \in Calls
  BY <1>1, <1>2
<1>4. s[1] \in ToSet(s)
  BY <1>3 DEF ToSet
<1>5. Tail(s) \in Seq(Calls) /\ DOMAIN Tail(s) = 1..(n - 1) /\ \A i \in 1..(n - 1) : Tail(s)[i] = s[i + 1]
  BY <1>1, <1>2, <1>3
<1>6. ASSUME NEW i \in 1..(n - 1) PROVE Tail(s)[i] \in ToSet(s)
  <2>1. i + 1 \in DOMAIN s
    BY <1>3
  <2> QED
    BY <1>5, <2>1 DEF ToSet
<1>7. ToSet(Tail(s)) \subseteq ToSet(s)
  BY <1>5, <1>6 DEF ToSet
<1> QED
  BY <1>1, <1>3, <1>4, <1>5, <1>7

LEMMA SkipsTyped ==
  ASSUME RunTyped, RecordTyped, NEW r \in Runs, run[r].todo # <<>>, Skips(r), Asked \subseteq Asked'
  PROVE  RunTyped' /\ RecordTyped'
<1>1. run[r].resumed \in BOOLEAN
  BY DEF RunTyped, GoodRun, RunRecords
<1> QED
  BY <1>1, TodoTyped, GoesTyped DEF Skips

LEMMA LoopHeadTyped ==
  ASSUME LoopTypesInv, NEW r \in Runs, LoopHead(r)
  PROVE  LoopTypesInv'
<1>1. UNCHANGED <<script, batches, results, rules, asking, answers, grants, begun, cut>>
  BY DEF LoopHead, session, brokers
<1>2. Asked' = Asked
  BY <1>1 DEF Asked
<1>3. StoryTyped' /\ BrokersTyped'
  BY <1>1, <1>2 DEF LoopTypesInv, StoryTyped, BrokersTyped
<1>4. <<>> \in Seq(Calls) /\ ToSet(<<>>) \subseteq Asked
  BY DEF ToSet
<1>5. Pending \in Seq(Calls) /\ ToSet(Pending) \subseteq Asked
  BY PendingTyped DEF LoopTypesInv
<1>6. RunTyped' /\ RecordTyped'
  <2>1. RunTyped /\ RecordTyped
    BY DEF LoopTypesInv
  <2>2. CASE Finishes(r, "cancelled")
    BY <1>2, <2>1, <2>2, FinishTyped
  <2>3. CASE Goes(r, "tools", Pending, TRUE)
    BY <1>2, <1>5, <2>1, <2>3, GoesTyped
  <2>4. CASE Goes(r, "request", <<>>, FALSE)
    BY <1>2, <1>4, <2>1, <2>4, GoesTyped
  <2> QED
    BY <2>2, <2>3, <2>4 DEF LoopHead
<1> QED
  BY <1>3, <1>6 DEF LoopTypesInv

LEMMA RequestTypesKept ==
  ASSUME LoopTypesInv, NEW r \in Runs, Request(r)
  PROVE  LoopTypesInv'
<1>1. UNCHANGED <<results, rules, asking, answers, grants, begun, cut>>
  BY DEF Request, brokers
<1>2. BrokersTyped'
  BY <1>1 DEF LoopTypesInv, BrokersTyped
<1>3. RunTyped /\ RecordTyped /\ StoryTyped /\ run[r] \in RunRecords
  BY DEF LoopTypesInv, RunTyped, GoodRun
<1>4. UNCHANGED <<script, batches>> => Asked' = Asked /\ StoryTyped'
  BY <1>1, <1>3 DEF StoryTyped, Asked
<1>5. CASE /\ run[r].tries < MaxRetries /\ run' = [run EXCEPT ![r].tries = Attempts(r)]
           /\ UNCHANGED <<script, batches, record>>
  <2> DEFINE x == [run[r] EXCEPT !.tries = Attempts(r)]
  <2>1. run' = [run EXCEPT ![r] = x]
    BY <1>5, <1>3
  <2>2. Attempts(r) \in 0..MaxRetries
    BY <1>3, <1>5, AgentAssumption DEF Attempts, RunRecords
  <2>3. x \in RunRecords /\ x.todo = run[r].todo /\ x.pc = run[r].pc
    BY <1>3, <2>2 DEF RunRecords
  <2>4. GoodRun(run[r], Asked)
    BY <1>3 DEF RunTyped
  <2>5. GoodRun(x, Asked')
    BY <1>4, <1>5, <2>3, <2>4 DEF GoodRun
  <2> HIDE DEF x
  <2>6. RunTyped'
    BY <1>3, <1>4, <1>5, <2>1, <2>5, RunGoes
  <2> QED
    BY <1>2, <1>3, <1>4, <1>5, <2>6 DEF LoopTypesInv, RecordTyped
<1>6. ASSUME NEW status \in {"error", "completed"}, Finishes(r, status), UNCHANGED <<script, batches>>
      PROVE  LoopTypesInv'
  BY <1>2, <1>3, <1>4, <1>6, FinishTyped DEF LoopTypesInv
<1>7. ASSUME NEW n \in 0..MaxBatch, Replies(n),
             \/ \E status \in {"error", "cancelled", "completed", "max_iterations"} : Finishes(r, status)
             \/ /\ run[r].step + 1 < MaxIterations /\ n > 0
                /\ run' = [run EXCEPT ![r] = [run[r] EXCEPT !.pc = "tools", !.todo = SubSeq(script, 1, n),
                               !.resumed = FALSE, !.step = @ + 1, !.tries = 0]]
                /\ UNCHANGED record
      PROVE  LoopTypesInv'
  <2>1. /\ StoryTyped' /\ Asked \subseteq Asked'
        /\ n > 0 => SubSeq(script, 1, n) \in Seq(Calls) /\ ToSet(SubSeq(script, 1, n)) \subseteq Asked'
    BY <1>1, <1>3, <1>7, RepliesTyped
  <2>2. ASSUME NEW status \in {"error", "cancelled", "completed", "max_iterations"}, Finishes(r, status)
        PROVE  LoopTypesInv'
    BY <1>2, <1>3, <2>1, <2>2, FinishTyped DEF LoopTypesInv
  <2>3. CASE /\ run[r].step + 1 < MaxIterations /\ n > 0
             /\ run' = [run EXCEPT ![r] = [run[r] EXCEPT !.pc = "tools", !.todo = SubSeq(script, 1, n),
                               !.resumed = FALSE, !.step = @ + 1, !.tries = 0]]
             /\ UNCHANGED record
    <3> DEFINE some == SubSeq(script, 1, n)
               x == [run[r] EXCEPT !.pc = "tools", !.todo = some, !.resumed = FALSE,
                                   !.step = run[r].step + 1, !.tries = 0]
    <3>1. run' = [run EXCEPT ![r] = x]
      <4> HIDE DEF some
      <4>1. [run[r] EXCEPT !.pc = "tools", !.todo = some, !.resumed = FALSE, !.step = @ + 1, !.tries = 0] = x
        BY <1>3 DEF RunRecords
      <4> QED
        BY <2>3, <4>1 DEF some
    <3>2. some \in Seq(Calls) /\ ToSet(some) \subseteq Asked'
      BY <2>1, <2>3
    <3>3. run[r].step + 1 \in 0..(MaxIterations - 1) /\ 0 \in 0..MaxRetries
      <4>1. run[r].step \in 0..(MaxIterations - 1)
        BY <1>3 DEF RunRecords
      <4> QED
        BY SMTT(40), <2>3, <4>1, AgentAssumption
    <3> HIDE DEF some
    <3>4. x \in RunRecords /\ x.todo = some /\ x.pc = "tools"
      BY <1>3, <3>2, <3>3 DEF RunRecords
    <3>5. GoodRun(x, Asked')
      BY <3>2, <3>4 DEF GoodRun
    <3> HIDE DEF x
    <3>6. RunTyped'
      BY <1>3, <2>1, <3>1, <3>5, RunGoes
    <3> QED
      BY <1>2, <1>3, <2>1, <2>3, <3>6 DEF LoopTypesInv, RecordTyped
  <2> QED
    BY <1>7, <2>2, <2>3
<1> QED
  BY <1>5, <1>6, <1>7 DEF Request

LEMMA ToolsDoneTyped ==
  ASSUME LoopTypesInv, NEW r \in Runs, ToolsDone(r)
  PROVE  LoopTypesInv'
<1>1. UNCHANGED <<script, batches, results, rules, asking, answers, grants, begun, cut>>
  BY DEF ToolsDone, session, brokers
<1>2. Asked' = Asked
  BY <1>1 DEF Asked
<1>3. StoryTyped' /\ BrokersTyped' /\ RunTyped /\ RecordTyped
  BY <1>1, <1>2 DEF LoopTypesInv, StoryTyped, BrokersTyped
<1>4. <<>> \in Seq(Calls) /\ ToSet(<<>>) \subseteq Asked
  BY DEF ToSet
<1>5. ASSUME NEW place \in {"request", "head"}, Goes(r, place, <<>>, FALSE) PROVE LoopTypesInv'
  BY <1>2, <1>3, <1>4, <1>5, GoesTyped DEF LoopTypesInv
<1>6. CASE Finishes(r, "cancelled")
  BY <1>2, <1>3, <1>6, FinishTyped DEF LoopTypesInv
<1> QED
  BY <1>5, <1>6 DEF ToolsDone

\* What a step does with the next call c of a run: it goes on, is answered, starts or parks.
LEMMA HandledTyped ==
  ASSUME LoopTypesInv, NEW r \in Runs, run[r].todo # <<>>, NEW c, c = run[r].todo[1],
         UNCHANGED cut, asking' \in [Runtimes -> SUBSET (Permissions \cup Questions)],
         answers' \in [Runtimes -> SUBSET Calls],
         \/ Answered(r, c) \/ Started(r, c)
         \/ /\ UNCHANGED <<session, begun>>
            /\ \E status \in {"cancelled", "permission", "question"} : Finishes(r, status)
  PROVE  LoopTypesInv'
<1>1. /\ run[r].todo \in Seq(Calls) /\ c \in Calls /\ c \in Asked /\ ToSet(run[r].todo) \subseteq Asked
      /\ run[r].resumed \in BOOLEAN
  BY TodoTyped DEF LoopTypesInv, RunTyped, GoodRun, RunRecords
<1>2. RunTyped /\ RecordTyped /\ StoryTyped /\ begun \in [Calls -> Nat] /\ cut \in [Calls -> Nat]
  BY DEF LoopTypesInv, BrokersTyped
<1>3. UNCHANGED batches => Asked' = Asked
  BY DEF Asked
<1>4. CASE Answered(r, c)
  <2>1. results' = results \cup {c} /\ Skips(r) /\ UNCHANGED <<script, batches, begun>>
    BY <1>4 DEF Answered
  <2>2. StoryTyped'
    BY <1>1, <1>2, <1>3, <2>1 DEF StoryTyped
  <2>3. RunTyped' /\ RecordTyped'
    BY <1>2, <1>3, <2>1, SkipsTyped
  <2> QED
    BY <1>2, <2>1, <2>2, <2>3 DEF LoopTypesInv, BrokersTyped
<1>5. CASE Started(r, c)
  <2>1. begun' = [begun EXCEPT ![c] = @ + 1] /\ Goes(r, "exec", run[r].todo, run[r].resumed)
        /\ UNCHANGED <<script, batches, results>>
    BY <1>5 DEF Started, session
  <2>2. RunTyped' /\ RecordTyped'
    <3>1. Asked \subseteq Asked'
      BY <1>3, <2>1
    <3> QED
      BY <1>1, <1>2, <2>1, <3>1, GoesTyped
  <2>3. begun' \in [Calls -> Nat]
    <3>1. begun[c] + 1 \in Nat
      BY <1>1, <1>2
    <3> QED
      BY <1>2, <2>1, <3>1
  <2>4. StoryTyped'
    BY <1>2, <1>3, <2>1 DEF StoryTyped
  <2> QED
    BY <1>2, <2>2, <2>3, <2>4 DEF LoopTypesInv, BrokersTyped
<1>6. ASSUME UNCHANGED <<session, begun>>, NEW status \in {"cancelled", "permission", "question"},
             Finishes(r, status)
      PROVE  LoopTypesInv'
  <2>1. UNCHANGED <<script, batches, results, begun>>
    BY <1>6 DEF session
  <2>2. StoryTyped'
    BY <1>2, <1>3, <2>1 DEF StoryTyped
  <2>3. RunTyped' /\ RecordTyped'
    BY <1>2, <1>3, <1>6, <2>1, FinishTyped
  <2> QED
    BY <1>2, <2>1, <2>2, <2>3 DEF LoopTypesInv, BrokersTyped
<1> QED
  BY <1>4, <1>5, <1>6

LEMMA CallTyped ==
  ASSUME LoopTypesInv, NEW r \in Runs, Call(r)
  PROVE  LoopTypesInv'
<1> DEFINE c == run[r].todo[1]
           rt == RuntimeOf[r]
           loop == Ask("loop", ArgsOf[c])
           own == IF Repeated(c) THEN RulesAfter(rules[rt], loop) ELSE rules[rt]
           Handled == \/ Answered(r, c) \/ Started(r, c)
                      \/ /\ UNCHANGED <<session, begun>>
                         /\ \E status \in {"cancelled", "permission", "question"} : Finishes(r, status)
<1>1. run[r].todo # <<>> /\ UNCHANGED cut
  BY DEF Call
<1>2. c \in Calls /\ rt \in Runtimes
  BY <1>1, TodoTyped, AgentAssumption DEF LoopTypesInv
<1>3. /\ asking \in [Runtimes -> SUBSET (Permissions \cup Questions)]
      /\ answers \in [Runtimes -> SUBSET Calls]
  BY DEF LoopTypesInv, BrokersTyped
<1>4. loop \in Permissions /\ Ask("gate", ArgsOf[c]) \in Permissions /\ Ask("question", c) \in Questions
  BY <1>2, AgentAssumption DEF Permissions, Questions
<1>5. ASSUME NEW ask \in Permissions \cup Questions, NEW status \in {"permission", "question"}, Parked(r, ask, status)
      PROVE  Handled /\ asking' \in [Runtimes -> SUBSET (Permissions \cup Questions)]
  <2>1. asking' = [asking EXCEPT ![rt] = @ \cup {ask}] /\ Finishes(r, status) /\ UNCHANGED <<session, begun>>
    BY <1>5 DEF Parked
  <2> QED
    BY <1>2, <1>3, <2>1
<1>6. ASSUME Execute(r, c, own) PROVE LoopTypesInv'
  <2> DEFINE ask == Ask(IF KindOf[c] = "question" THEN "question" ELSE "gate",
                        IF KindOf[c] = "question" THEN c ELSE ArgsOf[c])
  <2>1. ask \in Permissions \cup Questions
    BY <1>4
  <2>2. answers' = [answers EXCEPT ![rt] = @ \ {c}]
    BY <1>6 DEF Execute
  <2>3. answers' \in [Runtimes -> SUBSET Calls]
    BY <1>3, <2>2
  <2>4. \/ Started(r, c) /\ UNCHANGED asking
        \/ Answered(r, c) /\ UNCHANGED asking
        \/ Parked(r, ask, "permission") \/ Parked(r, ask, "question")
    BY <1>6 DEF Execute
  <2> HIDE DEF ask
  <2>5. Handled /\ asking' \in [Runtimes -> SUBSET (Permissions \cup Questions)]
    BY <1>3, <1>5, <2>1, <2>4
  <2> HIDE DEF c
  <2> QED
    BY <1>1, <2>3, <2>5, HandledTyped DEF c
<1>7. \/ Finishes(r, "cancelled") /\ UNCHANGED <<session, begun, rules, asking, answers>>
      \/ Answered(r, c) /\ UNCHANGED <<rules, asking, answers>>
      \/ Execute(r, c, own)
      \/ UNCHANGED answers /\ Answered(r, c) /\ UNCHANGED asking
      \/ UNCHANGED answers /\ Parked(r, loop, "permission")
  BY DEF Call
<1>8. CASE Handled /\ UNCHANGED <<asking, answers>>
  BY <1>1, <1>3, <1>8, HandledTyped
<1>9. CASE UNCHANGED answers /\ Parked(r, loop, "permission")
  <2>1. Handled /\ asking' \in [Runtimes -> SUBSET (Permissions \cup Questions)]
    <3> HIDE DEF c, loop, Handled
    <3> QED
      BY <1>4, <1>5, <1>9
  <2> QED
    BY <1>1, <1>3, <1>9, <2>1, HandledTyped
<1> QED
  BY <1>6, <1>7, <1>8, <1>9

LEMMA ReturnTyped ==
  ASSUME LoopTypesInv, NEW r \in Runs, Return(r)
  PROVE  LoopTypesInv'
<1> DEFINE c == run[r].todo[1]
<1>1. /\ run[r].pc = "exec" /\ results' = results \cup {c}
      /\ UNCHANGED <<script, batches, rules, asking, answers, grants, begun, cut>>
      /\ \/ \E status \in {"cancelled", "completed"} : Finishes(r, status)
         \/ Skips(r)
  BY DEF Return, WithResult, brokers
<1>2. run[r].todo # <<>> /\ RunTyped /\ RecordTyped
  BY <1>1 DEF LoopTypesInv, RunTyped, GoodRun
<1>3. c \in Asked /\ Asked' = Asked
  BY <1>1, <1>2, TodoTyped DEF Asked
<1>4. StoryTyped' /\ BrokersTyped'
  BY <1>1, <1>3 DEF LoopTypesInv, StoryTyped, BrokersTyped
<1>5. RunTyped' /\ RecordTyped'
  BY <1>1, <1>2, <1>3, SkipsTyped, FinishTyped
<1> QED
  BY <1>4, <1>5 DEF LoopTypesInv

LEMMA InterruptTyped ==
  ASSUME LoopTypesInv, NEW r \in Runs, Interrupt(r)
  PROVE  LoopTypesInv'
<1>1. /\ \E status \in {"interrupted", "error"} : Finishes(r, status)
      /\ cut' = IF run[r].pc = "exec" THEN [cut EXCEPT ![run[r].todo[1]] = @ + 1] ELSE cut
      /\ UNCHANGED <<script, batches, results, rules, asking, answers, grants, begun>>
  BY DEF Interrupt, session, brokers
<1>2. Asked' = Asked
  BY <1>1 DEF Asked
<1>3. RunTyped' /\ RecordTyped'
  BY <1>1, <1>2, FinishTyped DEF LoopTypesInv
<1>4. StoryTyped'
  BY <1>1, <1>2 DEF LoopTypesInv, StoryTyped
<1>5. cut' \in [Calls -> Nat]
  <2>1. cut \in [Calls -> Nat]
    BY DEF LoopTypesInv, BrokersTyped
  <2>2. CASE run[r].pc = "exec"
    <3> DEFINE c == run[r].todo[1]
    <3>1. c \in Calls
      BY <2>2, TodoTyped DEF LoopTypesInv, RunTyped, GoodRun
    <3>2. cut' = [cut EXCEPT ![c] = cut[c] + 1]
      BY <1>1, <2>2
    <3> HIDE DEF c
    <3>3. cut[c] + 1 \in Nat
      BY <2>1, <3>1
    <3> QED
      BY <2>1, <3>2, <3>3
  <2> QED
    BY <1>1, <2>1, <2>2
<1> QED
  BY <1>1, <1>3, <1>4, <1>5 DEF LoopTypesInv, BrokersTyped

LEMMA BeginTyped ==
  ASSUME LoopTypesInv, NEW r \in Runs, Begin(r)
  PROVE  LoopTypesInv'
<1> DEFINE x == [run[r] EXCEPT !.pc = "head"]
<1>1. /\ run' = [run EXCEPT ![r] = x] /\ UNCHANGED <<script, batches, results, rules, asking, answers, grants, begun, cut>>
      /\ record' = [record EXCEPT ![RuntimeOf[r]] = [owner |-> r, active |-> TRUE, cancel |-> FALSE]]
  BY DEF Begin, session, brokers, BegunRecord, NewRecord
<1>2. Asked' = Asked
  BY <1>1 DEF Asked
<1>3. GoodRun(x, Asked')
  BY <1>2 DEF LoopTypesInv, RunTyped, GoodRun, RunRecords
<1> HIDE DEF x
<1>4. RunTyped'
  BY <1>1, <1>2, <1>3, RunGoes DEF LoopTypesInv
<1>5. RecordTyped'
  <2>1. r \in 0..MaxRuns
    BY AgentAssumption DEF Runs
  <2> QED
    BY <1>1, <2>1 DEF LoopTypesInv, RecordTyped
<1>6. StoryTyped' /\ BrokersTyped'
  BY <1>1, <1>2 DEF LoopTypesInv, StoryTyped, BrokersTyped
<1> QED
  BY <1>4, <1>5, <1>6 DEF LoopTypesInv

LEMMA CancelTyped ==
  ASSUME OwnInv, LoopTypesInv, NEW rt \in Runtimes, Cancel(rt)
  PROVE  LoopTypesInv'
<1> DEFINE o == record[rt].owner
           x == [run[o] EXCEPT !.told = TRUE]
<1>1. o \in Runs
  BY DEF OwnInv, ActiveIsOwned, Cancel
<1>2. /\ run' = [run EXCEPT ![o] = x] /\ UNCHANGED <<script, batches, results, rules, asking, answers, grants, begun, cut>>
      /\ record' = [record EXCEPT ![rt].cancel = TRUE]
  BY DEF Cancel, session, brokers
<1>3. Asked' = Asked
  BY <1>2 DEF Asked
<1> HIDE DEF o
<1>4. GoodRun(x, Asked')
  BY <1>1, <1>3 DEF LoopTypesInv, RunTyped, GoodRun, RunRecords
<1> HIDE DEF x
<1>5. RunTyped'
  BY <1>1, <1>2, <1>3, <1>4, RunGoes DEF LoopTypesInv
<1>6. RecordTyped'
  BY <1>2 DEF LoopTypesInv, RecordTyped
<1>7. StoryTyped' /\ BrokersTyped'
  BY <1>2, <1>3 DEF LoopTypesInv, StoryTyped, BrokersTyped
<1> QED
  BY <1>5, <1>6, <1>7 DEF LoopTypesInv

\* The user answers or decides.
LEMMA UserTyped ==
  ASSUME LoopTypesInv, UNCHANGED <<script, batches, results, record, run, begun, cut>>,
         asking' \in [Runtimes -> SUBSET (Permissions \cup Questions)],
         answers' \in [Runtimes -> SUBSET Calls]
  PROVE  LoopTypesInv'
<1>1. Asked' = Asked
  BY DEF Asked
<1> QED
  BY <1>1 DEF LoopTypesInv, RunTyped, StoryTyped, RecordTyped, BrokersTyped

LEMMA TypesKept == OwnInv /\ LoopTypesInv /\ [Next]_vars => LoopTypesInv'
<1> SUFFICES ASSUME OwnInv, LoopTypesInv, [Next]_vars PROVE LoopTypesInv'
  OBVIOUS
<1>1. ASSUME NEW r \in Runs, Begin(r) \/ Interrupt(r) PROVE LoopTypesInv'
  BY <1>1, BeginTyped, InterruptTyped
<1>2. ASSUME NEW r \in Runs, Step(r) PROVE LoopTypesInv'
  BY <1>2, LoopHeadTyped, RequestTypesKept, ToolsDoneTyped, CallTyped, ReturnTyped DEF Step
<1>3. ASSUME NEW rt \in Runtimes, Cancel(rt) PROVE LoopTypesInv'
  BY <1>3, CancelTyped
<1>4. /\ asking \in [Runtimes -> SUBSET (Permissions \cup Questions)]
      /\ answers \in [Runtimes -> SUBSET Calls]
  BY DEF LoopTypesInv, BrokersTyped
<1>5. ASSUME NEW rt \in Runtimes, NEW ask \in asking[rt], Answer(rt, ask) PROVE LoopTypesInv'
  <2>1. /\ ask \in Questions /\ asking' = [asking EXCEPT ![rt] = @ \ {ask}]
        /\ answers' = [answers EXCEPT ![rt] = @ \cup {ask.of}]
        /\ UNCHANGED <<script, batches, results, record, run, begun, cut>>
    BY <1>5 DEF Answer, session
  <2>2. ask.of \in Calls
    BY <2>1 DEF Questions, Ask
  <2>3. /\ asking' \in [Runtimes -> SUBSET (Permissions \cup Questions)]
        /\ answers' \in [Runtimes -> SUBSET Calls]
    BY <1>4, <2>1, <2>2
  <2> QED
    BY <2>1, <2>3, UserTyped
<1>6. ASSUME NEW rt \in Runtimes, NEW ask \in asking[rt], NEW action \in {"allow", "deny"},
             NEW always \in BOOLEAN, Decide(rt, ask, action, always)
      PROVE  LoopTypesInv'
  <2>1. /\ asking' = [asking EXCEPT ![rt] = @ \ {ask}]
        /\ UNCHANGED <<script, batches, results, record, run, answers, begun, cut>>
    BY <1>6 DEF Decide, session
  <2>2. /\ asking' \in [Runtimes -> SUBSET (Permissions \cup Questions)]
        /\ answers' \in [Runtimes -> SUBSET Calls]
    BY <1>4, <2>1
  <2> QED
    BY <2>1, <2>2, UserTyped
<1>7. CASE UNCHANGED vars
  BY <1>4, <1>7, UserTyped DEF vars, session, brokers
<1>8. ASSUME NEW rt \in Runtimes, NEW ask, Seed(rt, ask) PROVE LoopTypesInv'
  <2>1. /\ ask \in Questions /\ answers' = [answers EXCEPT ![rt] = @ \cup {ask.of}]
        /\ UNCHANGED <<script, batches, results, record, run, asking, begun, cut>>
    BY <1>8 DEF Seed, session
  <2>2. ask.of \in Calls
    BY <2>1 DEF Questions, Ask
  <2>3. answers' \in [Runtimes -> SUBSET Calls]
    BY <1>4, <2>1, <2>2
  <2> QED
    BY <1>4, <2>1, <2>3, UserTyped
<1> QED
  BY <1>1, <1>2, <1>3, <1>5, <1>6, <1>7, <1>8 DEF Next

LEMMA InitTyped == Init => LoopTypesInv
<1> SUFFICES ASSUME Init PROVE LoopTypesInv
  OBVIOUS
<1>1. script \in Seq(Calls) /\ IsInjective(script)
  BY AgentAssumption DEF Init
<1>2. NewRun \in RunRecords /\ NewRun.todo = <<>> /\ NewRun.pc = "idle"
  <2>1. 0 \in 0..(MaxIterations - 1) /\ 0 \in 0..MaxRetries
    BY AgentAssumption
  <2> QED
    BY <2>1 DEF NewRun, RunRecords
<1>3. RunTyped
  BY <1>2 DEF Init, RunTyped, GoodRun, ToSet
<1>4. StoryTyped
  BY <1>1 DEF Init, StoryTyped
<1>5. RecordTyped /\ BrokersTyped
  BY AgentAssumption DEF Init, RecordTyped, BrokersTyped
<1> QED
  BY <1>3, <1>4, <1>5 DEF LoopTypesInv

\* Every variable keeps its type, for any number of runs in any runtimes.
THEOREM RunTypes == Spec => []TypeOK
<1>1. SessionInv => OwnInv /\ overlapped \in BOOLEAN
  BY DEF SessionInv
<1> QED
  BY <1>1, SessionHolds, InitTyped, TypesKept, TypesAreOK, PTL DEF Spec

-----------------------------------------------------------------------------
(* Cancels.                                                                *)

\* What a step of the loop does to a run that was told to stop.
LEMMA StepHeeds ==
  ASSUME OwnInv, NEW r \in InFlight, Cancelled(r), Step(r)
  PROVE  Heeds(r)
<1>1. r \in Runs /\ DOMAIN run = Runs /\ DOMAIN run[r] = DOMAIN NewRun
  BY DEF InFlight, OwnInv, OwnTyped
<1>2. ASSUME NEW status \in {"completed", "cancelled", "error"}, Finishes(r, status) PROVE Heeds(r)
  <2>1. run'[r].pc = "over" /\ run'[r].status = status
    BY <1>1, <1>2 DEF Finishes, NewRun
  <2> QED
    BY <2>1 DEF Heeds
<1>3. CASE LoopHead(r)
  BY <1>2, <1>3 DEF LoopHead, Stopped
<1>4. CASE Request(r)
  <2>1. CASE run[r].tries < MaxRetries /\ run' = [run EXCEPT ![r].tries = Attempts(r)]
    <3>1. run'[r] = [run[r] EXCEPT !.tries = @ + 1]
      BY <1>1, <2>1 DEF Attempts
    <3> QED
      BY <1>4, <2>1, <3>1 DEF Heeds, Request
  <2> QED
    BY <1>2, <1>4, <2>1 DEF Request
<1>5. CASE ToolsDone(r)
  BY <1>2, <1>5 DEF ToolsDone, Stopped
<1>6. CASE Call(r)
  BY <1>2, <1>6 DEF Call, Stopped
<1>7. CASE Return(r)
  <2>1. ASSUME Skips(r) PROVE run'[r].pc = "tools"
    BY <1>1, <2>1 DEF Skips, Goes, NewRun
  <2> QED
    BY <1>2, <1>7, <2>1 DEF Return, Heeds
<1> QED
  BY <1>3, <1>4, <1>5, <1>6, <1>7 DEF Step

\* Nothing but its own step or its end changes a run that was told to stop.
LEMMA NextHeeds ==
  ASSUME OwnInv, LoopTypesInv, [Next]_vars, NEW r \in InFlight, Cancelled(r)
  PROVE  Heeds(r)
<1>1. r \in Runs /\ run[r].pc # "idle" /\ DOMAIN run = Runs /\ run[r] \in RunRecords
  BY DEF InFlight, LoopTypesInv, RunTyped, GoodRun
<1>2. ASSUME run'[r] = run[r] PROVE Heeds(r)
  BY <1>2 DEF Heeds
<1>3. ASSUME NEW q \in Runs, Step(q) PROVE Heeds(r)
  <2>1. CASE q = r
    BY <1>3, <2>1, StepHeeds
  <2>2. CASE q # r
    <3>1. Moves(q) \/ Ends(q)
      BY <1>3, StepShape DEF OwnInv
    <3>2. run'[r] = run[r]
      BY <1>1, <2>2, <3>1 DEF Moves, Ends, Finishes
    <3> QED
      BY <1>2, <3>2
  <2> QED
    BY <2>1, <2>2
<1>4. ASSUME NEW q \in Runs, Interrupt(q) PROVE Heeds(r)
  <2>1. PICK status \in {"interrupted", "error"} : Finishes(q, status)
    BY <1>4 DEF Interrupt
  <2>2. CASE q = r
    <3>1. run'[r].pc = "over" /\ run'[r].status = status
      BY <1>1, <2>1, <2>2 DEF Finishes, NewRun
    <3> QED
      BY <3>1 DEF Heeds
  <2>3. CASE q # r
    BY <1>1, <1>2, <2>1, <2>3 DEF Finishes
  <2> QED
    BY <2>2, <2>3
<1>5. ASSUME NEW q \in Runs, Begin(q) PROVE Heeds(r)
  BY <1>1, <1>2, <1>5 DEF Begin
<1>6. ASSUME NEW rt \in Runtimes, Cancel(rt) PROVE Heeds(r)
  <2>1. CASE record[rt].owner = r
    <3>1. record[rt].cancel /\ run[r].told = TRUE
      <4>1. RuntimeOf[r] = rt
        BY <1>6, <2>1 DEF OwnInv, ActiveIsOwned, Cancel
      <4>2. record[rt].cancel
        BY <4>1 DEF Cancelled
      <4> QED
        BY <1>1, <1>6, <2>1, <4>2 DEF OwnInv, ActiveIsOwned, Cancel, RunRecords
    <3>2. run'[r] = [run[r] EXCEPT !.told = TRUE]
      BY <1>1, <1>6, <2>1 DEF Cancel
    <3>3. run'[r] = run[r]
      BY <1>1, <3>1, <3>2 DEF RunRecords
    <3> QED
      BY <1>2, <3>3
  <2>2. CASE record[rt].owner # r
    BY <1>1, <1>2, <1>6, <2>2 DEF Cancel
  <2> QED
    BY <2>1, <2>2
<1>7. CASE UNCHANGED run
  BY <1>2, <1>7
<1>8. \/ \E q \in Runs : Begin(q) \/ Interrupt(q) \/ Step(q)
      \/ \E rt \in Runtimes : Cancel(rt)
      \/ UNCHANGED run
  BY DEF Next, Answer, Seed, Decide, vars
<1> QED
  BY <1>3, <1>4, <1>5, <1>6, <1>7, <1>8

\* A run that was told to stop starts no tool, turns to no further request and does not
\* park: only its own steps move it, and each of them looks at the cancel, except for the
\* retries of the request it has turned to.
THEOREM CancelsAreHeeded == Spec => CancelIsHeeded
<1>1. OwnInv /\ LoopTypesInv /\ [Next]_vars =>
        [\A r \in InFlight : Cancelled(r) => Heeds(r)]_vars
  BY NextHeeds
<1> QED
  BY <1>1, InitOwn, NextOwn, InitTyped, TypesKept, PTL DEF Spec, CancelIsHeeded
=============================================================================
