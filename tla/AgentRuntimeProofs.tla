-------------------------- MODULE AgentRuntimeProofs --------------------------
(***************************************************************************)
(* What is proved of AgentRuntime: the invariants of its scenes, each from *)
(* an inductive invariant of the component of the scene, which the other   *)
(* scenes leave as it is.  Three scenes have proofs in modules of their    *)
(* own (GovernedTasksProofs, CompactionProofs, ResponseStreamProofs),      *)
(* which are instantiated.                                                 *)
(***************************************************************************)
EXTENDS AgentRuntime, AgentLoopProofs, FiniteSetTheorems, SequenceTheorems, TLAPS

-----------------------------------------------------------------------------
(* Leaders.  A cycle that read the budget while no other one dispatched    *)
(* leaves room for every task it has still to create; and where it is says *)
(* which of its tasks have a delegation, and which may have an agent.      *)

\* The delegations that count against the limit.
ChargedTasks == {t \in Leader!Tasks : board[t] \in Leader!Active}

\* The tasks a cycle has still to create.
Remaining(c) == IF cycle[c].pc = "prepare" THEN cycle[c].give ELSE cycle[c].give + 1 - cycle[c].next

CyclesTyped ==
    /\ DOMAIN cycle = Cycles
    /\ DOMAIN board = Leader!Tasks /\ DOMAIN agent = Leader!Tasks
    /\ \A c \in Cycles :
         /\ DOMAIN cycle[c] = {"pc", "give", "next", "failed", "report", "verdict"}
         /\ cycle[c].pc \in {"idle", "prepare", "dispatch", "judge", "over"}
         /\ cycle[c].give \in 0..MaxTasks /\ cycle[c].next \in Nat
         /\ cycle[c].pc = "idle" => cycle[c].give = 0 /\ cycle[c].next = 1
         /\ Leader!Dispatching(c) => 1 <= cycle[c].next /\ cycle[c].next <= cycle[c].give
         /\ cycle[c].pc \in {"idle", "prepare", "dispatch"} =>
              cycle[c].report = "none" /\ cycle[c].verdict = "none"

RoomIsLeft ==
    /\ IsFiniteSet(ChargedTasks)
    /\ loose = {} =>
         /\ Cardinality(ChargedTasks) <= Limit
         /\ \A c \in Cycles : Leader!Dispatching(c) => Cardinality(ChargedTasks) + Remaining(c) <= Limit
         /\ \A c, d \in Cycles : Leader!Dispatching(c) /\ Leader!Dispatching(d) => c = d

\* A cycle that has created nothing yet, or raised.
Untold(c) == cycle[c].pc \in {"idle", "prepare"} \/ (cycle[c].pc = "over" /\ cycle[c].verdict = "none")

CycleIsTold(c) ==
    /\ Untold(c) => \A i \in Leader!Places : board[<<c, i>>] = "none"
    /\ cycle[c].pc = "dispatch" /\ ~cycle[c].failed =>
         \A i \in 1..(cycle[c].next - 1) : board[<<c, i>>] # "none"
    /\ (cycle[c].pc = "judge" /\ ~cycle[c].failed) \/ cycle[c].report = "success" =>
         \A i \in 1..cycle[c].give : board[<<c, i>>] # "none"
    /\ \A i \in Leader!Places : agent[<<c, i>>] # "none" => cycle[c].pc # "idle" /\ i <= cycle[c].give
    /\ cycle[c].report = "success" /\ cycle[c].verdict = "complete" =>
         \A i \in 1..cycle[c].give : board[<<c, i>>] = "done"

LeaderInv == CyclesTyped /\ RoomIsLeft /\ \A c \in Cycles : CycleIsTold(c)

LEMMA SameCardinality == \A S : Leader!Cardinality(S) = Cardinality(S)
BY DEF Leader!Cardinality, Cardinality

LEMMA RoomBounds ==
  ASSUME LeaderInv
  PROVE  /\ Cardinality(ChargedTasks) \in Nat
         /\ Limit \in Nat /\ MaxTasks \in Nat
         /\ \A c \in Cycles : Leader!Dispatching(c) => Remaining(c) \in 1..MaxTasks
<1>1. Cardinality(ChargedTasks) \in Nat
  BY FS_CardinalityType DEF LeaderInv, RoomIsLeft
<1>2. Limit \in Nat /\ MaxTasks \in Nat
  BY RuntimeAssumption DEF Leader!LeaderAssumption
<1>3. \A c \in Cycles : Leader!Dispatching(c) => Remaining(c) \in 1..MaxTasks
  BY <1>2 DEF LeaderInv, CyclesTyped, Remaining, Leader!Dispatching
<1> QED
  BY <1>1, <1>2, <1>3

\* A step of a cycle that leaves the board alone.
LEMMA BoardStays ==
  ASSUME UNCHANGED board
  PROVE  ChargedTasks' = ChargedTasks
BY DEF ChargedTasks

LEMMA LeaderKeeps ==
  ASSUME LeaderInv, Leader!Next
  PROVE  LeaderInv'
<1>0. /\ Cardinality(ChargedTasks) \in Nat /\ Limit \in Nat /\ MaxTasks \in Nat
      /\ \A c \in Cycles : Leader!Dispatching(c) => Remaining(c) \in 1..MaxTasks
  BY RoomBounds
<1>1. ASSUME NEW c \in Cycles, Leader!LoadBudget(c) PROVE LeaderInv'
  <2>1. PICK known \in BOOLEAN :
          /\ cycle' = [cycle EXCEPT ![c].give = Leader!Fitting(known),
                                    ![c].pc = IF Leader!Fitting(known) = 0 THEN "judge" ELSE "prepare"]
          /\ loose' = loose \cup
               (IF known /\ \A d \in Cycles : ~Leader!Dispatching(d) THEN {} ELSE {c})
    BY <1>1 DEF Leader!LoadBudget
  <2>2. cycle[c].pc = "idle" /\ UNCHANGED <<board, agent>>
    BY <1>1 DEF Leader!LoadBudget
  <2> DEFINE give == Leader!Fitting(known)
             x == [cycle[c] EXCEPT !.give = give, !.pc = IF give = 0 THEN "judge" ELSE "prepare"]
  <2>3. /\ give \in 0..MaxTasks
        /\ known /\ give # 0 => Cardinality(ChargedTasks) + give <= Limit
    <3>1. Leader!Free = IF Cardinality(ChargedTasks) >= Limit THEN 0 ELSE Limit - Cardinality(ChargedTasks)
      BY SameCardinality DEF Leader!Free, ChargedTasks
    <3> QED
      BY <1>0, <3>1 DEF Leader!Fitting
  <2>4. cycle' = [cycle EXCEPT ![c] = x]
    BY <2>1
  <2>5. /\ DOMAIN x = {"pc", "give", "next", "failed", "report", "verdict"}
        /\ x.pc = (IF give = 0 THEN "judge" ELSE "prepare") /\ x.give = give /\ x.next = 1
        /\ x.report = "none" /\ x.verdict = "none"
    BY <2>2 DEF LeaderInv, CyclesTyped
  <2> HIDE DEF give, x
  <2>6. cycle'[c] = x /\ DOMAIN cycle' = Cycles /\ \A d \in Cycles \ {c} : cycle'[d] = cycle[d]
    BY <2>4 DEF LeaderInv, CyclesTyped
  <2>7. CyclesTyped'
    BY <2>2, <2>3, <2>5, <2>6, <1>0 DEF LeaderInv, CyclesTyped, Leader!Dispatching
  <2>8. RoomIsLeft'
    <3>1. ChargedTasks' = ChargedTasks
      BY <2>2, BoardStays
    <3>2. ASSUME loose' = {}
          PROVE  /\ Cardinality(ChargedTasks') <= Limit
                 /\ \A d \in Cycles : (Leader!Dispatching(d))' => Cardinality(ChargedTasks') + Remaining(d)' <= Limit
                 /\ \A d, e \in Cycles : (Leader!Dispatching(d))' /\ (Leader!Dispatching(e))' => d = e
      <4>1. loose = {} /\ known /\ \A d \in Cycles : ~Leader!Dispatching(d)
        BY <2>1, <3>2
      <4>2. \A d \in Cycles : (Leader!Dispatching(d))' => d = c /\ give # 0 /\ Remaining(d)' = give
        BY <2>5, <2>6, <4>1 DEF Leader!Dispatching, Remaining
      <4> QED
        BY <2>3, <3>1, <4>1, <4>2 DEF LeaderInv, RoomIsLeft
    <3> QED
      BY <3>1, <3>2 DEF LeaderInv, RoomIsLeft
  <2>9. ASSUME NEW d \in Cycles PROVE CycleIsTold(d)'
    <3>1. CASE d # c
      BY <2>2, <2>6, <3>1 DEF LeaderInv, CycleIsTold, Untold
    <3>2. CASE d = c
      BY <2>2, <2>5, <2>6, <3>2 DEF LeaderInv, CycleIsTold, Untold
    <3> QED
      BY <3>1, <3>2
  <2> QED
    BY <2>7, <2>8, <2>9 DEF LeaderInv
<1>2. ASSUME NEW c \in Cycles, Leader!Prepare(c) PROVE LeaderInv'
  <2> DEFINE i == cycle[c].next
  <2>1. cycle[c].pc = "prepare" /\ UNCHANGED <<board, loose>>
    BY <1>2 DEF Leader!Prepare
  <2>2. i \in Leader!Places /\ i <= cycle[c].give /\ cycle[c].give \in Nat /\ i \in Nat /\ 1 <= i
    BY <2>1, <1>0 DEF LeaderInv, CyclesTyped, Leader!Places, Leader!Dispatching
  <2>3. PICK x :
          /\ cycle' = [cycle EXCEPT ![c] = x]
          /\ DOMAIN x = {"pc", "give", "next", "failed", "report", "verdict"}
          /\ x.give = cycle[c].give /\ x.failed = cycle[c].failed /\ x.verdict = "none"
          /\ \/ x.pc = "over" /\ x.report = "error" /\ x.next = i
             \/ x.pc = "prepare" /\ x.report = "none" /\ i < cycle[c].give /\ x.next = i + 1
             \/ x.pc = "dispatch" /\ x.report = "none" /\ x.next = 1
    <3>1. CASE Leader!Raise(c)
      <4> WITNESS [cycle[c] EXCEPT !.pc = "over", !.report = "error"]
      <4> QED
        BY <2>1, <3>1 DEF Leader!Raise, LeaderInv, CyclesTyped
    <3>2. CASE i < cycle[c].give /\ cycle' = [cycle EXCEPT ![c].next = i + 1]
      <4> WITNESS [cycle[c] EXCEPT !.next = i + 1]
      <4> QED
        BY <2>1, <3>2 DEF LeaderInv, CyclesTyped
    <3>3. CASE cycle' = [cycle EXCEPT ![c].pc = "dispatch", ![c].next = 1]
      <4> WITNESS [cycle[c] EXCEPT !.pc = "dispatch", !.next = 1]
      <4> QED
        BY <2>1, <3>3 DEF LeaderInv, CyclesTyped
    <3> QED
      BY <1>2, <3>1, <3>2, <3>3 DEF Leader!Prepare
  <2>4. /\ agent' = agent \/ agent' = [agent EXCEPT ![<<c, i>>] = "live"]
    BY <1>2 DEF Leader!Prepare
  <2>5. cycle'[c] = x /\ DOMAIN cycle' = Cycles /\ \A d \in Cycles \ {c} : cycle'[d] = cycle[d]
    BY <2>3 DEF LeaderInv, CyclesTyped
  <2>6. DOMAIN agent' = Leader!Tasks
    BY <2>4 DEF LeaderInv, CyclesTyped
  <2>7. \A d \in Cycles, j \in Leader!Places :
          agent'[<<d, j>>] # "none" => agent[<<d, j>>] # "none" \/ (d = c /\ j = i)
    BY <2>4 DEF LeaderInv, CyclesTyped, Leader!Tasks
  <2> HIDE DEF i
  <2>8. CyclesTyped'
    BY <2>1, <2>2, <2>3, <2>5, <2>6, <1>0 DEF LeaderInv, CyclesTyped, Leader!Dispatching
  <2>9. RoomIsLeft'
    <3>1. ChargedTasks' = ChargedTasks
      BY <2>1, BoardStays
    <3>2. \A d \in Cycles : (Leader!Dispatching(d))' => Leader!Dispatching(d) /\ Remaining(d)' = Remaining(d)
      BY <2>1, <2>2, <2>3, <2>5 DEF Leader!Dispatching, Remaining
    <3> QED
      BY <2>1, <3>1, <3>2 DEF LeaderInv, RoomIsLeft
  <2>10. ASSUME NEW d \in Cycles PROVE CycleIsTold(d)'
    <3>1. CASE d # c
      BY <2>1, <2>5, <2>7, <3>1 DEF LeaderInv, CycleIsTold, Untold
    <3>2. CASE d = c
      BY <2>1, <2>2, <2>3, <2>5, <2>7, <3>2 DEF LeaderInv, CycleIsTold, Untold
    <3> QED
      BY <3>1, <3>2
  <2> QED
    BY <2>8, <2>9, <2>10 DEF LeaderInv
<1>3. ASSUME NEW c \in Cycles, Leader!Dispatch(c) PROVE LeaderInv'
  <2>1. PICK created \in BOOLEAN, told0 \in BOOLEAN :
          /\ told0 => created
          /\ board' = IF created THEN [board EXCEPT ![<<c, cycle[c].next>>] = "queued"] ELSE board
          /\ cycle' = [cycle EXCEPT
              ![c].failed = Leader!Failed(c, told0),
              ![c].next = cycle[c].next + 1,
              ![c].pc = IF cycle[c].next = cycle[c].give THEN "judge" ELSE "dispatch"]
    BY <1>3 DEF Leader!Dispatch
  <2>2. cycle[c].pc = "dispatch" /\ UNCHANGED <<agent, loose>>
    BY <1>3 DEF Leader!Dispatch
  <2> DEFINE i == cycle[c].next
             x == [cycle[c] EXCEPT !.failed = cycle[c].failed \/ ~told0, !.next = i + 1,
                                   !.pc = IF i = cycle[c].give THEN "judge" ELSE "dispatch"]
  <2>3. i \in Leader!Places /\ i <= cycle[c].give /\ cycle[c].give \in Nat /\ i \in Nat /\ 1 <= i
    BY <2>2, <1>0 DEF LeaderInv, CyclesTyped, Leader!Places, Leader!Dispatching
  <2>4. cycle' = [cycle EXCEPT ![c] = x]
    BY <2>1 DEF Leader!Failed
  <2>5. /\ DOMAIN x = {"pc", "give", "next", "failed", "report", "verdict"}
        /\ x.give = cycle[c].give /\ x.next = i + 1 /\ x.pc = (IF i = cycle[c].give THEN "judge" ELSE "dispatch")
        /\ x.report = "none" /\ x.verdict = "none" /\ (~x.failed => ~cycle[c].failed /\ told0)
    BY <2>2 DEF LeaderInv, CyclesTyped
  <2>6. cycle'[c] = x /\ DOMAIN cycle' = Cycles /\ \A d \in Cycles \ {c} : cycle'[d] = cycle[d]
    BY <2>4 DEF LeaderInv, CyclesTyped
  <2>7. <<c, i>> \in Leader!Tasks
    BY <2>3 DEF Leader!Tasks
  <2>8. /\ DOMAIN board' = Leader!Tasks
        /\ \A t \in Leader!Tasks \ {<<c, i>>} : board'[t] = board[t]
        /\ board'[<<c, i>>] = IF created THEN "queued" ELSE board[<<c, i>>]
    BY <2>1, <2>7 DEF LeaderInv, CyclesTyped
  <2> HIDE DEF i, x
  <2>9. CyclesTyped'
    BY <2>2, <2>3, <2>5, <2>6, <2>8, <1>0 DEF LeaderInv, CyclesTyped, Leader!Dispatching
  <2>10. RoomIsLeft'
    <3>1. ChargedTasks' \subseteq ChargedTasks \cup {<<c, i>>}
      BY <2>8 DEF ChargedTasks
    <3>2. /\ IsFiniteSet(ChargedTasks \cup {<<c, i>>})
          /\ Cardinality(ChargedTasks \cup {<<c, i>>}) <= Cardinality(ChargedTasks) + 1
      <4>1. IsFiniteSet(ChargedTasks)
        BY DEF LeaderInv, RoomIsLeft
      <4>2. /\ IsFiniteSet(ChargedTasks \cup {<<c, i>>})
            /\ \/ Cardinality(ChargedTasks \cup {<<c, i>>}) = Cardinality(ChargedTasks)
               \/ Cardinality(ChargedTasks \cup {<<c, i>>}) = Cardinality(ChargedTasks) + 1
        BY <4>1, FS_AddElement
      <4> QED
        BY <4>2, <1>0
    <3>3. IsFiniteSet(ChargedTasks') /\ Cardinality(ChargedTasks') \in Nat
          /\ Cardinality(ChargedTasks') <= Cardinality(ChargedTasks) + 1
      BY <3>1, <3>2, <1>0, FS_Subset, FS_CardinalityType
    <3>4. \A d \in Cycles : (Leader!Dispatching(d))' => Leader!Dispatching(d)
      BY <2>2, <2>6 DEF Leader!Dispatching
    <3>5. ASSUME loose = {}
          PROVE  /\ Cardinality(ChargedTasks') <= Limit
                 /\ \A d \in Cycles : (Leader!Dispatching(d))' => Cardinality(ChargedTasks') + Remaining(d)' <= Limit
      <4>1. Leader!Dispatching(c) /\ Remaining(c) = cycle[c].give + 1 - i
        BY <2>2 DEF Leader!Dispatching, Remaining, i
      <4>2. Cardinality(ChargedTasks) + (cycle[c].give + 1 - i) <= Limit
        BY <3>5, <4>1 DEF LeaderInv, RoomIsLeft
      <4>3. \A d \in Cycles : (Leader!Dispatching(d))' => d = c
        BY <3>4, <3>5, <4>1 DEF LeaderInv, RoomIsLeft
      <4>4. (Leader!Dispatching(c))' => Remaining(c)' = cycle[c].give - i
        BY <2>3, <2>5, <2>6 DEF Leader!Dispatching, Remaining
      <4> QED
        BY <1>0, <2>3, <3>3, <4>2, <4>3, <4>4
    <3> QED
      BY <2>2, <3>3, <3>4, <3>5 DEF LeaderInv, RoomIsLeft
  <2>11. ASSUME NEW d \in Cycles PROVE CycleIsTold(d)'
    <3>1. CASE d # c
      <4>1. \A j : <<d, j>> # <<c, i>>
        BY <3>1
      <4>2. \A j \in Leader!Places : <<d, j>> \in Leader!Tasks /\ board'[<<d, j>>] = board[<<d, j>>]
        BY <2>8, <4>1 DEF Leader!Tasks
      <4>3. \A j \in 1..cycle[d].give : j \in Leader!Places
        BY <1>0 DEF LeaderInv, CyclesTyped, Leader!Places
      <4>4. cycle[d].pc = "dispatch" => \A j \in 1..(cycle[d].next - 1) : j \in Leader!Places
        BY <1>0 DEF LeaderInv, CyclesTyped, Leader!Places, Leader!Dispatching
      <4> QED
        BY <2>2, <2>6, <3>1, <4>2, <4>3, <4>4 DEF LeaderInv, CycleIsTold, Untold
    <3>2. CASE d = c
      <4>1. ~cycle[c].failed => \A j \in 1..(i - 1) : board[<<c, j>>] # "none"
        BY <2>2 DEF LeaderInv, CycleIsTold, i
      <4>2. \A j \in 1..(i - 1) : <<c, j>> \in Leader!Tasks \ {<<c, i>>}
        BY <2>3, <1>0 DEF Leader!Tasks, Leader!Places
      <4>3. ~x.failed => \A j \in 1..i : board'[<<c, j>>] # "none"
        <5>1. ~x.failed => \A j \in 1..(i - 1) : board'[<<c, j>>] # "none"
          BY <2>5, <2>8, <4>1, <4>2
        <5>2. ~x.failed => board'[<<c, i>>] # "none"
          BY <2>1, <2>5, <2>8
        <5>3. \A j \in 1..i : j = i \/ j \in 1..(i - 1)
          BY <2>3
        <5> QED
          BY <5>1, <5>2, <5>3
      <4>4. x.pc = "dispatch" => x.next - 1 = i
        BY <2>5, <2>3
      <4> QED
        BY <2>2, <2>3, <2>5, <2>6, <3>2, <4>3, <4>4 DEF LeaderInv, CycleIsTold, Untold
    <3> QED
      BY <3>1, <3>2
  <2> QED
    BY <2>9, <2>10, <2>11 DEF LeaderInv
<1>4. ASSUME NEW c \in Cycles, Leader!Judge(c) PROVE LeaderInv'
  <2>1. PICK seen \in {Leader!StatusesOf(RunOf[c]), {}}, prior \in Leader!MayBring(c) :
         cycle' = [cycle EXCEPT
              ![c].pc = "over",
              ![c].report = IF cycle[c].failed THEN "error" ELSE "success",
              ![c].verdict = Leader!Verdict(seen, prior)]
    BY <1>4 DEF Leader!Judge
  <2>2. cycle[c].pc = "judge" /\ UNCHANGED <<board, agent, loose>>
    BY <1>4 DEF Leader!Judge
  <2> DEFINE x == [cycle[c] EXCEPT !.pc = "over", !.report = IF cycle[c].failed THEN "error" ELSE "success",
                                   !.verdict = Leader!Verdict(seen, prior)]
  <2>3. cycle' = [cycle EXCEPT ![c] = x]
    BY <2>1
  <2>4. /\ DOMAIN x = {"pc", "give", "next", "failed", "report", "verdict"}
        /\ x.pc = "over" /\ x.give = cycle[c].give /\ x.next = cycle[c].next
        /\ (x.report = "success" => ~cycle[c].failed)
        /\ x.verdict = Leader!Verdict(seen, prior)
    BY DEF LeaderInv, CyclesTyped
  <2>5. Leader!Verdict(seen, prior) # "none"
        /\ (Leader!Verdict(seen, prior) = "complete" => seen = {"done"})
    BY DEF Leader!Verdict
  <2> HIDE DEF x
  <2>6. cycle'[c] = x /\ DOMAIN cycle' = Cycles /\ \A d \in Cycles \ {c} : cycle'[d] = cycle[d]
    BY <2>3 DEF LeaderInv, CyclesTyped
  <2>7. CyclesTyped'
    BY <2>2, <2>4, <2>6 DEF LeaderInv, CyclesTyped, Leader!Dispatching
  <2>8. RoomIsLeft'
    <3>1. ChargedTasks' = ChargedTasks
      BY <2>2, BoardStays
    <3>2. \A d \in Cycles : (Leader!Dispatching(d))' => Leader!Dispatching(d) /\ Remaining(d)' = Remaining(d)
      BY <2>4, <2>6 DEF Leader!Dispatching, Remaining
    <3> QED
      BY <2>2, <3>1, <3>2 DEF LeaderInv, RoomIsLeft
  <2>9. ASSUME NEW d \in Cycles PROVE CycleIsTold(d)'
    <3>1. CASE d # c
      BY <2>2, <2>6, <3>1 DEF LeaderInv, CycleIsTold, Untold
    <3>2. CASE d = c
      <4>1. \A j \in 1..cycle[c].give : j \in Leader!Places /\ <<c, j>> \in Leader!Tasks
        BY <1>0 DEF LeaderInv, CyclesTyped, Leader!Places, Leader!Tasks
      <4>2. x.report = "success" => \A j \in 1..cycle[c].give : board[<<c, j>>] # "none"
        BY <2>2, <2>4 DEF LeaderInv, CycleIsTold
      <4>3. x.report = "success" /\ x.verdict = "complete" => \A j \in 1..cycle[c].give : board[<<c, j>>] = "done"
        <5> SUFFICES ASSUME x.report = "success", x.verdict = "complete", NEW j \in 1..cycle[c].give
                     PROVE  board[<<c, j>>] = "done"
          OBVIOUS
        <5>1. seen = {"done"} /\ seen = Leader!StatusesOf(RunOf[c])
          BY <2>1, <2>4, <2>5
        <5>2. <<c, j>>[1] = c /\ <<c, j>> \in Leader!Tasks /\ board[<<c, j>>] # "none"
          BY <4>1, <4>2
        <5>3. board[<<c, j>>] \in Leader!StatusesOf(RunOf[c])
          BY <5>2 DEF Leader!StatusesOf
        <5> QED
          BY <5>1, <5>3
      <4> QED
        BY <2>2, <2>4, <2>5, <2>6, <3>2, <4>2, <4>3 DEF LeaderInv, CycleIsTold, Untold
    <3> QED
      BY <3>1, <3>2
  <2> QED
    BY <2>7, <2>8, <2>9 DEF LeaderInv
<1>5. ASSUME NEW t \in Leader!Tasks, Leader!Assignee(t) PROVE LeaderInv'
  <2>1. UNCHANGED <<cycle, loose>>
    BY <1>5 DEF Leader!Assignee
  <2>2. PICK s : /\ board' = [board EXCEPT ![t] = s]
                 /\ board[t] \in Leader!Active /\ s # "none"
    BY <1>5 DEF Leader!Assignee, Leader!Active
  <2>3. /\ DOMAIN board' = Leader!Tasks /\ \A w \in Leader!Tasks \ {t} : board'[w] = board[w]
        /\ board'[t] = s
    BY <2>2 DEF LeaderInv, CyclesTyped
  <2>4. DOMAIN agent' = Leader!Tasks /\ \A w \in Leader!Tasks : agent'[w] # "none" => agent[w] # "none"
    <3>1. agent' = agent \/ (agent[t] = "live" /\ agent' = [agent EXCEPT ![t] = "deleted"])
      BY <1>5 DEF Leader!Assignee
    <3> QED
      BY <3>1 DEF LeaderInv, CyclesTyped
  <2>5. CyclesTyped'
    BY <2>1, <2>3, <2>4 DEF LeaderInv, CyclesTyped, Leader!Dispatching
  <2>6. RoomIsLeft'
    <3>1. ChargedTasks' \subseteq ChargedTasks
      BY <2>2, <2>3 DEF ChargedTasks
    <3>2. IsFiniteSet(ChargedTasks') /\ Cardinality(ChargedTasks') \in Nat /\ Cardinality(ChargedTasks') <= Cardinality(ChargedTasks)
      BY <3>1, FS_Subset, FS_CardinalityType DEF LeaderInv, RoomIsLeft
    <3>3. \A c \in Cycles : ((Leader!Dispatching(c))' <=> Leader!Dispatching(c)) /\ Remaining(c)' = Remaining(c)
      BY <2>1 DEF Leader!Dispatching, Remaining
    <3>4. ASSUME loose = {}, NEW c \in Cycles, Leader!Dispatching(c)
          PROVE  Cardinality(ChargedTasks') + Remaining(c) <= Limit
      <4>1. Cardinality(ChargedTasks) + Remaining(c) <= Limit
        BY <3>4 DEF LeaderInv, RoomIsLeft
      <4> QED
        BY <1>0, <3>2, <3>4, <4>1
    <3>5. loose = {} => Cardinality(ChargedTasks') <= Limit
      BY <1>0, <3>2 DEF LeaderInv, RoomIsLeft
    <3> QED
      BY <2>1, <3>2, <3>3, <3>4, <3>5 DEF LeaderInv, RoomIsLeft
  <2>7. ASSUME NEW d \in Cycles PROVE CycleIsTold(d)'
    <3>1. \A j \in Leader!Places : <<d, j>> \in Leader!Tasks
      BY DEF Leader!Tasks
    <3>2. \A j \in 1..cycle[d].give : j \in Leader!Places
      BY <1>0 DEF LeaderInv, CyclesTyped, Leader!Places
    <3>3. cycle[d].pc = "dispatch" => \A j \in 1..(cycle[d].next - 1) : j \in Leader!Places
      BY <1>0 DEF LeaderInv, CyclesTyped, Leader!Places, Leader!Dispatching
    <3>4. \A j \in Leader!Places :
            /\ board[<<d, j>>] = "none" => board'[<<d, j>>] = "none"
            /\ board[<<d, j>>] # "none" => board'[<<d, j>>] # "none"
            /\ board[<<d, j>>] = "done" => board'[<<d, j>>] = "done"
            /\ agent'[<<d, j>>] # "none" => agent[<<d, j>>] # "none"
      BY <2>2, <2>3, <2>4, <3>1 DEF Leader!Active
    <3> QED
      BY <2>1, <3>2, <3>3, <3>4 DEF LeaderInv, CycleIsTold, Untold
  <2> QED
    BY <2>5, <2>6, <2>7 DEF LeaderInv
<1> QED
  BY <1>1, <1>2, <1>3, <1>4, <1>5 DEF Leader!Next

LEMMA LeaderHolds == AgentSpec => []LeaderInv
<1>1. AgentInit => LeaderInv
  <2> SUFFICES ASSUME AgentInit PROVE LeaderInv
    OBVIOUS
  <2>1. /\ cycle = [c \in Cycles |-> Leader!NewCycle] /\ board = [t \in Leader!Tasks |-> "none"]
        /\ agent = [t \in Leader!Tasks |-> "none"] /\ loose = {}
    BY DEF AgentInit, Leader!Init
  <2>2. Limit \in Nat /\ MaxTasks \in Nat
    BY RuntimeAssumption DEF Leader!LeaderAssumption
  <2>3. ChargedTasks = {}
    BY <2>1 DEF ChargedTasks, Leader!Active
  <2>4. RoomIsLeft
    BY <2>1, <2>2, <2>3, FS_EmptySet DEF RoomIsLeft, Leader!Dispatching, Leader!NewCycle
  <2>5. CyclesTyped
    BY <2>1, <2>2 DEF CyclesTyped, Leader!NewCycle, Leader!Dispatching
  <2>6. ASSUME NEW c \in Cycles PROVE CycleIsTold(c)
    BY <2>1 DEF CycleIsTold, Untold, Leader!NewCycle, Leader!Tasks
  <2> QED
    BY <2>4, <2>5, <2>6 DEF LeaderInv
<1>2. LeaderInv /\ [AgentNext]_agentVars => LeaderInv'
  <2> SUFFICES ASSUME LeaderInv, [AgentNext]_agentVars PROVE LeaderInv'
    OBVIOUS
  <2>1. CASE Leader!Next
    BY <2>1, LeaderKeeps
  <2>2. CASE UNCHANGED leading
    <3>1. cycle' = cycle /\ board' = board /\ agent' = agent /\ loose' = loose
      BY <2>2 DEF leading
    <3> QED
      BY <3>1 DEF LeaderInv, CyclesTyped, RoomIsLeft, CycleIsTold, Untold, ChargedTasks, Remaining, Leader!Dispatching
  <2> QED
    BY <2>1, <2>2 DEF AgentNext, agentVars, OnlyRuns, OnlyRevert, OnlyFiles, OnlyBackground, OnlyCompaction,
         OnlyLeader, OnlyRouting, OnlyTokens, OnlyGoverned, OnlyResponse
<1> QED
  BY <1>1, <1>2, PTL DEF AgentSpec

\* The leaders of a group keep its budget and report the truth, for any number of cycles
\* and tasks.
THEOREM LeadersAreSound == AgentSpec => []CyclesAreSound
<1>1. LeaderInv => CyclesAreSound
  <2> SUFFICES ASSUME LeaderInv PROVE Leader!CyclesAreSound
    BY DEF CyclesAreSound
  <2>1. Leader!BudgetIsKept
    BY SameCardinality DEF LeaderInv, RoomIsLeft, ChargedTasks, Leader!BudgetIsKept, Leader!Active
  <2>2. Leader!ReportIsTrue
    <3> SUFFICES ASSUME NEW c \in Cycles, cycle[c].pc = "over"
                 PROVE  LET own == {<<c, i>> : i \in 1..cycle[c].give} IN
                        /\ cycle[c].verdict = "none" => \A t \in own : board[t] = "none"
                        /\ cycle[c].report = "success" =>
                             /\ \A t \in own : board[t] # "none"
                             /\ \A i \in Leader!Places : agent[<<c, i>>] # "none" => <<c, i>> \in own
                             /\ cycle[c].verdict = "complete" => \A t \in own : board[t] = "done"
      BY DEF Leader!ReportIsTrue
    <3>1. \A i \in 1..cycle[c].give : i \in Leader!Places
      BY RoomBounds DEF LeaderInv, CyclesTyped, Leader!Places
    <3>2. \A i \in Leader!Places : i <= cycle[c].give => i \in 1..cycle[c].give
      BY RoomBounds DEF LeaderInv, CyclesTyped, Leader!Places
    <3> QED
      BY <3>1, <3>2 DEF LeaderInv, CycleIsTold, Untold
  <2> QED
    BY <2>1, <2>2 DEF Leader!CyclesAreSound
<1> QED
  BY <1>1, LeaderHolds, PTL

\* A step of one cycle keeps the types of all.
LEMMA CycleMoves ==
  ASSUME Leader!TypeOK, NEW c \in Cycles, NEW x, cycle' = [cycle EXCEPT ![c] = x],
         x \in [pc: {"idle", "prepare", "dispatch", "judge", "over"},
                give: 0..MaxTasks, next: 1..(MaxTasks + 1), failed: BOOLEAN,
                report: {"none", "success", "error"},
                verdict: {"none", "blocked", "complete", "continue", "review"}],
         board' \in [Leader!Tasks -> {"none", "queued", "running", "blocked", "done", "failed"}],
         agent' \in [Leader!Tasks -> {"none", "live", "deleted"}],
         loose' \subseteq Cycles
  PROVE  Leader!TypeOK'
BY DEF Leader!TypeOK

LEMMA LeaderTypesKept ==
  ASSUME LeaderInv, Leader!TypeOK, Leader!Next
  PROVE  Leader!TypeOK'
<1> DEFINE Record == [pc: {"idle", "prepare", "dispatch", "judge", "over"},
                      give: 0..MaxTasks, next: 1..(MaxTasks + 1), failed: BOOLEAN,
                      report: {"none", "success", "error"},
                      verdict: {"none", "blocked", "complete", "continue", "review"}]
<1>1. /\ \A c \in Cycles : cycle[c] \in Record
      /\ board \in [Leader!Tasks -> {"none", "queued", "running", "blocked", "done", "failed"}]
      /\ agent \in [Leader!Tasks -> {"none", "live", "deleted"}]
      /\ loose \subseteq Cycles
  BY DEF Leader!TypeOK
<1>2. MaxTasks \in Nat /\ Limit \in Nat /\ Cardinality(ChargedTasks) \in Nat
  BY RoomBounds
<1>3. ASSUME NEW c \in Cycles, Leader!LoadBudget(c) PROVE Leader!TypeOK'
  <2>1. PICK known \in BOOLEAN :
          /\ cycle' = [cycle EXCEPT ![c].give = Leader!Fitting(known),
                                    ![c].pc = IF Leader!Fitting(known) = 0 THEN "judge" ELSE "prepare"]
          /\ loose' = loose \cup
               (IF known /\ \A d \in Cycles : ~Leader!Dispatching(d) THEN {} ELSE {c})
    BY <1>3 DEF Leader!LoadBudget
  <2>2. Leader!Fitting(known) \in 0..MaxTasks
    <3>1. Leader!Free = IF Cardinality(ChargedTasks) >= Limit THEN 0 ELSE Limit - Cardinality(ChargedTasks)
      BY SameCardinality DEF Leader!Free, ChargedTasks
    <3> QED
      BY <1>2, <3>1 DEF Leader!Fitting
  <2> DEFINE give == Leader!Fitting(known)
             x == [cycle[c] EXCEPT !.give = give, !.pc = IF give = 0 THEN "judge" ELSE "prepare"]
  <2>3. cycle' = [cycle EXCEPT ![c] = x]
    BY <2>1
  <2>4. x \in Record
    BY <1>1, <2>2
  <2>5. loose' \subseteq Cycles /\ UNCHANGED <<board, agent>>
    BY <1>1, <1>3, <2>1 DEF Leader!LoadBudget
  <2> HIDE DEF x
  <2> QED
    BY <1>1, <2>3, <2>4, <2>5, CycleMoves
<1>4. ASSUME NEW c \in Cycles, Leader!Prepare(c) PROVE Leader!TypeOK'
  <2>1. PICK x : /\ cycle' = [cycle EXCEPT ![c] = x]
                 /\ \/ x = [cycle[c] EXCEPT !.pc = "over", !.report = "error"]
                    \/ cycle[c].next < cycle[c].give /\ x = [cycle[c] EXCEPT !.next = cycle[c].next + 1]
                    \/ x = [cycle[c] EXCEPT !.pc = "dispatch", !.next = 1]
    <3>1. \/ Leader!Raise(c)
          \/ /\ cycle[c].next < cycle[c].give
             /\ cycle' = [cycle EXCEPT ![c].next = cycle[c].next + 1]
          \/ cycle' = [cycle EXCEPT ![c].pc = "dispatch", ![c].next = 1]
      BY <1>4 DEF Leader!Prepare
    <3>2. CASE Leader!Raise(c)
      <4>1. cycle' = [cycle EXCEPT ![c] = [cycle[c] EXCEPT !.pc = "over", !.report = "error"]]
        BY <3>2 DEF Leader!Raise
      <4> QED
        BY <4>1
    <3>3. CASE cycle[c].next < cycle[c].give /\ cycle' = [cycle EXCEPT ![c].next = cycle[c].next + 1]
      <4>1. cycle' = [cycle EXCEPT ![c] = [cycle[c] EXCEPT !.next = cycle[c].next + 1]]
        BY <3>3
      <4> QED
        BY <3>3, <4>1
    <3>4. CASE cycle' = [cycle EXCEPT ![c].pc = "dispatch", ![c].next = 1]
      <4>1. cycle' = [cycle EXCEPT ![c] = [cycle[c] EXCEPT !.pc = "dispatch", !.next = 1]]
        BY <3>4
      <4> QED
        BY <4>1
    <3> QED
      BY <3>1, <3>2, <3>3, <3>4
  <2>2. cycle[c].next \in 1..(MaxTasks + 1) /\ cycle[c].give \in 0..MaxTasks
    BY <1>1
  <2>3. cycle[c].next < cycle[c].give => cycle[c].next + 1 \in 1..(MaxTasks + 1)
    BY <1>2, <2>2
  <2>4. x \in Record
    <3>1. CASE x = [cycle[c] EXCEPT !.pc = "over", !.report = "error"]
      BY <1>1, <3>1
    <3>2. CASE cycle[c].next < cycle[c].give /\ x = [cycle[c] EXCEPT !.next = cycle[c].next + 1]
      BY <1>1, <2>3, <3>2
    <3>3. CASE x = [cycle[c] EXCEPT !.pc = "dispatch", !.next = 1]
      <4>1. 1 \in 1..(MaxTasks + 1)
        BY <1>2
      <4> QED
        BY <1>1, <3>3, <4>1
    <3> QED
      BY <2>1, <3>1, <3>2, <3>3
  <2>5. agent' \in [Leader!Tasks -> {"none", "live", "deleted"}] /\ UNCHANGED <<board, loose>>
    BY <1>1, <1>4 DEF Leader!Prepare
  <2> QED
    BY <1>1, <2>1, <2>4, <2>5, CycleMoves
<1>5. ASSUME NEW c \in Cycles, Leader!Dispatch(c) PROVE Leader!TypeOK'
  <2>1. PICK created \in BOOLEAN, told1 \in BOOLEAN :
         /\ board' = IF created THEN [board EXCEPT ![<<c, cycle[c].next>>] = "queued"] ELSE board
         /\ cycle' = [cycle EXCEPT
              ![c].failed = Leader!Failed(c, told1),
              ![c].next = cycle[c].next + 1,
              ![c].pc = IF cycle[c].next = cycle[c].give THEN "judge" ELSE "dispatch"]
    BY <1>5 DEF Leader!Dispatch
  <2> DEFINE x == [cycle[c] EXCEPT !.failed = Leader!Failed(c, told1), !.next = cycle[c].next + 1,
                                   !.pc = IF cycle[c].next = cycle[c].give THEN "judge" ELSE "dispatch"]
  <2>2. cycle' = [cycle EXCEPT ![c] = x]
    BY <2>1
  <2>3. cycle[c].next \in 1..(MaxTasks + 1) /\ cycle[c].give \in 0..MaxTasks /\ cycle[c].failed \in BOOLEAN
    BY <1>1
  <2>4. cycle[c].next <= cycle[c].give
    BY <1>5 DEF LeaderInv, CyclesTyped, Leader!Dispatch, Leader!Dispatching
  <2>5. cycle[c].next + 1 \in 1..(MaxTasks + 1)
    BY <1>2, <2>3, <2>4
  <2>6. Leader!Failed(c, told1) \in BOOLEAN
    BY <2>3 DEF Leader!Failed
  <2>7. x \in Record
    BY ZenonT(60), <1>1, <2>5, <2>6
  <2>8. board' \in [Leader!Tasks -> {"none", "queued", "running", "blocked", "done", "failed"}]
    BY <1>1, <2>1
  <2>9. UNCHANGED <<agent, loose>>
    BY <1>5 DEF Leader!Dispatch
  <2> HIDE DEF x
  <2> QED
    BY <1>1, <2>2, <2>7, <2>8, <2>9, CycleMoves
<1>6. ASSUME NEW c \in Cycles, Leader!Judge(c) PROVE Leader!TypeOK'
  <2>1. PICK seen, prior :
         cycle' = [cycle EXCEPT
              ![c].pc = "over",
              ![c].report = IF cycle[c].failed THEN "error" ELSE "success",
              ![c].verdict = Leader!Verdict(seen, prior)]
    BY <1>6 DEF Leader!Judge
  <2> DEFINE x == [cycle[c] EXCEPT !.pc = "over", !.report = IF cycle[c].failed THEN "error" ELSE "success",
                                   !.verdict = Leader!Verdict(seen, prior)]
  <2>2. cycle' = [cycle EXCEPT ![c] = x]
    BY <2>1
  <2>3. Leader!Verdict(seen, prior) \in {"blocked", "complete", "continue", "review"}
    BY DEF Leader!Verdict
  <2>4. x \in Record
    BY <1>1, <2>3
  <2>5. UNCHANGED <<board, agent, loose>>
    BY <1>6 DEF Leader!Judge
  <2> HIDE DEF x
  <2> QED
    BY <1>1, <2>2, <2>4, <2>5, CycleMoves
<1>7. ASSUME NEW t \in Leader!Tasks, Leader!Assignee(t) PROVE Leader!TypeOK'
  <2>1. UNCHANGED <<cycle, loose>>
    BY <1>7 DEF Leader!Assignee
  <2>2. board' \in [Leader!Tasks -> {"none", "queued", "running", "blocked", "done", "failed"}]
    BY <1>1, <1>7 DEF Leader!Assignee
  <2>3. agent' \in [Leader!Tasks -> {"none", "live", "deleted"}]
    BY <1>1, <1>7 DEF Leader!Assignee
  <2> QED
    BY <2>1, <2>2, <2>3 DEF Leader!TypeOK
<1> QED
  BY <1>3, <1>4, <1>5, <1>6, <1>7 DEF Leader!Next

LEMMA LeaderTypes == AgentSpec => []Leader!TypeOK
<1>1. AgentInit => Leader!TypeOK
  BY RuntimeAssumption DEF AgentInit, Leader!Init, Leader!TypeOK, Leader!NewCycle, Leader!LeaderAssumption
<1>2. LeaderInv /\ Leader!TypeOK /\ [AgentNext]_agentVars => Leader!TypeOK'
  <2> SUFFICES ASSUME LeaderInv, Leader!TypeOK, [AgentNext]_agentVars PROVE Leader!TypeOK'
    OBVIOUS
  <2>1. CASE Leader!Next
    BY <2>1, LeaderTypesKept
  <2>2. CASE UNCHANGED leading
    BY <2>2 DEF leading, Leader!TypeOK
  <2> QED
    BY <2>1, <2>2 DEF AgentNext, agentVars, OnlyRuns, OnlyRevert, OnlyFiles, OnlyBackground, OnlyCompaction,
         OnlyLeader, OnlyRouting, OnlyTokens, OnlyGoverned, OnlyResponse
<1> QED
  BY <1>1, <1>2, LeaderHolds, PTL DEF AgentSpec

-----------------------------------------------------------------------------
(* Files.  An entry of a cache is the file itself, so that it does not     *)
(* matter whether time and size tell them apart.                           *)

Contents == [at : Nat, size : {0, 1}, holds : SUBSET Nat]
Entries == [session : Sessions, file : Contents]

\* A list of entries with one per session.
Distinct(list) ==
    /\ list \in Seq(Entries)
    /\ \A i, j \in 1..Len(list) : list[i].session = list[j].session => i = j

\* A cache has one entry per session, and each is the file.
HoldsFiles(cache, disk) ==
    /\ Distinct(cache)
    /\ \A i \in 1..Len(cache) : /\ disk[cache[i].session] # Files!NoFile
                                /\ cache[i].file = disk[cache[i].session]

FilesTyped ==
    /\ file \in [Sessions -> Contents] /\ clock \in Nat /\ asked \in Nat
    /\ {acked, unknown} \subseteq [Sessions -> SUBSET Nat]

FilesInv == FilesTyped /\ HoldsFiles(parsed, file) /\ HoldsFiles(summary, file) /\ Files!NothingIsLost

LEMMA PoppedLemma ==
  ASSUME NEW S, NEW s \in Seq(S), NEW k \in 1..Len(s)
  PROVE  /\ Files!Popped(s, k) \in Seq(S)
         /\ Len(Files!Popped(s, k)) = Len(s) - 1
         /\ \A i \in 1..(Len(s) - 1) : Files!Popped(s, k)[i] = IF i < k THEN s[i] ELSE s[i + 1]
<1> DEFINE l == SubSeq(s, 1, k - 1)  r == SubSeq(s, k + 1, Len(s))
<1>0. Len(s) \in Nat /\ k \in Nat /\ k >= 1 /\ k <= Len(s) /\ \A i \in 1..Len(s) : s[i] \in S
  OBVIOUS
<1>1. l \in Seq(S) /\ Len(l) = k - 1 /\ \A i \in 1..(k - 1) : l[i] = s[i]
  <2>1. \A i \in 1..(k - 1) : s[i] \in S
    BY <1>0
  <2>2. /\ l \in Seq(S) /\ Len(l) = IF 1 <= k - 1 THEN k - 1 - 1 + 1 ELSE 0
        /\ \A i \in 1..(k - 1 - 1 + 1) : l[i] = s[1 + i - 1]
    BY <1>0, <2>1, SubSeqProperties
  <2> QED
    BY <1>0, <2>2
<1>2. r \in Seq(S) /\ Len(r) = Len(s) - k /\ \A i \in 1..(Len(s) - k) : r[i] = s[k + i]
  <2>1. \A i \in (k + 1)..Len(s) : s[i] \in S
    BY <1>0
  <2>2. /\ r \in Seq(S) /\ Len(r) = IF k + 1 <= Len(s) THEN Len(s) - (k + 1) + 1 ELSE 0
        /\ \A i \in 1..(Len(s) - (k + 1) + 1) : r[i] = s[k + 1 + i - 1]
    BY <1>0, <2>1, SubSeqProperties
  <2> QED
    BY <1>0, <2>2
<1> HIDE DEF l, r
<1>3. /\ l \o r \in Seq(S) /\ Len(l \o r) = Len(l) + Len(r)
      /\ \A i \in 1..(Len(l) + Len(r)) : (l \o r)[i] = IF i <= Len(l) THEN l[i] ELSE r[i - Len(l)]
  BY <1>1, <1>2, ConcatProperties
<1>4. Files!Popped(s, k) = l \o r
  BY DEF Files!Popped, l, r
<1>5. Len(l \o r) = Len(s) - 1
  BY <1>0, <1>1, <1>2, <1>3
<1>6. ASSUME NEW i \in 1..(Len(s) - 1) PROVE (l \o r)[i] = IF i < k THEN s[i] ELSE s[i + 1]
  <2>1. i \in 1..(Len(l) + Len(r)) /\ i \in Int
    BY <1>0, <1>1, <1>2
  <2>2. (l \o r)[i] = IF i <= Len(l) THEN l[i] ELSE r[i - Len(l)]
    BY <1>3, <2>1
  <2>3. CASE i < k
    BY <1>0, <1>1, <2>1, <2>2, <2>3
  <2>4. CASE ~(i < k)
    <3>1. i - Len(l) \in 1..(Len(s) - k) /\ k + (i - Len(l)) = i + 1 /\ ~(i <= Len(l))
      BY <1>0, <1>1, <2>1, <2>4
    <3> QED
      BY <1>2, <2>2, <2>4, <3>1
  <2> QED
    BY <2>3, <2>4
<1> QED
  BY <1>3, <1>4, <1>5, <1>6

LEMMA PopsEntry ==
  ASSUME NEW list, Distinct(list), NEW s
  PROVE  /\ Distinct(Files!Without(list, s)) /\ Len(Files!Without(list, s)) <= Len(list)
         /\ \A i \in 1..Len(Files!Without(list, s)) :
              /\ Files!Without(list, s)[i].session # s
              /\ \E j \in 1..Len(list) : Files!Without(list, s)[i] = list[j]
<1> DEFINE places == {k \in DOMAIN list : list[k].session = s}
           k == CHOOSE i \in places : TRUE
           new == Files!Without(list, s)
<1>0. list \in Seq(Entries) /\ DOMAIN list = 1..Len(list) /\ Len(list) \in Nat
  BY DEF Distinct
<1>1. CASE places = {}
  <2>1. new = list
    BY <1>1 DEF Files!Without
  <2>2. \A i \in 1..Len(list) : list[i].session # s
    BY <1>0, <1>1
  <2> HIDE DEF new
  <2>3. Len(list) <= Len(list)
    BY <1>0
  <2> QED
    BY <2>1, <2>2, <2>3 DEF new
<1>2. CASE places # {}
  <2>1. k \in places
    BY <1>2
  <2>2. k \in 1..Len(list) /\ list[k].session = s
    BY <1>0, <2>1
  <2>3. new = Files!Popped(list, k)
    BY SMTT(40), <1>2 DEF Files!Without
  <2> HIDE DEF k, new, places
  <2>4. /\ new \in Seq(Entries) /\ Len(new) = Len(list) - 1
        /\ \A i \in 1..(Len(list) - 1) : new[i] = IF i < k THEN list[i] ELSE list[i + 1]
    BY <1>0, <2>2, <2>3, PoppedLemma
  <2>5. ASSUME NEW i \in 1..Len(new)
        PROVE  \E j \in 1..Len(list) : j # k /\ new[i] = list[j] /\ j = IF i < k THEN i ELSE i + 1
    <3>1. i \in Int /\ i \in 1..(Len(list) - 1) /\ k \in Int
      BY <1>0, <2>2, <2>4
    <3>2. CASE i < k
      BY <1>0, <2>4, <3>1, <3>2
    <3>3. CASE ~(i < k)
      BY <1>0, <2>4, <3>1, <3>3
    <3> QED
      BY <3>2, <3>3
  <2>6. \A i \in 1..Len(new) : new[i].session # s /\ \E j \in 1..Len(list) : new[i] = list[j]
    BY <2>2, <2>5 DEF Distinct
  <2>7. ASSUME NEW i \in 1..Len(new), NEW j \in 1..Len(new), new[i].session = new[j].session PROVE i = j
    <3>1. PICK a \in 1..Len(list) : new[i] = list[a] /\ a = IF i < k THEN i ELSE i + 1
      BY <2>5
    <3>2. PICK b \in 1..Len(list) : new[j] = list[b] /\ b = IF j < k THEN j ELSE j + 1
      BY <2>5
    <3>3. a = b
      BY <2>7, <3>1, <3>2 DEF Distinct
    <3>4. i \in Int /\ j \in Int /\ k \in Int
      BY <1>0, <2>2, <2>4
    <3> QED
      BY <3>1, <3>2, <3>3, <3>4
  <2>8. Distinct(new)
    BY <2>4, <2>7 DEF Distinct
  <2>9. Len(new) <= Len(list)
    BY <1>0, <2>4
  <2> QED
    BY <2>6, <2>8, <2>9 DEF new
<1> QED
  BY <1>1, <1>2

LEMMA PutsEntry ==
  ASSUME NEW list, Distinct(list), NEW s \in Sessions, NEW f \in Contents, NEW max \in Nat
  PROVE  /\ Distinct(Files!Put(list, s, f, max)) /\ Len(Files!Put(list, s, f, max)) <= max
         /\ \A i \in 1..Len(Files!Put(list, s, f, max)) :
              \/ Files!Put(list, s, f, max)[i].session = s /\ Files!Put(list, s, f, max)[i].file = f
              \/ /\ Files!Put(list, s, f, max)[i].session # s
                 /\ \E j \in 1..Len(list) : Files!Put(list, s, f, max)[i] = list[j]
<1> DEFINE old == Files!Without(list, s)
           e == Files!Entry(s, f)
           new == Append(old, e)
<1>1. /\ Distinct(old)
      /\ \A i \in 1..Len(old) : old[i].session # s /\ \E j \in 1..Len(list) : old[i] = list[j]
  BY PopsEntry
<1>2. e \in Entries /\ e.session = s /\ e.file = f
  BY DEF Files!Entry, Entries
<1> HIDE DEF old, e
<1>3. old \in Seq(Entries)
  BY <1>1 DEF Distinct
<1>4. /\ new \in Seq(Entries) /\ Len(new) = Len(old) + 1 /\ Len(old) \in Nat
      /\ \A i \in 1..Len(old) : new[i] = old[i]
      /\ new[Len(old) + 1] = e
  BY <1>2, <1>3, AppendProperties
<1> HIDE DEF new
<1>5. ASSUME NEW i \in 1..Len(new)
      PROVE  \/ i = Len(new) /\ new[i].session = s /\ new[i].file = f
             \/ /\ i \in 1..Len(old) /\ new[i] = old[i] /\ new[i].session # s
                /\ \E j \in 1..Len(list) : new[i] = list[j]
  <2>1. i = Len(old) + 1 \/ i \in 1..Len(old)
    BY <1>4
  <2> QED
    BY <1>1, <1>2, <1>4, <2>1
<1>6. ASSUME NEW i \in 1..Len(new), NEW j \in 1..Len(new), new[i].session = new[j].session PROVE i = j
  BY <1>1, <1>5, <1>6 DEF Distinct
<1> DEFINE p == Files!Put(list, s, f, max)
<1>7. \E d \in Nat : /\ p \in Seq(Entries) /\ Len(p) + d = Len(new) /\ Len(p) <= max
                     /\ \A i \in 1..Len(p) : p[i] = new[i + d]
  <2>1. CASE Len(new) > max
    <3> DEFINE d == Len(new) - max
    <3>1. d \in Nat /\ Len(new) \in Nat /\ d + max = Len(new)
      BY <1>4, <2>1
    <3>2. p = SubSeq(new, d + 1, Len(new))
      BY <2>1 DEF Files!Put, new, old, e
    <3> HIDE DEF d, p
    <3>3. \A i \in (d + 1)..Len(new) : new[i] \in Entries
      BY <1>4, <3>1
    <3>4. /\ p \in Seq(Entries) /\ Len(p) = IF d + 1 <= Len(new) THEN Len(new) - (d + 1) + 1 ELSE 0
          /\ \A i \in 1..(Len(new) - (d + 1) + 1) : p[i] = new[d + 1 + i - 1]
      BY <3>1, <3>2, <3>3, SubSeqProperties
    <3>5. Len(p) + d = Len(new)
      BY SMTT(40), <3>1, <3>4
    <3>6. \A i \in 1..Len(p) : p[i] = new[i + d]
      BY <3>1, <3>4, <3>5
    <3>7. Len(p) <= max
      BY <3>1, <3>4, <3>5
    <3> QED
      BY <3>1, <3>4, <3>5, <3>6, <3>7
  <2>2. CASE ~(Len(new) > max)
    <3>1. p = new
      BY <2>2 DEF Files!Put, new, old, e
    <3> HIDE DEF p
    <3>2. Len(p) <= max
      BY <1>4, <2>2, <3>1
    <3> QED
      BY <1>4, <3>1, <3>2
  <2> QED
    BY <2>1, <2>2
<1> HIDE DEF p
<1>8. PICK d \in Nat : /\ p \in Seq(Entries) /\ Len(p) + d = Len(new) /\ Len(p) <= max
                       /\ \A i \in 1..Len(p) : p[i] = new[i + d]
  BY <1>7
<1>9. \A i \in 1..Len(p) : i + d \in 1..Len(new)
  BY <1>4, <1>8
<1>10. \A i \in 1..Len(p) : \/ p[i].session = s /\ p[i].file = f
                            \/ p[i].session # s /\ \E j \in 1..Len(list) : p[i] = list[j]
  BY <1>5, <1>8, <1>9
<1>11. ASSUME NEW i \in 1..Len(p), NEW j \in 1..Len(p), p[i].session = p[j].session PROVE i = j
  <2>1. i + d = j + d
    BY <1>6, <1>8, <1>9, <1>11
  <2>2. i \in Int /\ j \in Int
    BY <1>8
  <2> QED
    BY <2>1, <2>2
<1>12. Distinct(p)
  BY <1>8, <1>11 DEF Distinct
<1> QED
  BY <1>8, <1>10, <1>12 DEF p

\* What a reader takes for the file is the file.
LEMMA SeenIsFile ==
  ASSUME NEW list, HoldsFiles(list, file), NEW s \in Sessions
  PROVE  Files!Seen(list, s) = file[s]
<1>0. DOMAIN list = 1..Len(list)
  BY DEF HoldsFiles, Distinct
<1>1. \A e \in Files!Valid(list, s) : e.file = file[s]
  <2> SUFFICES ASSUME NEW e \in Files!Valid(list, s) PROVE e.file = file[s]
    OBVIOUS
  <2>1. e \in Files!Range(list) /\ e.session = s
    BY DEF Files!Valid
  <2>2. PICK i \in 1..Len(list) : e = list[i]
    BY <1>0, <2>1 DEF Files!Range
  <2> QED
    BY <2>1, <2>2 DEF HoldsFiles
<1> QED
  BY <1>1 DEF Files!Seen

\* What Without and Put make of a cache, where the file of s alone has changed.
LEMMA CacheHoldsFiles ==
  ASSUME NEW list, NEW disk, NEW new, HoldsFiles(list, disk), NEW s \in Sessions,
         \A q \in Sessions \ {s} : new[q] = disk[q]
  PROVE  /\ HoldsFiles(Files!Without(list, s), new)
         /\ \A f \in Contents, max \in Nat :
              f = new[s] /\ f # Files!NoFile => HoldsFiles(Files!Put(list, s, f, max), new)
<1>0. Distinct(list) /\ \A j \in 1..Len(list) : list[j].session \in Sessions
  <2>1. list \in Seq(Entries)
    BY DEF HoldsFiles, Distinct
  <2>2. \A j \in 1..Len(list) : list[j] \in Entries
    BY <2>1
  <2>3. \A e \in Entries : e.session \in Sessions
    BY DEF Entries
  <2> QED
    BY <2>2, <2>3 DEF HoldsFiles
<1>1. HoldsFiles(Files!Without(list, s), new)
  <2> DEFINE w == Files!Without(list, s)
  <2>1. Distinct(w) /\ \A i \in 1..Len(w) : w[i].session # s /\ \E j \in 1..Len(list) : w[i] = list[j]
    BY <1>0, PopsEntry
  <2> HIDE DEF w
  <2>2. \A i \in 1..Len(w) : w[i].session \in Sessions \ {s} /\ w[i].file = disk[w[i].session]
                             /\ disk[w[i].session] # Files!NoFile
    BY <1>0, <2>1 DEF HoldsFiles
  <2>3. HoldsFiles(w, new)
    BY <2>1, <2>2 DEF HoldsFiles
  <2> QED
    BY <2>3 DEF w
<1>2. ASSUME NEW f \in Contents, NEW max \in Nat, f = new[s], f # Files!NoFile
      PROVE  HoldsFiles(Files!Put(list, s, f, max), new)
  <2> DEFINE w == Files!Put(list, s, f, max)
  <2>1. /\ Distinct(w)
        /\ \A i \in 1..Len(w) : \/ w[i].session = s /\ w[i].file = f
                                \/ w[i].session # s /\ \E j \in 1..Len(list) : w[i] = list[j]
    BY <1>0, PutsEntry
  <2> HIDE DEF w
  <2>2. \A i \in 1..Len(w) : w[i].file = new[w[i].session] /\ new[w[i].session] # Files!NoFile
    BY <1>0, <1>2, <2>1 DEF HoldsFiles
  <2>3. HoldsFiles(w, new)
    BY <2>1, <2>2 DEF HoldsFiles
  <2> QED
    BY <2>3 DEF w
<1> QED
  BY <1>1, <1>2

\* The parse cache holds no file that is too large.
LEMMA ParseCacheHoldsFiles ==
  ASSUME FilesInv, NEW new, NEW s \in Sessions, \A q \in Sessions \ {s} : new[q] = file[q],
         new[s] \in Contents, new[s] # Files!NoFile
  PROVE  HoldsFiles(Files!ParsePut(s, new[s]), new)
<1>1. /\ HoldsFiles(Files!Without(parsed, s), new)
      /\ \A f \in Contents, max \in Nat :
              f = new[s] /\ f # Files!NoFile => HoldsFiles(Files!Put(parsed, s, f, max), new)
  BY CacheHoldsFiles DEF FilesInv
<1>2. ParseMax \in Nat
  BY RuntimeAssumption DEF Files!FilesAssumption
<1> QED
  BY <1>1, <1>2 DEF Files!ParsePut

\* A read puts the file it found, from a cache or not, into the parse cache.
LEMMA LoadedHoldsFiles ==
  ASSUME FilesInv, NEW s \in Sessions, Files!Exists(s), Files!Loaded(s)
  PROVE  HoldsFiles(parsed', file)
<1>1. Files!Seen(parsed, s) = file[s]
  BY SeenIsFile DEF FilesInv
<1>2. file[s] \in Contents /\ file[s] # Files!NoFile
  BY DEF FilesInv, FilesTyped, Files!Exists
<1>3. HoldsFiles(Files!ParsePut(s, file[s]), file)
  BY <1>2, ParseCacheHoldsFiles
<1> QED
  BY <1>1, <1>3 DEF Files!Loaded

\* An update of what the file holds, that returns, fails, or is cut short.
LEMMA NothingIsLostLemma ==
  ASSUME FilesInv, NEW s \in Sessions, NEW f \in Contents, file' = [file EXCEPT ![s] = f],
         NEW given \in SUBSET Nat, NEW open \in SUBSET Nat,
         acked' = [acked EXCEPT ![s] = given], unknown' = [unknown EXCEPT ![s] = open],
         IF f # Files!NoFile THEN given \subseteq f.holds /\ f.holds \subseteq given \cup open ELSE given = {}
  PROVE  Files!NothingIsLost' /\ {acked', unknown'} \subseteq [Sessions -> SUBSET Nat]
         /\ file' \in [Sessions -> Contents] /\ \A q \in Sessions \ {s} : file'[q] = file[q]
<1>1. /\ acked \in [Sessions -> SUBSET Nat] /\ unknown \in [Sessions -> SUBSET Nat]
      /\ file \in [Sessions -> Contents]
  BY DEF FilesInv, FilesTyped
<1>2. /\ file'[s] = f /\ acked'[s] = given /\ unknown'[s] = open
      /\ \A q \in Sessions \ {s} : file'[q] = file[q] /\ acked'[q] = acked[q] /\ unknown'[q] = unknown[q]
  BY <1>1
<1>3. acked' \in [Sessions -> SUBSET Nat] /\ unknown' \in [Sessions -> SUBSET Nat] /\ file' \in [Sessions -> Contents]
  BY <1>1
<1>4. ASSUME NEW q \in Sessions
      PROVE  IF file'[q] # Files!NoFile
             THEN acked'[q] \subseteq file'[q].holds /\ file'[q].holds \subseteq acked'[q] \cup unknown'[q]
             ELSE acked'[q] = {}
  <2>1. CASE q = s
    BY <1>2, <2>1
  <2>2. CASE q # s
    BY <1>2, <2>2 DEF FilesInv, Files!NothingIsLost, Files!Exists
  <2> QED
    BY <2>1, <2>2
<1> QED
  BY <1>2, <1>3, <1>4 DEF Files!NothingIsLost, Files!Exists

\* What an update writes.
LEMMA WrittenIsFile ==
  ASSUME FilesInv, NEW s, NEW base \in SUBSET Nat, NEW size \in {0, 1}
  PROVE  /\ Files!Written(s, base, size) \in Contents
         /\ Files!Written(s, base, size) # Files!NoFile
         /\ Files!Written(s, base, size).holds = base \cup {asked + 1}
<1>1. asked + 1 \in Nat /\ clock \in Nat
  BY DEF FilesInv, FilesTyped
<1>2. Files!Written(s, base, size).holds = base \cup {asked + 1} /\ Files!NoFile.holds = {}
  BY DEF Files!Written, Files!NoFile
<1>3. Files!Written(s, base, size) # Files!NoFile
  BY <1>2
<1>4. Files!Written(s, base, size) \in Contents
  BY <1>1 DEF Files!Written, Contents
<1> QED
  BY <1>2, <1>3, <1>4

\* An update, of a session or of a new one.
LEMMA WriteKeepsFiles ==
  ASSUME FilesInv, NEW s \in Sessions, NEW base \in SUBSET Nat, Files!Write(s, base),
         IF Files!Exists(s) THEN base = file[s].holds ELSE base = {}
  PROVE  FilesInv'
<1>1. /\ asked' = asked + 1 /\ clock' = clock /\ unknown' = unknown
      /\ asked' \in Nat /\ clock' \in Nat
  BY DEF Files!Write, FilesInv, FilesTyped
<1>2. /\ acked \in [Sessions -> SUBSET Nat] /\ unknown \in [Sessions -> SUBSET Nat]
      /\ file \in [Sessions -> Contents]
  BY DEF FilesInv, FilesTyped
<1>3. CASE Files!OnCopy(s, base) /\ UNCHANGED <<file, summary, acked>>
  <2>1. HoldsFiles(parsed', file)
    <3>1. CASE base = {}
      BY <1>3, <3>1 DEF Files!OnCopy, FilesInv
    <3>2. CASE base # {}
      <4>1. Files!Exists(s) /\ Files!Loaded(s)
        BY <1>3, <3>2 DEF Files!OnCopy
      <4> QED
        BY <4>1, LoadedHoldsFiles
    <3> QED
      BY <3>1, <3>2
  <2>2. HoldsFiles(parsed', file') /\ HoldsFiles(summary', file')
    BY <1>3, <2>1 DEF FilesInv
  <2>3. Files!NothingIsLost'
    BY <1>1, <1>3 DEF FilesInv, Files!NothingIsLost, Files!Exists
  <2>4. FilesTyped'
    BY <1>1, <1>2, <1>3 DEF FilesTyped
  <2> QED
    BY <2>2, <2>3, <2>4 DEF FilesInv
<1>4. ASSUME NEW size \in {0, 1}, NEW statFails \in BOOLEAN,
             file' = [file EXCEPT ![s] = Files!Written(s, base, size)],
             Files!Refreshed(s, Files!Written(s, base, size), statFails),
             acked' = [acked EXCEPT ![s] = @ \cup {asked + 1}]
      PROVE  FilesInv'
  <2> DEFINE f == Files!Written(s, base, size)
             given == acked[s] \cup {asked + 1}
  <2>1. f \in Contents /\ f # Files!NoFile /\ f.holds = base \cup {asked + 1}
    BY WrittenIsFile
  <2>2. given \in SUBSET Nat /\ unknown[s] \in SUBSET Nat /\ unknown' = [unknown EXCEPT ![s] = unknown[s]]
        /\ acked' = [acked EXCEPT ![s] = given]
    BY <1>1, <1>2, <1>4
  <2>3. given \subseteq f.holds /\ f.holds \subseteq given \cup unknown[s]
    BY <2>1 DEF FilesInv, Files!NothingIsLost
  <2>4. file' = [file EXCEPT ![s] = f] /\ Files!Refreshed(s, f, statFails)
    BY <1>4
  <2> HIDE DEF f, given
  <2>5. /\ Files!NothingIsLost' /\ {acked', unknown'} \subseteq [Sessions -> SUBSET Nat]
        /\ file' \in [Sessions -> Contents] /\ \A q \in Sessions \ {s} : file'[q] = file[q]
    BY <2>1, <2>2, <2>3, <2>4, NothingIsLostLemma
  <2>6. file'[s] = f
    BY <1>2, <2>4
  <2>7. HoldsFiles(Files!Without(parsed, s), file') /\ HoldsFiles(Files!Without(summary, s), file')
    BY <2>5, CacheHoldsFiles DEF FilesInv
  <2>8. HoldsFiles(Files!ParsePut(s, f), file')
    BY <2>1, <2>5, <2>6, ParseCacheHoldsFiles
  <2>9. SummaryMax \in Nat
    BY RuntimeAssumption DEF Files!FilesAssumption
  <2>10. HoldsFiles(Files!Put(summary, s, f, SummaryMax), file')
    BY <2>1, <2>5, <2>6, <2>9, CacheHoldsFiles DEF FilesInv
  <2>11. HoldsFiles(parsed', file') /\ HoldsFiles(summary', file')
    BY <2>4, <2>7, <2>8, <2>10 DEF Files!Refreshed
  <2> QED
    BY <1>1, <2>5, <2>11 DEF FilesInv, FilesTyped
<1> QED
  BY <1>3, <1>4 DEF Files!Write

LEMMA FilesKeep ==
  ASSUME FilesInv, Files!Next
  PROVE  FilesInv'
<1>0. /\ acked \in [Sessions -> SUBSET Nat] /\ unknown \in [Sessions -> SUBSET Nat]
      /\ file \in [Sessions -> Contents] /\ clock \in Nat /\ asked \in Nat
  BY DEF FilesInv, FilesTyped
<1>1. ASSUME NEW s \in Sessions, Files!Create(s) PROVE FilesInv'
  BY <1>1, WriteKeepsFiles DEF Files!Create
<1>2. ASSUME NEW s \in Sessions, Files!Update(s) PROVE FilesInv'
  <2>1. Files!Seen(parsed, s) = file[s]
    BY SeenIsFile DEF FilesInv
  <2>2. Files!Exists(s) /\ Files!Write(s, file[s].holds) /\ file[s].holds \in SUBSET Nat
    BY <1>0, <1>2, <2>1 DEF Files!Update, Contents
  <2> QED
    BY <2>2, WriteKeepsFiles
<1>3. ASSUME NEW s \in Sessions, Files!Read(s) PROVE FilesInv'
  <2>1. Files!Exists(s) /\ Files!Loaded(s) /\ UNCHANGED <<file, clock, summary, asked, acked, unknown>>
    BY <1>3 DEF Files!Read
  <2>2. HoldsFiles(parsed', file)
    BY <2>1, LoadedHoldsFiles
  <2>3. FilesTyped' /\ Files!NothingIsLost'
    BY <2>1 DEF FilesInv, FilesTyped, Files!NothingIsLost, Files!Exists
  <2> QED
    BY <2>1, <2>2, <2>3 DEF FilesInv
<1>4. ASSUME NEW s \in Sessions, Files!List(s) PROVE FilesInv'
  <2>1. Files!Exists(s) /\ UNCHANGED <<file, clock, asked, acked, unknown>>
    BY <1>4 DEF Files!List
  <2>2. Files!Seen(parsed, s) = file[s] /\ Files!Seen(summary, s) = file[s]
    BY SeenIsFile DEF FilesInv
  <2>3. summary' = Files!Put(summary, s, file[s], SummaryMax)
    BY <1>4, <2>2 DEF Files!List
  <2>4. SummaryMax \in Nat /\ file[s] \in Contents /\ file[s] # Files!NoFile
    BY <1>0, <2>1, RuntimeAssumption DEF Files!FilesAssumption, Files!Exists
  <2>5. HoldsFiles(summary', file)
    BY <2>3, <2>4, CacheHoldsFiles DEF FilesInv
  <2>6. HoldsFiles(parsed', file)
    BY <1>4, <2>1, LoadedHoldsFiles DEF Files!List, FilesInv
  <2>7. FilesTyped' /\ Files!NothingIsLost'
    BY <2>1 DEF FilesInv, FilesTyped, Files!NothingIsLost, Files!Exists
  <2> QED
    BY <2>1, <2>5, <2>6, <2>7 DEF FilesInv
<1>5. ASSUME NEW s \in Sessions, Files!Delete(s) PROVE FilesInv'
  <2>1. /\ file' = [file EXCEPT ![s] = Files!NoFile]
        /\ acked' = [acked EXCEPT ![s] = {}] /\ unknown' = [unknown EXCEPT ![s] = {}]
        /\ parsed' = Files!Without(parsed, s) /\ summary' = Files!Without(summary, s)
        /\ UNCHANGED <<clock, asked>>
    BY <1>5 DEF Files!Delete
  <2>2. Files!NoFile \in Contents
    BY DEF Files!NoFile, Contents
  <2> DEFINE f == Files!NoFile
             nothing == {}
  <2>0. /\ f \in Contents /\ nothing \in SUBSET Nat /\ file' = [file EXCEPT ![s] = f]
        /\ acked' = [acked EXCEPT ![s] = nothing] /\ unknown' = [unknown EXCEPT ![s] = nothing]
        /\ (IF f # Files!NoFile THEN nothing \subseteq f.holds /\ f.holds \subseteq nothing \cup nothing
            ELSE nothing = {})
    BY <2>1, <2>2
  <2> HIDE DEF f, nothing
  <2>3. /\ Files!NothingIsLost' /\ {acked', unknown'} \subseteq [Sessions -> SUBSET Nat]
        /\ file' \in [Sessions -> Contents] /\ \A q \in Sessions \ {s} : file'[q] = file[q]
    BY <2>0, NothingIsLostLemma
  <2>4. HoldsFiles(parsed', file') /\ HoldsFiles(summary', file')
    BY <2>1, <2>3, CacheHoldsFiles DEF FilesInv
  <2> QED
    BY <1>0, <2>1, <2>3, <2>4 DEF FilesInv, FilesTyped
<1>6. ASSUME NEW s \in Sessions, Files!CrashInWrite(s) PROVE FilesInv'
  <2> DEFINE open == unknown[s] \cup {asked + 1}
  <2>1. /\ Files!Exists(s) /\ asked' = asked + 1 /\ clock' = clock /\ acked' = [acked EXCEPT ![s] = acked[s]]
        /\ unknown' = [unknown EXCEPT ![s] = open] /\ parsed' = <<>> /\ summary' = <<>>
    BY <1>0, <1>6 DEF Files!CrashInWrite
  <2>2. PICK f \in Files!Cut(s) : file' = [file EXCEPT ![s] = f]
    BY <1>6 DEF Files!CrashInWrite
  <2>3. acked[s] \subseteq file[s].holds /\ file[s].holds \subseteq acked[s] \cup unknown[s]
    BY <2>1 DEF FilesInv, Files!NothingIsLost
  <2>4. Files!Seen(parsed, s) = file[s]
    BY SeenIsFile DEF FilesInv
  <2>5. file[s].holds \in SUBSET Nat /\ file[s] \in Contents /\ file[s] # Files!NoFile
    BY <1>0, <2>1 DEF Contents, Files!Exists
  <2>6. /\ f \in Contents /\ f # Files!NoFile
        /\ acked[s] \subseteq f.holds /\ f.holds \subseteq acked[s] \cup open
    <3>1. CASE f = file[s]
      BY <2>3, <2>5, <3>1
    <3>2. CASE \E size \in {0, 1} : f = Files!Written(s, file[s].holds, size)
      <4>1. PICK size \in {0, 1} : f = Files!Written(s, file[s].holds, size)
        BY <3>2
      <4>2. f \in Contents /\ f # Files!NoFile /\ f.holds = file[s].holds \cup {asked + 1}
        BY <2>5, <4>1, WrittenIsFile
      <4> QED
        BY <2>3, <4>2
    <3> QED
      BY <2>2, <2>4, <3>1, <3>2 DEF Files!Cut
  <2>7. open \in SUBSET Nat /\ acked[s] \in SUBSET Nat
    BY <1>0
  <2> HIDE DEF open
  <2>8. /\ Files!NothingIsLost' /\ {acked', unknown'} \subseteq [Sessions -> SUBSET Nat]
        /\ file' \in [Sessions -> Contents]
    BY <2>1, <2>2, <2>6, <2>7, NothingIsLostLemma
  <2>9. HoldsFiles(<<>>, file')
    BY DEF HoldsFiles, Distinct
  <2> QED
    BY <1>0, <2>1, <2>8, <2>9 DEF FilesInv, FilesTyped
<1>7. CASE Files!Tick
  <2>1. clock' = clock + 1 /\ UNCHANGED <<file, parsed, summary, asked, acked, unknown>>
    BY <1>7 DEF Files!Tick
  <2> QED
    BY <1>0, <2>1 DEF FilesInv, FilesTyped, Files!NothingIsLost, Files!Exists
<1> QED
  BY <1>1, <1>2, <1>3, <1>4, <1>5, <1>6, <1>7 DEF Files!Next

LEMMA FilesHold == AgentSpec => []FilesInv
<1>1. AgentInit => FilesInv
  <2> SUFFICES ASSUME AgentInit PROVE FilesInv
    OBVIOUS
  <2>1. /\ file = [s \in Sessions |-> Files!NoFile] /\ clock = 1
        /\ parsed = <<>> /\ summary = <<>> /\ asked = 0
        /\ acked = [s \in Sessions |-> {}] /\ unknown = [s \in Sessions |-> {}]
    BY DEF AgentInit, Files!Init
  <2>2. Files!NoFile \in Contents
    BY DEF Files!NoFile, Contents
  <2>3. HoldsFiles(<<>>, file)
    BY DEF HoldsFiles, Distinct
  <2>4. FilesTyped /\ Files!NothingIsLost
    BY <2>1, <2>2 DEF FilesTyped, Files!NothingIsLost, Files!Exists
  <2> QED
    BY <2>1, <2>3, <2>4 DEF FilesInv
<1>2. FilesInv /\ [AgentNext]_agentVars => FilesInv'
  <2> SUFFICES ASSUME FilesInv, [AgentNext]_agentVars PROVE FilesInv'
    OBVIOUS
  <2>1. CASE Files!Next
    BY <2>1, FilesKeep
  <2>2. CASE UNCHANGED filing
    <3>1. UNCHANGED <<file, clock, parsed, summary, asked, acked, unknown>>
      BY <2>2 DEF filing
    <3> QED
      BY <3>1 DEF FilesInv, FilesTyped, Files!NothingIsLost, Files!Exists
  <2> QED
    BY <2>1, <2>2 DEF AgentNext, agentVars, OnlyRuns, OnlyRevert, OnlyFiles, OnlyBackground, OnlyCompaction,
         OnlyLeader, OnlyRouting, OnlyTokens, OnlyGoverned, OnlyResponse
<1> QED
  BY <1>1, <1>2, PTL DEF AgentSpec

\* A read of the store, from a cache or not, gives what the updates that returned have made,
\* whatever the clock of the file system says and wherever a crash cut a write short.
THEOREM FilesAreTrue == AgentSpec => []ReadsAreTrue
<1>1. FilesInv => ReadsAreTrue
  BY SeenIsFile DEF FilesInv, ReadsAreTrue, Files!ReadsAreTrue, Files!CacheIsCurrent
<1> QED
  BY <1>1, FilesHold, PTL

\* The types of files: no file is of the future, and the caches keep their limits.
Few(cache, max) == Distinct(cache) /\ Len(cache) <= max
Small(cache) == \A i \in 1..Len(cache) : cache[i].file.size \notin Large

FilesBound ==
    /\ clock \in 1..MaxClock /\ asked \in 0..MaxUpdates /\ stray \subseteq Sessions
    /\ \A s \in Sessions : file[s].at \in 0..clock
    /\ acked \in [Sessions -> SUBSET (1..asked)] /\ unknown \in [Sessions -> SUBSET (1..asked)]
    /\ Few(parsed, ParseMax) /\ Small(parsed) /\ Few(summary, SummaryMax)

LEMMA CachesFit ==
  ASSUME NEW list, NEW max \in Nat, Few(list, max), NEW s \in Sessions
  PROVE  /\ Few(Files!Without(list, s), max)
         /\ \A f \in Contents : Few(Files!Put(list, s, f, max), max)
         /\ Small(list) => /\ Small(Files!Without(list, s))
                           /\ \A f \in Contents : f.size \notin Large => Small(Files!Put(list, s, f, max))
<1>1. Distinct(list) /\ Len(list) <= max /\ Len(list) \in Nat
  BY DEF Few, Distinct
<1> DEFINE w == Files!Without(list, s)
<1>2. /\ Distinct(w) /\ Len(w) <= Len(list) /\ Len(w) \in Nat
      /\ \A i \in 1..Len(w) : \E j \in 1..Len(list) : w[i] = list[j]
  BY <1>1, PopsEntry DEF Distinct
<1>3. ASSUME NEW f \in Contents
      PROVE  /\ Few(Files!Put(list, s, f, max), max)
             /\ Small(list) /\ f.size \notin Large => Small(Files!Put(list, s, f, max))
  <2> DEFINE p == Files!Put(list, s, f, max)
  <2>1. /\ Distinct(p) /\ Len(p) <= max
        /\ \A i \in 1..Len(p) : p[i].file = f \/ \E j \in 1..Len(list) : p[i] = list[j]
    BY <1>1, PutsEntry
  <2> HIDE DEF p
  <2>2. Small(list) /\ f.size \notin Large => Small(p)
    BY <2>1 DEF Small
  <2> QED
    BY <2>1, <2>2 DEF Few, p
<1> HIDE DEF w
<1>4. Len(w) <= max
  BY <1>1, <1>2
<1>5. Few(w, max)
  BY <1>2, <1>4 DEF Few
<1>6. Small(list) => Small(w)
  BY <1>2 DEF Small
<1> QED
  BY <1>3, <1>5, <1>6 DEF w

LEMMA ParsedFits ==
  ASSUME FilesBound, NEW s \in Sessions, NEW f \in Contents
  PROVE  /\ Few(Files!ParsePut(s, f), ParseMax) /\ Small(Files!ParsePut(s, f))
         /\ Few(Files!Without(parsed, s), ParseMax) /\ Small(Files!Without(parsed, s))
         /\ Few(Files!Without(summary, s), SummaryMax) /\ Few(Files!Put(summary, s, f, SummaryMax), SummaryMax)
<1>1. ParseMax \in Nat /\ SummaryMax \in Nat
  BY RuntimeAssumption DEF Files!FilesAssumption
<1>2. Few(parsed, ParseMax) /\ Small(parsed) /\ Few(summary, SummaryMax)
  BY DEF FilesBound
<1>3. /\ Few(Files!Without(parsed, s), ParseMax) /\ Small(Files!Without(parsed, s))
      /\ Few(Files!Put(parsed, s, f, ParseMax), ParseMax)
      /\ f.size \notin Large => Small(Files!Put(parsed, s, f, ParseMax))
  BY <1>1, <1>2, CachesFit
<1>4. Few(Files!Without(summary, s), SummaryMax) /\ Few(Files!Put(summary, s, f, SummaryMax), SummaryMax)
  BY <1>1, <1>2, CachesFit
<1> QED
  BY <1>3, <1>4 DEF Files!ParsePut

LEMMA LoadedFits ==
  ASSUME FilesBound, FilesInv, NEW s \in Sessions, Files!Loaded(s)
  PROVE  Few(parsed', ParseMax) /\ Small(parsed')
<1>1. Files!Seen(parsed, s) = file[s] /\ file[s] \in Contents
  BY SeenIsFile DEF FilesInv, FilesTyped
<1> QED
  BY <1>1, ParsedFits DEF Files!Loaded

\* The clock and the number of updates do not go back.
LEMMA BoundsGrow ==
  ASSUME NEW n \in Nat, NEW m \in Nat, n <= m
  PROVE  1..n \subseteq 1..m /\ 0..n \subseteq 0..m
OBVIOUS

LEMMA WriteFits ==
  ASSUME FilesBound, FilesInv, NEW s \in Sessions, NEW base \in SUBSET Nat, Files!Write(s, base)
  PROVE  FilesBound'
<1>1. /\ asked \in Nat /\ asked' = asked + 1 /\ clock' = clock /\ stray' = stray /\ unknown' = unknown
      /\ asked' \in 0..MaxUpdates /\ clock \in 1..MaxClock /\ stray \subseteq Sessions
  <2>1. /\ asked < MaxUpdates /\ asked' = asked + 1 /\ UNCHANGED <<clock, stray, unknown>>
        /\ asked \in 0..MaxUpdates /\ clock \in 1..MaxClock /\ stray \subseteq Sessions
    BY DEF Files!Write, FilesBound
  <2> QED
    BY <2>1, RuntimeAssumption DEF Files!FilesAssumption
<1>2. 1..asked \subseteq 1..asked' /\ asked + 1 \in 1..asked'
  BY <1>1
<1>3. /\ acked \in [Sessions -> SUBSET (1..asked')] /\ unknown' \in [Sessions -> SUBSET (1..asked')]
      /\ \A q \in Sessions : file[q].at \in 0..clock
  BY <1>1, <1>2 DEF FilesBound
<1>4. CASE Files!OnCopy(s, base) /\ UNCHANGED <<file, summary, acked>>
  <2>1. Few(parsed', ParseMax) /\ Small(parsed')
    <3>1. CASE UNCHANGED parsed
      BY <3>1 DEF FilesBound
    <3>2. CASE Files!Loaded(s)
      BY <3>2, LoadedFits
    <3> QED
      BY <1>4, <3>1, <3>2 DEF Files!OnCopy
  <2>2. Few(summary', SummaryMax)
    BY <1>4 DEF FilesBound
  <2> QED
    BY <1>1, <1>3, <1>4, <2>1, <2>2 DEF FilesBound
<1>5. ASSUME NEW size \in {0, 1}, NEW statFails \in BOOLEAN,
             file' = [file EXCEPT ![s] = Files!Written(s, base, size)],
             Files!Refreshed(s, Files!Written(s, base, size), statFails),
             acked' = [acked EXCEPT ![s] = @ \cup {asked + 1}]
      PROVE  FilesBound'
  <2> DEFINE f == Files!Written(s, base, size)
  <2>1. f \in Contents /\ f.at = clock
    BY WrittenIsFile DEF Files!Written
  <2>2. file' = [file EXCEPT ![s] = f] /\ Files!Refreshed(s, f, statFails)
    BY <1>5
  <2> HIDE DEF f
  <2>3. /\ Few(parsed', ParseMax) /\ Small(parsed') /\ Few(summary', SummaryMax)
    BY <2>1, <2>2, ParsedFits DEF Files!Refreshed
  <2>4. \A q \in Sessions : file'[q].at \in 0..clock
    <3>1. clock \in 0..clock /\ file \in [Sessions -> Contents]
      BY DEF FilesInv, FilesTyped
    <3> QED
      BY <1>3, <2>1, <2>2, <3>1
  <2>5. acked' \in [Sessions -> SUBSET (1..asked')]
    BY <1>2, <1>3, <1>5
  <2> QED
    BY <1>1, <1>3, <2>3, <2>4, <2>5 DEF FilesBound
<1> QED
  BY <1>4, <1>5 DEF Files!Write

LEMMA FilesFit ==
  ASSUME FilesBound, FilesInv, Files!Next
  PROVE  FilesBound'
<1>0. /\ acked \in [Sessions -> SUBSET (1..asked)] /\ unknown \in [Sessions -> SUBSET (1..asked)]
      /\ file \in [Sessions -> Contents] /\ \A s \in Sessions : file[s].at \in 0..clock
  BY DEF FilesBound, FilesInv, FilesTyped
<1>1. ASSUME NEW s \in Sessions, Files!Create(s) PROVE FilesBound'
  <2>1. {} \in SUBSET Nat /\ Files!Write(s, {})
    BY <1>1 DEF Files!Create
  <2> QED
    BY <2>1, WriteFits
<1>2. ASSUME NEW s \in Sessions, Files!Update(s) PROVE FilesBound'
  <2>1. Files!Seen(parsed, s) = file[s]
    BY SeenIsFile DEF FilesInv
  <2>2. Files!Write(s, file[s].holds) /\ file[s].holds \in SUBSET Nat
    BY <1>0, <1>2, <2>1 DEF Files!Update, Contents
  <2> QED
    BY <2>2, WriteFits
<1>3. ASSUME NEW s \in Sessions, Files!Read(s) PROVE FilesBound'
  <2>1. Files!Loaded(s) /\ UNCHANGED <<file, clock, summary, stray, asked, acked, unknown>>
    BY <1>3 DEF Files!Read
  <2>2. Few(parsed', ParseMax) /\ Small(parsed')
    BY <2>1, LoadedFits
  <2> QED
    BY <2>1, <2>2 DEF FilesBound
<1>4. ASSUME NEW s \in Sessions, Files!List(s) PROVE FilesBound'
  <2>1. Files!Seen(parsed, s) = file[s] /\ Files!Seen(summary, s) = file[s]
    BY SeenIsFile DEF FilesInv
  <2>2. /\ summary' = Files!Put(summary, s, file[s], SummaryMax) /\ (Files!Loaded(s) \/ UNCHANGED parsed)
        /\ UNCHANGED <<file, clock, stray, asked, acked, unknown>>
    BY <1>4, <2>1 DEF Files!List
  <2>3. Few(summary', SummaryMax)
    BY <1>0, <2>2, ParsedFits
  <2>4. Few(parsed', ParseMax) /\ Small(parsed')
    <3>1. CASE UNCHANGED parsed
      BY <3>1 DEF FilesBound
    <3>2. CASE Files!Loaded(s)
      BY <3>2, LoadedFits
    <3> QED
      BY <2>2, <3>1, <3>2
  <2> QED
    BY <2>2, <2>3, <2>4 DEF FilesBound
<1>5. ASSUME NEW s \in Sessions, Files!Delete(s) PROVE FilesBound'
  <2>1. /\ file' = [file EXCEPT ![s] = Files!NoFile]
        /\ acked' = [acked EXCEPT ![s] = {}] /\ unknown' = [unknown EXCEPT ![s] = {}]
        /\ parsed' = Files!Without(parsed, s) /\ summary' = Files!Without(summary, s)
        /\ UNCHANGED <<clock, asked, stray>>
    BY <1>5 DEF Files!Delete
  <2>2. Files!NoFile \in Contents /\ Files!NoFile.at = 0
    BY DEF Files!NoFile, Contents
  <2>3. Few(parsed', ParseMax) /\ Small(parsed') /\ Few(summary', SummaryMax)
    BY <2>1, <2>2, ParsedFits
  <2>4. \A q \in Sessions : file'[q].at \in 0..clock
    <3>1. 0 \in 0..clock
      BY DEF FilesInv, FilesTyped
    <3> QED
      BY <1>0, <2>1, <2>2, <3>1
  <2>5. acked' \in [Sessions -> SUBSET (1..asked)] /\ unknown' \in [Sessions -> SUBSET (1..asked)]
    BY <1>0, <2>1
  <2> QED
    BY <2>1, <2>3, <2>4, <2>5 DEF FilesBound
<1>6. ASSUME NEW s \in Sessions, Files!CrashInWrite(s) PROVE FilesBound'
  <2>1. /\ asked \in Nat /\ asked' = asked + 1 /\ clock' = clock /\ acked' = acked
        /\ parsed' = <<>> /\ summary' = <<>>
        /\ unknown' = [unknown EXCEPT ![s] = unknown[s] \cup {asked + 1}]
        /\ asked' \in 0..MaxUpdates /\ clock \in 1..MaxClock
    <3>1. /\ asked < MaxUpdates /\ asked' = asked + 1 /\ UNCHANGED <<clock, acked>>
          /\ parsed' = <<>> /\ summary' = <<>>
          /\ unknown' = [unknown EXCEPT ![s] = unknown[s] \cup {asked + 1}]
          /\ asked \in 0..MaxUpdates /\ clock \in 1..MaxClock
      BY <1>6 DEF Files!CrashInWrite, FilesBound
    <3> QED
      BY <3>1, RuntimeAssumption DEF Files!FilesAssumption
  <2>2. PICK f \in Files!Cut(s) : file' = [file EXCEPT ![s] = f]
                                  /\ stray' = IF f = file[s] THEN stray \cup {s} ELSE stray
    BY <1>6 DEF Files!CrashInWrite
  <2>3. f.at \in 0..clock
    <3>1. CASE f = file[s]
      BY <1>0, <3>1
    <3>2. CASE f # file[s]
      <4>1. f.at = clock
        BY <2>2, <3>2 DEF Files!Cut, Files!Written
      <4> QED
        BY <4>1 DEF FilesInv, FilesTyped
    <3> QED
      BY <3>1, <3>2
  <2>4. \A q \in Sessions : file'[q].at \in 0..clock'
    BY <1>0, <2>1, <2>2, <2>3
  <2>5. 1..asked \subseteq 1..asked' /\ asked + 1 \in 1..asked'
    BY <2>1
  <2>6. acked' \in [Sessions -> SUBSET (1..asked')] /\ unknown' \in [Sessions -> SUBSET (1..asked')]
    BY <1>0, <2>1, <2>5
  <2>7. stray' \subseteq Sessions
    BY <2>2 DEF FilesBound
  <2>8. Few(<<>>, ParseMax) /\ Small(<<>>) /\ Few(<<>>, SummaryMax)
    <3>1. ParseMax \in Nat /\ SummaryMax \in Nat /\ Len(<<>>) = 0
      BY RuntimeAssumption DEF Files!FilesAssumption
    <3> QED
      BY <3>1 DEF Few, Small, Distinct
  <2> QED
    BY <2>1, <2>4, <2>6, <2>7, <2>8 DEF FilesBound
<1>7. CASE Files!Tick
  <2>1. /\ clock < MaxClock /\ clock' = clock + 1 /\ clock \in 1..MaxClock
        /\ UNCHANGED <<file, parsed, summary, stray, asked, acked, unknown>>
    BY <1>7 DEF Files!Tick, FilesBound
  <2>2. clock' \in 1..MaxClock /\ 0..clock \subseteq 0..clock'
    BY <2>1, RuntimeAssumption DEF Files!FilesAssumption
  <2> QED
    BY <2>1, <2>2 DEF FilesBound
<1> QED
  BY <1>1, <1>2, <1>3, <1>4, <1>5, <1>6, <1>7 DEF Files!Next

LEMMA FileTypes == AgentSpec => []Files!TypeOK
<1>1. AgentInit => FilesBound
  <2> SUFFICES ASSUME AgentInit PROVE FilesBound
    OBVIOUS
  <2>1. /\ file = [s \in Sessions |-> Files!NoFile] /\ clock = 1 /\ stray = {}
        /\ parsed = <<>> /\ summary = <<>> /\ asked = 0
        /\ acked = [s \in Sessions |-> {}] /\ unknown = [s \in Sessions |-> {}]
    BY DEF AgentInit, Files!Init
  <2>2. {ParseMax, SummaryMax, MaxUpdates} \subseteq Nat /\ MaxClock \in Nat \ {0}
    BY RuntimeAssumption DEF Files!FilesAssumption
  <2>3. Few(<<>>, ParseMax) /\ Small(<<>>) /\ Few(<<>>, SummaryMax)
    <3>1. Len(<<>>) = 0
      OBVIOUS
    <3> QED
      BY <2>2, <3>1 DEF Few, Small, Distinct
  <2>4. clock \in 1..MaxClock /\ asked \in 0..MaxUpdates
    BY <2>1, <2>2
  <2>5. Files!NoFile.at = 0 /\ 0 \in 0..1
    BY DEF Files!NoFile
  <2>6. \A s \in Sessions : file[s].at \in 0..clock
    BY <2>1, <2>5
  <2> QED
    BY <2>1, <2>3, <2>4, <2>6 DEF FilesBound
<1>2. FilesInv /\ FilesBound /\ [AgentNext]_agentVars => FilesBound'
  <2> SUFFICES ASSUME FilesInv, FilesBound, [AgentNext]_agentVars PROVE FilesBound'
    OBVIOUS
  <2>1. CASE Files!Next
    BY <2>1, FilesFit
  <2>2. CASE UNCHANGED filing
    BY <2>2 DEF filing, FilesBound
  <2> QED
    BY <2>1, <2>2 DEF AgentNext, agentVars, OnlyRuns, OnlyRevert, OnlyFiles, OnlyBackground, OnlyCompaction,
         OnlyLeader, OnlyRouting, OnlyTokens, OnlyGoverned, OnlyResponse
<1>3. ASSUME FilesInv, FilesBound PROVE Files!TypeOK
  <2>1. \A s \in Sessions : file[s].at \in 0..clock /\ file[s].size \in {0, 1}
    <3>1. file \in [Sessions -> Contents]
      BY <1>3 DEF FilesInv, FilesTyped
    <3> QED
      BY <1>3, <3>1 DEF FilesBound, Contents
  <2>2. \A e \in Files!Range(parsed) : e.session \in Sessions /\ e.file.size \notin Large
    <3>1. parsed \in Seq(Entries) /\ Small(parsed)
      BY <1>3 DEF FilesBound, Few, Distinct
    <3>2. ASSUME NEW e \in Files!Range(parsed) PROVE e.session \in Sessions /\ e.file.size \notin Large
      <4>1. PICK i \in 1..Len(parsed) : e = parsed[i]
        BY <3>1 DEF Files!Range
      <4>2. parsed[i] \in Entries
        BY <3>1
      <4> QED
        BY <3>1, <4>1, <4>2 DEF Small, Entries
    <3> QED
      BY <3>2
  <2> QED
    BY <1>3, <2>1, <2>2 DEF FilesBound, Few, Files!TypeOK
<1> QED
  BY <1>1, <1>2, <1>3, FilesHold, PTL DEF AgentSpec

-----------------------------------------------------------------------------
(* Background tasks.  A record that is final stays as it is, and a task is *)
(* marked when its session is told of it, or could not be.                 *)

Told == [task : Subtasks, state : Background!Final]

RecordsTyped ==
    /\ order \in Seq(Subtasks) /\ DOMAIN state = Subtasks /\ DOMAIN owner = Subtasks
    /\ reported \in Seq(Told) /\ told \in [Sessions -> Seq(Told)]
    /\ \A t \in Subtasks :
         /\ t \in alive => state[t] \in {"running", "cancelled"}
         /\ state[t] # "none" => \E k \in 1..Len(order) : order[k] = t
         /\ state[t] \in {"none", "running"} \cup Background!Final

ReportsAreTrue == \A k \in 1..Len(reported) : state[reported[k].task] = reported[k].state

TellsAreTrue ==
    \A s \in Sessions : \A k \in 1..Len(told[s]) :
        /\ state[told[s][k].task] = told[s][k].state /\ owner[told[s][k].task] = s
        /\ told[s][k].task \in injected

ToldOnce ==
    \A s \in Sessions : \A k, l \in 1..Len(told[s]) : told[s][k].task = told[s][l].task => k = l

\* A marked task was told of, or could not be.
MarkedAreTold ==
    \A t \in injected :
        /\ t \in Subtasks /\ state[t] \in Background!Final /\ owner[t] \in Sessions
        /\ t \in unwritten \/ \E k \in 1..Len(told[owner[t]]) : told[owner[t]][k].task = t

BackgroundInv == RecordsTyped /\ ReportsAreTrue /\ TellsAreTrue /\ ToldOnce /\ MarkedAreTold

\* The due records: all of them, each once.
LEMMA DueRecords ==
  ASSUME BackgroundInv, NEW s, NEW marked, NEW list \in Background!Oldest(Background!Unmarked(s, marked))
  PROVE  /\ list \in Seq(Subtasks) /\ DOMAIN list = 1..Len(list) /\ Len(list) \in Nat
         /\ Background!Range(list) = {list[k] : k \in 1..Len(list)}
         /\ \A k \in 1..Len(list) : owner[list[k]] = s /\ state[list[k]] \in Background!Final
                                    /\ list[k] \notin marked
         /\ \A k, l \in 1..Len(list) : list[k] = list[l] => k = l
         /\ \A t \in Subtasks : owner[t] = s /\ state[t] \in Background!Final /\ t \notin marked =>
              \E k \in 1..Len(list) : list[k] = t
<1> DEFINE tasks == Background!Unmarked(s, marked)
<1>1. /\ order \in Seq(Subtasks) /\ DOMAIN order = 1..Len(order)
  BY DEF BackgroundInv, RecordsTyped
<1>2. PICK n \in 0..Len(order) : list \in [1..n -> tasks]
  BY DEF Background!Oldest
<1>3. /\ Background!Range(list) = tasks
      /\ \A k, l \in DOMAIN list : k < l => Background!Place(list[k]) < Background!Place(list[l])
  BY DEF Background!Oldest
<1>4. \A t \in tasks : /\ t \in Subtasks /\ owner[t] = s /\ state[t] \in Background!Final /\ t \notin marked
                       /\ \E k \in 1..Len(order) : order[k] = t
  BY <1>1 DEF Background!Unmarked, Background!Range
<1>5. \A t \in Subtasks : owner[t] = s /\ state[t] \in Background!Final /\ t \notin marked => t \in tasks
  <2> SUFFICES ASSUME NEW t \in Subtasks, owner[t] = s, state[t] \in Background!Final, t \notin marked
               PROVE  t \in Background!Range(order)
    BY DEF Background!Unmarked
  <2>1. \E k \in 1..Len(order) : order[k] = t
    BY DEF BackgroundInv, RecordsTyped, Background!Final
  <2> QED
    BY <1>1, <2>1 DEF Background!Range
<1>6. \A t \in tasks : Background!Place(t) \in Int
  <2> SUFFICES ASSUME NEW t \in tasks PROVE Background!Place(t) \in 1..Len(order)
    BY <1>1
  <2>1. \E k \in DOMAIN order : order[k] = t
    BY <1>1, <1>4
  <2> QED
    BY <1>1, <2>1 DEF Background!Place
<1> HIDE DEF tasks
<1>7. /\ n \in Nat /\ DOMAIN list = 1..n /\ \A k \in 1..n : list[k] \in tasks
      /\ list \in Seq(tasks) /\ Len(list) = n
  BY <1>1, <1>2
<1>8. list \in Seq(Subtasks)
  BY <1>4, <1>7
<1>9. ASSUME NEW k \in 1..n, NEW l \in 1..n, list[k] = list[l] PROVE k = l
  <2>1. ~(k < l) /\ ~(l < k)
    BY <1>3, <1>6, <1>7, <1>9
  <2> QED
    BY <2>1
<1>10. Background!Range(list) = {list[k] : k \in 1..n}
  BY <1>7 DEF Background!Range
<1> QED
  BY <1>3, <1>4, <1>5, <1>7, <1>8, <1>9, <1>10

\* What is told of them.
LEMMA NotesOfRecords ==
  ASSUME BackgroundInv, NEW list \in Seq(Subtasks), \A k \in 1..Len(list) : state[list[k]] \in Background!Final,
         NEW n \in 0..Len(list)
  PROVE  /\ Background!Notes(list, n) \in Seq(Told) /\ Len(Background!Notes(list, n)) = n
         /\ \A k \in 1..n : /\ Background!Notes(list, n)[k].task = list[k]
                            /\ Background!Notes(list, n)[k].state = state[list[k]]
<1>1. n \in Nat /\ \A k \in 1..n : k \in 1..Len(list) /\ list[k] \in Subtasks
  OBVIOUS
<1>2. \A k \in 1..n : /\ Background!Notes(list, n)[k] = Background!Note(list[k])
                      /\ Background!Note(list[k]) \in Told
                      /\ Background!Note(list[k]).task = list[k]
                      /\ Background!Note(list[k]).state = state[list[k]]
  BY <1>1 DEF Background!Notes, Background!Note, Told
<1>3. Background!Notes(list, n) \in [1..n -> Told]
  BY <1>1, <1>2 DEF Background!Notes
<1> QED
  BY <1>1, <1>2, <1>3

\* What a sequence holds that another is appended to.
LEMMA Appended ==
  \A a, b \in Seq(Told) :
     /\ a \o b \in Seq(Told) /\ Len(a \o b) = Len(a) + Len(b) /\ Len(a) \in Nat /\ Len(b) \in Nat
     /\ \A k \in 1..(Len(a) + Len(b)) : (a \o b)[k] = IF k <= Len(a) THEN a[k] ELSE b[k - Len(a)]
<1> SUFFICES ASSUME NEW a \in Seq(Told), NEW b \in Seq(Told)
             PROVE  /\ a \o b \in Seq(Told) /\ Len(a \o b) = Len(a) + Len(b)
                    /\ Len(a) \in Nat /\ Len(b) \in Nat
                    /\ \A k \in 1..(Len(a) + Len(b)) :
                         (a \o b)[k] = IF k <= Len(a) THEN a[k] ELSE b[k - Len(a)]
  OBVIOUS
<1>1. Len(a) \in Nat /\ Len(b) \in Nat
  OBVIOUS
<1>2. /\ a \o b \in Seq(Told) /\ Len(a \o b) = Len(a) + Len(b)
      /\ \A k \in 1..(Len(a) + Len(b)) : (a \o b)[k] = IF k <= Len(a) THEN a[k] ELSE b[k - Len(a)]
  BY ConcatProperties
<1> QED
  BY <1>1, <1>2

\* A step of the records alone: what has been told of stays.
LEMMA RecordsMove ==
  ASSUME BackgroundInv, RecordsTyped',
         UNCHANGED <<injected, reported, told, unwritten>>,
         \A t \in Subtasks : state[t] \in Background!Final => state'[t] = state[t] /\ owner'[t] = owner[t]
  PROVE  BackgroundInv'
<1>1. /\ \A k \in 1..Len(reported) : reported[k].task \in Subtasks /\ state[reported[k].task] \in Background!Final
      /\ \A s \in Sessions : \A k \in 1..Len(told[s]) :
           told[s][k].task \in Subtasks /\ state[told[s][k].task] \in Background!Final
  <2>1. /\ \A k \in 1..Len(reported) : reported[k] \in Told
        /\ \A s \in Sessions : \A k \in 1..Len(told[s]) : told[s][k] \in Told
    BY DEF BackgroundInv, RecordsTyped
  <2>2. \A n \in Told : n.task \in Subtasks /\ n.state \in Background!Final
    BY DEF Told
  <2> QED
    BY <2>1, <2>2 DEF BackgroundInv, ReportsAreTrue, TellsAreTrue
<1>2. ReportsAreTrue' /\ TellsAreTrue' /\ ToldOnce'
  BY <1>1 DEF BackgroundInv, ReportsAreTrue, TellsAreTrue, ToldOnce
<1>3. MarkedAreTold'
  BY DEF BackgroundInv, MarkedAreTold
<1> QED
  BY <1>2, <1>3 DEF BackgroundInv

LEMMA BackgroundKeeps ==
  ASSUME BackgroundInv, Background!Next
  PROVE  BackgroundInv'
<1>0. /\ order \in Seq(Subtasks) /\ DOMAIN state = Subtasks /\ DOMAIN owner = Subtasks
      /\ reported \in Seq(Told) /\ told \in [Sessions -> Seq(Told)]
  BY DEF BackgroundInv, RecordsTyped
<1>1. ASSUME NEW t \in Subtasks, NEW s \in Sessions, Background!Start(t, s) PROVE BackgroundInv'
  <2>1. /\ state[t] = "none" /\ state' = [state EXCEPT ![t] = "running"] /\ owner' = [owner EXCEPT ![t] = s]
        /\ order' = Append(order, t) /\ alive' = alive \cup {t}
        /\ UNCHANGED <<injected, reported, told, unwritten>>
    BY <1>1 DEF Background!Start
  <2>2. /\ DOMAIN state' = Subtasks /\ DOMAIN owner' = Subtasks /\ state'[t] = "running" /\ owner'[t] = s
        /\ \A q \in Subtasks \ {t} : state'[q] = state[q] /\ owner'[q] = owner[q]
    BY <1>0, <2>1
  <2>3. /\ order' \in Seq(Subtasks) /\ Len(order') = Len(order) + 1 /\ Len(order) \in Nat
        /\ \A k \in 1..Len(order) : order'[k] = order[k]
        /\ order'[Len(order) + 1] = t
    BY <1>0, <2>1
  <2>4. \A q \in Subtasks : state'[q] # "none" => \E k \in 1..Len(order') : order'[k] = q
    <3> SUFFICES ASSUME NEW q \in Subtasks, state'[q] # "none" PROVE \E k \in 1..Len(order') : order'[k] = q
      OBVIOUS
    <3>1. CASE q = t
      BY <2>3, <3>1
    <3>2. CASE q # t
      <4>1. PICK k \in 1..Len(order) : order[k] = q
        BY <2>2, <3>2 DEF BackgroundInv, RecordsTyped
      <4>2. k \in 1..Len(order')
        BY <2>3
      <4> QED
        BY <2>3, <4>1, <4>2
    <3> QED
      BY <3>1, <3>2
  <2>5. RecordsTyped'
    BY <1>0, <2>1, <2>2, <2>3, <2>4 DEF BackgroundInv, RecordsTyped
  <2>6. \A q \in Subtasks : state[q] \in Background!Final => state'[q] = state[q] /\ owner'[q] = owner[q]
    BY <2>1, <2>2 DEF Background!Final
  <2> QED
    BY <2>1, <2>5, <2>6, RecordsMove
<1>2. ASSUME NEW t \in Subtasks, Background!Cancel(t) PROVE BackgroundInv'
  <2>1. /\ state[t] = "running" /\ state' = [state EXCEPT ![t] = "cancelled"]
        /\ UNCHANGED <<owner, order, alive, injected, reported, told, unwritten>>
    BY <1>2 DEF Background!Cancel
  <2>2. /\ DOMAIN state' = Subtasks /\ state'[t] = "cancelled" /\ \A q \in Subtasks \ {t} : state'[q] = state[q]
    BY <1>0, <2>1
  <2>3. RecordsTyped'
    BY <1>0, <2>1, <2>2 DEF BackgroundInv, RecordsTyped, Background!Final
  <2>4. \A q \in Subtasks : state[q] \in Background!Final => state'[q] = state[q] /\ owner'[q] = owner[q]
    BY <2>1, <2>2 DEF Background!Final
  <2> QED
    BY <2>1, <2>3, <2>4, RecordsMove
<1>3. ASSUME NEW t \in Subtasks, NEW outcome \in Background!Final, Background!End(t, outcome) PROVE BackgroundInv'
  <2>1. /\ t \in alive /\ alive' = alive \ {t} /\ UNCHANGED <<owner, order, injected, reported, told, unwritten>>
        /\ state' = [state EXCEPT ![t] = IF state[t] = "cancelled" THEN "cancelled" ELSE outcome]
    BY <1>3 DEF Background!End, Background!Finished
  <2>2. /\ DOMAIN state' = Subtasks /\ \A q \in Subtasks \ {t} : state'[q] = state[q]
        /\ state'[t] = IF state[t] = "cancelled" THEN "cancelled" ELSE outcome
    BY <1>0, <2>1
  <2>3. state[t] \in {"running", "cancelled"}
    BY <2>1 DEF BackgroundInv, RecordsTyped
  <2>4. RecordsTyped'
    BY <1>0, <2>1, <2>2, <2>3 DEF BackgroundInv, RecordsTyped, Background!Final
  <2>5. \A q \in Subtasks : state[q] \in Background!Final => state'[q] = state[q] /\ owner'[q] = owner[q]
    BY <2>1, <2>2, <2>3 DEF Background!Final
  <2> QED
    BY <2>1, <2>4, <2>5, RecordsMove
<1>4. ASSUME NEW s \in Sessions, Background!Drain(s) PROVE BackgroundInv'
  <2>1. PICK list \in Background!Oldest(Background!Unmarked(s, drained)) :
          /\ reported' = reported \o Background!Notes(list, Len(list))
          /\ UNCHANGED <<state, owner, order, alive, injected, told, unwritten>>
    BY <1>4 DEF Background!Drain
  <2>2. /\ list \in Seq(Subtasks) /\ Len(list) \in Nat /\ \A k \in 1..Len(list) : state[list[k]] \in Background!Final
    BY DueRecords
  <2> DEFINE notes == Background!Notes(list, Len(list))
  <2>3. /\ notes \in Seq(Told) /\ Len(notes) = Len(list)
        /\ \A k \in 1..Len(list) : notes[k].task = list[k] /\ notes[k].state = state[list[k]]
    BY <2>2, NotesOfRecords
  <2>4. reported' = reported \o notes
    BY <2>1
  <2> HIDE DEF notes
  <2>5. /\ reported' \in Seq(Told) /\ Len(reported') = Len(reported) + Len(notes) /\ Len(reported) \in Nat
        /\ \A k \in 1..(Len(reported) + Len(notes)) :
             reported'[k] = IF k <= Len(reported) THEN reported[k] ELSE notes[k - Len(reported)]
    <3>1. reported \in Seq(Told) /\ notes \in Seq(Told)
      BY <1>0, <2>3
    <3>2. /\ reported \o notes \in Seq(Told) /\ Len(reported \o notes) = Len(reported) + Len(notes)
          /\ Len(reported) \in Nat
          /\ \A k \in 1..(Len(reported) + Len(notes)) :
               (reported \o notes)[k] = IF k <= Len(reported) THEN reported[k]
                                        ELSE notes[k - Len(reported)]
      BY <3>1, Appended
    <3> QED
      BY <2>4, <3>2
  <2>6. ReportsAreTrue'
    <3> SUFFICES ASSUME NEW k \in 1..Len(reported') PROVE state'[reported'[k].task] = reported'[k].state
      BY DEF ReportsAreTrue
    <3>1. CASE k <= Len(reported)
      <4>1. k \in 1..Len(reported) /\ reported'[k] = reported[k]
        BY <2>5, <3>1
      <4> QED
        BY <2>1, <4>1 DEF BackgroundInv, ReportsAreTrue
    <3>2. CASE ~(k <= Len(reported))
      <4>1. k - Len(reported) \in 1..Len(list) /\ reported'[k] = notes[k - Len(reported)]
        BY <2>2, <2>3, <2>5, <3>2
      <4> QED
        BY <2>1, <2>3, <4>1
    <3> QED
      BY <3>1, <3>2
  <2>7. RecordsTyped'
    BY <2>1, <2>5 DEF BackgroundInv, RecordsTyped
  <2>8. TellsAreTrue' /\ ToldOnce' /\ MarkedAreTold'
    BY <2>1 DEF BackgroundInv, TellsAreTrue, ToldOnce, MarkedAreTold
  <2> QED
    BY <2>6, <2>7, <2>8 DEF BackgroundInv
<1>5. ASSUME NEW s \in Sessions, Background!Inject(s) PROVE BackgroundInv'
  <2>1. PICK list \in Background!Oldest(Background!Unmarked(s, injected)) :
          /\ injected' = injected \cup Background!Range(list)
          /\ \E n \in 0..Len(list) :
               /\ told' = [told EXCEPT ![s] = @ \o Background!Notes(list, n)]
               /\ unwritten' = unwritten \cup {list[k] : k \in (n + 1)..Len(list)}
          /\ UNCHANGED <<state, owner, order, alive, reported>>
    BY <1>5 DEF Background!Inject, Background!Due
  <2>2. PICK n \in 0..Len(list) :
               /\ told' = [told EXCEPT ![s] = @ \o Background!Notes(list, n)]
               /\ unwritten' = unwritten \cup {list[k] : k \in (n + 1)..Len(list)}
    BY <2>1
  <2>3. /\ list \in Seq(Subtasks) /\ Len(list) \in Nat
        /\ Background!Range(list) = {list[k] : k \in 1..Len(list)}
        /\ \A k \in 1..Len(list) : owner[list[k]] = s /\ state[list[k]] \in Background!Final
                                    /\ list[k] \notin injected
        /\ \A k, l \in 1..Len(list) : list[k] = list[l] => k = l
    BY DueRecords
  <2> DEFINE notes == Background!Notes(list, n)
             old == told[s]
             new == told[s] \o notes
  <2>4. /\ notes \in Seq(Told) /\ Len(notes) = n /\ n \in Nat /\ n <= Len(list)
        /\ \A k \in 1..n : notes[k].task = list[k] /\ notes[k].state = state[list[k]]
    BY <2>3, NotesOfRecords
  <2>5. old \in Seq(Told) /\ told' = [told EXCEPT ![s] = new] /\ new = old \o notes
    BY <1>0, <2>2
  <2> HIDE DEF notes, old, new
  <2>6. /\ new \in Seq(Told) /\ Len(new) = Len(old) + n /\ Len(old) \in Nat
        /\ \A k \in 1..(Len(old) + n) : new[k] = IF k <= Len(old) THEN old[k] ELSE notes[k - Len(old)]
    <3>1. old \in Seq(Told) /\ notes \in Seq(Told)
      BY <2>4, <2>5
    <3>2. /\ old \o notes \in Seq(Told) /\ Len(old \o notes) = Len(old) + Len(notes)
          /\ Len(old) \in Nat
          /\ \A k \in 1..(Len(old) + Len(notes)) :
               (old \o notes)[k] = IF k <= Len(old) THEN old[k] ELSE notes[k - Len(old)]
      BY <3>1, Appended
    <3> QED
      BY <2>4, <2>5, <3>2
  <2>7. told'[s] = new /\ told' \in [Sessions -> Seq(Told)] /\ \A q \in Sessions \ {s} : told'[q] = told[q]
    BY <1>0, <2>5, <2>6
  <2>8. \A k \in 1..Len(new) : \/ k \in 1..Len(old) /\ new[k] = old[k]
                               \/ /\ k > Len(old) /\ k - Len(old) \in 1..n
                                  /\ new[k].task = list[k - Len(old)]
                                  /\ new[k].state = state[list[k - Len(old)]]
    <3> SUFFICES ASSUME NEW k \in 1..Len(new)
                 PROVE  \/ k \in 1..Len(old) /\ new[k] = old[k]
                        \/ /\ k > Len(old) /\ k - Len(old) \in 1..n
                           /\ new[k].task = list[k - Len(old)]
                           /\ new[k].state = state[list[k - Len(old)]]
      OBVIOUS
    <3>1. CASE k <= Len(old)
      BY <2>6, <3>1
    <3>2. CASE ~(k <= Len(old))
      <4>1. k - Len(old) \in 1..n /\ k > Len(old) /\ new[k] = notes[k - Len(old)]
        BY <2>4, <2>6, <3>2
      <4> QED
        BY <2>4, <4>1
    <3> QED
      BY <3>1, <3>2
  <2>9. \A k \in 1..Len(old) : /\ state[old[k].task] = old[k].state /\ owner[old[k].task] = s
                               /\ old[k].task \in injected
                               /\ \A l \in 1..Len(old) : old[k].task = old[l].task => k = l
    BY DEF BackgroundInv, TellsAreTrue, ToldOnce, old
  <2>10. \A k \in 1..n : k \in 1..Len(list) /\ list[k] \in injected'
    BY <2>1, <2>3, <2>4
  <2>11. ASSUME NEW k \in 1..Len(new)
         PROVE  /\ state[new[k].task] = new[k].state /\ owner[new[k].task] = s
                /\ new[k].task \in injected'
    BY SMTT(40), <2>1, <2>3, <2>8, <2>9, <2>10
  <2>12. ASSUME NEW k \in 1..Len(new), NEW l \in 1..Len(new), new[k].task = new[l].task PROVE k = l
    <3>1. CASE k \in 1..Len(old) /\ new[k] = old[k] /\ l \in 1..Len(old) /\ new[l] = old[l]
      BY <2>9, <2>12, <3>1
    <3>2. CASE /\ k > Len(old) /\ k - Len(old) \in 1..n /\ new[k].task = list[k - Len(old)]
               /\ l > Len(old) /\ l - Len(old) \in 1..n /\ new[l].task = list[l - Len(old)]
      <4>1. k - Len(old) = l - Len(old)
        BY <2>3, <2>10, <2>12, <3>2
      <4> QED
        BY <2>6, <4>1
    <3>3. ASSUME NEW i \in 1..Len(new), NEW j \in 1..Len(new),
                 i \in 1..Len(old), new[i] = old[i],
                 j - Len(old) \in 1..n, new[j].task = list[j - Len(old)]
          PROVE  new[i].task # new[j].task
      <4>1. new[i].task \in injected
        BY <2>9, <3>3
      <4>2. list[j - Len(old)] \notin injected
        BY <2>3, <2>10, <3>3
      <4> QED
        BY <3>3, <4>1, <4>2
    <3> QED
      BY <2>8, <2>12, <3>1, <3>2, <3>3
  <2>13. RecordsTyped'
    BY <2>1, <2>7 DEF BackgroundInv, RecordsTyped
  <2>14. ReportsAreTrue'
    BY <2>1 DEF BackgroundInv, ReportsAreTrue
  <2>15. TellsAreTrue'
    <3> SUFFICES ASSUME NEW q \in Sessions, NEW k \in 1..Len(told'[q])
                 PROVE  /\ state'[told'[q][k].task] = told'[q][k].state /\ owner'[told'[q][k].task] = q
                        /\ told'[q][k].task \in injected'
      BY DEF TellsAreTrue
    <3>1. CASE q = s
      BY <2>1, <2>7, <2>11, <3>1
    <3>2. CASE q # s
      BY <2>1, <2>7, <3>2 DEF BackgroundInv, TellsAreTrue
    <3> QED
      BY <3>1, <3>2
  <2>16. ToldOnce'
    <3> SUFFICES ASSUME NEW q \in Sessions, NEW k \in 1..Len(told'[q]), NEW l \in 1..Len(told'[q]),
                        told'[q][k].task = told'[q][l].task
                 PROVE  k = l
      BY DEF ToldOnce
    <3>1. CASE q = s
      BY <2>7, <2>12, <3>1
    <3>2. CASE q # s
      BY <2>7, <3>2 DEF BackgroundInv, ToldOnce
    <3> QED
      BY <3>1, <3>2
  <2>17. MarkedAreTold'
    <3> SUFFICES ASSUME NEW t \in injected'
                 PROVE  /\ t \in Subtasks /\ state'[t] \in Background!Final /\ owner'[t] \in Sessions
                        /\ t \in unwritten' \/ \E k \in 1..Len(told'[owner'[t]]) : told'[owner'[t]][k].task = t
      BY DEF MarkedAreTold
    <3>1. CASE t \in injected
      <4>1. /\ t \in Subtasks /\ state[t] \in Background!Final /\ owner[t] \in Sessions
            /\ t \in unwritten \/ \E k \in 1..Len(told[owner[t]]) : told[owner[t]][k].task = t
        BY <3>1 DEF BackgroundInv, MarkedAreTold
      <4>2. CASE owner[t] = s
        <5>1. \A k \in 1..Len(old) : k \in 1..Len(new) /\ new[k] = old[k]
          BY <2>4, <2>6
        <5>2. t \in unwritten \/ \E k \in 1..Len(old) : old[k].task = t
          BY <4>1, <4>2 DEF old
        <5> QED
          BY <2>1, <2>2, <2>7, <4>1, <4>2, <5>1, <5>2
      <4>3. CASE owner[t] # s
        BY <2>1, <2>2, <2>7, <4>1, <4>3
      <4> QED
        BY <4>2, <4>3
    <3>2. CASE t \notin injected
      <4>1. PICK k \in 1..Len(list) : list[k] = t
        BY <2>1, <2>3, <3>2
      <4>2. t \in Subtasks /\ owner[t] = s /\ state[t] \in Background!Final
        BY <2>3, <4>1
      <4>3. CASE k <= n
        <5>1. Len(old) + k \in 1..Len(new) /\ Len(old) + k > Len(old) /\ (Len(old) + k) - Len(old) = k
          BY <2>4, <2>6, <4>3
        <5>2. new[Len(old) + k].task = t
          BY <2>6, <2>8, <4>1, <5>1
        <5> QED
          BY <2>1, <2>7, <4>2, <5>1, <5>2
      <4>4. CASE ~(k <= n)
        <5>1. k \in (n + 1)..Len(list)
          BY <2>3, <2>4, <4>4
        <5> QED
          BY <2>1, <2>2, <4>1, <4>2, <5>1
      <4> QED
        BY <4>3, <4>4
    <3> QED
      BY <3>1, <3>2
  <2> QED
    BY <2>13, <2>14, <2>15, <2>16, <2>17 DEF BackgroundInv
<1> QED
  BY <1>1, <1>2, <1>3, <1>4, <1>5 DEF Background!Next

LEMMA BackgroundHolds == AgentSpec => []BackgroundInv
<1>1. AgentInit => BackgroundInv
  <2> SUFFICES ASSUME AgentInit PROVE BackgroundInv
    OBVIOUS
  <2>1. /\ state = [t \in Subtasks |-> "none"] /\ owner = [t \in Subtasks |-> Background!Nobody]
        /\ order = <<>> /\ alive = {} /\ injected = {}
        /\ reported = <<>> /\ told = [s \in Sessions |-> <<>>]
    BY DEF AgentInit, Background!Init
  <2>2. \A s \in Sessions : told[s] = <<>> /\ Len(told[s]) = 0
    BY <2>1
  <2> QED
    BY <2>1, <2>2 DEF BackgroundInv, RecordsTyped, ReportsAreTrue, TellsAreTrue, ToldOnce, MarkedAreTold
<1>2. BackgroundInv /\ [AgentNext]_agentVars => BackgroundInv'
  <2> SUFFICES ASSUME BackgroundInv, [AgentNext]_agentVars PROVE BackgroundInv'
    OBVIOUS
  <2>1. CASE Background!Next
    BY <2>1, BackgroundKeeps
  <2>2. CASE UNCHANGED waiting
    <3>1. /\ state' = state /\ owner' = owner /\ order' = order /\ alive' = alive
          /\ injected' = injected /\ reported' = reported /\ told' = told /\ unwritten' = unwritten
      BY <2>2 DEF waiting
    <3>2. RecordsTyped'
      BY <3>1 DEF BackgroundInv, RecordsTyped
    <3> QED
      BY <3>1, <3>2, RecordsMove
  <2> QED
    BY <2>1, <2>2 DEF AgentNext, agentVars, OnlyRuns, OnlyRevert, OnlyFiles, OnlyBackground, OnlyCompaction,
         OnlyLeader, OnlyRouting, OnlyTokens, OnlyGoverned, OnlyResponse
<1> QED
  BY <1>1, <1>2, PTL DEF AgentSpec

LEMMA BackgroundIsTrue == BackgroundInv => Background!ToldIsTrue
<1> SUFFICES ASSUME BackgroundInv PROVE Background!ToldIsTrue
  OBVIOUS
<1>1. /\ reported \in Seq(Told) /\ DOMAIN reported = 1..Len(reported)
      /\ \A s \in Sessions : told[s] \in Seq(Told) /\ DOMAIN told[s] = 1..Len(told[s])
  BY DEF BackgroundInv, RecordsTyped
<1>2. \A n \in Background!Told : state[n.task] = n.state
  <2> SUFFICES ASSUME NEW n \in Background!Told PROVE state[n.task] = n.state
    OBVIOUS
  <2>1. CASE n \in Background!Range(reported)
    BY <1>1, <2>1 DEF Background!Range, BackgroundInv, ReportsAreTrue
  <2>2. CASE \E s \in Sessions : n \in Background!Range(told[s])
    BY <1>1, <2>2 DEF Background!Range, BackgroundInv, TellsAreTrue
  <2> QED
    BY <2>1, <2>2 DEF Background!Told
<1> QED
  BY <1>2 DEF Background!ToldIsTrue, BackgroundInv, TellsAreTrue, ToldOnce

\* A run that begins is told of all that is due, unless an append fails.
LEMMA InjectTellsAll ==
  ASSUME BackgroundInv, NEW s \in Sessions, Background!Inject(s), unwritten' = unwritten,
         NEW t \in Subtasks, owner[t] = s, state[t] \in Background!Final, t \notin unwritten
  PROVE  \E k \in 1..Len(told'[s]) : told'[s][k].task = t
<1>1. PICK list \in Background!Oldest(Background!Unmarked(s, injected)) :
          /\ injected' = injected \cup Background!Range(list)
          /\ \E n \in 0..Len(list) :
               /\ told' = [told EXCEPT ![s] = @ \o Background!Notes(list, n)]
               /\ unwritten' = unwritten \cup {list[k] : k \in (n + 1)..Len(list)}
          /\ UNCHANGED <<state, owner, order, alive, reported>>
  BY DEF Background!Inject, Background!Due
<1>2. BackgroundInv'
  BY BackgroundKeeps DEF Background!Next
<1>3. t \in injected'
  <2>1. /\ Background!Range(list) = {list[k] : k \in 1..Len(list)}
        /\ t \notin injected => \E k \in 1..Len(list) : list[k] = t
    BY DueRecords
  <2> QED
    BY <1>1, <2>1
<1> QED
  BY <1>1, <1>2, <1>3 DEF BackgroundInv, MarkedAreTold

\* A session is told of its background tasks: all of them, once and truly, whatever a runner
\* comes up with after its task was cancelled.
THEOREM SessionsAreTold == AgentSpec => TasksAreTold
<1> DEFINE Knows ==
        \A s \in Sessions :
            Background!Inject(s) /\ unwritten' = unwritten =>
              \A t \in Subtasks : owner[t] = s /\ state[t] \in Background!Final /\ t \notin unwritten =>
                \E k \in 1..Len(told'[s]) : told'[s][k].task = t
<1>1. BackgroundInv => Knows
  BY InjectTellsAll
<1>2. BackgroundInv /\ [AgentNext]_agentVars => [Knows]_(Background!vars)
  BY <1>1
<1>3. AgentSpec => [][Knows]_(Background!vars)
  BY <1>2, BackgroundHolds, PTL DEF AgentSpec
<1>4. AgentSpec => []Background!ToldIsTrue
  BY BackgroundHolds, BackgroundIsTrue, PTL
<1> QED
  BY <1>3, <1>4 DEF TasksAreTold, Background!TasksAreTold, Background!RunKnowsTasks

\* The records are there, each once, in the order they were started in; what is marked is
\* one of them, and what was reported is what was drained.
RecordsKept ==
    /\ state \in [Subtasks -> {"none", "running"} \cup Background!Final]
    /\ owner \in [Subtasks -> Sessions \cup {Background!Nobody}]
    /\ \A t \in Subtasks : state[t] = "none" <=> owner[t] = Background!Nobody
    /\ \A k \in 1..Len(order) : state[order[k]] # "none"
    /\ \A k, l \in 1..Len(order) : order[k] = order[l] => k = l
    /\ \A t \in alive \cup drained \cup injected \cup unwritten : \E k \in 1..Len(order) : order[k] = t
    /\ \A t \in drained : \E k \in 1..Len(reported) : reported[k].task = t
    /\ \A k \in 1..Len(reported) : reported[k].task \in drained

\* A step of a record alone.
LEMMA OneRecordMoves ==
  ASSUME BackgroundInv, RecordsKept, NEW t \in Subtasks, NEW st \in {"running"} \cup Background!Final,
         state[t] # "none", state' = [state EXCEPT ![t] = st], alive' \subseteq alive,
         UNCHANGED <<owner, order, drained, injected, reported, told, unwritten>>
  PROVE  RecordsKept'
<1>1. state \in [Subtasks -> {"none", "running"} \cup Background!Final] /\ st # "none"
  BY DEF RecordsKept, Background!Final
<1>2. /\ state' \in [Subtasks -> {"none", "running"} \cup Background!Final]
      /\ state'[t] = st /\ \A q \in Subtasks \ {t} : state'[q] = state[q]
  BY <1>1
<1>3. \A q \in Subtasks : state'[q] = "none" <=> state[q] = "none"
  BY <1>1, <1>2
<1>4. order \in Seq(Subtasks) /\ \A k \in 1..Len(order) : order[k] \in Subtasks
  BY DEF BackgroundInv, RecordsTyped
<1>5. /\ \A q \in Subtasks : state'[q] = "none" <=> owner'[q] = Background!Nobody
      /\ \A k \in 1..Len(order') : state'[order'[k]] # "none"
  BY <1>3, <1>4 DEF RecordsKept
<1> QED
  BY <1>2, <1>5 DEF RecordsKept

LEMMA RecordsStay ==
  ASSUME BackgroundInv, RecordsKept, Background!Next
  PROVE  RecordsKept'
<1>0. /\ order \in Seq(Subtasks) /\ \A k \in 1..Len(order) : order[k] \in Subtasks
      /\ reported \in Seq(Told) /\ Len(order) \in Nat /\ Len(reported) \in Nat
  BY DEF BackgroundInv, RecordsTyped
<1>1. ASSUME NEW t \in Subtasks, NEW s \in Sessions, Background!Start(t, s) PROVE RecordsKept'
  <2>1. /\ state[t] = "none" /\ state' = [state EXCEPT ![t] = "running"] /\ owner' = [owner EXCEPT ![t] = s]
        /\ order' = Append(order, t) /\ alive' = alive \cup {t}
        /\ UNCHANGED <<drained, injected, reported, told, unwritten>>
    BY <1>1 DEF Background!Start
  <2>2. /\ state \in [Subtasks -> {"none", "running"} \cup Background!Final]
        /\ owner \in [Subtasks -> Sessions \cup {Background!Nobody}]
    BY DEF RecordsKept
  <2>3. /\ state' \in [Subtasks -> {"none", "running"} \cup Background!Final]
        /\ owner' \in [Subtasks -> Sessions \cup {Background!Nobody}]
        /\ state'[t] = "running" /\ owner'[t] = s
        /\ \A q \in Subtasks \ {t} : state'[q] = state[q] /\ owner'[q] = owner[q]
    BY <2>1, <2>2
  <2>4. s # Background!Nobody
    BY RuntimeAssumption
  <2>5. \A q \in Subtasks : state'[q] = "none" <=> owner'[q] = Background!Nobody
    BY <2>3, <2>4 DEF RecordsKept
  <2>6. /\ Len(order') = Len(order) + 1
        /\ \A k \in 1..Len(order) : order'[k] = order[k] /\ order[k] # t
        /\ order'[Len(order) + 1] = t
    BY <1>0, <2>1 DEF RecordsKept
  <2>7. \A k \in 1..Len(order') : k \in 1..Len(order) \/ k = Len(order) + 1
    BY <1>0, <2>6
  <2>8. \A k \in 1..Len(order') : state'[order'[k]] # "none"
    BY <1>0, <2>3, <2>6, <2>7 DEF RecordsKept
  <2>9. \A k, l \in 1..Len(order') : order'[k] = order'[l] => k = l
    BY <1>0, <2>6, <2>7 DEF RecordsKept
  <2>10. \A k \in 1..Len(order) : k \in 1..Len(order')
    BY <1>0, <2>6
  <2>11. ASSUME NEW q \in alive' \cup drained' \cup injected' \cup unwritten'
         PROVE  \E k \in 1..Len(order') : order'[k] = q
    <3>1. CASE q = t
      <4>1. Len(order) + 1 \in 1..Len(order')
        BY <1>0, <2>6
      <4> QED
        BY <2>6, <3>1, <4>1
    <3>2. CASE q # t
      <4>1. PICK k \in 1..Len(order) : order[k] = q
        BY <2>1, <3>2 DEF RecordsKept
      <4> QED
        BY <2>6, <2>10, <4>1
    <3> QED
      BY <3>1, <3>2
  <2>12. /\ \A q \in drained' : \E k \in 1..Len(reported') : reported'[k].task = q
         /\ \A k \in 1..Len(reported') : reported'[k].task \in drained'
    BY <2>1 DEF RecordsKept
  <2> QED
    BY <2>3, <2>5, <2>8, <2>9, <2>11, <2>12 DEF RecordsKept
<1>2. ASSUME NEW t \in Subtasks, Background!Cancel(t) PROVE RecordsKept'
  BY <1>2, OneRecordMoves DEF Background!Cancel, Background!Final
<1>3. ASSUME NEW t \in Subtasks, NEW outcome \in Background!Final, Background!End(t, outcome) PROVE RecordsKept'
  <2>1. /\ t \in alive /\ alive' = alive \ {t}
        /\ UNCHANGED <<owner, order, drained, injected, reported, told, unwritten>>
        /\ state' = [state EXCEPT ![t] = Background!Finished(t, outcome)]
    BY <1>3 DEF Background!End
  <2>2. state[t] # "none" /\ Background!Finished(t, outcome) \in Background!Final
    BY <2>1 DEF BackgroundInv, RecordsTyped, Background!Finished, Background!Final
  <2> HIDE DEF Background!Finished
  <2> QED
    BY <2>1, <2>2, OneRecordMoves
<1>4. ASSUME NEW s \in Sessions, Background!Drain(s) PROVE RecordsKept'
  <2>1. PICK list \in Background!Oldest(Background!Unmarked(s, drained)) :
          /\ drained' = drained \cup Background!Range(list)
          /\ reported' = reported \o Background!Notes(list, Len(list))
          /\ UNCHANGED <<state, owner, order, alive, injected, told, unwritten>>
    BY <1>4 DEF Background!Drain
  <2>2. /\ list \in Seq(Subtasks) /\ Len(list) \in Nat /\ \A k \in 1..Len(list) : state[list[k]] \in Background!Final
        /\ Background!Range(list) = {list[k] : k \in 1..Len(list)}
    BY DueRecords
  <2> DEFINE notes == Background!Notes(list, Len(list))
  <2>3. /\ notes \in Seq(Told) /\ Len(notes) = Len(list)
        /\ \A k \in 1..Len(list) : notes[k].task = list[k]
    BY <2>2, NotesOfRecords
  <2>4. reported' = reported \o notes
    BY <2>1
  <2> HIDE DEF notes
  <2>5. /\ Len(reported') = Len(reported) + Len(list)
        /\ \A k \in 1..(Len(reported) + Len(list)) :
             reported'[k] = IF k <= Len(reported) THEN reported[k] ELSE notes[k - Len(reported)]
    <3>1. /\ Len(reported \o notes) = Len(reported) + Len(notes)
          /\ \A k \in 1..(Len(reported) + Len(notes)) :
               (reported \o notes)[k] = IF k <= Len(reported) THEN reported[k]
                                        ELSE notes[k - Len(reported)]
      BY <1>0, <2>3, Appended
    <3> QED
      BY <2>3, <2>4, <3>1
  <2>6. \A k \in 1..Len(list) : state[list[k]] # "none" /\ list[k] \in Subtasks
    BY <2>2 DEF Background!Final
  <2>7. \A k \in 1..Len(list) : \E l \in 1..Len(order) : order[l] = list[k]
    BY <2>6 DEF BackgroundInv, RecordsTyped
  <2>8. ASSUME NEW q \in alive' \cup drained' \cup injected' \cup unwritten'
        PROVE  \E k \in 1..Len(order') : order'[k] = q
    <3>1. q \in alive \cup drained \cup injected \cup unwritten \/ \E k \in 1..Len(list) : q = list[k]
      BY <2>1, <2>2
    <3>2. \E k \in 1..Len(order) : order[k] = q
      BY <2>7, <3>1 DEF RecordsKept
    <3> QED
      BY <2>1, <3>2
  <2>9. ASSUME NEW q \in drained' PROVE \E k \in 1..Len(reported') : reported'[k].task = q
    <3>1. CASE q \in drained
      <4>1. PICK k \in 1..Len(reported) : reported[k].task = q
        BY <3>1 DEF RecordsKept
      <4>2. k \in 1..Len(reported') /\ reported'[k] = reported[k]
        BY <1>0, <2>2, <2>5
      <4> QED
        BY <4>1, <4>2
    <3>2. CASE q \notin drained
      <4>1. PICK k \in 1..Len(list) : list[k] = q
        BY <2>1, <2>2, <3>2
      <4>2. Len(reported) + k \in 1..Len(reported') /\ reported'[Len(reported) + k] = notes[k]
        <5>1. /\ Len(reported) + k \in 1..(Len(reported) + Len(list)) /\ ~(Len(reported) + k <= Len(reported))
              /\ (Len(reported) + k) - Len(reported) = k
          BY <1>0, <2>2
        <5> QED
          BY <2>5, <5>1
      <4> QED
        BY <2>3, <4>1, <4>2
    <3> QED
      BY <3>1, <3>2
  <2>10. ASSUME NEW k \in 1..Len(reported') PROVE reported'[k].task \in drained'
    <3>1. CASE k <= Len(reported)
      <4>1. k \in 1..Len(reported) /\ reported'[k] = reported[k]
        BY <1>0, <2>5, <3>1
      <4> QED
        BY <2>1, <4>1 DEF RecordsKept
    <3>2. CASE ~(k <= Len(reported))
      <4>1. k - Len(reported) \in 1..Len(list) /\ reported'[k] = notes[k - Len(reported)]
        BY <1>0, <2>2, <2>5, <3>2
      <4> QED
        BY <2>1, <2>2, <2>3, <4>1
    <3> QED
      BY <3>1, <3>2
  <2>11. /\ state' \in [Subtasks -> {"none", "running"} \cup Background!Final]
         /\ owner' \in [Subtasks -> Sessions \cup {Background!Nobody}]
         /\ \A t \in Subtasks : state'[t] = "none" <=> owner'[t] = Background!Nobody
         /\ \A k \in 1..Len(order') : state'[order'[k]] # "none"
         /\ \A k, l \in 1..Len(order') : order'[k] = order'[l] => k = l
    BY <2>1 DEF RecordsKept
  <2> QED
    BY <2>8, <2>9, <2>10, <2>11 DEF RecordsKept
<1>5. ASSUME NEW s \in Sessions, Background!Inject(s) PROVE RecordsKept'
  <2>1. PICK list \in Background!Oldest(Background!Unmarked(s, injected)) :
          /\ injected' = injected \cup Background!Range(list)
          /\ \E n \in 0..Len(list) : unwritten' = unwritten \cup {list[k] : k \in (n + 1)..Len(list)}
          /\ UNCHANGED <<state, owner, order, alive, drained, reported>>
    BY <1>5 DEF Background!Inject, Background!Due
  <2>2. PICK n \in 0..Len(list) : unwritten' = unwritten \cup {list[k] : k \in (n + 1)..Len(list)}
    BY <2>1
  <2>3. /\ list \in Seq(Subtasks) /\ Len(list) \in Nat /\ \A k \in 1..Len(list) : state[list[k]] \in Background!Final
        /\ Background!Range(list) = {list[k] : k \in 1..Len(list)}
    BY DueRecords
  <2>4. \A k \in 1..Len(list) : state[list[k]] # "none" /\ list[k] \in Subtasks
    BY <2>3 DEF Background!Final
  <2>5. \A k \in 1..Len(list) : \E l \in 1..Len(order) : order[l] = list[k]
    BY <2>4 DEF BackgroundInv, RecordsTyped
  <2>6. \A k \in (n + 1)..Len(list) : k \in 1..Len(list)
    BY <2>3
  <2>7. ASSUME NEW q \in alive' \cup drained' \cup injected' \cup unwritten'
        PROVE  \E k \in 1..Len(order') : order'[k] = q
    <3>1. q \in alive \cup drained \cup injected \cup unwritten \/ \E k \in 1..Len(list) : q = list[k]
      BY <2>1, <2>2, <2>3, <2>6
    <3>2. \E k \in 1..Len(order) : order[k] = q
      BY <2>5, <3>1 DEF RecordsKept
    <3> QED
      BY <2>1, <3>2
  <2> QED
    BY <2>1, <2>7 DEF RecordsKept
<1> QED
  BY <1>1, <1>2, <1>3, <1>4, <1>5 DEF Background!Next

\* The background tasks keep their types.
LEMMA BackgroundTypes == AgentSpec => []Background!TypeOK
<1>1. AgentInit => RecordsKept
  <2> SUFFICES ASSUME AgentInit PROVE RecordsKept
    OBVIOUS
  <2>1. /\ state = [t \in Subtasks |-> "none"] /\ owner = [t \in Subtasks |-> Background!Nobody]
        /\ order = <<>> /\ alive = {} /\ drained = {} /\ injected = {} /\ unwritten = {} /\ reported = <<>>
    BY DEF AgentInit, Background!Init
  <2>2. Len(order) = 0 /\ Len(reported) = 0
    BY <2>1
  <2> QED
    BY <2>1, <2>2 DEF RecordsKept
<1>2. BackgroundInv /\ RecordsKept /\ [AgentNext]_agentVars => RecordsKept'
  <2> SUFFICES ASSUME BackgroundInv, RecordsKept, [AgentNext]_agentVars PROVE RecordsKept'
    OBVIOUS
  <2>1. CASE Background!Next
    BY <2>1, RecordsStay
  <2>2. CASE UNCHANGED waiting
    BY <2>2 DEF waiting, RecordsKept
  <2> QED
    BY <2>1, <2>2 DEF AgentNext, agentVars, OnlyRuns, OnlyRevert, OnlyFiles, OnlyBackground, OnlyCompaction,
         OnlyLeader, OnlyRouting, OnlyTokens, OnlyGoverned, OnlyResponse
<1>3. BackgroundInv /\ RecordsKept => Background!TypeOK
  <2> SUFFICES ASSUME BackgroundInv, RecordsKept PROVE Background!TypeOK
    OBVIOUS
  <2>1. /\ order \in Seq(Subtasks) /\ DOMAIN order = 1..Len(order)
        /\ reported \in Seq(Told) /\ DOMAIN reported = 1..Len(reported)
    BY DEF BackgroundInv, RecordsTyped
  <2>2. Background!IsInjective(order)
    BY <2>1 DEF Background!IsInjective, RecordsKept
  <2>3. alive \cup drained \cup injected \cup unwritten \subseteq Background!Range(order)
    <3>1. \A k \in 1..Len(order) : order[k] \in Background!Range(order)
      BY <2>1 DEF Background!Range
    <3>2. \A t \in alive \cup drained \cup injected \cup unwritten : \E k \in 1..Len(order) : order[k] = t
      BY DEF RecordsKept
    <3> QED
      BY <3>1, <3>2
  <2>4. {n.task : n \in Background!Range(reported)} = drained
    <3>1. \A n : n \in Background!Range(reported) <=> \E k \in 1..Len(reported) : n = reported[k]
      BY <2>1 DEF Background!Range
    <3>2. \A t : t \in drained <=> \E k \in 1..Len(reported) : t = reported[k].task
      BY DEF RecordsKept
    <3> QED
      BY <3>1, <3>2
  <2>5. /\ state \in [Subtasks -> {"none", "running"} \cup Background!Final]
        /\ owner \in [Subtasks -> Sessions \cup {Background!Nobody}]
        /\ \A t \in Subtasks : state[t] = "none" <=> owner[t] = Background!Nobody
    BY DEF RecordsKept
  <2> QED
    BY <2>1, <2>2, <2>3, <2>4, <2>5 DEF Background!TypeOK
<1> QED
  BY <1>1, <1>2, <1>3, BackgroundHolds, PTL DEF AgentSpec

-----------------------------------------------------------------------------
(* Routes.  While subagents run one at a time, one run at most resolves    *)
(* its model or sends, and the resolution and the session token that it    *)
(* finds are of one answer.                                                *)

Resolving(r) == routed[r].pc \in Routing!Stages \cup {"routing", "routed", "send"}

RunsTyped ==
    /\ routes \in Seq(Routing!Runs)
    /\ DOMAIN routed = Routing!Runs
    /\ \A r \in Routing!Runs :
         /\ DOMAIN routed[r] = {"pc", "at", "holds", "calls"}
         /\ routed[r].pc \in Routing!Stages \cup {"idle", "routing", "routed", "send", "tools", "over"}
         /\ routed[r].pc \in Routing!Stages => routed[r].at = routed[r].pc
         /\ routed[r].pc \in {"routing", "routed"} => routed[r].at \in Routing!Stages

\* A subagent has the floor from its beginning to its end.
OneAtWork ==
    \A s \in Subagents : routed[s].pc \notin {"idle", "over"} =>
        /\ routed[Parent].pc = "tools"
        /\ \A q \in Subagents : routed[q].pc \notin {"idle", "over"} => q = s

\* A decision is an answer for the run that holds it.
IsOf(d, r) == d \in 0..Len(routes) /\ (d # 0 => routes[d] = r)

HoldsItsOwn ==
    \A r \in Routing!Runs :
        /\ routed[r].pc \in {"routing", "routed"} => key = r
        /\ routed[r].pc \in {"routed", "send"} => bearer = routed[r].holds /\ IsOf(routed[r].holds, r)

\* A resolution that may be reused has the session token in the transport.
KeptTogether ==
    \A r \in Routing!Runs :
        resolution # None /\ key = r /\ routed[r].pc \notin {"routing", "routed"} =>
            bearer = resolution /\ IsOf(resolution, r)

SentTogether == \A p \in payloads : p.session = p.decision /\ IsOf(p.decision, p.run)

RoutingInv == RunsTyped /\ OneAtWork /\ HoldsItsOwn /\ KeptTogether /\ SentTogether

LEMMA OneIsBusy ==
  ASSUME RunsTyped, OneAtWork, NEW r \in Routing!Runs, NEW q \in Routing!Runs, Resolving(r), Resolving(q)
  PROVE  r = q
BY RuntimeAssumption DEF RunsTyped, OneAtWork, Resolving, Routing!Runs, Routing!Stages

\* A step of run r that takes no floor, whatever it does to the provider.
LEMMA RunStep ==
  ASSUME RoutingInv, NEW r \in Routing!Runs, NEW x,
         routed' = [routed EXCEPT ![r] = x],
         DOMAIN x = {"pc", "at", "holds", "calls"},
         x.pc \in Routing!Stages \cup {"idle", "routing", "routed", "send", "tools", "over"},
         x.pc \in Routing!Stages => x.at = x.pc,
         x.pc \in {"routing", "routed"} => x.at \in Routing!Stages,
         x.pc \notin {"idle", "over"} => routed[r].pc \notin {"idle", "over"} \/ r = Parent
                                     \/ (routed[Parent].pc = "tools" /\ \A s \in Subagents \ {r} :
                                             routed[s].pc \in {"idle", "over"}),
         r = Parent /\ x.pc # "tools" =>
             routed[r].pc # "tools" \/ \A s \in Subagents : routed[s].pc \in {"idle", "over"}
  PROVE  /\ (routes' \in Seq(Routing!Runs)) => RunsTyped'
         /\ OneAtWork'
         /\ routed'[r] = x /\ \A q \in Routing!Runs \ {r} : routed'[q] = routed[q]
<1>1. /\ routed'[r] = x /\ \A q \in Routing!Runs \ {r} : routed'[q] = routed[q]
      /\ DOMAIN routed' = Routing!Runs
  BY DEF RoutingInv, RunsTyped
<1>2. (routes' \in Seq(Routing!Runs)) => RunsTyped'
  BY <1>1 DEF RoutingInv, RunsTyped
<1>3. OneAtWork'
  BY <1>1, RuntimeAssumption DEF RoutingInv, OneAtWork, Routing!Runs
<1> QED
  BY <1>1, <1>2, <1>3

\* A step of a run that leaves the provider alone.
LEMMA QuietStep ==
  ASSUME RoutingInv, NEW r \in Routing!Runs, NEW x,
         routed' = [routed EXCEPT ![r] = x],
         DOMAIN x = {"pc", "at", "holds", "calls"},
         x.pc \in Routing!Stages \cup {"send", "tools", "over"}, x.pc \in Routing!Stages => x.at = x.pc,
         x.pc = "send" => bearer = x.holds /\ IsOf(x.holds, r),
         routed[r].pc \in Routing!Stages \cup {"idle", "send", "tools"},
         routed[r].pc = "idle" => r = Parent \/ (routed[Parent].pc = "tools" /\ \A s \in Subagents \ {r} :
                                                    routed[s].pc \in {"idle", "over"}),
         r = Parent /\ routed[r].pc = "tools" => \A s \in Subagents : routed[s].pc \in {"idle", "over"},
         UNCHANGED <<routes, resolution, key, bearer>>,
         SentTogether'
  PROVE  RoutingInv'
<1>1. /\ (routes' \in Seq(Routing!Runs)) => RunsTyped'
      /\ OneAtWork'
      /\ routed'[r] = x /\ \A q \in Routing!Runs \ {r} : routed'[q] = routed[q]
  BY RunStep DEF Routing!Stages
<1>2. RunsTyped'
  BY <1>1 DEF RoutingInv, RunsTyped
<1>3. \A d, q : IsOf(d, q)' <=> IsOf(d, q)
  BY DEF IsOf
<1>4. HoldsItsOwn'
  BY <1>1, <1>3 DEF RoutingInv, HoldsItsOwn, Routing!Stages
<1>5. KeptTogether'
  BY <1>1, <1>3 DEF RoutingInv, KeptTogether, Routing!Stages
<1> QED
  BY <1>1, <1>2, <1>4, <1>5 DEF RoutingInv

LEMMA RoutingKeeps ==
  ASSUME RoutingInv, Routing!Next
  PROVE  RoutingInv'
<1>1. \A r \in Routing!Runs :
        /\ DOMAIN routed[r] = {"pc", "at", "holds", "calls"}
        /\ routed[r].pc \in Routing!Stages \cup {"idle", "routing", "routed", "send", "tools", "over"}
        /\ routed[r].pc \in Routing!Stages => routed[r].at = routed[r].pc
        /\ routed[r].pc \in {"routing", "routed"} => routed[r].at \in Routing!Stages
  BY DEF RoutingInv, RunsTyped
<1>3. Routing!After = [start |-> "invoke", invoke |-> "build", build |-> "send"]
  BY DEF Routing!After
<1>4. \A r \in Routing!Runs : Routing!Alone(r) => \A s \in Subagents \ {r} : routed[s].pc \in {"idle", "over"}
  BY DEF Routing!Alone
<1>5. UNCHANGED routes => \A d, q : IsOf(d, q)' <=> IsOf(d, q)
  BY DEF IsOf
<1>6. UNCHANGED <<routes, payloads>> => SentTogether'
  BY <1>5 DEF RoutingInv, SentTogether
<1>7. ASSUME NEW r \in Routing!Runs, Routing!Begin(r) PROVE RoutingInv'
  <2> DEFINE x == [routed[r] EXCEPT !.pc = "start", !.at = "start"]
  <2>1. /\ routed' = [routed EXCEPT ![r] = x] /\ routed[r].pc = "idle"
        /\ UNCHANGED <<routes, resolution, key, bearer, payloads>>
        /\ r = Parent \/ (routed[Parent].pc = "tools" /\ \A s \in Subagents \ {r} : routed[s].pc \in {"idle", "over"})
    BY <1>4, <1>7 DEF Routing!Begin
  <2>2. DOMAIN x = {"pc", "at", "holds", "calls"} /\ x.pc = "start" /\ x.at = "start"
    BY <1>1
  <2> HIDE DEF x
  <2> QED
    BY <1>6, <2>1, <2>2, QuietStep DEF Routing!Stages
<1>8. ASSUME NEW r \in Routing!Runs, Routing!NextRequest(r) PROVE RoutingInv'
  <2> DEFINE x == [routed[r] EXCEPT !.pc = "invoke", !.at = "invoke"]
  <2>1. /\ routed' = [routed EXCEPT ![r] = x] /\ routed[r].pc = "tools"
        /\ UNCHANGED <<routes, resolution, key, bearer, payloads>>
        /\ r = Parent => \A s \in Subagents : routed[s].pc \in {"idle", "over"}
    BY <1>4, <1>8, RuntimeAssumption DEF Routing!NextRequest
  <2>2. DOMAIN x = {"pc", "at", "holds", "calls"} /\ x.pc = "invoke" /\ x.at = "invoke"
    BY <1>1
  <2> HIDE DEF x
  <2> QED
    BY <1>6, <2>1, <2>2, QuietStep DEF Routing!Stages
<1>9. ASSUME NEW r \in Routing!Runs, Routing!Send(r) PROVE RoutingInv'
  <2> DEFINE x == [routed[r] EXCEPT !.pc = IF routed[r].calls + 1 = MaxCalls THEN "over" ELSE "tools",
                                    !.calls = routed[r].calls + 1]
             p == [run |-> r, decision |-> routed[r].holds, session |-> bearer]
  <2>1. /\ routed' = [routed EXCEPT ![r] = x] /\ routed[r].pc = "send"
        /\ UNCHANGED <<routes, resolution, key, bearer>> /\ payloads' = payloads \cup {p}
    BY <1>9 DEF Routing!Send
  <2>2. DOMAIN x = {"pc", "at", "holds", "calls"} /\ x.pc \in {"over", "tools"}
    BY <1>1
  <2>3. bearer = routed[r].holds /\ IsOf(routed[r].holds, r)
    BY <2>1 DEF RoutingInv, HoldsItsOwn
  <2>4. p.session = p.decision /\ IsOf(p.decision, p.run)
    BY <2>3
  <2> HIDE DEF x, p
  <2>5. SentTogether'
    BY <1>5, <2>1, <2>4 DEF RoutingInv, SentTogether
  <2> QED
    BY <2>1, <2>2, <2>5, QuietStep DEF Routing!Stages
<1>10. ASSUME NEW r \in Routing!Runs, Routing!Resolve(r) PROVE RoutingInv'
  <2>0. routed[r].pc \in Routing!Stages /\ UNCHANGED <<routes, resolution, bearer, payloads>>
    BY <1>10 DEF Routing!Resolve
  <2>1. CASE Routing!Reuses(r) /\ Routing!Holds(r, resolution) /\ UNCHANGED key
    <3> DEFINE x == [routed[r] EXCEPT !.holds = resolution, !.pc = Routing!After[routed[r].at],
                                      !.at = Routing!After[routed[r].at]]
    <3>1. routed' = [routed EXCEPT ![r] = x]
      BY <2>1 DEF Routing!Holds
    <3>2. /\ DOMAIN x = {"pc", "at", "holds", "calls"} /\ x.pc \in {"invoke", "build", "send"} /\ x.at = x.pc
          /\ x.holds = resolution
      BY <1>1, <1>3, <2>0 DEF Routing!Stages
    <3>3. bearer = resolution /\ IsOf(resolution, r)
      BY <2>0, <2>1 DEF RoutingInv, KeptTogether, Routing!Reuses, Routing!Stages
    <3> HIDE DEF x
    <3> QED
      BY <1>6, <2>0, <2>1, <3>1, <3>2, <3>3, QuietStep DEF Routing!Stages
  <2>2. CASE key' = r /\ routed' = [routed EXCEPT ![r].pc = "routing"]
    <3> DEFINE x == [routed[r] EXCEPT !.pc = "routing"]
    <3>1. routed' = [routed EXCEPT ![r] = x]
      BY <2>2
    <3>2. /\ DOMAIN x = {"pc", "at", "holds", "calls"} /\ x.pc = "routing" /\ x.at \in Routing!Stages
      BY <1>1, <2>0
    <3>3. Resolving(r) /\ routed[r].pc \notin {"idle", "over", "tools"}
      BY <2>0 DEF Resolving, Routing!Stages
    <3> HIDE DEF x
    <3>4. RunsTyped' /\ OneAtWork' /\ routed'[r] = x /\ \A q \in Routing!Runs \ {r} : routed'[q] = routed[q]
      BY <2>0, <3>1, <3>2, <3>3, RunStep DEF RoutingInv, RunsTyped, Routing!Stages
    <3>5. \A q \in Routing!Runs \ {r} : ~Resolving(q)
      BY <3>3, OneIsBusy DEF RoutingInv
    <3>6. HoldsItsOwn' /\ KeptTogether'
      BY <2>2, <3>2, <3>4, <3>5 DEF HoldsItsOwn, KeptTogether, Resolving
    <3> QED
      BY <1>6, <2>0, <3>4, <3>6 DEF RoutingInv
  <2> QED
    BY <1>10, <2>1, <2>2 DEF Routing!Resolve
<1>11. ASSUME NEW r \in Routing!Runs, Routing!Routed(r) PROVE RoutingInv'
  <2> DEFINE x == [routed[r] EXCEPT !.pc = "routed", !.holds = bearer']
  <2>1. /\ routed' = [routed EXCEPT ![r] = x] /\ routed[r].pc = "routing"
        /\ UNCHANGED <<resolution, key, payloads>>
        /\ \/ routes' = Append(routes, r) /\ bearer' = Len(routes')
           \/ routes' = routes /\ bearer' = 0
    BY <1>11 DEF Routing!Routed
  <2>2. DOMAIN x = {"pc", "at", "holds", "calls"} /\ x.pc = "routed" /\ x.at \in Routing!Stages /\ x.holds = bearer'
    BY <1>1, <2>1
  <2> HIDE DEF x
  <2>3. routes' \in Seq(Routing!Runs)
    BY <2>1 DEF RoutingInv, RunsTyped
  <2>4. RunsTyped' /\ OneAtWork' /\ routed'[r] = x /\ \A q \in Routing!Runs \ {r} : routed'[q] = routed[q]
    BY <2>1, <2>2, <2>3, RunStep DEF Routing!Stages
  <2>0. /\ Len(routes) \in Nat /\ Len(routes') \in Nat /\ Len(routes') >= Len(routes)
        /\ \A i \in 1..Len(routes) : routes'[i] = routes[i]
        /\ bearer' # 0 => Len(routes') = Len(routes) + 1 /\ bearer' = Len(routes') /\ routes'[bearer'] = r
        /\ bearer' \in 0..Len(routes')
    <3>1. routes \in Seq(Routing!Runs)
      BY DEF RoutingInv, RunsTyped
    <3> QED
      BY <2>1, <3>1
  <2>5. \A d, q : IsOf(d, q) => IsOf(d, q)'
    <3> SUFFICES ASSUME NEW d, NEW q, IsOf(d, q) PROVE IsOf(d, q)'
      OBVIOUS
    <3>1. d \in 0..Len(routes) /\ (d # 0 => routes[d] = q)
      BY DEF IsOf
    <3>2. d \in 0..Len(routes') /\ (d # 0 => routes'[d] = q)
      BY <2>0, <3>1
    <3> QED
      BY <3>2 DEF IsOf
  <2>6. bearer' \in 0..Len(routes') /\ (bearer' # 0 => routes'[bearer'] = r)
    BY <2>0
  <2>7. key = r
    BY <2>1 DEF RoutingInv, HoldsItsOwn
  <2>8. \A q \in Routing!Runs \ {r} : ~Resolving(q)
    BY <2>1, OneIsBusy DEF RoutingInv, Resolving
  <2>9. HoldsItsOwn' /\ KeptTogether'
    BY <2>1, <2>2, <2>4, <2>6, <2>7, <2>8 DEF HoldsItsOwn, KeptTogether, Resolving, IsOf
  <2>10. SentTogether'
    BY <2>1, <2>5 DEF RoutingInv, SentTogether
  <2> QED
    BY <2>4, <2>9, <2>10 DEF RoutingInv
<1>12. ASSUME NEW r \in Routing!Runs, Routing!Resolved(r) PROVE RoutingInv'
  <2> DEFINE d == routed[r].holds
             x == [routed[r] EXCEPT !.holds = d, !.pc = Routing!After[routed[r].at],
                                    !.at = Routing!After[routed[r].at]]
  <2>1. /\ routed' = [routed EXCEPT ![r] = x] /\ routed[r].pc = "routed" /\ resolution' = d
        /\ UNCHANGED <<routes, key, bearer, payloads>>
    BY <1>12 DEF Routing!Resolved, Routing!Holds
  <2>2. /\ DOMAIN x = {"pc", "at", "holds", "calls"} /\ x.pc \in {"invoke", "build", "send"} /\ x.at = x.pc
        /\ x.holds = d
    BY <1>1, <1>3, <2>1 DEF Routing!Stages
  <2>3. bearer = d /\ IsOf(d, r) /\ key = r
    BY <2>1 DEF RoutingInv, HoldsItsOwn
  <2> HIDE DEF x, d
  <2>4. RunsTyped' /\ OneAtWork' /\ routed'[r] = x /\ \A q \in Routing!Runs \ {r} : routed'[q] = routed[q]
    BY <2>1, <2>2, RunStep DEF RoutingInv, RunsTyped, Routing!Stages
  <2>5. \A q \in Routing!Runs \ {r} : ~Resolving(q)
    BY <2>1, OneIsBusy DEF RoutingInv, Resolving
  <2>6. HoldsItsOwn' /\ KeptTogether'
    BY <1>5, <2>1, <2>2, <2>3, <2>4, <2>5 DEF HoldsItsOwn, KeptTogether, Resolving
  <2> QED
    BY <1>6, <2>1, <2>4, <2>6 DEF RoutingInv
<1>13. ASSUME NEW r \in Routing!Runs, Routing!Drop(r) PROVE RoutingInv'
  <2> DEFINE x == [routed[r] EXCEPT !.holds = 0, !.pc = Routing!After[routed[r].at],
                                    !.at = Routing!After[routed[r].at]]
  <2>1. /\ routed' = [routed EXCEPT ![r] = x] /\ routed[r].pc \in Routing!Stages
        /\ UNCHANGED <<routes, payloads>>
    BY <1>13 DEF Routing!Drop, Routing!Holds
  <2>2. /\ DOMAIN x = {"pc", "at", "holds", "calls"} /\ x.pc \in {"invoke", "build", "send"} /\ x.at = x.pc
        /\ x.holds = 0 /\ (x.pc = "send" <=> routed[r].pc = "build")
    BY <1>1, <1>3, <2>1 DEF Routing!Stages
  <2> HIDE DEF x
  <2>3. CASE routed[r].pc = "build"
    <3>1. resolution' = None /\ key' = None /\ bearer' = 0
      BY <1>13, <2>3 DEF Routing!Drop
    <3>2. RunsTyped' /\ OneAtWork' /\ routed'[r] = x /\ \A q \in Routing!Runs \ {r} : routed'[q] = routed[q]
      BY <2>1, <2>2, RunStep DEF RoutingInv, RunsTyped, Routing!Stages
    <3>3. \A q \in Routing!Runs \ {r} : ~Resolving(q)
      BY <2>1, OneIsBusy DEF RoutingInv, Resolving
    <3>4. IsOf(0, r)'
      BY <2>1 DEF IsOf, RoutingInv, RunsTyped
    <3>5. HoldsItsOwn' /\ KeptTogether'
      BY <2>2, <3>1, <3>2, <3>3, <3>4 DEF HoldsItsOwn, KeptTogether, Resolving
    <3> QED
      BY <1>6, <2>1, <3>2, <3>5 DEF RoutingInv
  <2>4. CASE routed[r].pc # "build"
    <3>1. UNCHANGED <<resolution, key, bearer>>
      BY <1>13, <2>4 DEF Routing!Drop
    <3> QED
      BY <1>6, <2>1, <2>2, <2>4, <3>1, QuietStep DEF Routing!Stages
  <2> QED
    BY <2>3, <2>4
<1> QED
  BY <1>7, <1>8, <1>9, <1>10, <1>11, <1>12, <1>13 DEF Routing!Next

LEMMA RoutingHolds == AgentSpec => []RoutingInv
<1>1. AgentInit => RoutingInv
  <2> SUFFICES ASSUME AgentInit PROVE RoutingInv
    OBVIOUS
  <2>1. /\ routes = <<>> /\ resolution = None /\ payloads = {}
        /\ routed = [r \in Routing!Runs |-> [pc |-> "idle", at |-> "start", holds |-> 0, calls |-> 0]]
    BY DEF AgentInit, Routing!Init
  <2> QED
    BY <2>1 DEF RoutingInv, RunsTyped, OneAtWork, HoldsItsOwn, KeptTogether, SentTogether, Routing!Runs,
         Routing!Stages
<1>2. RoutingInv /\ [AgentNext]_agentVars => RoutingInv'
  <2> SUFFICES ASSUME RoutingInv, [AgentNext]_agentVars PROVE RoutingInv'
    OBVIOUS
  <2>1. CASE Routing!Next
    BY <2>1, RoutingKeeps
  <2>2. CASE UNCHANGED routing
    <3>1. /\ routes' = routes /\ resolution' = resolution /\ key' = key /\ bearer' = bearer
          /\ routed' = routed /\ payloads' = payloads
      BY <2>2 DEF routing
    <3> QED
      BY <3>1 DEF RoutingInv, RunsTyped, OneAtWork, HoldsItsOwn, KeptTogether, SentTogether, IsOf
  <2> QED
    BY <2>1, <2>2 DEF AgentNext, agentVars, OnlyRuns, OnlyRevert, OnlyFiles, OnlyBackground, OnlyCompaction,
         OnlyLeader, OnlyRouting, OnlyTokens, OnlyGoverned, OnlyResponse
<1> QED
  BY <1>1, <1>2, PTL DEF AgentSpec

\* A payload names the model that was routed for its run and carries the session token of
\* that answer, for any number of subagents that a run starts one after the other.
THEOREM PayloadsAreRouted == AgentSpec => []PayloadIsRouted
<1>1. RoutingInv => PayloadIsRouted
  BY DEF RoutingInv, SentTogether, IsOf, PayloadIsRouted, Routing!PayloadIsRouted
<1> QED
  BY <1>1, RoutingHolds, PTL

\* A step of one run keeps the types of all.
LEMMA RouteMoves ==
  ASSUME Routing!TypeOK, NEW r \in Routing!Runs, NEW x, routed' = [routed EXCEPT ![r] = x],
         \A n \in 0..Len(routes) : n \in 0..Len(routes'),
         x \in [pc: Routing!Stages \cup {"idle", "routing", "routed", "send", "tools", "over"},
                at: Routing!Stages \cup {"send"}, holds: 0..Len(routes'), calls: 0..MaxCalls],
         routes' \in Seq(Routing!Runs), resolution' \in 0..Len(routes') \cup {None},
         key' \in Routing!Runs \cup {None}, bearer' \in 0..Len(routes'),
         payloads' \subseteq [run: Routing!Runs, decision: 0..Len(routes'), session: 0..Len(routes')]
  PROVE  Routing!TypeOK'
<1>1. routed \in [Routing!Runs -> [pc: Routing!Stages \cup {"idle", "routing", "routed", "send", "tools", "over"},
                at: Routing!Stages \cup {"send"}, holds: 0..Len(routes), calls: 0..MaxCalls]]
  BY DEF Routing!TypeOK
<1>2. routed \in [Routing!Runs -> [pc: Routing!Stages \cup {"idle", "routing", "routed", "send", "tools", "over"},
                at: Routing!Stages \cup {"send"}, holds: 0..Len(routes'), calls: 0..MaxCalls]]
  BY <1>1
<1>3. routed' \in [Routing!Runs -> [pc: Routing!Stages \cup {"idle", "routing", "routed", "send", "tools", "over"},
                at: Routing!Stages \cup {"send"}, holds: 0..Len(routes'), calls: 0..MaxCalls]]
  BY <1>2
<1> QED
  BY <1>3 DEF Routing!TypeOK

\* Where a run is fits its place, and it has requests left until it is over.
RoutesTyped ==
    /\ Routing!TypeOK
    /\ \A r \in Routing!Runs :
         /\ routed[r].pc \in Routing!Stages => routed[r].at = routed[r].pc
         /\ routed[r].pc \in {"routing", "routed"} => routed[r].at \in Routing!Stages
         /\ routed[r].pc # "over" => routed[r].calls < MaxCalls

LEMMA RoutesTypedKept ==
  ASSUME RoutesTyped, Routing!Next
  PROVE  RoutesTyped'
<1> DEFINE Record == [pc: Routing!Stages \cup {"idle", "routing", "routed", "send", "tools", "over"},
                      at: Routing!Stages \cup {"send"}, holds: 0..Len(routes), calls: 0..MaxCalls]
           Fits(x) == /\ x.pc \in Routing!Stages => x.at = x.pc
                      /\ x.pc \in {"routing", "routed"} => x.at \in Routing!Stages
                      /\ x.pc # "over" => x.calls < MaxCalls
<1>1. /\ routes \in Seq(Routing!Runs) /\ Len(routes) \in Nat
      /\ resolution \in 0..Len(routes) \cup {None}
      /\ key \in Routing!Runs \cup {None} /\ bearer \in 0..Len(routes)
      /\ routed \in [Routing!Runs -> Record]
      /\ payloads \subseteq [run: Routing!Runs, decision: 0..Len(routes), session: 0..Len(routes)]
  BY DEF RoutesTyped, Routing!TypeOK
<1>2. MaxCalls \in Nat \ {0}
  BY RuntimeAssumption
<1>3. Routing!After = [start |-> "invoke", invoke |-> "build", build |-> "send"]
  BY DEF Routing!After
<1>4. \A q \in Routing!Runs : routed[q] \in Record /\ Fits(routed[q])
  BY <1>1 DEF RoutesTyped
<1>5. ASSUME NEW r \in Routing!Runs, NEW x, routed' = [routed EXCEPT ![r] = x], x \in Record, Fits(x),
             UNCHANGED routes, resolution' \in 0..Len(routes) \cup {None},
             key' \in Routing!Runs \cup {None}, bearer' \in 0..Len(routes),
             payloads' \subseteq [run: Routing!Runs, decision: 0..Len(routes), session: 0..Len(routes)]
      PROVE  RoutesTyped'
  <2>1. Routing!TypeOK'
    BY <1>1, <1>5, RouteMoves DEF RoutesTyped
  <2>2. routed'[r] = x /\ \A q \in Routing!Runs \ {r} : routed'[q] = routed[q]
    BY <1>1, <1>5
  <2> QED
    BY <1>4, <1>5, <2>1, <2>2 DEF RoutesTyped
<1>6. ASSUME NEW r \in Routing!Runs, NEW d \in 0..Len(routes), routed[r].pc \in Routing!Stages \cup {"routed"},
             Routing!Holds(r, d)
      PROVE  \E x \in Record : routed' = [routed EXCEPT ![r] = x] /\ Fits(x)
  <2> DEFINE on == Routing!After[routed[r].at]
             x == [routed[r] EXCEPT !.holds = d, !.pc = on, !.at = on]
  <2>1. routed[r].at \in Routing!Stages /\ routed[r].calls < MaxCalls
    BY <1>4, <1>6 DEF Routing!Stages
  <2>2. on \in {"invoke", "build", "send"}
    BY <1>3, <2>1 DEF Routing!Stages
  <2>3. routed' = [routed EXCEPT ![r] = x]
    BY <1>6 DEF Routing!Holds
  <2> HIDE DEF on
  <2>4. x \in Record
    BY <1>4, <2>2 DEF Routing!Stages
  <2>5. Fits(x)
    BY <1>4, <2>1, <2>2 DEF Routing!Stages
  <2> QED
    BY <2>3, <2>4, <2>5
<1> HIDE DEF Fits
<1>7. ASSUME NEW r \in Routing!Runs, Routing!Begin(r) \/ Routing!NextRequest(r) PROVE RoutesTyped'
  <2>1. /\ routed[r].pc \in {"idle", "tools"} /\ UNCHANGED <<routes, resolution, key, bearer, payloads>>
        /\ \E s \in {"start", "invoke"} : routed' = [routed EXCEPT ![r].pc = s, ![r].at = s]
    BY <1>7 DEF Routing!Begin, Routing!NextRequest
  <2>2. PICK s \in {"start", "invoke"} : routed' = [routed EXCEPT ![r].pc = s, ![r].at = s]
    BY <2>1
  <2> DEFINE x == [routed[r] EXCEPT !.pc = s, !.at = s]
  <2>3. routed' = [routed EXCEPT ![r] = x]
    BY <2>2
  <2>4. x \in Record
    BY <1>4 DEF Routing!Stages
  <2>5. Fits(x)
    BY <1>4, <2>1 DEF Fits, Routing!Stages
  <2> HIDE DEF x
  <2> QED
    BY <1>1, <1>5, <2>1, <2>3, <2>4, <2>5
<1>8. ASSUME NEW r \in Routing!Runs, Routing!Resolve(r) PROVE RoutesTyped'
  <2>1. routed[r].pc \in Routing!Stages /\ UNCHANGED <<routes, resolution, bearer, payloads>>
    BY <1>8 DEF Routing!Resolve
  <2>2. CASE Routing!Reuses(r) /\ Routing!Holds(r, resolution) /\ UNCHANGED key
    <3>1. resolution \in 0..Len(routes)
      BY <1>1, <2>2 DEF Routing!Reuses
    <3>2. PICK x \in Record : routed' = [routed EXCEPT ![r] = x] /\ Fits(x)
      BY <1>6, <2>1, <2>2, <3>1
    <3> QED
      BY <1>1, <1>5, <2>1, <2>2, <3>2
  <2>3. CASE key' = r /\ routed' = [routed EXCEPT ![r].pc = "routing"]
    <3> DEFINE x == [routed[r] EXCEPT !.pc = "routing"]
    <3>1. routed' = [routed EXCEPT ![r] = x]
      BY <2>3
    <3>2. x \in Record
      BY <1>4
    <3>3. Fits(x)
      BY <1>4, <2>1 DEF Fits, Routing!Stages
    <3> HIDE DEF x
    <3> QED
      BY <1>1, <1>5, <2>1, <2>3, <3>1, <3>2, <3>3
  <2> QED
    BY <1>8, <2>2, <2>3 DEF Routing!Resolve
<1>9. ASSUME NEW r \in Routing!Runs, Routing!Routed(r) PROVE RoutesTyped'
  <2> DEFINE x == [routed[r] EXCEPT !.pc = "routed", !.holds = bearer']
  <2>1. /\ routed[r].pc = "routing" /\ UNCHANGED <<resolution, key, payloads>>
        /\ routed' = [routed EXCEPT ![r] = x]
    BY <1>9 DEF Routing!Routed
  <2>2. /\ routes' \in Seq(Routing!Runs) /\ bearer' \in 0..Len(routes') /\ Len(routes') \in Nat
        /\ Len(routes) <= Len(routes')
    <3>1. CASE routes' = Append(routes, r) /\ bearer' = Len(routes')
      <4>1. Len(routes') = Len(routes) + 1 /\ routes' \in Seq(Routing!Runs)
        BY <1>1, <3>1
      <4> QED
        BY <1>1, <3>1, <4>1
    <3>2. CASE bearer' = 0 /\ UNCHANGED routes
      BY <1>1, <3>2
    <3> QED
      BY <1>9, <3>1, <3>2 DEF Routing!Routed
  <2>3. \A n \in 0..Len(routes) : n \in 0..Len(routes')
    BY <1>1, <2>2
  <2>4. x \in [pc: Routing!Stages \cup {"idle", "routing", "routed", "send", "tools", "over"},
               at: Routing!Stages \cup {"send"}, holds: 0..Len(routes'), calls: 0..MaxCalls]
    BY <1>4, <2>2
  <2>5. Fits(x)
    BY <1>4, <2>1 DEF Fits, Routing!Stages
  <2>6. /\ resolution' \in 0..Len(routes') \cup {None}
        /\ payloads' \subseteq [run: Routing!Runs, decision: 0..Len(routes'), session: 0..Len(routes')]
    BY <1>1, <2>1, <2>3
  <2> HIDE DEF x
  <2>7. Routing!TypeOK'
    BY <1>1, <2>1, <2>2, <2>3, <2>4, <2>6, RouteMoves DEF RoutesTyped
  <2>8. routed'[r] = x /\ \A q \in Routing!Runs \ {r} : routed'[q] = routed[q]
    BY <1>1, <2>1
  <2> QED
    BY <1>4, <2>5, <2>7, <2>8 DEF RoutesTyped, Fits
<1>10. ASSUME NEW r \in Routing!Runs, Routing!Resolved(r) PROVE RoutesTyped'
  <2>1. routed[r].pc = "routed" /\ UNCHANGED <<routes, key, bearer, payloads>> /\ resolution' = routed[r].holds
    BY <1>10 DEF Routing!Resolved
  <2>2. routed[r].holds \in 0..Len(routes)
    BY <1>4
  <2>3. PICK x \in Record : routed' = [routed EXCEPT ![r] = x] /\ Fits(x)
    BY <1>6, <1>10, <2>1, <2>2 DEF Routing!Resolved
  <2> QED
    BY <1>1, <1>5, <2>1, <2>2, <2>3
<1>11. ASSUME NEW r \in Routing!Runs, Routing!Drop(r) PROVE RoutesTyped'
  <2>1. /\ routed[r].pc \in Routing!Stages /\ UNCHANGED <<routes, payloads>>
        /\ resolution' \in {None, resolution} /\ key' \in {None, key} /\ bearer' \in {0, bearer}
    BY <1>11 DEF Routing!Drop
  <2>2. 0 \in 0..Len(routes)
    BY <1>1
  <2>3. PICK x \in Record : routed' = [routed EXCEPT ![r] = x] /\ Fits(x)
    BY <1>6, <1>11, <2>1, <2>2 DEF Routing!Drop
  <2> QED
    BY <1>1, <1>5, <2>1, <2>2, <2>3
<1>12. ASSUME NEW r \in Routing!Runs, Routing!Send(r) PROVE RoutesTyped'
  <2> DEFINE x == [routed[r] EXCEPT !.pc = IF routed[r].calls + 1 = MaxCalls THEN "over" ELSE "tools",
                                    !.calls = routed[r].calls + 1]
             p == [run |-> r, decision |-> routed[r].holds, session |-> bearer]
  <2>1. /\ routed' = [routed EXCEPT ![r] = x] /\ routed[r].pc = "send"
        /\ UNCHANGED <<routes, resolution, key, bearer>> /\ payloads' = payloads \cup {p}
    BY <1>12 DEF Routing!Send
  <2>2. routed[r].calls \in Nat /\ routed[r].calls < MaxCalls
    BY <1>2, <1>4, <2>1 DEF Fits
  <2>3. routed[r].calls + 1 \in 0..MaxCalls /\ (routed[r].calls + 1 # MaxCalls => routed[r].calls + 1 < MaxCalls)
    BY <1>2, <2>2
  <2>4. x \in Record
    BY <1>4, <2>3
  <2>5. Fits(x)
    BY <1>4, <2>3 DEF Fits, Routing!Stages
  <2>6. p \in [run: Routing!Runs, decision: 0..Len(routes), session: 0..Len(routes)]
    BY <1>1, <1>4
  <2> HIDE DEF x, p
  <2> QED
    BY <1>1, <1>5, <2>1, <2>4, <2>5, <2>6
<1> QED
  BY <1>7, <1>8, <1>9, <1>10, <1>11, <1>12 DEF Routing!Next

LEMMA RoutingTypes == AgentSpec => []RoutesTyped
<1>1. AgentInit => RoutesTyped
  BY RuntimeAssumption DEF AgentInit, Routing!Init, RoutesTyped, Routing!TypeOK, Routing!Stages
<1>2. RoutesTyped /\ [AgentNext]_agentVars => RoutesTyped'
  <2> SUFFICES ASSUME RoutesTyped, [AgentNext]_agentVars PROVE RoutesTyped'
    OBVIOUS
  <2>1. CASE Routing!Next
    BY <2>1, RoutesTypedKept
  <2>2. CASE UNCHANGED routing
    BY <2>2 DEF routing, RoutesTyped, Routing!TypeOK
  <2> QED
    BY <2>1, <2>2 DEF AgentNext, agentVars, OnlyRuns, OnlyRevert, OnlyFiles, OnlyBackground, OnlyCompaction,
         OnlyLeader, OnlyRouting, OnlyTokens, OnlyGoverned, OnlyResponse
<1> QED
  BY <1>1, <1>2, PTL DEF AgentSpec

-----------------------------------------------------------------------------
(* Reverts.  A snapshot is found by its id, and what a session refers to   *)
(* is found among its own; what a run will publish is newer than what its  *)
(* snapshot holds, unless old turns were brought back under it.            *)

References == [active : BOOLEAN, target : Nat, snap : Nat, undo : Nat, point : Nat, restored : BOOLEAN]
Edits == [session : Sessions, turn : Nat]
Images == [id : Nat, session : Sessions, purpose : {"target", "undo"}, holds : SUBSET Edits]
Points == [no : Nat, holds : [history : SUBSET Nat, revert : References]]

Deeds == {"moving", "moved", "retargeted", "deleted", "restored"}

\* Snapshots with ids of their own.
WellNumbered(set) ==
    /\ set \subseteq Images /\ \A x \in set : x.id # 0
    /\ \A x, y \in set : x.id = y.id => x = y

RevertTyped ==
    /\ history \in [Sessions -> SUBSET Nat] /\ turns \in [Sessions -> Nat]
    /\ revert \in [Sessions -> References]
    /\ checkpoints \in [Sessions -> SUBSET Points] /\ \A s \in Sessions : IsFiniteSet(checkpoints[s])
    /\ taken \in Nat /\ WellNumbered(snapshots) /\ \A x \in snapshots : x.id <= taken
    /\ workspace \subseteq Edits
    /\ turn \in [Sessions -> [pc : {"idle", "running"}, before : SUBSET Nat, snap : Nat]]
    /\ meddled \in [Sessions -> SUBSET Deeds]

HasOwn(set, id, s) == \E x \in set : x.id = id /\ x.session = s

HasUndo(set, id, s) == \E x \in set : x.id = id /\ x.session = s /\ x.purpose = "undo"

\* What a session refers to is there, and its target is newer than what its snapshot holds.
RefIsGood(set, ref, med, s) ==
    /\ "restored" \notin med =>
         /\ ref.snap # 0 => HasOwn(set, ref.snap, s)
         /\ ref.undo # 0 => HasUndo(set, ref.undo, s)
    /\ ref.active /\ ref.restored /\ med \cap {"deleted", "restored"} = {} => ref.undo # 0
    /\ med \subseteq {"moving"} /\ ref.target # 0 =>
         \A x \in set : x.id = ref.snap => \A e \in x.holds : e.session = s => e.turn < ref.target

RefsAreGood(set, refs, med) == \A s \in Sessions : RefIsGood(set, refs[s], med[s], s)

RunsHold ==
    /\ Revert!LeaseIsHeld
    /\ \A s \in Sessions : turn[s].pc = "running" => HasOwn(snapshots, turn[s].snap, s)

EditsKnown ==
    /\ \A e \in workspace : e.turn <= turns[e.session]
    /\ \A x \in snapshots : \A e \in x.holds : e.turn <= turns[e.session]

RunsKnow ==
    \A s \in Sessions : turn[s].pc = "running" /\ "moving" \notin meddled[s] =>
        \A x \in snapshots : x.id = turn[s].snap =>
            \A n \in history[s] \ turn[s].before : \A e \in x.holds : e.session = s => e.turn < n

RevertInv ==
    /\ RevertTyped /\ RefsAreGood(snapshots, revert, meddled)
    /\ RunsHold /\ EditsKnown /\ RunsKnow

\* A set of numbers that is not empty has a least member.
LEMMA LeastOf ==
  ASSUME NEW T, T \subseteq Nat, T # {}
  PROVE  Revert!Min(T) \in T
<1>1. IsWellFoundedOn({ss \in Nat \X Nat : ss[1] < ss[2]}, Nat)
  BY NatLessThanWellFounded DEF OpToRel
<1>2. PICK x \in T : \A y \in T : ~(<<y, x>> \in {ss \in Nat \X Nat : ss[1] < ss[2]})
  BY <1>1, WFMin
<1>3. \A y \in T : ~(y < x)
  BY <1>2
<1>4. \A y \in T : x <= y
  BY <1>3
<1> QED
  BY <1>4 DEF Revert!Min

\* The references to what is gone are cleared: the rest of a record stays.
LEMMA ClearedRefs ==
  ASSUME NEW refs \in [Sessions -> References], NEW gone, gone \subseteq Images
  PROVE  /\ Revert!Cleared(refs, gone) \in [Sessions -> References]
         /\ \A s \in Sessions :
              LET old == refs[s]  new == Revert!Cleared(refs, gone)[s] IN
              /\ new.active = old.active /\ new.target = old.target
              /\ new.point = old.point /\ new.restored = old.restored
              /\ IF \E y \in gone : y.session = s /\ y.id = old.snap THEN new.snap = 0
                                                                   ELSE new.snap = old.snap
              /\ IF \E y \in gone : y.session = s /\ y.id = old.undo THEN new.undo = 0
                                                                   ELSE new.undo = old.undo
<1> SUFFICES ASSUME NEW s \in Sessions
             PROVE  LET old == refs[s]  new == Revert!Cleared(refs, gone)[s] IN
                    /\ new \in References
                    /\ new.active = old.active /\ new.target = old.target
                    /\ new.point = old.point /\ new.restored = old.restored
                    /\ IF \E y \in gone : y.session = s /\ y.id = old.snap THEN new.snap = 0
                                                                         ELSE new.snap = old.snap
                    /\ IF \E y \in gone : y.session = s /\ y.id = old.undo THEN new.undo = 0
                                                                         ELSE new.undo = old.undo
  BY DEF Revert!Cleared
<1> DEFINE own == {x.id : x \in {y \in gone : y.session = s}}
           new == Revert!Cleared(refs, gone)[s]
           snap == IF refs[s].snap \in own THEN 0 ELSE refs[s].snap
           undo == IF refs[s].undo \in own THEN 0 ELSE refs[s].undo
<1>1. refs[s] \in References
  OBVIOUS
<1>2. new = [refs[s] EXCEPT !.snap = snap, !.undo = undo]
  BY <1>1 DEF Revert!Cleared, References
<1>3. \A id : id \in own <=> \E y \in gone : y.session = s /\ y.id = id
  OBVIOUS
<1>4. snap \in Nat /\ undo \in Nat
  BY <1>1 DEF References
<1> HIDE DEF own, new, snap, undo
<1>5. /\ new \in References
      /\ new.active = refs[s].active /\ new.target = refs[s].target
      /\ new.point = refs[s].point /\ new.restored = refs[s].restored
      /\ new.snap = snap /\ new.undo = undo
  BY <1>1, <1>2, <1>4 DEF References
<1> QED
  BY SMTT(40), <1>3, <1>5 DEF new, snap, undo

\* Snapshots can go, but not the workspace that an active revert replaced.
LEMMA ClearGood ==
  ASSUME NEW set, WellNumbered(set), NEW refs \in [Sessions -> References], NEW med,
         RefsAreGood(set, refs, med), NEW gone, gone \subseteq set,
         \A x \in gone : /\ x.purpose = "undo" /\ refs[x.session].active /\ refs[x.session].undo = x.id
                         => "deleted" \in med[x.session]
  PROVE  /\ Revert!Cleared(refs, gone) \in [Sessions -> References]
         /\ RefsAreGood(set \ gone, Revert!Cleared(refs, gone), med)
<1> SUFFICES ASSUME NEW s \in Sessions
             PROVE  /\ Revert!Cleared(refs, gone) \in [Sessions -> References]
                    /\ RefIsGood(set \ gone, Revert!Cleared(refs, gone)[s], med[s], s)
  BY ClearedRefs DEF RefsAreGood, WellNumbered
<1> DEFINE old == refs[s]
           cleared == Revert!Cleared(refs, gone)
<1>1. gone \subseteq Images /\ RefIsGood(set, old, med[s], s)
  BY DEF WellNumbered, RefsAreGood
<1>2. cleared \in [Sessions -> References]
  BY <1>1, ClearedRefs
<1>3. PICK new : new = cleared[s]
  OBVIOUS
<1>4. /\ new.active = old.active /\ new.target = old.target /\ new.restored = old.restored
      /\ IF \E y \in gone : y.session = s /\ y.id = old.snap THEN new.snap = 0 ELSE new.snap = old.snap
      /\ IF \E y \in gone : y.session = s /\ y.id = old.undo THEN new.undo = 0 ELSE new.undo = old.undo
  BY <1>1, <1>3, ClearedRefs
<1> HIDE DEF old, cleared
<1>5. "restored" \notin med[s] /\ new.snap # 0 => HasOwn(set \ gone, new.snap, s)
  BY <1>1, <1>4 DEF RefIsGood, HasOwn
<1>6. "restored" \notin med[s] /\ new.undo # 0 => HasUndo(set \ gone, new.undo, s)
  BY <1>1, <1>4 DEF RefIsGood, HasUndo
<1>7. ASSUME new.active, new.restored, med[s] \cap {"deleted", "restored"} = {} PROVE new.undo # 0
  <2>1. old.undo # 0 /\ old.active /\ "deleted" \notin med[s] /\ "restored" \notin med[s]
    BY <1>1, <1>4, <1>7 DEF RefIsGood
  <2>2. PICK x \in set : x.id = old.undo /\ x.session = s /\ x.purpose = "undo"
    BY <1>1, <2>1 DEF RefIsGood, HasUndo
  <2>3. x \notin gone
    BY <2>1, <2>2 DEF old
  <2>4. ~ \E y \in gone : y.session = s /\ y.id = old.undo
    BY <2>2, <2>3 DEF WellNumbered
  <2> QED
    BY <1>4, <2>1, <2>4
<1>8. ASSUME med[s] \subseteq {"moving"}, new.target # 0
      PROVE  \A x \in set \ gone : x.id = new.snap => \A e \in x.holds : e.session = s => e.turn < new.target
  <2>1. \A x \in set : x.id = old.snap => \A e \in x.holds : e.session = s => e.turn < old.target
    BY <1>1, <1>4, <1>8 DEF RefIsGood
  <2>2. \A x \in set : x.id = new.snap => x.id = old.snap
    BY <1>4 DEF WellNumbered
  <2> QED
    BY <1>4, <2>1, <2>2
<1> QED
  BY <1>2, <1>3, <1>5, <1>6, <1>7, <1>8 DEF RefIsGood, cleared

\* Retention keeps what is protected, and the workspaces that active reverts replaced.
LEMMA PruneGood ==
  ASSUME NEW disk, WellNumbered(disk.set), disk.refs \in [Sessions -> References], NEW med,
         RefsAreGood(disk.set, disk.refs, med), NEW protected
  PROVE  LET pruned == Revert!Pruned(disk, protected) IN
         /\ pruned.set \subseteq disk.set /\ pruned.refs \in [Sessions -> References]
         /\ RefsAreGood(pruned.set, pruned.refs, med)
         /\ \A x \in disk.set : x.id \in protected => x \in pruned.set
         /\ \A x \in disk.set :
              /\ x.purpose = "undo" /\ disk.refs[x.session].active /\ disk.refs[x.session].undo = x.id
              => x \in pruned.set
         /\ pruned.refs = Revert!Cleared(disk.refs, disk.set \ pruned.set)
<1> DEFINE free == Revert!FreeSnapshots(disk, protected)
           gone == {x \in free : Revert!Cardinality({y \in free : y.id <= x.id}) + Cap
                                   <= Revert!Cardinality(disk.set)}
<1>1. Revert!Pruned(disk, protected) = [set |-> disk.set \ gone, refs |-> Revert!Cleared(disk.refs, gone)]
  BY DEF Revert!Pruned
<1>2. gone \subseteq free
  OBVIOUS
<1> HIDE DEF gone
<1>3. \A x \in free : /\ x \in disk.set /\ x.id \notin protected
                      /\ ~(x.purpose = "undo" /\ disk.refs[x.session].active /\ disk.refs[x.session].undo = x.id)
  BY DEF Revert!FreeSnapshots, Revert!Pinned, Revert!UndoPinned
<1> HIDE DEF free
<1>4. /\ Revert!Cleared(disk.refs, gone) \in [Sessions -> References]
      /\ RefsAreGood(disk.set \ gone, Revert!Cleared(disk.refs, gone), med)
  BY <1>2, <1>3, ClearGood
<1>5. disk.set \ (disk.set \ gone) = gone
  BY <1>2, <1>3
<1> DEFINE pruned == Revert!Pruned(disk, protected)
<1>6. pruned.set = disk.set \ gone /\ pruned.refs = Revert!Cleared(disk.refs, gone)
  BY <1>1
<1> HIDE DEF pruned
<1>7. pruned.set \subseteq disk.set /\ disk.set \ pruned.set = gone
  BY <1>5, <1>6
<1>8. pruned.refs \in [Sessions -> References] /\ RefsAreGood(pruned.set, pruned.refs, med)
  BY <1>4, <1>6
<1>9. ASSUME NEW x \in disk.set, x \notin pruned.set
      PROVE  /\ x.id \notin protected
             /\ ~(x.purpose = "undo" /\ disk.refs[x.session].active /\ disk.refs[x.session].undo = x.id)
  <2>1. x \in free
    BY <1>2, <1>6, <1>9
  <2> QED
    BY <1>3, <2>1
<1>10. pruned.refs = Revert!Cleared(disk.refs, disk.set \ pruned.set)
  BY <1>6, <1>7
<1>11. /\ \A x \in disk.set : x.id \in protected => x \in pruned.set
       /\ \A x \in disk.set :
            /\ x.purpose = "undo" /\ disk.refs[x.session].active /\ disk.refs[x.session].undo = x.id
            => x \in pruned.set
  BY <1>9
<1> QED
  BY <1>7, <1>8, <1>10, <1>11 DEF pruned

\* The snapshot that create_snapshot adds.
Image(s, purpose) == [id |-> taken + 1, session |-> s, purpose |-> purpose, holds |-> workspace]

LEMMA ImageAdded ==
  ASSUME RevertInv, NEW s \in Sessions, NEW purpose \in {"target", "undo"}
  PROVE  /\ WellNumbered(snapshots \cup {Image(s, purpose)})
         /\ \A x \in snapshots \cup {Image(s, purpose)} : x.id <= taken + 1
         /\ RefsAreGood(snapshots \cup {Image(s, purpose)}, revert, meddled)
         /\ \A protected : Revert!Taken(Revert!Disk, s, purpose, protected)
              = Revert!Pruned([set |-> snapshots \cup {Image(s, purpose)}, refs |-> revert],
                              protected \cup {taken + 1})
<1> DEFINE new == Image(s, purpose)
<1>1. /\ new \in Images /\ new.id = taken + 1 /\ new.session = s /\ new.purpose = purpose
      /\ new.holds = workspace
  BY DEF Image, Images, RevertInv, RevertTyped
<1>2. /\ taken \in Nat /\ WellNumbered(snapshots) /\ \A x \in snapshots : x.id <= taken /\ x.id \in Nat
  BY DEF RevertInv, RevertTyped, WellNumbered, Images
<1>3. /\ Revert!Disk = [set |-> snapshots, refs |-> revert]
      /\ [Revert!Disk EXCEPT !.set = @ \cup {new}] = [set |-> snapshots \cup {new}, refs |-> revert]
  BY DEF Revert!Disk
<1>4. \A protected : Revert!Taken(Revert!Disk, s, purpose, protected)
        = Revert!Pruned([set |-> snapshots \cup {new}, refs |-> revert], protected \cup {taken + 1})
  BY <1>3 DEF Revert!Taken, Image
<1> HIDE DEF new
<1>5. WellNumbered(snapshots \cup {new}) /\ \A x \in snapshots \cup {new} : x.id <= taken + 1
  BY <1>1, <1>2 DEF WellNumbered
<1>6. ASSUME NEW t \in Sessions PROVE RefIsGood(snapshots \cup {new}, revert[t], meddled[t], t)
  <2>1. RefIsGood(snapshots, revert[t], meddled[t], t)
    BY DEF RevertInv, RefsAreGood
  <2>2. meddled[t] \subseteq {"moving"} => revert[t].snap # new.id
    BY <1>1, <1>2, <2>1 DEF RefIsGood, HasOwn
  <2> QED
    BY <2>1, <2>2 DEF RefIsGood, HasOwn, HasUndo
<1> QED
  BY <1>4, <1>5, <1>6 DEF RefsAreGood, new

\* Steps that leave the runs alone.
LEMMA RunsUntouched ==
  ASSUME RevertInv, UNCHANGED <<turn, leases, turns>>,
         \A x \in snapshots : x.id \in leases => x \in snapshots',
         \A x \in snapshots' : x \in snapshots \/ (x.id = taken + 1 /\ x.holds = workspace),
         \A t \in Sessions : turn[t].pc = "running" /\ "moving" \notin meddled'[t]
            => "moving" \notin meddled[t] /\ history'[t] \subseteq history[t],
         workspace' = workspace \/ \E x \in snapshots : workspace' = x.holds
  PROVE  RunsHold' /\ EditsKnown' /\ RunsKnow'
<1>1. \A t \in Sessions : turn[t].pc = "running" => turn[t].snap \in leases /\ HasOwn(snapshots, turn[t].snap, t)
  BY DEF RevertInv, RunsHold, Revert!LeaseIsHeld
<1>2. RunsHold'
  BY <1>1 DEF RevertInv, RunsHold, Revert!LeaseIsHeld, HasOwn
<1>3. EditsKnown'
  BY DEF RevertInv, EditsKnown
<1>4. \A x \in snapshots : x.id <= taken /\ x.id \in Nat /\ taken \in Nat
  BY DEF RevertInv, RevertTyped, WellNumbered, Images
<1>5. ASSUME NEW t \in Sessions, turn[t].pc = "running", NEW x \in snapshots', x.id = turn[t].snap
      PROVE  x \in snapshots
  <2>1. x.id # taken + 1
    BY <1>1, <1>4, <1>5 DEF HasOwn
  <2> QED
    BY <2>1
<1>6. RunsKnow'
  BY <1>5 DEF RevertInv, RunsKnow
<1> QED
  BY <1>2, <1>3, <1>6

\* A run that ends, however it ends.
LEMMA RunEnds ==
  ASSUME RevertInv, NEW s \in Sessions, turn[s].pc = "running",
         turn' = [turn EXCEPT ![s] = Revert!NoRun], leases' = leases \ {turn[s].snap},
         UNCHANGED <<history, turns, workspace>>, snapshots' \subseteq snapshots,
         \A x \in snapshots : x.id \in leases' => x \in snapshots',
         \A t \in Sessions \ {s} : meddled'[t] = meddled[t]
  PROVE  RunsHold' /\ EditsKnown' /\ RunsKnow'
<1>1. /\ \A t \in Sessions : turn[t].pc = "running" => HasOwn(snapshots, turn[t].snap, t)
      /\ leases = {turn[t].snap : t \in {u \in Sessions : turn[u].pc = "running"}}
  BY DEF RevertInv, RunsHold, Revert!LeaseIsHeld
<1>2. /\ \A t \in Sessions \ {s} : turn'[t] = turn[t]
      /\ turn'[s].pc = "idle"
  BY DEF Revert!NoRun, RevertInv, RevertTyped
<1>3. \A t \in Sessions : turn'[t].pc = "running" <=> t # s /\ turn[t].pc = "running"
  BY <1>2
<1>4. \A t \in Sessions \ {s} : turn[t].pc = "running" => turn[t].snap # turn[s].snap
  BY <1>1 DEF HasOwn, RevertInv, RevertTyped, WellNumbered
<1>5. leases' = {turn'[t].snap : t \in {u \in Sessions : turn'[u].pc = "running"}}
  BY <1>1, <1>2, <1>3, <1>4
<1>6. RunsHold'
  <2>1. ASSUME NEW t \in Sessions, turn'[t].pc = "running" PROVE HasOwn(snapshots', turn'[t].snap, t)
    <3>1. turn'[t] = turn[t] /\ turn'[t].snap \in leases' /\ HasOwn(snapshots, turn[t].snap, t)
      BY <1>1, <1>2, <1>3, <1>5, <2>1
    <3> QED
      BY <3>1 DEF HasOwn
  <2> QED
    BY <1>5, <2>1 DEF RunsHold, Revert!LeaseIsHeld
<1>7. EditsKnown'
  BY DEF RevertInv, EditsKnown
<1>8. RunsKnow'
  BY <1>2, <1>3 DEF RevertInv, RunsKnow
<1> QED
  BY <1>6, <1>7, <1>8

LEMMA StartKeeps ==
  ASSUME RevertInv, NEW s \in Sessions, Revert!StartRun(s)
  PROVE  RevertInv'
<1>1. PICK new : new = Image(s, "target")
  OBVIOUS
<1> DEFINE disk == [set |-> snapshots \cup {new}, refs |-> revert]
<1>2. PICK pruned : pruned = Revert!Pruned(disk, leases \cup {taken + 1})
  OBVIOUS
<1>3. /\ new \in Images /\ new.id = taken + 1 /\ new.session = s /\ new.purpose = "target"
      /\ new.holds = workspace
  BY <1>1 DEF Image, Images, RevertInv, RevertTyped
<1>4. /\ WellNumbered(snapshots \cup {new}) /\ \A x \in snapshots \cup {new} : x.id <= taken + 1
      /\ RefsAreGood(snapshots \cup {new}, revert, meddled)
  BY <1>1, ImageAdded
<1>5. snapshots' = pruned.set /\ revert' = pruned.refs
  BY <1>1, <1>2, ImageAdded DEF Revert!StartRun, Revert!Becomes
<1>6. disk.set = snapshots \cup {new} /\ disk.refs = revert /\ revert \in [Sessions -> References]
  BY DEF RevertInv, RevertTyped
<1> HIDE DEF disk
<1>7. /\ snapshots' \subseteq snapshots \cup {new} /\ revert' \in [Sessions -> References]
      /\ RefsAreGood(snapshots', revert', meddled)
      /\ \A x \in snapshots : x.id \in leases => x \in snapshots'
      /\ new \in snapshots'
  <2>1. /\ pruned.set \subseteq disk.set /\ pruned.refs \in [Sessions -> References]
        /\ RefsAreGood(pruned.set, pruned.refs, meddled)
        /\ \A x \in disk.set : x.id \in leases \cup {taken + 1} => x \in pruned.set
    <3>1. /\ WellNumbered(disk.set) /\ disk.refs \in [Sessions -> References]
          /\ RefsAreGood(disk.set, disk.refs, meddled)
      BY <1>4, <1>6
    <3> QED
      BY <1>2, <3>1, PruneGood
  <2> QED
    BY <1>3, <1>5, <1>6, <2>1
<1>8. /\ turn[s].pc = "idle" /\ taken' = taken + 1 /\ leases' = leases \cup {taken + 1}
      /\ turn' = [turn EXCEPT ![s] = [pc |-> "running", before |-> history[s], snap |-> taken + 1]]
      /\ meddled' = [meddled EXCEPT ![s] = @ \ {"moving"}]
      /\ UNCHANGED <<history, turns, checkpoints, workspace>>
  BY DEF Revert!StartRun
<1>9. /\ turn'[s] = [pc |-> "running", before |-> history[s], snap |-> taken + 1]
      /\ \A t \in Sessions \ {s} : turn'[t] = turn[t] /\ meddled'[t] = meddled[t]
      /\ meddled'[s] = meddled[s] \ {"moving"}
  BY <1>8 DEF RevertInv, RevertTyped
<1>10. RevertTyped'
  <2>1. WellNumbered(snapshots') /\ \A x \in snapshots' : x.id <= taken'
    BY <1>4, <1>7, <1>8 DEF WellNumbered
  <2>2. turn' \in [Sessions -> [pc : {"idle", "running"}, before : SUBSET Nat, snap : Nat]]
    BY <1>8 DEF RevertInv, RevertTyped
  <2>3. meddled' \in [Sessions -> SUBSET Deeds]
    BY <1>8 DEF RevertInv, RevertTyped
  <2> QED
    BY <1>7, <1>8, <2>1, <2>2, <2>3 DEF RevertInv, RevertTyped
<1>11. RefsAreGood(snapshots', revert', meddled')
  BY <1>7, <1>9 DEF RefsAreGood, RefIsGood
<1>12. RunsHold'
  <2>1. /\ leases = {turn[t].snap : t \in {u \in Sessions : turn[u].pc = "running"}}
        /\ \A t \in Sessions : turn[t].pc = "running" => HasOwn(snapshots, turn[t].snap, t)
    BY DEF RevertInv, RunsHold, Revert!LeaseIsHeld
  <2>2. leases' = {turn'[t].snap : t \in {u \in Sessions : turn'[u].pc = "running"}}
    BY <1>8, <1>9, <2>1
  <2>3. \A t \in Sessions : turn'[t].pc = "running" => HasOwn(snapshots', turn'[t].snap, t)
    BY <1>3, <1>7, <1>8, <1>9, <2>1 DEF HasOwn
  <2> QED
    BY <2>2, <2>3 DEF RunsHold, Revert!LeaseIsHeld
<1>13. EditsKnown'
  BY <1>3, <1>7, <1>8 DEF RevertInv, EditsKnown
<1>14. RunsKnow'
  <2> SUFFICES ASSUME NEW t \in Sessions, turn'[t].pc = "running", "moving" \notin meddled'[t],
                      NEW x \in snapshots', x.id = turn'[t].snap,
                      NEW n \in history[t] \ turn'[t].before, NEW e \in x.holds, e.session = t
               PROVE  e.turn < n
    BY <1>8 DEF RunsKnow
  <2>1. t # s
    BY <1>9
  <2>2. HasOwn(snapshots, turn[t].snap, t) /\ \A y \in snapshots : y.id <= taken /\ y.id \in Nat
    BY <1>9, <2>1 DEF RevertInv, RunsHold, RevertTyped, WellNumbered, Images
  <2>3. x \in snapshots
    BY <1>3, <1>7, <1>9, <2>1, <2>2 DEF HasOwn, RevertInv, RevertTyped
  <2> QED
    BY <1>9, <2>1, <2>3 DEF RevertInv, RunsKnow
<1> QED
  BY <1>10, <1>11, <1>12, <1>13, <1>14 DEF RevertInv

LEMMA TurnKeeps ==
  ASSUME RevertInv, NEW s \in Sessions, Revert!Turn(s)
  PROVE  RevertInv'
<1>1. /\ turns' = [turns EXCEPT ![s] = @ + 1]
      /\ history' = [history EXCEPT ![s] = @ \cup {turns[s] + 1}]
      /\ workspace' = workspace \cup {[session |-> s, turn |-> turns[s] + 1]}
      /\ UNCHANGED <<revert, checkpoints, snapshots, taken, leases, turn, meddled>>
  BY DEF Revert!Turn, Revert!Edits
<1>2. turns \in [Sessions -> Nat] /\ history \in [Sessions -> SUBSET Nat] /\ turns[s] + 1 \in Nat
  BY DEF RevertInv, RevertTyped
<1>3. RevertTyped'
  BY <1>1, <1>2 DEF RevertInv, RevertTyped, Edits
<1>4. RunsHold' /\ RefsAreGood(snapshots', revert', meddled')
  BY <1>1 DEF RevertInv, RunsHold, Revert!LeaseIsHeld
<1>5. \A x \in snapshots : x.holds \subseteq Edits
  BY DEF RevertInv, RevertTyped, WellNumbered, Images
<1>6. /\ \A t \in Sessions : turns[t] <= turns'[t] /\ turns[t] \in Nat /\ turns'[t] \in Nat
      /\ turns'[s] = turns[s] + 1
  BY <1>1, <1>2
<1>7. EditsKnown'
  <2>1. \A e \in Edits : e.turn \in Nat /\ e.session \in Sessions
    BY DEF Edits
  <2>2. \A e \in workspace' : e.turn <= turns'[e.session]
    <3>1. \A e \in workspace : e.turn <= turns'[e.session]
      BY <1>6, <2>1 DEF RevertInv, RevertTyped, EditsKnown
    <3> QED
      BY <1>1, <1>6, <3>1
  <2>3. \A x \in snapshots : \A e \in x.holds : e.turn <= turns'[e.session]
    BY <1>5, <1>6, <2>1 DEF RevertInv, EditsKnown
  <2> QED
    BY <1>1, <2>2, <2>3 DEF EditsKnown
<1>8. RunsKnow'
  <2> SUFFICES ASSUME NEW t \in Sessions, turn[t].pc = "running", "moving" \notin meddled[t],
                      NEW x \in snapshots, x.id = turn[t].snap,
                      NEW n \in history'[t] \ turn[t].before, NEW e \in x.holds, e.session = t
               PROVE  e.turn < n
    BY <1>1 DEF RunsKnow
  <2>1. CASE n \in history[t]
    BY <2>1 DEF RevertInv, RunsKnow
  <2>2. CASE n \notin history[t]
    <3>1. t = s /\ n = turns[s] + 1
      BY <1>1, <1>2, <2>2
    <3>2. e.turn <= turns[s] /\ e.turn \in Nat
      BY <1>5, <3>1 DEF RevertInv, EditsKnown, Edits
    <3> QED
      BY <1>2, <3>1, <3>2
  <2> QED
    BY <2>1, <2>2
<1> QED
  BY <1>3, <1>4, <1>7, <1>8 DEF RevertInv

LEMMA FinishKeeps ==
  ASSUME RevertInv, NEW s \in Sessions, Revert!FinishRun(s)
  PROVE  RevertInv'
<1>1. PICK ref : ref = [Revert!NoRevert EXCEPT !.target = Revert!FirstNew(s), !.snap = turn[s].snap]
  OBVIOUS
<1>2. PICK refs : refs = [revert EXCEPT ![s] = ref]
  OBVIOUS
<1> DEFINE disk == [set |-> snapshots, refs |-> refs]
<1>3. PICK pruned : pruned = Revert!Pruned(disk, leases \ {turn[s].snap})
  OBVIOUS
<1>4. /\ turn[s].pc = "running" /\ leases' = leases \ {turn[s].snap}
      /\ snapshots' = pruned.set /\ revert' = pruned.refs
      /\ turn' = [turn EXCEPT ![s] = Revert!NoRun]
      /\ meddled' = [meddled EXCEPT ![s] = IF "moving" \in @ THEN {"moved"} ELSE {}]
      /\ UNCHANGED <<history, turns, checkpoints, taken, workspace>>
  <2>1. [Revert!Disk EXCEPT !.refs[s] = ref] = disk
    BY <1>2 DEF Revert!Disk
  <2> QED
    BY <1>1, <1>3, <2>1 DEF Revert!FinishRun, Revert!Becomes, Revert!Released, Revert!Published
<1>5. disk.set = snapshots /\ disk.refs = refs
  OBVIOUS
<1> HIDE DEF disk
<1>6. /\ \A t \in Sessions \ {s} : refs[t] = revert[t] /\ meddled'[t] = meddled[t]
      /\ refs[s] = ref /\ meddled'[s] = IF "moving" \in meddled[s] THEN {"moved"} ELSE {}
  BY <1>2, <1>4 DEF RevertInv, RevertTyped
<1>7. /\ Revert!FirstNew(s) \in Nat
      /\ Revert!FirstNew(s) # 0 => Revert!FirstNew(s) \in history[s] \ turn[s].before
  <2> DEFINE new == history[s] \ turn[s].before
  <2>1. new \subseteq Nat
    BY DEF RevertInv, RevertTyped
  <2>2. Revert!FirstNew(s) = IF new = {} THEN 0 ELSE Revert!Min(new)
    BY DEF Revert!FirstNew
  <2> HIDE DEF new
  <2>3. new # {} => Revert!Min(new) \in new
    BY <2>1, LeastOf
  <2>4. CASE new = {}
    BY <2>2, <2>4
  <2>5. CASE new # {}
    <3>1. Revert!FirstNew(s) \in new
      BY <2>2, <2>3, <2>5
    <3> QED
      BY <2>1, <3>1 DEF new
  <2> QED
    BY <2>4, <2>5
<1>8. /\ ref \in References /\ ~ref.active /\ ref.undo = 0
      /\ ref.target = Revert!FirstNew(s) /\ ref.snap = turn[s].snap
  BY <1>1, <1>7 DEF References, Revert!NoRevert, RevertInv, RevertTyped
<1>9. refs \in [Sessions -> References]
  BY <1>2, <1>8 DEF RevertInv, RevertTyped
<1>10. RefsAreGood(snapshots, refs, meddled')
  <2>1. ASSUME NEW t \in Sessions \ {s} PROVE RefIsGood(snapshots, refs[t], meddled'[t], t)
    BY <1>6 DEF RevertInv, RefsAreGood
  <2>2. RefIsGood(snapshots, refs[s], meddled'[s], s)
    <3>1. HasOwn(snapshots, ref.snap, s)
      BY <1>4, <1>8 DEF RevertInv, RunsHold
    <3>2. ASSUME meddled'[s] \subseteq {"moving"}, ref.target # 0
          PROVE  \A x \in snapshots : x.id = ref.snap => \A e \in x.holds : e.session = s => e.turn < ref.target
      <4>1. "moving" \notin meddled[s]
        BY <1>6, <3>2
      <4> QED
        BY <1>4, <1>7, <1>8, <3>2, <4>1 DEF RevertInv, RunsKnow
    <3> QED
      BY <1>6, <1>8, <3>1, <3>2 DEF RefIsGood
  <2> QED
    BY <2>1, <2>2 DEF RefsAreGood
<1>11. /\ snapshots' \subseteq snapshots /\ revert' \in [Sessions -> References]
       /\ RefsAreGood(snapshots', revert', meddled')
       /\ \A x \in snapshots : x.id \in leases' => x \in snapshots'
  <2>1. WellNumbered(disk.set) /\ disk.refs \in [Sessions -> References] /\ RefsAreGood(disk.set, disk.refs, meddled')
    BY <1>5, <1>9, <1>10 DEF RevertInv, RevertTyped
  <2>2. /\ pruned.set \subseteq disk.set /\ pruned.refs \in [Sessions -> References]
        /\ RefsAreGood(pruned.set, pruned.refs, meddled')
        /\ \A x \in disk.set : x.id \in leases \ {turn[s].snap} => x \in pruned.set
    BY <1>3, <2>1, PruneGood
  <2> QED
    BY <1>4, <1>5, <2>2
<1>12. RevertTyped'
  <2>1. turn' \in [Sessions -> [pc : {"idle", "running"}, before : SUBSET Nat, snap : Nat]]
    BY <1>4 DEF RevertInv, RevertTyped, Revert!NoRun
  <2>2. meddled' \in [Sessions -> SUBSET Deeds]
    <3>1. {"moved"} \in SUBSET Deeds /\ {} \in SUBSET Deeds
      BY DEF Deeds
    <3>2. meddled \in [Sessions -> SUBSET Deeds]
      BY DEF RevertInv, RevertTyped
    <3>3. meddled' = [meddled EXCEPT ![s] = meddled'[s]] /\ meddled'[s] \in SUBSET Deeds
      BY <1>4, <1>6, <3>1, <3>2
    <3> QED
      BY <3>2, <3>3
  <2> QED
    BY <1>4, <1>11, <2>1, <2>2 DEF RevertInv, RevertTyped, WellNumbered
<1>13. RunsHold' /\ EditsKnown' /\ RunsKnow'
  BY <1>4, <1>6, <1>11, RunEnds
<1> QED
  BY <1>11, <1>12, <1>13 DEF RevertInv

LEMMA FailKeeps ==
  ASSUME RevertInv, NEW s \in Sessions, Revert!FailRun(s)
  PROVE  RevertInv'
<1>1. PICK pruned : pruned = Revert!Pruned(Revert!Disk, leases \ {turn[s].snap})
  OBVIOUS
<1>2. /\ turn[s].pc = "running" /\ leases' = leases \ {turn[s].snap}
      /\ snapshots' = pruned.set /\ revert' = pruned.refs
      /\ turn' = [turn EXCEPT ![s] = Revert!NoRun]
      /\ UNCHANGED <<history, turns, checkpoints, taken, workspace, meddled>>
  BY <1>1 DEF Revert!FailRun, Revert!Becomes, Revert!Released
<1>3. /\ snapshots' \subseteq snapshots /\ revert' \in [Sessions -> References]
      /\ RefsAreGood(snapshots', revert', meddled')
      /\ \A x \in snapshots : x.id \in leases' => x \in snapshots'
  <2> DEFINE disk == Revert!Disk
  <2>1. disk.set = snapshots /\ disk.refs = revert
    BY DEF Revert!Disk
  <2>2. WellNumbered(disk.set) /\ disk.refs \in [Sessions -> References] /\ RefsAreGood(disk.set, disk.refs, meddled)
    BY <2>1 DEF RevertInv, RevertTyped
  <2> HIDE DEF disk
  <2>3. /\ pruned.set \subseteq disk.set /\ pruned.refs \in [Sessions -> References]
        /\ RefsAreGood(pruned.set, pruned.refs, meddled)
        /\ \A x \in disk.set : x.id \in leases \ {turn[s].snap} => x \in pruned.set
    BY <1>1, <2>2, PruneGood DEF disk
  <2> QED
    BY <1>2, <2>1, <2>3
<1>4. RevertTyped'
  <2>1. turn' \in [Sessions -> [pc : {"idle", "running"}, before : SUBSET Nat, snap : Nat]]
    BY <1>2 DEF RevertInv, RevertTyped, Revert!NoRun
  <2> QED
    BY <1>2, <1>3, <2>1 DEF RevertInv, RevertTyped, WellNumbered
<1>5. RunsHold' /\ EditsKnown' /\ RunsKnow'
  BY <1>2, <1>3, RunEnds
<1> QED
  BY <1>3, <1>4, <1>5 DEF RevertInv

LEMMA CheckpointTyped ==
  ASSUME RevertInv, NEW s \in Sessions, Revert!Checkpointed(s)
  PROVE  /\ checkpoints' \in [Sessions -> SUBSET Points]
         /\ \A t \in Sessions : IsFiniteSet(checkpoints'[t])
         /\ Revert!Numbered(s) \in Nat
<1>1. /\ checkpoints \in [Sessions -> SUBSET Points] /\ \A t \in Sessions : IsFiniteSet(checkpoints[t])
      /\ history[s] \in SUBSET Nat /\ revert[s] \in References
  BY DEF RevertInv, RevertTyped
<1>2. \A set : Revert!Cardinality(set) = Cardinality(set)
  BY DEF Revert!Cardinality, Cardinality
<1>3. Revert!Numbered(s) \in Nat
  BY <1>1, <1>2, FS_CardinalityType DEF Revert!Numbered
<1>4. PICK c : c = [no |-> Revert!Numbered(s), holds |-> Revert!Saved(s)]
  OBVIOUS
<1>5. c \in Points
  BY <1>1, <1>3, <1>4 DEF Points, Revert!Saved
<1>6. checkpoints' = [checkpoints EXCEPT ![s] = @ \cup {c}]
  BY <1>4 DEF Revert!Checkpointed
<1>7. IsFiniteSet(checkpoints[s] \cup {c})
  BY <1>1, FS_AddElement
<1> QED
  BY <1>1, <1>3, <1>5, <1>6, <1>7

LEMMA SnapshotFound ==
  ASSUME NEW id, id \in Revert!Ids(snapshots)
  PROVE  Revert!Snapshot(id) \in snapshots /\ Revert!Snapshot(id).id = id
BY DEF Revert!Ids, Revert!Snapshot

\* What a revert to another target is noted as.
LEMMA RevertNoted ==
  ASSUME RevertInv, NEW s \in Sessions, NEW named, Revert!Revert(s, named)
  PROVE  /\ meddled' \in [Sessions -> SUBSET Deeds]
         /\ \A t \in Sessions : meddled'[t] = meddled[t] \/ meddled'[t] = meddled[t] \cup {"retargeted"}
         /\ Revert!Target(s, named) # revert[s].target => "retargeted" \in meddled'[s]
<1>1. meddled \in [Sessions -> SUBSET Deeds]
  BY DEF RevertInv, RevertTyped
<1>2. PICK noted : noted = IF Revert!Target(s, named) = revert[s].target THEN meddled[s]
                           ELSE meddled[s] \cup {"retargeted"}
  OBVIOUS
<1>3. meddled' = [meddled EXCEPT ![s] = noted]
  BY <1>2 DEF Revert!Revert
<1>4. noted \in SUBSET Deeds
  BY <1>1, <1>2 DEF Deeds
<1> QED
  BY <1>1, <1>2, <1>3, <1>4

\* A revert that leaves nothing but a checkpoint.
LEMMA RevertKeepsA ==
  ASSUME RevertInv, NEW s \in Sessions, NEW named \in {0} \cup history[s], Revert!Revert(s, named),
         revert[s].snap # 0, revert[s].snap \notin Revert!Ids(snapshots)
  PROVE  RevertInv'
<1>1. /\ Revert!Checkpointed(s) /\ UNCHANGED <<history, revert, snapshots, taken, workspace>>
      /\ UNCHANGED <<turns, leases, turn>>
  BY DEF Revert!Revert
<1>2. /\ meddled' \in [Sessions -> SUBSET Deeds]
      /\ \A t \in Sessions : meddled'[t] = meddled[t] \/ meddled'[t] = meddled[t] \cup {"retargeted"}
  BY RevertNoted
<1>3. RevertTyped'
  BY <1>1, <1>2, CheckpointTyped DEF RevertInv, RevertTyped
<1>4. RefsAreGood(snapshots', revert', meddled')
  BY <1>1, <1>2 DEF RevertInv, RefsAreGood, RefIsGood
<1>5. RunsHold' /\ EditsKnown' /\ RunsKnow'
  BY <1>1, <1>2, RunsUntouched
<1> QED
  BY <1>3, <1>4, <1>5 DEF RevertInv

\* A revert of the history alone.
LEMMA RevertKeepsB ==
  ASSUME RevertInv, NEW s \in Sessions, NEW named \in {0} \cup history[s], Revert!Revert(s, named),
         revert[s].snap = 0
  PROVE  RevertInv'
<1>1. PICK target : target = Revert!Target(s, named)
  OBVIOUS
<1>2. PICK ref : ref = Revert!RevertRecord(revert[s], s, target)
  OBVIOUS
<1>3. /\ target \in history[s] /\ Revert!Checkpointed(s)
      /\ history' = [history EXCEPT ![s] = {n \in @ : n < target}]
      /\ UNCHANGED <<turns, leases, turn, taken, workspace>>
  BY <1>1 DEF Revert!Revert
<1>4. snapshots' = snapshots /\ revert' = [revert EXCEPT ![s] = ref]
  <2>1. Revert!UndoDisk(s) = [set |-> snapshots, refs |-> revert]
    BY DEF Revert!UndoDisk, Revert!Disk
  <2>2. Revert!Recorded(s, target) = [set |-> snapshots, refs |-> [revert EXCEPT ![s] = ref]]
    BY <1>2, <2>1 DEF Revert!Recorded
  <2>3. Revert!Becomes(Revert!Recorded(s, target))
    BY <1>1 DEF Revert!Revert
  <2> QED
    BY <2>2, <2>3 DEF Revert!Becomes
<1>5. /\ meddled' \in [Sessions -> SUBSET Deeds]
      /\ \A t \in Sessions : meddled'[t] = meddled[t] \/ meddled'[t] = meddled[t] \cup {"retargeted"}
  BY RevertNoted
<1>6. /\ ref \in References /\ ref.snap = 0 /\ ref.undo = 0 /\ ~ref.restored
  <2>1. target \in Nat /\ Revert!Numbered(s) \in Nat /\ revert[s] \in References
    BY <1>3, CheckpointTyped DEF RevertInv, RevertTyped
  <2> QED
    BY <1>2, <2>1 DEF References, Revert!RevertRecord
<1>7. /\ revert' \in [Sessions -> References] /\ revert'[s] = ref
      /\ \A t \in Sessions \ {s} : revert'[t] = revert[t]
  BY <1>4, <1>6 DEF RevertInv, RevertTyped
<1>8. /\ history' \in [Sessions -> SUBSET Nat]
      /\ \A t \in Sessions : history'[t] \subseteq history[t]
  BY <1>3 DEF RevertInv, RevertTyped
<1>9. RevertTyped'
  BY <1>3, <1>4, <1>5, <1>7, <1>8, CheckpointTyped DEF RevertInv, RevertTyped
<1>10. RefsAreGood(snapshots', revert', meddled')
  <2>1. \A x \in snapshots : x.id # 0
    BY DEF RevertInv, RevertTyped, WellNumbered
  <2>2. RefIsGood(snapshots', revert'[s], meddled'[s], s)
    BY <1>4, <1>6, <1>7, <2>1 DEF RefIsGood
  <2>3. \A t \in Sessions \ {s} : RefIsGood(snapshots', revert'[t], meddled'[t], t)
    BY <1>4, <1>5, <1>7 DEF RevertInv, RefsAreGood, RefIsGood
  <2> QED
    BY <2>2, <2>3 DEF RefsAreGood
<1>11. RunsHold' /\ EditsKnown' /\ RunsKnow'
  BY SMTT(40), <1>3, <1>4, <1>5, <1>8, RunsUntouched
<1> QED
  BY <1>9, <1>10, <1>11 DEF RevertInv

\* What a revert that restores a snapshot does.
LEMMA Restores ==
  ASSUME RevertInv, NEW s \in Sessions, NEW named \in {0} \cup history[s], Revert!Revert(s, named),
         revert[s].snap # 0, revert[s].snap \in Revert!Ids(snapshots)
  PROVE  \E target \in Nat : \E mid, pruned :
           /\ target \in history[s] /\ target = Revert!Target(s, named)
           /\ mid = Revert!Pruned([set |-> snapshots \cup {Image(s, "undo")}, refs |-> revert],
                                  (leases \cup {revert[s].snap}) \cup {taken + 1})
           /\ pruned = Revert!Pruned([set |-> mid.set, refs |-> [mid.refs EXCEPT
                            ![s] = Revert!RevertRecord(mid.refs[s], s, target)]], leases)
           /\ snapshots' = pruned.set /\ revert' = pruned.refs /\ taken' = taken + 1
           /\ workspace' = Revert!Snapshot(revert[s].snap).holds
           /\ history' = [history EXCEPT ![s] = {n \in @ : n < target}]
           /\ Revert!Checkpointed(s) /\ UNCHANGED <<turns, leases, turn>>
<1>1. PICK target : target = Revert!Target(s, named)
  OBVIOUS
<1>2. PICK mid : mid = Revert!Pruned([set |-> snapshots \cup {Image(s, "undo")}, refs |-> revert],
                                     (leases \cup {revert[s].snap}) \cup {taken + 1})
  OBVIOUS
<1>3. Revert!UndoDisk(s) = mid
  BY <1>2, ImageAdded DEF Revert!LeasedFor, Revert!UndoDisk
<1>4. mid = [set |-> mid.set, refs |-> mid.refs]
  BY <1>2 DEF Revert!Pruned
<1>5. Revert!Recorded(s, target) = [set |-> mid.set, refs |-> [mid.refs EXCEPT
                                       ![s] = Revert!RevertRecord(mid.refs[s], s, target)]]
  BY <1>3, <1>4 DEF Revert!Recorded
<1>6. /\ target \in history[s] /\ Revert!Checkpointed(s) /\ UNCHANGED <<turns, leases, turn>>
      /\ history' = [history EXCEPT ![s] = {n \in @ : n < target}]
      /\ taken' = taken + 1 /\ workspace' = Revert!Snapshot(revert[s].snap).holds
      /\ Revert!Becomes(Revert!Pruned(Revert!Recorded(s, target), leases))
  BY <1>1 DEF Revert!Revert
<1>7. target \in Nat
  BY <1>6 DEF RevertInv, RevertTyped
<1>8. PICK pruned : pruned = Revert!Pruned(Revert!Recorded(s, target), leases)
  OBVIOUS
<1>9. snapshots' = pruned.set /\ revert' = pruned.refs
  BY <1>6, <1>8 DEF Revert!Becomes
<1> QED
  BY <1>1, <1>2, <1>5, <1>6, <1>7, <1>8, <1>9

\* A revert that restores a snapshot keeps those that the runs and the sessions need, and
\* the workspace it replaces.
LEMMA RevertKeepsC ==
  ASSUME RevertInv, NEW s \in Sessions, NEW named \in {0} \cup history[s], Revert!Revert(s, named),
         revert[s].snap # 0, revert[s].snap \in Revert!Ids(snapshots)
  PROVE  RevertInv'
<1> DEFINE snap == revert[s].snap
<1>1. PICK target \in Nat : \E mid, pruned :
           /\ target \in history[s] /\ target = Revert!Target(s, named)
           /\ mid = Revert!Pruned([set |-> snapshots \cup {Image(s, "undo")}, refs |-> revert],
                                  (leases \cup {snap}) \cup {taken + 1})
           /\ pruned = Revert!Pruned([set |-> mid.set, refs |-> [mid.refs EXCEPT
                            ![s] = Revert!RevertRecord(mid.refs[s], s, target)]], leases)
           /\ snapshots' = pruned.set /\ revert' = pruned.refs /\ taken' = taken + 1
           /\ workspace' = Revert!Snapshot(snap).holds
           /\ history' = [history EXCEPT ![s] = {n \in @ : n < target}]
           /\ Revert!Checkpointed(s) /\ UNCHANGED <<turns, leases, turn>>
  BY Restores
<1>2. PICK mid, pruned :
           /\ mid = Revert!Pruned([set |-> snapshots \cup {Image(s, "undo")}, refs |-> revert],
                                  (leases \cup {snap}) \cup {taken + 1})
           /\ pruned = Revert!Pruned([set |-> mid.set, refs |-> [mid.refs EXCEPT
                            ![s] = Revert!RevertRecord(mid.refs[s], s, target)]], leases)
           /\ snapshots' = pruned.set /\ revert' = pruned.refs /\ taken' = taken + 1
           /\ workspace' = Revert!Snapshot(snap).holds
           /\ history' = [history EXCEPT ![s] = {n \in @ : n < target}]
           /\ Revert!Checkpointed(s) /\ UNCHANGED <<turns, leases, turn>>
  BY <1>1
<1>3. PICK new : new = Image(s, "undo")
  OBVIOUS
<1>4. /\ new.id = taken + 1 /\ new.session = s /\ new.purpose = "undo" /\ new.holds = workspace
  BY <1>3 DEF Image
<1>5. /\ WellNumbered(snapshots \cup {new}) /\ \A x \in snapshots \cup {new} : x.id <= taken + 1
      /\ RefsAreGood(snapshots \cup {new}, revert, meddled)
  BY <1>3, ImageAdded
<1>6. /\ meddled' \in [Sessions -> SUBSET Deeds]
      /\ \A t \in Sessions : meddled'[t] = meddled[t] \/ meddled'[t] = meddled[t] \cup {"retargeted"}
      /\ target # revert[s].target => "retargeted" \in meddled'[s]
  BY <1>1, RevertNoted
<1>7. RefsAreGood(snapshots \cup {new}, revert, meddled')
  BY <1>5, <1>6 DEF RefsAreGood, RefIsGood
<1> DEFINE disk == [set |-> snapshots \cup {new}, refs |-> revert]
<1>8. disk.set = snapshots \cup {new} /\ disk.refs = revert
  OBVIOUS
<1>9. mid = Revert!Pruned(disk, (leases \cup {snap}) \cup {taken + 1})
  BY <1>2, <1>3
<1> HIDE DEF disk
<1>10. /\ mid.set \subseteq snapshots \cup {new} /\ mid.refs \in [Sessions -> References]
       /\ RefsAreGood(mid.set, mid.refs, meddled') /\ WellNumbered(mid.set)
       /\ \A x \in snapshots \cup {new} : x.id \in leases \cup {snap, taken + 1} => x \in mid.set
       /\ mid.refs = Revert!Cleared(revert, (snapshots \cup {new}) \ mid.set)
  <2>1. WellNumbered(disk.set) /\ disk.refs \in [Sessions -> References] /\ RefsAreGood(disk.set, disk.refs, meddled')
    BY <1>5, <1>7, <1>8 DEF RevertInv, RevertTyped
  <2>2. /\ mid.set \subseteq disk.set /\ mid.refs \in [Sessions -> References]
        /\ RefsAreGood(mid.set, mid.refs, meddled')
        /\ \A x \in disk.set : x.id \in (leases \cup {snap}) \cup {taken + 1} => x \in mid.set
        /\ mid.refs = Revert!Cleared(disk.refs, disk.set \ mid.set)
    BY <1>9, <2>1, PruneGood
  <2>3. WellNumbered(mid.set)
    BY <1>5, <1>8, <2>2 DEF WellNumbered
  <2> QED
    BY <1>8, <2>2, <2>3
<1>11. PICK ref : ref = Revert!RevertRecord(mid.refs[s], s, target)
  OBVIOUS
<1>12. /\ ref \in References /\ ref.active /\ ref.target = target /\ ref.snap = snap
       /\ ref.undo = taken + 1
  <2>1. revert[s] \in References /\ taken + 1 \in Nat
    BY DEF RevertInv, RevertTyped
  <2>2. snap \in Nat
    BY <2>1 DEF References
  <2>3. Revert!Numbered(s) \in Nat
    BY <1>2, CheckpointTyped
  <2>4. mid.refs[s] \in References
    BY <1>10
  <2>5. ref = [mid.refs[s] EXCEPT !.active = TRUE, !.target = target, !.snap = snap, !.undo = taken + 1,
                                  !.point = Revert!Numbered(s), !.restored = TRUE]
    BY <1>11 DEF Revert!RevertRecord
  <2> HIDE DEF snap
  <2> QED
    BY <2>1, <2>2, <2>3, <2>4, <2>5 DEF References
<1>13. PICK refs : refs = [mid.refs EXCEPT ![s] = ref]
  OBVIOUS
<1>14. /\ refs \in [Sessions -> References] /\ refs[s] = ref
       /\ \A t \in Sessions \ {s} : refs[t] = mid.refs[t]
  BY <1>10, <1>12, <1>13
<1>15. RefIsGood(mid.set, ref, meddled'[s], s)
  <2>1. new \in mid.set /\ new.id # 0
    BY <1>4, <1>10 DEF RevertInv, RevertTyped
  <2>2. HasUndo(mid.set, ref.undo, s)
    BY <1>4, <1>12, <2>1 DEF HasUndo
  <2>3. RefIsGood(snapshots \cup {new}, revert[s], meddled'[s], s)
    BY <1>7 DEF RefsAreGood
  <2>4. "restored" \notin meddled'[s] => HasOwn(mid.set, ref.snap, s)
    BY <1>10, <1>12, <2>3 DEF RefIsGood, HasOwn
  <2>5. ASSUME meddled'[s] \subseteq {"moving"}, ref.target # 0
        PROVE  \A x \in mid.set : x.id = ref.snap => \A e \in x.holds : e.session = s => e.turn < ref.target
    <3>1. target = revert[s].target
      BY <1>6, <2>5
    <3> QED
      BY <1>10, <1>12, <2>3, <2>5, <3>1 DEF RefIsGood
  <2>6. ref.undo # 0
    BY <1>4, <1>12, <2>1
  <2> QED
    BY <2>2, <2>4, <2>5, <2>6 DEF RefIsGood
<1>16. RefsAreGood(mid.set, refs, meddled')
  BY <1>10, <1>14, <1>15 DEF RefsAreGood
<1> DEFINE last == [set |-> mid.set, refs |-> refs]
<1>17. last.set = mid.set /\ last.refs = refs
  OBVIOUS
<1>18. pruned = Revert!Pruned(last, leases)
  BY SMTT(40), <1>2, <1>11, <1>13
<1> HIDE DEF last
<1>19. /\ snapshots' \subseteq mid.set /\ revert' \in [Sessions -> References]
       /\ RefsAreGood(snapshots', revert', meddled')
       /\ \A x \in mid.set : x.id \in leases => x \in snapshots'
  <2>1. WellNumbered(last.set) /\ last.refs \in [Sessions -> References] /\ RefsAreGood(last.set, last.refs, meddled')
    BY <1>10, <1>14, <1>16, <1>17
  <2>2. /\ pruned.set \subseteq last.set /\ pruned.refs \in [Sessions -> References]
        /\ RefsAreGood(pruned.set, pruned.refs, meddled')
        /\ \A x \in last.set : x.id \in leases => x \in pruned.set
    BY <1>18, <2>1, PruneGood
  <2> QED
    BY <1>2, <1>17, <2>2
<1>20. /\ \A x \in snapshots : x.id \in leases => x \in snapshots'
       /\ \A x \in snapshots' : x \in snapshots \/ (x.id = taken + 1 /\ x.holds = workspace)
  BY <1>4, <1>10, <1>19
<1>21. \E x \in snapshots : workspace' = x.holds
  BY <1>2, SnapshotFound
<1>22. /\ history' \in [Sessions -> SUBSET Nat]
       /\ \A t \in Sessions : history'[t] \subseteq history[t]
  BY SMTT(40), <1>2 DEF RevertInv, RevertTyped
<1>23. RevertTyped'
  <2>1. WellNumbered(snapshots')
    BY SMTT(40), <1>10, <1>19 DEF WellNumbered
  <2>4. \A x \in snapshots' : x.id <= taken'
    BY <1>2, <1>5, <1>10, <1>19
  <2>2. workspace' \subseteq Edits
    BY <1>21 DEF RevertInv, RevertTyped, WellNumbered, Images
  <2>3. taken' \in Nat
    BY SMTT(40), <1>2 DEF RevertInv, RevertTyped
  <2> QED
    BY <1>2, <1>6, <1>19, <1>22, <2>1, <2>2, <2>3, <2>4, CheckpointTyped DEF RevertInv, RevertTyped
<1>24. RunsHold' /\ EditsKnown' /\ RunsKnow'
  BY <1>2, <1>6, <1>20, <1>21, <1>22, RunsUntouched
<1> QED
  BY <1>19, <1>23, <1>24 DEF RevertInv

LEMMA DeedsNoted ==
  ASSUME RevertInv, NEW s \in Sessions, NEW deed \in SUBSET Deeds, Revert!BringsBack(s, deed)
  PROVE  /\ meddled' \in [Sessions -> SUBSET Deeds]
         /\ \A t \in Sessions \ {s} : meddled'[t] = meddled[t]
         /\ meddled'[s] \in {(meddled[s] \cup deed), (meddled[s] \cup deed) \cup {"moving"}}
         /\ turn[s].pc = "running" => "moving" \in meddled'[s]
<1>1. meddled \in [Sessions -> SUBSET Deeds]
  BY DEF RevertInv, RevertTyped
<1>2. PICK noted : noted = (meddled[s] \cup deed) \cup (IF turn[s].pc = "running" THEN {"moving"} ELSE {})
  OBVIOUS
<1>3. meddled' = [meddled EXCEPT ![s] = noted]
  BY <1>2 DEF Revert!BringsBack
<1>4. noted \in SUBSET Deeds
  BY <1>1, <1>2 DEF Deeds
<1>5. noted \in {(meddled[s] \cup deed), (meddled[s] \cup deed) \cup {"moving"}}
  BY <1>2
<1> QED
  BY <1>1, <1>2, <1>3, <1>4, <1>5

LEMMA UnrevertKeeps ==
  ASSUME RevertInv, NEW s \in Sessions, Revert!Unrevert(s)
  PROVE  RevertInv'
<1>1. PICK c \in checkpoints[s] :
        /\ history' = [history EXCEPT ![s] = c.holds.history]
        /\ IF revert[s].undo # 0 /\ revert[s].undo \notin Revert!Ids(snapshots)
           THEN revert' = [revert EXCEPT ![s] = c.holds.revert] /\ workspace' = workspace
           ELSE /\ revert' = [revert EXCEPT ![s].active = FALSE]
                /\ workspace' = IF revert[s].undo = 0 THEN workspace
                                ELSE Revert!Snapshot(revert[s].undo).holds
  BY DEF Revert!Unrevert
<1>2. /\ Revert!BringsBack(s, {}) /\ UNCHANGED <<turns, checkpoints, snapshots, taken, leases, turn>>
  BY DEF Revert!Unrevert
<1>3. /\ meddled' \in [Sessions -> SUBSET Deeds]
      /\ \A t \in Sessions : meddled'[t] = meddled[t] \/ meddled'[t] = meddled[t] \cup {"moving"}
      /\ \A t \in Sessions \ {s} : meddled'[t] = meddled[t]
      /\ turn[s].pc = "running" => "moving" \in meddled'[s]
  <2>1. {} \in SUBSET Deeds
    OBVIOUS
  <2>2. /\ meddled' \in [Sessions -> SUBSET Deeds]
        /\ \A t \in Sessions \ {s} : meddled'[t] = meddled[t]
        /\ meddled'[s] \in {meddled[s] \cup {}, (meddled[s] \cup {}) \cup {"moving"}}
        /\ turn[s].pc = "running" => "moving" \in meddled'[s]
    BY <1>2, <2>1, DeedsNoted
  <2>3. meddled[s] \cup {} = meddled[s]
    OBVIOUS
  <2> QED
    BY <2>2, <2>3
<1>4. c.holds.history \in SUBSET Nat /\ c.holds.revert \in References
  BY DEF RevertInv, RevertTyped, Points
<1>5. /\ history' \in [Sessions -> SUBSET Nat]
      /\ \A t \in Sessions \ {s} : history'[t] = history[t]
  BY <1>1, <1>4 DEF RevertInv, RevertTyped
<1>6. workspace' = workspace \/ \E x \in snapshots : workspace' = x.holds
  BY <1>1, SnapshotFound
<1>7. workspace' \subseteq Edits
  BY <1>6 DEF RevertInv, RevertTyped, WellNumbered, Images
<1>8. /\ revert' \in [Sessions -> References] /\ RefsAreGood(snapshots', revert', meddled')
  <2>1. CASE revert[s].undo # 0 /\ revert[s].undo \notin Revert!Ids(snapshots)
    <3>1. revert' = [revert EXCEPT ![s] = c.holds.revert]
      BY <1>1, <2>1
    <3>2. /\ revert' \in [Sessions -> References] /\ \A t \in Sessions \ {s} : revert'[t] = revert[t]
      BY <1>4, <3>1 DEF RevertInv, RevertTyped
    <3>3. "restored" \in meddled'[s]
      <4>1. ~ HasUndo(snapshots, revert[s].undo, s)
        BY <2>1 DEF HasUndo, Revert!Ids
      <4>2. "restored" \in meddled[s]
        BY <2>1, <4>1 DEF RevertInv, RefsAreGood, RefIsGood
      <4> QED
        BY <1>3, <4>2
    <3>4. RefIsGood(snapshots', revert'[s], meddled'[s], s)
      BY <3>3 DEF RefIsGood
    <3> QED
      BY <1>2, <1>3, <3>2, <3>4 DEF RevertInv, RefsAreGood
  <2>2. CASE ~(revert[s].undo # 0 /\ revert[s].undo \notin Revert!Ids(snapshots))
    <3>1. PICK ref : ref = [revert[s] EXCEPT !.active = FALSE]
      OBVIOUS
    <3>2. revert[s] \in References /\ revert \in [Sessions -> References]
      BY DEF RevertInv, RevertTyped
    <3>3. /\ ref \in References /\ ~ref.active /\ ref.target = revert[s].target
          /\ ref.snap = revert[s].snap /\ ref.undo = revert[s].undo /\ ref.restored = revert[s].restored
      BY <3>1, <3>2 DEF References
    <3>4. revert' = [revert EXCEPT ![s] = ref]
      BY <1>1, <2>2, <3>1
    <3>5. /\ revert' \in [Sessions -> References] /\ revert'[s] = ref
          /\ \A t \in Sessions \ {s} : revert'[t] = revert[t]
      BY <3>2, <3>3, <3>4
    <3>6. RefIsGood(snapshots', revert'[s], meddled'[s], s)
      BY <1>2, <1>3, <3>3, <3>5 DEF RevertInv, RefsAreGood, RefIsGood
    <3> QED
      BY <1>2, <1>3, <3>5, <3>6 DEF RevertInv, RefsAreGood
  <2> QED
    BY <2>1, <2>2
<1>9. RevertTyped'
  BY <1>2, <1>3, <1>5, <1>7, <1>8 DEF RevertInv, RevertTyped
<1>10. RunsHold' /\ EditsKnown' /\ RunsKnow'
  <2>1. \A t \in Sessions : turn[t].pc = "running" /\ "moving" \notin meddled'[t]
            => "moving" \notin meddled[t] /\ history'[t] \subseteq history[t]
    BY <1>3, <1>5
  <2> QED
    BY <1>2, <1>6, <2>1, RunsUntouched
<1> QED
  BY <1>8, <1>9, <1>10 DEF RevertInv

LEMMA RestoreKeeps ==
  ASSUME RevertInv, NEW s \in Sessions, Revert!RestoreCheckpoint(s)
  PROVE  RevertInv'
<1>1. PICK c \in checkpoints[s] :
        /\ history' = [history EXCEPT ![s] = c.holds.history]
        /\ revert' = [revert EXCEPT ![s] = c.holds.revert]
  BY DEF Revert!RestoreCheckpoint
<1>2. /\ Revert!BringsBack(s, {"restored"})
      /\ UNCHANGED <<turns, checkpoints, snapshots, taken, leases, workspace, turn>>
  BY DEF Revert!RestoreCheckpoint
<1>3. /\ meddled' \in [Sessions -> SUBSET Deeds]
      /\ \A t \in Sessions \ {s} : meddled'[t] = meddled[t]
      /\ "restored" \in meddled'[s] /\ meddled[s] \subseteq meddled'[s]
      /\ turn[s].pc = "running" => "moving" \in meddled'[s]
  BY <1>2, DeedsNoted DEF Deeds
<1>4. c.holds.history \in SUBSET Nat /\ c.holds.revert \in References
  BY DEF RevertInv, RevertTyped, Points
<1>5. /\ history' \in [Sessions -> SUBSET Nat] /\ revert' \in [Sessions -> References]
      /\ \A t \in Sessions \ {s} : history'[t] = history[t] /\ revert'[t] = revert[t]
  BY <1>1, <1>4 DEF RevertInv, RevertTyped
<1>6. RefsAreGood(snapshots', revert', meddled')
  <2>1. RefIsGood(snapshots', revert'[s], meddled'[s], s)
    BY <1>3 DEF RefIsGood
  <2> QED
    BY <1>2, <1>3, <1>5, <2>1 DEF RevertInv, RefsAreGood
<1>7. RevertTyped'
  BY <1>2, <1>3, <1>5 DEF RevertInv, RevertTyped
<1>8. RunsHold' /\ EditsKnown' /\ RunsKnow'
  <2>1. \A t \in Sessions : turn[t].pc = "running" /\ "moving" \notin meddled'[t]
            => "moving" \notin meddled[t] /\ history'[t] \subseteq history[t]
    BY <1>3, <1>5
  <2> QED
    BY <1>2, <2>1, RunsUntouched
<1> QED
  BY <1>6, <1>7, <1>8 DEF RevertInv

LEMMA DeleteKeeps ==
  ASSUME RevertInv, NEW x \in snapshots, Revert!DeleteSnapshot(x)
  PROVE  RevertInv'
<1>1. /\ x.id \notin leases /\ snapshots' = snapshots \ {x}
      /\ revert' = Revert!Cleared(revert, {x})
      /\ meddled' = [meddled EXCEPT ![x.session] = @ \cup {"deleted"}]
      /\ UNCHANGED <<history, turns, checkpoints, taken, leases, workspace, turn>>
  BY DEF Revert!DeleteSnapshot, Revert!Becomes
<1>2. x.session \in Sessions /\ meddled \in [Sessions -> SUBSET Deeds]
  BY DEF RevertInv, RevertTyped, WellNumbered, Images
<1>3. /\ meddled' \in [Sessions -> SUBSET Deeds] /\ meddled'[x.session] = meddled[x.session] \cup {"deleted"}
      /\ \A t \in Sessions \ {x.session} : meddled'[t] = meddled[t]
  <2>1. meddled[x.session] \cup {"deleted"} \in SUBSET Deeds
    BY <1>2 DEF Deeds
  <2> QED
    BY <1>1, <1>2, <2>1
<1>4. RefsAreGood(snapshots, revert, meddled')
  BY <1>3 DEF RevertInv, RefsAreGood, RefIsGood
<1>5. /\ revert' \in [Sessions -> References] /\ RefsAreGood(snapshots', revert', meddled')
  <2>1. WellNumbered(snapshots) /\ revert \in [Sessions -> References]
    BY DEF RevertInv, RevertTyped
  <2>2. PICK gone : gone = {x}
    OBVIOUS
  <2>3. PICK med : med = meddled'
    OBVIOUS
  <2>4. /\ gone \subseteq snapshots /\ RefsAreGood(snapshots, revert, med)
        /\ \A y \in gone : /\ y.purpose = "undo" /\ revert[y.session].active /\ revert[y.session].undo = y.id
                            => "deleted" \in med[y.session]
    BY <1>3, <1>4, <2>2, <2>3
  <2>5. /\ Revert!Cleared(revert, gone) \in [Sessions -> References]
        /\ RefsAreGood(snapshots \ gone, Revert!Cleared(revert, gone), med)
    BY <2>1, <2>4, ClearGood
  <2> QED
    BY <1>1, <2>2, <2>3, <2>5
<1>6. RevertTyped'
  <2>1. WellNumbered(snapshots') /\ \A y \in snapshots' : y.id <= taken
    BY <1>1 DEF RevertInv, RevertTyped, WellNumbered
  <2> QED
    BY <1>1, <1>3, <1>5, <2>1 DEF RevertInv, RevertTyped
<1>7. RunsHold' /\ EditsKnown' /\ RunsKnow'
  <2>1. \A t \in Sessions : turn[t].pc = "running" /\ "moving" \notin meddled'[t]
            => "moving" \notin meddled[t] /\ history'[t] \subseteq history[t]
    BY <1>1, <1>3
  <2> QED
    BY <1>1, <2>1, RunsUntouched
<1> QED
  BY <1>5, <1>6, <1>7 DEF RevertInv

LEMMA RevertKeeps ==
  ASSUME RevertInv, Revert!Next
  PROVE  RevertInv'
<1>1. ASSUME NEW s \in Sessions, Revert!CreateCheckpoint(s) PROVE RevertInv'
  <2>1. Revert!Checkpointed(s) /\ UNCHANGED <<history, turns, revert, snapshots, taken, leases, workspace, turn, meddled>>
    BY <1>1 DEF Revert!CreateCheckpoint
  <2>2. RevertTyped'
    BY <2>1, CheckpointTyped DEF RevertInv, RevertTyped
  <2>3. RefsAreGood(snapshots', revert', meddled')
    BY <2>1 DEF RevertInv
  <2>4. RunsHold' /\ EditsKnown' /\ RunsKnow'
    BY <2>1, RunsUntouched
  <2> QED
    BY <2>2, <2>3, <2>4 DEF RevertInv
<1> QED
  BY <1>1, StartKeeps, TurnKeeps, FinishKeeps, FailKeeps, RevertKeepsA, RevertKeepsB, RevertKeepsC,
     UnrevertKeeps, RestoreKeeps, DeleteKeeps DEF Revert!Next

LEMMA RevertHolds == AgentSpec => []RevertInv
<1>1. AgentInit => RevertInv
  <2> SUFFICES ASSUME AgentInit PROVE RevertInv
    OBVIOUS
  <2>1. /\ history = [s \in Sessions |-> {}] /\ turns = [s \in Sessions |-> 0]
        /\ revert = [s \in Sessions |-> Revert!NoRevert]
        /\ checkpoints = [s \in Sessions |-> {}]
        /\ snapshots = {} /\ taken = 0 /\ leases = {} /\ workspace = {}
        /\ turn = [s \in Sessions |-> Revert!NoRun]
        /\ meddled = [s \in Sessions |-> {}]
    BY DEF AgentInit, Revert!Init
  <2>2. Revert!NoRevert \in References /\ Revert!NoRevert.snap = 0 /\ Revert!NoRevert.undo = 0
        /\ Revert!NoRevert.target = 0 /\ ~Revert!NoRevert.active
    BY DEF Revert!NoRevert, References
  <2>3. /\ Revert!NoRun \in [pc : {"idle", "running"}, before : SUBSET Nat, snap : Nat]
        /\ Revert!NoRun.pc = "idle"
    BY DEF Revert!NoRun
  <2>4. RevertTyped
    BY <2>1, <2>2, <2>3, FS_EmptySet DEF RevertTyped, WellNumbered
  <2>5. RefsAreGood(snapshots, revert, meddled)
    BY <2>1, <2>2 DEF RefsAreGood, RefIsGood
  <2>6. RunsHold /\ EditsKnown /\ RunsKnow
    BY <2>1, <2>3 DEF RunsHold, Revert!LeaseIsHeld, EditsKnown, RunsKnow
  <2> QED
    BY <2>4, <2>5, <2>6 DEF RevertInv
<1>2. RevertInv /\ [AgentNext]_agentVars => RevertInv'
  <2> SUFFICES ASSUME RevertInv, [AgentNext]_agentVars PROVE RevertInv'
    OBVIOUS
  <2>1. CASE Revert!Next
    BY <2>1, RevertKeeps
  <2>2. CASE UNCHANGED reverting
    <3>1. UNCHANGED <<history, turns, revert, checkpoints, snapshots, taken, leases, workspace, turn, meddled>>
      BY <2>2 DEF reverting
    <3>2. RevertTyped' /\ RefsAreGood(snapshots', revert', meddled')
      BY <3>1 DEF RevertInv, RevertTyped
    <3>3. RunsHold' /\ EditsKnown' /\ RunsKnow'
      BY <3>1 DEF RevertInv, RunsHold, Revert!LeaseIsHeld, EditsKnown, RunsKnow
    <3> QED
      BY <3>2, <3>3 DEF RevertInv
  <2> QED
    BY <2>1, <2>2 DEF AgentNext, agentVars, OnlyRuns, OnlyRevert, OnlyFiles, OnlyBackground, OnlyCompaction,
         OnlyLeader, OnlyRouting, OnlyTokens, OnlyGoverned, OnlyResponse
<1> QED
  BY <1>1, <1>2, PTL DEF AgentSpec

\* Whatever the runs of the sessions that share a workspace do, and whatever is reverted,
\* retention keeps the snapshots that a run in flight will publish, those that a session
\* refers to and the workspace that an active revert replaced.
THEOREM SnapshotsStay == AgentSpec => []SnapshotsAreKept
<1>1. RevertInv => SnapshotsAreKept
  <2> SUFFICES ASSUME RevertInv PROVE Revert!SnapshotsAreKept
    BY DEF SnapshotsAreKept
  <2>1. Revert!LeaseIsHeld /\ leases \subseteq Revert!Ids(snapshots)
    BY DEF RevertInv, RunsHold, Revert!LeaseIsHeld, HasOwn, Revert!Ids
  <2>2. Revert!ReferencesExist
    BY DEF RevertInv, RefsAreGood, RefIsGood, HasOwn, HasUndo, Revert!ReferencesExist, Revert!Ids
  <2>3. Revert!UndoIsKept
    BY DEF RevertInv, RefsAreGood, RefIsGood, Revert!UndoIsKept
  <2> QED
    BY <2>1, <2>2, <2>3 DEF Revert!SnapshotsAreKept
<1> QED
  BY <1>1, RevertHolds, PTL

\* A revert to the target that the last run of a session published leaves no edit of the
\* turns it takes out of the history, as long as nobody meddled with the snapshots, the
\* checkpoints or the target of the session and no old turns were brought back under a run.
THEOREM LastTurnsAreUndone == AgentSpec => LastTurnIsUndone
<1>1. ASSUME RevertInv, NEW s \in Sessions, Revert!Revert(s, 0), revert'[s].restored,
             revert[s].target # 0, ~revert[s].active, meddled[s] = {}
      PROVE  workspace' \cap Revert!Edits(s, Revert!Trimmed(s)) = {}
  <2>1. Revert!Target(s, 0) = revert[s].target
    BY <1>1 DEF Revert!Target
  <2>2. CASE history' = history
    BY <2>2 DEF Revert!Trimmed, Revert!Edits
  <2>3. CASE history' # history /\ revert[s].snap = 0
    <3>1. PICK ref : ref = Revert!RevertRecord(revert[s], s, revert[s].target)
      OBVIOUS
    <3>2. revert[s] \in References /\ revert \in [Sessions -> References]
      BY <1>1 DEF RevertInv, RevertTyped
    <3>3. ~ref.restored
      BY <2>3, <3>1, <3>2 DEF Revert!RevertRecord, References
    <3>4. Revert!UndoDisk(s) = [set |-> snapshots, refs |-> revert]
      BY <2>3 DEF Revert!UndoDisk, Revert!Disk
    <3>5. Revert!Recorded(s, revert[s].target) = [set |-> snapshots, refs |-> [revert EXCEPT ![s] = ref]]
      BY <3>1, <3>4 DEF Revert!Recorded
    <3>6. Revert!Becomes(Revert!Recorded(s, revert[s].target))
      BY <1>1, <2>1, <2>3 DEF Revert!Revert
    <3>7. revert' = [revert EXCEPT ![s] = ref]
      BY <3>5, <3>6 DEF Revert!Becomes
    <3> QED
      BY <1>1, <3>2, <3>3, <3>7
  <2>4. CASE history' # history /\ revert[s].snap # 0
    <3>1. /\ revert[s].snap \in Revert!Ids(snapshots)
          /\ workspace' = Revert!Snapshot(revert[s].snap).holds
          /\ history' = [history EXCEPT ![s] = {n \in @ : n < revert[s].target}]
      BY <1>1, <2>1, <2>4 DEF Revert!Revert
    <3>2. \A x \in snapshots : x.id = revert[s].snap =>
            \A e \in x.holds : e.session = s => e.turn < revert[s].target
      BY <1>1 DEF RevertInv, RefsAreGood, RefIsGood
    <3>3. \A e \in workspace' : e.session = s => e.turn < revert[s].target
      BY <3>1, <3>2, SnapshotFound
    <3>4. \A n \in Revert!Trimmed(s) : ~(n < revert[s].target)
      BY <1>1, <3>1 DEF Revert!Trimmed, RevertInv, RevertTyped
    <3>5. \A e \in Revert!Edits(s, Revert!Trimmed(s)) : e.session = s /\ e.turn \in Revert!Trimmed(s)
      BY DEF Revert!Edits
    <3> QED
      BY <3>3, <3>4, <3>5
  <2> QED
    BY <2>2, <2>3, <2>4
<1>2. RevertInv => [\A s \in Sessions :
          /\ Revert!Revert(s, 0) /\ revert'[s].restored
          /\ revert[s].target # 0 /\ ~revert[s].active /\ meddled[s] = {}
          => workspace' \cap Revert!Edits(s, Revert!Trimmed(s)) = {}]_(Revert!vars)
  BY <1>1
<1> QED
  BY <1>2, RevertHolds, PTL DEF LastTurnIsUndone, Revert!LastTurnIsUndone

\* Of the turns a session had, and of the snapshots ever taken.
RefFits(ref, had, top) ==
    ref.target <= had /\ ref.snap <= top /\ ref.undo <= top /\ ref.point <= MaxCheckpoints

PointFits(c, had, top) ==
    /\ 1 <= c.no /\ c.no <= MaxCheckpoints
    /\ c.holds.history \subseteq 1..had /\ RefFits(c.holds.revert, had, top)

RunFits(r, had, top) == r.before \subseteq 1..had /\ r.snap <= top

SessionFits(s) ==
    /\ history[s] \subseteq 1..turns[s]
    /\ RefFits(revert[s], turns[s], taken)
    /\ \A c \in checkpoints[s] : PointFits(c, turns[s], taken)
    /\ RunFits(turn[s], turns[s], taken)

SessionsFit == \A s \in Sessions : SessionFits(s)

LEMMA FitsGrow ==
  ASSUME NEW had \in Nat, NEW more \in Nat, NEW top \in Nat, NEW high \in Nat, had <= more, top <= high
  PROVE  /\ \A ref \in References : RefFits(ref, had, top) => RefFits(ref, more, high)
         /\ \A c \in Points : PointFits(c, had, top) => PointFits(c, more, high)
         /\ \A r \in [pc : {"idle", "running"}, before : SUBSET Nat, snap : Nat] :
              RunFits(r, had, top) => RunFits(r, more, high)
<1>1. MaxCheckpoints \in Nat /\ 1..had \subseteq 1..more
  BY RuntimeAssumption DEF Revert!RevertAssumption
<1>2. \A ref \in References : RefFits(ref, had, top) => RefFits(ref, more, high)
  BY <1>1 DEF RefFits, References
<1>3. \A c \in Points : c.holds.revert \in References
  BY DEF Points
<1>4. \A c \in Points : PointFits(c, had, top) => PointFits(c, more, high)
  BY <1>1, <1>2, <1>3 DEF PointFits
<1>5. \A r \in [pc : {"idle", "running"}, before : SUBSET Nat, snap : Nat] :
              RunFits(r, had, top) => RunFits(r, more, high)
  BY <1>1 DEF RunFits
<1> QED
  BY <1>2, <1>4, <1>5

\* A step that changes no more than it says.
LEMMA FitsMove ==
  ASSUME RevertInv, SessionsFit, taken' \in Nat, taken <= taken', turns' \in [Sessions -> Nat],
         \A s \in Sessions :
           /\ turns[s] <= turns'[s]
           /\ history'[s] = history[s] \/ history'[s] \subseteq 1..turns'[s]
           /\ revert'[s] = revert[s] \/ RefFits(revert'[s], turns'[s], taken')
           /\ \A c \in checkpoints'[s] : c \in checkpoints[s] \/ PointFits(c, turns'[s], taken')
           /\ turn'[s] = turn[s] \/ RunFits(turn'[s], turns'[s], taken')
  PROVE  SessionsFit'
<1> SUFFICES ASSUME NEW s \in Sessions PROVE SessionFits(s)'
  BY DEF SessionsFit
<1>1. /\ turns[s] \in Nat /\ turns'[s] \in Nat /\ taken \in Nat /\ revert[s] \in References
      /\ checkpoints[s] \subseteq Points
      /\ turn[s] \in [pc : {"idle", "running"}, before : SUBSET Nat, snap : Nat]
  BY DEF RevertInv, RevertTyped
<1>2. SessionFits(s)
  BY DEF SessionsFit
<1>3. /\ \A ref \in References : RefFits(ref, turns[s], taken) => RefFits(ref, turns'[s], taken')
      /\ \A c \in Points : PointFits(c, turns[s], taken) => PointFits(c, turns'[s], taken')
      /\ \A r \in [pc : {"idle", "running"}, before : SUBSET Nat, snap : Nat] :
              RunFits(r, turns[s], taken) => RunFits(r, turns'[s], taken')
  BY <1>1, FitsGrow
<1>4. history'[s] \subseteq 1..turns'[s]
  <2>1. 1..turns[s] \subseteq 1..turns'[s]
    BY <1>1
  <2> QED
    BY <1>2, <2>1 DEF SessionFits
<1>5. RefFits(revert'[s], turns'[s], taken')
  BY <1>1, <1>2, <1>3 DEF SessionFits
<1>6. ASSUME NEW c \in checkpoints'[s] PROVE PointFits(c, turns'[s], taken')
  BY <1>1, <1>2, <1>3 DEF SessionFits
<1>7. RunFits(turn'[s], turns'[s], taken')
  BY <1>1, <1>2, <1>3 DEF SessionFits
<1> QED
  BY <1>4, <1>5, <1>6, <1>7 DEF SessionFits

\* Pruning clears references, and makes none.
LEMMA ClearedFits ==
  ASSUME NEW refs \in [Sessions -> References], NEW gone, gone \subseteq Images, NEW s \in Sessions,
         NEW had \in Nat, NEW top \in Nat, RefFits(refs[s], had, top)
  PROVE  RefFits(Revert!Cleared(refs, gone)[s], had, top)
<1>1. PICK new : new = Revert!Cleared(refs, gone)[s]
  OBVIOUS
<1>2. /\ new.target = refs[s].target /\ new.point = refs[s].point
      /\ new.snap \in {0, refs[s].snap} /\ new.undo \in {0, refs[s].undo}
  BY <1>1, ClearedRefs
<1> QED
  BY <1>1, <1>2 DEF RefFits

LEMMA PrunedFits ==
  ASSUME NEW disk, disk.set \subseteq Images, disk.refs \in [Sessions -> References], NEW protected,
         NEW s \in Sessions, NEW had \in Nat, NEW top \in Nat, RefFits(disk.refs[s], had, top)
  PROVE  /\ Revert!Pruned(disk, protected).refs \in [Sessions -> References]
         /\ Revert!Pruned(disk, protected).set \subseteq disk.set
         /\ RefFits(Revert!Pruned(disk, protected).refs[s], had, top)
<1> DEFINE free == Revert!FreeSnapshots(disk, protected)
           gone == {x \in free : Revert!Cardinality({y \in free : y.id <= x.id}) + Cap
                                   <= Revert!Cardinality(disk.set)}
<1>1. Revert!Pruned(disk, protected) = [set |-> disk.set \ gone, refs |-> Revert!Cleared(disk.refs, gone)]
  BY DEF Revert!Pruned
<1>2. gone \subseteq Images
  BY DEF Revert!FreeSnapshots
<1> HIDE DEF gone
<1>3. RefFits(Revert!Cleared(disk.refs, gone)[s], had, top)
  BY <1>2, ClearedFits
<1>4. Revert!Cleared(disk.refs, gone) \in [Sessions -> References]
  BY <1>2, ClearedRefs
<1> QED
  BY <1>1, <1>3, <1>4

\* What is so of every session of a state.
LEMMA FitFacts ==
  ASSUME RevertInv, SessionsFit, NEW s \in Sessions
  PROVE  /\ turns \in [Sessions -> Nat] /\ turns[s] \in Nat /\ taken \in Nat
         /\ revert \in [Sessions -> References] /\ revert[s] \in References
         /\ history \in [Sessions -> SUBSET Nat] /\ history[s] \subseteq 1..turns[s]
         /\ RefFits(revert[s], turns[s], taken) /\ RunFits(turn[s], turns[s], taken)
         /\ checkpoints \in [Sessions -> SUBSET Points]
         /\ \A c \in checkpoints[s] : PointFits(c, turns[s], taken)
         /\ turn \in [Sessions -> [pc : {"idle", "running"}, before : SUBSET Nat, snap : Nat]]
         /\ snapshots \subseteq Images
<1>1. SessionFits(s)
  BY DEF SessionsFit
<1> QED
  BY <1>1 DEF SessionFits, RevertInv, RevertTyped, WellNumbered

\* What a checkpoint holds.
LEMMA CheckpointFits ==
  ASSUME RevertInv, SessionsFit, NEW s \in Sessions, Revert!Checkpointed(s),
         NEW t \in Sessions, NEW c \in checkpoints'[t]
  PROVE  c \in checkpoints[t] \/ PointFits(c, turns[t], taken)
<1>1. checkpoints \in [Sessions -> SUBSET Points] /\ \A u \in Sessions : IsFiniteSet(checkpoints[u])
  BY DEF RevertInv, RevertTyped
<1>2. PICK new : new = [no |-> Revert!Numbered(s), holds |-> Revert!Saved(s)]
  OBVIOUS
<1>3. /\ Revert!Numbered(s) <= MaxCheckpoints
      /\ checkpoints' = [checkpoints EXCEPT ![s] = @ \cup {new}]
  BY <1>2 DEF Revert!Checkpointed
<1>4. c \in checkpoints[t] \/ (t = s /\ c = new)
  BY <1>1, <1>3
<1>5. 1 <= Revert!Numbered(s)
  <2>1. Revert!Cardinality(checkpoints[s]) = Cardinality(checkpoints[s])
    BY DEF Revert!Cardinality, Cardinality
  <2>2. Cardinality(checkpoints[s]) \in Nat
    BY <1>1, FS_CardinalityType
  <2> QED
    BY <2>1, <2>2 DEF Revert!Numbered
<1>6. /\ new.no = Revert!Numbered(s) /\ new.holds.history = history[s] /\ new.holds.revert = revert[s]
  BY <1>2 DEF Revert!Saved
<1>7. PointFits(new, turns[s], taken)
  BY <1>3, <1>5, <1>6, FitFacts DEF PointFits
<1> QED
  BY <1>4, <1>7

LEMMA StartFits ==
  ASSUME RevertInv, SessionsFit, NEW s \in Sessions, Revert!StartRun(s)
  PROVE  SessionsFit'
<1>1. /\ taken' = taken + 1
      /\ turn' = [turn EXCEPT ![s] = [pc |-> "running", before |-> history[s], snap |-> taken + 1]]
      /\ UNCHANGED <<history, turns, checkpoints>>
      /\ Revert!Becomes(Revert!Taken(Revert!Disk, s, "target", leases))
  BY DEF Revert!StartRun
<1>2. PICK disk : disk = [set |-> snapshots \cup {Image(s, "target")}, refs |-> revert]
  OBVIOUS
<1>3. PICK protected : protected = leases \cup {taken + 1}
  OBVIOUS
<1>4. revert' = Revert!Pruned(disk, protected).refs
  <2>1. Revert!Taken(Revert!Disk, s, "target", leases) = Revert!Pruned(disk, protected)
    BY <1>2, <1>3, ImageAdded
  <2> QED
    BY <1>1, <2>1 DEF Revert!Becomes
<1>5. disk.set \subseteq Images /\ disk.refs = revert
  BY <1>2, ImageAdded DEF WellNumbered
<1> SUFFICES ASSUME NEW t \in Sessions
             PROVE  /\ RefFits(revert'[t], turns'[t], taken')
                    /\ turn'[t] = turn[t] \/ RunFits(turn'[t], turns'[t], taken')
  <2>1. taken \in Nat /\ turns \in [Sessions -> Nat]
    BY DEF RevertInv, RevertTyped
  <2> QED
    BY <1>1, <2>1, FitsMove
<1>6. /\ turns[t] \in Nat /\ taken \in Nat /\ revert[t] \in References /\ revert \in [Sessions -> References]
      /\ RefFits(revert[t], turns[t], taken)
      /\ turn \in [Sessions -> [pc : {"idle", "running"}, before : SUBSET Nat, snap : Nat]]
      /\ history[t] \subseteq 1..turns[t]
  BY FitFacts
<1>7. RefFits(revert[t], turns[t], taken + 1)
  BY <1>6, FitsGrow
<1>8. RefFits(revert'[t], turns[t], taken + 1)
  BY <1>4, <1>5, <1>6, <1>7, PrunedFits
<1>9. CASE t = s
  <2>1. turn'[t].before = history[t] /\ turn'[t].snap = taken + 1
    BY <1>1, <1>6, <1>9
  <2> QED
    BY <1>1, <1>6, <1>8, <2>1 DEF RunFits
<1>10. CASE t # s
  BY <1>1, <1>6, <1>8, <1>10
<1> QED
  BY <1>9, <1>10

LEMMA TurnFits ==
  ASSUME RevertInv, SessionsFit, NEW s \in Sessions, Revert!Turn(s)
  PROVE  SessionsFit'
<1>1. /\ turns' = [turns EXCEPT ![s] = @ + 1]
      /\ history' = [history EXCEPT ![s] = @ \cup {turns[s] + 1}]
      /\ UNCHANGED <<revert, checkpoints, taken, turn>>
  BY DEF Revert!Turn
<1>2. /\ turns \in [Sessions -> Nat] /\ history \in [Sessions -> SUBSET Nat] /\ taken \in Nat
      /\ turns[s] \in Nat /\ history[s] \subseteq 1..turns[s]
  BY FitFacts
<1>3. /\ turns' \in [Sessions -> Nat] /\ turns'[s] = turns[s] + 1
      /\ \A t \in Sessions \ {s} : turns'[t] = turns[t] /\ history'[t] = history[t]
      /\ history'[s] = history[s] \cup {turns[s] + 1}
  BY <1>1, <1>2
<1>4. history'[s] \subseteq 1..turns'[s]
  BY <1>2, <1>3
<1>5. \A t \in Sessions : turns[t] <= turns'[t] /\ (history'[t] = history[t] \/ history'[t] \subseteq 1..turns'[t])
  BY <1>2, <1>3, <1>4
<1> QED
  BY <1>1, <1>2, <1>3, <1>5, FitsMove

\* A run that ended.
LEMMA NoRunFits ==
  ASSUME NEW had \in Nat, NEW top \in Nat PROVE RunFits(Revert!NoRun, had, top)
BY DEF RunFits, Revert!NoRun

LEMMA FinishFits ==
  ASSUME RevertInv, SessionsFit, NEW s \in Sessions, Revert!FinishRun(s)
  PROVE  SessionsFit'
<1>1. PICK ref : ref = [Revert!NoRevert EXCEPT !.target = Revert!FirstNew(s), !.snap = turn[s].snap]
  OBVIOUS
<1>2. PICK disk : disk = [set |-> snapshots, refs |-> [revert EXCEPT ![s] = ref]]
  OBVIOUS
<1>3. PICK protected : protected = leases \ {turn[s].snap}
  OBVIOUS
<1>4. /\ revert' = Revert!Pruned(disk, protected).refs
      /\ turn' = [turn EXCEPT ![s] = Revert!NoRun]
      /\ UNCHANGED <<history, turns, checkpoints, taken>>
  <2>1. [Revert!Disk EXCEPT !.refs[s] = ref] = disk
    BY <1>2 DEF Revert!Disk
  <2> QED
    BY <1>1, <1>3, <2>1 DEF Revert!FinishRun, Revert!Becomes, Revert!Published
<1>5. /\ turns[s] \in Nat /\ taken \in Nat /\ history[s] \subseteq 1..turns[s] /\ RunFits(turn[s], turns[s], taken)
      /\ revert \in [Sessions -> References] /\ turns \in [Sessions -> Nat]
      /\ turn \in [Sessions -> [pc : {"idle", "running"}, before : SUBSET Nat, snap : Nat]]
      /\ snapshots \subseteq Images
  BY FitFacts
<1>6. Revert!FirstNew(s) \in 0..turns[s]
  <2> DEFINE new == history[s] \ turn[s].before
  <2>1. new \subseteq Nat /\ new \subseteq 1..turns[s]
    BY <1>5
  <2>2. Revert!FirstNew(s) = IF new = {} THEN 0 ELSE Revert!Min(new)
    BY DEF Revert!FirstNew
  <2> HIDE DEF new
  <2>3. new # {} => Revert!Min(new) \in new
    BY <2>1, LeastOf
  <2>4. \A k \in 1..turns[s] : k \in 0..turns[s]
    BY <1>5
  <2>5. 0 \in 0..turns[s]
    BY <1>5
  <2> QED
    BY <2>1, <2>2, <2>3, <2>4, <2>5
<1>7. ref \in References /\ RefFits(ref, turns[s], taken)
  <2>1. MaxCheckpoints \in Nat
    BY RuntimeAssumption DEF Revert!RevertAssumption
  <2>2. turn[s].snap \in Nat /\ turn[s].snap <= taken
    BY <1>5 DEF RunFits
  <2>3. Revert!FirstNew(s) \in Nat
    BY <1>5, <1>6
  <2>4. Revert!NoRevert \in References /\ Revert!NoRevert.undo = 0 /\ Revert!NoRevert.point = 0
    BY DEF Revert!NoRevert, References
  <2>5. /\ ref.target = Revert!FirstNew(s) /\ ref.snap = turn[s].snap /\ ref.undo = 0 /\ ref.point = 0
        /\ ref \in References
    BY <1>1, <2>2, <2>3, <2>4 DEF References
  <2> QED
    BY <1>5, <1>6, <2>1, <2>2, <2>5 DEF RefFits
<1>8. /\ disk.set \subseteq Images /\ disk.refs \in [Sessions -> References]
      /\ disk.refs = [revert EXCEPT ![s] = ref]
  BY <1>2, <1>5, <1>7
<1> SUFFICES ASSUME NEW t \in Sessions
             PROVE  /\ RefFits(revert'[t], turns'[t], taken')
                    /\ turn'[t] = turn[t] \/ RunFits(turn'[t], turns'[t], taken')
  BY <1>4, <1>5, FitsMove
<1>9. /\ turns[t] \in Nat /\ RefFits(revert[t], turns[t], taken)
  BY FitFacts
<1>10. RefFits(disk.refs[t], turns[t], taken)
  <2>1. disk.refs[t] = IF t = s THEN ref ELSE revert[t]
    BY <1>5, <1>8
  <2> QED
    BY <1>7, <1>9, <2>1
<1>11. RefFits(revert'[t], turns[t], taken)
  BY <1>4, <1>5, <1>8, <1>9, <1>10, PrunedFits
<1>12. turn'[t] = turn[t] \/ turn'[t] = Revert!NoRun
  BY <1>4, <1>5
<1> QED
  BY <1>4, <1>5, <1>9, <1>11, <1>12, NoRunFits

LEMMA FailFits ==
  ASSUME RevertInv, SessionsFit, NEW s \in Sessions, Revert!FailRun(s)
  PROVE  SessionsFit'
<1>1. PICK disk : disk = Revert!Disk
  OBVIOUS
<1>2. PICK protected : protected = leases \ {turn[s].snap}
  OBVIOUS
<1>3. /\ revert' = Revert!Pruned(disk, protected).refs
      /\ turn' = [turn EXCEPT ![s] = Revert!NoRun]
      /\ UNCHANGED <<history, turns, checkpoints, taken>>
  BY <1>1, <1>2 DEF Revert!FailRun, Revert!Becomes, Revert!Released
<1>4. disk.set = snapshots /\ disk.refs = revert
  BY <1>1 DEF Revert!Disk
<1>5. taken \in Nat /\ turns \in [Sessions -> Nat]
  BY DEF RevertInv, RevertTyped
<1> SUFFICES ASSUME NEW t \in Sessions
             PROVE  /\ RefFits(revert'[t], turns'[t], taken')
                    /\ turn'[t] = turn[t] \/ RunFits(turn'[t], turns'[t], taken')
  BY <1>3, <1>5, FitsMove
<1>6. /\ turns[t] \in Nat /\ RefFits(revert[t], turns[t], taken) /\ snapshots \subseteq Images
      /\ revert \in [Sessions -> References]
      /\ turn \in [Sessions -> [pc : {"idle", "running"}, before : SUBSET Nat, snap : Nat]]
  BY FitFacts
<1>7. RefFits(revert'[t], turns[t], taken)
  BY <1>3, <1>4, <1>5, <1>6, PrunedFits
<1>8. turn'[t] = turn[t] \/ turn'[t] = Revert!NoRun
  BY <1>3, <1>6
<1> QED
  BY <1>3, <1>5, <1>6, <1>7, <1>8, NoRunFits

\* A revert that leaves the snapshots alone.
LEMMA RevertFitsA ==
  ASSUME RevertInv, SessionsFit, NEW s \in Sessions, NEW named \in {0} \cup history[s], Revert!Revert(s, named),
         revert[s].snap # 0, revert[s].snap \notin Revert!Ids(snapshots)
  PROVE  SessionsFit'
<1>1. Revert!Checkpointed(s) /\ UNCHANGED <<history, revert, taken, turns, turn>>
  BY DEF Revert!Revert
<1>2. taken \in Nat /\ turns \in [Sessions -> Nat]
  BY DEF RevertInv, RevertTyped
<1>3. \A t \in Sessions : \A c \in checkpoints'[t] : c \in checkpoints[t] \/ PointFits(c, turns[t], taken)
  BY <1>1, CheckpointFits
<1> QED
  BY <1>1, <1>2, <1>3, FitsMove

\* The record of a revert.
LEMMA RecordFits ==
  ASSUME RevertInv, SessionsFit, NEW s \in Sessions, Revert!Checkpointed(s), NEW target \in history[s],
         NEW ref \in References, NEW top \in Nat, taken <= top, revert[s].snap # 0 => taken + 1 <= top
  PROVE  /\ Revert!RevertRecord(ref, s, target) \in References
         /\ RefFits(Revert!RevertRecord(ref, s, target), turns[s], top)
<1>1. PICK snap : snap = revert[s].snap
  OBVIOUS
<1>2. PICK undo : undo = IF snap = 0 THEN 0 ELSE taken + 1
  OBVIOUS
<1>3. PICK new : new = Revert!RevertRecord(ref, s, target)
  OBVIOUS
<1>4. new = [ref EXCEPT !.active = TRUE, !.target = target, !.snap = snap, !.undo = undo,
                        !.point = Revert!Numbered(s), !.restored = snap # 0]
  BY <1>1, <1>2, <1>3 DEF Revert!RevertRecord
<1>5. /\ turns[s] \in Nat /\ taken \in Nat /\ target \in 1..turns[s] /\ target \in Nat
      /\ snap \in Nat /\ snap <= taken
  BY <1>1, FitFacts DEF RefFits, References
<1>6. undo \in Nat /\ undo <= top
  BY <1>1, <1>2, <1>5
<1>7. Revert!Numbered(s) \in Nat /\ Revert!Numbered(s) <= MaxCheckpoints
  BY CheckpointTyped DEF Revert!Checkpointed
<1>8. (snap # 0) \in BOOLEAN
  OBVIOUS
<1>9. /\ new \in References
      /\ new.target = target /\ new.snap = snap /\ new.undo = undo /\ new.point = Revert!Numbered(s)
  BY <1>4, <1>5, <1>6, <1>7, <1>8 DEF References
<1>10. RefFits(new, turns[s], top)
  BY <1>5, <1>6, <1>7, <1>9 DEF RefFits
<1> QED
  BY <1>3, <1>9, <1>10

\* What is left of a history.
LEMMA LessFits ==
  ASSUME RevertInv, SessionsFit, NEW s \in Sessions, NEW target,
         history' = [history EXCEPT ![s] = {n \in @ : n < target}]
  PROVE  \A t \in Sessions : history'[t] \subseteq 1..turns[t]
<1> SUFFICES ASSUME NEW t \in Sessions PROVE history'[t] \subseteq 1..turns[t]
  OBVIOUS
<1>1. history \in [Sessions -> SUBSET Nat] /\ history[t] \subseteq 1..turns[t]
  BY FitFacts
<1>2. history'[t] \subseteq history[t]
  BY <1>1
<1> QED
  BY <1>1, <1>2

LEMMA RevertFitsB ==
  ASSUME RevertInv, SessionsFit, NEW s \in Sessions, NEW named \in {0} \cup history[s], Revert!Revert(s, named),
         revert[s].snap = 0
  PROVE  SessionsFit'
<1>1. PICK target : target = Revert!Target(s, named)
  OBVIOUS
<1>2. PICK ref : ref = Revert!RevertRecord(revert[s], s, target)
  OBVIOUS
<1>3. /\ target \in history[s] /\ Revert!Checkpointed(s)
      /\ history' = [history EXCEPT ![s] = {n \in @ : n < target}]
      /\ UNCHANGED <<turns, turn, taken>>
  BY <1>1 DEF Revert!Revert
<1>4. revert' = [revert EXCEPT ![s] = ref]
  <2>1. Revert!UndoDisk(s) = [set |-> snapshots, refs |-> revert]
    BY DEF Revert!UndoDisk, Revert!Disk
  <2>2. Revert!Recorded(s, target) = [set |-> snapshots, refs |-> [revert EXCEPT ![s] = ref]]
    BY <1>2, <2>1 DEF Revert!Recorded
  <2>3. Revert!Becomes(Revert!Recorded(s, target))
    BY <1>1 DEF Revert!Revert
  <2> QED
    BY <2>2, <2>3 DEF Revert!Becomes
<1>5. /\ taken \in Nat /\ turns \in [Sessions -> Nat] /\ revert \in [Sessions -> References]
      /\ revert[s] \in References
  BY FitFacts
<1>6. RefFits(ref, turns[s], taken)
  BY <1>2, <1>3, <1>5, RecordFits
<1>7. \A t \in Sessions : revert'[t] = revert[t] \/ RefFits(revert'[t], turns[t], taken)
  BY <1>4, <1>5, <1>6
<1>8. \A t \in Sessions : \A c \in checkpoints'[t] : c \in checkpoints[t] \/ PointFits(c, turns[t], taken)
  BY <1>3, CheckpointFits
<1>9. \A t \in Sessions : history'[t] \subseteq 1..turns[t]
  BY <1>3, LessFits
<1> QED
  BY <1>3, <1>5, <1>7, <1>8, <1>9, FitsMove

LEMMA RevertFitsC ==
  ASSUME RevertInv, SessionsFit, NEW s \in Sessions, NEW named \in {0} \cup history[s], Revert!Revert(s, named),
         revert[s].snap # 0, revert[s].snap \in Revert!Ids(snapshots)
  PROVE  SessionsFit'
<1>1. PICK target \in Nat : \E mid, pruned :
           /\ target \in history[s] /\ target = Revert!Target(s, named)
           /\ mid = Revert!Pruned([set |-> snapshots \cup {Image(s, "undo")}, refs |-> revert],
                                  (leases \cup {revert[s].snap}) \cup {taken + 1})
           /\ pruned = Revert!Pruned([set |-> mid.set, refs |-> [mid.refs EXCEPT
                            ![s] = Revert!RevertRecord(mid.refs[s], s, target)]], leases)
           /\ snapshots' = pruned.set /\ revert' = pruned.refs /\ taken' = taken + 1
           /\ workspace' = Revert!Snapshot(revert[s].snap).holds
           /\ history' = [history EXCEPT ![s] = {n \in @ : n < target}]
           /\ Revert!Checkpointed(s) /\ UNCHANGED <<turns, leases, turn>>
  BY Restores
<1>2. PICK mid, pruned :
           /\ mid = Revert!Pruned([set |-> snapshots \cup {Image(s, "undo")}, refs |-> revert],
                                  (leases \cup {revert[s].snap}) \cup {taken + 1})
           /\ pruned = Revert!Pruned([set |-> mid.set, refs |-> [mid.refs EXCEPT
                            ![s] = Revert!RevertRecord(mid.refs[s], s, target)]], leases)
           /\ revert' = pruned.refs /\ taken' = taken + 1
           /\ history' = [history EXCEPT ![s] = {n \in @ : n < target}]
           /\ target \in history[s] /\ Revert!Checkpointed(s) /\ UNCHANGED <<turns, leases, turn>>
  BY <1>1
<1>3. PICK disk : disk = [set |-> snapshots \cup {Image(s, "undo")}, refs |-> revert]
  OBVIOUS
<1>4. PICK protected : protected = (leases \cup {revert[s].snap}) \cup {taken + 1}
  OBVIOUS
<1>5. /\ mid = Revert!Pruned(disk, protected)
      /\ disk.set \subseteq Images /\ disk.refs = revert
  BY <1>2, <1>3, <1>4, ImageAdded DEF WellNumbered
<1>6. /\ taken \in Nat /\ taken + 1 \in Nat /\ turns \in [Sessions -> Nat] /\ revert \in [Sessions -> References]
      /\ snapshots \subseteq Images
  BY FitFacts
<1>7. ASSUME NEW t \in Sessions
      PROVE  /\ mid.refs \in [Sessions -> References] /\ mid.set \subseteq Images
             /\ RefFits(mid.refs[t], turns[t], taken + 1)
  <2>1. turns[t] \in Nat /\ revert[t] \in References /\ RefFits(revert[t], turns[t], taken)
    BY FitFacts
  <2>2. RefFits(disk.refs[t], turns[t], taken + 1)
    BY <1>5, <1>6, <2>1, FitsGrow
  <2>3. /\ mid.refs \in [Sessions -> References] /\ mid.set \subseteq disk.set
        /\ RefFits(mid.refs[t], turns[t], taken + 1)
    BY <1>5, <1>6, <2>1, <2>2, PrunedFits
  <2> QED
    BY <1>5, <2>3
<1>8. PICK ref : ref = Revert!RevertRecord(mid.refs[s], s, target)
  OBVIOUS
<1>9. ref \in References /\ RefFits(ref, turns[s], taken + 1)
  <2>1. mid.refs[s] \in References
    BY <1>7
  <2> QED
    BY <1>2, <1>6, <1>8, <2>1, RecordFits
<1>10. PICK last : last = [set |-> mid.set, refs |-> [mid.refs EXCEPT ![s] = ref]]
  OBVIOUS
<1>11. /\ last.set \subseteq Images /\ last.refs \in [Sessions -> References]
       /\ last.refs = [mid.refs EXCEPT ![s] = ref]
  BY <1>7, <1>9, <1>10
<1>12. pruned = Revert!Pruned(last, leases)
  BY SMTT(40), <1>2, <1>8, <1>10
<1>13. ASSUME NEW t \in Sessions PROVE RefFits(revert'[t], turns[t], taken + 1)
  <2>1. last.refs[t] = IF t = s THEN ref ELSE mid.refs[t]
    BY <1>7, <1>11
  <2>2. RefFits(last.refs[t], turns[t], taken + 1)
    BY <1>7, <1>9, <2>1
  <2>3. turns[t] \in Nat
    BY <1>6
  <2>4. last.set \subseteq Images /\ last.refs \in [Sessions -> References] /\ taken + 1 \in Nat
    BY <1>6, <1>11
  <2>5. RefFits(Revert!Pruned(last, leases).refs[t], turns[t], taken + 1)
    BY <2>2, <2>3, <2>4, PrunedFits
  <2> QED
    BY <1>2, <1>12, <2>5
<1>14. ASSUME NEW t \in Sessions, NEW c \in checkpoints'[t]
       PROVE  c \in checkpoints[t] \/ PointFits(c, turns[t], taken + 1)
  <2>1. c \in checkpoints[t] \/ PointFits(c, turns[t], taken)
    BY <1>2, CheckpointFits
  <2>2. c \in Points
    BY <1>2, CheckpointTyped
  <2>3. turns[t] \in Nat
    BY <1>6
  <2> QED
    BY <1>6, <2>1, <2>2, <2>3, FitsGrow
<1>15. \A t \in Sessions : history'[t] \subseteq 1..turns[t]
  BY <1>2, LessFits
<1>16. /\ taken' = taken + 1 /\ taken' \in Nat /\ taken <= taken' /\ turns' = turns
       /\ turn' = turn /\ \A t \in Sessions : turns[t] <= turns[t]
  BY <1>2, <1>6
<1> QED
  BY <1>6, <1>13, <1>14, <1>15, <1>16, FitsMove

LEMMA UnrevertFits ==
  ASSUME RevertInv, SessionsFit, NEW s \in Sessions, Revert!Unrevert(s)
  PROVE  SessionsFit'
<1>1. PICK c \in checkpoints[s] :
        /\ history' = [history EXCEPT ![s] = c.holds.history]
        /\ revert' = [revert EXCEPT ![s] = c.holds.revert] \/ revert' = [revert EXCEPT ![s].active = FALSE]
  BY DEF Revert!Unrevert
<1>2. UNCHANGED <<turns, checkpoints, taken, turn>>
  BY DEF Revert!Unrevert
<1>3. /\ taken \in Nat /\ turns \in [Sessions -> Nat] /\ revert \in [Sessions -> References]
      /\ history \in [Sessions -> SUBSET Nat] /\ revert[s] \in References
      /\ RefFits(revert[s], turns[s], taken) /\ PointFits(c, turns[s], taken)
  BY FitFacts
<1>4. PICK off : off = [revert[s] EXCEPT !.active = FALSE]
  OBVIOUS
<1>5. RefFits(off, turns[s], taken)
  <2>1. off.target = revert[s].target /\ off.snap = revert[s].snap /\ off.undo = revert[s].undo
        /\ off.point = revert[s].point
    BY <1>3, <1>4 DEF References
  <2> QED
    BY <1>3, <2>1 DEF RefFits
<1>6. c.holds.history \subseteq 1..turns[s] /\ RefFits(c.holds.revert, turns[s], taken)
  BY <1>3 DEF PointFits
<1>7. \A t \in Sessions : history'[t] = history[t] \/ history'[t] \subseteq 1..turns[t]
  BY <1>1, <1>3, <1>6
<1>8. \A t \in Sessions : revert'[t] = revert[t] \/ RefFits(revert'[t], turns[t], taken)
  <2>1. revert' = [revert EXCEPT ![s] = c.holds.revert] \/ revert' = [revert EXCEPT ![s] = off]
    BY <1>1, <1>4
  <2> QED
    BY <1>3, <1>5, <1>6, <2>1
<1> QED
  BY <1>2, <1>3, <1>7, <1>8, FitsMove

LEMMA RestoreFits ==
  ASSUME RevertInv, SessionsFit, NEW s \in Sessions, Revert!RestoreCheckpoint(s)
  PROVE  SessionsFit'
<1>1. PICK c \in checkpoints[s] :
        /\ history' = [history EXCEPT ![s] = c.holds.history]
        /\ revert' = [revert EXCEPT ![s] = c.holds.revert]
  BY DEF Revert!RestoreCheckpoint
<1>2. UNCHANGED <<turns, checkpoints, taken, turn>>
  BY DEF Revert!RestoreCheckpoint
<1>3. /\ taken \in Nat /\ turns \in [Sessions -> Nat] /\ revert \in [Sessions -> References]
      /\ history \in [Sessions -> SUBSET Nat] /\ PointFits(c, turns[s], taken)
  BY FitFacts
<1>4. c.holds.history \subseteq 1..turns[s] /\ RefFits(c.holds.revert, turns[s], taken)
  BY <1>3 DEF PointFits
<1>5. \A t \in Sessions : /\ history'[t] = history[t] \/ history'[t] \subseteq 1..turns[t]
                          /\ revert'[t] = revert[t] \/ RefFits(revert'[t], turns[t], taken)
  BY <1>1, <1>3, <1>4
<1> QED
  BY <1>2, <1>3, <1>5, FitsMove

LEMMA DeleteFits ==
  ASSUME RevertInv, SessionsFit, NEW x \in snapshots, Revert!DeleteSnapshot(x)
  PROVE  SessionsFit'
<1>1. revert' = Revert!Cleared(revert, {x}) /\ UNCHANGED <<history, turns, checkpoints, taken, turn>>
  BY DEF Revert!DeleteSnapshot, Revert!Becomes
<1>2. PICK gone : gone = {x}
  OBVIOUS
<1>3. gone \subseteq Images /\ taken \in Nat /\ turns \in [Sessions -> Nat]
  BY <1>2 DEF RevertInv, RevertTyped, WellNumbered
<1>4. ASSUME NEW t \in Sessions PROVE RefFits(revert'[t], turns[t], taken)
  <2>1. turns[t] \in Nat /\ RefFits(revert[t], turns[t], taken) /\ revert \in [Sessions -> References]
    BY FitFacts
  <2>2. RefFits(Revert!Cleared(revert, gone)[t], turns[t], taken)
    BY <1>3, <2>1, ClearedFits
  <2> QED
    BY <1>1, <1>2, <2>2
<1> QED
  BY <1>1, <1>3, <1>4, FitsMove

LEMMA RevertStaysFit ==
  ASSUME RevertInv, SessionsFit, Revert!Next
  PROVE  SessionsFit'
<1>1. ASSUME NEW s \in Sessions, Revert!CreateCheckpoint(s) PROVE SessionsFit'
  <2>1. Revert!Checkpointed(s) /\ UNCHANGED <<history, turns, revert, taken, turn>>
    BY <1>1 DEF Revert!CreateCheckpoint
  <2>2. taken \in Nat /\ turns \in [Sessions -> Nat]
    BY DEF RevertInv, RevertTyped
  <2>3. \A t \in Sessions : \A c \in checkpoints'[t] : c \in checkpoints[t] \/ PointFits(c, turns[t], taken)
    BY <2>1, CheckpointFits
  <2> QED
    BY <2>1, <2>2, <2>3, FitsMove
<1> QED
  BY <1>1, StartFits, TurnFits, FinishFits, FailFits, RevertFitsA, RevertFitsB, RevertFitsC,
     UnrevertFits, RestoreFits, DeleteFits DEF Revert!Next

\* A snapshot has an id of its own.
LEMMA IdsAreOwn == ASSUME RevertInv PROVE Revert!Cardinality(Revert!Ids(snapshots)) = Revert!Cardinality(snapshots)
<1> DEFINE numbers == Revert!Ids(snapshots)
           name == [id \in numbers |-> CHOOSE x \in snapshots : x.id = id]
<1>1. /\ taken \in Nat /\ \A x \in snapshots : x.id \in Nat /\ x.id <= taken
      /\ \A x, y \in snapshots : x.id = y.id => x = y
  BY DEF RevertInv, RevertTyped, WellNumbered, Images
<1>2. \A id : id \in numbers <=> \E x \in snapshots : x.id = id
  BY DEF Revert!Ids
<1> HIDE DEF numbers
<1>3. IsFiniteSet(numbers)
  <2>1. numbers \in SUBSET Nat /\ \A k \in numbers : k <= taken
    BY <1>1, <1>2
  <2> QED
    BY <1>1, <2>1, FS_BoundedSetOfNaturals
<1>4. \A id \in numbers : name[id] \in snapshots /\ name[id].id = id
  BY <1>2
<1> HIDE DEF name
<1>5. name \in [numbers -> snapshots]
  BY <1>4 DEF name
<1>6. name \in Bijection(numbers, snapshots)
  <2>1. \A a, b \in numbers : name[a] = name[b] => a = b
    BY <1>4
  <2>2. \A x \in snapshots : \E id \in numbers : name[id] = x
    BY <1>1, <1>2, <1>4
  <2> QED
    BY <1>5, <2>1, <2>2 DEF Bijection, Injection, Surjection, IsInjective
<1>7. Cardinality(snapshots) = Cardinality(numbers)
  BY <1>3, <1>6, FS_Bijection DEF ExistsBijection
<1>8. \A S : Revert!Cardinality(S) = Cardinality(S)
  BY DEF Revert!Cardinality, Cardinality
<1> QED
  BY <1>7, <1>8 DEF numbers

\* The reverts keep their types.
LEMMA RevertTypes == AgentSpec => []Revert!TypeOK
<1>1. AgentInit => SessionsFit
  <2> SUFFICES ASSUME AgentInit, NEW s \in Sessions PROVE SessionFits(s)
    BY DEF SessionsFit
  <2>1. /\ history[s] = {} /\ turns[s] = 0 /\ revert[s] = Revert!NoRevert /\ checkpoints[s] = {}
        /\ taken = 0 /\ turn[s] = Revert!NoRun
    BY DEF AgentInit, Revert!Init
  <2>2. RefFits(Revert!NoRevert, 0, 0)
    <3>1. MaxCheckpoints \in Nat
      BY RuntimeAssumption DEF Revert!RevertAssumption
    <3> QED
      BY <3>1 DEF RefFits, Revert!NoRevert
  <2>3. RunFits(Revert!NoRun, 0, 0)
    BY NoRunFits
  <2> QED
    BY <2>1, <2>2, <2>3 DEF SessionFits
<1>2. RevertInv /\ SessionsFit /\ [AgentNext]_agentVars => SessionsFit'
  <2> SUFFICES ASSUME RevertInv, SessionsFit, [AgentNext]_agentVars PROVE SessionsFit'
    OBVIOUS
  <2>1. CASE Revert!Next
    BY <2>1, RevertStaysFit
  <2>2. CASE UNCHANGED reverting
    BY <2>2 DEF reverting, SessionsFit, SessionFits
  <2> QED
    BY <2>1, <2>2 DEF AgentNext, agentVars, OnlyRuns, OnlyRevert, OnlyFiles, OnlyBackground, OnlyCompaction,
         OnlyLeader, OnlyRouting, OnlyTokens, OnlyGoverned, OnlyResponse
<1>3. RevertInv /\ SessionsFit => Revert!TypeOK
  <2> SUFFICES ASSUME RevertInv, SessionsFit PROVE Revert!TypeOK
    OBVIOUS
  <2> DEFINE Reverts(s) == [active : BOOLEAN, target : 0..turns[s], snap : 0..taken, undo : 0..taken,
                            point : 0..MaxCheckpoints, restored : BOOLEAN]
  <2>1. ASSUME NEW had \in Nat, NEW top \in Nat, NEW ref \in References, RefFits(ref, had, top)
        PROVE  ref \in [active : BOOLEAN, target : 0..had, snap : 0..top, undo : 0..top,
                        point : 0..MaxCheckpoints, restored : BOOLEAN]
    <3>1. MaxCheckpoints \in Nat
      BY RuntimeAssumption DEF Revert!RevertAssumption
    <3> QED
      BY <2>1, <3>1 DEF References, RefFits
  <2>2. ASSUME NEW s \in Sessions
        PROVE  /\ history[s] \subseteq 1..turns[s] /\ revert[s] \in Reverts(s)
               /\ \A c \in checkpoints[s] :
                    /\ c.no \in 1..MaxCheckpoints
                    /\ c.holds \in [history : SUBSET (1..turns[s]), revert : Reverts(s)]
               /\ turn[s] \in [pc : {"idle", "running"}, before : SUBSET (1..turns[s]), snap : 0..taken]
    <3>1. /\ turns[s] \in Nat /\ taken \in Nat /\ revert[s] \in References /\ history[s] \subseteq 1..turns[s]
          /\ RefFits(revert[s], turns[s], taken) /\ RunFits(turn[s], turns[s], taken)
          /\ checkpoints[s] \subseteq Points /\ \A c \in checkpoints[s] : PointFits(c, turns[s], taken)
          /\ turn[s] \in [pc : {"idle", "running"}, before : SUBSET Nat, snap : Nat]
      BY FitFacts
    <3>2. revert[s] \in Reverts(s)
      BY <2>1, <3>1
    <3>3. ASSUME NEW c \in checkpoints[s]
          PROVE  /\ c.no \in 1..MaxCheckpoints
                 /\ c.holds \in [history : SUBSET (1..turns[s]), revert : Reverts(s)]
      <4>1. /\ c.no \in Nat /\ c.holds \in [history : SUBSET Nat, revert : References]
            /\ 1 <= c.no /\ c.no <= MaxCheckpoints /\ c.holds.history \subseteq 1..turns[s]
            /\ RefFits(c.holds.revert, turns[s], taken)
        BY <3>1 DEF PointFits, Points
      <4>2. c.holds.revert \in References
        BY <4>1
      <4>3. c.holds.revert \in Reverts(s)
        BY <2>1, <3>1, <4>1, <4>2
      <4>4. MaxCheckpoints \in Nat
        BY RuntimeAssumption DEF Revert!RevertAssumption
      <4>5. c.no \in 1..MaxCheckpoints
        BY <4>1, <4>4
      <4> HIDE DEF Reverts
      <4> QED
        BY <4>1, <4>3, <4>5
    <3>4. turn[s] \in [pc : {"idle", "running"}, before : SUBSET (1..turns[s]), snap : 0..taken]
      BY <3>1 DEF RunFits
    <3> QED
      BY <3>1, <3>2, <3>3, <3>4
  <2>3. /\ turns \in [Sessions -> Nat] /\ taken \in Nat
        /\ \A x \in snapshots : x.id \in Nat /\ x.id # 0 /\ x.id <= taken
    BY DEF RevertInv, RevertTyped, WellNumbered, Images
  <2>4. Revert!Ids(snapshots) \subseteq 1..taken
    BY <2>3 DEF Revert!Ids
  <2>5. Revert!Cardinality(Revert!Ids(snapshots)) = Revert!Cardinality(snapshots)
    BY IdsAreOwn
  <2> QED
    BY <2>2, <2>3, <2>4, <2>5 DEF Revert!TypeOK
<1> QED
  BY <1>1, <1>2, <1>3, RevertHolds, PTL DEF AgentSpec

-----------------------------------------------------------------------------
(* Tokens.  The property speaks of what a request sends; the invariant     *)
(* speaks of the three shared fields, which an exchange writes one after   *)
(* the other while requests read them.                                     *)

\* The newest token.
Tip == Len(issued)

\* Later tokens are issued later.
TokensOrdered ==
    /\ \A i, j \in 1..Tip : i <= j => issued[i] <= issued[j]
    /\ \A i \in 1..Tip : issued[i] <= time

\* At any moment of an exchange: the host is not newer than the token, and the expiry is
\* not that of a newer one.
TokensAgree == host <= token /\ expiry <= issued[token] + Life

\* Who exchanges holds the lock.
LockIsHeld == \A r \in Callers : req[r].pc \in {"exchange", "store"} => lock = r

\* Who stores has been issued the newest token, and the token is written first.
StoresNewest(r) ==
    req[r].pc = "store" =>
        /\ req[r].stored < 3
        /\ req[r].stored > 0 => token = Tip
        /\ req[r].since = issued[Tip]
        /\ req[r].refused < Tip

\* A token is refused after it was stored, and to who sent it.
WasRefused(r) == req[r].refused <= token /\ (req[r].pc = "idle" => req[r].refused = 0)

\* The token outlives the moment it was found good and was not refused.
Outlives(r, k) == issued[k] + Life >= req[r].since + Margin /\ k > req[r].refused

\* What a request has read, or is going to read, goes together.
ReadsGood(r) ==
    /\ req[r].pc \in {"endpoint", "headers"} => Outlives(r, token)
    /\ req[r].pc = "headers" => req[r].host <= token
    /\ req[r].pc = "sent" => Outlives(r, req[r].token) /\ req[r].token >= req[r].host
    /\ req[r].token <= token

TokenIsFresh(r) == StoresNewest(r) /\ WasRefused(r) /\ ReadsGood(r)

\* What requests are, with Tip for the tokens there are.
RequestPcs == {"idle", "lock", "exchange", "store", "endpoint", "headers", "sent", "done", "failed"}
TokenRequest == [pc: RequestPcs, stored: 0..3, since: 0..MaxTime, host: 0..Tip, token: 0..Tip,
    refused: 0..Tip]
TokenRequests == [Callers -> TokenRequest]

TokensInv == Tokens!TypeOK /\ TokensOrdered /\ TokensAgree /\ LockIsHeld
    /\ \A r \in Callers : TokenIsFresh(r)

LEMMA RequestPcsHas ==
    /\ "lock" \in RequestPcs /\ "exchange" \in RequestPcs /\ "store" \in RequestPcs
        /\ "endpoint" \in RequestPcs
    /\ "headers" \in RequestPcs /\ "sent" \in RequestPcs /\ "done" \in RequestPcs
        /\ "failed" \in RequestPcs
BY DEF RequestPcs

LEMMA TokenWritesAre ==
    /\ Len(Tokens!Writes) = 3
    /\ Tokens!Writes[1] = "token" /\ Tokens!Writes[2] = "expiry" /\ Tokens!Writes[3] = "host"
BY DEF Tokens!Writes

\* What the types say, field by field.
LEMMA TokensTyped ==
    ASSUME Tokens!CopilotTokensAssumption, Tokens!TypeOK
    PROVE  /\ Life \in Nat /\ Margin \in Nat /\ MaxTime \in Nat /\ Margin <= Life
           /\ time \in Nat /\ time <= MaxTime /\ Tip \in Nat
           /\ token \in 1..Tip /\ host \in 1..Tip /\ expiry \in Nat
           /\ \A i \in 1..Tip : issued[i] \in Nat /\ issued[i] <= MaxTime
<1>1. Life \in Nat /\ Margin \in Nat /\ MaxTime \in Nat /\ Margin <= Life
  BY DEF Tokens!CopilotTokensAssumption
<1>2. issued \in Seq(0..MaxTime) /\ Tip \in Nat
  BY DEF Tokens!TypeOK, Tip
<1>3. ASSUME NEW i \in 1..Tip PROVE issued[i] \in 0..MaxTime
  BY <1>2, <1>3, ElementOfSeq, Zenon DEF Tip
<1> QED BY <1>1, <1>2, <1>3 DEF Tokens!TypeOK, Tip

LEMMA RequestTyped ==
    ASSUME Tokens!CopilotTokensAssumption, Tokens!TypeOK, NEW r \in Callers
    PROVE  /\ req[r].since \in Nat /\ req[r].since <= MaxTime
           /\ req[r].stored \in 0..3
           /\ req[r].refused \in 0..Tip /\ req[r].token \in 0..Tip /\ req[r].host \in 0..Tip
<1>1. req \in TokenRequests
  BY TokenWritesAre DEF Tokens!TypeOK, TokenRequests, TokenRequest, RequestPcs, Tip
<1> QED BY <1>1, TokensTyped DEF TokenRequests, TokenRequest

\* A request that does nothing stays good while the token gets newer.
LEMMA OtherRequestKept ==
    ASSUME Tokens!CopilotTokensAssumption, TokensInv, NEW r \in Callers,
           \A i \in 1..Tip : issued'[i] = issued[i],
           token' \in token..Tip,
           req'[r] = req[r],
           req[r].pc # "store"
    PROVE  TokenIsFresh(r)'
<1>1. /\ token \in 1..Tip /\ Tip \in Nat /\ Life \in Nat /\ Margin \in Nat
      /\ \A i \in 1..Tip : issued[i] \in Nat
  BY TokensTyped DEF TokensInv
<1>2. /\ req[r].since \in Nat
      /\ req[r].refused \in 0..Tip /\ req[r].token \in 0..Tip /\ req[r].host \in 0..Tip
  BY RequestTyped DEF TokensInv
<1>3. token' \in 1..Tip /\ issued[token] <= issued[token'] /\ issued'[token'] = issued[token']
  BY <1>1 DEF TokensInv, TokensOrdered
<1>4. TokenIsFresh(r)
  BY DEF TokensInv
<1>5. req[r].pc \in {"endpoint", "headers"} => Outlives(r, token)'
  BY <1>1, <1>2, <1>3, <1>4 DEF TokenIsFresh, ReadsGood, Outlives
<1>6. req[r].pc = "sent" => Outlives(r, req[r].token)'
  <2>1. SUFFICES ASSUME req[r].pc = "sent" PROVE Outlives(r, req[r].token)'
    OBVIOUS
  <2>2. Outlives(r, req[r].token)
    BY <1>4, <2>1 DEF TokenIsFresh, ReadsGood
  <2>3. req[r].token \in 1..Tip
    BY <1>1, <1>2, <2>2 DEF Outlives
  <2> QED BY <1>1, <1>2, <2>2, <2>3 DEF Outlives
<1>7. ReadsGood(r)'
  BY <1>1, <1>2, <1>3, <1>4, <1>5, <1>6 DEF TokenIsFresh, ReadsGood
<1>8. WasRefused(r)' /\ StoresNewest(r)'
  BY <1>1, <1>2, <1>3, <1>4 DEF TokenIsFresh, WasRefused, StoresNewest
<1> QED BY <1>7, <1>8 DEF TokenIsFresh

\* A step of request r that writes nothing shared but the lock, which others do not hold.
LEMMA OwnRequestKept ==
    ASSUME Tokens!CopilotTokensAssumption, TokensInv, NEW r \in Callers,
           UNCHANGED <<time, issued, token, expiry, host>>,
           req' \in TokenRequests, lock' \in Callers \cup {None},
           \A q \in Callers : q # r => req'[q] = req[q],
           LockIsHeld', TokenIsFresh(r)'
    PROVE  TokensInv'
<1>1. Tokens!TypeOK'
  BY TokenWritesAre DEF TokensInv, Tokens!TypeOK, TokenRequests, TokenRequest, RequestPcs, Tip
<1>2. TokensOrdered' /\ TokensAgree'
  BY DEF TokensInv, TokensOrdered, TokensAgree, Tip
<1>3. ASSUME NEW q \in Callers PROVE TokenIsFresh(q)'
  <2>1. CASE q = r
    BY <2>1
  <2>2. CASE q # r
    BY <2>2 DEF TokensInv, TokenIsFresh, StoresNewest, WasRefused, ReadsGood, Outlives, Tip
  <2> QED BY <2>1, <2>2
<1> QED BY <1>1, <1>2, <1>3 DEF TokensInv

\* A request that finds the token good may send it.
LEMMA FoundGood ==
    ASSUME Tokens!CopilotTokensAssumption, TokensInv, ~Tokens!Due
    PROVE  issued[token] + Life >= time + Margin
BY TokensTyped DEF TokensInv, TokensAgree, Tokens!Due

LEMMA LookKept ==
    ASSUME Tokens!CopilotTokensAssumption, TokensInv, NEW r \in Callers, Tokens!Look(r)
    PROVE  TokensInv'
<1>1. UNCHANGED <<time, issued, token, expiry, host, lock>> /\ req[r].pc = "idle"
  BY DEF Tokens!Look
<1>2. /\ req \in TokenRequests /\ time \in 0..MaxTime /\ lock \in Callers \cup {None}
  BY TokenWritesAre DEF TokensInv, Tokens!TypeOK, TokenRequests, TokenRequest, RequestPcs, Tip
<1>3. TokenIsFresh(r) /\ LockIsHeld
  BY DEF TokensInv
<1>4. CASE Tokens!Due /\ req' = [req EXCEPT ![r].pc = "lock"]
  <2>1. req' \in TokenRequests /\ \A q \in Callers : q # r => req'[q] = req[q]
    BY <1>2, <1>4, RequestPcsHas DEF TokenRequests, TokenRequest
  <2>2. LockIsHeld'
    BY <1>1, <1>2, <1>3, <1>4 DEF LockIsHeld, TokenRequests, TokenRequest
  <2>3. TokenIsFresh(r)'
    BY <1>1, <1>2, <1>3, <1>4 DEF TokenIsFresh, StoresNewest, WasRefused, ReadsGood, TokenRequests,
        TokenRequest
  <2> QED BY <1>1, <1>2, <2>1, <2>2, <2>3, OwnRequestKept
<1>5. CASE ~Tokens!Due /\ req' = [req EXCEPT ![r].pc = "endpoint", ![r].since = time]
  <2>1. req' \in TokenRequests /\ \A q \in Callers : q # r => req'[q] = req[q]
    BY <1>2, <1>5, RequestPcsHas DEF TokenRequests, TokenRequest
  <2>2. LockIsHeld'
    BY <1>1, <1>2, <1>3, <1>5 DEF LockIsHeld, TokenRequests, TokenRequest
  <2>3. Outlives(r, token)'
    BY <1>1, <1>2, <1>3, <1>5, FoundGood, TokensTyped DEF TokensInv, TokenIsFresh, WasRefused,
        Outlives, TokenRequests, TokenRequest
  <2>4. TokenIsFresh(r)'
    BY <1>1, <1>2, <1>3, <1>5, <2>3 DEF TokenIsFresh, StoresNewest, WasRefused, ReadsGood,
        TokenRequests, TokenRequest
  <2> QED BY <1>1, <1>2, <2>1, <2>2, <2>4, OwnRequestKept
<1> QED BY <1>4, <1>5 DEF Tokens!Look, Tokens!Goes, Tokens!Reads

LEMMA LockKept ==
    ASSUME Tokens!CopilotTokensAssumption, TokensInv, NEW r \in Callers, Tokens!Lock(r)
    PROVE  TokensInv'
<1>1. /\ UNCHANGED <<time, issued, token, expiry, host>>
      /\ req[r].pc = "lock" /\ lock = None
  BY DEF Tokens!Lock
<1>2. /\ req \in TokenRequests /\ time \in 0..MaxTime
  BY TokenWritesAre DEF TokensInv, Tokens!TypeOK, TokenRequests, TokenRequest, RequestPcs, Tip
<1>3. TokenIsFresh(r) /\ LockIsHeld
  BY DEF TokensInv
<1>4. CASE lock' = r /\ req' = [req EXCEPT ![r].pc = "exchange"]
  <2>1. req' \in TokenRequests /\ \A q \in Callers : q # r => req'[q] = req[q]
    BY <1>2, <1>4, RequestPcsHas DEF TokenRequests, TokenRequest
  <2>2. LockIsHeld'
    <3>1. \A q \in Callers : q # r => req'[q].pc \notin {"exchange", "store"}
      BY <1>1, <1>3, <2>1 DEF LockIsHeld, Tokens!CopilotTokensAssumption
    <3> QED BY <3>1, <1>4 DEF LockIsHeld
  <2>3. TokenIsFresh(r)'
    BY <1>1, <1>2, <1>3, <1>4 DEF TokenIsFresh, StoresNewest, WasRefused, ReadsGood, TokenRequests,
        TokenRequest
  <2> QED BY <1>1, <1>4, <2>1, <2>2, <2>3, OwnRequestKept
<1>5. CASE /\ req[r].refused = 0 /\ ~Tokens!Due /\ lock' = lock
           /\ req' = [req EXCEPT ![r].pc = "endpoint", ![r].since = time]
  <2>0. req' = [req EXCEPT ![r].pc = "endpoint", ![r].since = time]
    BY <1>5
  <2>1. req' \in TokenRequests /\ \A q \in Callers : q # r => req'[q] = req[q]
    BY <1>2, <2>0, RequestPcsHas DEF TokenRequests, TokenRequest
  <2>2. LockIsHeld'
    BY <1>1, <1>2, <1>3, <1>5 DEF LockIsHeld, TokenRequests, TokenRequest
  <2>3. Outlives(r, token)'
    BY <1>1, <1>2, <1>5, FoundGood, TokensTyped DEF TokensInv, Outlives, TokenRequests, TokenRequest
  <2>4. TokenIsFresh(r)'
    BY <1>1, <1>2, <1>3, <1>5, <2>3 DEF TokenIsFresh, StoresNewest, WasRefused, ReadsGood,
        TokenRequests, TokenRequest
  <2> QED BY <1>1, <1>5, <2>1, <2>2, <2>4, OwnRequestKept
<1> QED BY <1>1, <1>2, <1>4, <1>5 DEF Tokens!Lock, Tokens!Goes, Tokens!Reads, TokenRequests,
    TokenRequest

\* A request that reads a field, or is answered, goes on with what it has.
LEMMA ReadHostKept ==
    ASSUME Tokens!CopilotTokensAssumption, TokensInv, NEW r \in Callers, Tokens!ReadHost(r)
    PROVE  TokensInv'
<1>1. /\ UNCHANGED <<time, issued, token, expiry, host, lock>>
      /\ req[r].pc = "endpoint"
      /\ req' = [req EXCEPT ![r].pc = "headers", ![r].host = host]
  BY DEF Tokens!ReadHost
<1>2. req \in TokenRequests /\ lock \in Callers \cup {None} /\ host \in 0..Tip
  BY TokenWritesAre, TokensTyped DEF TokensInv, Tokens!TypeOK, TokenRequests, TokenRequest,
      RequestPcs, Tip
<1>3. TokenIsFresh(r) /\ LockIsHeld /\ host <= token
  BY DEF TokensInv, TokensAgree
<1>4. req' \in TokenRequests /\ \A q \in Callers : q # r => req'[q] = req[q]
  BY <1>1, <1>2, RequestPcsHas DEF TokenRequests, TokenRequest
<1>5. LockIsHeld'
  BY <1>1, <1>2, <1>3 DEF LockIsHeld, TokenRequests, TokenRequest
<1>6. TokenIsFresh(r)'
  BY <1>1, <1>2, <1>3 DEF TokenIsFresh, StoresNewest, WasRefused, ReadsGood, Outlives,
      TokenRequests, TokenRequest
<1> QED BY <1>1, <1>2, <1>4, <1>5, <1>6, OwnRequestKept

LEMMA ReadTokenKept ==
    ASSUME Tokens!CopilotTokensAssumption, TokensInv, NEW r \in Callers, Tokens!ReadToken(r)
    PROVE  TokensInv'
<1>1. /\ UNCHANGED <<time, issued, token, expiry, host, lock>>
      /\ req[r].pc = "headers"
      /\ req' = [req EXCEPT ![r].pc = "sent", ![r].token = token]
  BY DEF Tokens!ReadToken
<1>2. req \in TokenRequests /\ lock \in Callers \cup {None} /\ token \in 1..Tip /\ Tip \in Nat
  BY TokenWritesAre, TokensTyped DEF TokensInv, Tokens!TypeOK, TokenRequests, TokenRequest,
      RequestPcs, Tip
<1>3. TokenIsFresh(r) /\ LockIsHeld
  BY DEF TokensInv
<1>4. req' \in TokenRequests /\ \A q \in Callers : q # r => req'[q] = req[q]
  <2>1. token \in 0..Tip /\ req' = [req EXCEPT ![r].pc = "sent", ![r].token = token]
    BY <1>1, <1>2
  <2> QED BY <1>2, <2>1, RequestPcsHas DEF TokenRequests, TokenRequest
<1>5. LockIsHeld'
  BY <1>1, <1>2, <1>3 DEF LockIsHeld, TokenRequests, TokenRequest
<1>6. Outlives(r, token) /\ req[r].host <= token
  BY <1>1, <1>3 DEF TokenIsFresh, ReadsGood
<1>7. /\ req'[r].pc = "sent" /\ req'[r].token = token /\ req'[r].host = req[r].host
      /\ req'[r].since = req[r].since /\ req'[r].refused = req[r].refused
  BY <1>1, <1>2 DEF TokenRequests, TokenRequest
<1>8. ReadsGood(r)'
  BY <1>1, <1>2, <1>6, <1>7, RequestTyped DEF TokensInv, ReadsGood, Outlives
<1>9. StoresNewest(r)' /\ WasRefused(r)'
  BY <1>1, <1>3, <1>7 DEF TokenIsFresh, StoresNewest, WasRefused
<1> QED BY <1>1, <1>2, <1>4, <1>5, <1>8, <1>9, OwnRequestKept DEF TokenIsFresh

LEMMA AnswerKept ==
    ASSUME Tokens!CopilotTokensAssumption, TokensInv, NEW r \in Callers, Tokens!Answer(r)
    PROVE  TokensInv'
<1>1. UNCHANGED <<time, issued, token, expiry, host, lock>> /\ req[r].pc = "sent"
  BY DEF Tokens!Answer
<1>2. req \in TokenRequests /\ lock \in Callers \cup {None} /\ Tip \in Nat
  BY SMTT(40), TokenWritesAre DEF TokensInv, Tokens!TypeOK, TokenRequests, TokenRequest,
      RequestPcs, Tip
<1>3. TokenIsFresh(r) /\ LockIsHeld
  BY DEF TokensInv
<1>4. PICK to \in {"done", "lock", "failed"}, refused \in {req[r].refused, req[r].token} :
        req' = [req EXCEPT ![r].pc = to, ![r].refused = refused]
  <2>1. CASE Tokens!Goes(r, "done")
    <3>1. req' = [req EXCEPT ![r].pc = "done", ![r].refused = req[r].refused]
      BY <1>2, <2>1 DEF Tokens!Goes, TokenRequests, TokenRequest
    <3> QED BY <3>1
  <2>2. CASE req' = [req EXCEPT ![r].pc = "lock", ![r].refused = req[r].token]
    BY <2>2
  <2>3. CASE req' = [req EXCEPT ![r].pc = "failed"]
    <3>1. req' = [req EXCEPT ![r].pc = "failed", ![r].refused = req[r].refused]
      BY <1>2, <2>3 DEF TokenRequests, TokenRequest
    <3> QED BY <3>1
  <2> QED BY <2>1, <2>2, <2>3 DEF Tokens!Answer
<1>5. req' \in TokenRequests /\ \A q \in Callers : q # r => req'[q] = req[q]
  <2>1. refused \in 0..Tip
    BY <1>4, RequestTyped DEF TokensInv
  <2>2. req' = [req EXCEPT ![r].pc = to, ![r].refused = refused]
    BY <1>4
  <2>3. to \in RequestPcs
    BY DEF RequestPcs
  <2> QED BY <1>2, <2>1, <2>2, <2>3 DEF TokenRequests, TokenRequest
<1>6. /\ req'[r].pc \in {"done", "lock", "failed"} /\ req'[r].token = req[r].token
      /\ req'[r].refused \in {req[r].refused, req[r].token}
  BY <1>2, <1>4 DEF TokenRequests, TokenRequest
<1>7. LockIsHeld'
  BY <1>1, <1>3, <1>5, <1>6 DEF LockIsHeld
<1>8. TokenIsFresh(r)'
  BY <1>1, <1>3, <1>6 DEF TokenIsFresh, StoresNewest, WasRefused, ReadsGood
<1> QED BY <1>1, <1>2, <1>5, <1>7, <1>8, OwnRequestKept

\* A token is issued: it is the newest, nobody has it yet, and who stores it holds the lock.
LEMMA ExchangeKept ==
    ASSUME Tokens!CopilotTokensAssumption, TokensInv, NEW r \in Callers, Tokens!Exchange(r)
    PROVE  TokensInv'
<1>1. UNCHANGED <<time, token, expiry, host>> /\ req[r].pc = "exchange"
  BY DEF Tokens!Exchange
<1>2. req \in TokenRequests /\ issued \in Seq(0..MaxTime) /\ time \in 0..MaxTime
  BY TokenWritesAre DEF TokensInv, Tokens!TypeOK, TokenRequests, TokenRequest, RequestPcs, Tip
<1>3. TokenIsFresh(r) /\ LockIsHeld /\ lock = r /\ lock \in Callers \cup {None}
  BY <1>1 DEF TokensInv, LockIsHeld
<1>4. CASE req' = [req EXCEPT ![r].pc = "failed"] /\ lock' = None /\ UNCHANGED issued
  <2>1. req' \in TokenRequests /\ \A q \in Callers : q # r => req'[q] = req[q]
    BY <1>2, <1>4, RequestPcsHas DEF TokenRequests, TokenRequest
  <2>2. req'[r].pc = "failed"
    BY <1>2, <1>4 DEF TokenRequests, TokenRequest
  <2>3. LockIsHeld'
    BY <1>3, <2>1, <2>2 DEF LockIsHeld
  <2>4. TokenIsFresh(r)'
    BY <1>1, <1>2, <1>3, <1>4 DEF TokenIsFresh, StoresNewest, WasRefused, ReadsGood, TokenRequests,
        TokenRequest
  <2> QED BY <1>1, <1>4, <2>1, <2>3, <2>4, OwnRequestKept
<1>5. CASE /\ issued' = Append(issued, time)
           /\ req' = [req EXCEPT ![r].pc = "store", ![r].stored = 0, ![r].since = time]
           /\ UNCHANGED lock
  <2>1. /\ Tip \in Nat /\ Tip' = Tip + 1 /\ issued' \in Seq(0..MaxTime)
        /\ issued'[Tip'] = time /\ \A i \in 1..Tip : issued'[i] = issued[i]
    BY <1>2, <1>5 DEF Tip
  <2>2. \A q \in Callers : q # r => req'[q] = req[q] /\ req[q].pc # "store"
    BY <1>2, <1>3, <1>5 DEF LockIsHeld, TokenRequests, TokenRequest
  <2>3. /\ req'[r].pc = "store" /\ req'[r].stored = 0 /\ req'[r].since = time
        /\ req'[r].refused = req[r].refused /\ req'[r].token = req[r].token
        /\ req'[r].host = req[r].host
    BY <1>2, <1>5 DEF TokenRequests, TokenRequest
  <2>4. req' \in TokenRequests'
    <3>1. 0..Tip \subseteq 0..(Tip + 1)
      BY <2>1
    <3>2. /\ req' = [req EXCEPT ![r].pc = "store", ![r].stored = 0, ![r].since = time]
          /\ req \in TokenRequests /\ time \in 0..MaxTime /\ 0 \in 0..3
      BY <1>2, <1>5
    <3>3. req' \in TokenRequests
      BY ZenonT(60), <3>2, RequestPcsHas DEF TokenRequests, TokenRequest
    <3> QED BY <2>1, <3>1, <3>3 DEF TokenRequests, TokenRequest
  <2>5. Tokens!TypeOK'
    <3>1. token' \in 1..Tip' /\ host' \in 1..Tip'
      BY SMTT(40), <1>1, <2>1, TokensTyped DEF TokensInv
    <3>2. time' \in 0..MaxTime /\ expiry' \in 0..(MaxTime + Life) /\ lock' \in Callers \cup {None}
      BY <1>1, <1>5 DEF TokensInv, Tokens!TypeOK
    <3> QED BY <2>1, <2>4, <3>1, <3>2, TokenWritesAre DEF Tokens!TypeOK, TokenRequests,
        TokenRequest, RequestPcs, Tip
  <2>6. TokensOrdered'
    <3>1. \A i \in 1..Tip : issued[i] <= time
      BY DEF TokensInv, TokensOrdered
    <3>2. ASSUME NEW i \in 1..Tip', NEW j \in 1..Tip', i <= j PROVE issued'[i] <= issued'[j]
      <4>1. CASE j = Tip'
        <5>1. CASE i = Tip'
          <6>1. time \in Nat /\ issued'[i] = time /\ issued'[j] = time
            BY <2>1, <4>1, <5>1, TokensTyped DEF TokensInv
          <6> QED BY <6>1
        <5>2. CASE i \in 1..Tip
          BY <2>1, <3>1, <4>1, <5>2
        <5> QED BY <2>1, <5>1, <5>2
      <4>2. CASE j \in 1..Tip
        <5>1. i \in 1..Tip /\ issued[i] <= issued[j]
          BY <2>1, <3>2, <4>2 DEF TokensInv, TokensOrdered
        <5> QED BY <2>1, <4>2, <5>1
      <4> QED BY <2>1, <4>1, <4>2
    <3>3. ASSUME NEW i \in 1..Tip' PROVE issued'[i] <= time'
      <4>1. time' = time /\ time \in Nat
        BY <1>1, TokensTyped DEF TokensInv
      <4>2. CASE i = Tip'
        BY <2>1, <4>1, <4>2
      <4>3. CASE i \in 1..Tip
        BY <2>1, <3>1, <4>1, <4>3
      <4> QED BY <2>1, <4>2, <4>3
    <3> QED BY <3>2, <3>3 DEF TokensOrdered
  <2>7. TokensAgree'
    BY <1>1, <2>1, TokensTyped DEF TokensInv, TokensAgree
  <2>8. LockIsHeld'
    BY <1>3, <1>5, <2>2 DEF LockIsHeld
  <2>9. TokenIsFresh(r)'
    <3>1. req[r].refused <= token /\ req[r].token <= token /\ req[r].refused \in 0..Tip
          /\ token \in 1..Tip
      BY <1>3, TokensTyped, RequestTyped DEF TokensInv, TokenIsFresh, WasRefused, ReadsGood
    <3> QED BY <1>1, <2>1, <2>3, <3>1 DEF TokenIsFresh, StoresNewest, WasRefused, ReadsGood
  <2>10. ASSUME NEW q \in Callers, q # r PROVE TokenIsFresh(q)'
    <3>1. token' \in token..Tip
      BY <1>1, <2>1, TokensTyped DEF TokensInv
    <3> QED BY <2>1, <2>2, <2>10, <3>1, OtherRequestKept
  <2> QED BY <2>5, <2>6, <2>7, <2>8, <2>9, <2>10 DEF TokensInv
<1> QED BY <1>4, <1>5 DEF Tokens!Exchange, Tokens!Goes

\* One write of an exchange.  The token comes first: no older token is left under the expiry
\* or beside the host of a newer one.
LEMMA StoreKept ==
    ASSUME Tokens!CopilotTokensAssumption, TokensInv, NEW r \in Callers, Tokens!Store(r)
    PROVE  TokensInv'
<1>1. UNCHANGED <<time, issued>> /\ req[r].pc = "store" /\ UNCHANGED Tip
  BY DEF Tokens!Store, Tip
<1>2. req \in TokenRequests /\ Tip \in Nat
  BY SMTT(40), TokenWritesAre DEF TokensInv, Tokens!TypeOK, TokenRequests, TokenRequest,
      RequestPcs, Tip
<1>3. TokenIsFresh(r) /\ LockIsHeld /\ lock = r /\ lock \in Callers \cup {None}
  BY <1>1 DEF TokensInv, LockIsHeld
<1>4. /\ req[r].stored \in {0, 1, 2} /\ (req[r].stored > 0 => token = Tip)
      /\ req[r].since = issued[Tip] /\ req[r].refused < Tip /\ req[r].refused \in Nat
  BY <1>1, <1>3, RequestTyped DEF TokensInv, TokenIsFresh, StoresNewest
<1>5. /\ token \in 1..Tip /\ Tip \in 1..Tip /\ issued[Tip] \in Nat /\ issued[Tip] <= MaxTime
      /\ issued[token] \in Nat /\ issued[token] <= issued[Tip] /\ Life \in Nat /\ Margin \in Nat
      /\ Margin <= Life /\ expiry \in Nat /\ host \in 1..Tip /\ MaxTime \in Nat
      /\ expiry <= issued[token] + Life
  BY <1>2, TokensTyped DEF TokensInv, TokensOrdered, TokensAgree
<1>6. PICK k \in 1..3, to \in {"endpoint", "store"} :
        /\ k = req[r].stored + 1 /\ (to = "endpoint" <=> k = 3)
        /\ req' = [req EXCEPT ![r].stored = k, ![r].pc = to]
  <2>1. CASE req[r].stored = 2
    BY <2>1, TokenWritesAre DEF Tokens!Store
  <2>2. CASE req[r].stored = 1
    <3>1. req' = [req EXCEPT ![r].stored = 2, ![r].pc = "store"]
      BY <2>2, TokenWritesAre DEF Tokens!Store
    <3> QED BY <2>2, <3>1
  <2>3. CASE req[r].stored = 0
    <3>1. req' = [req EXCEPT ![r].stored = 1, ![r].pc = "store"]
      BY <2>3, TokenWritesAre DEF Tokens!Store
    <3> QED BY <2>3, <3>1
  <2> QED BY <1>4, <2>1, <2>2, <2>3
<1>7. k \in 0..3 /\ to \in RequestPcs
  BY DEF RequestPcs
<1>8. req' \in TokenRequests /\ \A q \in Callers : q # r => req'[q] = req[q]
  BY <1>2, <1>6, <1>7 DEF TokenRequests, TokenRequest
<1>9. /\ req'[r].pc = to /\ req'[r].stored = k
      /\ req'[r].since = req[r].since /\ req'[r].refused = req[r].refused
      /\ req'[r].token = req[r].token
  BY <1>2, <1>6 DEF TokenRequests, TokenRequest
<1>10. /\ token' = IF req[r].stored = 0 THEN Tip ELSE token
       /\ expiry' = IF req[r].stored = 1 THEN issued[Tip] + Life ELSE expiry
       /\ host' = IF req[r].stored = 2 THEN Tip ELSE host
       /\ lock' = IF req[r].stored = 2 THEN None ELSE lock
  BY <1>4, TokenWritesAre DEF Tokens!Store, Tip
<1>11. token' \in token..Tip /\ token' \in 1..Tip /\ host' \in 1..Tip
    /\ lock' \in Callers \cup {None}
  BY <1>3, <1>5, <1>10
<1>12. Tokens!TypeOK'
  <2>1. expiry' \in 0..(MaxTime + Life)
    <3>1. expiry \in 0..(MaxTime + Life)
      BY DEF TokensInv, Tokens!TypeOK
    <3>2. issued[Tip] + Life \in 0..(MaxTime + Life)
      BY <1>5
    <3> QED BY <1>10, <3>1, <3>2
  <2>2. req' \in TokenRequests'
    BY <1>1, <1>8 DEF TokenRequests, TokenRequest
  <2> QED BY <1>1, <1>11, <2>1, <2>2, TokenWritesAre DEF TokensInv, Tokens!TypeOK, TokenRequests,
      TokenRequest, RequestPcs, Tip
<1>13. TokensOrdered'
  BY <1>1 DEF TokensInv, TokensOrdered
<1>14. TokensAgree'
  BY <1>1, <1>4, <1>5, <1>10 DEF TokensInv, TokensAgree
<1>15. \A q \in Callers : q # r => req[q].pc \notin {"exchange", "store"}
  BY <1>3 DEF LockIsHeld
<1>16. LockIsHeld'
  <2>1. ASSUME NEW q \in Callers, req'[q].pc \in {"exchange", "store"} PROVE lock' = q
    <3>1. q = r
      BY <1>8, <1>15, <2>1
    <3>2. req[r].stored # 2
      BY <1>6, <1>9, <2>1, <3>1
    <3> QED BY <1>3, <1>10, <3>1, <3>2
  <2> QED BY <2>1 DEF LockIsHeld
<1>17. TokenIsFresh(r)'
  <2>1. StoresNewest(r)'
    BY <1>1, <1>4, <1>5, <1>6, <1>9, <1>10 DEF StoresNewest
  <2>2. WasRefused(r)'
    BY <1>3, <1>4, <1>5, <1>6, <1>9, <1>10 DEF TokenIsFresh, WasRefused
  <2>3. req'[r].pc = "endpoint" => Outlives(r, token)'
    BY <1>1, <1>4, <1>5, <1>6, <1>9, <1>10 DEF Outlives
  <2>4. req'[r].token <= token'
    BY <1>3, <1>4, <1>5, <1>6, <1>9, <1>10, RequestTyped DEF TokensInv, TokenIsFresh, ReadsGood
  <2> QED BY <1>6, <1>9, <2>1, <2>2, <2>3, <2>4 DEF TokenIsFresh, ReadsGood
<1>18. ASSUME NEW q \in Callers, q # r PROVE TokenIsFresh(q)'
  BY <1>1, <1>8, <1>11, <1>15, <1>18, OtherRequestKept
<1> QED BY <1>12, <1>13, <1>14, <1>16, <1>17, <1>18 DEF TokensInv

LEMMA TickKept ==
    ASSUME Tokens!CopilotTokensAssumption, TokensInv, Tokens!Tick
    PROVE  TokensInv'
<1>1. UNCHANGED <<issued, token, expiry, host, lock, req>> /\ UNCHANGED Tip
  BY DEF Tokens!Tick, Tip
<1>2. time \in 0..MaxTime /\ MaxTime \in Nat /\ time' = time + 1 /\ time < MaxTime
  BY DEF TokensInv, Tokens!TypeOK, Tokens!CopilotTokensAssumption, Tokens!Tick
<1>3. Tokens!TypeOK'
  BY <1>1, <1>2 DEF TokensInv, Tokens!TypeOK
<1>4. TokensOrdered'
  BY <1>1, <1>2, TokensTyped DEF TokensInv, TokensOrdered
<1>5. TokensAgree' /\ LockIsHeld'
  BY <1>1 DEF TokensInv, TokensAgree, LockIsHeld
<1>6. ASSUME NEW r \in Callers PROVE TokenIsFresh(r)'
  BY <1>1 DEF TokensInv, TokenIsFresh, StoresNewest, WasRefused, ReadsGood, Outlives
<1> QED BY <1>3, <1>4, <1>5, <1>6 DEF TokensInv

LEMMA TokensInvInit ==
    ASSUME Tokens!CopilotTokensAssumption, Tokens!Init
    PROVE  TokensInv
<1>1. issued = <<0>> /\ Tip = 1 /\ issued[1] = 0
  BY DEF Tokens!Init, Tip
<1>2. Tokens!TypeOK
  BY <1>1, TokenWritesAre DEF Tokens!Init, Tokens!TypeOK, Tokens!NewRequest,
      Tokens!CopilotTokensAssumption
<1>3. TokensOrdered /\ TokensAgree
  BY <1>1 DEF Tokens!Init, TokensOrdered, TokensAgree, Tokens!CopilotTokensAssumption
<1>4. LockIsHeld /\ \A r \in Callers : TokenIsFresh(r)
  BY DEF Tokens!Init, Tokens!NewRequest, LockIsHeld, TokenIsFresh, StoresNewest, WasRefused,
      ReadsGood
<1> QED BY <1>2, <1>3, <1>4 DEF TokensInv

LEMMA TokensInvStep ==
    ASSUME Tokens!CopilotTokensAssumption, TokensInv, [Tokens!Next]_sending
    PROVE  TokensInv'
<1>1. CASE Tokens!Tick
  BY <1>1, TickKept
<1>2. ASSUME NEW r \in Callers,
             \/ Tokens!Look(r) \/ Tokens!Lock(r) \/ Tokens!Exchange(r) \/ Tokens!Store(r)
                 \/ Tokens!ReadHost(r) \/ Tokens!ReadToken(r)
             \/ Tokens!Answer(r)
      PROVE  TokensInv'
  BY <1>2, LookKept, LockKept, ExchangeKept, StoreKept, ReadHostKept, ReadTokenKept, AnswerKept
<1>3. CASE UNCHANGED sending
  BY <1>3 DEF sending, TokensInv, Tokens!TypeOK, TokensOrdered, TokensAgree, LockIsHeld,
      TokenIsFresh, StoresNewest, WasRefused, ReadsGood,
              Outlives, Tip
<1> QED BY <1>1, <1>2, <1>3 DEF Tokens!Next

LEMMA TokensHold == AgentSpec => []TokensInv
<1>1. Tokens!CopilotTokensAssumption
  BY RuntimeAssumption
<1>2. AgentInit => TokensInv
  BY <1>1, TokensInvInit DEF AgentInit
<1>3. TokensInv /\ [AgentNext]_agentVars => TokensInv'
  <2>1. [AgentNext]_agentVars => [Tokens!Next]_sending
    BY SMTT(40) DEF AgentNext, agentVars, OnlyRuns, OnlyRevert, OnlyFiles, OnlyBackground, OnlyCompaction,
       OnlyLeader, OnlyRouting, OnlyTokens, OnlyGoverned, OnlyResponse
  <2> QED
    BY <1>1, <2>1, TokensInvStep
<1> QED
  BY <1>2, <1>3, PTL DEF AgentSpec

\* What a request sends goes together, while others exchange the token
\* (_apply_token_exchange and urllib Request(self.endpoint, headers=self._headers())).
THEOREM FreshTokensAreSent == AgentSpec => []SendsFreshToken
<1>1. TokensInv => SendsFreshToken
  BY DEF TokensInv, TokenIsFresh, ReadsGood, Outlives, SendsFreshToken, Tokens!SendsFreshToken
<1> QED
  BY <1>1, TokensHold, PTL

-----------------------------------------------------------------------------
(* Governed tasks: GovernedTasksProofs proves it of the tasks alone, which *)
(* the other scenes leave as they are.                                     *)

TaskProofs == INSTANCE GovernedTasksProofs

LEMMA GovernedAreTasks == AgentSpec => TaskProofs!Spec
<1> USE DEF Governed!Range, TaskProofs!Range, Governed!outside, TaskProofs!outside, Governed!history,
            TaskProofs!history
<1>1. AgentInit => TaskProofs!Init
  <2>1. /\ Governed!WritesOf = TaskProofs!WritesOf
        /\ \A w : Governed!Place(w) = TaskProofs!Place(w)
    BY DEF Governed!WritesOf, TaskProofs!WritesOf, Governed!Place, TaskProofs!Place
  <2>2. Governed!JiraPlans = TaskProofs!JiraPlans
    BY <2>1 DEF Governed!JiraPlans, TaskProofs!JiraPlans
  <2>3. \A k : Governed!Plans(k) = TaskProofs!Plans(k)
    BY <2>1, <2>2 DEF Governed!Plans, TaskProofs!Plans
  <2>4. Governed!Requests = TaskProofs!Requests
    BY <2>1, <2>3 DEF Governed!Requests, TaskProofs!Requests
  <2> QED
    BY <2>4 DEF AgentInit, Governed!Init, TaskProofs!Init
<1>2. [AgentNext]_agentVars => [TaskProofs!Next]_(TaskProofs!vars)
  <2> SUFFICES ASSUME [AgentNext]_agentVars PROVE [TaskProofs!Next]_(TaskProofs!vars)
    OBVIOUS
  <2>1. CASE Governed!Next
    <3> USE DEF Governed!Finish, TaskProofs!Finish, Governed!Go, TaskProofs!Go, Governed!Store, TaskProofs!Store,
                Governed!Continue, TaskProofs!Continue, Governed!Tell, TaskProofs!Tell, Governed!Take,
                TaskProofs!Take, Governed!Cut, TaskProofs!Cut
    <3>0. Governed!JiraPlans = TaskProofs!JiraPlans
      <4>1. /\ Governed!WritesOf = TaskProofs!WritesOf
            /\ \A w : Governed!Place(w) = TaskProofs!Place(w)
        BY DEF Governed!WritesOf, TaskProofs!WritesOf, Governed!Place, TaskProofs!Place
      <4> QED
        BY <4>1 DEF Governed!JiraPlans, TaskProofs!JiraPlans
    <3>1. Governed!Admit => TaskProofs!Admit
      BY DEF Governed!Admit, TaskProofs!Admit
    <3>2. (Governed!Block => TaskProofs!Block) /\ (Governed!Refuse => TaskProofs!Refuse)
      BY DEF Governed!Block, TaskProofs!Block, Governed!Refuse, TaskProofs!Refuse
    <3>3. Governed!Look => TaskProofs!Look
      BY DEF Governed!Look, TaskProofs!Look
    <3>4. Governed!Work => TaskProofs!Work
      BY DEF Governed!Work, TaskProofs!Work, Governed!AfterSkill, TaskProofs!AfterSkill
    <3>5. Governed!Delegated => TaskProofs!Delegated
      BY DEF Governed!Delegated, TaskProofs!Delegated
    <3>6. Governed!ReadIssue => TaskProofs!ReadIssue
      BY <3>0 DEF Governed!ReadIssue, TaskProofs!ReadIssue
    <3>7. Governed!Gated => TaskProofs!Gated
      BY DEF Governed!Gated, TaskProofs!Gated, Governed!Optional, TaskProofs!Optional
    <3>8. Governed!Write => TaskProofs!Write
      BY DEF Governed!Write, TaskProofs!Write, Governed!Replies, TaskProofs!Replies
    <3>9. Governed!Push => TaskProofs!Push
      BY DEF Governed!Push, TaskProofs!Push
    <3>10. (Governed!Cancel => TaskProofs!Cancel) /\ (Governed!Crash => TaskProofs!Crash)
      BY DEF Governed!Cancel, TaskProofs!Cancel, Governed!Crash, TaskProofs!Crash
    <3> QED
      BY <2>1, <3>1, <3>2, <3>3, <3>4, <3>5, <3>6, <3>7, <3>8, <3>9, <3>10 DEF Governed!Next, TaskProofs!Next
  <2>2. CASE UNCHANGED governing
    BY <2>2 DEF governing, TaskProofs!vars
  <2> QED
    BY <2>1, <2>2 DEF AgentNext, agentVars, OnlyRuns, OnlyRevert, OnlyFiles, OnlyBackground, OnlyCompaction,
         OnlyLeader, OnlyRouting, OnlyTokens, OnlyGoverned, OnlyResponse
<1> QED
  BY <1>1, <1>2, PTL DEF AgentSpec, TaskProofs!Spec

\* A task that writes outside is accounted for.
THEOREM TasksAreAccountedFor == AgentSpec => []TaskIsAccountedFor
<1>1. TaskProofs!TaskIsAccountedFor => TaskIsAccountedFor
  <2> SUFFICES ASSUME TaskProofs!TaskIsAccountedFor PROVE Governed!TaskIsAccountedFor
    BY DEF TaskIsAccountedFor
  <2> USE DEF TaskProofs!Range, Governed!Range
  <2>1. TaskProofs!Written = Governed!Written /\ \A o : TaskProofs!Outcome(o) = Governed!Outcome(o)
    BY DEF TaskProofs!Written, Governed!Written, TaskProofs!Outcome, Governed!Outcome
  <2>2. Governed!ReviewIsCurrent
    BY DEF TaskProofs!TaskIsAccountedFor, TaskProofs!ReviewIsCurrent, Governed!ReviewIsCurrent
  <2>3. Governed!WritesAreReported
    BY <2>1 DEF TaskProofs!TaskIsAccountedFor, TaskProofs!WritesAreReported, Governed!WritesAreReported,
         TaskProofs!Optional, Governed!Optional, TaskProofs!IsInjective, Governed!IsInjective
  <2>4. Governed!EndIsTold
    BY DEF TaskProofs!TaskIsAccountedFor, TaskProofs!EndIsTold, Governed!EndIsTold
  <2>5. Governed!SummaryIsBacked
    BY <2>1 DEF TaskProofs!TaskIsAccountedFor, TaskProofs!SummaryIsBacked, Governed!SummaryIsBacked,
         TaskProofs!Summary, Governed!Summary, TaskProofs!Optional, Governed!Optional
  <2> QED
    BY <2>2, <2>3, <2>4, <2>5 DEF Governed!TaskIsAccountedFor
<1> QED
  BY <1>1, GovernedAreTasks, TaskProofs!TasksAreAccountedFor, PTL

-----------------------------------------------------------------------------
(* Compaction: CompactionProofs proves it of a session alone, which the    *)
(* other scenes leave as it is.                                            *)

HistoryProofs == INSTANCE CompactionProofs WITH cut <- lastCut

\* What both read of a history.
LEMMA SameHistory ==
  /\ \A h, i : Compacting!BlockOf(h, i) = HistoryProofs!BlockOf(h, i)
  /\ \A h : Compacting!Blocks(h) = HistoryProofs!Blocks(h) /\ Compacting!Pending(h) = HistoryProofs!Pending(h)
  /\ \A h, K : Compacting!PartsOf(h, K) = HistoryProofs!PartsOf(h, K)
  /\ \A h, A : Compacting!Total(h, A) = HistoryProofs!Total(h, A)
  /\ \A h, K : Compacting!Cost(h, K) = HistoryProofs!Cost(h, K)
  /\ \A h : Compacting!AlwaysKept(h) = HistoryProofs!AlwaysKept(h)
  /\ \A T : Compacting!Max(T) = HistoryProofs!Max(T) /\ Compacting!Min(T) = HistoryProofs!Min(T)
  /\ \A h, m : Compacting!Positions(h, m) = HistoryProofs!Positions(h, m)
<1>1. \A h, i : Compacting!BlockOf(h, i) = HistoryProofs!BlockOf(h, i)
  BY DEF Compacting!BlockOf, HistoryProofs!BlockOf
<1>2. \A h : Compacting!Blocks(h) = HistoryProofs!Blocks(h)
  BY <1>1 DEF Compacting!Blocks, HistoryProofs!Blocks
<1>3. \A h : Compacting!Pending(h) = HistoryProofs!Pending(h)
  BY DEF Compacting!Pending, HistoryProofs!Pending
<1>4. \A h, K : Compacting!PartsOf(h, K) = HistoryProofs!PartsOf(h, K)
  BY <1>1 DEF Compacting!PartsOf, HistoryProofs!PartsOf
<1>5. \A h, A : Compacting!Total(h, A) = HistoryProofs!Total(h, A)
  BY DEF Compacting!Total, HistoryProofs!Total
<1>6. \A h, K : Compacting!Cost(h, K) = HistoryProofs!Cost(h, K)
  BY <1>2, <1>4, <1>5 DEF Compacting!Cost, HistoryProofs!Cost
<1>7. \A T : Compacting!Max(T) = HistoryProofs!Max(T) /\ Compacting!Min(T) = HistoryProofs!Min(T)
  BY DEF Compacting!Max, HistoryProofs!Max, Compacting!Min, HistoryProofs!Min
<1>8. \A h : Compacting!AlwaysKept(h) = HistoryProofs!AlwaysKept(h)
  BY <1>2, <1>3, <1>7 DEF Compacting!AlwaysKept, HistoryProofs!AlwaysKept
<1>9. \A h, m : Compacting!Positions(h, m) = HistoryProofs!Positions(h, m)
  BY DEF Compacting!Positions, HistoryProofs!Positions
<1> QED
  BY <1>1, <1>2, <1>3, <1>4, <1>5, <1>6, <1>7, <1>8, <1>9

LEMMA SameSend ==
  ASSUME NEW limit, Compacting!Send(limit)
  PROVE  HistoryProofs!Send(limit)
<1>1. \A l : Compacting!Target(l) = HistoryProofs!Target(l)
  BY SameHistory DEF Compacting!Target, HistoryProofs!Target
<1>2. \A h, l : Compacting!Selected(h, l) = HistoryProofs!Selected(h, l)
  BY DEF Compacting!Selected, Compacting!Cost, Compacting!Total, Compacting!PartsOf, Compacting!BlockOf,
         Compacting!Blocks, Compacting!AlwaysKept, Compacting!Pending, Compacting!Max,
         HistoryProofs!Selected, HistoryProofs!Cost, HistoryProofs!Total, HistoryProofs!PartsOf,
         HistoryProofs!BlockOf, HistoryProofs!Blocks, HistoryProofs!AlwaysKept, HistoryProofs!Pending,
         HistoryProofs!Max
<1>3. \A h, m : Compacting!KeptFrom(h, m) = HistoryProofs!KeptFrom(h, m)
  BY SameHistory DEF Compacting!KeptFrom, HistoryProofs!KeptFrom
<1>4. \A h, K : Compacting!Boundary(h, K) = HistoryProofs!Boundary(h, K)
  BY SameHistory DEF Compacting!Boundary, HistoryProofs!Boundary
<1>5. \A K : Compacting!Remembered(K) = HistoryProofs!Remembered(K)
  BY <1>4, SameHistory DEF Compacting!Remembered, HistoryProofs!Remembered
<1>6. \A K, l : Compacting!Stands(K, l) <=> HistoryProofs!Stands(K, l)
  BY <1>1, <1>3, <1>4, SameHistory DEF Compacting!Stands, HistoryProofs!Stands
<1> QED
  BY <1>1, <1>2, <1>3, <1>5, <1>6, SameHistory DEF Compacting!Send, HistoryProofs!Send

LEMMA CompactingIsCompaction ==
    AgentSpec => HistoryProofs!Init /\ [][HistoryProofs!Next]_(HistoryProofs!vars)
<1>1. AgentInit => HistoryProofs!Init
  BY DEF AgentInit, Compacting!Init, HistoryProofs!Init, Compacting!NoRequest, HistoryProofs!NoRequest
<1>2. [AgentNext]_agentVars => [HistoryProofs!Next]_(HistoryProofs!vars)
  <2> SUFFICES ASSUME [AgentNext]_agentVars PROVE [HistoryProofs!Next]_(HistoryProofs!vars)
    OBVIOUS
  <2>1. CASE Compacting!Next
    <3> USE DEF Compacting!NoRequest, HistoryProofs!NoRequest, Compacting!Part, HistoryProofs!Part,
                Compacting!Write, HistoryProofs!Write, Compacting!Load, HistoryProofs!Load,
                Compacting!Save, HistoryProofs!Save
    <3>1. ASSUME NEW i \in DOMAIN parts, NEW size \in Sizes, Compacting!Return(i, size)
          PROVE  HistoryProofs!Return(i, size)
      BY <3>1, SameHistory DEF Compacting!Return, HistoryProofs!Return
    <3>2. ASSUME NEW many \in {1, 2}, Compacting!Call(many) PROVE HistoryProofs!Call(many)
      BY <3>2 DEF Compacting!Call, HistoryProofs!Call
    <3>3. Compacting!Begin => HistoryProofs!Begin
      BY DEF Compacting!Begin, HistoryProofs!Begin
    <3>4. Compacting!Resume => HistoryProofs!Resume
      BY SameHistory DEF Compacting!Resume, HistoryProofs!Resume
    <3>5. Compacting!Request => HistoryProofs!Request
      BY SameHistory, SameSend DEF Compacting!Request, HistoryProofs!Request
    <3>6. Compacting!Overflow => HistoryProofs!Overflow
      BY SameHistory, SameSend DEF Compacting!Overflow, HistoryProofs!Overflow
    <3>7. /\ Compacting!Reply => HistoryProofs!Reply
          /\ Compacting!Stop => HistoryProofs!Stop
          /\ Compacting!Fail => HistoryProofs!Fail
      BY SMTT(40) DEF Compacting!Reply, HistoryProofs!Reply, Compacting!Stop, HistoryProofs!Stop,
             Compacting!Fail, HistoryProofs!Fail
    <3>8. Compacting!Compact => HistoryProofs!Compact
      BY DEF Compacting!Compact, Compacting!PartsOf, Compacting!BlockOf, Compacting!Blocks,
             Compacting!AlwaysKept, Compacting!Pending, Compacting!Positions, Compacting!Max,
             Compacting!Min, Compacting!InOrder, Compacting!Cardinality, HistoryProofs!Compact,
             HistoryProofs!PartsOf, HistoryProofs!BlockOf, HistoryProofs!Blocks,
             HistoryProofs!AlwaysKept, HistoryProofs!Pending, HistoryProofs!Positions,
             HistoryProofs!Max, HistoryProofs!Min, HistoryProofs!InOrder,
             HistoryProofs!Cardinality
    <3> QED
      BY <2>1, <3>1, <3>2, <3>3, <3>4, <3>5, <3>6, <3>7, <3>8 DEF Compacting!Next, HistoryProofs!Next
  <2>2. CASE UNCHANGED compacting
    BY <2>2 DEF compacting, HistoryProofs!vars
  <2> QED
    BY <2>1, <2>2 DEF AgentNext, agentVars, OnlyRuns, OnlyRevert, OnlyFiles, OnlyBackground, OnlyCompaction,
         OnlyLeader, OnlyRouting, OnlyTokens, OnlyGoverned, OnlyResponse
<1> QED
  BY <1>1, <1>2, PTL DEF AgentSpec

LEMMA CompactionAssumed == HistoryProofs!CompactionAssumption
BY RuntimeAssumption DEF Compacting!CompactionAssumption, HistoryProofs!CompactionAssumption

\* A request has both of a call and its result or none, the newest block, and no more than
\* fits, and no compaction loses a call that waits.
THEOREM RequestsAreSound == AgentSpec => []RequestIsSound
<1>1. HistoryProofs!RequestIsSound => RequestIsSound
  BY SameHistory DEF RequestIsSound, Compacting!RequestIsSound, HistoryProofs!RequestIsSound
<1>2. HistoryProofs!Init /\ [][HistoryProofs!Next]_(HistoryProofs!vars) => []HistoryProofs!RequestIsSound
  BY CompactionAssumed, HistoryProofs!RequestsAreSound
<1> QED
  BY <1>1, <1>2, CompactingIsCompaction, PTL

\* A cut stays put until the room it left is used up.
THEOREM CutsStayPut == AgentSpec => CutStaysPut
<1>1. HistoryProofs!Init /\ [][HistoryProofs!Next]_(HistoryProofs!vars) => HistoryProofs!CutStaysPut
  BY CompactionAssumed, HistoryProofs!CutsStayPut
<1>2. [HistoryProofs!Request /\ lastCut # 0 /\ lastCut' # lastCut =>
          HistoryProofs!Written(lastCut) > Budget - HistoryProofs!Max({1, (Budget * 6) \div 10})]_(HistoryProofs!vars)
      => [Compacting!Request /\ lastCut # 0 /\ lastCut' # lastCut =>
          Compacting!Written(lastCut) > Budget - Compacting!Max({1, (Budget * 6) \div 10})]_(Compacting!vars)
  <2>1. Compacting!Request => HistoryProofs!Request
    BY SameHistory, SameSend DEF Compacting!Request, HistoryProofs!Request
  <2>2. Compacting!Written(lastCut) = HistoryProofs!Written(lastCut)
    BY SameHistory DEF Compacting!Written, HistoryProofs!Written
  <2>3. Compacting!vars = HistoryProofs!vars /\ Compacting!vars' = HistoryProofs!vars'
    BY SMTT(40) DEF Compacting!vars, HistoryProofs!vars
  <2> QED
    BY <2>1, <2>2, <2>3, SameHistory
<1> QED
  BY <1>1, <1>2, CompactingIsCompaction, PTL DEF CutStaysPut, Compacting!CutStaysPut, HistoryProofs!CutStaysPut

-----------------------------------------------------------------------------
(* Responses: ResponseStreamProofs proves it of one response alone, which  *)
(* the other scenes leave as it is.                                        *)

ResponseProofs == INSTANCE ResponseStreamProofs WITH Plans <- Responses, sent <- streamed

LEMMA ToldIsTold == \A tale, moves : Response!Told(tale, moves) = ResponseProofs!Told(tale, moves)
BY DEF Response!Told, Response!Consumed, Response!Observed, Response!Flushed, Response!WithPart,
       Response!Part, Response!PartsOf, Response!Reasoned, Response!Called, ResponseProofs!Told,
       ResponseProofs!Consumed, ResponseProofs!Observed, ResponseProofs!Flushed,
       ResponseProofs!WithPart, ResponseProofs!Part, ResponseProofs!PartsOf,
       ResponseProofs!Reasoned, ResponseProofs!Called

LEMMA DraftsAreDrafts ==
    /\ \A type, id, data, mark : Response!Event(type, id, data, mark) = ResponseProofs!Event(type, id, data, mark)
    /\ \A i, n : Response!Fragment(i, n) = ResponseProofs!Fragment(i, n)
    /\ \A i : Response!Whole(i) = ResponseProofs!Whole(i)
    /\ \A d : Response!Arguments(d) = ResponseProofs!Arguments(d)
    /\ \A d : Response!StartOf(d) = ResponseProofs!StartOf(d)
    /\ \A d : Response!EndOf(d) = ResponseProofs!EndOf(d)
    /\ \A d : Response!CompletionOf(d) = ResponseProofs!CompletionOf(d)
    /\ \A d : Response!Started(d) = ResponseProofs!Started(d)
    /\ \A d : Response!Completed(d) = ResponseProofs!Completed(d)
    /\ \A i : Response!NewDraft(i) = ResponseProofs!NewDraft(i)
    /\ \A i : Response!ItemKey(i) = ResponseProofs!ItemKey(i)
    /\ \A i, chunk : Response!Aliases(i, chunk) = ResponseProofs!Aliases(i, chunk)
    /\ \A i : Response!DraftOf(i) = ResponseProofs!DraftOf(i)
    /\ \A i, chunk : Response!ExistingDrafts(i, chunk) = ResponseProofs!ExistingDrafts(i, chunk)
    /\ \A i : Response!DeltaOf(i) = ResponseProofs!DeltaOf(i)
    /\ Response!Unsent = ResponseProofs!Unsent
    /\ Response!Items = ResponseProofs!Items
    /\ \A moves : Response!Emit(moves) <=> ResponseProofs!Emit(moves)
    /\ \A i : Response!MaySend(i) <=> ResponseProofs!MaySend(i)
    /\ Response!Stream <=> ResponseProofs!Stream
<1>1. \A type, id, data, mark : Response!Event(type, id, data, mark) = ResponseProofs!Event(type, id, data, mark)
  BY DEF Response!Event, ResponseProofs!Event
<1>2. \A i, n : Response!Fragment(i, n) = ResponseProofs!Fragment(i, n)
  BY DEF Response!Fragment, ResponseProofs!Fragment
<1>3. \A i : Response!Whole(i) = ResponseProofs!Whole(i)
  BY DEF Response!Whole, Response!Fragment, ResponseProofs!Whole, ResponseProofs!Fragment
<1>4. \A d : Response!Arguments(d) = ResponseProofs!Arguments(d)
  BY DEF Response!Arguments, ResponseProofs!Arguments
<1>5. \A d : Response!StartOf(d) = ResponseProofs!StartOf(d)
  BY DEF Response!StartOf, Response!Event, ResponseProofs!StartOf, ResponseProofs!Event
<1>6. \A d : Response!EndOf(d) = ResponseProofs!EndOf(d)
  BY DEF Response!EndOf, Response!Event, Response!Arguments, ResponseProofs!EndOf, ResponseProofs!Event,
       ResponseProofs!Arguments
<1>7. \A d : Response!CompletionOf(d) = ResponseProofs!CompletionOf(d)
  BY DEF Response!CompletionOf, Response!Event, Response!Arguments, Response!StartOf, Response!EndOf,
       ResponseProofs!CompletionOf, ResponseProofs!Event, ResponseProofs!Arguments,
       ResponseProofs!StartOf, ResponseProofs!EndOf
<1>8. \A d : Response!Started(d) = ResponseProofs!Started(d)
  BY DEF Response!Started, ResponseProofs!Started
<1>9. \A d : Response!Completed(d) = ResponseProofs!Completed(d)
  BY DEF Response!Completed, ResponseProofs!Completed
<1>10. \A i : Response!NewDraft(i) = ResponseProofs!NewDraft(i)
  BY DEF Response!NewDraft, ResponseProofs!NewDraft
<1>11. \A i : Response!ItemKey(i) = ResponseProofs!ItemKey(i)
  BY DEF Response!ItemKey, ResponseProofs!ItemKey
<1>12. \A i, chunk : Response!Aliases(i, chunk) = ResponseProofs!Aliases(i, chunk)
  BY DEF Response!Aliases, Response!ItemKey, Response!ItemId, ResponseProofs!Aliases, ResponseProofs!ItemKey,
       ResponseProofs!ItemId
<1>13. \A i : Response!DraftOf(i) = ResponseProofs!DraftOf(i)
  BY DEF Response!DraftOf, Response!ItemKey, ResponseProofs!DraftOf, ResponseProofs!ItemKey
<1>14. \A i, chunk : Response!ExistingDrafts(i, chunk) = ResponseProofs!ExistingDrafts(i, chunk)
  BY DEF Response!ExistingDrafts, Response!ArgumentKeys, Response!ItemId, ResponseProofs!ExistingDrafts,
       ResponseProofs!ArgumentKeys, ResponseProofs!ItemId
<1>15. \A i : Response!DeltaOf(i) = ResponseProofs!DeltaOf(i)
  BY DEF Response!DeltaOf, ResponseProofs!DeltaOf
<1>16. Response!Unsent = ResponseProofs!Unsent
  BY DEF Response!Unsent, ResponseProofs!Unsent
<1>17. Response!Items = ResponseProofs!Items
  BY DEF Response!Items, ResponseProofs!Items
<1>18. \A moves : Response!Emit(moves) <=> ResponseProofs!Emit(moves)
  BY ToldIsTold DEF Response!Emit, ResponseProofs!Emit
<1>19. \A i : Response!MaySend(i) <=> ResponseProofs!MaySend(i)
  BY DEF Response!MaySend, Response!Items, Response!Unsent, ResponseProofs!MaySend, ResponseProofs!Items,
       ResponseProofs!Unsent
<1>20. Response!Stream <=> ResponseProofs!Stream
  BY DEF Response!Stream, ResponseProofs!Stream
<1> QED
  BY <1>1, <1>2, <1>3, <1>4, <1>5, <1>6, <1>7, <1>8, <1>9, <1>10, <1>11, <1>12, <1>13, <1>14, <1>15,
     <1>16, <1>17, <1>18, <1>19, <1>20

LEMMA CallItemIsCallItem ==
  ASSUME NEW i, NEW named, NEW chunk
  PROVE  Response!CallItem(i, named, chunk) <=> ResponseProofs!CallItem(i, named, chunk)
<1> DEFINE n1 == Response!DraftOf(i)
           found1 == IF n1 \in DOMAIN drafts THEN drafts[n1] ELSE Response!NewDraft(i)
           known1 == [found1 EXCEPT !.named = @ \/ named]
           args1 == IF chunk = "done" THEN Response!Whole(i) ELSE <<>>
           first1 == chunk = "done" /\ known1.chunks = <<>>
           filled1 == [Response!Started(known1) EXCEPT
                           !.final = IF chunk = "done" THEN Response!Whole(i) ELSE @,
                           !.chunks = IF first1 THEN args1 ELSE @]
           next1 == IF chunk = "done" THEN Response!Completed(filled1) ELSE filled1
           tells1 == Response!StartOf(known1)
                    \o (IF first1 THEN <<Response!Event("delta", i, args1, None)>> ELSE <<>>)
                    \o (IF chunk = "done" THEN Response!CompletionOf(filled1) ELSE <<>>)
           names1 == Response!Aliases(i, chunk)
           n2 == ResponseProofs!DraftOf(i)
           found2 == IF n2 \in DOMAIN drafts THEN drafts[n2] ELSE ResponseProofs!NewDraft(i)
           known2 == [found2 EXCEPT !.named = @ \/ named]
           args2 == IF chunk = "done" THEN ResponseProofs!Whole(i) ELSE <<>>
           first2 == chunk = "done" /\ known2.chunks = <<>>
           filled2 == [ResponseProofs!Started(known2) EXCEPT
                           !.final = IF chunk = "done" THEN ResponseProofs!Whole(i) ELSE @,
                           !.chunks = IF first2 THEN args2 ELSE @]
           next2 == IF chunk = "done" THEN ResponseProofs!Completed(filled2) ELSE filled2
           tells2 == ResponseProofs!StartOf(known2)
                    \o (IF first2 THEN <<ResponseProofs!Event("delta", i, args2, None)>> ELSE <<>>)
                    \o (IF chunk = "done" THEN ResponseProofs!CompletionOf(filled2) ELSE <<>>)
           names2 == ResponseProofs!Aliases(i, chunk)
<1>1. Response!CallItem(i, named, chunk) <=>
      /\ drafts' = IF n1 \in DOMAIN drafts THEN [drafts EXCEPT ![n1] = next1] ELSE Append(drafts, next1)
      /\ alias' = [x \in DOMAIN alias \cup names1 |-> IF x \in names1 THEN n1 ELSE alias[x]]
      /\ Response!Emit(tells1)
  BY DEF Response!CallItem
<1>2. ResponseProofs!CallItem(i, named, chunk) <=>
      /\ drafts' = IF n2 \in DOMAIN drafts THEN [drafts EXCEPT ![n2] = next2] ELSE Append(drafts, next2)
      /\ alias' = [x \in DOMAIN alias \cup names2 |-> IF x \in names2 THEN n2 ELSE alias[x]]
      /\ ResponseProofs!Emit(tells2)
  BY DEF ResponseProofs!CallItem
<1>3. n1 = n2 /\ names1 = names2 /\ args1 = args2
  BY DraftsAreDrafts
<1>4. known1 = known2
  BY DraftsAreDrafts
<1>5. first1 <=> first2
  BY <1>4
<1>6. filled1 = filled2
  <2>1. Response!Started(known1) = ResponseProofs!Started(known2) /\ Response!Whole(i) = ResponseProofs!Whole(i)
    BY <1>4, DraftsAreDrafts
  <2> HIDE DEF known1, known2, first1, first2, args1, args2
  <2> QED
    BY <2>1, <1>3, <1>5
<1> HIDE DEF n1, n2, names1, names2, known1, known2, filled1, filled2, args1, args2, first1, first2
<1>7. next1 = next2
  BY <1>6, DraftsAreDrafts
<1>8. tells1 = tells2
  BY <1>3, <1>4, <1>5, <1>6, DraftsAreDrafts
<1> HIDE DEF next1, next2, tells1, tells2
<1>9. Response!Emit(tells1) <=> ResponseProofs!Emit(tells2)
  BY <1>8, DraftsAreDrafts
<1> QED
  BY <1>1, <1>2, <1>3, <1>7, <1>9

LEMMA ResponsesAreStreams ==
    AgentSpec => ResponseProofs!Init /\ [][ResponseProofs!Next]_(ResponseProofs!vars)
<1>1. AgentInit => ResponseProofs!Init
  BY DEF AgentInit, Response!Init, Response!Unsent, Response!Blank, ResponseProofs!Init, ResponseProofs!Unsent,
       ResponseProofs!Blank
<1>2. ASSUME Response!Next PROVE ResponseProofs!Next
  <2>1. \A i, named : Response!CallAdded(i, named) <=> ResponseProofs!CallAdded(i, named)
    BY DraftsAreDrafts, CallItemIsCallItem DEF Response!CallAdded, ResponseProofs!CallAdded
  <2>2. \A i : Response!CallDone(i) <=> ResponseProofs!CallDone(i)
    BY DraftsAreDrafts, CallItemIsCallItem DEF Response!CallDone, ResponseProofs!CallDone
  <2>3. \A i : Response!ArgumentsDelta(i) <=> ResponseProofs!ArgumentsDelta(i)
    BY DraftsAreDrafts DEF Response!ArgumentsDelta, ResponseProofs!ArgumentsDelta
  <2>4. \A i : Response!ArgumentsDone(i) <=> ResponseProofs!ArgumentsDone(i)
    BY ZenonT(60), DraftsAreDrafts DEF Response!ArgumentsDone, ResponseProofs!ArgumentsDone
  <2>5. \A i : Response!TextDelta(i) <=> ResponseProofs!TextDelta(i)
    BY ToldIsTold DEF Response!TextDelta, Response!Stream, Response!MaySend, Response!Items, Response!Fragment,
         Response!Unsent, Response!Emit, Response!Event, ResponseProofs!TextDelta,
         ResponseProofs!Stream, ResponseProofs!MaySend, ResponseProofs!Items,
         ResponseProofs!Fragment, ResponseProofs!Unsent, ResponseProofs!Emit, ResponseProofs!Event
  <2>6. \A i, encrypted : Response!ReasoningAdded(i, encrypted) <=> ResponseProofs!ReasoningAdded(i, encrypted)
    BY ToldIsTold DEF Response!ReasoningAdded, Response!Stream, Response!MaySend, Response!Items, Response!Fragment,
         Response!Unsent, Response!Emit, Response!Event, Response!ItemId, Response!Thinks,
         ResponseProofs!ReasoningAdded, ResponseProofs!Stream, ResponseProofs!MaySend,
         ResponseProofs!Items, ResponseProofs!Fragment, ResponseProofs!Unsent, ResponseProofs!Emit,
         ResponseProofs!Event, ResponseProofs!ItemId, ResponseProofs!Thinks
  <2>7. \A i : Response!ReasoningDelta(i) <=> ResponseProofs!ReasoningDelta(i)
    BY ToldIsTold DEF Response!ReasoningDelta, Response!Stream, Response!MaySend, Response!Items, Response!Fragment,
         Response!Unsent, Response!Emit, Response!Event, Response!ItemId, Response!Thinks,
         Response!Thought, Response!DeltaOf, ResponseProofs!ReasoningDelta, ResponseProofs!Stream,
         ResponseProofs!MaySend, ResponseProofs!Items, ResponseProofs!Fragment,
         ResponseProofs!Unsent, ResponseProofs!Emit, ResponseProofs!Event, ResponseProofs!ItemId,
         ResponseProofs!Thinks, ResponseProofs!Thought, ResponseProofs!DeltaOf
  <2>8. \A i : Response!ReasoningPartDone(i) <=> ResponseProofs!ReasoningPartDone(i)
    BY SMTT(40), ToldIsTold DEF Response!ReasoningPartDone, Response!Stream, Response!MaySend, Response!Items, Response!Fragment,
         Response!Unsent, Response!Emit, Response!Event, Response!ItemId, Response!Thinks,
         Response!Thought, ResponseProofs!ReasoningPartDone, ResponseProofs!Stream,
         ResponseProofs!MaySend, ResponseProofs!Items, ResponseProofs!Fragment,
         ResponseProofs!Unsent, ResponseProofs!Emit, ResponseProofs!Event, ResponseProofs!ItemId,
         ResponseProofs!Thinks, ResponseProofs!Thought
  <2>9. \A i : Response!ReasoningDone(i) <=> ResponseProofs!ReasoningDone(i)
    BY ToldIsTold DEF Response!ReasoningDone, Response!Stream, Response!MaySend, Response!Items, Response!Fragment,
         Response!Unsent, Response!Emit, Response!Event, Response!ItemId, Response!Ended,
         ResponseProofs!ReasoningDone, ResponseProofs!Stream, ResponseProofs!MaySend,
         ResponseProofs!Items, ResponseProofs!Fragment, ResponseProofs!Unsent, ResponseProofs!Emit,
         ResponseProofs!Event, ResponseProofs!ItemId, ResponseProofs!Ended
  <2>10. Response!AllCompletions = ResponseProofs!AllCompletions
    BY DEF Response!AllCompletions, Response!Event, Response!StartOf, Response!EndOf, Response!CompletionOf,
         Response!Arguments, ResponseProofs!AllCompletions, ResponseProofs!Event,
         ResponseProofs!StartOf, ResponseProofs!EndOf, ResponseProofs!CompletionOf,
         ResponseProofs!Arguments
  <2>11. Response!Finish <=> ResponseProofs!Finish
    BY ToldIsTold, <2>10 DEF Response!Finish, Response!Stream, Response!Items, Response!Emit, Response!Event,
         Response!AllCompleted, Response!Completed, ResponseProofs!Finish, ResponseProofs!Stream,
         ResponseProofs!Items, ResponseProofs!Emit, ResponseProofs!Event,
         ResponseProofs!AllCompleted, ResponseProofs!Completed
  <2>12. Response!Fail <=> ResponseProofs!Fail
    BY ToldIsTold, <2>10 DEF Response!Fail, Response!Stream, Response!Emit, Response!Event, ResponseProofs!Fail,
         ResponseProofs!Stream, ResponseProofs!Emit, ResponseProofs!Event
  <2>13. Response!Close <=> ResponseProofs!Close
    BY ToldIsTold, <2>10 DEF Response!Close, Response!Stream, Response!Items, Response!Unsent, Response!Gone, Response!Emit,
         Response!Event, ResponseProofs!Close, ResponseProofs!Stream, ResponseProofs!Items,
         ResponseProofs!Unsent, ResponseProofs!Gone, ResponseProofs!Emit, ResponseProofs!Event
  <2>14. Response!Break <=> ResponseProofs!Break
    BY ToldIsTold, <2>10 DEF Response!Break, Response!Stream, Response!Gone, Response!Blank, ResponseProofs!Break,
         ResponseProofs!Stream, ResponseProofs!Gone, ResponseProofs!Blank
  <2> QED
    BY <1>2, DraftsAreDrafts, <2>1, <2>2, <2>3, <2>4, <2>5, <2>6, <2>7, <2>8, <2>9, <2>11, <2>12,
       <2>13, <2>14 DEF Response!Next, ResponseProofs!Next
<1>3. [AgentNext]_agentVars => [ResponseProofs!Next]_(ResponseProofs!vars)
  <2> SUFFICES ASSUME [AgentNext]_agentVars PROVE [ResponseProofs!Next]_(ResponseProofs!vars)
    BY SMTT(40)
  <2>1. CASE Response!Next
    BY <1>2, <2>1
  <2>2. CASE UNCHANGED responding
    BY <2>2 DEF responding, ResponseProofs!vars
  <2> QED
    BY <2>1, <2>2 DEF AgentNext, agentVars, OnlyRuns, OnlyRevert, OnlyFiles, OnlyBackground, OnlyCompaction,
         OnlyLeader, OnlyRouting, OnlyTokens, OnlyGoverned, OnlyResponse
<1> QED
  BY <1>1, <1>3, PTL DEF AgentSpec

\* The message that is stored is the response that was streamed, while nothing else touches it.
THEOREM StoredMessageIsWhole == AgentSpec => []MessageIsWhole
<1>1. ResponseProofs!ResponseAssumption
  BY RuntimeAssumption DEF Response!ResponseAssumption, Response!Whole, Response!Fragment, ResponseProofs!ResponseAssumption,
     ResponseProofs!Whole, ResponseProofs!Fragment
<1>2. /\ \A S : Response!Cardinality(S) = ResponseProofs!Cardinality(S)
      /\ \A f : Response!Range(f) = ResponseProofs!Range(f)
  BY DEF Response!Cardinality, ResponseProofs!Cardinality, Response!Range, ResponseProofs!Range
<1>3. \A kind, id, data, mark : Response!Part(kind, id, data, mark) = ResponseProofs!Part(kind, id, data, mark)
  BY DEF Response!Part, ResponseProofs!Part
<1>4. \A m, kind, id : Response!PartsOf(m, kind, id) = ResponseProofs!PartsOf(m, kind, id)
  BY DEF Response!PartsOf, ResponseProofs!PartsOf
<1>5. \A i : /\ Response!CallIsWhole(i) <=> ResponseProofs!CallIsWhole(i)
             /\ Response!CallIsShownInOrder(i) <=> ResponseProofs!CallIsShownInOrder(i)
  BY <1>2, <1>3, <1>4, DraftsAreDrafts DEF Response!CallIsWhole, Response!CallIsShownInOrder, ResponseProofs!CallIsWhole,
     ResponseProofs!CallIsShownInOrder
<1>6. Response!TextIsKept <=> ResponseProofs!TextIsKept
  BY <1>2, <1>4, DraftsAreDrafts DEF Response!TextIsKept, ResponseProofs!TextIsKept
<1>7. \A i : Response!ReasoningIsReplayed(i) <=> ResponseProofs!ReasoningIsReplayed(i)
  <2>1. Response!Replayed = ResponseProofs!Replayed
    BY DEF Response!Replayed, ResponseProofs!Replayed
  <2> QED
    BY <1>2, <1>4, <2>1, DraftsAreDrafts DEF Response!ReasoningIsReplayed, ResponseProofs!ReasoningIsReplayed
<1>8. ResponseProofs!MessageIsWhole => MessageIsWhole
  BY <1>5, <1>6, <1>7, DraftsAreDrafts DEF MessageIsWhole, Response!MessageIsWhole, ResponseProofs!MessageIsWhole
<1>9. ResponseProofs!Init /\ [][ResponseProofs!Next]_(ResponseProofs!vars) => []ResponseProofs!MessageIsWhole
  BY <1>1, ResponseProofs!StoredMessageIsWhole
<1> QED
  BY <1>8, <1>9, ResponsesAreStreams, PTL

-----------------------------------------------------------------------------
(* The types of every scene.  Those of the runs are proved in              *)
(* AgentLoopProofs, and those of the components that are instantiated with *)
(* their proofs in the modules of these.                                   *)

\* The runs keep their types in the scene of the runs.
LEMMA RunTypesHold == AgentSpec => []TypeOK
<1>1. AgentInit => Init
  BY DEF AgentInit
<1>2. [AgentNext]_agentVars => [Next]_vars
  BY DEF AgentNext, agentVars, OnlyRuns, OnlyRevert, OnlyFiles, OnlyBackground, OnlyCompaction,
         OnlyLeader, OnlyRouting, OnlyTokens, OnlyGoverned, OnlyResponse
<1> QED
  BY <1>1, <1>2, RunTypes, PTL DEF AgentSpec, Spec

\* Compacting and responding keep their types.
LEMMA CompactionTypes == AgentSpec => []Compacting!TypeOK
<1>1. HistoryProofs!TypeOK => Compacting!TypeOK
  BY DEF HistoryProofs!TypeOK, Compacting!TypeOK
<1>2. HistoryProofs!Init /\ [][HistoryProofs!Next]_(HistoryProofs!vars) => []HistoryProofs!TypeOK
  BY CompactionAssumed, HistoryProofs!CompactionTyped
<1> QED
  BY <1>1, <1>2, CompactingIsCompaction, PTL

LEMMA ResponseTypes == AgentSpec => []Response!TypeOK
<1>1. ResponseProofs!TypeOK => Response!TypeOK
  BY DEF ResponseProofs!TypeOK, Response!TypeOK, ResponseProofs!Items, Response!Items,
         ResponseProofs!Whole, Response!Whole, ResponseProofs!Fragment, Response!Fragment
<1>2. ResponseProofs!ResponseAssumption
  BY RuntimeAssumption DEF Response!ResponseAssumption, Response!Whole, Response!Fragment,
     ResponseProofs!ResponseAssumption, ResponseProofs!Whole, ResponseProofs!Fragment
<1>3. ResponseProofs!Init /\ [][ResponseProofs!Next]_(ResponseProofs!vars) => []ResponseProofs!TypeOK
  BY <1>2, ResponseProofs!ResponseTyped
<1> QED
  BY <1>1, <1>3, ResponsesAreStreams, PTL

LEMMA GovernedTypes == AgentSpec => []Governed!TypeOK
<1>1. TaskProofs!TypeOK => Governed!TypeOK
  <2>1. /\ Governed!WritesOf = TaskProofs!WritesOf
        /\ \A w : Governed!Place(w) = TaskProofs!Place(w)
        /\ \A s : Governed!Range(s) = TaskProofs!Range(s)
    BY DEF Governed!WritesOf, TaskProofs!WritesOf, Governed!Place, TaskProofs!Place,
           Governed!Range, TaskProofs!Range
  <2>2. Governed!JiraPlans = TaskProofs!JiraPlans
    BY <2>1 DEF Governed!JiraPlans, TaskProofs!JiraPlans
  <2>3. \A k : Governed!Plans(k) = TaskProofs!Plans(k)
    BY <2>1, <2>2 DEF Governed!Plans, TaskProofs!Plans
  <2> QED
    BY <2>1, <2>3 DEF TaskProofs!TypeOK, Governed!TypeOK
<1>2. TaskProofs!GovernedAssumption
  BY RuntimeAssumption DEF Governed!GovernedAssumption, TaskProofs!GovernedAssumption
<1>3. TaskProofs!Spec => []TaskProofs!TypeOK
  BY <1>2, TaskProofs!TasksAreTyped
<1> QED
  BY <1>1, <1>3, GovernedAreTasks, PTL

SceneIsOne == scene \in {"runs", "revert", "files", "background", "compaction", "leader", "routing",
                         "tokens", "governed", "response"}

\* Every variable keeps its type in its scene, whatever the other components of the runtime
\* do with their own; with what the types of a scene say beyond the sets the variables are
\* of: that the snapshots of reverts have ids of their own and the records that turns and
\* checkpoints refer to are of turns there were, that the background tasks are started once,
\* and that the writes of a governed task that are left to do are the last ones of its plan.
THEOREM TypesAreKept == AgentSpec => []TypesOK
<1>1. RoutesTyped => Routing!TypeOK
  BY DEF RoutesTyped
<1>2. TokensInv => Tokens!TypeOK
  BY DEF TokensInv
<1>3. AgentSpec => []SceneIsOne
  <2>1. AgentInit => SceneIsOne
    BY DEF AgentInit, SceneIsOne
  <2>2. SceneIsOne /\ [AgentNext]_agentVars => SceneIsOne'
    BY DEF SceneIsOne, AgentNext, agentVars, OnlyRuns, OnlyRevert, OnlyFiles, OnlyBackground, OnlyCompaction,
           OnlyLeader, OnlyRouting, OnlyTokens, OnlyGoverned, OnlyResponse
  <2> QED
    BY <2>1, <2>2, PTL DEF AgentSpec
<1>4. /\ SceneIsOne
      /\ TypeOK /\ Revert!TypeOK /\ Files!TypeOK /\ Background!TypeOK /\ Compacting!TypeOK
      /\ Leader!TypeOK /\ Routing!TypeOK /\ Tokens!TypeOK /\ Governed!TypeOK /\ Response!TypeOK
      => TypesOK
  BY DEF TypesOK, SceneIsOne
<1> QED
  BY <1>1, <1>2, <1>3, <1>4, RunTypesHold, RevertTypes, FileTypes, BackgroundTypes, CompactionTypes,
     LeaderTypes, RoutingTypes, TokensHold, GovernedTypes, ResponseTypes, PTL
=============================================================================
