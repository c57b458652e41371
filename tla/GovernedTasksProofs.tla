------------------------- MODULE GovernedTasksProofs -------------------------
(***************************************************************************)
(* TaskIsAccountedFor of GovernedTasks for every set of head commits and   *)
(* any number of pushes.                                                   *)
(***************************************************************************)
EXTENDS GovernedTasks, SequenceTheorems, TLAPS

\* Once the guard has let a review through, and while the head stands still, it is the one
\* that was asked for.
Sighted ==
    at = "write" /\ request.wanted # None /\ answer # "failed" /\ calm => head = request.wanted

\* What comes before the write has written nothing.
Unwritten == at \in {"start", "look", "read", "work", "check"} => written = <<>>

\* Only GitHub reviews name a head, and only Jira reviews read an issue.
Asks ==
    /\ {"kind", "wanted"} \subseteq DOMAIN request
    /\ request.kind # "github" => request.wanted = None
    /\ at = "read" => request.kind = "jira"

\* The writes are a sequence.
ListsWrites == \E S : written \in Seq(S)

\* ReviewIsCurrent over positions.
Current ==
    \A i \in 1..Len(written) :
        request.wanted # None /\ answer # "failed" /\ written[i].calm => written[i].head = request.wanted

\* The inductive invariant.
GuardInv == Sighted /\ Unwritten /\ Asks /\ ListsWrites /\ Current

-----------------------------------------------------------------------------
(* Lemmas.                                                                 *)

\* The positions of a list of writes are all there is of it.
LEMMA CurrentIsEnough == ListsWrites /\ Current => ReviewIsCurrent
<1> SUFFICES ASSUME ListsWrites, Current, NEW w \in Range(written)
             PROVE request.wanted # None /\ answer # "failed" /\ w.calm => w.head = request.wanted
  BY DEF ReviewIsCurrent
<1>1. PICK S : written \in Seq(S)
  BY DEF ListsWrites
<1>2. PICK i \in DOMAIN written : w = written[i]
  BY DEF Range
<1>3. i \in 1..Len(written)
  BY <1>1, <1>2
<1> QED
  BY <1>2, <1>3 DEF Current

\* A step that writes nothing, looks at nothing and leaves the request's head alone keeps what
\* was written current.
LEMMA NothingWritten ==
    ASSUME GuardInv, UNCHANGED <<written, answer>>, request'.wanted = request.wanted
    PROVE ListsWrites' /\ Current'
  BY DEF GuardInv, ListsWrites, Current

\* A write that meets the head the guard saw is current as well.
LEMMA WriteIsCurrent ==
    ASSUME GuardInv, at = "write", NEW w, Take(w), UNCHANGED answer,
           request'.wanted = request.wanted
    PROVE ListsWrites' /\ Current'
<1> DEFINE e == [write |-> w, head |-> head, calm |-> calm]
<1>1. PICK S : written \in Seq(S)
  BY DEF GuardInv, ListsWrites
<1>2. written \in Seq(S \cup {e}) /\ e \in S \cup {e}
  BY <1>1
<1>3. written' = Append(written, e)
  BY DEF Take
<1> HIDE DEF e
<1>4. /\ written' \in Seq(S \cup {e})
      /\ Len(written') = Len(written) + 1
      /\ \A i \in 1..Len(written) : written'[i] = written[i]
      /\ written'[Len(written) + 1] = e
  BY <1>2, <1>3
<1>5. Len(written) \in Nat
  BY <1>1
<1>6. ListsWrites'
  BY <1>4 DEF ListsWrites
<1>7. ASSUME NEW i \in 1..Len(written'), request.wanted # None, answer # "failed", written'[i].calm
      PROVE written'[i].head = request.wanted
  <2>1. CASE i \in 1..Len(written)
    BY <2>1, <1>4, <1>7 DEF GuardInv, Current
  <2>2. CASE i = Len(written) + 1
    <3>1. written'[i] = e
      BY <2>2, <1>4
    <3>2. e.calm = calm /\ e.head = head
      BY DEF e
    <3>3. calm
      BY <3>1, <3>2, <1>7, Zenon
    <3>4. head = request.wanted
      BY <3>3, <1>7, Zenon DEF GuardInv, Sighted
    <3> QED
      BY <3>1, <3>2, <3>4
  <2> QED
    BY <2>1, <2>2, <1>4, <1>5
<1>8. Current'
  BY <1>7 DEF Current
<1> QED
  BY <1>6, <1>8

-----------------------------------------------------------------------------
(* The theorem.                                                            *)

\* The invariant holds at first.
LEMMA GuardInitially == Init => GuardInv
<1> SUFFICES ASSUME Init PROVE GuardInv
  OBVIOUS
<1>1. written = <<>> /\ at = "start" /\ written \in Seq({})
  BY DEF Init
<1>2. ListsWrites
  BY <1>1 DEF ListsWrites
<1>3. Asks
  <2>1. PICK k \in DOMAIN WritesOf :
          request \in [kind : {k}, wanted : IF k = "github" THEN Heads \cup {None} ELSE {None},
                      plan : Plans(k), denied : SUBSET Range(WritesOf[k])]
    BY DEF Init, Requests
  <2> QED
    BY <1>1, <2>1 DEF Asks
<1> QED
  BY <1>1, <1>2, <1>3 DEF GuardInv, Sighted, Unwritten, Current

\* Every step keeps it.
LEMMA GuardIsKept == GuardInv /\ [Next]_vars => GuardInv'
<1> SUFFICES ASSUME GuardInv, [Next]_vars PROVE GuardInv'
  OBVIOUS
<1> USE DEF outside, history
<1>1. CASE UNCHANGED vars
  BY <1>1 DEF vars, GuardInv, Sighted, Unwritten, Asks, ListsWrites, Current
<1>2. CASE Admit
  <2>1. ListsWrites' /\ Current'
    BY <1>2, NothingWritten DEF Admit
  <2>2. Sighted' /\ Unwritten'
    BY <1>2 DEF Admit, GuardInv, Sighted, Unwritten
  <2>3. Asks'
    BY <1>2 DEF Admit, GuardInv, Asks
  <2> QED
    BY <2>1, <2>2, <2>3 DEF GuardInv
<1>3. CASE Block \/ Refuse
  <2>1. at' = "over" /\ UNCHANGED <<request, history>>
    BY <1>3 DEF Block, Refuse, Finish
  <2>2. ListsWrites' /\ Current'
    BY <2>1, NothingWritten
  <2> QED
    BY <2>1, <2>2 DEF GuardInv, Sighted, Unwritten, Asks
<1>4. CASE Look
  <2>1. at \in {"look", "check"} /\ UNCHANGED <<request, head, written>>
    BY <1>4 DEF Look
  <2>2. written = <<>>
    BY <2>1 DEF GuardInv, Unwritten
  <2>3. ListsWrites' /\ Current'
    BY <2>1, <2>2 DEF GuardInv, ListsWrites, Current
  <2>4. Unwritten'
    BY <2>1, <2>2 DEF Unwritten
  <2>5. Sighted'
    BY <1>4 DEF Look, Finish, Go, Sighted
  <2>6. at' # "read"
    BY <1>4 DEF Look, Finish, Go
  <2> QED
    BY <2>1, <2>3, <2>4, <2>5, <2>6 DEF GuardInv, Asks
<1>5. CASE Work
  <2>1. at = "work" /\ UNCHANGED <<request, written, answer>>
    BY <1>5 DEF Work
  <2>2. ListsWrites' /\ Current'
    BY <2>1, NothingWritten
  <2>3. Unwritten'
    BY <2>1 DEF GuardInv, Unwritten
  <2>4. Sighted' /\ at' # "read"
    BY <1>5 DEF Work, Go, Finish, AfterSkill, Sighted
  <2> QED
    BY <2>1, <2>2, <2>3, <2>4 DEF GuardInv, Asks
<1>6. CASE Delegated
  <2>1. at = "work" /\ at' = "over" /\ UNCHANGED <<request, written, answer>>
    BY <1>6 DEF Delegated, Finish
  <2>2. ListsWrites' /\ Current'
    BY <2>1, NothingWritten
  <2> QED
    BY <2>1, <2>2 DEF GuardInv, Sighted, Unwritten, Asks
<1>7. CASE ReadIssue
  <2>1. at = "read" /\ at' \in {"write", "over"} /\ UNCHANGED <<written, answer>>
    BY <1>7 DEF ReadIssue, Continue, Finish, Go
  <2>2. \/ request' = request
        \/ \E plan : request' = [request EXCEPT !.plan = plan]
    BY <1>7 DEF ReadIssue
  <2>3. {"kind", "wanted"} \subseteq DOMAIN request' /\ request'.kind = request.kind
        /\ request'.wanted = request.wanted
    BY <2>2 DEF GuardInv, Asks
  <2>4. request.wanted = None
    BY <2>1 DEF GuardInv, Asks
  <2>5. ListsWrites' /\ Current'
    BY <2>1, <2>3, NothingWritten
  <2> QED
    BY <2>1, <2>3, <2>4, <2>5 DEF GuardInv, Sighted, Unwritten, Asks
<1>8. CASE Gated
  <2>1. at = "write" /\ at' \in {"write", "over"} /\ UNCHANGED <<request, head, written, answer, calm>>
    BY <1>8 DEF Gated, Continue, Finish, Go
  <2>2. ListsWrites' /\ Current'
    BY <2>1, NothingWritten
  <2> QED
    BY <2>1, <2>2 DEF GuardInv, Sighted, Unwritten, Asks
<1>9. CASE Write
  <2>1. at = "write" /\ at' \in {"write", "over"} /\ UNCHANGED <<request, head, answer, calm>>
    BY <1>9 DEF Write, Continue, Finish, Go
  <2>2. UNCHANGED written \/ Take(todo[1])
    BY <1>9 DEF Write
  <2>3. ListsWrites' /\ Current'
    BY <2>1, <2>2, NothingWritten, WriteIsCurrent
  <2> QED
    BY <2>1, <2>3 DEF GuardInv, Sighted, Unwritten, Asks
<1>10. CASE Push
  <2>1. calm' = FALSE /\ UNCHANGED <<request, at, written, answer>>
    BY <1>10 DEF Push
  <2>2. ListsWrites' /\ Current'
    BY <2>1, NothingWritten
  <2> QED
    BY <2>1, <2>2 DEF GuardInv, Sighted, Unwritten, Asks
<1>11. CASE Cancel \/ Crash
  <2>1. at' = "cut" /\ UNCHANGED <<request, head, answer, calm>>
    BY <1>11 DEF Cancel, Crash, Cut
  <2>2. UNCHANGED written \/ (at = "write" /\ Take(todo[1]))
    BY <1>11 DEF Cancel, Crash, Cut
  <2>3. ListsWrites' /\ Current'
    BY <2>1, <2>2, NothingWritten, WriteIsCurrent
  <2> QED
    BY <2>1, <2>3 DEF GuardInv, Sighted, Unwritten, Asks
<1> QED
  BY <1>1, <1>2, <1>3, <1>4, <1>5, <1>6, <1>7, <1>8, <1>9, <1>10, <1>11 DEF Next

\* A review is written to the pull request it was made for, or nobody could have known
\* (github_review.py: the guard before the write), for all head commits and pushes.
THEOREM ReviewsAreCurrent == Spec => []ReviewIsCurrent
<1>1. GuardInv => ReviewIsCurrent
  BY CurrentIsEnough DEF GuardInv
<1> QED
  BY <1>1, GuardInitially, GuardIsKept, PTL DEF Spec

-----------------------------------------------------------------------------
(* What became of each write.  The writes a task has done or was forbidden *)
(* come before those it has still to do, and every one that happened has   *)
(* been reported when it comes to the next.                                *)

\* The writes a task is through with.
Through == Len(request.plan) - Len(todo)

IsPlan(plan) == (\E S : plan \in Seq(S)) /\ IsInjective(plan)

Asked ==
    /\ DOMAIN request = {"kind", "wanted", "plan", "denied"} /\ IsPlan(request.plan)
    /\ \A p \in JiraPlans : IsPlan(p)
    /\ request.kind \in {"github", "event"} => request.plan # <<>>
    /\ request.kind = "delegation" => request.plan = <<>>
    /\ request.kind # "github" => request.wanted = None
    /\ at = "read" => request.kind = "jira"
    /\ at \in {"look", "check"} => request.kind = "github"
    /\ at = "check" => todo = request.plan
    /\ status # "none" <=> at = "over"

Listed == (\E S : written \in Seq(S)) /\ (\E S : applied \in Seq(S)) /\ (\E S : todo \in Seq(S))

Untouched == at \in {"start", "look", "read", "work", "check"} => written = <<>> /\ applied = <<>>

\* The write at place i was done or, if the task can do without, forbidden.
Settled(i) ==
    \/ request.plan[i] \in Outcome("success")
    \/ Optional(request.plan[i]) /\ request.plan[i] \in Outcome("blocked")

AboutToWrite == at = "write" =>
    /\ todo # <<>> /\ Through \in Nat
    /\ \A k \in 1..Len(todo) : todo[k] = request.plan[Through + k]
    /\ \A i \in 1..Through : Settled(i)
    /\ \A w \in Written \cup Outcome("blocked") : \E i \in 1..Through : w = request.plan[i]
    /\ Written = Outcome("success")

AccountInv == Asked /\ Listed /\ Untouched /\ AboutToWrite /\ WritesAreReported

LEMMA RangeOfAppend ==
  ASSUME NEW S, NEW s \in Seq(S), NEW e
  PROVE  Range(Append(s, e)) = Range(s) \cup {e}
<1>1. s \in Seq(S \cup {e}) /\ e \in S \cup {e}
  OBVIOUS
<1>2. /\ Append(s, e) \in Seq(S \cup {e}) /\ Len(Append(s, e)) = Len(s) + 1 /\ Len(s) \in Nat
      /\ \A i \in 1..Len(s) : Append(s, e)[i] = s[i]
      /\ Append(s, e)[Len(s) + 1] = e
  BY <1>1, AppendProperties
<1>3. DOMAIN Append(s, e) = 1..(Len(s) + 1) /\ DOMAIN s = 1..Len(s)
  BY <1>1, <1>2
<1>4. \A i \in 1..(Len(s) + 1) : i \in 1..Len(s) \/ i = Len(s) + 1
  BY <1>2
<1>5. Len(s) + 1 \in 1..(Len(s) + 1) /\ \A i \in 1..Len(s) : i \in 1..(Len(s) + 1)
  BY <1>2
<1> QED
  BY <1>2, <1>3, <1>4, <1>5 DEF Range

\* What a task tells of a write, and nothing else.
LEMMA TellAdds ==
  ASSUME Listed, NEW outcome, Tell(outcome)
  PROVE  /\ \E S : applied' \in Seq(S)
         /\ Outcome(outcome)' = Outcome(outcome) \cup {todo[1]}
         /\ \A o : o # outcome => Outcome(o)' = Outcome(o)
<1> DEFINE e == [write |-> todo[1], outcome |-> outcome]
<1>1. PICK S : applied \in Seq(S)
  BY DEF Listed
<1>2. applied' = Append(applied, e)
  BY DEF Tell
<1>3. e.write = todo[1] /\ e.outcome = outcome
  OBVIOUS
<1> HIDE DEF e
<1>4. Range(applied') = Range(applied) \cup {e}
  BY <1>1, <1>2, RangeOfAppend
<1>5. applied' \in Seq(S \cup {e})
  BY <1>1, <1>2
<1>6. \A o : Outcome(o)' = {a.write : a \in {b \in Range(applied') : b.outcome = o}}
  BY DEF Outcome
<1>7. Outcome(outcome)' = Outcome(outcome) \cup {todo[1]}
  BY <1>3, <1>4, <1>6 DEF Outcome
<1>8. \A o : o # outcome => Outcome(o)' = Outcome(o)
  BY <1>3, <1>4, <1>6 DEF Outcome
<1> QED
  BY <1>5, <1>7, <1>8

\* A write happens, for the first time.
LEMMA TakeAdds ==
  ASSUME Listed, NEW w, Take(w), w \notin Written, IsInjective([i \in DOMAIN written |-> written[i].write])
  PROVE  /\ \E S : written' \in Seq(S)
         /\ Written' = Written \cup {w}
         /\ IsInjective([i \in DOMAIN written |-> written[i].write])'
<1> DEFINE e == [write |-> w, head |-> head, calm |-> calm]
<1>1. PICK S : written \in Seq(S)
  BY DEF Listed
<1>2. written' = Append(written, e)
  BY DEF Take
<1>3. e.write = w
  OBVIOUS
<1> HIDE DEF e
<1>4. Range(written') = Range(written) \cup {e}
  BY <1>1, <1>2, RangeOfAppend
<1>5. written' \in Seq(S \cup {e}) /\ written \in Seq(S \cup {e})
  BY <1>1, <1>2
<1>6. Written' = Written \cup {w}
  BY <1>3, <1>4 DEF Written
<1>7. /\ DOMAIN written = 1..Len(written) /\ DOMAIN written' = 1..(Len(written) + 1) /\ Len(written) \in Nat
      /\ \A i \in 1..Len(written) : written'[i] = written[i]
      /\ written'[Len(written) + 1] = e
  BY <1>2, <1>5
<1>8. \A i \in 1..Len(written) : written[i].write # w
  BY <1>7 DEF Written, Range
<1>9. ASSUME NEW i \in 1..(Len(written) + 1), NEW j \in 1..(Len(written) + 1),
             written'[i].write = written'[j].write
      PROVE  i = j
  <2>1. \A k \in 1..(Len(written) + 1) : k \in 1..Len(written) \/ k = Len(written) + 1
    BY <1>7
  <2>2. \A k, l \in 1..Len(written) : written[k].write = written[l].write => k = l
    BY <1>7 DEF IsInjective
  <2> QED
    BY <1>3, <1>7, <1>8, <1>9, <2>1, <2>2
<1>10. IsInjective([i \in DOMAIN written' |-> written'[i].write])
  BY <1>7, <1>9 DEF IsInjective
<1> QED
  BY <1>5, <1>6, <1>10

\* Nothing was written and nothing told.
LEMMA NothingYet ==
  ASSUME written = <<>>, applied = <<>>
  PROVE  /\ Written = {} /\ \A o : Outcome(o) = {}
         /\ IsInjective([i \in DOMAIN written |-> written[i].write])
<1>1. \A i : i \notin DOMAIN written /\ i \notin DOMAIN applied
  OBVIOUS
<1> QED
  BY <1>1 DEF Written, Outcome, Range, IsInjective

\* A step that writes and tells nothing, and does not come to success.
LEMMA ReportsStay ==
  ASSUME WritesAreReported, UNCHANGED <<written, applied, request>>,
         status' # "success", status' = "blocked" => written = <<>>,
         at' = "over" /\ request.kind # "event" => Written \subseteq Outcome("success") \cup Outcome("failed")
  PROVE  WritesAreReported'
<1>1. Written' = Written /\ \A o : Outcome(o)' = Outcome(o)
  BY DEF Written, Outcome
<1> QED
  BY <1>1 DEF WritesAreReported

\* A step before any write.
LEMMA StillUntouched ==
  ASSUME AccountInv, at \in {"start", "look", "read", "work", "check"}, UNCHANGED <<written, applied>>,
         DOMAIN request' = {"kind", "wanted", "plan", "denied"},
         status' = "success" => request'.plan = <<>>
  PROVE  /\ WritesAreReported' /\ written' = <<>> /\ applied' = <<>>
         /\ Written' = {} /\ \A o : Outcome(o)' = {}
<1>1. written = <<>> /\ applied = <<>>
  BY DEF AccountInv, Untouched
<1>2. /\ Written = {} /\ \A o : Outcome(o) = {}
      /\ IsInjective([i \in DOMAIN written |-> written[i].write])
  BY <1>1, NothingYet
<1>3. Written' = {} /\ \A o : Outcome(o)' = {}
  BY <1>2 DEF Written, Outcome
<1>4. status' = "success" => Range(request'.plan) = {}
  BY DEF Range
<1> QED
  BY <1>1, <1>2, <1>3, <1>4 DEF WritesAreReported

\* A task that begins to write its plan.
LEMMA BeginsToWrite ==
  ASSUME at' = "write", IsPlan(request'.plan), todo' = request'.plan, todo' # <<>>,
         Written' = {}, \A o : Outcome(o)' = {}
  PROVE  AboutToWrite'
<1>1. Through' = 0
  BY DEF Through, IsPlan
<1> QED
  BY <1>1 DEF AboutToWrite, IsPlan

LEMMA JiraPlansArePlans == \A p \in JiraPlans : IsPlan(p)
<1> SUFFICES ASSUME NEW p \in JiraPlans PROVE IsPlan(p)
  OBVIOUS
<1> DEFINE T == Range(WritesOf.jira)
<1>1. /\ \E n \in 0..4 : p \in [1..n -> T]
      /\ \A i, j \in DOMAIN p : i < j => Place(p[i]) < Place(p[j])
  BY DEF JiraPlans
<1>2. PICK n \in 0..4 : p \in [1..n -> T]
  BY <1>1
<1>3. \A w \in T : Place(w) \in 1..4
  <2> SUFFICES ASSUME NEW w \in T PROVE Place(w) \in 1..4
    OBVIOUS
  <2>1. WritesOf.jira = <<"comment", "fields", "transition", "assignee">>
    BY DEF WritesOf
  <2>2. DOMAIN WritesOf.jira = 1..4
    BY <2>1
  <2>3. \E i \in 1..4 : WritesOf.jira[i] = w
    BY <2>2 DEF Range
  <2> QED
    BY <2>3 DEF Place
<1> HIDE DEF T
<1>4. p \in Seq(T)
  BY <1>2
<1>5. ASSUME NEW i \in DOMAIN p, NEW j \in DOMAIN p, p[i] = p[j] PROVE i = j
  <2>1. i \in Int /\ j \in Int /\ p[i] \in T /\ p[j] \in T
    BY <1>2
  <2>2. Place(p[i]) \in Int /\ Place(p[j]) = Place(p[i])
    BY <1>3, <1>5, <2>1
  <2>3. ~(i < j) /\ ~(j < i)
    BY <1>1, <2>2
  <2> QED
    BY <2>1, <2>3
<1> QED
  BY <1>4, <1>5 DEF IsPlan, IsInjective

LEMMA AccountInitially == Init => AccountInv
<1> SUFFICES ASSUME Init PROVE AccountInv
  OBVIOUS
<1>1. /\ written = <<>> /\ applied = <<>> /\ todo = <<>> /\ at = "start" /\ status = "none"
  BY DEF Init
<1>2. PICK k \in DOMAIN WritesOf :
        request \in [kind : {k}, wanted : IF k = "github" THEN Heads \cup {None} ELSE {None},
                     plan : Plans(k), denied : SUBSET Range(WritesOf[k])]
  BY DEF Init, Requests
<1>3. request.plan \in Plans(k) /\ request.kind = k /\ (k # "github" => request.wanted = None)
      /\ DOMAIN request = {"kind", "wanted", "plan", "denied"}
  BY <1>2
<1>4. /\ IsPlan(request.plan) /\ (k \in {"github", "event"} => request.plan # <<>>)
      /\ (k = "delegation" => request.plan = <<>>)
  <2>1. CASE k = "jira"
    BY <1>3, <2>1, JiraPlansArePlans DEF Plans
  <2>2. CASE k \in {"delegation", "other"}
    <3>1. request.plan = <<>>
      BY <1>3, <2>2 DEF Plans, WritesOf
    <3>2. request.plan \in Seq({}) /\ DOMAIN request.plan = {}
      BY <3>1
    <3> QED
      BY <2>2, <3>1, <3>2 DEF IsPlan, IsInjective
  <2>3. CASE k \in {"github", "event"}
    <3>1. PICK w \in {"review", "reply"} : request.plan = <<w>>
      BY <1>3, <2>3 DEF Plans, WritesOf
    <3>2. request.plan \in Seq({w}) /\ DOMAIN request.plan = {1} /\ request.plan # <<>>
      BY <3>1
    <3> QED
      BY <2>3, <3>2 DEF IsPlan, IsInjective
  <2> QED
    BY <1>2, <2>1, <2>2, <2>3 DEF WritesOf
<1>5. Asked
  BY <1>1, <1>3, <1>4, JiraPlansArePlans DEF Asked
<1>6. Listed
  <2>1. <<>> \in Seq({})
    OBVIOUS
  <2> QED
    BY <1>1, <2>1 DEF Listed
<1>7. WritesAreReported
  <2>1. /\ Written = {} /\ \A o : Outcome(o) = {}
        /\ IsInjective([i \in DOMAIN written |-> written[i].write])
    BY <1>1, NothingYet
  <2> QED
    BY <1>1, <2>1 DEF WritesAreReported
<1> QED
  BY <1>1, <1>5, <1>6, <1>7 DEF AccountInv, Untouched, AboutToWrite

\* Where a task is that is about to write.
LEMMA AtTheWrite ==
  ASSUME AccountInv, at = "write"
  PROVE  /\ Through \in Nat /\ Len(todo) \in Nat \ {0} /\ Len(request.plan) = Through + Len(todo)
         /\ DOMAIN request.plan = 1..Len(request.plan) /\ Through + 1 \in DOMAIN request.plan
         /\ todo[1] = request.plan[Through + 1]
         /\ \A i \in 1..Through : request.plan[i] # todo[1]
         /\ todo[1] \notin Written /\ todo[1] \notin Outcome("blocked") /\ Outcome("success") = Written
<1>1. PICK S, T : todo \in Seq(S) /\ request.plan \in Seq(T)
  BY DEF AccountInv, Listed, Asked, IsPlan
<1>2. todo # <<>> /\ Len(todo) \in Nat \ {0} /\ Len(request.plan) \in Nat
  BY <1>1 DEF AccountInv, AboutToWrite
<1>3. Through \in Nat /\ Len(request.plan) = Through + Len(todo)
  <2>1. Through \in Nat
    BY DEF AccountInv, AboutToWrite
  <2> QED
    BY <1>2, <2>1 DEF Through
<1>4. DOMAIN request.plan = 1..Len(request.plan) /\ Through + 1 \in DOMAIN request.plan
  BY <1>1, <1>2, <1>3
<1>5. todo[1] = request.plan[Through + 1]
  BY <1>2 DEF AccountInv, AboutToWrite
<1>6. \A i \in 1..Through : request.plan[i] # todo[1]
  <2> SUFFICES ASSUME NEW i \in 1..Through, request.plan[i] = request.plan[Through + 1] PROVE FALSE
    BY <1>5
  <2>1. i \in DOMAIN request.plan
    BY <1>3, <1>2, <1>4
  <2>2. i = Through + 1
    BY <1>4, <2>1 DEF AccountInv, Asked, IsPlan, IsInjective
  <2> QED
    BY <1>3, <2>2
<1>7. todo[1] \notin Written /\ todo[1] \notin Outcome("blocked") /\ Outcome("success") = Written
  BY <1>6 DEF AccountInv, AboutToWrite
<1> QED
  BY <1>2, <1>3, <1>4, <1>5, <1>6, <1>7

\* A write that was done, or forbidden and not needed, is settled, and the next one comes.
LEMMA WriteIsSettled ==
  ASSUME AccountInv, at = "write", UNCHANGED request, Continue(Tail(todo)),
         \/ /\ Written' = Written \cup {todo[1]} /\ todo[1] \notin request.denied
            /\ Outcome("success")' = Outcome("success") \cup {todo[1]}
            /\ Outcome("blocked")' = Outcome("blocked")
         \/ /\ Written' = Written /\ Optional(todo[1])
            /\ Outcome("success")' = Outcome("success")
            /\ Outcome("blocked")' = Outcome("blocked") \cup {todo[1]},
         Outcome("failed")' = Outcome("failed"),
         IsInjective([i \in DOMAIN written |-> written[i].write])'
  PROVE  AboutToWrite' /\ WritesAreReported' /\ \E S : todo' \in Seq(S)
<1>a. PICK d, w, plan : d = Through /\ w = todo[1] /\ plan = request.plan
  OBVIOUS
<1>0. /\ d \in Nat /\ Len(todo) \in Nat \ {0} /\ Len(plan) = d + Len(todo)
      /\ DOMAIN plan = 1..Len(plan) /\ d + 1 \in DOMAIN plan
      /\ w = plan[d + 1]
      /\ \A i \in 1..d : plan[i] # w
      /\ w \notin Written /\ w \notin Outcome("blocked") /\ Outcome("success") = Written
  BY <1>a, AtTheWrite
<1>1. PICK S : todo \in Seq(S)
  BY DEF AccountInv, Listed
<1>2. /\ todo' = Tail(todo) /\ todo' \in Seq(S) /\ Len(todo') = Len(todo) - 1
      /\ \A k \in 1..Len(todo') : todo'[k] = todo[k + 1]
  BY <1>0, <1>1 DEF Continue
<1>3. Through' = d + 1
  BY <1>a, <1>0, <1>2 DEF Through
<1>4. /\ \A i \in 1..d : Settled(i)
      /\ \A x \in Written \cup Outcome("blocked") : \E i \in 1..d : x = plan[i]
      /\ \A k \in 1..Len(todo) : todo[k] = plan[d + k]
      /\ \A i, j \in DOMAIN plan : plan[i] = plan[j] => i = j
  BY <1>a DEF AccountInv, AboutToWrite, Asked, IsPlan, IsInjective
<1>5. \A i : Settled(i) => Settled(i)'
  BY DEF Settled, Optional
<1>6. Settled(d + 1)'
  BY <1>a, <1>0 DEF Settled, Optional
<1>7. \A i \in 1..(d + 1) : i \in 1..d \/ i = d + 1
  BY <1>0
<1>8. \A i \in 1..(d + 1) : Settled(i)'
  BY <1>4, <1>5, <1>6, <1>7
<1>9. Written' = Outcome("success")' /\ \A x \in (Written \cup Outcome("blocked"))' : x \in Written \cup Outcome("blocked") \/ x = w
  BY <1>a, <1>0
<1>10. \A x \in (Written \cup Outcome("blocked"))' : \E i \in 1..(d + 1) : x = plan[i]
  <2>1. \A i \in 1..d : i \in 1..(d + 1)
    BY <1>0
  <2>2. d + 1 \in 1..(d + 1)
    BY <1>0
  <2> QED
    BY <1>0, <1>4, <1>9, <2>1, <2>2
<1>11. \A k \in 1..Len(todo') : todo'[k] = plan[(d + 1) + k]
  <2> SUFFICES ASSUME NEW k \in 1..Len(todo') PROVE todo'[k] = plan[(d + 1) + k]
    OBVIOUS
  <2>1. k + 1 \in 1..Len(todo) /\ d + (k + 1) = (d + 1) + k
    BY <1>0, <1>2
  <2> QED
    BY <1>2, <1>4, <2>1
<1>12. AboutToWrite'
  <2> SUFFICES ASSUME at' = "write" PROVE AboutToWrite'
    BY DEF AboutToWrite
  <2>1. todo' # <<>>
    BY <1>2 DEF Continue, Finish
  <2>2. d + 1 \in Nat
    BY <1>0
  <2>3. plan = request'.plan
    BY <1>a
  <2> QED
    BY <1>3, <1>8, <1>9, <1>10, <1>11, <2>1, <2>2, <2>3 DEF AboutToWrite
<1>13. \A i, j \in DOMAIN plan : i < j /\ plan[j] \in Written' => Settled(i)'
  <2> SUFFICES ASSUME NEW i \in DOMAIN plan, NEW j \in DOMAIN plan, i < j, plan[j] \in Written' PROVE Settled(i)'
    OBVIOUS
  <2>1. PICK k \in 1..(d + 1) : plan[j] = plan[k]
    BY <1>10
  <2>2. k \in DOMAIN plan
    BY <1>0
  <2>3. j = k
    BY <1>4, <2>1, <2>2
  <2>4. i \in 1..(d + 1)
    BY <1>0, <2>3
  <2> QED
    BY <1>8, <2>4
<1>14. status' = "success" =>
         /\ Range(plan) = Written' \cup Outcome("blocked")'
         /\ Outcome("blocked")' \subseteq {x \in Range(plan) : Optional(x) \/ x \in Written'}
  <2> SUFFICES ASSUME status' = "success"
               PROVE  /\ Range(plan) = Written' \cup Outcome("blocked")'
                      /\ Outcome("blocked")' \subseteq {x \in Range(plan) : Optional(x) \/ x \in Written'}
    OBVIOUS
  <2>1. todo' = <<>>
    <3>1. status = "none"
      BY DEF AccountInv, Asked
    <3> QED
      BY <1>2, <3>1 DEF Continue, Go
  <2>2. Len(todo') = 0 /\ Len(plan) = d + 1
    <3>1. Len(todo') = 0
      BY <2>1
    <3>2. Len(todo) = 1
      BY <1>0, <1>2, <3>1
    <3> QED
      BY <1>0, <3>1, <3>2
  <2>3. \A i \in 1..(d + 1) : plan[i] \in Written' \cup Outcome("blocked")'
    BY <1>8, <1>9, <1>a DEF Settled
  <2>4. \A x \in Written' \cup Outcome("blocked")' : x \in Range(plan)
    BY <1>0, <1>10, <2>2 DEF Range
  <2>5. \A x \in Range(plan) : x \in Written' \cup Outcome("blocked")'
    BY <1>0, <2>2, <2>3 DEF Range
  <2>6. \A x \in Range(plan) : Optional(x) \/ x \in Written'
    <3>1. \A i \in 1..(d + 1) : Optional(plan[i]) \/ plan[i] \in Written'
      BY <1>8, <1>9, <1>a DEF Settled, Optional
    <3> QED
      BY <1>0, <2>2, <3>1 DEF Range
  <2> QED
    BY <2>4, <2>5, <2>6
<1>15. WritesAreReported'
  <2>1. Written \cap request.denied = {}
    BY DEF AccountInv, WritesAreReported
  <2>2. Written' \cap request'.denied = {}
    BY <2>1
  <2>3. status' # "blocked"
    <3>1. status = "none"
      BY DEF AccountInv, Asked
    <3> QED
      BY <3>1 DEF Continue, Finish, Go
  <2> QED
    BY <1>9, <1>13, <1>14, <2>2, <2>3, <1>a DEF WritesAreReported, Settled, Optional
<1> QED
  BY <1>2, <1>12, <1>15

\* A task that ends, or is cut short, where it was about to write.
LEMMA WriteIsLast ==
  ASSUME AccountInv, at = "write", UNCHANGED request, status' \in {"none", "error"},
         Written' = Written \/ (Written' = Written \cup {todo[1]} /\ todo[1] \notin request.denied),
         Outcome("success")' = Outcome("success"), Outcome("blocked") \subseteq Outcome("blocked")',
         Outcome("failed") \subseteq Outcome("failed")',
         at' = "over" /\ request.kind # "event" /\ todo[1] \in Written' => todo[1] \in Outcome("failed")',
         IsInjective([i \in DOMAIN written |-> written[i].write])'
  PROVE  WritesAreReported'
<1> DEFINE w == todo[1]  plan == request.plan  d == Through
<1>0. /\ d \in Nat /\ DOMAIN plan = 1..Len(plan) /\ d + 1 \in DOMAIN plan
      /\ w = plan[d + 1] /\ Outcome("success") = Written
  BY AtTheWrite
<1>1. /\ \A i \in 1..d : Settled(i)
      /\ \A i, j \in DOMAIN plan : plan[i] = plan[j] => i = j
  BY DEF AccountInv, AboutToWrite, Asked, IsPlan, IsInjective
<1>2. \A i : Settled(i) => Settled(i)'
  BY DEF Settled
<1> HIDE DEF d
<1>3. \A i, j \in DOMAIN plan : i < j /\ plan[j] \in Written' => Settled(i)'
  <2> SUFFICES ASSUME NEW i \in DOMAIN plan, NEW j \in DOMAIN plan, i < j, plan[j] \in Written' PROVE Settled(i)'
    OBVIOUS
  <2>1. CASE plan[j] \in Written
    BY <1>2, <2>1 DEF AccountInv, WritesAreReported, Settled
  <2>2. CASE plan[j] = w
    <3>1. j = d + 1
      BY <1>0, <1>1, <2>2
    <3>2. i \in 1..d
      BY <1>0, <3>1
    <3> QED
      BY <1>1, <1>2, <3>2
  <2> QED
    BY <2>1, <2>2
<1>4. Written \cap request.denied = {}
  BY DEF AccountInv, WritesAreReported
<1>5. Written' \cap request'.denied = {}
  BY <1>4
<1>6. at' = "over" /\ request.kind # "event" => Written' \subseteq Outcome("success")' \cup Outcome("failed")'
  BY <1>0
<1>7. Outcome("success")' \subseteq Written'
  BY <1>0
<1> QED
  BY <1>3, <1>5, <1>6, <1>7 DEF WritesAreReported, Settled

\* Every step keeps it.
LEMMA AccountIsKept == AccountInv /\ [Next]_vars => AccountInv'
<1> SUFFICES ASSUME AccountInv, [Next]_vars PROVE AccountInv'
  OBVIOUS
<1> USE DEF outside, history
<1>0. /\ DOMAIN request = {"kind", "wanted", "plan", "denied"} /\ IsPlan(request.plan)
      /\ status # "none" <=> at = "over"
  BY DEF AccountInv, Asked
<1>1. CASE UNCHANGED vars
  <2>1. Written' = Written /\ \A o : Outcome(o)' = Outcome(o)
    BY <1>1 DEF vars, Written, Outcome
  <2> QED
    BY <1>1, <2>1 DEF vars, AccountInv, Asked, Listed, Untouched, AboutToWrite, Through, Settled, WritesAreReported
<1>2. CASE Admit
  <2>1. /\ at = "start" /\ UNCHANGED <<request, todo, written, applied, status>>
        /\ at' = CASE request.kind = "jira" -> "read"
                   [] request.wanted # None -> "look"
                   [] OTHER -> "work"
    BY <1>2 DEF Admit
  <2>2. WritesAreReported' /\ written' = <<>> /\ applied' = <<>>
    BY <1>0, <2>1, StillUntouched
  <2>3. at' \in {"read", "look", "work"} /\ (at' = "read" => request.kind = "jira")
        /\ (at' = "look" => request.kind = "github")
    BY <2>1 DEF AccountInv, Asked
  <2> QED
    BY <2>1, <2>2, <2>3 DEF AccountInv, Asked, Listed, Untouched, AboutToWrite
<1>3. CASE Block \/ Refuse
  <2>1. /\ at = "start" /\ at' = "over" /\ UNCHANGED <<request, todo, written, applied>>
        /\ status' \in {"blocked", "error"}
    BY <1>3 DEF Block, Refuse, Finish
  <2>2. WritesAreReported' /\ written' = <<>> /\ applied' = <<>>
    BY <1>0, <2>1, StillUntouched
  <2> QED
    BY <2>1, <2>2 DEF AccountInv, Asked, Listed, Untouched, AboutToWrite
<1>4. CASE Look
  <2>1. /\ at \in {"look", "check"} /\ UNCHANGED <<request, todo, written, applied>>
        /\ \/ at = "look" /\ at' = "work" /\ UNCHANGED status
           \/ at = "check" /\ at' = "write" /\ UNCHANGED status
           \/ at' = "over" /\ status' = "error"
    BY <1>4 DEF Look, Go, Finish
  <2>2. WritesAreReported' /\ written' = <<>> /\ applied' = <<>> /\ Written' = {} /\ \A o : Outcome(o)' = {}
    BY <1>0, <2>1, StillUntouched
  <2>3. AboutToWrite'
    <3>1. CASE at' = "write"
      <4>1. at = "check" /\ todo = request.plan /\ request.plan # <<>>
        BY <2>1, <3>1 DEF AccountInv, Asked
      <4> QED
        BY <1>0, <2>1, <2>2, <3>1, <4>1, BeginsToWrite
    <3>2. CASE at' # "write"
      BY <3>2 DEF AboutToWrite
    <3> QED
      BY <3>1, <3>2
  <2> QED
    BY <2>1, <2>2, <2>3 DEF AccountInv, Asked, Listed, Untouched
<1>5. CASE Work
  <2>1. /\ at = "work" /\ request.kind \in {"github", "event"} /\ UNCHANGED <<request, written, applied>>
        /\ \/ /\ at' = (IF request.wanted # None THEN "check" ELSE "write") /\ todo' = request.plan
              /\ UNCHANGED status
           \/ at' = "over" /\ status' = "error" /\ UNCHANGED todo
    BY <1>5 DEF Work, Go, Finish, AfterSkill
  <2>2. WritesAreReported' /\ written' = <<>> /\ applied' = <<>> /\ Written' = {} /\ \A o : Outcome(o)' = {}
    BY <1>0, <2>1, StillUntouched
  <2>3. request.plan # <<>> /\ (request.wanted # None => request.kind = "github")
    BY <2>1 DEF AccountInv, Asked
  <2>4. AboutToWrite'
    <3>1. CASE at' = "write"
      <4>1. todo' = request.plan
        BY <2>1, <3>1
      <4> QED
        BY <1>0, <2>1, <2>2, <2>3, <3>1, <4>1, BeginsToWrite
    <3>2. CASE at' # "write"
      BY <3>2 DEF AboutToWrite
    <3> QED
      BY <3>1, <3>2
  <2>5. \E S : todo' \in Seq(S)
    BY <1>0, <2>1 DEF IsPlan, AccountInv, Listed
  <2> QED
    BY <2>1, <2>2, <2>3, <2>4, <2>5 DEF AccountInv, Asked, Listed, Untouched
<1>6. CASE Delegated
  <2>1. /\ at = "work" /\ request.kind = "delegation" /\ at' = "over" /\ status' \in {"success", "error"}
        /\ UNCHANGED <<request, todo, written, applied>>
    BY <1>6 DEF Delegated, Finish
  <2>2. request.plan = <<>>
    BY <2>1 DEF AccountInv, Asked
  <2>3. WritesAreReported' /\ written' = <<>> /\ applied' = <<>>
    BY <1>0, <2>1, <2>2, StillUntouched
  <2> QED
    BY <2>1, <2>3 DEF AccountInv, Asked, Listed, Untouched, AboutToWrite
<1>7. CASE ReadIssue
  <2>1. at = "read" /\ UNCHANGED <<written, applied>> /\ request.kind = "jira"
    BY <1>7 DEF ReadIssue, AccountInv, Asked
  <2>2. CASE Finish("error", events) /\ UNCHANGED <<request, todo>>
    <3>1. at' = "over" /\ status' = "error"
      BY <2>2 DEF Finish
    <3>2. WritesAreReported' /\ written' = <<>> /\ applied' = <<>>
      BY <1>0, <2>1, <2>2, <3>1, StillUntouched
    <3> QED
      BY <2>1, <2>2, <3>1, <3>2 DEF AccountInv, Asked, Listed, Untouched, AboutToWrite
  <2>3. ASSUME NEW plan, plan = request.plan \/ plan \in JiraPlans,
               request' = [request EXCEPT !.plan = plan], Continue(plan)
        PROVE  AccountInv'
    <3>1. /\ DOMAIN request' = {"kind", "wanted", "plan", "denied"} /\ request'.plan = plan
          /\ request'.kind = "jira" /\ request'.wanted = request.wanted
      BY <1>0, <2>1, <2>3
    <3>2. IsPlan(plan)
      BY <2>3 DEF AccountInv, Asked
    <3>3. /\ todo' = plan
          /\ \/ plan = <<>> /\ at' = "over" /\ status' = "success"
             \/ plan # <<>> /\ at' = "write" /\ status' = status
      BY <2>3 DEF Continue, Finish, Go
    <3>4. WritesAreReported' /\ written' = <<>> /\ applied' = <<>> /\ Written' = {} /\ \A o : Outcome(o)' = {}
      BY <1>0, <2>1, <3>1, <3>3, StillUntouched
    <3>5. AboutToWrite'
      <4>1. CASE at' = "write"
        BY <3>1, <3>2, <3>3, <3>4, <4>1, BeginsToWrite
      <4>2. CASE at' # "write"
        BY <4>2 DEF AboutToWrite
      <4> QED
        BY <4>1, <4>2
    <3>6. Asked'
      BY <1>0, <2>1, <3>1, <3>2, <3>3 DEF AccountInv, Asked
    <3>7. Listed' /\ Untouched'
      BY <2>1, <3>2, <3>3, <3>4 DEF AccountInv, Listed, Untouched, IsPlan
    <3> QED
      BY <3>4, <3>5, <3>6, <3>7 DEF AccountInv
  <2> QED
    BY <1>7, <2>2, <2>3 DEF ReadIssue
<1>8. CASE Gated
  <2>1. at = "write" /\ todo[1] \in request.denied /\ UNCHANGED <<request, written>> /\ Tell("blocked")
    BY <1>8 DEF Gated
  <2>2. /\ \E S : applied' \in Seq(S)
        /\ Outcome("blocked")' = Outcome("blocked") \cup {todo[1]}
        /\ \A o : o # "blocked" => Outcome(o)' = Outcome(o)
    BY <2>1, TellAdds DEF AccountInv
  <2>3. /\ Written' = Written /\ todo[1] \notin Written
        /\ IsInjective([i \in DOMAIN written |-> written[i].write])'
    BY <2>1, AtTheWrite DEF Written, AccountInv, WritesAreReported
  <2>4. CASE Optional(todo[1]) /\ Continue(Tail(todo))
    <3>1. AboutToWrite' /\ WritesAreReported' /\ \E S : todo' \in Seq(S)
      BY <2>1, <2>2, <2>3, <2>4, WriteIsSettled
    <3>2. (at' = "over" /\ status' = "success") \/ (at' = "write" /\ status' = status)
      BY <2>4 DEF Continue, Finish, Go
    <3> QED
      BY <2>1, <2>2, <3>1, <3>2 DEF AccountInv, Asked, Listed, Untouched
  <2>5. CASE Finish("error", events) /\ UNCHANGED todo
    <3>1. at' = "over" /\ status' = "error"
      BY <2>5 DEF Finish
    <3>2. WritesAreReported'
      BY <2>1, <2>2, <2>3, <3>1, WriteIsLast
    <3> QED
      BY <2>1, <2>2, <2>5, <3>1, <3>2 DEF AccountInv, Asked, Listed, Untouched, AboutToWrite
  <2> QED
    BY <1>8, <2>4, <2>5 DEF Gated
<1>9. CASE Write
  <2>1. at = "write" /\ todo[1] \notin request.denied /\ UNCHANGED request
    BY <1>9 DEF Write
  <2>2. PICK reply \in Replies :
          /\ IF reply = "refused" THEN UNCHANGED written ELSE Take(todo[1])
          /\ IF reply = "done"
             THEN Tell("success") /\ Continue(Tail(todo))
             ELSE /\ Finish("error", events) /\ UNCHANGED todo
                  /\ IF request.kind = "event" THEN UNCHANGED applied ELSE Tell("failed")
    BY <1>9 DEF Write
  <2>3. /\ \E S : written' \in Seq(S)
        /\ Written' = Written \/ (reply # "refused" /\ Written' = Written \cup {todo[1]})
        /\ reply # "refused" => Written' = Written \cup {todo[1]}
        /\ IsInjective([i \in DOMAIN written |-> written[i].write])'
    <3>1. CASE reply = "refused"
      BY <2>2, <3>1 DEF Written, AccountInv, WritesAreReported, Listed
    <3>2. CASE reply # "refused"
      <4>1. Take(todo[1]) /\ todo[1] \notin Written
        BY <2>1, <2>2, <3>2, AtTheWrite
      <4>2. Listed /\ IsInjective([i \in DOMAIN written |-> written[i].write])
        BY DEF AccountInv, WritesAreReported
      <4> QED
        BY <3>2, <4>1, <4>2, TakeAdds
    <3> QED
      BY <3>1, <3>2
  <2>4. CASE reply = "done"
    <3>1. Tell("success") /\ Continue(Tail(todo))
      BY <2>2, <2>4
    <3>2. /\ \E S : applied' \in Seq(S)
          /\ Outcome("success")' = Outcome("success") \cup {todo[1]}
          /\ \A o : o # "success" => Outcome(o)' = Outcome(o)
      BY <3>1, TellAdds DEF AccountInv
    <3>3. AboutToWrite' /\ WritesAreReported' /\ \E S : todo' \in Seq(S)
      BY <2>1, <2>3, <2>4, <3>1, <3>2, WriteIsSettled
    <3>4. (at' = "over" /\ status' = "success") \/ (at' = "write" /\ status' = status)
      BY <3>1 DEF Continue, Finish, Go
    <3> QED
      BY <2>1, <2>3, <3>2, <3>3, <3>4 DEF AccountInv, Asked, Listed, Untouched
  <2>5. CASE reply # "done"
    <3>1. at' = "over" /\ status' = "error" /\ UNCHANGED todo
      BY <2>2, <2>5 DEF Finish
    <3>2. /\ \E S : applied' \in Seq(S)
          /\ Outcome("success")' = Outcome("success") /\ Outcome("blocked")' = Outcome("blocked")
          /\ Outcome("failed") \subseteq Outcome("failed")'
          /\ request.kind # "event" => todo[1] \in Outcome("failed")'
      <4>1. CASE request.kind = "event"
        BY <2>2, <2>5, <4>1 DEF AccountInv, Listed, Outcome
      <4>2. CASE request.kind # "event"
        <5>1. Tell("failed")
          BY <2>2, <2>5, <4>2
        <5>2. /\ \E S : applied' \in Seq(S)
              /\ Outcome("failed")' = Outcome("failed") \cup {todo[1]}
              /\ \A o : o # "failed" => Outcome(o)' = Outcome(o)
          BY <5>1, TellAdds DEF AccountInv
        <5> QED
          BY <5>2
      <4> QED
        BY <4>1, <4>2
    <3>3. WritesAreReported'
      BY <2>1, <2>3, <3>1, <3>2, WriteIsLast
    <3> QED
      BY <2>1, <2>3, <3>1, <3>2, <3>3 DEF AccountInv, Asked, Listed, Untouched, AboutToWrite
  <2> QED
    BY <2>4, <2>5
<1>10. CASE Push
  <2>1. UNCHANGED <<request, at, todo, applied, status, written>>
    BY <1>10 DEF Push
  <2>2. Written' = Written /\ \A o : Outcome(o)' = Outcome(o)
    BY <2>1 DEF Written, Outcome
  <2> QED
    BY <2>1, <2>2 DEF AccountInv, Asked, Listed, Untouched, AboutToWrite, Through, Settled, WritesAreReported
<1>11. CASE Cancel \/ Crash
  <2>1. /\ at # "over" /\ at' = "cut" /\ UNCHANGED <<request, todo, applied, status>>
        /\ UNCHANGED written \/ (at = "write" /\ todo[1] \notin request.denied /\ Take(todo[1]))
    BY <1>11 DEF Cancel, Crash, Cut
  <2>2. \A o : Outcome(o)' = Outcome(o)
    BY <2>1 DEF Outcome
  <2>3. WritesAreReported' /\ \E S : written' \in Seq(S)
    <3>1. CASE UNCHANGED written
      <4>1. Written' = Written
        BY <3>1 DEF Written
      <4> QED
        BY <1>0, <2>1, <2>2, <3>1, <4>1 DEF AccountInv, Listed, WritesAreReported
    <3>2. CASE at = "write" /\ todo[1] \notin request.denied /\ Take(todo[1])
      <4>1. todo[1] \notin Written
        BY <3>2, AtTheWrite
      <4>2. Listed /\ IsInjective([i \in DOMAIN written |-> written[i].write])
        BY DEF AccountInv, WritesAreReported
      <4>3. /\ \E S : written' \in Seq(S) /\ Written' = Written \cup {todo[1]}
            /\ IsInjective([i \in DOMAIN written |-> written[i].write])'
        BY <3>2, <4>1, <4>2, TakeAdds
      <4>4. status' = "none"
        BY <1>0, <2>1
      <4> QED
        BY <2>1, <2>2, <3>2, <4>3, <4>4, WriteIsLast
    <3> QED
      BY <2>1, <3>1, <3>2
  <2> QED
    BY <1>0, <2>1, <2>3 DEF AccountInv, Asked, Listed, Untouched, AboutToWrite
<1> QED
  BY <1>1, <1>2, <1>3, <1>4, <1>5, <1>6, <1>7, <1>8, <1>9, <1>10, <1>11 DEF Next

-----------------------------------------------------------------------------
(* The end of a task.                                                      *)

\* The terminal event of a task that ends.
Terminal == IF status = "success" THEN "completed" ELSE "failed"

ToldInv ==
    /\ at = "start" => events = <<>> /\ pending = "none"
    /\ at \in {"look", "read", "work", "check", "write"} => events = <<"started">>
    /\ at = "cut" => events \in {<<>>, <<"started">>}
    /\ at = "over" => events \in {<<Terminal>>, <<"started", Terminal>>}
    /\ pending = "pending" => lost \/ (at = "work" /\ request.kind = "delegation")
    /\ request.kind = "delegation" => at \in {"start", "work", "over", "cut"}
    /\ at \in {"start", "look", "read", "work", "check", "write", "over", "cut"}

\* The terminal event comes after what was told before.
LEMMA FinishTells ==
  ASSUME NEW s, NEW before \in {<<>>, <<"started">>}, Finish(s, before)
  PROVE  at' = "over" /\ status' = s /\ events' \in {<<Terminal'>>, <<"started", Terminal'>>}
<1>1. CASE before = <<>>
  BY <1>1 DEF Finish, Terminal
<1>2. CASE before = <<"started">>
  <2>1. PICK e : e = Terminal'
    OBVIOUS
  <2>2. events' = <<"started">> \o <<e>>
    BY <1>2, <2>1 DEF Finish, Terminal
  <2>3. /\ <<"started">> \in Seq({"started", e}) /\ <<e>> \in Seq({"started", e})
        /\ Len(<<"started">>) = 1 /\ Len(<<e>>) = 1
    OBVIOUS
  <2>4. /\ events' \in Seq({"started", e}) /\ Len(events') = 2 /\ events'[1] = "started" /\ events'[2] = e
    BY <2>2, <2>3, ConcatProperties
  <2>5. <<"started", e>> \in Seq({"started", e}) /\ Len(<<"started", e>>) = 2
    OBVIOUS
  <2>6. events' = <<"started", e>>
    BY <2>4, <2>5, SeqEqual
  <2> QED
    BY <1>2, <2>1, <2>6 DEF Finish
<1> QED
  BY <1>1, <1>2

LEMMA ToldIsEnough == ToldInv => EndIsTold
<1> SUFFICES ASSUME ToldInv PROVE EndIsTold
  OBVIOUS
<1>1. /\ events \in {<<>>, <<"started">>} <=> at # "over"
      /\ at = "over" => events \in {<<Terminal>>, <<"started", Terminal>>}
  BY SMTT(40) DEF ToldInv, Terminal
<1>2. CASE at = "over"
  <2>1. CASE events = <<Terminal>>
    <3>1. DOMAIN events = {1} /\ Len(events) = 1 /\ events[1] = Terminal
      BY <2>1
    <3> QED
      BY <1>2, <3>1 DEF EndIsTold, ToldInv, Terminal
  <2>2. CASE events = <<"started", Terminal>>
    <3>1. DOMAIN events = {1, 2} /\ Len(events) = 2 /\ events[1] = "started" /\ events[2] = Terminal
      BY <2>2
    <3> QED
      BY <1>2, <3>1 DEF EndIsTold, ToldInv, Terminal
  <2> QED
    BY <1>1, <1>2, <2>1, <2>2
<1>3. CASE at # "over"
  <2>1. \A i \in DOMAIN events : events[i] = "started"
    <3>1. CASE events = <<>>
      BY <3>1
    <3>2. CASE events = <<"started">>
      BY <3>2
    <3> QED
      BY <1>1, <1>3, <3>1, <3>2
  <2> QED
    BY <1>3, <2>1 DEF EndIsTold, ToldInv
<1> QED
  BY <1>2, <1>3

LEMMA ToldIsKept == ASSUME AccountInv, ToldInv, [Next]_vars PROVE ToldInv'
<1> USE DEF outside, history
<1>1. CASE UNCHANGED vars
  BY <1>1 DEF vars, ToldInv, Terminal
<1>2. CASE Admit
  <2>1. /\ at = "start" /\ events' = <<"started">> /\ UNCHANGED request /\ request.kind # "other"
        /\ at' = CASE request.kind = "jira" -> "read"
                   [] request.wanted # None -> "look"
                   [] OTHER -> "work"
        /\ IF request.kind = "delegation" THEN Store("pending") ELSE UNCHANGED <<pending, lost>>
    BY <1>2 DEF Admit
  <2>2. request.kind = "delegation" => at' = "work"
    BY <2>1 DEF AccountInv, Asked
  <2>3. at' \in {"read", "look", "work"}
    BY <2>1
  <2> QED
    BY <2>1, <2>2, <2>3 DEF ToldInv, Store
<1>3. CASE Block \/ Refuse
  <2>1. /\ at = "start" /\ UNCHANGED <<request, pending, lost>>
        /\ \E s \in {"blocked", "error"}, before \in {<<>>, <<"started">>} : Finish(s, before)
    BY <1>3 DEF Block, Refuse
  <2>2. at' = "over" /\ events' \in {<<Terminal'>>, <<"started", Terminal'>>}
    BY <2>1, FinishTells
  <2> QED
    BY <2>1, <2>2 DEF ToldInv
<1>4. CASE Look
  <2>1. /\ at \in {"look", "check"} /\ UNCHANGED <<request, pending, lost>> /\ events = <<"started">>
        /\ Go("work") \/ Go("write") \/ Finish("error", events)
    BY <1>4 DEF Look, ToldInv
  <2>2. request.kind # "delegation"
    BY <2>1 DEF AccountInv, Asked
  <2>3. \/ at' \in {"work", "write"} /\ events' = events
        \/ at' = "over" /\ events' \in {<<Terminal'>>, <<"started", Terminal'>>}
    BY <2>1, FinishTells DEF Go
  <2> QED
    BY <2>1, <2>2, <2>3 DEF ToldInv
<1>5. CASE Work
  <2>1. /\ at = "work" /\ request.kind # "delegation" /\ UNCHANGED <<request, pending, lost>> /\ events = <<"started">>
        /\ Go("check") \/ Go("write") \/ Finish("error", events)
    BY <1>5 DEF Work, ToldInv, AfterSkill
  <2>3. \/ at' \in {"check", "write"} /\ events' = events
        \/ at' = "over" /\ events' \in {<<Terminal'>>, <<"started", Terminal'>>}
    BY <2>1, FinishTells DEF Go
  <2> QED
    BY <2>1, <2>3 DEF ToldInv
<1>6. CASE Delegated
  <2>1. /\ at = "work" /\ UNCHANGED request /\ events = <<"started">>
        /\ \E ok \in BOOLEAN :
             /\ Finish(IF ok THEN "success" ELSE "error", events)
             /\ IF pending = "pending" THEN Store(IF ok THEN "completed" ELSE "failed")
                                       ELSE UNCHANGED <<pending, lost>>
    BY <1>6 DEF Delegated, ToldInv
  <2>2. at' = "over" /\ events' \in {<<Terminal'>>, <<"started", Terminal'>>}
    BY <2>1, FinishTells
  <2>3. pending' = "pending" => lost'
    BY <2>1 DEF Store, ToldInv
  <2> QED
    BY <2>1, <2>2, <2>3 DEF ToldInv
<1>7. CASE ReadIssue
  <2>1. /\ at = "read" /\ UNCHANGED <<pending, lost>> /\ events = <<"started">>
        /\ Finish("error", events) \/ Finish("success", events) \/ Go("write")
    BY <1>7 DEF ReadIssue, Continue, ToldInv
  <2>2. request.kind = "jira" /\ request'.kind = "jira"
    BY <1>7 DEF ReadIssue, AccountInv, Asked
  <2>3. \/ at' = "write" /\ events' = events
        \/ at' = "over" /\ events' \in {<<Terminal'>>, <<"started", Terminal'>>}
    BY <2>1, FinishTells DEF Go
  <2> QED
    BY <2>1, <2>2, <2>3 DEF ToldInv
<1>8. CASE Gated \/ Write
  <2>1. /\ at = "write" /\ UNCHANGED <<request, pending, lost>> /\ events = <<"started">>
        /\ Finish("error", events) \/ Finish("success", events) \/ Go("write")
    BY <1>8 DEF Gated, Write, Continue, ToldInv
  <2>3. \/ at' = "write" /\ events' = events
        \/ at' = "over" /\ events' \in {<<Terminal'>>, <<"started", Terminal'>>}
    BY <2>1, FinishTells DEF Go
  <2> QED
    BY <2>1, <2>3 DEF ToldInv
<1>9. CASE Push
  BY <1>9 DEF Push, ToldInv, Terminal
<1>10. CASE Cancel \/ Crash
  <2>1. /\ at \notin {"over", "cut"} /\ at' = "cut" /\ UNCHANGED <<request, events>>
        /\ \/ (IF pending = "pending" THEN Store("failed") ELSE UNCHANGED <<pending, lost>>)
           \/ lost' = TRUE
    BY <1>10 DEF Cancel, Crash, Cut
  <2>2. pending' = "pending" => lost'
    BY <2>1 DEF Store, ToldInv
  <2>3. events' \in {<<>>, <<"started">>}
    BY <2>1 DEF ToldInv
  <2> QED
    BY <2>1, <2>2, <2>3 DEF ToldInv
<1> QED
  BY <1>1, <1>2, <1>3, <1>4, <1>5, <1>6, <1>7, <1>8, <1>9, <1>10 DEF Next

\* A task that writes outside is accounted for: nothing forbidden is written and nothing twice,
\* what happened is what is reported, and its end is told once, for every plan of writes and
\* whatever is pushed, fails, is cancelled or crashes.
THEOREM TasksAreAccountedFor == Spec => []TaskIsAccountedFor
<1>1. Init => ToldInv
  BY DEF Init, ToldInv
<1>2. ToldInv /\ AccountInv /\ [Next]_vars => (ToldInv /\ AccountInv)'
  BY ToldIsKept, AccountIsKept
<1>3. WritesAreReported => SummaryIsBacked
  BY DEF WritesAreReported, SummaryIsBacked, Summary
<1>4. ToldInv /\ AccountInv /\ ReviewIsCurrent => TaskIsAccountedFor
  BY <1>3, ToldIsEnough DEF AccountInv, TaskIsAccountedFor
<1> QED
  BY <1>1, <1>2, <1>4, AccountInitially, ReviewsAreCurrent, PTL DEF Spec

-----------------------------------------------------------------------------
(* Types.  What is left to do is the end of the plan, and what is told is  *)
(* of it.                                                                  *)

TaskRecords ==
    [kind : DOMAIN WritesOf, wanted : Heads \cup {None},
     plan : UNION {Plans(k) : k \in DOMAIN WritesOf},
     denied : SUBSET UNION {Range(WritesOf[k]) : k \in DOMAIN WritesOf}]

TaskTyped ==
    /\ request \in TaskRecords /\ head \in Heads /\ pushes \in 0..MaxPushes
    /\ status \in {"none", "success", "error", "blocked"}
    /\ pending \in {"none", "pending", "completed", "failed"}
    /\ answer \in Heads \cup {None, "failed"} /\ calm \in BOOLEAN /\ lost \in BOOLEAN

LeftToDo == Through \in Nat /\ \A k \in 1..Len(todo) : todo[k] = request.plan[Through + k]

ToldOfPlan ==
    \A a \in Range(applied) : a.write \in Range(request.plan) /\ a.outcome \in {"success", "failed", "blocked"}

TypesInv == TaskTyped /\ LeftToDo /\ ToldOfPlan

\* What a sequence ends with is a part of it.
LEMMA EndOfSequence ==
  ASSUME NEW S, NEW s \in Seq(S), NEW t \in Seq(S), Len(t) - Len(s) \in Nat,
         \A k \in 1..Len(s) : s[k] = t[Len(t) - Len(s) + k]
  PROVE  \E n \in 0..Len(t) : s = SubSeq(t, n + 1, Len(t))
<1> DEFINE n == Len(t) - Len(s)
           u == SubSeq(t, n + 1, Len(t))
<1>1. n \in 0..Len(t) /\ Len(s) \in Nat /\ Len(t) = n + Len(s) /\ n \in Nat
  OBVIOUS
<1> HIDE DEF n
<1>2. u \in Seq(S) /\ Len(u) = Len(s) /\ \A i \in 1..Len(s) : u[i] = t[n + i]
  <2>1. \A i \in (n + 1)..Len(t) : t[i] \in S
    BY <1>1
  <2>2. /\ u \in Seq(S) /\ Len(u) = IF n + 1 <= Len(t) THEN Len(t) - (n + 1) + 1 ELSE 0
        /\ \A i \in 1..(Len(t) - (n + 1) + 1) : u[i] = t[n + 1 + i - 1]
    BY <1>1, <2>1, SubSeqProperties
  <2> HIDE DEF u
  <2>3. u \in Seq(S)
    BY <2>2
  <2>4. Len(u) = Len(s)
    BY <1>1, <2>2
  <2>5. ASSUME NEW i \in 1..Len(s) PROVE u[i] = t[n + i]
    <3>1. i \in 1..(Len(t) - (n + 1) + 1) /\ n + 1 + i - 1 = n + i
      BY <1>1
    <3> QED
      BY <2>2, <3>1
  <2> QED
    BY <2>3, <2>4, <2>5
<1>3. \A i \in 1..Len(s) : s[i] = t[n + i]
  BY DEF n
<1> HIDE DEF u
<1>4. s = u
  BY <1>2, <1>3, SeqEqual
<1> QED
  BY <1>1, <1>4 DEF u

LEMMA SetOfTwo ==
  ASSUME NEW s, NEW t
  PROVE  Range(<<>>) = {} /\ Range(<<s>>) = {s} /\ Range(<<s, t>>) = {s, t}
<1>1. DOMAIN <<>> = {} /\ DOMAIN <<s>> = {1} /\ DOMAIN <<s, t>> = {1, 2}
  OBVIOUS
<1> QED
  BY <1>1 DEF Range

LEMMA TypesAreOK == AccountInv /\ ToldInv /\ TypesInv => TypeOK
<1> SUFFICES ASSUME AccountInv, ToldInv, TypesInv PROVE TypeOK
  OBVIOUS
<1>1. PICK S : todo \in Seq(S) /\ request.plan \in Seq(S)
  <2>1. PICK T, U : todo \in Seq(T) /\ request.plan \in Seq(U)
    BY DEF AccountInv, Listed, Asked, IsPlan
  <2>2. todo \in Seq(T \cup U) /\ request.plan \in Seq(T \cup U)
    BY <2>1
  <2> QED
    BY <2>2
<1>2. \E n \in 0..Len(request.plan) : todo = SubSeq(request.plan, n + 1, Len(request.plan))
  BY <1>1, EndOfSequence DEF TypesInv, LeftToDo, Through
<1>3. Range(events) \subseteq {"started", "completed", "failed"}
  <2>1. events \in {<<>>, <<"started">>, <<Terminal>>, <<"started", Terminal>>}
    BY DEF ToldInv
  <2>2. Terminal \in {"completed", "failed"}
    BY DEF Terminal
  <2>3. \A s, t : Range(<<>>) = {} /\ Range(<<s>>) = {s} /\ Range(<<s, t>>) = {s, t}
    BY SetOfTwo
  <2> HIDE DEF Terminal
  <2> QED
    BY <2>1, <2>2, <2>3
<1>4. at \in {"start", "look", "read", "work", "check", "write", "over", "cut"}
  BY DEF ToldInv
<1> QED
  BY <1>2, <1>3, <1>4 DEF TypesInv, TaskTyped, TaskRecords, ToldOfPlan, TypeOK

\* Nothing is done or told, or nothing of another plan.
LEMMA PlanStays ==
  ASSUME TypesInv, UNCHANGED <<todo, applied>>, request'.plan = request.plan
  PROVE  LeftToDo' /\ ToldOfPlan'
<1>1. Through' = Through
  BY DEF Through
<1> QED
  BY <1>1 DEF TypesInv, LeftToDo, ToldOfPlan

\* All of a plan is left to do.
LEMMA PlanBegins ==
  ASSUME IsPlan(request'.plan), todo' = request'.plan, applied' = <<>>
  PROVE  LeftToDo' /\ ToldOfPlan'
<1>1. PICK S : request'.plan \in Seq(S)
  BY DEF IsPlan
<1>2. Len(request'.plan) \in Nat
  BY <1>1
<1>3. Through' = 0
  BY <1>2 DEF Through
<1>4. \A k \in 1..Len(todo') : 0 + k = k
  BY <1>2
<1>5. Range(applied') = {}
  BY DEF Range
<1> QED
  BY <1>3, <1>4, <1>5 DEF LeftToDo, ToldOfPlan

\* A task goes on with the next write of its plan.
LEMMA PlanGoesOn ==
  ASSUME AccountInv, at = "write", todo' = Tail(todo), UNCHANGED request
  PROVE  LeftToDo'
<1>1. PICK S, T : todo \in Seq(S) /\ request.plan \in Seq(T)
  BY DEF AccountInv, Listed, Asked, IsPlan
<1>2. todo # <<>> /\ Through \in Nat /\ \A k \in 1..Len(todo) : todo[k] = request.plan[Through + k]
  BY DEF AccountInv, AboutToWrite
<1> DEFINE n == Len(todo)
<1>3. /\ n \in Nat \ {0} /\ Len(request.plan) \in Nat /\ Len(Tail(todo)) = n - 1
      /\ \A k \in 1..(n - 1) : Tail(todo)[k] = todo[k + 1]
  BY <1>1, <1>2
<1>4. Through = Len(request.plan) - n /\ Through' = Len(request.plan) - (n - 1)
  BY <1>3 DEF Through
<1> HIDE DEF n
<1>5. Through' = Through + 1
  BY <1>2, <1>3, <1>4
<1>6. ASSUME NEW k \in 1..(n - 1) PROVE Tail(todo)[k] = request.plan[Through + 1 + k]
  <2>1. k + 1 \in 1..n /\ Through + (k + 1) = Through + 1 + k
    BY <1>2, <1>3
  <2>2. todo[k + 1] = request.plan[Through + (k + 1)]
    BY <1>2, <2>1 DEF n
  <2> QED
    BY <1>3, <2>1, <2>2
<1> QED
  BY <1>2, <1>3, <1>5, <1>6 DEF LeftToDo

\* What a task tells of a write is of its plan.
LEMMA TellsOfPlan ==
  ASSUME AccountInv, ToldOfPlan, at = "write", UNCHANGED request,
         NEW outcome \in {"success", "failed", "blocked"}, Tell(outcome)
  PROVE  ToldOfPlan'
<1> DEFINE e == [write |-> todo[1], outcome |-> outcome]
<1>1. PICK S : applied \in Seq(S)
  BY DEF AccountInv, Listed
<1>2. applied' = Append(applied, e)
  BY DEF Tell
<1>3. e.write = todo[1] /\ e.outcome = outcome
  OBVIOUS
<1> HIDE DEF e
<1>4. Range(applied') = Range(applied) \cup {e}
  BY <1>1, <1>2, RangeOfAppend
<1>5. Through + 1 \in DOMAIN request.plan /\ todo[1] = request.plan[Through + 1]
  BY AtTheWrite
<1>6. todo[1] \in Range(request.plan)
  BY <1>5 DEF Range
<1> QED
  BY <1>3, <1>4, <1>6 DEF ToldOfPlan

\* A plan of a review is a plan of a task.
LEMMA ReviewIsTask ==
  ASSUME request \in TaskRecords, NEW plan \in {request.plan} \cup JiraPlans
  PROVE  [request EXCEPT !.plan = plan] \in TaskRecords
<1>1. "jira" \in DOMAIN WritesOf /\ Plans("jira") = JiraPlans
  BY DEF WritesOf, Plans
<1>2. request.plan \in UNION {Plans(k) : k \in DOMAIN WritesOf}
  BY DEF TaskRecords
<1>3. plan \in UNION {Plans(k) : k \in DOMAIN WritesOf}
  BY <1>1, <1>2
<1> QED
  BY <1>3 DEF TaskRecords

LEMMA TaskIsTyped == ASSUME GovernedAssumption, TypesInv, [Next]_vars PROVE TaskTyped'
<1> USE DEF outside, history
<1>1. TaskTyped
  BY DEF TypesInv
<1>2. CASE UNCHANGED vars
  BY <1>1, <1>2 DEF vars, TaskTyped
<1>3. CASE Admit
  BY <1>1, <1>3 DEF Admit, Store, TaskTyped
<1>4. CASE Block \/ Refuse
  BY <1>1, <1>4 DEF Block, Refuse, Finish, TaskTyped
<1>5. CASE Look
  BY <1>1, <1>5 DEF Look, Finish, Go, TaskTyped
<1>6. CASE Work
  BY <1>1, <1>6 DEF Work, Finish, Go, TaskTyped
<1>7. CASE Delegated
  BY <1>1, <1>7 DEF Delegated, Finish, Store, TaskTyped
<1>8. CASE ReadIssue
  <2>1. \/ request' = request
        \/ \E plan \in {request.plan} \cup JiraPlans : request' = [request EXCEPT !.plan = plan]
    BY <1>8 DEF ReadIssue
  <2>2. request' \in TaskRecords
    BY <1>1, <2>1, ReviewIsTask DEF TaskTyped
  <2>3. status' \in {status, "error", "success"} /\ UNCHANGED <<outside, pending, history>>
    BY <1>8 DEF ReadIssue, Continue, Finish, Go
  <2> QED
    BY <1>1, <2>2, <2>3 DEF TaskTyped
<1>9. CASE Gated
  BY <1>1, <1>9 DEF Gated, Continue, Finish, Go, TaskTyped
<1>10. CASE Write
  BY <1>1, <1>10 DEF Write, Continue, Finish, Go, TaskTyped
<1>11. CASE Push
  <2>1. pushes < MaxPushes /\ pushes \in 0..MaxPushes /\ pushes' = pushes + 1 /\ head' \in Heads /\ calm' = FALSE
        /\ UNCHANGED <<request, status, pending, answer, lost>>
    BY <1>1, <1>11 DEF Push, TaskTyped
  <2>2. pushes' \in 0..MaxPushes
    BY <2>1 DEF GovernedAssumption
  <2> QED
    BY <1>1, <2>1, <2>2 DEF TaskTyped
<1>12. CASE Cancel \/ Crash
  BY <1>1, <1>12 DEF Cancel, Crash, Cut, Store, TaskTyped
<1> QED
  BY <1>2, <1>3, <1>4, <1>5, <1>6, <1>7, <1>8, <1>9, <1>10, <1>11, <1>12 DEF Next

LEMMA TypesAreKept ==
  ASSUME GovernedAssumption, AccountInv, TypesInv, [Next]_vars
  PROVE  TypesInv'
<1>1. TaskTyped'
  BY TaskIsTyped
<1>2. IsPlan(request.plan)
  BY DEF AccountInv, Asked
<1>3. at \in {"start", "look", "read", "work", "check"} => applied = <<>>
  BY DEF AccountInv, Untouched
<1>4. CASE UNCHANGED <<todo, applied, request>>
  BY <1>1, <1>4, PlanStays DEF TypesInv
<1>5. CASE Work
  <2>1. UNCHANGED <<applied, request>> /\ at = "work" /\ (todo' = request.plan \/ todo' = todo)
    BY <1>5 DEF Work
  <2> QED
    BY <1>1, <1>2, <1>3, <1>4, <2>1, PlanBegins DEF TypesInv
<1>6. CASE ReadIssue
  <2>1. ASSUME NEW plan \in {request.plan} \cup JiraPlans, request' = [request EXCEPT !.plan = plan],
               todo' = plan
        PROVE  TypesInv'
    <3>1. request'.plan = plan
      BY <2>1 DEF AccountInv, Asked
    <3>2. IsPlan(plan)
      BY <1>2, JiraPlansArePlans
    <3>3. applied' = <<>>
      BY <1>3, <1>6 DEF ReadIssue
    <3> QED
      BY <1>1, <2>1, <3>1, <3>2, <3>3, PlanBegins DEF TypesInv
  <2> QED
    BY <1>4, <1>6, <2>1 DEF ReadIssue, Continue
<1>7. CASE Gated \/ Write
  <2>1. at = "write" /\ UNCHANGED request /\ todo' \in {todo, Tail(todo)}
    BY <1>7 DEF Gated, Write, Continue
  <2>2. UNCHANGED applied \/ \E outcome \in {"success", "failed", "blocked"} : Tell(outcome)
    BY <1>7 DEF Gated, Write
  <2>3. LeftToDo'
    <3>1. CASE todo' = todo
      BY <2>1, <3>1 DEF TypesInv, LeftToDo, Through
    <3>2. CASE todo' = Tail(todo)
      BY <2>1, <3>2, PlanGoesOn
    <3> QED
      BY <2>1, <3>1, <3>2
  <2>4. ToldOfPlan'
    <3>1. CASE UNCHANGED applied
      BY <2>1, <3>1 DEF TypesInv, ToldOfPlan
    <3>2. ASSUME NEW outcome \in {"success", "failed", "blocked"}, Tell(outcome) PROVE ToldOfPlan'
      BY <2>1, <3>2, TellsOfPlan DEF TypesInv
    <3> QED
      BY <2>2, <3>1, <3>2
  <2> QED
    BY <1>1, <2>3, <2>4 DEF TypesInv
<1>8. CASE Admit \/ Block \/ Refuse \/ Look \/ Delegated \/ Push \/ Cancel \/ Crash
  BY <1>4, <1>8 DEF Admit, Block, Refuse, Look, Delegated, Push, Cancel, Crash, Cut
<1>9. CASE UNCHANGED vars
  BY <1>4, <1>9 DEF vars
<1> QED
  BY <1>5, <1>6, <1>7, <1>8, <1>9 DEF Next

\* Every variable keeps its type: what is left to do is the end of the plan, and all that is
\* told is of it.
THEOREM TasksAreTyped == ASSUME GovernedAssumption PROVE Spec => []TypeOK
<1>1. Init => TypesInv
  <2> SUFFICES ASSUME Init PROVE TypesInv
    OBVIOUS
  <2>1. PICK k \in DOMAIN WritesOf :
          request \in [kind : {k}, wanted : IF k = "github" THEN Heads \cup {None} ELSE {None},
                       plan : Plans(k), denied : SUBSET Range(WritesOf[k])]
    BY DEF Init, Requests
  <2>2. request \in TaskRecords
    <3>1. Plans(k) \subseteq UNION {Plans(q) : q \in DOMAIN WritesOf}
      BY <2>1
    <3>2. Range(WritesOf[k]) \subseteq UNION {Range(WritesOf[q]) : q \in DOMAIN WritesOf}
      BY <2>1
    <3> DEFINE P == UNION {Plans(q) : q \in DOMAIN WritesOf}
               D == UNION {Range(WritesOf[q]) : q \in DOMAIN WritesOf}
               K == DOMAIN WritesOf
               W == IF k = "github" THEN Heads \cup {None} ELSE {None}
               L == Plans(k)
               F == Range(WritesOf[k])
    <3>3. L \subseteq P /\ F \subseteq D /\ k \in K /\ W \subseteq Heads \cup {None}
      BY <2>1, <3>1, <3>2
    <3>4. request \in [kind : {k}, wanted : W, plan : L, denied : SUBSET F]
      BY <2>1
    <3> HIDE DEF P, D, K, W, L, F
    <3>5. request \in [kind : K, wanted : Heads \cup {None}, plan : P, denied : SUBSET D]
      BY <3>3, <3>4
    <3> QED
      BY <3>5 DEF TaskRecords, P, D, K
  <2>3. TaskTyped
    <3>1. 0 \in 0..MaxPushes
      BY DEF GovernedAssumption
    <3> QED
      BY <2>2, <3>1 DEF Init, TaskTyped
  <2>4. AccountInv /\ todo = <<>> /\ applied = <<>>
    BY AccountInitially DEF Init
  <2>5. PICK S : request.plan \in Seq(S)
    BY <2>4 DEF AccountInv, Asked, IsPlan
  <2>6. Len(todo) = 0 /\ Len(request.plan) \in Nat /\ Range(applied) = {}
    BY <2>4, <2>5 DEF Range
  <2>7. LeftToDo
    BY <2>6 DEF LeftToDo, Through
  <2>8. ToldOfPlan
    BY <2>6 DEF ToldOfPlan
  <2> QED
    BY <2>3, <2>7, <2>8 DEF TypesInv
<1>2. Init => ToldInv
  BY DEF Init, ToldInv
<1>3. ToldInv /\ AccountInv /\ TypesInv /\ [Next]_vars => (ToldInv /\ AccountInv /\ TypesInv)'
  BY ToldIsKept, AccountIsKept, TypesAreKept
<1> QED
  BY <1>1, <1>2, <1>3, AccountInitially, TypesAreOK, PTL DEF Spec
=============================================================================
