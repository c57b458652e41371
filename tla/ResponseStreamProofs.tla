------------------------- MODULE ResponseStreamProofs -------------------------
(***************************************************************************)
(* One streamed response, for every sequence of items and every number of  *)
(* them: what the processor kept and what observers saw fit the drafts of  *)
(* the adapter after every event, so the message that is stored is whole.  *)
(***************************************************************************)
EXTENDS ResponseStream, RecursionFacts, FiniteSetTheorems, SequenceTheorems

-----------------------------------------------------------------------------
(* What the state is made of. *)

Pieces == Nat \X {1, 2}
Texts == Seq(Pieces)
Chunks == {"id", "added", "first delta", "second delta", "told", "done"}
Ids == Nat \cup (Nat \X Chunks)
Marks == {None, "early", "final", "pending", "running"}
Kinds == {"text", "call", "reasoning", "error"}
CallTypes == {"start", "delta", "end", "complete"}
Types == CallTypes \cup {"text", "text end", "reasoning", "finish", "error"}
Parts == [kind : Kinds, id : Ids, data : Texts, mark : Marks]
Messages == [parts : Seq(Parts), open : Texts, status : {"running", "complete", "error"}]
Events == [type : Types, id : Ids, data : Texts, mark : Marks]
Drafts == [call : Nat, named : BOOLEAN, chunks : Texts, final : Texts \cup {None},
           started : BOOLEAN, ended : BOOLEAN, completed : BOOLEAN]
Tales(I) == [message : Messages, shown : [I -> Seq(Events)]]

LEMMA PartTyped ==
  ASSUME NEW kind \in Kinds, NEW id \in Ids, NEW data \in Texts, NEW mark \in Marks
  PROVE  Part(kind, id, data, mark) \in Parts
BY DEF Part, Parts

LEMMA EventTyped ==
  ASSUME NEW type \in Types, NEW id \in Ids, NEW data \in Texts, NEW mark \in Marks
  PROVE  Event(type, id, data, mark) \in Events
BY DEF Event, Events

LEMMA PartsTyped ==
  ASSUME NEW m \in Messages, NEW parts \in Seq(Parts)
  PROVE  LET new == [m EXCEPT !.parts = parts]
         IN new \in Messages /\ new.parts = parts /\ new.open = m.open
BY DEF Messages

LEMMA PartChanged ==
  ASSUME NEW m \in Messages, NEW k \in DOMAIN m.parts, NEW part \in Parts
  PROVE  LET new == [m EXCEPT !.parts[k] = part]
         IN new \in Messages /\ new.parts = [m.parts EXCEPT ![k] = part] /\ new.open = m.open
<1> DEFINE parts == [m.parts EXCEPT ![k] = part]
<1>1. parts \in Seq(Parts)
  BY DEF Messages
<1>2. [m EXCEPT !.parts[k] = part] = [m EXCEPT !.parts = parts]
  OBVIOUS
<1> HIDE DEF parts
<1>3. LET new == [m EXCEPT !.parts = parts]
      IN new \in Messages /\ new.parts = parts /\ new.open = m.open
  BY <1>1, PartsTyped
<1> QED
  BY <1>2, <1>3 DEF parts

LEMMA WithPartTyped ==
  ASSUME NEW m \in Messages, NEW part \in Parts
  PROVE  /\ WithPart(m, part) \in Messages
         /\ WithPart(m, part).parts = Append(m.parts, part)
         /\ WithPart(m, part).open = m.open
<1>1. m.parts \in Seq(Parts)
  BY DEF Messages
<1>2. Append(m.parts, part) \in Seq(Parts)
  BY <1>1
<1> QED
  BY <1>2, PartsTyped DEF WithPart

\* A text that is open becomes the last part.
LEMMA FlushedTyped ==
  ASSUME NEW m \in Messages
  PROVE  /\ Flushed(m) \in Messages /\ Flushed(m).open = <<>>
         /\ m.open = <<>> => Flushed(m) = m
         /\ m.open # <<>> => Flushed(m).parts = Append(m.parts, Part("text", 0, m.open, None))
<1> DEFINE part == Part("text", 0, m.open, None)
<1>1. part \in Parts /\ m.open \in Texts
  <2>1. m.open \in Texts
    BY DEF Messages
  <2>2. 0 \in Ids
    BY DEF Ids
  <2> QED
    BY <2>1, <2>2, PartTyped DEF Kinds, Marks
<1>2. CASE m.open = <<>>
  BY <1>2 DEF Flushed
<1>3. CASE m.open # <<>>
  <2> HIDE DEF part
  <2> DEFINE n == WithPart(m, part)
  <2>1. n \in Messages /\ n.parts = Append(m.parts, part)
    BY <1>1, WithPartTyped
  <2>2. Flushed(m) = [n EXCEPT !.open = <<>>]
    BY <1>3 DEF Flushed, part
  <2> HIDE DEF n
  <2>3. <<>> \in Texts
    BY DEF Texts
  <2>4. [n EXCEPT !.open = <<>>] \in Messages /\ [n EXCEPT !.open = <<>>].parts = n.parts
        /\ [n EXCEPT !.open = <<>>].open = <<>>
    BY <2>1, <2>3 DEF Messages
  <2> QED
    BY <1>3, <2>1, <2>2, <2>4 DEF part
<1> QED
  BY <1>2, <1>3

\* A part of reasoning gets what the event has.
Extended(part, e) ==
    [part EXCEPT !.data = @ \o e.data, !.mark = IF e.mark = None THEN @ ELSE e.mark]

LEMMA ReasonedTyped ==
  ASSUME NEW m \in Messages, NEW e \in Events
  PROVE  /\ Reasoned(m, e) \in Messages /\ Reasoned(m, e).open = m.open
         /\ PartsOf(m, "reasoning", e.id) = {} =>
              Reasoned(m, e).parts =
                Append(m.parts, Part("reasoning", e.id, e.data, e.mark))
         /\ PartsOf(m, "reasoning", e.id) # {} =>
              \E k \in PartsOf(m, "reasoning", e.id) :
                 Reasoned(m, e).parts = [m.parts EXCEPT ![k] = Extended(@, e)]
<1> DEFINE new == Part("reasoning", e.id, <<>>, None)
           none == PartsOf(m, "reasoning", e.id) = {}
           known == IF none THEN WithPart(m, new) ELSE m
           k == CHOOSE n \in PartsOf(known, "reasoning", e.id) : TRUE
           r == [known EXCEPT !.parts[k].data = @ \o e.data,
                              !.parts[k].mark = IF e.mark = None THEN @ ELSE e.mark]
<1>1. /\ e.id \in Ids /\ e.data \in Texts /\ e.mark \in Marks
      /\ m.parts \in Seq(Parts) /\ m.open \in Texts
  BY DEF Events, Messages
<1>2. new \in Parts /\ <<>> \in Texts
  <2>1. <<>> \in Texts
    BY DEF Texts
  <2> QED
    BY <1>1, <2>1, PartTyped DEF Kinds, Marks
<1>3. new.kind = "reasoning" /\ new.id = e.id /\ new.data = <<>> /\ new.mark = None
  BY DEF Part
<1> HIDE DEF new
<1>4. /\ known \in Messages /\ known.open = m.open
      /\ none => known.parts = Append(m.parts, new)
  BY <1>1, <1>2, WithPartTyped
<1>5. Reasoned(m, e) = r
  BY DEF Reasoned, new
<1> HIDE DEF known
<1>6. PartsOf(known, "reasoning", e.id) # {}
  <2>1. CASE none
    <3>1. Len(m.parts) + 1 \in PartsOf(known, "reasoning", e.id)
      BY <1>1, <1>2, <1>3, <1>4, <2>1 DEF PartsOf
    <3> QED
      BY <3>1
  <2>2. CASE ~none
    BY <2>2 DEF known
  <2> QED
    BY <2>1, <2>2
<1>7. k \in PartsOf(known, "reasoning", e.id)
  BY <1>6
<1>8. k \in DOMAIN known.parts /\ known.parts \in Seq(Parts) /\ known.parts[k] \in Parts
  <2>1. k \in DOMAIN known.parts /\ known.parts \in Seq(Parts)
    BY <1>4, <1>7 DEF PartsOf, Messages
  <2> QED
    BY <2>1
<1> DEFINE part == Extended(known.parts[k], e)
<1>9. part \in Parts
  <2>1. known.parts[k].data \o e.data \in Texts
    BY <1>1, <1>8 DEF Parts, Texts
  <2> HIDE DEF k
  <2> QED
    BY <1>1, <1>8, <2>1 DEF Parts, Extended
<1>10. r.parts = [known.parts EXCEPT ![k] = part] /\ r.open = known.open /\ r.status = known.status
       /\ r = [known EXCEPT !.parts = [known.parts EXCEPT ![k] = part]]
  <2> HIDE DEF k
  <2> QED
    BY <1>4, <1>8 DEF Messages, Extended
<1> HIDE DEF r, k
<1>11. [known.parts EXCEPT ![k] = part] \in Seq(Parts)
  <2> HIDE DEF part
  <2> QED
    BY <1>8, <1>9
<1>12. r \in Messages /\ r.open = m.open
  <2> DEFINE parts == [known.parts EXCEPT ![k] = part]
  <2>1. parts \in Seq(Parts) /\ r = [known EXCEPT !.parts = parts]
    BY <1>10, <1>11
  <2> HIDE DEF parts
  <2> QED
    BY <1>4, <2>1, PartsTyped
<1>13. CASE none
  <2>1. k = Len(m.parts) + 1
    BY <1>1, <1>2, <1>4, <1>7, <1>13 DEF PartsOf
  <2>2. known.parts[k] = new
    BY <1>1, <1>2, <1>4, <1>13, <2>1
  <2>3. <<>> \o e.data = e.data
    BY <1>1 DEF Texts
  <2>4. part = Part("reasoning", e.id, e.data, e.mark)
    <3>1. part = [new EXCEPT !.data = e.data, !.mark = e.mark]
      BY <1>3, <2>2, <2>3 DEF Extended
    <3> HIDE DEF part
    <3> QED
      BY <3>1 DEF Part, new
  <2>5. [known.parts EXCEPT ![k] = part] = Append(m.parts, part)
    <3> HIDE DEF part
    <3> QED
      BY <1>1, <1>2, <1>4, <1>9, <1>13, <2>1
  <2> QED
    BY <1>5, <1>10, <1>12, <1>13, <2>4, <2>5
<1>14. CASE ~none
  <2>1. known = m
    BY <1>14 DEF known
  <2> QED
    BY <1>5, <1>7, <1>10, <1>12, <1>14, <2>1
<1> QED
  BY <1>13, <1>14

-----------------------------------------------------------------------------
(* Events that come one after the other. *)

\* A call of the message is replaced, and one that is not there is added.
LEMMA CalledTyped ==
  ASSUME NEW m \in Messages, NEW e \in Events, NEW part \in Parts
  PROVE  /\ Called(m, e, part) \in Messages /\ Called(m, e, part).open = m.open
         /\ PartsOf(m, "call", e.id) = {} => Called(m, e, part).parts = Append(m.parts, part)
         /\ PartsOf(m, "call", e.id) # {} /\ e.type = "start" => Called(m, e, part) = m
         /\ PartsOf(m, "call", e.id) # {} /\ e.type # "start" =>
              \E k \in PartsOf(m, "call", e.id) :
                 Called(m, e, part).parts = [m.parts EXCEPT ![k] = part]
<1>1. CASE PartsOf(m, "call", e.id) = {}
  BY <1>1, WithPartTyped DEF Called
<1>2. CASE PartsOf(m, "call", e.id) # {} /\ e.type = "start"
  BY <1>2 DEF Called
<1>3. CASE PartsOf(m, "call", e.id) # {} /\ e.type # "start"
  <2> DEFINE k == CHOOSE n \in PartsOf(m, "call", e.id) : TRUE
  <2>1. k \in PartsOf(m, "call", e.id)
    BY <1>3
  <2>2. Called(m, e, part) = [m EXCEPT !.parts[k] = part]
    BY <1>3 DEF Called
  <2> HIDE DEF k
  <2>3. k \in DOMAIN m.parts
    BY <2>1 DEF PartsOf
  <2> DEFINE new == [m EXCEPT !.parts[k] = part]
  <2>4. new \in Messages /\ new.parts = [m.parts EXCEPT ![k] = part] /\ new.open = m.open
    BY <2>3, PartChanged
  <2> HIDE DEF new
  <2> QED
    BY <1>3, <2>1, <2>2, <2>4 DEF new
<1> QED
  BY <1>1, <1>2, <1>3

CalledPart(e) ==
    IF e.type = "start" THEN Part("call", e.id, <<>>, "pending") ELSE Part("call", e.id, e.data, "running")

LEMMA CalledPartTyped ==
  ASSUME NEW e \in Events
  PROVE  /\ CalledPart(e) \in Parts
         /\ Part("call", e.id, <<>>, "pending") \in Parts /\ Part("call", e.id, e.data, "running") \in Parts
<1>1. e.id \in Ids /\ e.data \in Texts
  BY DEF Events
<1>2. <<>> \in Texts
  BY DEF Texts
<1> QED
  BY <1>1, <1>2, PartTyped DEF CalledPart, Kinds, Marks

LEMMA ConsumedTyped ==
  ASSUME NEW m \in Messages, NEW e \in Events
  PROVE  Consumed(m, e) \in Messages
<1>1. e.id \in Ids /\ e.data \in Texts /\ e.type \in Types /\ m.open \in Texts
  BY DEF Events, Messages
<1>2. Flushed(m) \in Messages /\ Reasoned(m, e) \in Messages
  BY FlushedTyped, ReasonedTyped
<1>3. CASE e.type = "text"
  <2>1. m.open \o e.data \in Texts
    BY <1>1 DEF Texts
  <2>2. [m EXCEPT !.open = @ \o e.data] \in Messages
    BY <2>1 DEF Messages
  <2> QED
    BY <1>3, <2>2 DEF Consumed
<1>4. CASE e.type = "start"
  <2>1. Called(Flushed(m), e, Part("call", e.id, <<>>, "pending")) \in Messages
    BY <1>2, CalledPartTyped, CalledTyped
  <2> QED
    BY <1>4, <2>1 DEF Consumed
<1>5. CASE e.type = "complete"
  <2>1. Called(m, e, Part("call", e.id, e.data, "running")) \in Messages
    BY <1>2, CalledPartTyped, CalledTyped
  <2> QED
    BY <1>5, <2>1 DEF Consumed
<1>6. CASE e.type = "finish"
  <2>1. [Flushed(m) EXCEPT !.status = "complete"] \in Messages
    BY <1>2 DEF Messages
  <2> QED
    BY <1>6, <2>1 DEF Consumed
<1>7. CASE e.type = "error"
  <2> DEFINE part == Part("error", 0, <<>>, None)
             n == WithPart(Flushed(m), part)
  <2>1. 0 \in Ids /\ <<>> \in Texts
    BY DEF Ids, Texts
  <2>2. part \in Parts
    BY <2>1, PartTyped DEF Kinds, Marks
  <2> HIDE DEF part
  <2>3. n \in Messages
    BY <1>2, <2>2, WithPartTyped
  <2> HIDE DEF n
  <2>4. [n EXCEPT !.status = "error"] \in Messages
    BY <2>3 DEF Messages
  <2> QED
    BY <1>7, <2>4 DEF Consumed, n, part
<1>8. CASE e.type \in {"text end", "reasoning"}
  BY <1>2, <1>8 DEF Consumed
<1>9. CASE e.type \in {"delta", "end"}
  BY <1>9 DEF Consumed
<1> QED
  BY <1>1, <1>3, <1>4, <1>5, <1>6, <1>7, <1>8, <1>9 DEF Types, CallTypes

LEMMA ObservedSame ==
  ASSUME NEW s, NEW e, e.type \notin CallTypes
  PROVE  Observed(s, e) = s
BY DEF Observed, CallTypes

LEMMA ObservedTyped ==
  ASSUME NEW I, NEW s \in [I -> Seq(Events)], NEW e \in Events
  PROVE  /\ Observed(s, e) \in [I -> Seq(Events)]
         /\ e.type \notin CallTypes => Observed(s, e) = s
         /\ e.type \in CallTypes /\ e.id \in I =>
              /\ Observed(s, e)[e.id] = Append(s[e.id], e)
              /\ \A i \in I : i # e.id => Observed(s, e)[i] = s[i]
<1>1. CASE e.type \in CallTypes
  <2> DEFINE more == Append(s[e.id], e)
  <2>1. Observed(s, e) = [s EXCEPT ![e.id] = more]
    BY <1>1 DEF Observed, CallTypes
  <2>2. CASE e.id \in I
    <3>1. more \in Seq(Events)
      BY <2>2
    <3> HIDE DEF more
    <3> QED
      BY <1>1, <2>1, <2>2, <3>1 DEF more
  <2>3. CASE e.id \notin I
    <3> HIDE DEF more
    <3> QED
      BY <1>1, <2>1, <2>3
  <2> QED
    BY <2>2, <2>3
<1>2. CASE e.type \notin CallTypes
  BY <1>2 DEF Observed, CallTypes
<1> QED
  BY <1>1, <1>2

Sees(I, s, e, s2) ==
    s2[e.id] = Append(s[e.id], e) /\ \A i \in I : i # e.id => s2[i] = s[i]

LEMMA ObservedCall ==
  ASSUME NEW I, NEW s \in [I -> Seq(Events)], NEW e \in Events, e.type \in CallTypes, e.id \in I
  PROVE  Sees(I, s, e, Observed(s, e))
BY ObservedTyped DEF Sees

\* One event more.
Next1(v, e) == [message |-> Consumed(v.message, e), shown |-> Observed(v.shown, e)]

LEMMA Next1Typed ==
  ASSUME NEW I, NEW v \in Tales(I), NEW e \in Events
  PROVE  Next1(v, e) \in Tales(I)
<1>1. v.message \in Messages /\ v.shown \in [I -> Seq(Events)]
  BY DEF Tales
<1>2. Consumed(v.message, e) \in Messages /\ Observed(v.shown, e) \in [I -> Seq(Events)]
  BY <1>1, ConsumedTyped, ObservedTyped
<1> QED
  BY <1>2 DEF Tales, Next1

\* What the events of a sequence make of a message, event by event.
Course(I, f, v, events) ==
    /\ f \in [0..Len(events) -> Tales(I)] /\ f[0] = v
    /\ \A n \in 1..Len(events) : f[n] = Next1(f[n - 1], events[n])

LEMMA ToldCourse ==
  ASSUME NEW I, NEW v \in Tales(I), NEW events \in Seq(Events)
  PROVE  \E f : Course(I, f, v, events) /\ Told(v, events) = f[Len(events)]
<1> DEFINE N == Len(events)
           step == [n \in 1..N |-> [w \in Tales(I) |-> Next1(w, events[n])]]
           Body(f) == [n \in 0..N |-> IF n = 0 THEN v
                          ELSE [message |-> Consumed(f[n - 1].message, events[n]),
                                shown |-> Observed(f[n - 1].shown, events[n])]]
           after == CHOOSE f : f = Body(f)
<1>1. N \in Nat /\ \A n \in 1..N : events[n] \in Events
  OBVIOUS
<1>2. step \in Steps(N, Tales(I))
  BY <1>1, Next1Typed DEF Steps
<1>3. PICK g : Follows(g, N, Tales(I), v, step)
  BY <1>1, <1>2, Recursion
<1>4. g \in [0..N -> Tales(I)] /\ g[0] = v /\ \A n \in 1..N : g[n] = Next1(g[n - 1], events[n])
  <2>1. g \in [0..N -> Tales(I)] /\ g[0] = v /\ \A n \in 1..N : g[n] = step[n][g[n - 1]]
    BY <1>3 DEF Follows
  <2>2. \A n \in 1..N : n - 1 \in 0..N
    BY <1>1
  <2>3. \A n \in 1..N : g[n - 1] \in Tales(I)
    BY <2>1, <2>2
  <2> HIDE DEF N
  <2> QED
    BY <2>1, <2>3
<1> HIDE DEF step, N
<1>5. g = Body(g)
  <2>1. \A n \in 0..N : g[n] = IF n = 0 THEN v
            ELSE [message |-> Consumed(g[n - 1].message, events[n]),
                  shown |-> Observed(g[n - 1].shown, events[n])]
    <3>1. \A n \in 1..N : g[n] = [message |-> Consumed(g[n - 1].message, events[n]),
                                  shown |-> Observed(g[n - 1].shown, events[n])]
      BY <1>4 DEF Next1
    <3>2. \A n \in 0..N : n # 0 => n \in 1..N
      BY <1>1
    <3> QED
      BY <1>4, <3>1, <3>2
  <2>2. g = [n \in 0..N |-> g[n]]
    BY <1>4
  <2> DEFINE b == Body(g)
  <2>3. b = [n \in 0..N |-> b[n]] /\ \A n \in 0..N : b[n] = g[n]
    BY <2>1
  <2> HIDE DEF b
  <2>4. g = b
    BY SMTT(40), <2>2, <2>3
  <2> QED
    BY <2>4 DEF b
<1>6. after = Body(after)
  BY ZenonT(60), <1>5
<1>7. after = [n \in 0..N |-> IF n = 0 THEN v
                 ELSE [message |-> Consumed(after[n - 1].message, events[n]),
                       shown |-> Observed(after[n - 1].shown, events[n])]]
  BY <1>6
<1> DEFINE T == {n \in 0..N : after[n] = g[n]}
<1> HIDE DEF after
<1>8. /\ after[0] = v
      /\ \A n \in 1..N : after[n] = Next1(after[n - 1], events[n])
  BY <1>1, <1>7 DEF Next1
<1>9. 0 \in T /\ \A n \in 1..N : n - 1 \in T => n \in T
  BY <1>1, <1>4, <1>8
<1> HIDE DEF T
<1>10. 0..N \subseteq T
  BY <1>1, <1>9, Induction
<1>11. \A n \in 0..N : after[n] = g[n]
  BY <1>10 DEF T
<1>12. Told(v, events) = after[N]
  BY DEF Told, after, N
<1>13. Told(v, events) = g[N]
  BY <1>1, <1>11, <1>12
<1> QED
  BY <1>4, <1>13 DEF Course, N

LEMMA ToldTyped ==
  ASSUME NEW I, NEW v \in Tales(I), NEW events \in Seq(Events)
  PROVE  Told(v, events) \in Tales(I)
<1>1. PICK f : Course(I, f, v, events) /\ Told(v, events) = f[Len(events)]
  BY ToldCourse
<1>2. f \in [0..Len(events) -> Tales(I)] /\ Len(events) \in 0..Len(events)
  BY <1>1 DEF Course
<1> QED
  BY <1>1, <1>2

\* No event, and one.
LEMMA ToldNone ==
  ASSUME NEW I, NEW v \in Tales(I)
  PROVE  Told(v, <<>>) = v
<1>1. <<>> \in Seq(Events) /\ Len(<<>>) = 0
  OBVIOUS
<1>2. PICK f : Course(I, f, v, <<>>) /\ Told(v, <<>>) = f[Len(<<>>)]
  BY <1>1, ToldCourse
<1> QED
  BY <1>1, <1>2 DEF Course

LEMMA ToldOne ==
  ASSUME NEW I, NEW v \in Tales(I), NEW e \in Events
  PROVE  Told(v, <<e>>) = Next1(v, e)
<1>1. <<e>> \in Seq(Events) /\ Len(<<e>>) = 1 /\ <<e>>[1] = e
  OBVIOUS
<1>2. PICK f : Course(I, f, v, <<e>>) /\ Told(v, <<e>>) = f[Len(<<e>>)]
  BY <1>1, ToldCourse
<1>3. f[0] = v /\ f[1] = Next1(f[1 - 1], e)
  BY <1>1, <1>2 DEF Course
<1> QED
  BY <1>1, <1>2, <1>3

\* Events in two pieces.
LEMMA ToldConcat ==
  ASSUME NEW I, NEW v \in Tales(I), NEW s1 \in Seq(Events), NEW s2 \in Seq(Events)
  PROVE  Told(v, s1 \o s2) = Told(Told(v, s1), s2)
<1> DEFINE s == s1 \o s2
           L1 == Len(s1)
           L2 == Len(s2)
           w == Told(v, s1)
<1>1a. s \in Seq(Events) /\ Len(s) = L1 + L2 /\ L1 \in Nat /\ L2 \in Nat
  OBVIOUS
<1>1b. \A n \in 1..L1 : s[n] = s1[n]
  OBVIOUS
<1>1c. \A n \in 1..L2 : s[L1 + n] = s2[n]
  <2> TAKE n \in 1..L2
  <2>1. L1 + n \in 1..(L1 + L2) /\ ~(L1 + n <= L1) /\ L1 + n - L1 = n
    OBVIOUS
  <2> QED
    BY <2>1
<1>2. PICK f : Course(I, f, v, s) /\ Told(v, s) = f[L1 + L2]
  BY <1>1a, ToldCourse
<1>3. PICK g : Course(I, g, v, s1) /\ w = g[L1]
  BY ToldCourse
<1>4. PICK h : Course(I, h, w, s2) /\ Told(w, s2) = h[L2]
  BY ToldTyped, ToldCourse
<1> HIDE DEF s, L1, L2, w
<1> DEFINE T1 == {n \in 0..L1 : f[n] = g[n]}
           T2 == {n \in 0..L2 : f[L1 + n] = h[n]}
<1>5. /\ f[0] = v /\ \A n \in 1..(L1 + L2) : f[n] = Next1(f[n - 1], s[n])
      /\ g[0] = v /\ \A n \in 1..L1 : g[n] = Next1(g[n - 1], s1[n])
      /\ h[0] = w /\ \A n \in 1..L2 : h[n] = Next1(h[n - 1], s2[n])
  BY <1>1a, <1>2, <1>3, <1>4 DEF Course, L1, L2
<1>6. 0..L1 \subseteq T1
  <2>1. 0 \in T1
    BY <1>1a, <1>1b, <1>1c, <1>5
  <2>2. ASSUME NEW n \in 1..L1, n - 1 \in T1 PROVE n \in T1
    <3>1. n \in 1..(L1 + L2) /\ n \in 0..L1 /\ s[n] = s1[n]
      BY <1>1a, <1>1b, <1>1c
    <3> QED
      BY <1>5, <2>2, <3>1
  <2> HIDE DEF T1
  <2> QED
    BY <1>1a, <1>1b, <1>1c, <2>1, <2>2, Induction
<1>7. f[L1] = w
  BY <1>1a, <1>1b, <1>1c, <1>3, <1>6
<1>8. 0..L2 \subseteq T2
  <2>1. 0 \in T2
    BY <1>1a, <1>1b, <1>1c, <1>5, <1>7
  <2>2. ASSUME NEW n \in 1..L2, n - 1 \in T2 PROVE n \in T2
    <3>1. /\ L1 + n \in 1..(L1 + L2) /\ n \in 0..L2 /\ s[L1 + n] = s2[n]
          /\ L1 + n - 1 = L1 + (n - 1)
      BY <1>1a, <1>1b, <1>1c
    <3>2. PICK i \in 1..(L1 + L2) : i = L1 + n
      BY <3>1
    <3>3. f[i] = Next1(f[i - 1], s[i])
      BY <1>5
    <3>4. f[L1 + (n - 1)] = h[n - 1]
      BY <2>2
    <3>5. i - 1 = L1 + (n - 1)
      BY <1>1a, <1>1b, <1>1c, <3>2
    <3>6. f[i - 1] = h[n - 1]
      BY <3>4, <3>5
    <3> QED
      BY <1>5, <3>1, <3>2, <3>3, <3>6
  <2> HIDE DEF T2
  <2> QED
    BY <1>1a, <1>1b, <1>1c, <2>1, <2>2, Induction
<1>9. f[L1 + L2] = h[L2]
  BY <1>1a, <1>1b, <1>1c, <1>8
<1> QED
  BY <1>2, <1>4, <1>9 DEF s, w

-----------------------------------------------------------------------------
(* What was kept and what was seen fit the drafts.  p is the plan and st   *)
(* the style; D are the drafts, T the items of text that were sent and F   *)
(* the items of reasoning that were finished.                              *)

CallParts(parts) == {k \in DOMAIN parts : parts[k].kind = "call"}
Thinking(parts) == {k \in DOMAIN parts : parts[k].kind = "reasoning"}

\* A draft that was started is one part, with its arguments once it is complete.
PartFits(part, d) ==
    part = IF d.completed THEN Part("call", d.call, Arguments(d), "running")
           ELSE Part("call", d.call, <<>>, "pending")

CallsFit(parts, D) ==
    /\ \A k \in CallParts(parts) : \E n \in DOMAIN D : D[n].call = parts[k].id /\ D[n].started
    /\ \A n \in DOMAIN D : D[n].started => \E k \in CallParts(parts) : PartFits(parts[k], D[n])
    /\ \A j, k \in CallParts(parts) : parts[j].id = parts[k].id => j = k

\* Parts of reasoning are ahead of the calls of later items.
ThoughtsFit(p, st, parts) ==
    /\ \A k \in Thinking(parts) : \E i \in DOMAIN p : \E c \in Chunks :
          parts[k].id = <<i, c>> /\ p[i] = "reasoning" /\ (st # "indexed" => c = "id")
    /\ \A j, k \in Thinking(parts) : parts[j].id = parts[k].id => j = k
    /\ \A n \in Thinking(parts), k \in CallParts(parts) : parts[n].id[1] < parts[k].id => n < k

\* A text is open, or in a part between the items that surround it.
Holds(data, i) == \E x \in DOMAIN data : data[x] = Fragment(i, 1)

IsBetween(parts, k, i) ==
    /\ \A n \in Thinking(parts) : parts[n].id[1] < i => n < k
    /\ \A n \in CallParts(parts) : parts[n].id < i <=> n < k

TextFits(parts, open, i) ==
    \/ Holds(open, i) /\ \A k \in CallParts(parts) : parts[k].id < i
    \/ \E k \in DOMAIN parts : parts[k].kind = "text" /\ Holds(parts[k].data, i) /\ IsBetween(parts, k, i)

IsFinal(parts, i) == \E k \in Thinking(parts) : parts[k].id[1] = i /\ parts[k].mark = "final"

MessageFits(p, st, parts, open, D, T, F) ==
    /\ CallsFit(parts, D) /\ ThoughtsFit(p, st, parts)
    /\ \A i \in T : TextFits(parts, open, i)
    /\ \A i \in F : IsFinal(parts, i)

\* What was seen of a draft: its start, its arguments, their end, the call.
Closing(d) == IF d.completed THEN 2 ELSE IF d.ended THEN 1 ELSE 0

ShownFits(s, d) ==
    /\ ~d.started => s = <<>>
    /\ d.started =>
         /\ Len(s) - Closing(d) >= 1 /\ s[1].type = "start"
         /\ \A n \in 2..(Len(s) - Closing(d)) : s[n].type = "delta"
         /\ d.ended => s[Len(s) - Closing(d) + 1].type = "end"
         /\ d.completed => s[Len(s)].type = "complete"

AllShown(p, sh, D) ==
    /\ \A n \in DOMAIN D : ShownFits(sh[D[n].call], D[n])
    /\ \A i \in DOMAIN p : (\A n \in DOMAIN D : D[n].call # i) => sh[i] = <<>>

Flags(d) ==
    /\ d.started => d.named
    /\ d.ended => d.started
    /\ d.completed => (d.named => d.ended)

DraftFits(p, d) ==
    /\ d.call \in DOMAIN p /\ p[d.call] = "call"
    /\ d.final \in {None, Whole(d.call)} /\ Flags(d)

DraftsFit(p, D) ==
    /\ D \in Seq(Drafts) /\ \A n \in DOMAIN D : DraftFits(p, D[n])
    /\ \A n, k \in DOMAIN D : D[n].call = D[k].call => n = k

Fits(p, st, v, D, T, F) ==
    /\ v \in Tales(DOMAIN p) /\ DraftsFit(p, D) /\ AllShown(p, v.shown, D)
    /\ MessageFits(p, st, v.message.parts, v.message.open, D, T, F)

-----------------------------------------------------------------------------
(* What is seen of a draft, event by event. *)

LEMMA StartSeen ==
  ASSUME NEW s \in Seq(Events), NEW d \in Drafts, NEW e \in Events, ShownFits(s, d),
         ~d.started, ~d.ended, ~d.completed, e.type = "start"
  PROVE  ShownFits(Append(s, e), [d EXCEPT !.started = TRUE])
<1> DEFINE d2 == [d EXCEPT !.started = TRUE]
<1>1. d2.started /\ ~d2.ended /\ ~d2.completed
  BY DEF Drafts
<1>2. s = <<>>
  BY DEF ShownFits
<1>3. Len(Append(s, e)) = 1 /\ Append(s, e)[1] = e
  BY <1>2
<1> HIDE DEF d2
<1>4. ShownFits(Append(s, e), d2)
  BY <1>1, <1>3 DEF ShownFits, Closing
<1> QED
  BY <1>4 DEF d2

LEMMA DeltaSeen ==
  ASSUME NEW s \in Seq(Events), NEW d \in Drafts, NEW e \in Events, ShownFits(s, d),
         d.started, ~d.ended, ~d.completed, e.type = "delta"
  PROVE  ShownFits(Append(s, e), d)
<1>1. Len(s) \in Nat /\ Len(s) >= 1 /\ s[1].type = "start" /\ \A n \in 2..Len(s) : s[n].type = "delta"
  BY DEF ShownFits, Closing
<1>2. Len(Append(s, e)) = Len(s) + 1
  BY <1>1
<1>3. \A n \in 1..Len(s) : Append(s, e)[n] = s[n]
  OBVIOUS
<1>4. Append(s, e)[Len(s) + 1] = e
  OBVIOUS
<1>5. \A n \in 2..(Len(s) + 1) : n \in 2..Len(s) \/ n = Len(s) + 1
  BY <1>1
<1>6. \A n \in 2..(Len(s) + 1) : Append(s, e)[n].type = "delta"
  BY <1>1, <1>3, <1>4, <1>5
<1>7. Append(s, e)[1].type = "start"
  BY <1>1, <1>3
<1>8. Len(s) + 1 >= 1 /\ Len(s) + 1 - 0 = Len(s) + 1
  BY <1>1
<1> QED
  BY <1>2, <1>6, <1>7, <1>8 DEF ShownFits, Closing

LEMMA EndSeen ==
  ASSUME NEW s \in Seq(Events), NEW d \in Drafts, NEW e \in Events, ShownFits(s, d),
         d.started, ~d.ended, ~d.completed, e.type = "end"
  PROVE  ShownFits(Append(s, e), [d EXCEPT !.ended = TRUE])
<1> DEFINE d2 == [d EXCEPT !.ended = TRUE]
           s2 == Append(s, e)
<1>1. d2.started /\ d2.ended /\ ~d2.completed
  BY DEF Drafts
<1>2. Len(s) \in Nat /\ Len(s) >= 1 /\ s[1].type = "start" /\ \A n \in 2..Len(s) : s[n].type = "delta"
  BY DEF ShownFits, Closing
<1>3. Len(s2) = Len(s) + 1 /\ \A n \in 1..Len(s) : s2[n] = s[n]
  OBVIOUS
<1>4. s2[Len(s) + 1] = e
  OBVIOUS
<1>5. Len(s2) - 1 = Len(s) /\ Len(s2) - 1 + 1 = Len(s) + 1
  BY <1>2, <1>3
<1>6. s2[1].type = "start" /\ \A n \in 2..Len(s) : s2[n].type = "delta"
  BY <1>2, <1>3
<1> HIDE DEF d2, s2
<1>7. ShownFits(s2, d2)
  BY <1>1, <1>2, <1>4, <1>5, <1>6 DEF ShownFits, Closing
<1> QED
  BY <1>7 DEF d2, s2

LEMMA CompleteSeen ==
  ASSUME NEW s \in Seq(Events), NEW d \in Drafts, NEW e \in Events, ShownFits(s, d),
         d.started, d.ended, ~d.completed, e.type = "complete"
  PROVE  ShownFits(Append(s, e), [d EXCEPT !.completed = TRUE])
<1> DEFINE d2 == [d EXCEPT !.completed = TRUE]
           s2 == Append(s, e)
           last == Len(s) - 1
<1>1. d2.started /\ d2.ended /\ d2.completed
  BY DEF Drafts
<1>2. /\ Len(s) \in Nat /\ last >= 1 /\ s[1].type = "start" /\ \A n \in 2..last : s[n].type = "delta"
      /\ s[last + 1].type = "end"
  BY DEF ShownFits, Closing
<1>3. Len(s2) = Len(s) + 1 /\ \A n \in 1..Len(s) : s2[n] = s[n]
  OBVIOUS
<1>4. s2[Len(s) + 1] = e
  OBVIOUS
<1>5. Len(s2) - 2 = last /\ last + 1 = Len(s) /\ 1 \in 1..Len(s) /\ Len(s) \in 1..Len(s)
      /\ \A n \in 2..last : n \in 1..Len(s)
  BY <1>2, <1>3
<1>6. /\ s2[1].type = "start" /\ \A n \in 2..last : s2[n].type = "delta"
      /\ s2[last + 1].type = "end" /\ s2[Len(s2)].type = "complete"
  BY <1>2, <1>3, <1>4, <1>5
<1> HIDE DEF d2, s2, last
<1>7. ShownFits(s2, d2)
  BY <1>1, <1>2, <1>5, <1>6 DEF ShownFits, Closing
<1> QED
  BY <1>7 DEF d2, s2

-----------------------------------------------------------------------------
(* A draft of several changes, a part more, a part that changes. *)

LEMMA OneMore ==
  ASSUME NEW S, NEW s \in Seq(S), NEW x \in S
  PROVE  /\ Append(s, x) \in Seq(S) /\ Len(s) + 1 \in Nat /\ Len(Append(s, x)) = Len(s) + 1
         /\ DOMAIN Append(s, x) = DOMAIN s \cup {Len(s) + 1} /\ Len(s) + 1 \notin DOMAIN s
         /\ \A k \in DOMAIN s : Append(s, x)[k] = s[k] /\ k < Len(s) + 1 /\ k \in Nat
         /\ Append(s, x)[Len(s) + 1] = x
<1>1. Append(s, x) \in Seq(S) /\ Len(Append(s, x)) = Len(s) + 1 /\ Len(s) \in Nat
  OBVIOUS
<1>2. DOMAIN Append(s, x) = 1..(Len(s) + 1) /\ DOMAIN s = 1..Len(s)
  OBVIOUS
<1>3. \A k \in DOMAIN s : Append(s, x)[k] = s[k]
  OBVIOUS
<1>4. Append(s, x)[Len(s) + 1] = x
  OBVIOUS
<1>5. 1..(Len(s) + 1) = 1..Len(s) \cup {Len(s) + 1} /\ Len(s) + 1 \notin 1..Len(s)
  BY <1>1
<1> QED
  BY <1>1, <1>2, <1>3, <1>4, <1>5

LEMMA DraftChanged ==
  ASSUME NEW p, NEW D, DraftsFit(p, D), NEW n \in DOMAIN D, NEW d \in Drafts,
         d.call = D[n].call, DraftFits(p, d)
  PROVE  LET D2 == [D EXCEPT ![n] = d]
         IN /\ DraftsFit(p, D2) /\ DOMAIN D2 = DOMAIN D /\ D2[n] = d
            /\ \A k \in DOMAIN D : k # n => D2[k] = D[k]
            /\ \A k \in DOMAIN D : D2[k].call = D[k].call /\ (D[k].call = D[n].call => k = n)
<1> DEFINE D2 == [D EXCEPT ![n] = d]
<1>1. D \in Seq(Drafts) /\ \A j, k \in DOMAIN D : D[j].call = D[k].call => j = k
  BY DEF DraftsFit
<1>2. D2 \in Seq(Drafts) /\ DOMAIN D2 = DOMAIN D /\ D2[n] = d /\ \A k \in DOMAIN D : k # n => D2[k] = D[k]
  BY <1>1
<1> HIDE DEF D2
<1>3. \A k \in DOMAIN D : D2[k].call = D[k].call /\ DraftFits(p, D2[k])
  BY <1>2 DEF DraftsFit
<1>4. DraftsFit(p, D2)
  BY <1>1, <1>2, <1>3 DEF DraftsFit
<1> QED
  BY <1>1, <1>2, <1>3, <1>4 DEF D2

LEMMA ShownChanged ==
  ASSUME NEW p, NEW D, DraftsFit(p, D), NEW n \in DOMAIN D, NEW d \in Drafts,
         d.call = D[n].call, DraftFits(p, d),
         NEW sh, AllShown(p, sh, D), NEW sh2, ShownFits(sh2[d.call], d),
         \A i \in DOMAIN p : i # d.call => sh2[i] = sh[i]
  PROVE  AllShown(p, sh2, [D EXCEPT ![n] = d])
<1> DEFINE D2 == [D EXCEPT ![n] = d]
<1>1. /\ DOMAIN D2 = DOMAIN D /\ D2[n] = d
      /\ \A k \in DOMAIN D : k # n => D2[k] = D[k]
      /\ \A k \in DOMAIN D : D2[k].call = D[k].call /\ (D[k].call = D[n].call => k = n)
  BY ZenonT(60), DraftChanged
<1> HIDE DEF D2
<1>2. \A k \in DOMAIN D2 : ShownFits(sh2[D2[k].call], D2[k])
  <2> TAKE k \in DOMAIN D2
  <2>1. CASE k = n
    BY <1>1, <2>1
  <2>2. CASE k # n
    <3>1. D[k].call # d.call /\ D[k].call \in DOMAIN p
      BY <1>1, <2>2 DEF DraftsFit, DraftFits
    <3>2. ShownFits(sh[D[k].call], D[k])
      BY <1>1 DEF AllShown
    <3> QED
      BY <1>1, <2>2, <3>1, <3>2
  <2> QED
    BY <2>1, <2>2
<1>3. ASSUME NEW i \in DOMAIN p, \A k \in DOMAIN D2 : D2[k].call # i PROVE sh2[i] = <<>>
  <2>1. \A k \in DOMAIN D : D[k].call # i
    BY <1>1, <1>3
  <2>2. i # d.call
    BY <2>1
  <2> QED
    BY <2>1, <2>2 DEF AllShown
<1>4. AllShown(p, sh2, D2)
  BY <1>2, <1>3 DEF AllShown
<1> QED
  BY <1>4 DEF D2

\* A part that is not of a call or of reasoning: the text that was open, or an error.
LEMMA PlainPart ==
  ASSUME NEW p, NEW st, NEW parts \in Seq(Parts), NEW open, NEW D, NEW T, NEW F,
         MessageFits(p, st, parts, open, D, T, F), T \subseteq Nat,
         \A k \in CallParts(parts) : parts[k].id \in Nat,
         NEW part \in Parts, part.kind \in {"text", "error"},
         open = <<>> \/ (part.kind = "text" /\ part.data = open)
  PROVE  MessageFits(p, st, Append(parts, part), <<>>, D, T, F)
<1> DEFINE more == Append(parts, part)
           N == Len(parts) + 1
<1>1. /\ DOMAIN more = DOMAIN parts \cup {N} /\ N \notin DOMAIN parts /\ N \in Nat
      /\ \A k \in DOMAIN parts : more[k] = parts[k] /\ k < N /\ k \in Nat
      /\ more[N] = part
  BY OneMore
<1> HIDE DEF more, N
<1>2. CallParts(more) = CallParts(parts) /\ Thinking(more) = Thinking(parts)
  BY <1>1 DEF CallParts, Thinking
<1>3. \A k \in CallParts(parts) \cup Thinking(parts) : k \in DOMAIN parts /\ more[k] = parts[k] /\ k < N /\ ~(N < k)
  BY <1>1 DEF CallParts, Thinking
<1>4. CallsFit(more, D)
  BY <1>2, <1>3 DEF CallsFit, MessageFits
<1>5. ThoughtsFit(p, st, more)
  BY <1>2, <1>3 DEF ThoughtsFit, MessageFits
<1>6. ASSUME NEW i \in T PROVE TextFits(more, <<>>, i)
  <2>1. CASE Holds(open, i) /\ \A k \in CallParts(parts) : parts[k].id < i
    <3>1. open # <<>>
      BY <2>1 DEF Holds
    <3>2. more[N].kind = "text" /\ Holds(more[N].data, i) /\ N \in DOMAIN more
      BY <1>1, <2>1, <3>1
    <3>3. IsBetween(more, N, i)
      BY <1>2, <1>3, <2>1 DEF IsBetween
    <3> QED
      BY <3>2, <3>3 DEF TextFits
  <2>2. ASSUME NEW k \in DOMAIN parts, parts[k].kind = "text", Holds(parts[k].data, i), IsBetween(parts, k, i)
        PROVE  TextFits(more, <<>>, i)
    <3>1. k \in DOMAIN more /\ more[k] = parts[k]
      BY <1>1
    <3>2. IsBetween(more, k, i)
      BY <1>2, <1>3, <2>2 DEF IsBetween
    <3> QED
      BY <2>2, <3>1, <3>2 DEF TextFits
  <2> QED
    BY <2>1, <2>2 DEF MessageFits, TextFits
<1>7. \A i \in F : IsFinal(more, i)
  BY <1>2, <1>3 DEF IsFinal, MessageFits
<1> QED
  BY <1>4, <1>5, <1>6, <1>7 DEF MessageFits, more

\* The part of a call that was started.
LEMMA CallPart ==
  ASSUME NEW p, NEW st, NEW parts \in Seq(Parts), NEW D, DraftsFit(p, D), NEW T, NEW F,
         MessageFits(p, st, parts, <<>>, D, T, F),
         NEW n \in DOMAIN D, ~D[n].started, NEW d \in Drafts, d.call = D[n].call, DraftFits(p, d),
         d.started, ~d.completed, \A i \in T : i < d.call, \A i \in T : ~(d.call < i),
         NEW part \in Parts, PartFits(part, d)
  PROVE  /\ MessageFits(p, st, Append(parts, part), <<>>, [D EXCEPT ![n] = d], T, F)
         /\ \A k \in CallParts(parts) : parts[k].id # d.call
<1> DEFINE more == Append(parts, part)
           N == Len(parts) + 1
           D2 == [D EXCEPT ![n] = d]
<1>1. /\ DOMAIN more = DOMAIN parts \cup {N} /\ N \notin DOMAIN parts /\ N \in Nat
      /\ \A k \in DOMAIN parts : more[k] = parts[k] /\ k < N /\ k \in Nat
      /\ more[N] = part
  BY OneMore
<1>2. /\ DraftsFit(p, D2) /\ DOMAIN D2 = DOMAIN D /\ D2[n] = d
      /\ \A k \in DOMAIN D : k # n => D2[k] = D[k]
      /\ \A k \in DOMAIN D : D2[k].call = D[k].call /\ (D[k].call = D[n].call => k = n)
  BY DraftChanged
<1>3. part.kind = "call" /\ part.id = d.call
  BY DEF PartFits, Part
<1> HIDE DEF more, N, D2
<1>4. CallParts(more) = CallParts(parts) \cup {N} /\ Thinking(more) = Thinking(parts)
  BY <1>1, <1>3 DEF CallParts, Thinking
<1>5. \A k \in CallParts(parts) \cup Thinking(parts) :
         k \in DOMAIN parts /\ more[k] = parts[k] /\ k < N /\ ~(N < k) /\ k # N
  BY <1>1 DEF CallParts, Thinking
<1>6. \A k \in CallParts(parts) : parts[k].id # d.call
  <2> TAKE k \in CallParts(parts)
  <2>1. PICK j \in DOMAIN D : D[j].call = parts[k].id /\ D[j].started
    BY DEF MessageFits, CallsFit
  <2> QED
    BY <1>2, <2>1
<1>7. CallsFit(more, D2)
  <2>1. ASSUME NEW k \in CallParts(more) PROVE \E j \in DOMAIN D2 : D2[j].call = more[k].id /\ D2[j].started
    <3>1. CASE k = N
      BY <1>1, <1>2, <1>3, <3>1
    <3>2. CASE k # N
      <4>1. k \in CallParts(parts) /\ more[k] = parts[k]
        BY <1>4, <1>5, <2>1, <3>2
      <4>2. PICK j \in DOMAIN D : D[j].call = parts[k].id /\ D[j].started
        BY <4>1 DEF MessageFits, CallsFit
      <4>3. j # n
        BY <4>2
      <4> QED
        BY <1>2, <4>1, <4>2, <4>3
    <3> QED
      BY <3>1, <3>2
  <2>2. ASSUME NEW j \in DOMAIN D2, D2[j].started PROVE \E k \in CallParts(more) : PartFits(more[k], D2[j])
    <3>1. CASE j = n
      BY <1>1, <1>2, <1>4, <3>1
    <3>2. CASE j # n
      <4>1. j \in DOMAIN D /\ D2[j] = D[j] /\ D[j].started
        BY <1>2, <2>2, <3>2
      <4>2. PICK k \in CallParts(parts) : PartFits(parts[k], D[j])
        BY <4>1 DEF MessageFits, CallsFit
      <4> QED
        BY <1>4, <1>5, <4>1, <4>2
    <3> QED
      BY <3>1, <3>2
  <2>3. ASSUME NEW j \in CallParts(more), NEW k \in CallParts(more), more[j].id = more[k].id PROVE j = k
    <3>1. \A x \in CallParts(parts) : more[x] = parts[x] /\ more[x].id # more[N].id
      BY <1>1, <1>3, <1>5, <1>6
    <3>2. \A x, y \in CallParts(parts) : parts[x].id = parts[y].id => x = y
      BY DEF MessageFits, CallsFit
    <3> QED
      BY <1>4, <2>3, <3>1, <3>2
  <2> QED
    BY <2>1, <2>2, <2>3 DEF CallsFit
<1>8. ThoughtsFit(p, st, more)
  <2>1. ThoughtsFit(p, st, parts)
    BY DEF MessageFits
  <2>2. /\ \A k \in Thinking(more) : \E i \in DOMAIN p : \E c \in Chunks :
             more[k].id = <<i, c>> /\ p[i] = "reasoning" /\ (st # "indexed" => c = "id")
        /\ \A j, k \in Thinking(more) : more[j].id = more[k].id => j = k
    BY <1>4, <1>5, <2>1 DEF ThoughtsFit
  <2>3. \A x \in Thinking(more), k \in CallParts(more) : more[x].id[1] < more[k].id => x < k
    BY <1>4, <1>5, <2>1 DEF ThoughtsFit
  <2> QED
    BY <2>2, <2>3 DEF ThoughtsFit
<1>9. ASSUME NEW i \in T PROVE TextFits(more, <<>>, i)
  <2>1. PICK k \in DOMAIN parts : parts[k].kind = "text" /\ Holds(parts[k].data, i) /\ IsBetween(parts, k, i)
    BY DEF MessageFits, TextFits, Holds
  <2>2. k \in DOMAIN more /\ more[k] = parts[k] /\ k < N
    BY <1>1
  <2>3. IsBetween(more, k, i)
    <3>1. \A x \in Thinking(more) : more[x].id[1] < i => x < k
      BY <1>4, <1>5, <2>1 DEF IsBetween
    <3>2. ASSUME NEW x \in CallParts(more) PROVE more[x].id < i <=> x < k
      <4>1. CASE x = N
        <5>1. ~(more[x].id < i) /\ ~(x < k)
          BY <1>1, <1>3, <2>2, <4>1
        <5> QED
          BY <5>1
      <4>2. CASE x # N
        <5>1. x \in CallParts(parts) /\ more[x] = parts[x]
          BY <1>4, <1>5, <3>2, <4>2
        <5> QED
          BY <2>1, <5>1 DEF IsBetween
      <4> QED
        BY <4>1, <4>2
    <3> QED
      BY <3>1, <3>2 DEF IsBetween
  <2> QED
    BY <2>1, <2>2, <2>3 DEF TextFits
<1>10. \A i \in F : IsFinal(more, i)
  BY <1>4, <1>5 DEF IsFinal, MessageFits
<1> QED
  BY <1>6, <1>7, <1>8, <1>9, <1>10 DEF MessageFits, more, D2

\* Parts that keep their kinds and ids.
SameIds(parts, new) ==
    /\ DOMAIN new = DOMAIN parts
    /\ \A k \in DOMAIN parts : new[k].kind = parts[k].kind /\ new[k].id = parts[k].id

LEMMA SameIdsFit ==
  ASSUME NEW p, NEW st, NEW parts, NEW new, SameIds(parts, new),
         NEW D, NEW open, NEW T, NEW F, MessageFits(p, st, parts, open, D, T, F),
         \A k \in DOMAIN parts : parts[k].kind = "text" => new[k] = parts[k]
  PROVE  /\ CallParts(new) = CallParts(parts) /\ Thinking(new) = Thinking(parts)
         /\ ThoughtsFit(p, st, new) /\ \A i \in T : TextFits(new, open, i)
<1>1. CallParts(new) = CallParts(parts) /\ Thinking(new) = Thinking(parts)
  BY DEF SameIds, CallParts, Thinking
<1>2. \A k \in CallParts(parts) \cup Thinking(parts) : new[k].id = parts[k].id
  BY DEF SameIds, CallParts, Thinking
<1>3. ThoughtsFit(p, st, new)
  BY <1>1, <1>2 DEF MessageFits, ThoughtsFit
<1>4. ASSUME NEW i \in T PROVE TextFits(new, open, i)
  <2>1. CASE Holds(open, i) /\ \A k \in CallParts(parts) : parts[k].id < i
    BY <1>1, <1>2, <2>1 DEF TextFits
  <2>2. ASSUME NEW k \in DOMAIN parts, parts[k].kind = "text", Holds(parts[k].data, i), IsBetween(parts, k, i)
        PROVE  TextFits(new, open, i)
    <3>1. k \in DOMAIN new /\ new[k] = parts[k]
      BY <2>2 DEF SameIds
    <3>2. IsBetween(new, k, i)
      BY <1>1, <1>2, <2>2 DEF IsBetween
    <3> QED
      BY <2>2, <3>1, <3>2 DEF TextFits
  <2> QED
    BY <2>1, <2>2 DEF MessageFits, TextFits
<1> QED
  BY <1>1, <1>3, <1>4

\* The part of a call that is complete.
LEMMA CallCompletes ==
  ASSUME NEW p, NEW st, NEW parts \in Seq(Parts), NEW D, DraftsFit(p, D), NEW T, NEW F, NEW open,
         MessageFits(p, st, parts, open, D, T, F),
         NEW n \in DOMAIN D, D[n].started, NEW d \in Drafts, d.call = D[n].call, DraftFits(p, d),
         d.started, NEW part \in Parts, PartFits(part, d),
         NEW k \in CallParts(parts), parts[k].id = d.call
  PROVE  MessageFits(p, st, [parts EXCEPT ![k] = part], open, [D EXCEPT ![n] = d], T, F)
<1> DEFINE new == [parts EXCEPT ![k] = part]
           D2 == [D EXCEPT ![n] = d]
<1>1. part.kind = "call" /\ part.id = d.call /\ k \in DOMAIN parts /\ parts[k].kind = "call"
  BY DEF PartFits, Part, CallParts
<1>2. DOMAIN new = DOMAIN parts /\ new[k] = part /\ \A j \in DOMAIN parts : j # k => new[j] = parts[j]
  BY <1>1
<1>3. /\ DraftsFit(p, D2) /\ DOMAIN D2 = DOMAIN D /\ D2[n] = d
      /\ \A j \in DOMAIN D : j # n => D2[j] = D[j]
      /\ \A j \in DOMAIN D : D2[j].call = D[j].call /\ (D[j].call = D[n].call => j = n)
  BY DraftChanged
<1> HIDE DEF new, D2
<1>4. SameIds(parts, new)
  BY <1>1, <1>2 DEF SameIds
<1>5. \A j \in DOMAIN parts : parts[j].kind = "text" => new[j] = parts[j]
  BY <1>1, <1>2
<1>6. /\ CallParts(new) = CallParts(parts) /\ Thinking(new) = Thinking(parts)
      /\ ThoughtsFit(p, st, new) /\ \A i \in T : TextFits(new, open, i)
  BY <1>4, <1>5, SameIdsFit
<1>7. \A j \in CallParts(parts) : j \in DOMAIN parts /\ new[j].id = parts[j].id
  BY <1>4 DEF SameIds, CallParts
<1>8. CallsFit(new, D2)
  <2>1. ASSUME NEW j \in CallParts(new) PROVE \E x \in DOMAIN D2 : D2[x].call = new[j].id /\ D2[x].started
    <3>1. j \in CallParts(parts) /\ new[j].id = parts[j].id
      BY <1>6, <1>7
    <3>2. PICK x \in DOMAIN D : D[x].call = parts[j].id /\ D[x].started
      BY <3>1 DEF MessageFits, CallsFit
    <3>3. D2[x].started
      BY <1>3, <3>2
    <3> QED
      BY <1>3, <3>1, <3>2, <3>3
  <2>2. ASSUME NEW x \in DOMAIN D2, D2[x].started PROVE \E j \in CallParts(new) : PartFits(new[j], D2[x])
    <3>1. CASE x = n
      BY <1>2, <1>3, <1>6, <3>1
    <3>2. CASE x # n
      <4>1. x \in DOMAIN D /\ D2[x] = D[x] /\ D[x].started /\ D[x].call # d.call
        BY <1>3, <2>2, <3>2
      <4>2. PICK j \in CallParts(parts) : PartFits(parts[j], D[x])
        BY <4>1 DEF MessageFits, CallsFit
      <4>3. parts[j].id = D[x].call
        BY <4>2 DEF PartFits, Part
      <4>4. new[j] = parts[j]
        BY <1>2, <1>7, <4>1, <4>3
      <4> QED
        BY <1>6, <4>1, <4>2, <4>4
    <3> QED
      BY <3>1, <3>2
  <2>3. \A j, x \in CallParts(new) : new[j].id = new[x].id => j = x
    BY <1>6, <1>7 DEF MessageFits, CallsFit
  <2> QED
    BY <2>1, <2>2, <2>3 DEF CallsFit
<1>9. \A i \in F : IsFinal(new, i)
  <2>1. \A j \in Thinking(parts) : new[j] = parts[j]
    BY <1>1, <1>2 DEF Thinking
  <2> QED
    BY <1>6, <2>1 DEF IsFinal, MessageFits
<1> QED
  BY <1>6, <1>8, <1>9 DEF MessageFits, new, D2

\* What the end of an item of reasoning leaves final.
StillFinal(F, F2, i, mark) ==
    \A j \in F2 : (j \in F /\ (j # i \/ mark = None)) \/ (j = i /\ mark = "final")

LEMMA ThoughtPart ==
  ASSUME NEW p, NEW st, NEW parts \in Seq(Parts), NEW D, NEW T, NEW F, NEW F2, NEW open,
         MessageFits(p, st, parts, open, D, T, F),
         NEW i \in DOMAIN p, p[i] = "reasoning", NEW c \in Chunks, st # "indexed" => c = "id",
         NEW part \in Parts, part.kind = "reasoning", part.id = <<i, c>>,
         PartsOf([parts |-> parts], "reasoning", <<i, c>>) = {},
         StillFinal(F, F2, i, part.mark),
         \A k \in CallParts(parts) : ~(i < parts[k].id), \A j \in T : ~(i < j)
  PROVE  MessageFits(p, st, Append(parts, part), open, D, T, F2)
<1> DEFINE more == Append(parts, part)
           N == Len(parts) + 1
<1>1. /\ DOMAIN more = DOMAIN parts \cup {N} /\ N \notin DOMAIN parts /\ N \in Nat
      /\ \A k \in DOMAIN parts : more[k] = parts[k] /\ k < N /\ k \in Nat
      /\ more[N] = part
  BY OneMore
<1> HIDE DEF more, N
<1>2. part.id[1] = i
  OBVIOUS
<1>3. CallParts(more) = CallParts(parts) /\ Thinking(more) = Thinking(parts) \cup {N}
  BY <1>1 DEF CallParts, Thinking
<1>4. \A k \in CallParts(parts) \cup Thinking(parts) :
         k \in DOMAIN parts /\ more[k] = parts[k] /\ k < N /\ ~(N < k) /\ k # N
  BY <1>1 DEF CallParts, Thinking
<1>5. \A k \in Thinking(parts) : parts[k].id # part.id
  BY DEF PartsOf, Thinking
<1>6. CallsFit(more, D)
  BY <1>3, <1>4 DEF CallsFit, MessageFits
<1>7. ThoughtsFit(p, st, more)
  <2>1. ThoughtsFit(p, st, parts)
    BY DEF MessageFits
  <2>2. ASSUME NEW k \in Thinking(more)
        PROVE  \E j \in DOMAIN p : \E x \in Chunks :
                  more[k].id = <<j, x>> /\ p[j] = "reasoning" /\ (st # "indexed" => x = "id")
    BY <1>1, <1>3, <1>4, <2>1 DEF ThoughtsFit
  <2>3. ASSUME NEW j \in Thinking(more), NEW k \in Thinking(more), more[j].id = more[k].id PROVE j = k
    <3>1. \A x \in Thinking(parts) : more[x] = parts[x] /\ more[x].id # more[N].id
      BY <1>1, <1>4, <1>5
    <3>2. \A x, y \in Thinking(parts) : parts[x].id = parts[y].id => x = y
      BY <2>1 DEF ThoughtsFit
    <3> QED
      BY <1>3, <2>3, <3>1, <3>2
  <2>4. ASSUME NEW x \in Thinking(more), NEW k \in CallParts(more), more[x].id[1] < more[k].id PROVE x < k
    <3>1. CASE x = N
      BY <1>1, <1>2, <1>3, <1>4, <2>4, <3>1
    <3>2. CASE x # N
      BY <1>3, <1>4, <2>1, <2>4, <3>2 DEF ThoughtsFit
    <3> QED
      BY <3>1, <3>2
  <2> QED
    BY <2>2, <2>3, <2>4 DEF ThoughtsFit
<1>8. ASSUME NEW j \in T PROVE TextFits(more, open, j)
  <2>1. CASE Holds(open, j) /\ \A k \in CallParts(parts) : parts[k].id < j
    BY <1>3, <1>4, <2>1 DEF TextFits
  <2>2. ASSUME NEW k \in DOMAIN parts, parts[k].kind = "text", Holds(parts[k].data, j), IsBetween(parts, k, j)
        PROVE  TextFits(more, open, j)
    <3>1. k \in DOMAIN more /\ more[k] = parts[k]
      BY <1>1
    <3>2. \A x \in Thinking(more) : more[x].id[1] < j => x < k
      BY <1>1, <1>2, <1>3, <1>4, <2>2 DEF IsBetween
    <3>3. \A x \in CallParts(more) : more[x].id < j <=> x < k
      BY <1>3, <1>4, <2>2 DEF IsBetween
    <3> QED
      BY <2>2, <3>1, <3>2, <3>3 DEF TextFits, IsBetween
  <2> QED
    BY <2>1, <2>2 DEF MessageFits, TextFits
<1>9. ASSUME NEW j \in F2 PROVE IsFinal(more, j)
  <2>1. CASE j \in F
    BY <1>3, <1>4, <2>1 DEF IsFinal, MessageFits
  <2>2. CASE j = i /\ part.mark = "final"
    BY <1>1, <1>2, <1>3, <2>2 DEF IsFinal
  <2> QED
    BY <1>9, <2>1, <2>2 DEF StillFinal
<1> QED
  BY <1>6, <1>7, <1>8, <1>9 DEF MessageFits, more

LEMMA ThoughtGrows ==
  ASSUME NEW p, NEW st, NEW parts \in Seq(Parts), NEW D, NEW T, NEW F, NEW F2, NEW open,
         MessageFits(p, st, parts, open, D, T, F),
         NEW k \in DOMAIN parts, parts[k].kind = "reasoning", NEW i, NEW c, parts[k].id = <<i, c>>,
         NEW part \in Parts, part.kind = "reasoning", part.id = parts[k].id,
         NEW mark, part.mark = IF mark = None THEN parts[k].mark ELSE mark,
         None # "final", StillFinal(F, F2, i, mark)
  PROVE  MessageFits(p, st, [parts EXCEPT ![k] = part], open, D, T, F2)
<1> DEFINE new == [parts EXCEPT ![k] = part]
<1>1. DOMAIN new = DOMAIN parts /\ new[k] = part /\ \A j \in DOMAIN parts : j # k => new[j] = parts[j]
  OBVIOUS
<1>2. part.id[1] = i
  OBVIOUS
<1> HIDE DEF new
<1>3. SameIds(parts, new)
  BY <1>1 DEF SameIds
<1>4. \A j \in DOMAIN parts : parts[j].kind = "text" => new[j] = parts[j]
  BY <1>1
<1>5. /\ CallParts(new) = CallParts(parts) /\ Thinking(new) = Thinking(parts)
      /\ ThoughtsFit(p, st, new) /\ \A j \in T : TextFits(new, open, j)
  BY <1>3, <1>4, SameIdsFit
<1>6. \A j \in CallParts(parts) : new[j] = parts[j]
  BY <1>1 DEF CallParts
<1>7. CallsFit(new, D)
  BY <1>5, <1>6 DEF CallsFit, MessageFits
<1>8. ASSUME NEW j \in F2 PROVE IsFinal(new, j)
  <2>1. CASE j = i /\ mark = "final"
    <3>1. k \in Thinking(new) /\ new[k].id[1] = j /\ new[k].mark = "final"
      BY <1>1, <1>2, <2>1 DEF Thinking
    <3> QED
      BY <3>1 DEF IsFinal
  <2>2. CASE j \in F /\ (j # i \/ mark = None)
    <3>1. PICK x \in Thinking(parts) : parts[x].id[1] = j /\ parts[x].mark = "final"
      BY <2>2 DEF MessageFits, IsFinal
    <3>2. new[x].id[1] = j /\ new[x].mark = "final"
      BY <1>1, <1>2, <2>2, <3>1 DEF Thinking
    <3> QED
      BY <1>5, <3>1, <3>2 DEF IsFinal
  <2> QED
    BY <1>8, <2>1, <2>2 DEF StillFinal
<1> QED
  BY <1>5, <1>7, <1>8 DEF MessageFits, new

\* A text more.
LEMMA MoreText ==
  ASSUME NEW p, NEW st, NEW parts, NEW D, NEW T, NEW F, NEW open \in Texts,
         MessageFits(p, st, parts, open, D, T, F),
         NEW i \in Nat, \A k \in CallParts(parts) : parts[k].id < i
  PROVE  MessageFits(p, st, parts, open \o <<Fragment(i, 1)>>, D, T \cup {i}, F)
<1> DEFINE piece == Fragment(i, 1)
           longer == open \o <<piece>>
<1>1. piece \in Pieces
  BY DEF Fragment, Pieces
<1> HIDE DEF piece
<1>2. /\ Len(open) + 1 \in DOMAIN longer /\ longer[Len(open) + 1] = piece
      /\ \A x \in DOMAIN open : x \in DOMAIN longer /\ longer[x] = open[x]
  <2>1. longer = Append(open, piece)
    BY <1>1 DEF Texts
  <2> QED
    BY <1>1, <2>1, OneMore DEF Texts
<1> HIDE DEF longer
<1>3. Holds(longer, i) /\ \A j : Holds(open, j) => Holds(longer, j)
  BY <1>2 DEF Holds, piece
<1>4. \A j \in T : TextFits(parts, longer, j)
  BY <1>3 DEF MessageFits, TextFits
<1>5. TextFits(parts, longer, i)
  BY <1>3 DEF TextFits
<1>6. MessageFits(p, st, parts, longer, D, T \cup {i}, F)
  BY <1>4, <1>5 DEF MessageFits
<1> QED
  BY <1>6 DEF longer, piece

\* Calls stay as they are when a draft changes before it is complete.
LEMMA QuietCalls ==
  ASSUME NEW p, NEW D, DraftsFit(p, D), NEW n \in DOMAIN D, NEW d \in Drafts, d.call = D[n].call,
         DraftFits(p, d), d.started = D[n].started, d.started => ~d.completed /\ ~D[n].completed,
         NEW parts, CallsFit(parts, D)
  PROVE  CallsFit(parts, [D EXCEPT ![n] = d])
<1> DEFINE D2 == [D EXCEPT ![n] = d]
<1>1. /\ DOMAIN D2 = DOMAIN D /\ D2[n] = d
      /\ \A k \in DOMAIN D : k # n => D2[k] = D[k]
      /\ \A k \in DOMAIN D : D2[k].call = D[k].call
  BY DraftChanged
<1> HIDE DEF D2
<1>2. \A x : PartFits(x, D[n]) /\ D[n].started => PartFits(x, d)
  BY DEF PartFits
<1>3. \A k \in DOMAIN D : D2[k].started = D[k].started
  BY <1>1
<1>4. \A k \in CallParts(parts) : \E j \in DOMAIN D2 : D2[j].call = parts[k].id /\ D2[j].started
  BY <1>1, <1>3 DEF CallsFit
<1>5. ASSUME NEW j \in DOMAIN D2, D2[j].started PROVE \E k \in CallParts(parts) : PartFits(parts[k], D2[j])
  <2>1. PICK k \in CallParts(parts) : PartFits(parts[k], D[j])
    BY <1>1, <1>3, <1>5 DEF CallsFit
  <2>2. PartFits(parts[k], D2[j])
    BY <1>1, <1>2, <1>3, <1>5, <2>1
  <2> QED
    BY <2>2
<1>6. CallsFit(parts, D2)
  BY <1>4, <1>5 DEF CallsFit
<1> QED
  BY <1>6 DEF D2

\* A draft that changes before it is complete, without an event.
LEMMA QuietChange ==
  ASSUME NEW p, NEW st, NEW v, NEW D, NEW T, NEW F, Fits(p, st, v, D, T, F),
         NEW n \in DOMAIN D, NEW d \in Drafts, d.call = D[n].call, DraftFits(p, d),
         d.started = D[n].started, d.ended = D[n].ended,
         d.started => ~d.completed /\ ~D[n].completed
  PROVE  Fits(p, st, v, [D EXCEPT ![n] = d], T, F)
<1> DEFINE D2 == [D EXCEPT ![n] = d]
           parts == v.message.parts
<1>1. /\ DraftsFit(p, D) /\ AllShown(p, v.shown, D) /\ v \in Tales(DOMAIN p)
      /\ MessageFits(p, st, parts, v.message.open, D, T, F)
  BY DEF Fits
<1>2. /\ DraftsFit(p, D2) /\ DOMAIN D2 = DOMAIN D /\ D2[n] = d
      /\ \A k \in DOMAIN D : k # n => D2[k] = D[k]
      /\ \A k \in DOMAIN D : D2[k].call = D[k].call /\ (D[k].call = D[n].call => k = n)
  BY <1>1, DraftChanged
<1>3. ShownFits(v.shown[d.call], d)
  <2>1. ShownFits(v.shown[d.call], D[n])
    BY <1>1 DEF AllShown
  <2> QED
    BY <2>1 DEF ShownFits, Closing
<1>4. AllShown(p, v.shown, D2)
  BY <1>1, <1>3, ShownChanged
<1> HIDE DEF D2, parts
<1>5. CallsFit(parts, D)
  BY <1>1 DEF MessageFits
<1>6. CallsFit(parts, D2)
  BY <1>1, <1>5, QuietCalls DEF D2
<1>7. MessageFits(p, st, parts, v.message.open, D2, T, F)
  BY <1>1, <1>6 DEF MessageFits
<1> QED
  BY <1>1, <1>2, <1>4, <1>7 DEF Fits, D2, parts

\* A draft more.
LEMMA DraftTyped ==
  ASSUME NEW i \in Nat
  PROVE  NewDraft(i) \in Drafts /\ NewDraft(i).call = i /\ ~NewDraft(i).started /\ ~NewDraft(i).ended
         /\ ~NewDraft(i).completed /\ ~NewDraft(i).named /\ NewDraft(i).final = None
         /\ NewDraft(i).chunks = <<>>
<1>1. <<>> \in Texts
  BY DEF Texts
<1> QED
  BY <1>1 DEF NewDraft, Drafts

LEMMA DraftAdded ==
  ASSUME NEW p, NEW st, NEW v, NEW D, NEW T, NEW F, Fits(p, st, v, D, T, F),
         NEW i \in DOMAIN p, DOMAIN p \subseteq Nat, p[i] = "call", \A n \in DOMAIN D : D[n].call # i
  PROVE  Fits(p, st, v, Append(D, NewDraft(i)), T, F)
<1> DEFINE d == NewDraft(i)
           D2 == Append(D, d)
           N == Len(D) + 1
           parts == v.message.parts
<1>1. /\ DraftsFit(p, D) /\ AllShown(p, v.shown, D) /\ v \in Tales(DOMAIN p)
      /\ MessageFits(p, st, parts, v.message.open, D, T, F)
  BY DEF Fits
<1>2. d \in Drafts /\ d.call = i /\ ~d.started /\ ~d.ended /\ ~d.completed /\ d.final = None
  BY DraftTyped
<1> HIDE DEF d
<1>3. /\ D2 \in Seq(Drafts) /\ DOMAIN D2 = DOMAIN D \cup {N} /\ N \notin DOMAIN D
      /\ \A k \in DOMAIN D : D2[k] = D[k]
      /\ D2[N] = d
  BY <1>1, <1>2, OneMore DEF DraftsFit
<1> HIDE DEF D2, N, parts
<1>4. DraftsFit(p, D2)
  <2>1. DraftFits(p, d)
    BY <1>2 DEF DraftFits, Flags
  <2>2. \A k \in DOMAIN D2 : DraftFits(p, D2[k])
    BY <1>1, <1>3, <2>1 DEF DraftsFit
  <2>3. \A n, k \in DOMAIN D2 : D2[n].call = D2[k].call => n = k
    BY <1>1, <1>2, <1>3 DEF DraftsFit
  <2> QED
    BY <1>3, <2>2, <2>3 DEF DraftsFit
<1>5. AllShown(p, v.shown, D2)
  <2>1. v.shown[i] = <<>>
    BY <1>1 DEF AllShown
  <2>2. ShownFits(v.shown[d.call], d)
    BY <1>2, <2>1 DEF ShownFits
  <2>3. \A n \in DOMAIN D2 : ShownFits(v.shown[D2[n].call], D2[n])
    BY <1>1, <1>3, <2>2 DEF AllShown
  <2>4. \A j \in DOMAIN p : (\A n \in DOMAIN D2 : D2[n].call # j) => v.shown[j] = <<>>
    BY <1>1, <1>3 DEF AllShown
  <2> QED
    BY <2>3, <2>4 DEF AllShown
<1>6. CallsFit(parts, D2)
  BY <1>1, <1>2, <1>3 DEF MessageFits, CallsFit
<1> QED
  BY <1>1, <1>4, <1>5, <1>6 DEF Fits, MessageFits, D2, d, parts

-----------------------------------------------------------------------------
(* Every event leaves a message that fits the drafts it was sent for. *)

LEMMA OneEvent ==
  ASSUME NEW I, NEW v \in Tales(I), NEW e \in Events
  PROVE  /\ Told(v, <<e>>) \in Tales(I)
         /\ Told(v, <<e>>).message = Consumed(v.message, e)
         /\ Told(v, <<e>>).shown = Observed(v.shown, e)
         /\ v.message \in Messages /\ v.shown \in [I -> Seq(Events)]
<1>1. Told(v, <<e>>) = Next1(v, e) /\ Next1(v, e) \in Tales(I)
  BY ToldOne, Next1Typed
<1> QED
  BY <1>1 DEF Next1, Tales

LEMMA CallIds ==
  ASSUME NEW p, NEW parts, NEW D, DraftsFit(p, D), CallsFit(parts, D), DOMAIN p \subseteq Nat
  PROVE  \A k \in CallParts(parts) : parts[k].id \in Nat
BY DEF DraftsFit, DraftFits, CallsFit

LEMMA FlushFits ==
  ASSUME NEW p, NEW st, NEW m \in Messages, NEW D, DraftsFit(p, D), NEW T, NEW F,
         MessageFits(p, st, m.parts, m.open, D, T, F), DOMAIN p \subseteq Nat, T \subseteq Nat
  PROVE  /\ Flushed(m) \in Messages /\ Flushed(m).open = <<>>
         /\ MessageFits(p, st, Flushed(m).parts, <<>>, D, T, F)
<1>1. /\ Flushed(m) \in Messages /\ Flushed(m).open = <<>>
      /\ m.open = <<>> => Flushed(m) = m
      /\ m.open # <<>> => Flushed(m).parts = Append(m.parts, Part("text", 0, m.open, None))
  BY FlushedTyped
<1>2. CASE m.open = <<>>
  BY <1>1, <1>2
<1>3. CASE m.open # <<>>
  <2> DEFINE part == Part("text", 0, m.open, None)
  <2>1. m.open \in Texts /\ m.parts \in Seq(Parts) /\ 0 \in Ids
    BY DEF Messages, Ids
  <2>2. part \in Parts
    BY <2>1, PartTyped DEF Kinds, Marks
  <2>3. part.kind = "text" /\ part.data = m.open
    BY DEF Part
  <2>4. Flushed(m).parts = Append(m.parts, part)
    BY <1>1, <1>3
  <2> HIDE DEF part
  <2>5. \A k \in CallParts(m.parts) : m.parts[k].id \in Nat
    BY CallIds DEF MessageFits
  <2>6. MessageFits(p, st, Append(m.parts, part), <<>>, D, T, F)
    BY <2>1, <2>2, <2>3, <2>5, PlainPart
  <2> QED
    BY <1>1, <2>4, <2>6
<1> QED
  BY <1>2, <1>3

\* The text ends, the response finishes or it fails.
Closes(e) == e.type \in {"text end", "finish", "error"}

LEMMA CloseFits ==
  ASSUME NEW p, NEW st, NEW v, NEW D, NEW T, NEW F, Fits(p, st, v, D, T, F),
         DOMAIN p \subseteq Nat, T \subseteq Nat, NEW e \in Events, Closes(e)
  PROVE  Fits(p, st, Told(v, <<e>>), D, T, F) /\ Told(v, <<e>>).message.open = <<>>
<1> DEFINE w == Told(v, <<e>>)
           m == v.message
           f == Flushed(m)
<1>1. /\ v \in Tales(DOMAIN p) /\ DraftsFit(p, D) /\ AllShown(p, v.shown, D)
      /\ MessageFits(p, st, m.parts, m.open, D, T, F)
  BY DEF Fits
<1>2. /\ w \in Tales(DOMAIN p) /\ w.message = Consumed(m, e) /\ w.shown = Observed(v.shown, e)
      /\ m \in Messages /\ v.shown \in [DOMAIN p -> Seq(Events)]
  BY <1>1, OneEvent
<1> HIDE DEF w, m
<1>3. w.shown = v.shown
  <2>1. e.type \notin CallTypes
    BY DEF Closes, CallTypes
  <2> QED
    BY <1>2, <2>1, ObservedSame
<1>4. f \in Messages /\ f.open = <<>> /\ MessageFits(p, st, f.parts, <<>>, D, T, F)
  BY <1>1, <1>2, FlushFits
<1> HIDE DEF f
<1>5. MessageFits(p, st, w.message.parts, <<>>, D, T, F) /\ w.message.open = <<>>
  <2>1. CASE e.type = "text end"
    <3>1. w.message = f
      BY <1>2, <2>1 DEF Consumed, f
    <3> QED
      BY <1>4, <3>1
  <2>2. CASE e.type = "finish"
    <3>1. w.message = [f EXCEPT !.status = "complete"]
      BY <1>2, <2>2 DEF Consumed, f
    <3>2. w.message.parts = f.parts /\ w.message.open = f.open
      BY <1>4, <3>1 DEF Messages
    <3> QED
      BY <1>4, <3>2
  <2>3. CASE e.type = "error"
    <3> DEFINE part == Part("error", 0, <<>>, None)
               n == WithPart(f, part)
    <3>1. 0 \in Ids /\ <<>> \in Texts
      BY DEF Ids, Texts
    <3>2. part \in Parts
      BY <3>1, PartTyped DEF Kinds, Marks
    <3>3. part.kind = "error"
      BY DEF Part
    <3> HIDE DEF part
    <3>4. n \in Messages /\ n.parts = Append(f.parts, part) /\ n.open = f.open
      BY <1>4, <3>2, WithPartTyped
    <3>5. w.message = [n EXCEPT !.status = "error"]
      BY <1>2, <2>3 DEF Consumed, f, part
    <3> HIDE DEF n
    <3>6. w.message.parts = Append(f.parts, part) /\ w.message.open = <<>>
      BY <1>4, <3>4, <3>5 DEF Messages
    <3>7. \A k \in CallParts(f.parts) : f.parts[k].id \in Nat
      BY <1>1, <1>4, CallIds DEF MessageFits
    <3>8. f.parts \in Seq(Parts)
      BY <1>4 DEF Messages
    <3>9. MessageFits(p, st, Append(f.parts, part), <<>>, D, T, F)
      BY <1>4, <3>2, <3>3, <3>7, <3>8, PlainPart
    <3> QED
      BY <3>6, <3>9
  <2> QED
    BY <2>1, <2>2, <2>3 DEF Closes
<1> QED
  BY <1>1, <1>2, <1>3, <1>5 DEF Fits, w

\* A text arrives, ahead of the calls that were started.
LEMMA TextArrives ==
  ASSUME NEW p, NEW st, NEW v, NEW D, NEW T, NEW F, Fits(p, st, v, D, T, F),
         DOMAIN p \subseteq Nat, NEW e \in Events, NEW i \in Nat,
         e.type = "text", e.data = <<Fragment(i, 1)>>,
         \A n \in DOMAIN D : D[n].started => D[n].call < i
  PROVE  Fits(p, st, Told(v, <<e>>), D, T \cup {i}, F)
<1> DEFINE w == Told(v, <<e>>)
           m == v.message
<1>1. /\ v \in Tales(DOMAIN p) /\ DraftsFit(p, D) /\ AllShown(p, v.shown, D)
      /\ MessageFits(p, st, m.parts, m.open, D, T, F)
  BY DEF Fits
<1>2. /\ w \in Tales(DOMAIN p) /\ w.message = Consumed(m, e) /\ w.shown = Observed(v.shown, e)
      /\ m \in Messages /\ v.shown \in [DOMAIN p -> Seq(Events)]
  BY <1>1, OneEvent
<1> HIDE DEF w, m
<1>3. w.shown = v.shown
  <2>1. e.type \notin CallTypes
    BY DEF CallTypes
  <2> QED
    BY <1>2, <2>1, ObservedSame
<1>4. w.message = [m EXCEPT !.open = @ \o <<Fragment(i, 1)>>]
  BY <1>2 DEF Consumed
<1>5. w.message.parts = m.parts /\ w.message.open = m.open \o <<Fragment(i, 1)>> /\ m.open \in Texts
  BY <1>2, <1>4 DEF Messages
<1>6. \A k \in CallParts(m.parts) : m.parts[k].id < i
  BY <1>1 DEF MessageFits, CallsFit
<1>7. MessageFits(p, st, m.parts, m.open \o <<Fragment(i, 1)>>, D, T \cup {i}, F)
  BY <1>1, <1>5, <1>6, MoreText
<1> QED
  BY <1>1, <1>2, <1>3, <1>5, <1>7 DEF Fits, w

\* Reasoning arrives, behind the text and ahead of the calls of later items.
LEMMA ThoughtArrives ==
  ASSUME NEW p, NEW st, NEW v, NEW D, NEW T, NEW F, NEW F2, Fits(p, st, v, D, T, F),
         DOMAIN p \subseteq Nat, T \subseteq Nat, None # "final", NEW e \in Events, NEW i \in DOMAIN p, NEW c \in Chunks,
         p[i] = "reasoning", st # "indexed" => c = "id", e.type = "reasoning", e.id = <<i, c>>,
         StillFinal(F, F2, i, e.mark),
         \A n \in DOMAIN D : D[n].started => ~(i < D[n].call), \A j \in T : ~(i < j)
  PROVE  Fits(p, st, Told(v, <<e>>), D, T, F2)
<1> DEFINE w == Told(v, <<e>>)
           m == v.message
<1>1. /\ v \in Tales(DOMAIN p) /\ DraftsFit(p, D) /\ AllShown(p, v.shown, D)
      /\ MessageFits(p, st, m.parts, m.open, D, T, F)
  BY DEF Fits
<1>2. /\ w \in Tales(DOMAIN p) /\ w.message = Consumed(m, e) /\ w.shown = Observed(v.shown, e)
      /\ m \in Messages /\ v.shown \in [DOMAIN p -> Seq(Events)]
  BY <1>1, OneEvent
<1> HIDE DEF w, m
<1>3. w.shown = v.shown
  <2>1. e.type \notin CallTypes
    BY DEF CallTypes
  <2> QED
    BY <1>2, <2>1, ObservedSame
<1>4. w.message = Reasoned(m, e)
  BY <1>2 DEF Consumed
<1>5. m.parts \in Seq(Parts) /\ e.id \in Ids /\ e.data \in Texts /\ e.mark \in Marks
  BY <1>2 DEF Messages, Events
<1>6. CASE PartsOf(m, "reasoning", e.id) = {}
  <2> DEFINE part == Part("reasoning", e.id, e.data, e.mark)
  <2>1. w.message.parts = Append(m.parts, part) /\ w.message.open = m.open
    BY <1>2, <1>4, <1>6, ReasonedTyped
  <2>2. part \in Parts
    BY <1>5, PartTyped DEF Kinds
  <2>3. part.kind = "reasoning" /\ part.id = <<i, c>> /\ part.mark = e.mark
    BY DEF Part
  <2> HIDE DEF part
  <2>4. PartsOf([parts |-> m.parts], "reasoning", <<i, c>>) = {}
    BY <1>6 DEF PartsOf
  <2>5. \A k \in CallParts(m.parts) : ~(i < m.parts[k].id)
    BY <1>1 DEF MessageFits, CallsFit
  <2>6. MessageFits(p, st, Append(m.parts, part), m.open, D, T, F2)
    BY <1>1, <1>5, <2>2, <2>3, <2>4, <2>5, ThoughtPart
  <2> QED
    BY <1>1, <1>2, <1>3, <2>1, <2>6 DEF Fits, w
<1>7. CASE PartsOf(m, "reasoning", e.id) # {}
  <2>9. \E k \in PartsOf(m, "reasoning", e.id) :
           Reasoned(m, e).parts = [m.parts EXCEPT ![k] = Extended(@, e)]
    BY <1>2, <1>7, ReasonedTyped
  <2>1. PICK k \in PartsOf(m, "reasoning", e.id) : Reasoned(m, e).parts = [m.parts EXCEPT ![k] = Extended(@, e)]
    BY <2>9
  <2>2. w.message.open = m.open
    BY <1>2, <1>4, ReasonedTyped
  <2>3. k \in DOMAIN m.parts /\ m.parts[k].kind = "reasoning" /\ m.parts[k].id = <<i, c>>
    BY <2>1 DEF PartsOf
  <2> DEFINE part == Extended(m.parts[k], e)
  <2>4. m.parts[k] \in Parts
    BY <1>5, <2>3
  <2>5. m.parts[k].data \o e.data \in Texts
    BY <1>5, <2>4 DEF Parts, Texts
  <2>6. /\ part \in Parts /\ part.kind = "reasoning" /\ part.id = m.parts[k].id
        /\ part.mark = IF e.mark = None THEN m.parts[k].mark ELSE e.mark
    BY <1>5, <2>3, <2>4, <2>5 DEF Extended, Parts
  <2>7. w.message.parts = [m.parts EXCEPT ![k] = part]
    BY <1>4, <2>1, <2>3
  <2> HIDE DEF part
  <2>8. MessageFits(p, st, [m.parts EXCEPT ![k] = part], m.open, D, T, F2)
    BY <1>1, <1>5, <2>3, <2>6, ThoughtGrows
  <2> QED
    BY <1>1, <1>2, <1>3, <2>2, <2>7, <2>8 DEF Fits, w
<1> QED
  BY <1>6, <1>7

-----------------------------------------------------------------------------
(* The events of one draft. *)

LEMMA ArgumentsTyped ==
  ASSUME NEW d \in Drafts
  PROVE  Arguments(d) \in Texts
BY DEF Arguments, Drafts

\* A draft is started once it has a name.
LEMMA StartFits ==
  ASSUME NEW p, NEW st, NEW v, NEW D, NEW T, NEW F, Fits(p, st, v, D, T, F),
         DOMAIN p \subseteq Nat, T \subseteq Nat, NEW n \in DOMAIN D,
         D[n].named /\ ~D[n].started => ~D[n].completed /\ \A i \in T : i < D[n].call /\ ~(D[n].call < i)
  PROVE  Fits(p, st, Told(v, StartOf(D[n])), [D EXCEPT ![n] = Started(D[n])], T, F)
<1> DEFINE d == D[n]
<1>1. /\ v \in Tales(DOMAIN p) /\ DraftsFit(p, D) /\ AllShown(p, v.shown, D)
      /\ MessageFits(p, st, v.message.parts, v.message.open, D, T, F)
  BY DEF Fits
<1>2. d \in Drafts /\ DraftFits(p, d) /\ d.call \in DOMAIN p /\ d.call \in Nat /\ D \in Seq(Drafts)
  BY <1>1 DEF DraftsFit, DraftFits
<1>3. CASE d.started \/ ~d.named
  <2>1. StartOf(d) = <<>>
    BY <1>3 DEF StartOf
  <2>2. Started(d) = d
    <3>1. (d.started \/ d.named) = d.started
      BY <1>2, <1>3 DEF Drafts
    <3> HIDE DEF d
    <3> QED
      BY <1>2, <3>1 DEF Started, Drafts
  <2>3. [D EXCEPT ![n] = Started(d)] = D
    BY <1>2, <2>2
  <2>4. Told(v, <<>>) = v
    BY <1>1, ToldNone
  <2> QED
    BY <2>1, <2>3, <2>4
<1>4. CASE d.named /\ ~d.started
  <2> DEFINE e == Event("start", d.call, <<>>, None)
             w == Told(v, <<e>>)
             m == v.message
             f == Flushed(m)
             part == Part("call", d.call, <<>>, "pending")
             d2 == [d EXCEPT !.started = TRUE]
             D2 == [D EXCEPT ![n] = d2]
  <2>1. <<>> \in Texts /\ d.call \in Ids
    BY <1>2 DEF Texts, Ids
  <2>2. e \in Events /\ e.type = "start" /\ e.id = d.call
    <3>1. e \in Events
      BY <2>1, EventTyped DEF Types, CallTypes, Marks
    <3> QED
      BY <3>1 DEF Event
  <2>3. part \in Parts
    BY <2>1, PartTyped DEF Kinds, Marks
  <2> HIDE DEF d
  <2>4. /\ d2 \in Drafts /\ d2.started /\ d2.completed = d.completed /\ d2.ended = d.ended
        /\ d2.named = d.named /\ d2.call = d.call /\ d2.final = d.final
    BY <1>2 DEF Drafts
  <2>5. ~d.ended /\ ~d.completed /\ \A i \in T : i < d.call /\ ~(d.call < i)
    BY <1>2, <1>4 DEF DraftFits, Flags, d
  <2>6. PartFits(part, d2)
    BY <2>4, <2>5 DEF PartFits
  <2>7. DraftFits(p, d2)
    BY <1>2, <1>4, <2>4, <2>5 DEF DraftFits, Flags
  <2>8. StartOf(d) = <<e>> /\ Started(d) = d2
    BY <1>2, <1>4 DEF StartOf, Started, Drafts
  <2> HIDE DEF e, part, d2
  <2>9. /\ w \in Tales(DOMAIN p) /\ w.message = Consumed(m, e) /\ w.shown = Observed(v.shown, e)
        /\ m \in Messages /\ v.shown \in [DOMAIN p -> Seq(Events)]
    BY <1>1, <2>2, OneEvent
  <2> HIDE DEF w, m
  <2>10. f \in Messages /\ f.open = <<>> /\ MessageFits(p, st, f.parts, <<>>, D, T, F)
    BY <1>1, <2>9, FlushFits DEF m
  <2>11. w.message = Called(f, e, part)
    BY <2>2, <2>9 DEF Consumed, part, f
  <2> HIDE DEF f
  <2>12. f.parts \in Seq(Parts)
    BY <2>10 DEF Messages
  <2>13. ~D[n].started /\ d2.call = D[n].call /\ d2.started /\ ~d2.completed
         /\ (\A i \in T : i < d2.call) /\ (\A i \in T : ~(d2.call < i))
    BY <1>4, <2>4, <2>5 DEF d
  <2>14. /\ MessageFits(p, st, Append(f.parts, part), <<>>, D2, T, F)
         /\ \A k \in CallParts(f.parts) : f.parts[k].id # d2.call
    BY ZenonT(60), <1>1, <2>3, <2>4, <2>6, <2>7, <2>10, <2>12, <2>13, CallPart
  <2>15. PartsOf(f, "call", e.id) = {}
    BY <2>2, <2>4, <2>14 DEF PartsOf, CallParts
  <2>16. w.message.parts = Append(f.parts, part) /\ w.message.open = <<>>
    BY <2>2, <2>3, <2>10, <2>11, <2>15, CalledTyped
  <2>17. /\ w.shown[d2.call] = Append(v.shown[d2.call], e)
         /\ \A i \in DOMAIN p : i # d2.call => w.shown[i] = v.shown[i]
    <3>1. e.type \in CallTypes /\ e.id \in DOMAIN p
      BY <1>2, <2>2 DEF CallTypes
    <3>3. v.shown \in [DOMAIN p -> Seq(Events)] /\ e \in Events
      BY <2>2, <2>9
    <3>2. Sees(DOMAIN p, v.shown, e, Observed(v.shown, e))
      BY <3>1, <3>3, ObservedCall
    <3> QED
      BY <2>2, <2>4, <2>9, <3>2 DEF Sees
  <2>18. ShownFits(w.shown[d2.call], d2)
    <3>1. ShownFits(v.shown[d.call], d)
      BY <1>1 DEF AllShown, d
    <3>2. v.shown[d.call] \in Seq(Events)
      BY <1>2, <2>9
    <3>3. ShownFits(Append(v.shown[d.call], e), [d EXCEPT !.started = TRUE])
      BY <1>2, <1>4, <2>2, <2>5, <3>1, <3>2, StartSeen
    <3> QED
      BY <2>4, <2>17, <3>3 DEF d2
  <2>19. DraftsFit(p, D2)
    BY <1>1, <2>4, <2>7, <2>13, DraftChanged
  <2>20. AllShown(p, w.shown, D2)
    BY ZenonT(60), <1>1, <2>4, <2>7, <2>13, <2>17, <2>18, ShownChanged
  <2>21. Fits(p, st, w, D2, T, F)
    BY <2>9, <2>14, <2>16, <2>19, <2>20 DEF Fits
  <2> QED
    BY <2>8, <2>21 DEF w, d
<1> QED
  BY <1>3, <1>4

\* Arguments arrive for a draft that was started and did not end.
LEMMA DeltaFits ==
  ASSUME NEW p, NEW st, NEW v, NEW D, NEW T, NEW F, Fits(p, st, v, D, T, F),
         DOMAIN p \subseteq Nat, NEW n \in DOMAIN D, D[n].started, ~D[n].ended, ~D[n].completed,
         NEW data \in Texts
  PROVE  Fits(p, st, Told(v, <<Event("delta", D[n].call, data, None)>>), D, T, F)
<1> DEFINE d == D[n]
           e == Event("delta", d.call, data, None)
           w == Told(v, <<e>>)
<1>1. /\ v \in Tales(DOMAIN p) /\ DraftsFit(p, D) /\ AllShown(p, v.shown, D)
      /\ MessageFits(p, st, v.message.parts, v.message.open, D, T, F)
  BY DEF Fits
<1>2. d \in Drafts /\ DraftFits(p, d) /\ d.call \in DOMAIN p /\ d.call \in Nat /\ D \in Seq(Drafts)
  BY <1>1 DEF DraftsFit, DraftFits
<1>3. e \in Events /\ e.type = "delta" /\ e.id = d.call
  <2>1. e \in Events
    BY <1>2, EventTyped DEF Types, CallTypes, Marks, Ids
  <2> QED
    BY <2>1 DEF Event
<1> HIDE DEF e
<1>4. /\ w \in Tales(DOMAIN p) /\ w.message = Consumed(v.message, e) /\ w.shown = Observed(v.shown, e)
      /\ v.message \in Messages /\ v.shown \in [DOMAIN p -> Seq(Events)]
  BY <1>1, <1>3, OneEvent
<1> HIDE DEF w
<1>5. w.message = v.message
  BY <1>3, <1>4 DEF Consumed
<1>6. /\ w.shown[d.call] = Append(v.shown[d.call], e)
      /\ \A i \in DOMAIN p : i # d.call => w.shown[i] = v.shown[i]
  <2>1. e.type \in CallTypes /\ e.id \in DOMAIN p
    BY <1>2, <1>3 DEF CallTypes
  <2>2. Sees(DOMAIN p, v.shown, e, Observed(v.shown, e))
    BY <1>3, <1>4, <2>1, ObservedCall
  <2> QED
    BY <1>3, <1>4, <2>2 DEF Sees
<1>7. ShownFits(w.shown[d.call], d)
  <2>1. ShownFits(v.shown[d.call], d)
    BY <1>1 DEF AllShown
  <2>2. v.shown[d.call] \in Seq(Events)
    BY <1>2, <1>4
  <2> HIDE DEF d
  <2>3. ShownFits(Append(v.shown[d.call], e), d)
    BY <1>2, <1>3, <2>1, <2>2, DeltaSeen DEF d
  <2> QED
    BY <1>6, <2>3
<1>8. AllShown(p, w.shown, D)
  <2>1. AllShown(p, w.shown, [D EXCEPT ![n] = d])
    BY ZenonT(60), <1>1, <1>2, <1>6, <1>7, ShownChanged
  <2>2. [D EXCEPT ![n] = d] = D
    BY <1>2
  <2> QED
    BY <2>1, <2>2
<1>9. Fits(p, st, w, D, T, F)
  BY <1>1, <1>4, <1>5, <1>8 DEF Fits
<1> QED
  BY <1>9 DEF w, e

\* The arguments of a draft end.
EndedBy(d) == [d EXCEPT !.ended = @ \/ d.named]

LEMMA EndFits ==
  ASSUME NEW p, NEW st, NEW v, NEW D, NEW T, NEW F, Fits(p, st, v, D, T, F),
         DOMAIN p \subseteq Nat, NEW n \in DOMAIN D, D[n].named => D[n].started
  PROVE  /\ Fits(p, st, Told(v, EndOf(D[n])), [D EXCEPT ![n] = EndedBy(D[n])], T, F)
         /\ Told(v, EndOf(D[n])).message = v.message
<1> DEFINE d == D[n]
<1>1. /\ v \in Tales(DOMAIN p) /\ DraftsFit(p, D) /\ AllShown(p, v.shown, D)
      /\ MessageFits(p, st, v.message.parts, v.message.open, D, T, F)
  BY DEF Fits
<1>2. d \in Drafts /\ DraftFits(p, d) /\ d.call \in DOMAIN p /\ d.call \in Nat /\ D \in Seq(Drafts)
  BY <1>1 DEF DraftsFit, DraftFits
<1>3. CASE d.ended \/ ~d.named
  <2>1. EndOf(d) = <<>>
    BY <1>3 DEF EndOf
  <2>2. EndedBy(d) = d
    <3>1. (d.ended \/ d.named) = d.ended
      BY <1>2, <1>3 DEF Drafts
    <3> HIDE DEF d
    <3> QED
      BY <1>2, <3>1 DEF EndedBy, Drafts
  <2>3. [D EXCEPT ![n] = EndedBy(d)] = D
    BY <1>2, <2>2
  <2>4. Told(v, <<>>) = v
    BY <1>1, ToldNone
  <2> QED
    BY <2>1, <2>3, <2>4
<1>4. CASE d.named /\ ~d.ended
  <2> DEFINE e == Event("end", d.call, Arguments(d), None)
             w == Told(v, <<e>>)
             d2 == [d EXCEPT !.ended = TRUE]
             D2 == [D EXCEPT ![n] = d2]
  <2>1. Arguments(d) \in Texts /\ d.call \in Ids
    BY <1>2, ArgumentsTyped DEF Ids
  <2>2. e \in Events /\ e.type = "end" /\ e.id = d.call
    <3>1. e \in Events
      BY <2>1, EventTyped DEF Types, CallTypes, Marks
    <3> QED
      BY <3>1 DEF Event
  <2>3. d.started /\ ~d.completed
    BY <1>2, <1>4 DEF DraftFits, Flags
  <2> HIDE DEF d
  <2>4. /\ d2 \in Drafts /\ d2.started = d.started /\ d2.completed = d.completed /\ d2.ended
        /\ d2.named = d.named /\ d2.call = d.call /\ d2.final = d.final
    BY <1>2 DEF Drafts
  <2>5. DraftFits(p, d2)
    BY <1>2, <1>4, <2>3, <2>4 DEF DraftFits, Flags
  <2>6. EndOf(d) = <<e>> /\ EndedBy(d) = d2
    BY <1>2, <1>4 DEF EndOf, EndedBy, Drafts
  <2> HIDE DEF e, d2
  <2>7. /\ w \in Tales(DOMAIN p) /\ w.message = Consumed(v.message, e) /\ w.shown = Observed(v.shown, e)
        /\ v.message \in Messages /\ v.shown \in [DOMAIN p -> Seq(Events)]
    BY <1>1, <2>2, OneEvent
  <2> HIDE DEF w
  <2>8. w.message = v.message
    BY <2>2, <2>7 DEF Consumed
  <2>9. /\ w.shown[d2.call] = Append(v.shown[d2.call], e)
        /\ \A i \in DOMAIN p : i # d2.call => w.shown[i] = v.shown[i]
    <3>1. e.type \in CallTypes /\ e.id \in DOMAIN p
      BY <1>2, <2>2 DEF CallTypes
    <3>3. v.shown \in [DOMAIN p -> Seq(Events)] /\ e \in Events
      BY <2>2, <2>7
    <3>2. Sees(DOMAIN p, v.shown, e, Observed(v.shown, e))
      BY <3>1, <3>3, ObservedCall
    <3> QED
      BY <2>2, <2>4, <2>7, <3>2 DEF Sees
  <2>10. ShownFits(w.shown[d2.call], d2)
    <3>1. ShownFits(v.shown[d.call], d)
      BY <1>1 DEF AllShown, d
    <3>2. v.shown[d.call] \in Seq(Events)
      BY <1>2, <2>7
    <3>3. ShownFits(Append(v.shown[d.call], e), [d EXCEPT !.ended = TRUE])
      BY <1>2, <1>4, <2>2, <2>3, <3>1, <3>2, EndSeen
    <3> QED
      BY <2>4, <2>9, <3>3 DEF d2
  <2>11. d2.call = D[n].call /\ d2.started = D[n].started /\ ~d2.completed /\ ~D[n].completed
    BY <2>3, <2>4 DEF d
  <2>12. DraftsFit(p, D2)
    BY <1>1, <2>4, <2>5, <2>11, DraftChanged
  <2>13. AllShown(p, w.shown, D2)
    BY ZenonT(60), <1>1, <2>4, <2>5, <2>9, <2>10, <2>11, ShownChanged
  <2>14. CallsFit(w.message.parts, D2)
    <3>1. CallsFit(v.message.parts, D)
      BY <1>1 DEF MessageFits
    <3>2. CallsFit(v.message.parts, D2)
      BY <1>1, <2>4, <2>5, <2>11, <3>1, QuietCalls
    <3> QED
      BY <2>8, <3>2
  <2>15. Fits(p, st, w, D2, T, F)
    BY <1>1, <2>7, <2>8, <2>12, <2>13, <2>14 DEF Fits, MessageFits
  <2> QED
    BY <2>6, <2>8, <2>15 DEF w, d
<1> QED
  BY <1>3, <1>4

\* The call is complete, once its arguments ended.
LEMMA CompleteFits ==
  ASSUME NEW p, NEW st, NEW v, NEW D, NEW T, NEW F, Fits(p, st, v, D, T, F),
         DOMAIN p \subseteq Nat, NEW n \in DOMAIN D, D[n].started, D[n].ended, ~D[n].completed,
         NEW e, e = Event("complete", D[n].call, Arguments(D[n]), None)
  PROVE  /\ Fits(p, st, Told(v, <<e>>), [D EXCEPT ![n].completed = TRUE], T, F)
         /\ Told(v, <<e>>).message.open = v.message.open /\ e \in Events
<1> DEFINE d == D[n]
           w == Told(v, <<e>>)
           m == v.message
           d2 == [d EXCEPT !.completed = TRUE]
           D2 == [D EXCEPT ![n] = d2]
           part == Part("call", d.call, Arguments(d), "running")
<1>1. /\ v \in Tales(DOMAIN p) /\ DraftsFit(p, D) /\ AllShown(p, v.shown, D)
      /\ MessageFits(p, st, m.parts, m.open, D, T, F)
  BY DEF Fits
<1>2. d \in Drafts /\ DraftFits(p, d) /\ d.call \in DOMAIN p /\ d.call \in Nat /\ D \in Seq(Drafts)
  BY <1>1 DEF DraftsFit, DraftFits
<1>3. Arguments(d) \in Texts /\ d.call \in Ids
  BY <1>2, ArgumentsTyped DEF Ids
<1>4. e \in Events /\ e.type = "complete" /\ e.id = d.call /\ e.data = Arguments(d)
  <2>1. e \in Events
    BY <1>3, EventTyped DEF Types, CallTypes, Marks
  <2> QED
    BY <2>1 DEF Event
<1>5. part \in Parts
  BY <1>3, PartTyped DEF Kinds, Marks
<1> HIDE DEF d
<1>6. /\ d2 \in Drafts /\ d2.started = d.started /\ d2.completed /\ d2.ended = d.ended
      /\ d2.named = d.named /\ d2.call = d.call /\ d2.final = d.final /\ d2.chunks = d.chunks
  BY <1>2 DEF Drafts
<1>7. d.started /\ d.ended /\ ~d.completed
  BY DEF d
<1>8. DraftFits(p, d2)
  BY <1>2, <1>6, <1>7 DEF DraftFits, Flags
<1>9. PartFits(part, d2)
  BY <1>6 DEF PartFits, Arguments
<1>10. [D EXCEPT ![n].completed = TRUE] = D2
  BY DEF d
<1> HIDE DEF d2
<1>11. /\ w \in Tales(DOMAIN p) /\ w.message = Consumed(m, e) /\ w.shown = Observed(v.shown, e)
       /\ m \in Messages /\ v.shown \in [DOMAIN p -> Seq(Events)]
  BY <1>1, <1>4, OneEvent
<1> HIDE DEF w, m
<1>12. w.message = Called(m, e, part)
  BY <1>4, <1>11 DEF Consumed
<1>13. PICK k \in CallParts(m.parts) : PartFits(m.parts[k], d)
  BY <1>1, <1>7 DEF MessageFits, CallsFit, d
<1>14. m.parts[k].id = d.call
  BY <1>13 DEF PartFits, Part
<1>15. PartsOf(m, "call", e.id) = {k}
  <2>1. \A j \in CallParts(m.parts) : m.parts[j].id = m.parts[k].id => j = k
    BY <1>1, <1>13 DEF MessageFits, CallsFit
  <2> QED
    BY <1>4, <1>13, <1>14, <2>1 DEF PartsOf, CallParts
<1> HIDE DEF part
<1>16. w.message.parts = [m.parts EXCEPT ![k] = part] /\ w.message.open = m.open
  <2>1. e.type # "start"
    BY <1>4
  <2>2. PartsOf(m, "call", e.id) # {}
    BY <1>15
  <2>3. /\ Called(m, e, part).open = m.open
        /\ \E j \in PartsOf(m, "call", e.id) : Called(m, e, part).parts = [m.parts EXCEPT ![j] = part]
    BY ZenonT(60), <1>4, <1>5, <1>11, <2>1, <2>2, CalledTyped
  <2> QED
    BY <1>12, <1>15, <2>3
<1>17. d2.call = D[n].call /\ d2.started /\ D[n].started
  BY <1>6, <1>7 DEF d
<1>18. m.parts \in Seq(Parts)
  BY <1>11 DEF Messages
<1>19. MessageFits(p, st, [m.parts EXCEPT ![k] = part], m.open, D2, T, F)
  BY ZenonT(60), <1>1, <1>5, <1>6, <1>8, <1>9, <1>13, <1>14, <1>17, <1>18, CallCompletes
<1>20. /\ w.shown[d2.call] = Append(v.shown[d2.call], e)
       /\ \A i \in DOMAIN p : i # d2.call => w.shown[i] = v.shown[i]
  <2>1. e.type \in CallTypes /\ e.id \in DOMAIN p
    BY <1>2, <1>4 DEF CallTypes
  <2>2. Sees(DOMAIN p, v.shown, e, Observed(v.shown, e))
    BY <1>4, <1>11, <2>1, ObservedCall
  <2> QED
    BY <1>4, <1>6, <1>11, <2>2 DEF Sees
<1>21. ShownFits(w.shown[d2.call], d2)
  <2>1. ShownFits(v.shown[d.call], d)
    BY <1>1 DEF AllShown, d
  <2>2. v.shown[d.call] \in Seq(Events)
    BY <1>2, <1>11
  <2>3. ShownFits(Append(v.shown[d.call], e), [d EXCEPT !.completed = TRUE])
    BY <1>2, <1>4, <1>7, <2>1, <2>2, CompleteSeen
  <2> QED
    BY <1>6, <1>20, <2>3 DEF d2
<1>22. DraftsFit(p, D2)
  BY <1>1, <1>6, <1>8, <1>17, DraftChanged
<1>23. AllShown(p, w.shown, D2)
  BY ZenonT(60), <1>1, <1>6, <1>8, <1>17, <1>20, <1>21, ShownChanged
<1>24. Fits(p, st, w, D2, T, F)
  BY <1>11, <1>16, <1>19, <1>22, <1>23 DEF Fits
<1> QED
  BY <1>4, <1>10, <1>16, <1>24 DEF w, m

\* A draft that was started, if it has a name, is completed.
LEMMA CompletionFits ==
  ASSUME NEW p, NEW st, NEW v, NEW D, NEW T, NEW F, Fits(p, st, v, D, T, F),
         DOMAIN p \subseteq Nat, NEW n \in DOMAIN D, D[n].named => D[n].started
  PROVE  /\ Fits(p, st, Told(v, CompletionOf(D[n])), [D EXCEPT ![n] = Completed(D[n])], T, F)
         /\ Told(v, CompletionOf(D[n])).message.open = v.message.open
         /\ CompletionOf(D[n]) \in Seq(Events)
<1> DEFINE d == D[n]
           d3 == Completed(d)
           s == CompletionOf(d)
<1>1. v \in Tales(DOMAIN p) /\ DraftsFit(p, D)
  BY DEF Fits
<1>2. d \in Drafts /\ DraftFits(p, d) /\ d.call \in Nat /\ D \in Seq(Drafts)
  BY <1>1 DEF DraftsFit, DraftFits
<1>3. Told(v, <<>>) = v
  BY <1>1, ToldNone
<1>4. CASE d.completed
  <2>1. s = <<>>
    BY <1>4 DEF CompletionOf
  <2>2. d3 = d
    <3>1. (d.started \/ d.named) = d.started /\ (d.ended \/ (d.named /\ ~d.completed)) = d.ended
          /\ d.completed = TRUE
      BY <1>2, <1>4 DEF Drafts
    <3> HIDE DEF d
    <3> QED
      BY <1>2, <3>1 DEF Completed, Drafts
  <2>3. [D EXCEPT ![n] = d3] = D
    BY <1>2, <2>2
  <2> QED
    BY <1>3, <2>1, <2>3
<1>5. CASE ~d.named
  <2>1. s = <<>>
    BY <1>5 DEF CompletionOf
  <2>2. ~d.started /\ ~d.ended
    BY <1>2, <1>5 DEF DraftFits, Flags
  <2>3. /\ d3 \in Drafts /\ ~d3.started /\ ~d3.ended /\ ~d3.named
        /\ d3.call = d.call /\ d3.final = d.final
    <3> HIDE DEF d
    <3> QED
      BY <1>2, <1>5, <2>2 DEF Completed, Drafts
  <2>4. DraftFits(p, d3)
    BY <1>2, <2>3 DEF DraftFits, Flags
  <2> HIDE DEF d3
  <2>5. d3.call = D[n].call /\ d3.started = D[n].started /\ d3.ended = D[n].ended
    BY <1>2, <2>2, <2>3 DEF Drafts
  <2>6. Fits(p, st, v, [D EXCEPT ![n] = d3], T, F)
    BY <2>3, <2>4, <2>5, QuietChange
  <2> QED
    BY <1>3, <2>1, <2>6 DEF d3
<1>6. CASE d.named /\ ~d.completed
  <2> DEFINE d2 == EndedBy(d)
             D2 == [D EXCEPT ![n] = d2]
             u == Told(v, EndOf(d))
             e == Event("complete", d.call, Arguments(d), None)
  <2>1. Fits(p, st, u, D2, T, F) /\ u.message = v.message
    BY EndFits
  <2>2. EndOf(d) \in Seq(Events)
    <3>1. Arguments(d) \in Texts /\ d.call \in Ids
      BY <1>2, ArgumentsTyped DEF Ids
    <3>2. Event("end", d.call, Arguments(d), None) \in Events
      BY <3>1, EventTyped DEF Types, CallTypes, Marks
    <3> QED
      BY <3>2 DEF EndOf
  <2>3. d.started
    BY <1>6
  <2>4. s = EndOf(d) \o <<e>>
    <3>1. StartOf(d) = <<>> /\ <<>> \o EndOf(d) = EndOf(d)
      BY <2>2, <2>3 DEF StartOf
    <3> QED
      BY <1>6, <3>1 DEF CompletionOf
  <2>5. /\ d2 \in Drafts /\ d2.started /\ d2.ended /\ ~d2.completed
        /\ d2.call = d.call /\ d2.final = d.final /\ d2.chunks = d.chunks
        /\ d3 = [d2 EXCEPT !.completed = TRUE]
    <3> HIDE DEF d
    <3> QED
      BY <1>2, <1>6, <2>3 DEF EndedBy, Completed, Drafts
  <2>6. Arguments(d2) = Arguments(d)
    BY <2>5 DEF Arguments
  <2>7. DOMAIN D2 = DOMAIN D /\ D2[n] = d2 /\ [D2 EXCEPT ![n].completed = TRUE] = [D EXCEPT ![n] = d3]
    <3> HIDE DEF d2, d3
    <3> QED
      BY <1>2, <2>5
  <2> HIDE DEF D2, d2, d3, d, u
  <2>8. e = Event("complete", D2[n].call, Arguments(D2[n]), None)
    BY <2>5, <2>6, <2>7
  <2> HIDE DEF e
  <2>9. n \in DOMAIN D2 /\ D2[n].started /\ D2[n].ended /\ ~D2[n].completed
    BY <2>5, <2>7
  <2>10. /\ Fits(p, st, Told(u, <<e>>), [D2 EXCEPT ![n].completed = TRUE], T, F)
         /\ Told(u, <<e>>).message.open = u.message.open /\ e \in Events
    BY <2>1, <2>8, <2>9, CompleteFits
  <2>11. <<e>> \in Seq(Events) /\ EndOf(d) \o <<e>> \in Seq(Events)
    BY <2>2, <2>10
  <2>12. Told(v, EndOf(d) \o <<e>>) = Told(u, <<e>>)
    BY <1>1, <2>2, <2>11, ToldConcat DEF u
  <2> QED
    BY <2>1, <2>4, <2>7, <2>10, <2>11, <2>12 DEF d, d3
<1> QED
  BY <1>4, <1>5, <1>6

\* All drafts are completed, in their order.
LEMMA AllCompletionsFit ==
  ASSUME NEW p, NEW st, NEW v, NEW T, NEW F, Fits(p, st, v, drafts, T, F),
         DOMAIN p \subseteq Nat, \A n \in DOMAIN drafts : drafts[n].named => drafts[n].started
  PROVE  /\ Fits(p, st, Told(v, AllCompletions), AllCompleted, T, F)
         /\ Told(v, AllCompletions).message.open = v.message.open
         /\ AllCompletions \in Seq(Events)
<1> DEFINE D == drafts
           N == Len(D)
           V == Seq(Events)
           step == [n \in 1..N |-> [s \in V |-> s \o CompletionOf(D[n])]]
           Body(f) == [n \in 0..N |-> IF n = 0 THEN <<>> ELSE f[n - 1] \o CompletionOf(D[n])]
           upTo == CHOOSE f : f = Body(f)
           Half(k) == [n \in DOMAIN D |-> IF n <= k THEN Completed(D[n]) ELSE D[n]]
<1>1. v \in Tales(DOMAIN p) /\ D \in Seq(Drafts)
  BY DEF Fits, DraftsFit
<1>2. N \in Nat /\ DOMAIN D = 1..N
  BY <1>1
<1>3. \A n \in 1..N : CompletionOf(D[n]) \in V
  BY <1>2, CompletionFits
<1>4. <<>> \in V /\ \A s \in V, n \in 1..N : s \o CompletionOf(D[n]) \in V
  BY <1>3
<1>5. step \in Steps(N, V)
  BY <1>4 DEF Steps
<1>6. PICK g : Follows(g, N, V, <<>>, step)
  BY <1>2, <1>4, <1>5, Recursion
<1> HIDE DEF V
<1>7. g \in [0..N -> V] /\ g[0] = <<>> /\ \A n \in 1..N : g[n] = g[n - 1] \o CompletionOf(D[n])
  <2>1. g \in [0..N -> V] /\ g[0] = <<>> /\ \A n \in 1..N : g[n] = step[n][g[n - 1]]
    BY <1>6 DEF Follows
  <2>2. \A n \in 1..N : n - 1 \in 0..N
    BY <1>2
  <2>3. \A n \in 1..N : g[n - 1] \in V
    BY <2>1, <2>2
  <2> HIDE DEF N, D
  <2> QED
    BY <2>1, <2>3
<1> HIDE DEF step
<1>8. g = Body(g)
  <2>1. \A n \in 0..N : g[n] = IF n = 0 THEN <<>> ELSE g[n - 1] \o CompletionOf(D[n])
    <3>1. \A n \in 0..N : n # 0 => n \in 1..N
      BY <1>2
    <3> QED
      BY <1>7, <3>1
  <2>2. g = [n \in 0..N |-> g[n]]
    BY <1>7
  <2> DEFINE b == Body(g)
  <2>3. b = [n \in 0..N |-> b[n]] /\ \A n \in 0..N : b[n] = g[n]
    BY <2>1
  <2> HIDE DEF b
  <2>4. g = b
    BY SMTT(40), <2>2, <2>3
  <2> QED
    BY <2>4 DEF b
<1>9. upTo = Body(upTo)
  BY ZenonT(60), <1>8
<1>10. upTo = [n \in 0..N |-> IF n = 0 THEN <<>> ELSE upTo[n - 1] \o CompletionOf(D[n])]
  BY <1>9
<1>11. AllCompletions = upTo[N]
  BY DEF AllCompletions
<1> HIDE DEF upTo
<1>12. /\ upTo[0] = <<>>
       /\ \A n \in 1..N : upTo[n] = upTo[n - 1] \o CompletionOf(D[n])
  BY <1>2, <1>10
<1> DEFINE Good(k) == /\ upTo[k] \in V
                      /\ Fits(p, st, Told(v, upTo[k]), Half(k), T, F)
                      /\ Told(v, upTo[k]).message.open = v.message.open
           Goods == {k \in 0..N : Good(k)}
<1>13. Half(0) = D /\ Half(N) = AllCompleted
  <2>1. Half(0) = D
    BY <1>1, <1>2
  <2>2. \A n \in DOMAIN D : n <= N
    BY <1>2
  <2>3. Half(N) = AllCompleted
    BY <2>2 DEF AllCompleted
  <2> QED
    BY <2>1, <2>3
<1>14. 0 \in Goods
  <2>1. Told(v, <<>>) = v
    BY <1>1, ToldNone
  <2> HIDE DEF D, Half
  <2>2. Fits(p, st, v, Half(0), T, F)
    BY <1>13 DEF D
  <2> QED
    BY <1>2, <1>4, <1>12, <2>1, <2>2
<1>15. ASSUME NEW k \in 1..N, k - 1 \in Goods PROVE k \in Goods
  <2> DEFINE j == k - 1
             h == Half(j)
             u == Told(v, upTo[j])
             s == CompletionOf(D[k])
  <2>1. Good(j)
    BY <1>15
  <2>2. k \in DOMAIN D /\ ~(k <= j) /\ k <= k /\ k \in 0..N /\ \A n \in DOMAIN D : n # k => (n <= k <=> n <= j)
    BY <1>2
  <2>3. k \in DOMAIN h /\ h[k] = D[k] /\ (h[k].named => h[k].started)
    BY <2>2
  <2>4. [h EXCEPT ![k] = Completed(D[k])] = Half(k)
    BY <2>2
  <2> HIDE DEF h
  <2>5. /\ Fits(p, st, Told(u, CompletionOf(h[k])), [h EXCEPT ![k] = Completed(h[k])], T, F)
        /\ Told(u, CompletionOf(h[k])).message.open = u.message.open
    <3>1. Fits(p, st, u, h, T, F)
      BY <2>1 DEF h
    <3> HIDE DEF u, D
    <3> QED
      BY <2>3, <3>1, CompletionFits
  <2>6. upTo[k] = upTo[j] \o s /\ upTo[j] \in V /\ s \in V /\ upTo[k] \in V
    <3>1. upTo[k] = upTo[j] \o s
      BY <1>12
    <3>2. upTo[j] \in V /\ s \in V
      BY <1>3, <2>1
    <3> QED
      BY <3>1, <3>2 DEF V
  <2>7. Told(v, upTo[k]) = Told(u, s)
    <3>1. Told(v, upTo[j] \o s) = Told(Told(v, upTo[j]), s)
      BY <1>1, <2>6, ToldConcat DEF V
    <3> QED
      BY <2>6, <3>1
  <2>8. u.message.open = v.message.open
    BY <2>1
  <2> HIDE DEF u, Half, D
  <2>9. Good(k)
    BY <2>3, <2>4, <2>5, <2>6, <2>7, <2>8
  <2> QED
    BY <2>2, <2>9
<1>16. N \in Goods
  <2> HIDE DEF Goods
  <2>1. 0..N \subseteq Goods
    BY <1>2, <1>14, <1>15, Induction
  <2> QED
    BY <1>2, <2>1
<1>17. Good(N)
  BY <1>16
<1> HIDE DEF Half
<1> QED
  BY <1>11, <1>13, <1>17 DEF V

-----------------------------------------------------------------------------
(* The inductive invariant. *)

Tale == [message |-> message, shown |-> shown]
Done(kind) == {i \in Items : plan[i] = kind /\ sent[i].done}

Sents == [added : BOOLEAN, fragments : 0..2, told : BOOLEAN, done : BOOLEAN]

StreamTyped ==
    /\ plan \in Plans /\ style \in Styles /\ sent \in [Items -> Sents]
    /\ ending \in {"open", "completed", "incomplete", "failed"}
    /\ over \in {"no", "stored", "dropped", "none"}
    /\ Tale \in Tales(Items)
    /\ \A id \in DOMAIN thoughts :
          thoughts[id].encrypted \in {None, "early"} /\ thoughts[id].active \in BOOLEAN

\* What a draft tells of the chunks of its call.
DraftKnows(d) ==
    /\ d.started = d.named
    /\ sent[d.call] # Unsent
    /\ d.ended /\ ~d.completed => sent[d.call].told /\ d.chunks # <<>>
    /\ d.completed => sent[d.call].done \/ ending \in {"completed", "incomplete"}
    /\ ending \in {"completed", "incomplete"} => d.completed

DraftsKnow == \A n \in DOMAIN drafts : DraftKnows(drafts[n])

\* A call that was sent to its end has a draft with its arguments.
IsWhole(d) == d.named /\ d.completed /\ d.final = Whole(d.call)
DoneIsWhole == \A i \in Done("call") : \E n \in DOMAIN drafts : drafts[n].call = i /\ IsWhole(drafts[n])

\* A key of an item leads to the draft of the item.
KeysOf(i) == {<<"index", i>>, <<"call", i>>} \cup {<<"item", <<i, c>>>> : c \in Chunks}

AliasFits ==
    \A key \in DOMAIN alias :
        /\ alias[key] \in DOMAIN drafts
        /\ \E i \in Items : key \in KeysOf(i) /\ drafts[alias[key]].call = i

\* Only calls are under way at the same time.
InOrder ==
    \A j \in Items : sent[j] # Unsent => \A i \in Items : i < j /\ ~sent[i].done =>
        plan[i] = "call" /\ plan[j] = "call" /\ sent[i] # Unsent

SentInOrder ==
    /\ InOrder
    /\ \A i \in Items : plan[i] = "text" /\ sent[i] # Unsent => sent[i].done
    /\ ending = "completed" => \A i \in Items : sent[i].done

Streaming ==
    /\ Fits(plan, style, Tale, drafts, Done("text"), Done("reasoning"))
    /\ DraftsKnow /\ DoneIsWhole /\ AliasFits /\ SentInOrder

StreamInv ==
    /\ StreamTyped
    /\ over = "no" => Streaming
    /\ over # "no" => drafts = <<>> /\ alias = <<>> /\ thoughts = <<>>
    /\ over = "stored" => MessageIsWhole

\* An item of one of the three kinds, at a position.
LEMMA ItemsTyped ==
  ASSUME ResponseAssumption, StreamTyped
  PROVE  /\ Items \subseteq Nat /\ Items = DOMAIN plan
         /\ \A i \in Items : plan[i] \in {"call", "reasoning", "text"} /\ None # Whole(i)
                             /\ Whole(i) \in Texts /\ i \in Ids /\ sent[i] \in Sents
         /\ style \in {"indexed", "named", "called"}
         /\ \A kind : Done(kind) \subseteq Nat
         /\ None \notin {"early", "final", "pending", "running"}
<1>1. plan \in Plans /\ plan \in Seq({"call", "reasoning", "text"}) /\ sent \in [Items -> Sents]
  BY DEF ResponseAssumption, StreamTyped
<1>2. Items \subseteq Nat /\ Items = DOMAIN plan
  BY <1>1 DEF Items
<1>3. \A i \in Items : plan[i] \in {"call", "reasoning", "text"}
  BY <1>1 DEF Items
<1>4. ASSUME NEW i \in Items PROVE Whole(i) \in Texts
  <2>1. <<i, 1>> \in Pieces /\ <<i, 2>> \in Pieces
    BY <1>2 DEF Pieces
  <2> QED
    BY <2>1 DEF Whole, Fragment, Texts
<1> QED
  BY <1>1, <1>2, <1>3, <1>4 DEF ResponseAssumption, StreamTyped, Done, Ids, Items

\* What is told becomes the state.
LEMMA EmitTale ==
  ASSUME NEW events \in Seq(Events), Tale \in Tales(Items), Emit(events)
  PROVE  Tale' = Told(Tale, events)
<1> DEFINE new == Told(Tale, events)
<1>1. new \in Tales(Items)
  BY ToldTyped
<1>2. message' = new.message /\ shown' = new.shown
  BY DEF Emit, Tale
<1> HIDE DEF new
<1>3. new = [message |-> new.message, shown |-> new.shown]
  BY <1>1 DEF Tales
<1> QED
  BY <1>2, <1>3 DEF Tale, new

\* What one more chunk of an item changes of what was sent.
Sends(i, s2) ==
    /\ i \in Items /\ s2 \in Sents /\ s2 # Unsent
    /\ sent' = [sent EXCEPT ![i] = s2]
    /\ sent[i].told => s2.told
    /\ sent[i].done => s2.done

LEMMA SentTyped ==
  ASSUME StreamTyped, NEW i, NEW s2, Sends(i, s2), UNCHANGED plan
  PROVE  /\ sent' \in [Items' -> Sents] /\ Items' = Items
         /\ sent'[i] = s2 /\ \A j \in Items : j # i => sent'[j] = sent[j]
BY DEF StreamTyped, Sends, Items

LEMMA DoneGrows ==
  ASSUME StreamTyped, NEW i, NEW s2, Sends(i, s2), UNCHANGED plan, NEW kind
  PROVE  /\ s2.done = sent[i].done \/ plan[i] # kind => Done(kind)' = Done(kind)
         /\ s2.done /\ plan[i] = kind => Done(kind)' = Done(kind) \cup {i}
<1>1. /\ Items' = Items /\ i \in Items
      /\ sent'[i] = s2 /\ \A j \in Items : j # i => sent'[j] = sent[j]
  BY SentTyped DEF Sends
<1>2. Done(kind)' = {j \in Items : plan[j] = kind /\ sent'[j].done}
  BY <1>1 DEF Done
<1> QED
  BY <1>1, <1>2 DEF Done

\* The order of the items is kept, and what is sent comes after the texts.
LEMMA KeepsOrder ==
  ASSUME ResponseAssumption, StreamTyped, SentInOrder, NEW i, MaySend(i), NEW s2, Sends(i, s2),
         UNCHANGED <<plan, ending>>, plan[i] = "text" => s2.done
  PROVE  SentInOrder'
<1>1. /\ Items' = Items /\ i \in Items /\ Items \subseteq Nat /\ s2 # Unsent
      /\ sent'[i] = s2 /\ \A j \in Items : j # i => sent'[j] = sent[j]
  BY SentTyped, ItemsTyped DEF Sends
<1>2. /\ ~sent[i].done /\ ending = "open" /\ ending' = "open"
      /\ \A j \in Items : j < i /\ ~sent[j].done => plan[i] = "call" /\ plan[j] = "call" /\ sent[j] # Unsent
  BY DEF MaySend
<1>3. ASSUME NEW j \in Items, sent'[j] # Unsent, NEW k \in Items, k < j, ~sent'[k].done
      PROVE  plan[k] = "call" /\ plan[j] = "call" /\ sent'[k] # Unsent
  <2>1. CASE j = i
    <3>1. k # i /\ sent'[k] = sent[k]
      BY <1>1, <1>3, <2>1
    <3> QED
      BY <1>2, <1>3, <2>1, <3>1
  <2>2. CASE j # i /\ k = i
    BY <1>1, <1>2, <1>3, <2>2 DEF SentInOrder, InOrder
  <2>3. CASE j # i /\ k # i
    BY <1>1, <1>3, <2>3 DEF SentInOrder, InOrder
  <2> QED
    BY <2>1, <2>2, <2>3
<1>4. InOrder'
  BY <1>1, <1>3 DEF InOrder
<1>5. \A j \in Items : plan[j] = "text" /\ sent'[j] # Unsent => sent'[j].done
  BY <1>1 DEF SentInOrder
<1> QED
  BY <1>1, <1>2, <1>4, <1>5 DEF SentInOrder

LEMMA AfterTheTexts ==
  ASSUME ResponseAssumption, StreamTyped, SentInOrder, NEW i \in Items, MaySend(i)
  PROVE  \A j \in Done("text") : j < i /\ ~(i < j)
<1>1. Items \subseteq Nat /\ ~sent[i].done
  BY ItemsTyped DEF MaySend
<1> TAKE j \in Done("text")
<1>2. j \in Items /\ plan[j] = "text" /\ sent[j].done /\ j # i
  BY <1>1 DEF Done
<1>3. sent[j] # Unsent
  BY <1>2 DEF Unsent
<1>4. ~(i < j)
  BY <1>1, <1>2, <1>3 DEF SentInOrder, InOrder
<1> QED
  BY <1>1, <1>2, <1>4

LEMMA AfterTheCalls ==
  ASSUME ResponseAssumption, StreamTyped, SentInOrder, NEW i \in Items, MaySend(i), plan[i] # "call",
         DraftsKnow, DraftsFit(plan, drafts)
  PROVE  \A n \in DOMAIN drafts : drafts[n].call < i /\ ~(i < drafts[n].call)
<1>1. Items \subseteq Nat /\ ~sent[i].done
  BY ItemsTyped DEF MaySend
<1> TAKE n \in DOMAIN drafts
<1> DEFINE j == drafts[n].call
<1>2. j \in Items /\ plan[j] = "call"
  BY DEF DraftsFit, DraftFits, Items
<1>3. sent[j] # Unsent
  BY DEF DraftsKnow, DraftKnows
<1> HIDE DEF j
<1>4. ~(i < j)
  BY <1>1, <1>2, <1>3 DEF SentInOrder, InOrder
<1>5. j # i
  BY <1>2
<1>6. j < i /\ ~(i < j)
  BY <1>1, <1>2, <1>4, <1>5
<1> QED
  BY <1>6 DEF j

-----------------------------------------------------------------------------
(* The drafts, as chunks of a call arrive. *)

\* The draft of call i, or a new one.
Draws(D, n, i) ==
    /\ n \in DOMAIN D /\ D[n].call = i
    /\ \/ n \in DOMAIN drafts /\ D = drafts
       \/ /\ n = Len(drafts) + 1 /\ D = Append(drafts, NewDraft(i))
          /\ \A k \in DOMAIN drafts : drafts[k].call # i

\* What a draft has when a chunk of its call has arrived.
Keeps(d, s2) ==
    /\ d.started = d.named
    /\ d.ended /\ ~d.completed => s2.told /\ d.chunks # <<>>
    /\ d.completed <=> s2.done
    /\ s2.done => IsWhole(d)

LEMMA KeysDiffer ==
  ASSUME NEW i, NEW j, NEW key \in KeysOf(i), key \in KeysOf(j)
  PROVE  i = j
BY DEF KeysOf

LEMMA Existing ==
  ASSUME ResponseAssumption, StreamTyped, AliasFits, NEW i \in Items, NEW c \in Chunks,
         NEW k \in ExistingDrafts(i, c)
  PROVE  k \in DOMAIN drafts /\ drafts[k].call = i /\ drafts[k].named
<1>1. style \in {"indexed", "named", "called"}
  BY ItemsTyped
<1>2. ArgumentKeys(i, c) \subseteq KeysOf(i)
  <2>1. "id" \in Chunks
    BY DEF Chunks
  <2> QED
    BY <1>1, <2>1 DEF ArgumentKeys, KeysOf, ItemId
<1>3. PICK key \in ArgumentKeys(i, c) \cap DOMAIN alias : k = alias[key] /\ drafts[k].named
  BY DEF ExistingDrafts
<1>4. key \in DOMAIN alias /\ key \in KeysOf(i)
  BY <1>2, <1>3
<1>5. PICK j \in Items : key \in KeysOf(j) /\ drafts[alias[key]].call = j
  BY <1>4 DEF AliasFits
<1>6. j = i
  BY <1>4, <1>5, KeysDiffer
<1> QED
  BY <1>3, <1>4, <1>5, <1>6 DEF AliasFits

LEMMA Found ==
  ASSUME ResponseAssumption, StreamTyped, AliasFits, DraftsFit(plan, drafts), NEW i \in Items
  PROVE  LET n == DraftOf(i)
         IN Draws(IF n \in DOMAIN drafts THEN drafts ELSE Append(drafts, NewDraft(i)), n, i)
<1> DEFINE n == DraftOf(i)
           D == IF n \in DOMAIN drafts THEN drafts ELSE Append(drafts, NewDraft(i))
<1>1. ItemKey(i) \in KeysOf(i)
  BY DEF ItemKey, KeysOf
<1>2. i \in Nat /\ drafts \in Seq(Drafts) /\ NewDraft(i) \in Drafts /\ NewDraft(i).call = i
  BY ItemsTyped, DraftTyped DEF DraftsFit
<1>3. CASE ItemKey(i) \in DOMAIN alias
  <2>1. n = alias[ItemKey(i)] /\ n \in DOMAIN drafts
    BY <1>3 DEF DraftOf, AliasFits
  <2>2. PICK j \in Items : ItemKey(i) \in KeysOf(j) /\ drafts[n].call = j
    BY <1>3, <2>1 DEF AliasFits
  <2>3. j = i
    BY <1>1, <2>2, KeysDiffer
  <2> QED
    BY <2>1, <2>2, <2>3 DEF Draws
<1>4. CASE ItemKey(i) \notin DOMAIN alias /\ \E k \in DOMAIN drafts : drafts[k].call = i
  <2>1. n = CHOOSE k \in DOMAIN drafts : drafts[k].call = i
    BY <1>4 DEF DraftOf
  <2>2. n \in DOMAIN drafts /\ drafts[n].call = i
    BY <1>4, <2>1
  <2> QED
    BY <2>2 DEF Draws
<1>5. CASE ItemKey(i) \notin DOMAIN alias /\ \A k \in DOMAIN drafts : drafts[k].call # i
  <2>1. n = Len(drafts) + 1
    BY <1>5 DEF DraftOf
  <2>2. n \notin DOMAIN drafts
    BY <1>2, <2>1
  <2>3. D = Append(drafts, NewDraft(i))
    BY <2>2
  <2>4. n \in DOMAIN D /\ D[n] = NewDraft(i)
    BY <1>2, <2>1, <2>3, OneMore
  <2> HIDE DEF n, D
  <2>5. Draws(D, n, i)
    BY <1>2, <1>5, <2>1, <2>3, <2>4 DEF Draws
  <2> QED
    BY <2>5 DEF n, D
<1> QED
  BY <1>3, <1>4, <1>5

\* A draft that is found fits as well as the drafts do.
LEMMA FoundFits ==
  ASSUME ResponseAssumption, StreamTyped, Streaming, NEW i \in Items, plan[i] = "call", ending = "open",
         ~sent[i].done, NEW D, NEW n, Draws(D, n, i)
  PROVE  /\ Fits(plan, style, Tale, D, Done("text"), Done("reasoning"))
         /\ D[n] \in Drafts /\ D[n].started = D[n].named /\ ~D[n].completed
         /\ D[n].ended => D[n].started /\ D[n].chunks # <<>> /\ sent[i].told
         /\ D[n].final \in {None, Whole(i)}
<1>1. i \in DOMAIN plan /\ DOMAIN plan \subseteq Nat /\ i \in Nat
  BY ItemsTyped
<1>2. Fits(plan, style, Tale, drafts, Done("text"), Done("reasoning")) /\ drafts \in Seq(Drafts)
  BY DEF Streaming, Fits, DraftsFit
<1>3. CASE n \in DOMAIN drafts /\ D = drafts
  <2>1. drafts[n].call = i /\ DraftKnows(drafts[n]) /\ DraftFits(plan, drafts[n]) /\ drafts[n] \in Drafts
    BY <1>2, <1>3 DEF Draws, Streaming, DraftsKnow, Fits, DraftsFit
  <2> QED
    BY <1>2, <1>3, <2>1 DEF DraftKnows, DraftFits, Flags
<1>4. CASE /\ n = Len(drafts) + 1 /\ D = Append(drafts, NewDraft(i))
           /\ \A k \in DOMAIN drafts : drafts[k].call # i
  <2>1. Fits(plan, style, Tale, D, Done("text"), Done("reasoning"))
    BY <1>1, <1>2, <1>4, DraftAdded
  <2>2. D[n] = NewDraft(i)
    BY <1>1, <1>2, <1>4, DraftTyped
  <2>3. NewDraft(i).started = NewDraft(i).named
    BY DEF NewDraft
  <2> QED
    BY <1>1, <2>1, <2>2, <2>3, DraftTyped
<1> QED
  BY <1>3, <1>4 DEF Draws

LEMMA DraftStep ==
  ASSUME ResponseAssumption, StreamTyped, Streaming, NEW i, NEW s2, Sends(i, s2), ending = "open",
         UNCHANGED <<plan, ending>>, plan[i] = "call",
         NEW D, NEW n, Draws(D, n, i), NEW d, d.call = i, Keeps(d, s2), drafts' = [D EXCEPT ![n] = d]
  PROVE  /\ DraftsKnow' /\ DoneIsWhole'
         /\ DOMAIN drafts \subseteq DOMAIN drafts' /\ n \in DOMAIN drafts' /\ drafts'[n] = d
         /\ \A k \in DOMAIN drafts : drafts'[k].call = drafts[k].call
<1>1. /\ Items' = Items /\ i \in Items /\ s2 # Unsent
      /\ sent'[i] = s2 /\ \A j \in Items : j # i => sent'[j] = sent[j]
  BY SentTyped DEF Sends
<1>2. drafts \in Seq(Drafts) /\ NewDraft(i) \in Drafts /\ NewDraft(i).call = i
  BY <1>1, ItemsTyped, DraftTyped DEF Streaming, Fits, DraftsFit
<1>3. /\ n \in DOMAIN drafts' /\ drafts'[n] = d /\ DOMAIN drafts' = DOMAIN drafts \cup {n}
      /\ \A k \in DOMAIN drafts : k # n => drafts'[k] = drafts[k]
      /\ n \in DOMAIN drafts => drafts[n].call = i
  <2>1. CASE n \in DOMAIN drafts /\ D = drafts
    BY <1>2, <2>1 DEF Draws
  <2>2. CASE n = Len(drafts) + 1 /\ D = Append(drafts, NewDraft(i))
    <3>1. DOMAIN D = DOMAIN drafts \cup {n} /\ n \notin DOMAIN drafts /\ \A k \in DOMAIN drafts : D[k] = drafts[k]
      BY <1>2, <2>2, OneMore
    <3> QED
      BY <3>1
  <2> QED
    BY <2>1, <2>2 DEF Draws
<1>4. \A k \in DOMAIN drafts : k # n => drafts[k].call # i /\ drafts[k].call \in Items
  <2>1. \A k, m \in DOMAIN drafts : drafts[k].call = drafts[m].call => k = m
    BY DEF Streaming, Fits, DraftsFit
  <2>2. \A k \in DOMAIN drafts : drafts[k].call \in Items
    BY DEF Streaming, Fits, DraftsFit, DraftFits, Items
  <2> QED
    BY <1>3, <2>1, <2>2 DEF Draws
<1>5. DraftsKnow'
  <2> SUFFICES ASSUME NEW k \in DOMAIN drafts' PROVE DraftKnows(drafts[k])'
    BY DEF DraftsKnow
  <2>1. CASE k = n
    BY <1>1, <1>3, <2>1 DEF Keeps, DraftKnows, Unsent
  <2>2. CASE k # n
    <3>1. k \in DOMAIN drafts /\ drafts'[k] = drafts[k] /\ DraftKnows(drafts[k])
      BY <1>3, <2>2 DEF Streaming, DraftsKnow
    <3>2. sent'[drafts[k].call] = sent[drafts[k].call]
      BY <1>1, <1>4, <2>2, <3>1
    <3> QED
      BY <3>1, <3>2 DEF DraftKnows, Unsent
  <2> QED
    BY <2>1, <2>2
<1>6. DoneIsWhole'
  <2>1. ASSUME NEW j \in Items, plan[j] = "call", sent'[j].done
        PROVE  \E k \in DOMAIN drafts' : drafts'[k].call = j /\ IsWhole(drafts'[k])
    <3>1. CASE j = i
      BY <1>1, <1>3, <2>1, <3>1 DEF Keeps
    <3>2. CASE j # i
      <4>1. j \in Done("call")
        BY <1>1, <2>1, <3>2 DEF Done
      <4>2. PICK k \in DOMAIN drafts : drafts[k].call = j /\ IsWhole(drafts[k])
        BY <4>1 DEF Streaming, DoneIsWhole
      <4>3. k # n
        BY <1>3, <3>2, <4>2
      <4> QED
        BY <1>3, <4>2, <4>3
    <3> QED
      BY <3>1, <3>2
  <2> QED
    BY <1>1, <2>1 DEF DoneIsWhole, Done, IsWhole
<1>7. \A k \in DOMAIN drafts : drafts'[k].call = drafts[k].call
  BY <1>3
<1> QED
  BY <1>3, <1>5, <1>6, <1>7

-----------------------------------------------------------------------------
(* The steps of a call. *)

\* "response.output_item.added" or "response.output_item.done", told of a draft.
Known(d, named) == [d EXCEPT !.named = @ \/ named]
IsFirst(d, named, done) == done /\ Known(d, named).chunks = <<>>
Filled(d, i, named, done) ==
    [Started(Known(d, named)) EXCEPT !.final = IF done THEN Whole(i) ELSE @,
                                     !.chunks = IF IsFirst(d, named, done) THEN Whole(i) ELSE @]
After(d, i, named, done) ==
    IF done THEN Completed(Filled(d, i, named, done)) ELSE Filled(d, i, named, done)
ItemEvents(d, i, named, done) ==
    StartOf(Known(d, named))
    \o (IF IsFirst(d, named, done) THEN <<Event("delta", i, Whole(i), None)>> ELSE <<>>)
    \o (IF done THEN CompletionOf(Filled(d, i, named, done)) ELSE <<>>)

LEMMA StartOfTyped ==
  ASSUME NEW d \in Drafts
  PROVE  StartOf(d) \in Seq(Events)
<1>1. d.call \in Ids /\ <<>> \in Texts
  BY DEF Drafts, Ids, Texts
<1>2. Event("start", d.call, <<>>, None) \in Events
  BY <1>1, EventTyped DEF Types, CallTypes, Marks
<1> QED
  BY <1>2 DEF StartOf

LEMMA AfterTyped ==
  ASSUME NEW d \in Drafts, NEW i \in Nat, d.call = i, NEW named \in BOOLEAN, NEW done \in BOOLEAN,
         Whole(i) \in Texts, done => named, d.started = d.named, ~d.completed,
         d.ended => d.started /\ d.chunks # <<>>, None # Whole(i)
  PROVE  LET k == Known(d, named)
             f == Filled(d, i, named, done)
             a == After(d, i, named, done)
         IN /\ k \in Drafts /\ k.call = i /\ k.started = d.started /\ k.ended = d.ended /\ ~k.completed
            /\ k.final = d.final /\ k.chunks = d.chunks /\ (k.started => k.named) /\ (done => k.named)
            /\ Started(k) \in Drafts /\ Started(k).call = i /\ Started(k).started = k.named
            /\ Started(k).named = k.named /\ Started(k).ended = d.ended /\ ~Started(k).completed
            /\ Started(k).final = d.final
            /\ f \in Drafts /\ f.call = i /\ f.started = k.named /\ f.named = k.named /\ f.ended = d.ended
            /\ ~f.completed /\ f.final = IF done THEN Whole(i) ELSE d.final
            /\ (~done => f = Started(k) /\ f.chunks = d.chunks)
            /\ a \in Drafts /\ a.call = i /\ a.started = a.named /\ a.named = k.named /\ a.completed = done
            /\ a.final = f.final /\ (~done => a = f)
<1> DEFINE k == Known(d, named)
           s == Started(k)
           f == Filled(d, i, named, done)
           a == After(d, i, named, done)
<1>1. /\ k \in Drafts /\ k.call = i /\ k.started = d.started /\ k.ended = d.ended /\ ~k.completed
      /\ k.final = d.final /\ k.chunks = d.chunks /\ (k.started => k.named) /\ (done => k.named)
  BY DEF Known, Drafts
<1> HIDE DEF k
<1>2. /\ s \in Drafts /\ s.call = i /\ s.started = k.named /\ s.named = k.named /\ s.ended = d.ended
      /\ ~s.completed /\ s.final = d.final /\ s.chunks = d.chunks
  BY <1>1 DEF Started, Drafts
<1> HIDE DEF s
<1>3. f = [s EXCEPT !.final = IF done THEN Whole(i) ELSE @,
                    !.chunks = IF IsFirst(d, named, done) THEN Whole(i) ELSE @]
  BY DEF Filled, s, k
<1> HIDE DEF f
<1>4. /\ f \in Drafts /\ f.call = i /\ f.started = k.named /\ f.named = k.named /\ f.ended = d.ended
      /\ ~f.completed /\ f.final = IF done THEN Whole(i) ELSE d.final
      /\ (~done => f = s /\ f.chunks = d.chunks)
  <2>1. CASE done
    <3>1. f = [s EXCEPT !.final = Whole(i), !.chunks = IF IsFirst(d, named, done) THEN Whole(i) ELSE @]
      BY <1>3, <2>1
    <3> QED
      BY <1>2, <2>1, <3>1 DEF Drafts
  <2>2. CASE ~done
    <3>1. f = [s EXCEPT !.final = s.final, !.chunks = s.chunks]
      BY <1>2, <1>3, <2>2 DEF IsFirst, Drafts
    <3>2. f = s
      BY <1>2, <3>1 DEF Drafts
    <3> QED
      BY <1>2, <2>2, <3>2
  <2> QED
    BY <2>1, <2>2
<1>5. /\ a \in Drafts /\ a.call = i /\ a.started = a.named /\ a.named = k.named /\ a.completed = done
      /\ a.final = f.final /\ (~done => a = f)
  <2>1. CASE done
    <3>1. a = Completed(f)
      BY <2>1 DEF After, f
    <3> HIDE DEF a
    <3> QED
      BY <1>1, <1>4, <2>1, <3>1 DEF Completed, Drafts
  <2>2. CASE ~done
    <3>1. a = f
      BY <2>2 DEF After, f
    <3> HIDE DEF a
    <3> QED
      BY <1>4, <2>2, <3>1 DEF Drafts
  <2> QED
    BY <2>1, <2>2
<1> HIDE DEF a
<1>6. /\ Started(k) \in Drafts /\ Started(k).call = i /\ Started(k).started = k.named
      /\ Started(k).named = k.named /\ Started(k).ended = d.ended /\ ~Started(k).completed
      /\ Started(k).final = d.final
      /\ (~done => f = Started(k) /\ f.chunks = d.chunks)
  BY <1>2, <1>4 DEF s
<1> QED
  BY <1>1, <1>4, <1>5, <1>6 DEF k, f, a

\* Three stretches of events are told one after the other.
LEMMA ToldThree ==
  ASSUME NEW I, NEW v \in Tales(I), NEW s1 \in Seq(Events), NEW s2 \in Seq(Events), NEW s3 \in Seq(Events)
  PROVE  Told(v, s1 \o s2 \o s3) = Told(Told(Told(v, s1), s2), s3)
<1>1. s1 \o s2 \in Seq(Events)
  OBVIOUS
<1>2. Told(v, (s1 \o s2) \o s3) = Told(Told(v, s1 \o s2), s3)
  BY <1>1, ToldConcat
<1>3. Told(v, s1 \o s2) = Told(Told(v, s1), s2)
  BY ToldConcat
<1> QED
  BY <1>2, <1>3

LEMMA ItemFits ==
  ASSUME NEW p, NEW st, NEW v, NEW D, NEW T, NEW F, Fits(p, st, v, D, T, F),
         DOMAIN p \subseteq Nat, T \subseteq Nat, NEW n \in DOMAIN D, NEW i \in Nat, D[n].call = i,
         D[n].started = D[n].named, ~D[n].completed, D[n].ended => D[n].started /\ D[n].chunks # <<>>,
         D[n].final \in {None, Whole(i)}, None # Whole(i), Whole(i) \in Texts,
         \A j \in T : j < i /\ ~(i < j),
         NEW named \in BOOLEAN, NEW done \in BOOLEAN, done => named
  PROVE  /\ Fits(p, st, Told(v, ItemEvents(D[n], i, named, done)),
                 [D EXCEPT ![n] = After(D[n], i, named, done)], T, F)
         /\ ItemEvents(D[n], i, named, done) \in Seq(Events)
<1> DEFINE d == D[n]
           k == Known(d, named)
           s == Started(k)
           f == Filled(d, i, named, done)
           a == After(d, i, named, done)
           delta == IF IsFirst(d, named, done) THEN <<Event("delta", i, Whole(i), None)>> ELSE <<>>
           end == IF done THEN CompletionOf(f) ELSE <<>>
           D1 == [D EXCEPT ![n] = k]
           D2 == [D EXCEPT ![n] = s]
           D3 == [D EXCEPT ![n] = f]
           D4 == [D EXCEPT ![n] = a]
           v1 == Told(v, StartOf(k))
           v2 == Told(v1, delta)
           v3 == Told(v2, end)
<1>1. D \in Seq(Drafts) /\ d \in Drafts /\ DraftFits(p, d) /\ v \in Tales(DOMAIN p)
  BY DEF Fits, DraftsFit
<1>2. /\ k \in Drafts /\ k.call = i /\ k.started = d.started /\ k.ended = d.ended /\ ~k.completed
      /\ k.final = d.final /\ k.chunks = d.chunks /\ (k.started => k.named) /\ (done => k.named)
      /\ s \in Drafts /\ s.call = i /\ s.started = k.named
      /\ s.named = k.named /\ s.ended = d.ended /\ ~s.completed
      /\ s.final = d.final
      /\ f \in Drafts /\ f.call = i /\ f.started = k.named /\ f.named = k.named /\ f.ended = d.ended
      /\ ~f.completed /\ f.final = IF done THEN Whole(i) ELSE d.final
      /\ (~done => f = s /\ f.chunks = d.chunks)
      /\ a \in Drafts /\ a.call = i /\ a.started = a.named /\ a.named = k.named /\ a.completed = done
      /\ a.final = f.final /\ (~done => a = f)
  BY <1>1, AfterTyped
<1>3. d.call = i /\ d.started = d.named /\ ~d.completed /\ (d.ended => d.started /\ d.chunks # <<>>)
      /\ d.final \in {None, Whole(i)}
  OBVIOUS
<1>4. i \in DOMAIN p /\ p[i] = "call"
  BY <1>1, <1>3 DEF DraftFits
<1>5. ItemEvents(d, i, named, done) = StartOf(k) \o delta \o end
  BY DEF ItemEvents
<1>6. IsFirst(d, named, done) => done /\ d.chunks = <<>>
  BY <1>2 DEF IsFirst
<1>7. ~IsFirst(d, named, done) => delta = <<>>
  OBVIOUS
<1>8. IsFirst(d, named, done) => delta = <<Event("delta", i, Whole(i), None)>>
  OBVIOUS
<1>9. a = IF done THEN Completed(f) ELSE f
  BY DEF After
<1>10. /\ D1[n] = k /\ D2[n] = s /\ D3[n] = f /\ D4[n] = a
       /\ n \in DOMAIN D1 /\ n \in DOMAIN D2 /\ n \in DOMAIN D3
       /\ D2 = [D1 EXCEPT ![n] = s] /\ D3 = [D2 EXCEPT ![n] = f] /\ D4 = [D3 EXCEPT ![n] = a]
  <2> HIDE DEF d, k, s, f, a
  <2> QED
    BY <1>1
<1>11. D[n] = d
  OBVIOUS
<1> HIDE DEF d, k, s, f, a, delta, end, D1, D2, D3, D4
<1>12. Fits(p, st, v, D1, T, F)
  <2>1. DraftFits(p, k)
    BY <1>2, <1>3, <1>4 DEF DraftFits, Flags
  <2> QED
    BY <1>2, <1>3, <1>11, <2>1, QuietChange DEF D1
<1>13. Fits(p, st, v1, D2, T, F) /\ StartOf(k) \in Seq(Events) /\ v1 \in Tales(DOMAIN p)
  <2>1. D1[n].named /\ ~D1[n].started => ~D1[n].completed /\ \A j \in T : j < D1[n].call /\ ~(D1[n].call < j)
    BY <1>2, <1>10
  <2>2. Fits(p, st, Told(v, StartOf(D1[n])), [D1 EXCEPT ![n] = Started(D1[n])], T, F)
    BY <1>10, <1>12, <2>1, StartFits
  <2>3. Started(D1[n]) = s
    BY <1>10 DEF s
  <2>4. Fits(p, st, v1, D2, T, F)
    BY <1>10, <2>2, <2>3
  <2> QED
    BY <1>2, <2>4, StartOfTyped DEF Fits
<1>14. Fits(p, st, v2, D2, T, F) /\ delta \in Seq(Events) /\ v2 \in Tales(DOMAIN p)
  <2>1. CASE IsFirst(d, named, done)
    <3>1. ~s.ended /\ s.started /\ ~s.completed
      BY <1>2, <1>3, <1>6, <2>1
    <3>2. Fits(p, st, Told(v1, <<Event("delta", D2[n].call, Whole(i), None)>>), D2, T, F)
      BY <1>10, <1>13, <3>1, DeltaFits
    <3>3. Event("delta", i, Whole(i), None) \in Events
      BY EventTyped DEF Types, CallTypes, Marks, Ids
    <3>4. D2[n].call = i
      BY <1>2, <1>10
    <3>5. <<Event("delta", i, Whole(i), None)>> \in Seq(Events)
      BY <3>3
    <3>6. delta = <<Event("delta", i, Whole(i), None)>>
      BY <1>8, <2>1
    <3>7. Fits(p, st, v2, D2, T, F)
      BY <3>2, <3>4, <3>6
    <3> QED
      BY <3>5, <3>6, <3>7 DEF Fits
  <2>2. CASE ~IsFirst(d, named, done)
    <3>1. v2 = v1
      BY <1>7, <1>13, <2>2, ToldNone
    <3> QED
      BY <1>7, <1>13, <2>2, <3>1
  <2> QED
    BY <2>1, <2>2
<1>15. Fits(p, st, v3, D4, T, F) /\ end \in Seq(Events)
  <2>1. CASE done
    <3>1. DraftFits(p, f)
      BY <1>2, <1>3, <1>4, <2>1 DEF DraftFits, Flags
    <3>2. D2[n].started = f.started /\ f.call = D2[n].call /\ f.ended = D2[n].ended /\ ~D2[n].completed /\ ~f.completed
      BY <1>2, <1>10, <2>1
    <3>3. Fits(p, st, v2, D3, T, F)
      <4>1. f \in Drafts /\ n \in DOMAIN D2 /\ Fits(p, st, v2, D2, T, F)
        BY <1>2, <1>10, <1>14
      <4>2. Fits(p, st, v2, [D2 EXCEPT ![n] = f], T, F)
        <5> HIDE DEF v2
        <5> QED
          BY <3>1, <3>2, <4>1, QuietChange
      <4> QED
        BY <1>10, <4>2
    <3>4. D3[n].named => D3[n].started
      BY SMTT(40), <1>2, <1>10, <2>1
    <3>5. Fits(p, st, Told(v2, CompletionOf(D3[n])), [D3 EXCEPT ![n] = Completed(D3[n])], T, F)
          /\ CompletionOf(D3[n]) \in Seq(Events)
      BY <1>10, <3>3, <3>4, CompletionFits
    <3> QED
      BY <1>9, <1>10, <2>1, <3>5 DEF end
  <2>2. CASE ~done
    <3>1. end = <<>>
      BY <2>2 DEF end
    <3>2. v3 = v2
      BY <1>14, <3>1, ToldNone
    <3>3. D4 = D2
      BY <1>2, <2>2 DEF D4, D2
    <3> QED
      BY <1>14, <3>1, <3>2, <3>3
  <2> QED
    BY SMTT(40), <2>1, <2>2
<1>16. StartOf(k) \o delta \o end \in Seq(Events)
  BY <1>13, <1>14, <1>15
<1>17. Told(v, StartOf(k) \o delta \o end) = v3
  BY <1>1, <1>13, <1>14, <1>15, ToldThree
<1> QED
  BY <1>5, <1>15, <1>16, <1>17 DEF D4, a, d

\* What is left to show of a step during the stream.
LEMMA StreamGoesOn ==
  ASSUME StreamInv, over = "no", UNCHANGED <<plan, style, ending, over>>,
         NEW i, NEW s2, Sends(i, s2), Tale' \in Tales(Items), Streaming',
         \A id \in DOMAIN thoughts' :
            thoughts'[id].encrypted \in {None, "early"} /\ thoughts'[id].active \in BOOLEAN
  PROVE  StreamInv'
<1>1. sent' \in [Items' -> Sents] /\ Items' = Items
  BY SentTyped DEF StreamInv
<1>2. StreamTyped'
  BY <1>1 DEF StreamInv, StreamTyped
<1> QED
  BY <1>2 DEF StreamInv

LEMMA LastReplaced ==
  ASSUME NEW S, NEW s \in Seq(S), NEW x, NEW y
  PROVE  /\ Append(s, x)[Len(s) + 1] = x
         /\ [Append(s, x) EXCEPT ![Len(s) + 1] = y] = Append(s, y)
<1> DEFINE S2 == S \cup {x, y}
           n == Len(s) + 1
           t == Append(s, x)
           u == Append(s, y)
<1>1. s \in Seq(S2) /\ x \in S2 /\ y \in S2
  OBVIOUS
<1> HIDE DEF S2
<1>2. /\ t \in Seq(S2) /\ t[n] = x /\ DOMAIN t = DOMAIN s \cup {n} /\ \A k \in DOMAIN s : t[k] = s[k]
      /\ u \in Seq(S2) /\ u[n] = y /\ DOMAIN u = DOMAIN s \cup {n} /\ \A k \in DOMAIN s : u[k] = s[k]
      /\ n \notin DOMAIN s
  BY <1>1, OneMore
<1> HIDE DEF t, u, n
<1>3. u = [k \in DOMAIN u |-> u[k]]
  BY <1>2
<1>4. \A k \in DOMAIN t : [t EXCEPT ![n] = y][k] = u[k]
  BY <1>2
<1>5. [t EXCEPT ![n] = y] = [k \in DOMAIN t |-> [t EXCEPT ![n] = y][k]]
  OBVIOUS
<1>6. [t EXCEPT ![n] = y] = u
  BY <1>2, <1>3, <1>4, <1>5
<1> QED
  BY <1>2, <1>6 DEF t, u, n

\* A chunk that has the item, in terms of the draft it is told of.
ItemTold(i, named, chunk, D, n) ==
    /\ Draws(D, n, i)
    /\ drafts' = [D EXCEPT ![n] = After(D[n], i, named, chunk = "done")]
    /\ Emit(ItemEvents(D[n], i, named, chunk = "done"))
    /\ alias' = [key \in DOMAIN alias \cup Aliases(i, chunk) |->
                   IF key \in Aliases(i, chunk) THEN n ELSE alias[key]]

LEMMA ItemChunk ==
  ASSUME ResponseAssumption, StreamTyped, AliasFits, DraftsFit(plan, drafts), NEW i \in Items,
         NEW named \in BOOLEAN, NEW chunk \in {"added", "done"}, CallItem(i, named, chunk)
  PROVE  \E D, n : ItemTold(i, named, chunk, D, n)
<1> DEFINE n == DraftOf(i)
           D == IF n \in DOMAIN drafts THEN drafts ELSE Append(drafts, NewDraft(i))
           done == chunk = "done"
           found == IF n \in DOMAIN drafts THEN drafts[n] ELSE NewDraft(i)
           known == [found EXCEPT !.named = @ \/ named]
           arguments == IF chunk = "done" THEN Whole(i) ELSE <<>>
           first == chunk = "done" /\ known.chunks = <<>>
           filled == [Started(known) EXCEPT !.final = IF chunk = "done" THEN Whole(i) ELSE @,
                                            !.chunks = IF first THEN arguments ELSE @]
           after == IF chunk = "done" THEN Completed(filled) ELSE filled
           events == StartOf(known)
                     \o (IF first THEN <<Event("delta", i, arguments, None)>> ELSE <<>>)
                     \o (IF chunk = "done" THEN CompletionOf(filled) ELSE <<>>)
<1>1. Draws(D, n, i)
  BY Found
<1>2. /\ drafts' = IF n \in DOMAIN drafts THEN [drafts EXCEPT ![n] = after] ELSE Append(drafts, after)
      /\ alias' = [key \in DOMAIN alias \cup Aliases(i, chunk) |->
                     IF key \in Aliases(i, chunk) THEN n ELSE alias[key]]
      /\ Emit(events)
  BY DEF CallItem
<1>3. i \in Nat /\ drafts \in Seq(Drafts) /\ NewDraft(i) \in Drafts
  BY ItemsTyped, DraftTyped DEF DraftsFit
<1> HIDE DEF after, events, n
<1>6. drafts' = [D EXCEPT ![n] = after] /\ D[n] = found
  <2>1. CASE n \in DOMAIN drafts
    BY <1>2, <2>1
  <2>2. CASE n \notin DOMAIN drafts
    <3>1. n = Len(drafts) + 1
      BY <1>1, <2>2 DEF Draws
    <3>2. D = Append(drafts, NewDraft(i)) /\ found = NewDraft(i) /\ drafts' = Append(drafts, after)
      BY <1>2, <2>2
    <3> HIDE DEF D, found
    <3>3. D[n] = NewDraft(i) /\ [D EXCEPT ![n] = after] = Append(drafts, after)
      BY <1>3, <3>1, <3>2, LastReplaced
    <3> QED
      BY <3>2, <3>3
  <2> QED
    BY <2>1, <2>2
<1> HIDE DEF found, D
<1>7. known = Known(D[n], named) /\ (first <=> IsFirst(D[n], named, done))
  BY <1>6 DEF Known, IsFirst
<1>8. first => arguments = Whole(i)
  OBVIOUS
<1> HIDE DEF known, first, arguments
<1>9. filled = Filled(D[n], i, named, done)
  BY <1>7, <1>8 DEF Filled
<1> HIDE DEF filled
<1>10. after = After(D[n], i, named, done)
  BY <1>9 DEF After, after
<1>11. events = ItemEvents(D[n], i, named, done)
  BY <1>7, <1>8, <1>9 DEF ItemEvents, events
<1> QED
  BY <1>1, <1>2, <1>6, <1>10, <1>11 DEF ItemTold

LEMMA AliasesAdded ==
  ASSUME ResponseAssumption, StreamTyped, AliasFits, UNCHANGED plan, NEW i \in Items,
         NEW chunk \in {"added", "done"}, NEW n \in DOMAIN drafts', drafts'[n].call = i,
         DOMAIN drafts \subseteq DOMAIN drafts', \A k \in DOMAIN drafts : drafts'[k].call = drafts[k].call,
         alias' = [key \in DOMAIN alias \cup Aliases(i, chunk) |->
                     IF key \in Aliases(i, chunk) THEN n ELSE alias[key]]
  PROVE  AliasFits'
<1>1. Aliases(i, chunk) \subseteq KeysOf(i)
  BY DEF Aliases, KeysOf, ItemKey, ItemId, Chunks
<1>2. Items' = Items
  BY DEF Items
<1> SUFFICES ASSUME NEW key \in DOMAIN alias'
             PROVE  /\ alias'[key] \in DOMAIN drafts'
                    /\ \E j \in Items : key \in KeysOf(j) /\ drafts'[alias'[key]].call = j
  BY <1>2 DEF AliasFits, KeysOf
<1>3. CASE key \in Aliases(i, chunk)
  BY <1>1, <1>3
<1>4. CASE key \notin Aliases(i, chunk)
  BY <1>4 DEF AliasFits
<1> QED
  BY <1>3, <1>4

\* A chunk that has a call.
LEMMA CallItemStep ==
  ASSUME ResponseAssumption, StreamInv, NEW i \in Items, MaySend(i), plan[i] = "call",
         NEW named \in BOOLEAN, NEW chunk \in {"added", "done"}, CallItem(i, named, chunk),
         chunk = "done" => named, NEW s2, Sends(i, s2), s2.done <=> chunk = "done",
         UNCHANGED <<plan, style, ending, thoughts, over>>
  PROVE  StreamInv'
<1>1. over = "no" /\ ending = "open" /\ ~sent[i].done /\ StreamTyped /\ Streaming
  BY DEF MaySend, StreamInv
<1>2. DraftsFit(plan, drafts) /\ AliasFits /\ SentInOrder /\ Tale \in Tales(Items)
  BY <1>1 DEF Streaming, Fits, StreamTyped
<1>3. PICK D, n : ItemTold(i, named, chunk, D, n)
  BY <1>1, <1>2, ItemChunk
<1> DEFINE done == chunk = "done"
           a == After(D[n], i, named, done)
           events == ItemEvents(D[n], i, named, done)
<1>19. /\ Draws(D, n, i) /\ drafts' = [D EXCEPT ![n] = a] /\ Emit(events)
       /\ alias' = [key \in DOMAIN alias \cup Aliases(i, chunk) |->
                      IF key \in Aliases(i, chunk) THEN n ELSE alias[key]]
  BY <1>3 DEF ItemTold
<1> HIDE DEF a, events, done
<1>4. /\ Fits(plan, style, Tale, D, Done("text"), Done("reasoning"))
      /\ D[n] \in Drafts /\ D[n].started = D[n].named /\ ~D[n].completed
      /\ D[n].ended => D[n].started /\ D[n].chunks # <<>> /\ sent[i].told
      /\ D[n].final \in {None, Whole(i)}
  BY <1>1, <1>19, FoundFits
<1>5. n \in DOMAIN D /\ D[n].call = i
  BY <1>19 DEF Draws
<1>6. /\ DOMAIN plan \subseteq Nat /\ Done("text") \subseteq Nat /\ i \in Nat
      /\ None # Whole(i) /\ Whole(i) \in Texts /\ Items = DOMAIN plan
  BY <1>1, ItemsTyped
<1>7. \A j \in Done("text") : j < i /\ ~(i < j)
  BY <1>1, <1>2, AfterTheTexts
<1>8. done \in BOOLEAN /\ (done => named) /\ (s2.done <=> done)
  BY DEF done
<1>9. /\ Fits(plan, style, Told(Tale, events), drafts', Done("text"), Done("reasoning"))
      /\ events \in Seq(Events)
  BY <1>19, <1>4, <1>5, <1>6, <1>7, <1>8, ItemFits DEF a, events
<1>10. Tale' = Told(Tale, events)
  BY <1>2, <1>19, <1>9, EmitTale
<1>11. a.call = i /\ Keeps(a, s2)
  <2>1. LET k == Known(D[n], named)
            f == Filled(D[n], i, named, done)
        IN /\ f.ended = D[n].ended /\ f.final = (IF done THEN Whole(i) ELSE D[n].final)
           /\ (done => k.named) /\ (~done => f.chunks = D[n].chunks)
           /\ a.call = i /\ a.started = a.named /\ a.named = k.named /\ a.completed = done
           /\ a.final = f.final /\ (~done => a = f)
    BY <1>4, <1>5, <1>6, <1>8, AfterTyped DEF a
  <2>2. ~done => a.ended = D[n].ended /\ a.chunks = D[n].chunks
    BY <2>1
  <2>3. done => IsWhole(a)
    BY <2>1 DEF IsWhole
  <2> QED
    BY <1>4, <1>8, <2>1, <2>2, <2>3 DEF Keeps, Sends
<1>12. /\ DraftsKnow' /\ DoneIsWhole'
       /\ DOMAIN drafts \subseteq DOMAIN drafts' /\ n \in DOMAIN drafts' /\ drafts'[n] = a
       /\ \A k \in DOMAIN drafts : drafts'[k].call = drafts[k].call
  BY <1>1, <1>19, <1>11, DraftStep
<1>13. AliasFits'
  BY <1>1, <1>2, <1>19, <1>11, <1>12, AliasesAdded
<1>14. SentInOrder'
  BY <1>1, <1>2, KeepsOrder
<1>15. Done("text")' = Done("text") /\ Done("reasoning")' = Done("reasoning")
  BY <1>1, DoneGrows
<1>16. Streaming'
  BY <1>9, <1>10, <1>12, <1>13, <1>14, <1>15 DEF Streaming
<1>17. Tale' \in Tales(Items)
  BY <1>6, <1>9, <1>10 DEF Fits
<1>18. \A id \in DOMAIN thoughts' : thoughts'[id].encrypted \in {None, "early"} /\ thoughts'[id].active \in BOOLEAN
  BY <1>1 DEF StreamTyped
<1> QED
  BY <1>1, <1>16, <1>17, <1>18, StreamGoesOn

LEMMA CallAddedStep ==
  ASSUME ResponseAssumption, StreamInv, NEW i \in Items, NEW named \in BOOLEAN, CallAdded(i, named)
  PROVE  StreamInv'
<1> DEFINE s2 == [sent[i] EXCEPT !.added = TRUE]
<1>1. sent[i] \in Sents /\ ~sent[i].done
  BY ItemsTyped DEF StreamInv, CallAdded, MaySend
<1>2. sent' = [sent EXCEPT ![i] = s2]
  BY DEF CallAdded
<1>3. s2 \in Sents /\ s2 # Unsent /\ s2.done = sent[i].done /\ s2.told = sent[i].told
  BY <1>1 DEF Sents, Unsent
<1> HIDE DEF s2
<1>4. Sends(i, s2)
  BY <1>2, <1>3 DEF Sends
<1> QED
  BY <1>1, <1>3, <1>4, CallItemStep DEF CallAdded, Stream

LEMMA CallDoneStep ==
  ASSUME ResponseAssumption, StreamInv, NEW i \in Items, CallDone(i)
  PROVE  StreamInv'
<1> DEFINE s2 == [sent[i] EXCEPT !.done = TRUE]
<1>1. sent[i] \in Sents
  BY ItemsTyped DEF StreamInv
<1>2. sent' = [sent EXCEPT ![i] = s2]
  BY DEF CallDone
<1>3. s2 \in Sents /\ s2 # Unsent /\ s2.done = TRUE /\ s2.told = sent[i].told
  BY <1>1 DEF Sents, Unsent
<1> HIDE DEF s2
<1>4. Sends(i, s2)
  BY <1>2, <1>3 DEF Sends
<1> QED
  BY <1>1, <1>3, <1>4, CallItemStep DEF CallDone, Stream

LEMMA AliasesKept ==
  ASSUME AliasFits, UNCHANGED <<plan, alias>>,
         DOMAIN drafts \subseteq DOMAIN drafts', \A k \in DOMAIN drafts : drafts'[k].call = drafts[k].call
  PROVE  AliasFits'
<1>1. Items' = Items
  BY DEF Items
<1> SUFFICES ASSUME NEW key \in DOMAIN alias
             PROVE  /\ alias[key] \in DOMAIN drafts'
                    /\ \E j \in Items : key \in KeysOf(j) /\ drafts'[alias[key]].call = j
  BY <1>1 DEF AliasFits, KeysOf
<1> QED
  BY DEF AliasFits

\* A chunk that changes no draft.
LEMMA QuietDrafts ==
  ASSUME StreamTyped, Streaming, ending = "open", NEW i, NEW s2, Sends(i, s2),
         s2.done = sent[i].done \/ plan[i] # "call",
         UNCHANGED <<plan, ending, drafts, alias>>
  PROVE  DraftsKnow' /\ DoneIsWhole' /\ AliasFits'
<1>1. /\ Items' = Items /\ i \in Items /\ s2 # Unsent
      /\ sent'[i] = s2 /\ \A j \in Items : j # i => sent'[j] = sent[j]
  BY SentTyped DEF Sends
<1>2. Done("call")' = Done("call")
  BY DoneGrows
<1>3. DoneIsWhole'
  BY <1>2 DEF Streaming, DoneIsWhole, IsWhole
<1>4. DraftsKnow'
  <2> SUFFICES ASSUME NEW k \in DOMAIN drafts PROVE DraftKnows(drafts[k])'
    BY DEF DraftsKnow
  <2> DEFINE d == drafts[k]
  <2>1. DraftKnows(d) /\ d.call \in Items
    BY DEF Streaming, DraftsKnow, Fits, DraftsFit, DraftFits, Items
  <2>2. CASE d.call = i
    BY <1>1, <2>1, <2>2 DEF DraftKnows, Sends
  <2>3. CASE d.call # i
    <3>1. sent'[d.call] = sent[d.call]
      BY <1>1, <2>1, <2>3
    <3> QED
      BY <2>1, <3>1 DEF DraftKnows, Unsent
  <2> QED
    BY <2>2, <2>3
<1>5. AliasFits'
  BY AliasesKept DEF Streaming
<1> QED
  BY <1>3, <1>4, <1>5

\* A draft that arguments find.
LEMMA FoundByArguments ==
  ASSUME ResponseAssumption, StreamInv, NEW i \in Items, MaySend(i), plan[i] = "call", ~sent[i].told,
         NEW c \in Chunks, NEW k \in ExistingDrafts(i, c)
  PROVE  /\ Draws(drafts, k, i) /\ k \in DOMAIN drafts /\ drafts[k] \in Drafts /\ drafts[k].call = i
         /\ drafts[k].named /\ drafts[k].started = drafts[k].named /\ ~drafts[k].ended
         /\ ~drafts[k].completed /\ drafts[k].final \in {None, Whole(i)}
<1>1. StreamTyped /\ Streaming /\ ending = "open" /\ ~sent[i].done
  BY DEF StreamInv, MaySend
<1>2. k \in DOMAIN drafts /\ drafts[k].call = i /\ drafts[k].named
  BY <1>1, Existing DEF Streaming
<1>3. Draws(drafts, k, i)
  BY <1>2 DEF Draws
<1>4. /\ drafts[k] \in Drafts /\ drafts[k].started = drafts[k].named /\ ~drafts[k].completed
      /\ drafts[k].final \in {None, Whole(i)}
  BY <1>1, <1>3, FoundFits
<1>5. drafts[k].ended => sent[i].told
  BY <1>1, <1>3, FoundFits
<1> QED
  BY <1>2, <1>3, <1>4, <1>5

\* The rest of a step that changes one draft.
LEMMA OneDraftStep ==
  ASSUME ResponseAssumption, StreamInv, NEW i \in Items, MaySend(i), plan[i] = "call",
         NEW s2, Sends(i, s2), s2.done = sent[i].done,
         UNCHANGED <<plan, style, ending, thoughts, over, alias>>,
         NEW k, Draws(drafts, k, i), k \in DOMAIN drafts, NEW d, d.call = i, Keeps(d, s2),
         drafts' = [drafts EXCEPT ![k] = d],
         NEW events \in Seq(Events), Emit(events),
         Fits(plan, style, Told(Tale, events), drafts', Done("text"), Done("reasoning"))
  PROVE  StreamInv'
<1>1. over = "no" /\ ending = "open" /\ StreamTyped /\ Streaming
  BY DEF MaySend, StreamInv
<1>2. AliasFits /\ SentInOrder /\ Tale \in Tales(Items) /\ plan[i] # "text"
  BY <1>1 DEF Streaming, StreamTyped
<1>3. Tale' = Told(Tale, events)
  BY <1>2, EmitTale
<1>4. /\ DraftsKnow' /\ DoneIsWhole'
      /\ DOMAIN drafts \subseteq DOMAIN drafts'
      /\ \A n \in DOMAIN drafts : drafts'[n].call = drafts[n].call
  BY <1>1, DraftStep
<1>5. AliasFits'
  BY <1>2, <1>4, AliasesKept
<1>6. SentInOrder'
  BY <1>1, <1>2, KeepsOrder
<1>7. Done("text")' = Done("text") /\ Done("reasoning")' = Done("reasoning")
  BY <1>1, DoneGrows
<1>8. Streaming'
  BY <1>3, <1>4, <1>5, <1>6, <1>7 DEF Streaming
<1>9. Tale' \in Tales(Items)
  BY <1>3 DEF Fits, Items
<1>10. \A id \in DOMAIN thoughts' : thoughts'[id].encrypted \in {None, "early"} /\ thoughts'[id].active \in BOOLEAN
  BY <1>1 DEF StreamTyped
<1> QED
  BY <1>1, <1>8, <1>9, <1>10, StreamGoesOn

\* Arguments without a draft are ignored.
LEMMA OrphanStep ==
  ASSUME ResponseAssumption, StreamInv, NEW i \in Items, MaySend(i), plan[i] = "call",
         NEW s2, Sends(i, s2), s2.done = sent[i].done,
         UNCHANGED <<plan, style, ending, thoughts, over, alias, drafts, message, shown>>
  PROVE  StreamInv'
<1>1. over = "no" /\ ending = "open" /\ StreamTyped /\ Streaming
  BY DEF MaySend, StreamInv
<1>2. DraftsKnow' /\ DoneIsWhole' /\ AliasFits'
  BY <1>1, QuietDrafts
<1>3. SentInOrder'
  BY <1>1, KeepsOrder DEF Streaming
<1>4. Done("text")' = Done("text") /\ Done("reasoning")' = Done("reasoning") /\ Tale' = Tale
  BY <1>1, DoneGrows DEF Tale
<1>5. Streaming'
  BY <1>1, <1>2, <1>3, <1>4 DEF Streaming
<1>6. /\ Tale' \in Tales(Items)
      /\ \A id \in DOMAIN thoughts' : thoughts'[id].encrypted \in {None, "early"} /\ thoughts'[id].active \in BOOLEAN
  BY <1>1, <1>4 DEF StreamTyped
<1> QED
  BY <1>1, <1>5, <1>6, StreamGoesOn

LEMMA EndOfTyped ==
  ASSUME NEW d \in Drafts
  PROVE  EndOf(d) \in Seq(Events)
<1>1. d.call \in Ids /\ Arguments(d) \in Texts
  BY ArgumentsTyped DEF Drafts, Ids
<1>2. Event("end", d.call, Arguments(d), None) \in Events
  BY <1>1, EventTyped DEF Types, CallTypes, Marks
<1> QED
  BY <1>2 DEF EndOf

LEMMA ArgumentsDeltaStep ==
  ASSUME ResponseAssumption, StreamInv, NEW i \in Items, ArgumentsDelta(i)
  PROVE  StreamInv'
<1> DEFINE s2 == [sent[i] EXCEPT !.fragments = @ + 1]
           c == DeltaOf(i)
<1>1. /\ MaySend(i) /\ plan[i] = "call" /\ sent[i].fragments < 2 /\ ~sent[i].told
      /\ UNCHANGED <<plan, style, ending, thoughts, over, alias>> /\ sent' = [sent EXCEPT ![i] = s2]
  BY DEF ArgumentsDelta, Stream
<1>2. over = "no" /\ StreamTyped /\ Streaming /\ sent[i] \in Sents /\ i \in Nat /\ Items = DOMAIN plan
      /\ DOMAIN plan \subseteq Nat
  BY <1>1, ItemsTyped DEF MaySend, StreamInv
<1>3. s2 \in Sents /\ s2 # Unsent /\ s2.done = sent[i].done /\ s2.told = sent[i].told
  BY <1>1, <1>2 DEF Sents, Unsent
<1> HIDE DEF s2
<1>4. Sends(i, s2)
  BY <1>1, <1>3 DEF Sends
<1>5. CASE ExistingDrafts(i, c) = {}
  <2>1. UNCHANGED <<drafts, message, shown>>
    BY <1>5 DEF ArgumentsDelta
  <2> QED
    BY <1>1, <1>3, <1>4, <2>1, OrphanStep
<1>6. CASE ExistingDrafts(i, c) # {}
  <2> DEFINE delta == <<Fragment(i, sent[i].fragments + 1)>>
  <2>1. PICK k \in ExistingDrafts(i, c) :
           /\ drafts' = [drafts EXCEPT ![k] = [Started(drafts[k]) EXCEPT !.chunks = @ \o delta]]
           /\ Emit(StartOf(drafts[k]) \o <<Event("delta", drafts[k].call, delta, None)>>)
    BY <1>6 DEF ArgumentsDelta
  <2> DEFINE d == drafts[k]
             d2 == [Started(d) EXCEPT !.chunks = @ \o delta]
             e == Event("delta", d.call, delta, None)
  <2>13. drafts' = [drafts EXCEPT ![k] = d2] /\ Emit(StartOf(d) \o <<e>>)
    BY <2>1
  <2>2. c \in Chunks
    BY DEF DeltaOf, Chunks
  <2> HIDE DEF c
  <2>3. /\ Draws(drafts, k, i) /\ k \in DOMAIN drafts /\ d \in Drafts /\ d.call = i
        /\ d.named /\ d.started = d.named /\ ~d.ended /\ ~d.completed /\ d.final \in {None, Whole(i)}
    BY <1>1, <2>2, FoundByArguments
  <2>4. delta \in Texts
    <3>1. sent[i].fragments + 1 \in {1, 2}
      BY <1>1, <1>2 DEF Sents
    <3>2. Fragment(i, sent[i].fragments + 1) \in Pieces
      BY <1>2, <3>1 DEF Fragment, Pieces
    <3> QED
      BY <3>2 DEF Texts
  <2> HIDE DEF delta, d
  <2>5. /\ d2 \in Drafts /\ d2.call = i /\ d2.named /\ d2.started = d2.named /\ d2.started = d.started
        /\ ~d2.ended /\ ~d2.completed /\ d2.final = d.final /\ d2.ended = d.ended
    <3>1. d.chunks \o delta \in Texts
      BY <2>3, <2>4 DEF Drafts, Texts
    <3>2. Started(d) = d
      BY <2>3 DEF Started, Drafts
    <3>3. d2 = [d EXCEPT !.chunks = d.chunks \o delta]
      BY <2>3, <3>2 DEF Drafts
    <3> HIDE DEF d2
    <3> QED
      BY <2>3, <3>1, <3>3 DEF Drafts
  <2>6. e \in Events
    BY <1>2, <2>3, <2>4, EventTyped DEF Types, CallTypes, Marks, Ids
  <2>7. StartOf(d) = <<>>
    BY <2>3 DEF StartOf
  <2>8. drafts' = [drafts EXCEPT ![k] = d2] /\ Emit(<<e>>)
    <3>1. StartOf(d) \o <<e>> = <<e>>
      BY <2>6, <2>7
    <3> QED
      BY <2>13, <3>1
  <2> HIDE DEF d2, e
  <2>9. Fits(plan, style, Told(Tale, <<e>>), drafts, Done("text"), Done("reasoning"))
    <3>1. Fits(plan, style, Tale, drafts, Done("text"), Done("reasoning"))
      BY <1>2 DEF Streaming
    <3> QED
      BY <1>2, <2>3, <2>4, <3>1, DeltaFits DEF d, e
  <2>10. Fits(plan, style, Told(Tale, <<e>>), drafts', Done("text"), Done("reasoning"))
    <3>1. DraftFits(plan, d2)
      BY <1>1, <1>2, <2>3, <2>5 DEF DraftFits, Flags
    <3>2. d2.call = drafts[k].call /\ d2.started = drafts[k].started /\ d2.ended = drafts[k].ended
          /\ ~d2.completed /\ ~drafts[k].completed
      BY <2>3, <2>5 DEF d
    <3> QED
      BY <2>3, <2>5, <2>8, <2>9, <3>1, <3>2, QuietChange
  <2>11. Keeps(d2, s2)
    BY <1>1, <1>3, <2>5 DEF Keeps, MaySend
  <2>12. <<e>> \in Seq(Events)
    BY <2>6
  <2> QED
    BY <1>1, <1>3, <1>4, <2>3, <2>5, <2>8, <2>10, <2>11, <2>12, OneDraftStep
<1> QED
  BY <1>5, <1>6

LEMMA ArgumentsDoneStep ==
  ASSUME ResponseAssumption, StreamInv, NEW i \in Items, ArgumentsDone(i)
  PROVE  StreamInv'
<1> DEFINE s2 == [sent[i] EXCEPT !.told = TRUE]
<1>1. /\ MaySend(i) /\ plan[i] = "call" /\ ~sent[i].told
      /\ UNCHANGED <<plan, style, ending, thoughts, over, alias>> /\ sent' = [sent EXCEPT ![i] = s2]
  BY DEF ArgumentsDone, Stream
<1>2. /\ over = "no" /\ StreamTyped /\ Streaming /\ sent[i] \in Sents /\ i \in Nat /\ Items = DOMAIN plan
      /\ DOMAIN plan \subseteq Nat /\ Whole(i) \in Texts
  BY <1>1, ItemsTyped DEF MaySend, StreamInv
<1>3. s2 \in Sents /\ s2 # Unsent /\ s2.done = sent[i].done /\ s2.told
  BY <1>1, <1>2 DEF Sents, Unsent
<1> HIDE DEF s2
<1>4. Sends(i, s2)
  BY <1>1, <1>3 DEF Sends
<1>5. CASE ExistingDrafts(i, "told") = {}
  <2>1. UNCHANGED <<drafts, message, shown>>
    BY <1>5 DEF ArgumentsDone
  <2> QED
    BY <1>1, <1>3, <1>4, <2>1, OrphanStep
<1>6. CASE ExistingDrafts(i, "told") # {}
  <2>1. PICK k \in ExistingDrafts(i, "told") :
           LET filled == [drafts[k] EXCEPT !.final = Whole(i),
                                           !.chunks = IF @ = <<>> THEN Whole(i) ELSE @]
           IN /\ drafts' = [drafts EXCEPT ![k] = [Started(filled) EXCEPT !.ended = TRUE]]
              /\ Emit(StartOf(filled) \o EndOf(filled))
    BY <1>6 DEF ArgumentsDone
  <2> DEFINE d == drafts[k]
             f == [d EXCEPT !.final = Whole(i), !.chunks = IF @ = <<>> THEN Whole(i) ELSE @]
             d2 == [Started(f) EXCEPT !.ended = TRUE]
             D1 == [drafts EXCEPT ![k] = f]
  <2>2. "told" \in Chunks
    BY DEF Chunks
  <2>3. /\ Draws(drafts, k, i) /\ k \in DOMAIN drafts /\ d \in Drafts /\ d.call = i
        /\ d.named /\ d.started = d.named /\ ~d.ended /\ ~d.completed /\ d.final \in {None, Whole(i)}
    BY <1>1, <2>2, FoundByArguments
  <2>4. drafts' = [drafts EXCEPT ![k] = d2] /\ Emit(StartOf(f) \o EndOf(f))
    BY <2>1
  <2> HIDE DEF d
  <2>5. /\ f \in Drafts /\ f.call = i /\ f.named /\ f.started = f.named /\ f.started = d.started
        /\ ~f.ended /\ ~f.completed /\ f.final = Whole(i) /\ f.ended = d.ended /\ f.chunks # <<>>
    <3>1. Whole(i) # <<>>
      BY DEF Whole
    <3> QED
      BY <1>2, <2>3, <3>1 DEF Drafts
  <2> HIDE DEF f
  <2>6. /\ d2 \in Drafts /\ d2.call = i /\ d2.named /\ d2.started = d2.named /\ d2.ended /\ ~d2.completed
        /\ d2.chunks = f.chunks /\ d2 = EndedBy(f)
    <3>1. Started(f) = f
      BY <2>5 DEF Started, Drafts
    <3>2. d2 = [f EXCEPT !.ended = TRUE] /\ EndedBy(f) = [f EXCEPT !.ended = TRUE]
      BY <2>5, <3>1 DEF EndedBy, Drafts
    <3> HIDE DEF d2
    <3> QED
      BY <2>5, <3>2 DEF Drafts
  <2>7. StartOf(f) = <<>> /\ EndOf(f) \in Seq(Events)
    BY <2>5, EndOfTyped DEF StartOf
  <2>8. Emit(EndOf(f))
    <3>1. <<>> \o EndOf(f) = EndOf(f)
      BY <2>7
    <3> QED
      BY <2>4, <2>7, <3>1
  <2>9. /\ drafts \in Seq(Drafts) /\ D1[k] = f /\ k \in DOMAIN D1 /\ [D1 EXCEPT ![k] = d2] = drafts'
    <3>1. drafts \in Seq(Drafts)
      BY <1>2 DEF Streaming, Fits, DraftsFit
    <3> HIDE DEF d2
    <3> QED
      BY <2>3, <2>4, <3>1
  <2> HIDE DEF d2
  <2>10. Fits(plan, style, Tale, D1, Done("text"), Done("reasoning"))
    <3>1. DraftFits(plan, f)
      BY <1>1, <1>2, <2>3, <2>5 DEF DraftFits, Flags
    <3>2. f.call = drafts[k].call /\ f.started = drafts[k].started /\ f.ended = drafts[k].ended
          /\ ~f.completed /\ ~drafts[k].completed
      BY <2>3, <2>5 DEF d
    <3>3. Fits(plan, style, Tale, drafts, Done("text"), Done("reasoning"))
      BY <1>2 DEF Streaming
    <3> QED
      BY <2>3, <2>5, <3>1, <3>2, <3>3, QuietChange
  <2> HIDE DEF D1
  <2>11. Fits(plan, style, Told(Tale, EndOf(f)), drafts', Done("text"), Done("reasoning"))
    <3>1. D1[k].named => D1[k].started
      BY <2>5, <2>9
    <3>2. Fits(plan, style, Told(Tale, EndOf(D1[k])), [D1 EXCEPT ![k] = EndedBy(D1[k])],
               Done("text"), Done("reasoning"))
      BY <1>2, <2>9, <2>10, <3>1, EndFits
    <3> QED
      BY <2>6, <2>9, <3>2
  <2>12. Keeps(d2, s2)
    BY <1>1, <1>3, <2>5, <2>6 DEF Keeps, MaySend
  <2> QED
    BY <1>1, <1>3, <1>4, <2>3, <2>4, <2>6, <2>7, <2>8, <2>11, <2>12, OneDraftStep
<1> QED
  BY <1>5, <1>6

-----------------------------------------------------------------------------
(* The steps of text and of reasoning. *)

\* The rest of a step that changes no draft.
LEMMA NoDraftStep ==
  ASSUME ResponseAssumption, StreamInv, NEW i \in Items, MaySend(i), plan[i] # "call",
         NEW s2, Sends(i, s2), plan[i] = "text" => s2.done,
         UNCHANGED <<plan, style, ending, over, drafts, alias>>,
         \A id \in DOMAIN thoughts' :
            thoughts'[id].encrypted \in {None, "early"} /\ thoughts'[id].active \in BOOLEAN,
         NEW events \in Seq(Events), Emit(events),
         Fits(plan, style, Told(Tale, events), drafts, Done("text")', Done("reasoning")')
  PROVE  StreamInv'
<1>1. over = "no" /\ ending = "open" /\ StreamTyped /\ Streaming /\ Tale \in Tales(Items)
  BY DEF MaySend, StreamInv, StreamTyped
<1>2. DraftsKnow' /\ DoneIsWhole' /\ AliasFits'
  BY <1>1, QuietDrafts
<1>3. SentInOrder'
  BY <1>1, KeepsOrder DEF Streaming
<1>4. Tale' = Told(Tale, events)
  BY <1>1, EmitTale
<1>5. Streaming'
  BY <1>2, <1>3, <1>4 DEF Streaming
<1>6. Tale' \in Tales(Items)
  BY <1>4 DEF Fits, Items
<1> QED
  BY <1>1, <1>5, <1>6, StreamGoesOn

LEMMA TextDeltaStep ==
  ASSUME ResponseAssumption, StreamInv, NEW i \in Items, TextDelta(i)
  PROVE  StreamInv'
<1> DEFINE s2 == [sent[i] EXCEPT !.done = TRUE]
           e == Event("text", 0, <<Fragment(i, 1)>>, None)
<1>1. /\ MaySend(i) /\ plan[i] = "text" /\ sent' = [sent EXCEPT ![i] = s2]
      /\ UNCHANGED <<plan, style, ending, thoughts, over, alias, drafts>> /\ Emit(<<e>>)
  BY DEF TextDelta, Stream
<1>2. /\ over = "no" /\ StreamTyped /\ Streaming /\ sent[i] \in Sents /\ i \in Nat /\ Items = DOMAIN plan
      /\ DOMAIN plan \subseteq Nat
  BY <1>1, ItemsTyped DEF MaySend, StreamInv
<1>3. s2 \in Sents /\ s2 # Unsent /\ s2.done = TRUE /\ s2.told = sent[i].told
  BY <1>1, <1>2 DEF Sents, Unsent
<1> HIDE DEF s2
<1>4. Sends(i, s2)
  BY <1>1, <1>3 DEF Sends
<1>5. e \in Events /\ e.type = "text" /\ e.data = <<Fragment(i, 1)>>
  <2>1. <<i, 1>> \in Pieces
    BY <1>2 DEF Pieces
  <2>2. <<Fragment(i, 1)>> \in Texts
    BY <2>1 DEF Texts, Fragment
  <2>3. e \in Events
    BY <2>2, EventTyped DEF Types, Marks, Ids
  <2> QED
    BY <2>3 DEF Event
<1>6. <<e>> \in Seq(Events)
  BY <1>5
<1> HIDE DEF e
<1>7. Done("text")' = Done("text") \cup {i} /\ Done("reasoning")' = Done("reasoning")
  BY <1>1, <1>2, <1>3, <1>4, DoneGrows
<1>8. Fits(plan, style, Told(Tale, <<e>>), drafts, Done("text") \cup {i}, Done("reasoning"))
  <2>1. Fits(plan, style, Tale, drafts, Done("text"), Done("reasoning"))
    BY <1>2 DEF Streaming
  <2>2. \A n \in DOMAIN drafts : drafts[n].started => drafts[n].call < i
    BY <1>1, <1>2, <2>1, AfterTheCalls DEF Streaming, Fits
  <2> QED
    BY <1>2, <1>5, <2>1, <2>2, TextArrives
<1>9. Fits(plan, style, Told(Tale, <<e>>), drafts, Done("text")', Done("reasoning")')
  BY <1>7, <1>8
<1>10. \A id \in DOMAIN thoughts' : thoughts'[id].encrypted \in {None, "early"} /\ thoughts'[id].active \in BOOLEAN
  BY <1>1, <1>2 DEF StreamTyped
<1> QED
  BY <1>1, <1>3, <1>4, <1>6, <1>9, <1>10, NoDraftStep

\* A step that tells of reasoning.
LEMMA ReasoningStep ==
  ASSUME ResponseAssumption, StreamInv, NEW i \in Items, MaySend(i), plan[i] = "reasoning",
         NEW s2, Sends(i, s2), NEW c \in Chunks,
         UNCHANGED <<plan, style, ending, over, drafts, alias>>,
         \A id \in DOMAIN thoughts' :
            thoughts'[id].encrypted \in {None, "early"} /\ thoughts'[id].active \in BOOLEAN,
         NEW data \in Texts, NEW mark \in {None, "early", "final"}, s2.done => mark = "final",
         Emit(<<Event("reasoning", ItemId(i, c), data, mark)>>)
  PROVE  StreamInv'
<1> DEFINE e == Event("reasoning", ItemId(i, c), data, mark)
           c2 == IF style = "indexed" THEN c ELSE "id"
<1>1. /\ over = "no" /\ StreamTyped /\ Streaming /\ i \in Nat /\ Items = DOMAIN plan
      /\ DOMAIN plan \subseteq Nat /\ ~sent[i].done /\ Done("text") \subseteq Nat /\ None # "final"
  BY ItemsTyped DEF MaySend, StreamInv
<1>2. c2 \in Chunks /\ ItemId(i, c) = <<i, c2>> /\ (style # "indexed" => c2 = "id")
  BY DEF ItemId, Chunks
<1> HIDE DEF c2
<1>3. e \in Events /\ e.type = "reasoning" /\ e.id = <<i, c2>> /\ e.mark = mark
  <2>1. ItemId(i, c) \in Ids
    BY <1>1, <1>2 DEF Ids
  <2>2. e \in Events
    BY <2>1, EventTyped DEF Types, Marks
  <2> QED
    BY <1>2, <2>2 DEF Event
<1> HIDE DEF e
<1>4. Emit(<<e>>) /\ <<e>> \in Seq(Events)
  BY <1>3 DEF e
<1>5. Done("text")' = Done("text")
  BY <1>1, DoneGrows
<1>6. StillFinal(Done("reasoning"), Done("reasoning")', i, e.mark)
  <2>1. CASE s2.done
    <3>1. Done("reasoning")' = Done("reasoning") \cup {i}
      BY <1>1, <2>1, DoneGrows
    <3> QED
      BY <1>3, <2>1, <3>1 DEF StillFinal
  <2>2. CASE ~s2.done
    <3>3. s2.done = sent[i].done
      BY <1>1, <2>2, ItemsTyped DEF Sends, Sents
    <3>1. Done("reasoning")' = Done("reasoning")
      BY <1>1, <3>3, DoneGrows
    <3>2. i \notin Done("reasoning")
      BY <1>1 DEF Done
    <3> QED
      BY <3>1, <3>2 DEF StillFinal
  <2> QED
    BY <2>1, <2>2
<1>7. Fits(plan, style, Told(Tale, <<e>>), drafts, Done("text"), Done("reasoning")')
  <2>1. Fits(plan, style, Tale, drafts, Done("text"), Done("reasoning"))
    BY <1>1 DEF Streaming
  <2>2. \A n \in DOMAIN drafts : drafts[n].started => ~(i < drafts[n].call)
    BY <1>1, <2>1, AfterTheCalls DEF Streaming, Fits
  <2>3. \A j \in Done("text") : ~(i < j)
    BY <1>1, AfterTheTexts DEF Streaming
  <2> HIDE DEF Done
  <2> QED
    BY <1>1, <1>2, <1>3, <1>6, <2>1, <2>2, <2>3, ThoughtArrives
<1>8. Fits(plan, style, Told(Tale, <<e>>), drafts, Done("text")', Done("reasoning")')
  BY <1>5, <1>7
<1> QED
  BY <1>4, <1>8, NoDraftStep

\* The thoughts, as one of them changes.
LEMMA ThinksTyped ==
  ASSUME StreamTyped, NEW id, NEW thought, Thinks(id, thought),
         thought.encrypted \in {None, "early"}, thought.active \in BOOLEAN
  PROVE  \A x \in DOMAIN thoughts' : thoughts'[x].encrypted \in {None, "early"} /\ thoughts'[x].active \in BOOLEAN
<1> SUFFICES ASSUME NEW x \in DOMAIN thoughts'
             PROVE  thoughts'[x].encrypted \in {None, "early"} /\ thoughts'[x].active \in BOOLEAN
  OBVIOUS
<1>1. CASE x = id
  BY <1>1 DEF Thinks
<1>2. CASE x # id
  BY <1>2 DEF Thinks, StreamTyped
<1> QED
  BY <1>1, <1>2

LEMMA ThoughtTyped ==
  ASSUME StreamTyped, NEW id
  PROVE  /\ Thought(id).encrypted \in {None, "early"} /\ Thought(id).active \in BOOLEAN
         /\ \A active \in BOOLEAN :
              LET t == [Thought(id) EXCEPT !.active = active]
              IN t.encrypted \in {None, "early"} /\ t.active \in BOOLEAN
<1>1. CASE id \in DOMAIN thoughts
  <2>1. Thought(id) = thoughts[id] /\ thoughts[id].encrypted \in {None, "early"} /\ thoughts[id].active \in BOOLEAN
    BY <1>1 DEF StreamTyped, Thought
  <2> QED
    BY <2>1
<1>2. CASE id \notin DOMAIN thoughts
  BY <1>2 DEF Thought
<1> QED
  BY <1>1, <1>2

LEMMA ReasoningAddedStep ==
  ASSUME ResponseAssumption, StreamInv, NEW i \in Items, NEW encrypted \in {None, "early"},
         ReasoningAdded(i, encrypted)
  PROVE  StreamInv'
<1> DEFINE s2 == [sent[i] EXCEPT !.added = TRUE]
           t == [encrypted |-> encrypted, active |-> TRUE]
<1>1. /\ MaySend(i) /\ plan[i] = "reasoning" /\ sent' = [sent EXCEPT ![i] = s2]
      /\ UNCHANGED <<plan, style, ending, over, alias, drafts>>
      /\ Thinks(ItemId(i, "added"), t) /\ Emit(<<Event("reasoning", ItemId(i, "added"), <<>>, encrypted)>>)
  BY DEF ReasoningAdded, Stream
<1>2. sent[i] \in Sents /\ StreamTyped /\ ~sent[i].done
  BY <1>1, ItemsTyped DEF MaySend, StreamInv
<1>3. s2 \in Sents /\ s2 # Unsent /\ s2.done = sent[i].done /\ s2.told = sent[i].told
  BY <1>2 DEF Sents, Unsent
<1>4. t.encrypted \in {None, "early"} /\ t.active \in BOOLEAN
  OBVIOUS
<1> HIDE DEF s2, t
<1>5. Sends(i, s2)
  BY <1>1, <1>3 DEF Sends
<1>6. \A x \in DOMAIN thoughts' : thoughts'[x].encrypted \in {None, "early"} /\ thoughts'[x].active \in BOOLEAN
  BY <1>1, <1>2, <1>4, ThinksTyped
<1>7. "added" \in Chunks /\ <<>> \in Texts /\ encrypted \in {None, "early", "final"}
  BY DEF Chunks, Texts
<1> QED
  BY <1>1, <1>2, <1>3, <1>5, <1>6, <1>7, ReasoningStep

LEMMA ReasoningDeltaStep ==
  ASSUME ResponseAssumption, StreamInv, NEW i \in Items, ReasoningDelta(i)
  PROVE  StreamInv'
<1> DEFINE s2 == [sent[i] EXCEPT !.fragments = @ + 1]
           c == DeltaOf(i)
           id == ItemId(i, c)
           data == <<Fragment(i, sent[i].fragments + 1)>>
           t == [Thought(id) EXCEPT !.active = TRUE]
<1>1. /\ MaySend(i) /\ plan[i] = "reasoning" /\ sent' = [sent EXCEPT ![i] = s2] /\ sent[i].fragments < 2
      /\ UNCHANGED <<plan, style, ending, over, alias, drafts>>
      /\ Thinks(id, t) /\ Emit(<<Event("reasoning", id, data, Thought(id).encrypted)>>)
  BY DEF ReasoningDelta, Stream
<1>2. sent[i] \in Sents /\ StreamTyped /\ ~sent[i].done /\ i \in Nat
  BY <1>1, ItemsTyped DEF MaySend, StreamInv
<1>3. s2 \in Sents /\ s2 # Unsent /\ s2.done = sent[i].done /\ s2.told = sent[i].told
  BY <1>1, <1>2 DEF Sents, Unsent
<1>4. /\ t.encrypted \in {None, "early"} /\ t.active \in BOOLEAN
      /\ Thought(id).encrypted \in {None, "early", "final"}
  BY <1>2, ThoughtTyped
<1>5. data \in Texts
  <2>1. sent[i].fragments + 1 \in {1, 2}
    BY <1>1, <1>2 DEF Sents
  <2>2. Fragment(i, sent[i].fragments + 1) \in Pieces
    BY <1>2, <2>1 DEF Fragment, Pieces
  <2> QED
    BY <2>2 DEF Texts
<1>6. c \in Chunks
  BY DEF DeltaOf, Chunks
<1> HIDE DEF s2, t, c, data
<1>7. Sends(i, s2)
  BY <1>1, <1>3 DEF Sends
<1>8. \A x \in DOMAIN thoughts' : thoughts'[x].encrypted \in {None, "early"} /\ thoughts'[x].active \in BOOLEAN
  BY <1>1, <1>2, <1>4, ThinksTyped
<1> QED
  BY <1>1, <1>2, <1>3, <1>4, <1>5, <1>6, <1>7, <1>8, ReasoningStep

LEMMA ReasoningPartDoneStep ==
  ASSUME ResponseAssumption, StreamInv, NEW i \in Items, ReasoningPartDone(i)
  PROVE  StreamInv'
<1> DEFINE s2 == [sent[i] EXCEPT !.told = TRUE]
           id == ItemId(i, "told")
           t == [Thought(id) EXCEPT !.active = FALSE]
           events == IF Thought(id).active THEN <<Event("reasoning", id, <<>>, Thought(id).encrypted)>> ELSE <<>>
<1>1. /\ MaySend(i) /\ plan[i] = "reasoning" /\ sent' = [sent EXCEPT ![i] = s2]
      /\ UNCHANGED <<plan, style, ending, over, alias, drafts>>
      /\ Thinks(id, t) /\ Emit(events)
  BY DEF ReasoningPartDone, Stream
<1>2. /\ sent[i] \in Sents /\ StreamTyped /\ Streaming /\ Tale \in Tales(Items) /\ ~sent[i].done
  BY <1>1, ItemsTyped DEF MaySend, StreamInv, StreamTyped
<1>3. s2 \in Sents /\ s2 # Unsent /\ s2.done = sent[i].done /\ s2.told
  BY <1>2 DEF Sents, Unsent
<1>4. /\ t.encrypted \in {None, "early"} /\ t.active \in BOOLEAN
      /\ Thought(id).encrypted \in {None, "early", "final"}
  BY <1>2, ThoughtTyped
<1>5. "told" \in Chunks /\ <<>> \in Texts
  BY DEF Chunks, Texts
<1> HIDE DEF s2, t
<1>6. Sends(i, s2)
  BY <1>1, <1>3 DEF Sends
<1>7. \A x \in DOMAIN thoughts' : thoughts'[x].encrypted \in {None, "early"} /\ thoughts'[x].active \in BOOLEAN
  BY <1>1, <1>2, <1>4, ThinksTyped
<1>8. CASE Thought(id).active
  <2>1. Emit(<<Event("reasoning", id, <<>>, Thought(id).encrypted)>>)
    BY <1>1, <1>8
  <2> QED
    BY <1>1, <1>2, <1>3, <1>4, <1>5, <1>6, <1>7, <2>1, ReasoningStep
<1>9. CASE ~Thought(id).active
  <2>1. Emit(<<>>) /\ <<>> \in Seq(Events)
    BY <1>1, <1>9
  <2>2. Done("text")' = Done("text") /\ Done("reasoning")' = Done("reasoning")
    BY <1>1, <1>2, <1>3, <1>6, DoneGrows
  <2>3. Told(Tale, <<>>) = Tale
    BY <1>2, ToldNone
  <2>4. Fits(plan, style, Told(Tale, <<>>), drafts, Done("text")', Done("reasoning")')
    BY <1>2, <2>2, <2>3 DEF Streaming
  <2> QED
    BY <1>1, <1>3, <1>6, <1>7, <2>1, <2>4, NoDraftStep
<1> QED
  BY <1>8, <1>9

LEMMA ReasoningDoneStep ==
  ASSUME ResponseAssumption, StreamInv, NEW i \in Items, ReasoningDone(i)
  PROVE  StreamInv'
<1> DEFINE s2 == [sent[i] EXCEPT !.done = TRUE]
           id == ItemId(i, "done")
<1>1. /\ MaySend(i) /\ plan[i] = "reasoning" /\ sent' = [sent EXCEPT ![i] = s2]
      /\ UNCHANGED <<plan, style, ending, over, alias, drafts>>
      /\ thoughts' = [x \in DOMAIN thoughts \ {id} |-> thoughts[x]]
      /\ Emit(<<Event("reasoning", id, <<>>, "final")>>)
  BY DEF ReasoningDone, Stream, Ended
<1>2. sent[i] \in Sents /\ StreamTyped
  BY <1>1, ItemsTyped DEF MaySend, StreamInv
<1>3. s2 \in Sents /\ s2 # Unsent /\ s2.done = TRUE /\ s2.told = sent[i].told
  BY <1>2 DEF Sents, Unsent
<1> HIDE DEF s2
<1>4. Sends(i, s2)
  BY <1>1, <1>3 DEF Sends
<1>5. \A x \in DOMAIN thoughts' : thoughts'[x].encrypted \in {None, "early"} /\ thoughts'[x].active \in BOOLEAN
  <2> HIDE DEF id
  <2> QED
    BY <1>1, <1>2 DEF StreamTyped
<1>6. "done" \in Chunks /\ <<>> \in Texts /\ "final" \in {None, "early", "final"}
  BY DEF Chunks, Texts
<1> QED
  BY <1>1, <1>3, <1>4, <1>5, <1>6, ReasoningStep

-----------------------------------------------------------------------------
(* The message is whole when the stream ends. *)

\* What the drafts are then, of the items that were sent and how the response ended.
WholeDrafts(p, sn, en, D) ==
    /\ \A n \in DOMAIN D :
          D[n].started = D[n].named /\ (D[n].completed <=> en # "failed" \/ sn[D[n].call].done)
    /\ \A i \in DOMAIN p : p[i] = "call" /\ sn[i].done =>
          \E n \in DOMAIN D : D[n].call = i /\ IsWhole(D[n])

LEMMA AtMostOne ==
  ASSUME NEW S, \A x, y \in S : x = y
  PROVE  Cardinality(S) <= 1 /\ (S # {} => Cardinality(S) = 1)
<1>1. CASE S = {}
  BY <1>1, FS_EmptySet
<1>2. CASE S # {}
  <2>1. PICK x : x \in S
    BY <1>2
  <2>2. S = {x}
    BY <2>1
  <2> QED
    BY <2>2, FS_Singleton
<1> QED
  BY <1>1, <1>2

\* The part of a call, if a draft of it was started.
LEMMA PartOfDraft ==
  ASSUME NEW parts, NEW D, CallsFit(parts, D), \A n, k \in DOMAIN D : D[n].call = D[k].call => n = k,
         NEW n \in DOMAIN D, D[n].started, NEW k \in CallParts(parts), parts[k].id = D[n].call
  PROVE  PartFits(parts[k], D[n])
<1>1. PICK j \in CallParts(parts) : PartFits(parts[j], D[n])
  BY DEF CallsFit
<1>2. parts[j].id = D[n].call
  BY <1>1 DEF PartFits, Part
<1>3. j = k
  BY <1>2 DEF CallsFit
<1> QED
  BY <1>1, <1>3

LEMMA CallEndsWhole ==
  ASSUME NEW D, NEW T, NEW F, Fits(plan', style', Tale', D, T, F), WholeDrafts(plan', sent', ending', D),
         NEW i \in Items', plan'[i] = "call", None # Whole(i)
  PROVE  CallIsWhole(i)'
<1> DEFINE parts == message'.parts
           mine == {k \in DOMAIN parts : parts[k].kind = "call" /\ parts[k].id = i}
<1>1. /\ CallsFit(parts, D) /\ DraftsFit(plan', D)
      /\ \A n, k \in DOMAIN D : D[n].call = D[k].call => n = k
  BY DEF Fits, MessageFits, Tale, DraftsFit
<1>2. mine \subseteq CallParts(parts) /\ \A k \in CallParts(parts) : parts[k].id = i => k \in mine
  BY DEF CallParts
<1>3. PartsOf(message, "call", i)' = mine
  BY DEF PartsOf
<1> HIDE DEF parts
<1>4. \A j, k \in mine : j = k
  BY <1>1, <1>2 DEF CallsFit
<1>5. Cardinality(mine) <= 1
  BY <1>4, AtMostOne
<1>6. ASSUME sent'[i].done
      PROVE  {parts[k] : k \in mine} = {Part("call", i, Whole(i), "running")}
  <2>1. PICK n \in DOMAIN D : D[n].call = i /\ IsWhole(D[n])
    BY <1>6 DEF WholeDrafts, Items
  <2>2. D[n].started /\ D[n].completed /\ Arguments(D[n]) = Whole(i)
    BY <2>1 DEF WholeDrafts, IsWhole, Arguments
  <2>3. PICK k \in CallParts(parts) : PartFits(parts[k], D[n])
    BY <1>1, <2>2 DEF CallsFit
  <2>4. parts[k] = Part("call", i, Whole(i), "running")
    BY <2>1, <2>2, <2>3 DEF PartFits
  <2>5. k \in mine
    BY <1>2, <2>4 DEF Part
  <2> QED
    BY <1>4, <2>4, <2>5
<1>7. ASSUME NEW k \in mine
      PROVE  parts[k].mark = "pending" <=> ending' = "failed" /\ ~sent'[i].done
  <2>1. k \in CallParts(parts) /\ parts[k].id = i
    BY <1>2 DEF parts
  <2>2. PICK n \in DOMAIN D : D[n].call = i /\ D[n].started
    BY <1>1, <2>1 DEF CallsFit
  <2>3. PartFits(parts[k], D[n])
    BY <1>1, <2>1, <2>2, PartOfDraft
  <2>4. D[n].completed <=> ending' # "failed" \/ sent'[i].done
    BY <2>2 DEF WholeDrafts
  <2>5. parts[k].mark = IF D[n].completed THEN "running" ELSE "pending"
    BY <2>3 DEF PartFits, Part
  <2> QED
    BY <2>4, <2>5
<1> HIDE DEF mine
<1> QED
  BY <1>3, <1>5, <1>6, <1>7 DEF CallIsWhole, parts

\* What was seen of a draft is in order.
LEMMA SeenInOrder ==
  ASSUME NEW s \in Seq(Events), NEW d, ShownFits(s, d), Flags(d), s # <<>>
  PROVE  /\ {n \in DOMAIN s : s[n].type = "start"} = {1}
         /\ Cardinality({n \in DOMAIN s : s[n].type = "end"}) <= 1
         /\ {n \in DOMAIN s : s[n].type = "complete"} \subseteq {Len(s)}
         /\ \A n \in DOMAIN s : s[n].type = "end" =>
              n = Len(s) \/ (n + 1 \in DOMAIN s /\ s[n + 1].type = "complete")
         /\ d.completed => /\ {n \in DOMAIN s : s[n].type = "complete"} # {}
                           /\ {n \in DOMAIN s : s[n].type = "end"} # {}
<1> DEFINE m == Len(s) - Closing(d)
           ends == {n \in DOMAIN s : s[n].type = "end"}
<1>1. /\ d.started /\ m >= 1 /\ s[1].type = "start" /\ \A n \in 2..m : s[n].type = "delta"
      /\ d.ended => s[m + 1].type = "end"
      /\ d.completed => s[Len(s)].type = "complete" /\ d.ended
  BY DEF ShownFits, Flags
<1>2. /\ Len(s) \in Nat /\ DOMAIN s = 1..Len(s)
  BY LenProperties
<1>12. Len(s) - Closing(d) >= 1
  BY <1>1
<1> HIDE DEF ends
<1>3. /\ m \in Nat
      /\ d.completed => Len(s) = m + 2
      /\ d.ended /\ ~d.completed => Len(s) = m + 1
      /\ ~d.ended => Len(s) = m
  <2>1. CASE d.completed
    <3>1. Closing(d) = 2 /\ d.ended
      BY <1>1, <2>1 DEF Closing
    <3>2. m \in Nat /\ Len(s) = m + 2
      BY <1>2, <1>12, <3>1
    <3> HIDE DEF m
    <3> QED
      BY <2>1, <3>1, <3>2
  <2>2. CASE ~d.completed /\ d.ended
    <3>1. Closing(d) = 1
      BY <2>2 DEF Closing
    <3>2. m \in Nat /\ Len(s) = m + 1
      BY <1>2, <1>12, <3>1
    <3> HIDE DEF m
    <3> QED
      BY <2>2, <3>1, <3>2
  <2>3. CASE ~d.completed /\ ~d.ended
    <3>1. Closing(d) = 0
      BY <2>3 DEF Closing
    <3>2. m \in Nat /\ Len(s) = m
      BY <1>2, <1>12, <3>1
    <3> HIDE DEF m
    <3> QED
      BY <2>3, <3>1, <3>2
  <2> QED
    BY <2>1, <2>2, <2>3
<1> HIDE DEF m
<1>4. \A n \in DOMAIN s : n = 1 \/ n \in 2..m \/ (n = m + 1 /\ d.ended) \/ (n = m + 2 /\ d.completed)
  <2> TAKE n \in DOMAIN s
  <2>1. n \in Nat /\ n >= 1 /\ n <= Len(s)
    BY <1>2
  <2>2. Len(s) = m + 2 \/ Len(s) = m + 1 \/ Len(s) = m
    BY <1>3
  <2> QED
    BY <1>1, <1>3, <2>1, <2>2
<1>5. /\ \A n \in DOMAIN s : s[n].type = "start" => n = 1
      /\ \A n \in DOMAIN s : s[n].type = "end" => n = m + 1 /\ d.ended
      /\ \A n \in DOMAIN s : s[n].type = "complete" => n = m + 2 /\ d.completed
  BY <1>1, <1>3, <1>4
<1>6. Cardinality(ends) <= 1
  <2>1. \A x, y \in ends : x = y
    BY <1>5 DEF ends
  <2> HIDE DEF ends
  <2> QED
    BY <2>1, AtMostOne
<1>7. 1 \in DOMAIN s /\ (d.completed => Len(s) \in DOMAIN s /\ m + 1 \in DOMAIN s) /\ m + 1 + 1 = m + 2
  BY <1>1, <1>2, <1>3
<1>8. {n \in DOMAIN s : s[n].type = "start"} = {1}
  BY <1>1, <1>5, <1>7
<1>9. {n \in DOMAIN s : s[n].type = "complete"} \subseteq {Len(s)}
  BY <1>3, <1>5
<1>10. ASSUME NEW n \in DOMAIN s, s[n].type = "end"
       PROVE  n = Len(s) \/ (n + 1 \in DOMAIN s /\ s[n + 1].type = "complete")
  BY <1>1, <1>3, <1>5, <1>7, <1>10
<1>11. d.completed => /\ {n \in DOMAIN s : s[n].type = "complete"} # {}
                      /\ {n \in DOMAIN s : s[n].type = "end"} # {}
  BY <1>1, <1>7
<1> QED
  BY <1>6, <1>8, <1>9, <1>10, <1>11 DEF ends

LEMMA CallEndsInOrder ==
  ASSUME NEW D, NEW T, NEW F, Fits(plan', style', Tale', D, T, F), WholeDrafts(plan', sent', ending', D),
         NEW i \in Items', plan'[i] = "call"
  PROVE  CallIsShownInOrder(i)'
<1> DEFINE s == shown'[i]
<1>1. /\ AllShown(plan', shown', D) /\ DraftsFit(plan', D) /\ i \in DOMAIN plan' /\ s \in Seq(Events)
  BY DEF Fits, Tale, Items, Tales
<1>2. CASE s = <<>>
  BY <1>2 DEF CallIsShownInOrder
<1>3. CASE s # <<>>
  <2>1. PICK n \in DOMAIN D : D[n].call = i
    BY <1>1, <1>3 DEF AllShown
  <2>2. ShownFits(s, D[n]) /\ Flags(D[n])
    BY <1>1, <2>1 DEF AllShown, DraftsFit, DraftFits
  <2>3. sent'[i].done => D[n].completed
    BY <2>1 DEF WholeDrafts
  <2> DEFINE d == D[n]
  <2> HIDE DEF s, d
  <2>4. /\ {k \in DOMAIN s : s[k].type = "start"} = {1}
        /\ Cardinality({k \in DOMAIN s : s[k].type = "end"}) <= 1
        /\ {k \in DOMAIN s : s[k].type = "complete"} \subseteq {Len(s)}
        /\ \A k \in DOMAIN s : s[k].type = "end" =>
             k = Len(s) \/ (k + 1 \in DOMAIN s /\ s[k + 1].type = "complete")
        /\ d.completed => /\ {k \in DOMAIN s : s[k].type = "complete"} # {}
                          /\ {k \in DOMAIN s : s[k].type = "end"} # {}
    BY <1>1, <1>3, <2>2, SeenInOrder DEF d
  <2> QED
    BY <2>3, <2>4 DEF CallIsShownInOrder, s, d
<1> QED
  BY <1>2, <1>3

LEMMA TextEndsKept ==
  ASSUME NEW D, NEW F, Fits(plan', style', Tale', D, Done("text")', F), message'.open = <<>>,
         \A i \in Items' : sent'[i].done
  PROVE  TextIsKept'
<1> DEFINE parts == message'.parts
<1>1. \A i \in Done("text")' : TextFits(parts, <<>>, i)
  BY DEF Fits, MessageFits, Tale
<1> SUFFICES ASSUME NEW i \in Items', plan'[i] = "text"
             PROVE  \E k \in {n \in DOMAIN parts : parts[n].kind = "text"} :
                       /\ Fragment(i, 1) \in Range(parts[k].data)
                       /\ \A j \in Items' : \A n \in PartsOf(message, "call", j)' : (j < i) <=> (n < k)
  BY DEF TextIsKept, Fragment
<1>2. i \in Done("text")'
  BY DEF Done
<1>3. PICK k \in DOMAIN parts : parts[k].kind = "text" /\ Holds(parts[k].data, i) /\ IsBetween(parts, k, i)
  BY <1>1, <1>2 DEF TextFits, Holds
<1>4. Fragment(i, 1) \in Range(parts[k].data)
  BY <1>3 DEF Holds, Range
<1>5. ASSUME NEW j \in Items', NEW n \in PartsOf(message, "call", j)'
      PROVE  (j < i) <=> (n < k)
  <2>1. n \in CallParts(parts) /\ parts[n].id = j
    BY <1>5 DEF PartsOf, CallParts
  <2>2. parts[n].id < i <=> n < k
    BY <1>3, <2>1 DEF IsBetween
  <2> QED
    BY <2>1, <2>2
<1> QED
  BY <1>3, <1>4, <1>5

LEMMA ReasoningEndsReplayed ==
  ASSUME NEW D, Fits(plan', style', Tale', D, Done("text")', Done("reasoning")'), message'.open = <<>>,
         WholeDrafts(plan', sent', ending', D), \A i \in Items' : sent'[i].done,
         NEW i \in Items', plan'[i] = "reasoning", Items' \subseteq Nat, None # "final",
         \A j \in Items' : plan'[j] \in {"call", "reasoning", "text"}
  PROVE  ReasoningIsReplayed(i)'
<1> DEFINE parts == message'.parts
           mine == {k \in Replayed' : parts[k].id[1] = i}
<1>1. /\ CallsFit(parts, D) /\ ThoughtsFit(plan', style', parts)
      /\ \A j \in Done("text")' : TextFits(parts, <<>>, j)
      /\ \A j \in Done("reasoning")' : IsFinal(parts, j)
  BY DEF Fits, MessageFits, Tale
<1>2. \A k \in mine : k \in Thinking(parts) /\ parts[k].id[1] = i
  BY DEF Replayed, Thinking
<1>3. ASSUME NEW j \in Items', j > i, NEW k \in Thinking(parts), parts[k].id[1] = i, parts[k].mark # None,
             plan'[j] # "reasoning"
      PROVE  k \in mine
  <2>1. parts[k].id[1] < j
    BY <1>3
  <2>2. CASE plan'[j] = "call"
    <3>1. PICK n \in DOMAIN D : D[n].call = j /\ IsWhole(D[n])
      BY <2>2 DEF WholeDrafts, Items
    <3>2. D[n].started
      BY <3>1 DEF WholeDrafts, IsWhole
    <3>3. PICK m \in CallParts(parts) : PartFits(parts[m], D[n])
      BY <1>1, <3>2 DEF CallsFit
    <3>4. parts[m].id = j /\ parts[m].kind = "call" /\ m \in DOMAIN parts
      BY <3>1, <3>3 DEF PartFits, Part, CallParts
    <3>5. k < m
      BY <1>1, <2>1, <3>3, <3>4 DEF ThoughtsFit
    <3>6. k \in Replayed'
      BY <1>3, <3>4, <3>5 DEF Replayed, Thinking
    <3> QED
      BY <1>3, <3>6
  <2>3. CASE plan'[j] = "text"
    <3>1. j \in Done("text")'
      BY <2>3 DEF Done
    <3>2. PICK m \in DOMAIN parts : parts[m].kind = "text" /\ IsBetween(parts, m, j)
      BY <1>1, <3>1 DEF TextFits, Holds
    <3>3. k < m
      BY <1>3, <2>1, <3>2 DEF IsBetween
    <3>4. k \in Replayed'
      BY <1>3, <3>2, <3>3 DEF Replayed, Thinking
    <3> QED
      BY <1>3, <3>4
  <2> QED
    BY <1>3, <2>2, <2>3
<1>4. PICK f \in Thinking(parts) : parts[f].id[1] = i /\ parts[f].mark = "final"
  <2>1. i \in Done("reasoning")'
    BY DEF Done
  <2> QED
    BY <1>1, <2>1 DEF IsFinal
<1>5. style' # "indexed" => \A j, k \in mine : j = k
  <2> SUFFICES ASSUME style' # "indexed", NEW j \in mine, NEW k \in mine PROVE j = k
    OBVIOUS
  <2>1. \A n \in mine : parts[n].id = <<i, "id">>
    <3> TAKE n \in mine
    <3>1. PICK x \in DOMAIN plan', c \in Chunks : parts[n].id = <<x, c>> /\ c = "id"
      BY <1>1, <1>2 DEF ThoughtsFit
    <3>2. x = i
      BY <1>2, <3>1
    <3> QED
      BY <3>1, <3>2
  <2> QED
    BY <1>1, <1>2, <2>1 DEF ThoughtsFit
<1> SUFFICES ASSUME NEW j \in Items', j > i, plan'[j] # "reasoning"
             PROVE  /\ \E k \in mine : parts[k].mark = "final"
                    /\ style' # "indexed" => Cardinality(mine) = 1
                    /\ \A k \in mine, n \in PartsOf(message, "call", j)' : k < n
  BY DEF ReasoningIsReplayed
<1>6. f \in mine
  BY <1>3, <1>4
<1>7. style' # "indexed" => Cardinality(mine) = 1
  <2> HIDE DEF mine
  <2> QED
    BY <1>5, <1>6, AtMostOne
<1>8. ASSUME NEW k \in mine, NEW n \in PartsOf(message, "call", j)' PROVE k < n
  <2>1. n \in CallParts(parts) /\ parts[n].id = j
    BY <1>8 DEF PartsOf, CallParts
  <2>2. k \in Thinking(parts) /\ parts[k].id[1] < parts[n].id
    BY <1>2, <2>1
  <2> QED
    BY <1>1, <2>1, <2>2 DEF ThoughtsFit
<1> QED
  BY <1>4, <1>6, <1>7, <1>8

-----------------------------------------------------------------------------
(* The steps that end the response or the stream. *)

LEMMA ClosingTyped ==
  /\ Event("text end", 0, <<>>, None) \in Events /\ Closes(Event("text end", 0, <<>>, None))
  /\ Event("finish", 0, <<>>, None) \in Events /\ Closes(Event("finish", 0, <<>>, None))
  /\ Event("error", 0, <<>>, None) \in Events /\ Closes(Event("error", 0, <<>>, None))
<1>1. <<>> \in Texts /\ 0 \in Ids /\ None \in Marks
  BY DEF Texts, Ids, Marks
<1>2. {"text end", "finish", "error"} \subseteq Types
  BY DEF Types
<1>3. \A type \in Types : Event(type, 0, <<>>, None) \in Events
  BY <1>1, EventTyped
<1>4. \A type \in {"text end", "finish", "error"} : Closes(Event(type, 0, <<>>, None))
  BY DEF Closes, Event
<1> QED
  BY <1>2, <1>3, <1>4

\* The last events, with or without the completions of the drafts and a last one.
LEMMA LastEvents ==
  ASSUME ResponseAssumption, StreamTyped, Streaming,
         NEW D, NEW between, \/ D = drafts /\ between = <<>>
                             \/ D = AllCompleted /\ between = AllCompletions,
         NEW last, last \in {<<>>, <<Event("finish", 0, <<>>, None)>>}
  PROVE  LET events == <<Event("text end", 0, <<>>, None)>> \o between \o last
         IN /\ events \in Seq(Events)
            /\ Fits(plan, style, Told(Tale, events), D, Done("text"), Done("reasoning"))
            /\ Told(Tale, events).message.open = <<>>
<1> DEFINE e == Event("text end", 0, <<>>, None)
           f == Event("finish", 0, <<>>, None)
           T == Done("text")
           F == Done("reasoning")
           v1 == Told(Tale, <<e>>)
           v2 == Told(v1, between)
           v3 == Told(v2, last)
<1>1. DOMAIN plan \subseteq Nat /\ T \subseteq Nat /\ Items = DOMAIN plan
  BY ItemsTyped
<1>2. Fits(plan, style, Tale, drafts, T, F) /\ Tale \in Tales(Items)
  BY DEF Streaming, StreamTyped
<1>3. e \in Events /\ Closes(e) /\ f \in Events /\ Closes(f)
  BY ClosingTyped
<1> HIDE DEF e, f, T, F
<1>4. Fits(plan, style, v1, drafts, T, F) /\ v1.message.open = <<>>
  BY <1>1, <1>2, <1>3, CloseFits
<1> HIDE DEF v1
<1>5. v1 \in Tales(Items)
  BY <1>1, <1>4 DEF Fits
<1>6. Fits(plan, style, v2, D, T, F) /\ v2.message.open = <<>> /\ between \in Seq(Events)
  <2>1. CASE D = drafts /\ between = <<>>
    <3>1. v2 = v1
      BY <1>5, <2>1, ToldNone
    <3> QED
      BY <1>4, <2>1, <3>1
  <2>2. CASE D = AllCompleted /\ between = AllCompletions
    <3>1. \A n \in DOMAIN drafts : drafts[n].named => drafts[n].started
      BY DEF Streaming, DraftsKnow, DraftKnows
    <3>2. /\ Fits(plan, style, Told(v1, AllCompletions), AllCompleted, T, F)
          /\ Told(v1, AllCompletions).message.open = v1.message.open
          /\ AllCompletions \in Seq(Events)
      BY <1>1, <1>4, <3>1, AllCompletionsFit
    <3> QED
      BY <1>4, <2>2, <3>2
  <2> QED
    BY <2>1, <2>2
<1> HIDE DEF v2
<1>7. v2 \in Tales(Items)
  BY <1>1, <1>6 DEF Fits
<1>8. Fits(plan, style, v3, D, T, F) /\ v3.message.open = <<>> /\ last \in Seq(Events)
  <2>1. CASE last = <<>>
    <3>1. v3 = v2
      BY <1>7, <2>1, ToldNone
    <3> QED
      BY <1>6, <2>1, <3>1
  <2>2. CASE last = <<f>>
    <3>1. Fits(plan, style, Told(v2, <<f>>), D, T, F) /\ Told(v2, <<f>>).message.open = <<>>
      BY <1>1, <1>3, <1>6, CloseFits
    <3>2. <<f>> \in Seq(Events)
      BY <1>3
    <3> QED
      BY <2>2, <3>1, <3>2
  <2> QED
    BY <2>1, <2>2 DEF f
<1>9. <<e>> \in Seq(Events)
  BY <1>3
<1>10. Told(Tale, <<e>> \o between \o last) = v3
  <2>1. Told(Tale, <<e>> \o between \o last) = Told(Told(Told(Tale, <<e>>), between), last)
    <3>1. <<e>> \in Seq(Events) /\ between \in Seq(Events) /\ last \in Seq(Events) /\ Tale \in Tales(Items)
      BY <1>2, <1>6, <1>8, <1>9
    <3>2. \A s \in Seq(Events) : Told(Tale, s \o between \o last) = Told(Told(Told(Tale, s), between), last)
      BY <3>1, ToldThree
    <3> QED
      BY <3>1, <3>2
  <2> QED
    BY <2>1 DEF v1, v2
<1>11. <<e>> \o between \o last \in Seq(Events)
  BY <1>6, <1>8, <1>9
<1> QED
  BY <1>8, <1>10, <1>11 DEF e, T, F

LEMMA FailStep ==
  ASSUME ResponseAssumption, StreamInv, Fail
  PROVE  StreamInv'
<1> DEFINE e == Event("error", 0, <<>>, None)
           T == Done("text")
           F == Done("reasoning")
<1>1. /\ over = "no" /\ ending = "open" /\ ending' = "failed" /\ Emit(<<e>>)
      /\ UNCHANGED <<plan, style, sent, drafts, alias, thoughts, over>>
  BY DEF Fail, Stream
<1>2. StreamTyped /\ Streaming /\ Tale \in Tales(Items)
  BY <1>1 DEF StreamInv, StreamTyped
<1>3. DOMAIN plan \subseteq Nat /\ T \subseteq Nat /\ Items = DOMAIN plan
  BY <1>2, ItemsTyped
<1>4. Fits(plan, style, Tale, drafts, T, F)
  BY <1>2 DEF Streaming
<1>5. e \in Events /\ Closes(e)
  BY ClosingTyped
<1>6. <<e>> \in Seq(Events)
  BY <1>5
<1>7. T' = T /\ F' = F /\ Items' = Items
  BY <1>1 DEF Done, Items
<1> HIDE DEF e, T, F
<1>8. Fits(plan, style, Told(Tale, <<e>>), drafts, T, F)
  BY <1>3, <1>4, <1>5, CloseFits
<1>9. Tale' = Told(Tale, <<e>>)
  BY <1>1, <1>2, <1>6, EmitTale
<1>10. Fits(plan, style, Tale, drafts, T, F)'
  BY <1>1, <1>7, <1>8, <1>9
<1>11. Tale' \in Tales(Items')
  BY <1>3, <1>7, <1>8, <1>9 DEF Fits
<1>12. DraftsKnow' /\ DoneIsWhole' /\ AliasFits' /\ SentInOrder'
  <2>1. DraftsKnow'
    BY <1>1, <1>2 DEF Streaming, DraftsKnow, DraftKnows, Unsent
  <2>2. DoneIsWhole'
    BY <1>1, <1>2 DEF Streaming, DoneIsWhole, Done, IsWhole, Items
  <2>3. AliasFits'
    BY <1>1, <1>2 DEF Streaming, AliasFits, KeysOf, Items
  <2>4. SentInOrder'
    BY <1>1, <1>2 DEF Streaming, SentInOrder, InOrder, Items, Unsent
  <2> QED
    BY <2>1, <2>2, <2>3, <2>4
<1>13. StreamTyped'
  BY <1>1, <1>2, <1>7, <1>11 DEF StreamTyped
<1> QED
  BY <1>1, <1>10, <1>12, <1>13 DEF StreamInv, Streaming, T, F

LEMMA AllCompletedKept ==
  ASSUME DraftsFit(plan, drafts)
  PROVE  /\ DOMAIN AllCompleted = DOMAIN drafts
         /\ \A n \in DOMAIN drafts :
               LET d == drafts[n]
                   c == AllCompleted[n]
               IN /\ c.call = d.call /\ c.named = d.named /\ c.final = d.final /\ c.completed
                  /\ d.started = d.named => c.started = c.named
                  /\ IsWhole(d) => IsWhole(c)
<1>1. DOMAIN AllCompleted = DOMAIN drafts /\ \A n \in DOMAIN drafts : AllCompleted[n] = Completed(drafts[n])
  BY DEF AllCompleted
<1>2. ASSUME NEW d \in Drafts
      PROVE  LET c == Completed(d)
             IN /\ c.call = d.call /\ c.named = d.named /\ c.final = d.final /\ c.completed
                /\ d.started = d.named => c.started = c.named
                /\ IsWhole(d) => IsWhole(c)
  BY DEF Completed, Drafts, IsWhole
<1>3. \A n \in DOMAIN drafts : drafts[n] \in Drafts
  BY DEF DraftsFit
<1> QED
  BY <1>1, <1>2, <1>3

LEMMA FinishStep ==
  ASSUME ResponseAssumption, StreamInv, Finish
  PROVE  StreamInv'
<1> DEFINE events == <<Event("text end", 0, <<>>, None)>> \o AllCompletions \o <<Event("finish", 0, <<>>, None)>>
           T == Done("text")
           F == Done("reasoning")
<1>1. /\ over = "no" /\ ending = "open" /\ ending' \in {"incomplete", "completed"} /\ Emit(events)
      /\ ending' = "completed" => \A i \in Items : sent[i].done
      /\ drafts' = AllCompleted /\ thoughts' = <<>>
      /\ UNCHANGED <<plan, style, sent, alias, over>>
  BY DEF Finish, Stream
<1>2. StreamTyped /\ Streaming /\ Tale \in Tales(Items) /\ DraftsFit(plan, drafts)
  BY <1>1 DEF StreamInv, StreamTyped, Streaming, Fits
<1>3. T' = T /\ F' = F /\ Items' = Items
  BY <1>1 DEF Done, Items
<1>4. events \in Seq(Events) /\ Fits(plan, style, Told(Tale, events), AllCompleted, T, F)
  BY <1>2, LastEvents
<1> HIDE DEF events, T, F
<1>5. Tale' = Told(Tale, events)
  BY <1>1, <1>2, <1>4, EmitTale
<1>6. Fits(plan, style, Tale, drafts, T, F)'
  BY <1>1, <1>3, <1>4, <1>5
<1>7. Tale' \in Tales(Items')
  BY <1>3, <1>4, <1>5 DEF Fits, Items
<1>8. /\ DOMAIN drafts' = DOMAIN drafts
      /\ \A n \in DOMAIN drafts :
            /\ drafts'[n].call = drafts[n].call /\ drafts'[n].named = drafts[n].named /\ drafts'[n].completed
            /\ drafts[n].started = drafts[n].named => drafts'[n].started = drafts'[n].named
            /\ IsWhole(drafts[n]) => IsWhole(drafts'[n])
  BY <1>1, <1>2, AllCompletedKept
<1>9. DraftsKnow'
  <2> SUFFICES ASSUME NEW n \in DOMAIN drafts PROVE DraftKnows(drafts[n])'
    BY <1>8 DEF DraftsKnow
  <2>1. DraftKnows(drafts[n])
    BY <1>2 DEF Streaming, DraftsKnow
  <2> QED
    BY <1>1, <1>8, <2>1 DEF DraftKnows, Unsent
<1>10. DoneIsWhole'
  <2>1. Done("call")' = Done("call")
    BY <1>1 DEF Done, Items
  <2> QED
    BY <1>2, <1>8, <2>1 DEF Streaming, DoneIsWhole, IsWhole
<1>11. AliasFits'
  BY <1>1, <1>2, <1>8, AliasesKept DEF Streaming
<1>12. SentInOrder'
  BY <1>1, <1>2 DEF Streaming, SentInOrder, InOrder, Items, Unsent
<1>13. StreamTyped'
  BY <1>1, <1>2, <1>3, <1>7 DEF StreamTyped
<1> QED
  BY <1>1, <1>6, <1>9, <1>10, <1>11, <1>12, <1>13 DEF StreamInv, Streaming, T, F

\* A message of no parts.
LEMMA BlankTyped == Blank \in Messages
<1>1. <<>> \in Seq(Parts) /\ <<>> \in Texts
  BY DEF Texts
<1> QED
  BY <1>1 DEF Blank, Messages

LEMMA BreakStep ==
  ASSUME ResponseAssumption, StreamInv, Break
  PROVE  StreamInv'
<1>1. /\ over' = "dropped" /\ drafts' = <<>> /\ alias' = <<>> /\ thoughts' = <<>> /\ message' = Blank
      /\ UNCHANGED <<plan, style, sent, ending, shown>>
  BY DEF Break, Stream, Gone
<1>2. StreamTyped /\ shown \in [Items -> Seq(Events)]
  BY DEF StreamInv, StreamTyped, Tale, Tales
<1>3. Items' = Items /\ Tale' \in Tales(Items)
  BY <1>1, <1>2, BlankTyped DEF Items, Tale, Tales
<1>4. StreamTyped'
  BY <1>1, <1>2, <1>3 DEF StreamTyped
<1> QED
  BY <1>1, <1>4 DEF StreamInv

\* The drafts at the end.
LEMMA DraftsEndWhole ==
  ASSUME StreamTyped, Streaming,
         NEW D, IF ending = "failed" THEN D = drafts ELSE D = AllCompleted
  PROVE  WholeDrafts(plan, sent, ending, D)
<1>1. DraftsFit(plan, drafts)
  BY DEF Streaming, Fits
<1>2. \A n \in DOMAIN drafts : DraftKnows(drafts[n]) /\ drafts[n].call \in Items /\ drafts[n] \in Drafts
                               /\ plan[drafts[n].call] = "call"
  BY <1>1 DEF Streaming, DraftsKnow, DraftsFit, DraftFits, Items
<1>3. ASSUME NEW i \in Items, plan[i] = "call", sent[i].done
      PROVE  \E n \in DOMAIN drafts : drafts[n].call = i /\ IsWhole(drafts[n])
  BY <1>3 DEF Streaming, DoneIsWhole, Done
<1>4. CASE ending = "failed"
  <2>1. D = drafts
    BY <1>4
  <2>2. ASSUME NEW n \in DOMAIN drafts
        PROVE  drafts[n].completed <=> sent[drafts[n].call].done
    <3>1. drafts[n].completed => sent[drafts[n].call].done
      BY <1>2, <1>4 DEF DraftKnows
    <3>2. ASSUME sent[drafts[n].call].done PROVE drafts[n].completed
      <4>1. PICK k \in DOMAIN drafts : drafts[k].call = drafts[n].call /\ IsWhole(drafts[k])
        BY <1>2, <1>3, <3>2
      <4>2. k = n
        BY <1>1, <4>1 DEF DraftsFit
      <4> QED
        BY <4>1, <4>2 DEF IsWhole
    <3> QED
      BY <3>1, <3>2
  <2> QED
    BY <1>2, <1>3, <1>4, <2>1, <2>2 DEF WholeDrafts, DraftKnows, Items
<1>5. CASE ending # "failed"
  <2>1. D = AllCompleted
    BY <1>5
  <2>2. /\ DOMAIN D = DOMAIN drafts
        /\ \A n \in DOMAIN drafts :
              /\ D[n].call = drafts[n].call /\ D[n].completed
              /\ drafts[n].started = drafts[n].named => D[n].started = D[n].named
              /\ IsWhole(drafts[n]) => IsWhole(D[n])
    BY <1>1, <2>1, AllCompletedKept
  <2>3. \A n \in DOMAIN D : D[n].started = D[n].named /\ D[n].completed
    BY <1>2, <2>2 DEF DraftKnows
  <2>4. \A i \in DOMAIN plan : plan[i] = "call" /\ sent[i].done =>
          \E n \in DOMAIN D : D[n].call = i /\ IsWhole(D[n])
    BY <1>3, <2>2 DEF Items
  <2> QED
    BY <1>5, <2>3, <2>4 DEF WholeDrafts
<1> QED
  BY <1>4, <1>5

LEMMA CloseStep ==
  ASSUME ResponseAssumption, StreamInv, Close
  PROVE  StreamInv'
<1> DEFINE failed == ending = "failed"
           between == IF failed THEN <<>> ELSE AllCompletions
           last == IF ending = "open" THEN <<Event("finish", 0, <<>>, None)>> ELSE <<>>
           events == <<Event("text end", 0, <<>>, None)>> \o between \o last
           D == IF failed THEN drafts ELSE AllCompleted
           T == Done("text")
           F == Done("reasoning")
<1>1. /\ over = "no" /\ over' \in {"none", "stored"} /\ Emit(events)
      /\ drafts' = <<>> /\ alias' = <<>> /\ thoughts' = <<>>
      /\ UNCHANGED <<plan, style, sent, ending>>
  BY DEF Close, Stream, Gone
<1>2. StreamTyped /\ Streaming /\ Tale \in Tales(Items)
  BY <1>1 DEF StreamInv, StreamTyped
<1>3. T' = T /\ F' = F /\ Items' = Items
  BY <1>1 DEF Done, Items
<1>4. /\ events \in Seq(Events) /\ Fits(plan, style, Told(Tale, events), D, T, F)
      /\ Told(Tale, events).message.open = <<>>
  <2>1. (D = drafts /\ between = <<>>) \/ (D = AllCompleted /\ between = AllCompletions)
    OBVIOUS
  <2>2. last \in {<<>>, <<Event("finish", 0, <<>>, None)>>}
    OBVIOUS
  <2> HIDE DEF D, between, last, T, F
  <2> QED
    BY <1>2, <2>1, <2>2, LastEvents DEF T, F
<1>5. WholeDrafts(plan, sent, ending, D)
  BY <1>2, DraftsEndWhole
<1> HIDE DEF events, D, T, F
<1>6. Tale' = Told(Tale, events)
  BY <1>1, <1>2, <1>4, EmitTale
<1>7. Tale' \in Tales(Items')
  BY <1>3, <1>4, <1>6 DEF Fits, Items
<1>8. StreamTyped'
  BY <1>1, <1>2, <1>3, <1>7 DEF StreamTyped
<1>9. MessageIsWhole'
  <2>1. Fits(plan', style', Tale', D, T', F') /\ message'.open = <<>>
    BY <1>1, <1>3, <1>4, <1>6 DEF Tale
  <2>2. WholeDrafts(plan', sent', ending', D)
    BY <1>1, <1>5
  <2>3. /\ Items' \subseteq Nat /\ None # "final"
        /\ \A i \in Items' : plan'[i] \in {"call", "reasoning", "text"} /\ None # Whole(i)
    BY <1>1, <1>2, <1>3, ItemsTyped
  <2>4. ASSUME NEW i \in Items', plan'[i] = "call"
        PROVE  CallIsWhole(i)' /\ CallIsShownInOrder(i)'
    BY <2>1, <2>2, <2>3, <2>4, CallEndsWhole, CallEndsInOrder
  <2>5. ASSUME ending' = "completed"
        PROVE  TextIsKept' /\ \A i \in Items' : plan'[i] = "reasoning" => ReasoningIsReplayed(i)'
    <3>1. \A i \in Items' : sent'[i].done
      BY <1>1, <1>2, <1>3, <2>5 DEF Streaming, SentInOrder
    <3>2. Fits(plan', style', Tale', D, Done("text")', Done("reasoning")')
      BY <2>1 DEF T, F
    <3> QED
      BY <2>1, <2>2, <2>3, <3>1, <3>2, TextEndsKept, ReasoningEndsReplayed
  <2> QED
    BY <2>1, <2>4, <2>5 DEF MessageIsWhole
<1> QED
  BY <1>1, <1>8, <1>9 DEF StreamInv

-----------------------------------------------------------------------------
(* Every message that is stored is whole. *)

LEMMA StreamInit ==
  ASSUME ResponseAssumption, Init
  PROVE  StreamInv
<1>1. /\ plan \in Plans /\ style \in Styles /\ sent = [i \in Items |-> Unsent]
      /\ ending = "open" /\ over = "no" /\ drafts = <<>> /\ alias = <<>> /\ thoughts = <<>>
      /\ shown = [i \in Items |-> <<>>] /\ message = Blank
  BY DEF Init, Items
<1>2. Tale \in Tales(Items)
  BY <1>1, BlankTyped DEF Tale, Tales
<1>3. Unsent \in Sents /\ ~Unsent.done
  BY DEF Unsent, Sents
<1>4. StreamTyped
  BY <1>1, <1>2, <1>3 DEF StreamTyped
<1>5. Done("text") = {} /\ Done("reasoning") = {} /\ Done("call") = {}
  BY <1>1, <1>3 DEF Done
<1>6. Fits(plan, style, Tale, drafts, {}, {})
  <2>1. DraftsFit(plan, drafts)
    BY <1>1 DEF DraftsFit
  <2>2. AllShown(plan, shown, drafts)
    BY <1>1 DEF AllShown, Items
  <2>3. message.parts = <<>> /\ message.open = <<>>
    BY <1>1 DEF Blank
  <2>4. MessageFits(plan, style, <<>>, <<>>, <<>>, {}, {})
    BY DEF MessageFits, CallsFit, ThoughtsFit, CallParts, Thinking
  <2> QED
    BY <1>1, <1>2, <2>1, <2>2, <2>3, <2>4 DEF Fits, Tale, Items
<1>7. DraftsKnow /\ DoneIsWhole /\ AliasFits /\ SentInOrder
  BY <1>1, <1>5 DEF DraftsKnow, DoneIsWhole, AliasFits, SentInOrder, InOrder
<1> QED
  BY <1>1, <1>4, <1>5, <1>6, <1>7 DEF StreamInv, Streaming

LEMMA StreamStep ==
  ASSUME ResponseAssumption, StreamInv, [Next]_vars
  PROVE  StreamInv'
<1>1. CASE Next
  <2>1. ASSUME NEW i \in Items, CallDone(i) PROVE StreamInv'
    BY <2>1, CallDoneStep
  <2>2. ASSUME NEW i \in Items, ArgumentsDelta(i) PROVE StreamInv'
    BY <2>2, ArgumentsDeltaStep
  <2>3. ASSUME NEW i \in Items, ArgumentsDone(i) PROVE StreamInv'
    BY <2>3, ArgumentsDoneStep
  <2>4. ASSUME NEW i \in Items, TextDelta(i) PROVE StreamInv'
    BY <2>4, TextDeltaStep
  <2>5. ASSUME NEW i \in Items, ReasoningDelta(i) PROVE StreamInv'
    BY <2>5, ReasoningDeltaStep
  <2>6. ASSUME NEW i \in Items, ReasoningPartDone(i) PROVE StreamInv'
    BY <2>6, ReasoningPartDoneStep
  <2>7. ASSUME NEW i \in Items, ReasoningDone(i) PROVE StreamInv'
    BY <2>7, ReasoningDoneStep
  <2>8. ASSUME NEW i \in Items, NEW named \in BOOLEAN, CallAdded(i, named) PROVE StreamInv'
    BY <2>8, CallAddedStep
  <2>9. ASSUME NEW i \in Items, NEW encrypted \in {None, "early"}, ReasoningAdded(i, encrypted) PROVE StreamInv'
    BY <2>9, ReasoningAddedStep
  <2>10. CASE Finish \/ Fail \/ Close \/ Break
    BY <2>10, FinishStep, FailStep, CloseStep, BreakStep
  <2> QED
    BY <1>1, <2>1, <2>2, <2>3, <2>4, <2>5, <2>6, <2>7, <2>8, <2>9, <2>10 DEF Next
<1>2. CASE UNCHANGED vars
  <2>1. UNCHANGED <<plan, style, sent, ending, drafts, alias, thoughts, message, shown, over>>
    BY <1>2 DEF vars
  <2>2. Items' = Items /\ Tale' = Tale /\ \A kind : Done(kind)' = Done(kind)
    BY <2>1 DEF Items, Tale, Done
  <2>3. StreamTyped <=> StreamTyped'
    BY <2>1, <2>2 DEF StreamTyped
  <2>4. Streaming <=> Streaming'
    BY <2>1, <2>2 DEF Streaming, DraftsKnow, DraftKnows, DoneIsWhole, AliasFits, SentInOrder, InOrder,
         KeysOf, IsWhole, Unsent
  <2>5. MessageIsWhole <=> MessageIsWhole'
    BY <2>1, <2>2 DEF MessageIsWhole, CallIsWhole, CallIsShownInOrder, TextIsKept, ReasoningIsReplayed,
         Replayed, PartsOf
  <2> QED
    BY <2>1, <2>3, <2>4, <2>5 DEF StreamInv
<1> QED
  BY <1>1, <1>2

\* The drafts of the adapter tell of the message and of what was seen after every chunk.
THEOREM DraftsTellTheMessage ==
    ASSUME ResponseAssumption
    PROVE  Spec => []StreamInv
BY StreamInit, StreamStep, PTL DEF Spec

\* A message that is stored has what the provider sent, in its order, each call once.
THEOREM StoredMessageIsWhole ==
    ASSUME ResponseAssumption
    PROVE  Init /\ [][Next]_vars => []MessageIsWhole
<1>1. ASSUME StreamInv PROVE MessageIsWhole
  BY <1>1 DEF StreamInv, MessageIsWhole
<1> QED
  BY <1>1, StreamInit, StreamStep, PTL

\* Every variable keeps its type, for any plan of a response.
THEOREM ResponseTyped ==
    ASSUME ResponseAssumption
    PROVE  Init /\ [][Next]_vars => []TypeOK
<1>1. ASSUME StreamInv PROVE TypeOK
  <2>1. /\ plan \in Plans /\ style \in Styles /\ sent \in [Items -> Sents]
        /\ ending \in {"open", "completed", "incomplete", "failed"}
        /\ over \in {"no", "stored", "dropped", "none"}
        /\ \A id \in DOMAIN thoughts : thoughts[id].active \in BOOLEAN
    BY <1>1 DEF StreamInv, StreamTyped
  <2>2. \A i \in Items : sent[i].fragments \in 0..2
    BY <2>1 DEF Sents
  <2>3. message \in Messages
    BY <1>1 DEF StreamInv, StreamTyped, Tale, Tales
  <2>4. /\ message.status \in {"running", "complete", "error"}
        /\ \A k \in DOMAIN message.parts : message.parts[k].kind \in {"text", "call", "reasoning", "error"}
    <3>1. message.parts \in Seq(Parts) /\ message.status \in {"running", "complete", "error"}
      BY <2>3 DEF Messages
    <3>2. \A k \in DOMAIN message.parts : message.parts[k] \in Parts
      BY <3>1
    <3> QED
      BY <3>1, <3>2 DEF Parts, Kinds
  <2>5. \A k \in DOMAIN drafts : drafts[k].call \in Items /\ drafts[k].final \in {None, Whole(drafts[k].call)}
    <3>1. CASE over = "no"
      BY <1>1, <3>1 DEF StreamInv, Streaming, Fits, DraftsFit, DraftFits, Items
    <3>2. CASE over # "no"
      BY <1>1, <3>2 DEF StreamInv
    <3> QED
      BY <3>1, <3>2
  <2>6. \A key \in DOMAIN alias : alias[key] \in DOMAIN drafts
    BY <1>1 DEF StreamInv, Streaming, AliasFits
  <2> QED
    BY <2>1, <2>2, <2>4, <2>5, <2>6 DEF TypeOK
<1> QED
  BY <1>1, StreamInit, StreamStep, PTL
=============================================================================
