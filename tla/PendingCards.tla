---------------------------- MODULE PendingCards ----------------------------
(***************************************************************************)
(* The card of one session: a question or a permission request a run       *)
(* stopped on, kept in session metadata, and the answers to it             *)
(* (src/src/gateway/runtime_api.py, the respond endpoints and              *)
(* _resume_chat_after_user_input).                                         *)
(*                                                                         *)
(* A respond handler reads the session in a worker thread (Read) and then  *)
(* decides without suspending (Respond): it claims the request id, retires *)
(* the card and starts a run that resumes the turn.  The resumed run       *)
(* records what it stops on next (Record), finishes and releases the claim *)
(* (EndRun).  A request that is asked again keeps its id.                  *)
(***************************************************************************)
EXTENDS Naturals

CONSTANTS Answers,   \* calls of the respond endpoints
          Ids,       \* request ids
          KindOf,    \* [Ids -> Kinds]
          NoId,      \* the id of an answer that names none
          MaxRaised  \* cards raised (a bound)

Kinds == {"question", "permission"}

ASSUME CardsAssumption ==
    /\ KindOf \in [Ids -> Kinds]
    /\ NoId \notin Ids
    /\ MaxRaised \in Nat

VARIABLES card,    \* the card in session metadata; no tells one raising from another
          raised,  \* cards raised so far
          claims,  \* _CLAIMED_PENDING_REQUESTS of the session
          answer   \* the handlers, and the runs they start

vars == <<card, raised, claims, answer>>

NoCard == [id |-> NoId, no |-> 0]

Idle == [pc |-> "idle", kind |-> "question", key |-> NoId, card |-> NoCard]

InFlight == {a \in Answers : answer[a].pc \in {"running", "recorded"}}

-----------------------------------------------------------------------------
Goes(a, to) == answer' = [answer EXCEPT ![a] = [@ EXCEPT !.pc = to]]

\* record_runtime_result: the session has the card the run stopped on, or none.
Recorded ==
    \/ card' = NoCard /\ UNCHANGED raised
    \/ /\ raised < MaxRaised
       /\ raised' = raised + 1
       /\ \E id \in Ids : card' = [id |-> id, no |-> raised + 1]

\* A chat run of the session ends.
ChatRecords == Recorded /\ UNCHANGED <<claims, answer>>

\* A question is answered at one endpoint and a permission at another.
Read(a) ==
    /\ answer[a].pc = "idle"
    /\ \E kind \in Kinds, key \in Ids \cup {NoId} :
          answer' = [answer EXCEPT ![a] =
             [pc |-> "read", kind |-> kind, key |-> key,
              card |-> IF card # NoCard /\ KindOf[card.id] = kind THEN card ELSE NoCard]]
    /\ UNCHANGED <<card, raised, claims>>

Matches(a) ==
    /\ answer[a].card # NoCard
    /\ answer[a].key \in {NoId, answer[a].card.id}

\* Variant: nothing is claimed.
Unclaimed(a) == claims

Claimed(a) == claims \cup {answer[a].key}

\* _retire_pending_request: the card of this kind leaves the session.  Failing to
\* write is not an error.
Retired(kind) ==
    \/ card' = IF card # NoCard /\ KindOf[card.id] = kind THEN NoCard ELSE card
    \/ card' = card

Respond(a) ==
    /\ answer[a].pc = "read"
    /\ UNCHANGED raised
    /\ \/ ~Matches(a) /\ Goes(a, "over") /\ UNCHANGED <<card, claims>>
       \/ Matches(a) /\ answer[a].key \in claims /\ Goes(a, "over") /\ UNCHANGED <<card, claims>>
       \/ /\ Matches(a) /\ answer[a].key \notin claims
          /\ Retired(answer[a].kind)
          /\ \/ Goes(a, "running") /\ claims' = Claimed(a)
             \/ Goes(a, "over") /\ UNCHANGED claims  \* the run could not be started

Record(a) ==
    /\ answer[a].pc = "running"
    /\ Goes(a, "recorded")
    /\ Recorded
    /\ UNCHANGED claims

\* Variant: a run that has recorded its result keeps its claim.
ReleasedOnFailure(a) ==
    IF answer[a].pc = "recorded" THEN claims ELSE claims \ {answer[a].key}

Released(a) == claims \ {answer[a].key}

\* The run is over; one that failed or was cancelled may have recorded nothing.
EndRun(a) ==
    /\ a \in InFlight
    /\ Goes(a, "over")
    /\ claims' = Released(a)
    /\ UNCHANGED <<card, raised>>

-----------------------------------------------------------------------------
Init ==
    /\ card = NoCard
    /\ raised = 0
    /\ claims = {}
    /\ answer = [a \in Answers |-> Idle]

Next ==
    \/ ChatRecords
    \/ \E a \in Answers : Read(a) \/ Respond(a) \/ Record(a) \/ EndRun(a)

Spec == Init /\ [][Next]_vars

\* A handler that has read goes on, and a resumed run ends.
FairSpec == Spec /\ \A a \in Answers : WF_vars(Respond(a)) /\ WF_vars(EndRun(a))

-----------------------------------------------------------------------------
(* Properties                                                              *)

\* Every variable keeps its type.
TypeOK ==
    LET Cards == [id: Ids \cup {NoId}, no: 0..MaxRaised] IN
    /\ card \in Cards
    /\ raised \in 0..MaxRaised
    /\ claims \subseteq Ids \cup {NoId}
    /\ answer \in [Answers -> [pc: {"idle", "read", "running", "recorded", "over"},
                               kind: Kinds, key: Ids \cup {NoId}, card: Cards]]

\* A request id is claimed exactly as long as a run that resumes for it is in flight.
ClaimsAreHeld == claims = {answer[a].key : a \in InFlight}

\* A card has one resumed run in flight, however often it is answered, unless one
\* answer named its id and another did not.
OneResumePerCard ==
    \A a, b \in InFlight :
        /\ a # b /\ answer[a].card = answer[b].card
        => NoId \in {answer[a].key, answer[b].key}

\* A card whose id is claimed, because the run it was raised by or an earlier one is
\* still in flight, can be answered in the end.
CardIsAnswerable ==
    \A id \in Ids : card.id = id /\ id \in claims ~> card.id # id \/ id \notin claims
=============================================================================
