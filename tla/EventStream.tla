------------------------------ MODULE EventStream ------------------------------
(***************************************************************************)
(* The event bus of the gateway and one viewer of /api/events              *)
(* (src/src/gateway/event_bus.py, src/src/gateway/events.py).              *)
(*                                                                         *)
(* An event is its number; the numbers grow like the timestamps, and the   *)
(* viewer filters for some of the events.  A connection registers its      *)
(* queue, sends a welcome, then the replay it asked for, and only then     *)
(* drains the queue; every send suspends.  The viewer may drop the         *)
(* connection at any time and come back with last_event_at.                *)
(***************************************************************************)
EXTENDS Naturals, Sequences, FiniteSets, SequencesExt

CONSTANTS MaxEvents,   \* events emitted (a bound)
          MaxConnects, \* connections of the viewer (a bound)
          QueueSize, HistoryLimit, ReplayLimit

VARIABLES emitted,   \* events emitted so far
          matching,  \* those the viewer filters for
          history,   \* _history
          listening, \* the queue of the connection is in _listeners
          queue,     \* that queue
          conn,      \* handle_websocket: where it is, and the replay it has yet to send, whose order
                     \* is that of the history
          connects,  \* connections so far
          last,      \* the last event the viewer received, its last_event_at
          got,       \* the events it received
          excused    \* matching events the bus gave up: dropped from the queue or lost with
                     \* it, out of the history or beyond the limit of the replay

vars == <<emitted, matching, history, listening, queue, conn, connects, last, got, excused>>

Closed == [pc |-> "closed", replay |-> {}]

Kept(s, n) == IF Len(s) <= n THEN s ELSE SubSeq(s, Len(s) - n + 1, Len(s))

-----------------------------------------------------------------------------
\* _offer
Offered(event) == Kept(Append(queue, event), QueueSize)

Emit(isMatching) ==
    /\ emitted < MaxEvents
    /\ emitted' = emitted + 1
    /\ matching' = IF isMatching THEN matching \cup {emitted + 1} ELSE matching
    /\ history' = Kept(Append(history, emitted + 1), HistoryLimit)
    /\ IF listening /\ isMatching
       THEN /\ queue' = Offered(emitted + 1)
            /\ excused' = excused \cup (Range(Append(queue, emitted + 1)) \ Range(queue'))
       ELSE UNCHANGED <<queue, excused>>
    /\ UNCHANGED <<listening, conn, connects, last, got>>

\* Variant: a connection registers when the replay is sent.
RegistersLate(pc) == pc = "live"

Registers(pc) == pc = "joined"

\* add_listener, with a new queue
Connect ==
    /\ conn.pc = "closed" /\ connects < MaxConnects
    /\ connects' = connects + 1
    /\ conn' = [Closed EXCEPT !.pc = "joined"]
    /\ listening' = Registers("joined")
    /\ queue' = <<>>
    /\ UNCHANGED <<emitted, matching, history, last, got, excused>>

\* What replay_events looks for.
After(since) == {e \in matching : e > since}

Due(since) == After(since) \cap Range(history)

\* Variant: the oldest events are replayed.
OldestReplay(since) ==
    {e \in Due(since) : Cardinality({x \in Due(since) : x < e}) < ReplayLimit}

ReplayOf(since) ==
    {e \in Due(since) : Cardinality({x \in Due(since) : x > e}) < ReplayLimit}

\* replay_events, after the welcome
Replay ==
    /\ conn.pc = "joined"
    /\ conn' = [pc |-> "replaying", replay |-> ReplayOf(last)]
    /\ excused' = excused \cup {e \in After(last) \ Range(queue) :
          \/ e \notin Range(history)
          \/ Cardinality({x \in After(last) : x > e}) >= ReplayLimit}
    /\ UNCHANGED <<emitted, matching, history, listening, queue, connects, last, got>>

Receives(event) == last' = event /\ got' = got \cup {event}

\* The events of the replay are sent in the order of the history.
SendReplay ==
    /\ conn.pc = "replaying"
    /\ IF conn.replay = {}
       THEN /\ conn' = [conn EXCEPT !.pc = "live"]
            /\ listening' = (listening \/ Registers("live"))
            /\ UNCHANGED <<last, got>>
       ELSE /\ \E event \in conn.replay :
                 /\ \A e \in conn.replay : event <= e
                 /\ conn' = [conn EXCEPT !.replay = @ \ {event}]
                 /\ Receives(event)
            /\ UNCHANGED listening
    /\ UNCHANGED <<emitted, matching, history, queue, connects, excused>>

\* read_events
SendLive ==
    /\ conn.pc = "live" /\ queue # <<>>
    /\ queue' = Tail(queue)
    /\ Receives(queue[1])
    /\ UNCHANGED <<emitted, matching, history, listening, conn, connects, excused>>

\* The connection ends, wherever it is: the reader is cancelled and the queue removed.
\* A replay may have overtaken events that are still queued; the viewer cannot ask for
\* them again.
Disconnect ==
    /\ conn.pc # "closed"
    /\ conn' = Closed /\ listening' = FALSE /\ queue' = <<>>
    /\ excused' = excused \cup {e \in Range(queue) : e < last}
    /\ UNCHANGED <<emitted, matching, history, connects, last, got>>

-----------------------------------------------------------------------------
Init ==
    /\ emitted = 0 /\ matching = {} /\ history = <<>> /\ listening = FALSE /\ queue = <<>>
    /\ conn = Closed /\ connects = 0 /\ last = 0 /\ got = {} /\ excused = {}

Server == Replay \/ SendReplay \/ SendLive

Next ==
    \/ \E isMatching \in BOOLEAN : Emit(isMatching)
    \/ Connect \/ Replay \/ SendReplay \/ SendLive \/ Disconnect

-----------------------------------------------------------------------------
(* Properties                                                              *)

\* Every variable keeps its type.
TypeOK ==
    /\ emitted \in 0..MaxEvents /\ matching \subseteq 1..emitted
    /\ history \in Seq(1..emitted) /\ Len(history) <= HistoryLimit
    /\ queue \in Seq(matching) /\ Len(queue) <= QueueSize
    /\ conn.pc \in {"closed", "joined", "replaying", "live"} /\ conn.replay \subseteq matching
    /\ listening = (conn.pc # "closed")
    /\ connects \in 0..MaxConnects /\ last \in {0} \cup got /\ got \cup excused \subseteq matching

\* A viewer that reconnects with the last event it received has a gap only where the bus
\* gave events up: an event is received, on its way, or excused, also where it was emitted
\* between two steps of joining.  A slow viewer loses old events, never one that is newer
\* than what it still gets.
NoGap ==
    /\ conn.pc \in {"replaying", "live"}
       => matching \subseteq got \cup conn.replay \cup Range(queue) \cup excused
    /\ conn.pc = "live" => \A e \in excused \ got, next \in Range(queue) : e < next

\* Every event of a viewer that stays is delivered or given up in the end.
Delivered ==
    \A e \in 1..MaxEvents :
        (e \in matching /\ connects > 0) ~> (e \in got \cup excused \/ conn.pc = "closed")
=============================================================================
