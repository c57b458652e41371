----------------------------- MODULE ResponseStream -----------------------------
(***************************************************************************)
(* One streamed response of the Responses API: the adapter that turns its  *)
(* chunks into events (src/src/efp_runtime/llm/adapter.py), the processor  *)
(* that turns the events into a message (session/processor.py) and what a  *)
(* later request replays of it (llm/provider.py).                          *)
(*                                                                         *)
(* The provider sends the items of plan; an item is its position, and its  *)
(* text or arguments are two fragments.  Chunks of one item may be left    *)
(* out or come before the item is announced, and calls interleave.  Three  *)
(* styles of naming an item occur in the tests: by output index, with an   *)
(* item id that is another one in every chunk; by a stable item id; and by *)
(* the id of the call.  A reasoning item has one part, as the requests ask *)
(* for no summary.                                                         *)
(***************************************************************************)
EXTENDS Naturals, Sequences, FiniteSets, Functions

CONSTANTS Plans,  \* sequences of "call", "reasoning" and "text"
          Styles, \* of "indexed", "named" and "called"
          None

VARIABLES plan, style,
          sent,     \* what the provider sent of each item
          ending,   \* how the response ended: "open", "completed", "incomplete" or "failed"
          drafts,   \* the _ToolCallDrafts, in the order of their index
          alias,    \* response_tool_drafts: a key is the number of a draft
          thoughts, \* response_reasoning_drafts: an item id is a _ReasoningDraft
          message,  \* current_message of the processor, with its open text
          shown,    \* the runtime events of each call
          over      \* "no", or what became of the message: "stored", "dropped" or "none"

vars == <<plan, style, sent, ending, drafts, alias, thoughts, message, shown, over>>

Unsent == [added |-> FALSE, fragments |-> 0, told |-> FALSE, done |-> FALSE]

Items == DOMAIN plan
Fragment(i, n) == <<i, n>>
Whole(i) == <<Fragment(i, 1), Fragment(i, 2)>>

\* None is not what a part is marked with or a text.
ResponseAssumption ==
    /\ Plans \subseteq Seq({"call", "reasoning", "text"})
    /\ Styles \subseteq {"indexed", "named", "called"}
    /\ None \notin {"early", "final", "pending", "running"}
    /\ \A p \in Plans : \A i \in DOMAIN p : None # Whole(i)

-----------------------------------------------------------------------------
Blank == [parts |-> <<>>, open |-> <<>>, status |-> "running"]

\* SessionProcessor.  The mark of a part is the status of a call or the encrypted
\* content of a reasoning item.
Event(type, id, data, mark) == [type |-> type, id |-> id, data |-> data, mark |-> mark]
Part(kind, id, data, mark) == [kind |-> kind, id |-> id, data |-> data, mark |-> mark]

PartsOf(m, kind, id) == {k \in DOMAIN m.parts : m.parts[k].kind = kind /\ m.parts[k].id = id}

WithPart(m, part) == [m EXCEPT !.parts = Append(@, part)]

\* _finalize_open_text_parts
Flushed(m) ==
    IF m.open = <<>> THEN m ELSE [WithPart(m, Part("text", 0, m.open, None)) EXCEPT !.open = <<>>]

\* _start_reasoning_part, _append_reasoning_delta, _end_reasoning_part
Reasoned(m, e) ==
    LET known == IF PartsOf(m, "reasoning", e.id) = {}
                 THEN WithPart(m, Part("reasoning", e.id, <<>>, None)) ELSE m
        k == CHOOSE n \in PartsOf(known, "reasoning", e.id) : TRUE
    IN [known EXCEPT !.parts[k].data = @ \o e.data,
                     !.parts[k].mark = IF e.mark = None THEN @ ELSE e.mark]

\* _start_tool_input, _append_tool_call
Called(m, e, part) ==
    IF PartsOf(m, "call", e.id) = {} THEN WithPart(m, part)
    ELSE IF e.type = "start" THEN m
    ELSE [m EXCEPT !.parts[CHOOSE n \in PartsOf(m, "call", e.id) : TRUE] = part]

\* process_event; the deltas and the end of an input change what is displayed only.
Consumed(m, e) ==
    CASE e.type = "text" -> [m EXCEPT !.open = @ \o e.data]
      [] e.type = "text end" -> Flushed(m)
      [] e.type = "reasoning" -> Reasoned(m, e)
      [] e.type = "start" -> Called(Flushed(m), e, Part("call", e.id, <<>>, "pending"))
      [] e.type = "complete" -> Called(m, e, Part("call", e.id, e.data, "running"))
      [] e.type = "finish" -> [Flushed(m) EXCEPT !.status = "complete"]
      [] e.type = "error" ->
            [WithPart(Flushed(m), Part("error", 0, <<>>, None)) EXCEPT !.status = "error"]
      [] OTHER -> m

\* bridge_llm_stream_events: what observers see of a call.
Observed(s, e) ==
    IF e.type \in {"start", "delta", "end", "complete"} THEN [s EXCEPT ![e.id] = Append(@, e)] ELSE s

\* Events that come one after the other.
Told(told, events) ==
    LET after[n \in 0..Len(events)] ==
            IF n = 0 THEN told
            ELSE [message |-> Consumed(after[n - 1].message, events[n]),
                  shown |-> Observed(after[n - 1].shown, events[n])]
    IN after[Len(events)]

Emit(events) ==
    LET new == Told([message |-> message, shown |-> shown], events)
    IN message' = new.message /\ shown' = new.shown

-----------------------------------------------------------------------------
\* The drafts of calls.
NewDraft(i) == [call |-> i, named |-> FALSE, chunks |-> <<>>, final |-> None,
                started |-> FALSE, ended |-> FALSE, completed |-> FALSE]

\* Variant: the deltas that arrived are the arguments.
StreamedArguments(d) == d.chunks

\* arguments_text
Arguments(d) == IF d.final # None THEN d.final ELSE d.chunks

\* _ensure_response_tool_started, _end_response_tool_input
StartOf(d) == IF d.started \/ ~d.named THEN <<>> ELSE <<Event("start", d.call, <<>>, None)>>
EndOf(d) == IF d.ended \/ ~d.named THEN <<>> ELSE <<Event("end", d.call, Arguments(d), None)>>
Started(d) == [d EXCEPT !.started = @ \/ d.named]

\* _complete_response_tool_draft
CompletionOf(d) ==
    IF d.completed \/ ~d.named THEN <<>>
    ELSE StartOf(d) \o EndOf(d) \o <<Event("complete", d.call, Arguments(d), None)>>

Completed(d) ==
    [d EXCEPT !.completed = TRUE, !.started = @ \/ d.named, !.ended = @ \/ (d.named /\ ~d.completed)]

\* _complete_all_response_tool_drafts
AllCompletions ==
    LET upTo[n \in 0..Len(drafts)] ==
            IF n = 0 THEN <<>> ELSE upTo[n - 1] \o CompletionOf(drafts[n])
    IN upTo[Len(drafts)]
AllCompleted == [k \in DOMAIN drafts |-> Completed(drafts[k])]

\* An item id is the item and, where ids change, the chunk it was sent in.
ItemId(i, chunk) == IF style = "indexed" THEN <<i, chunk>> ELSE <<i, "id">>

DeltaOf(i) == IF sent[i].fragments = 0 THEN "first delta" ELSE "second delta"

\* _response_output_key with an item, and the keys _response_register_tool_aliases adds.
ItemKey(i) == IF style = "indexed" THEN <<"index", i>> ELSE <<"call", i>>
Aliases(i, chunk) ==
    {ItemKey(i), <<"call", i>>} \cup (IF style = "called" THEN {} ELSE {<<"item", ItemId(i, chunk)>>})

\* _response_tool_draft: found under its key or by the id of its call.
DraftOf(i) ==
    IF ItemKey(i) \in DOMAIN alias THEN alias[ItemKey(i)]
    ELSE IF \E k \in DOMAIN drafts : drafts[k].call = i
    THEN CHOOSE k \in DOMAIN drafts : drafts[k].call = i
    ELSE Len(drafts) + 1

\* _response_existing_tool_draft: what a chunk of arguments names.
ArgumentKeys(i, chunk) ==
    CASE style = "indexed" -> {<<"index", i>>, <<"item", ItemId(i, chunk)>>}
      [] style = "named" -> {<<"item", ItemId(i, chunk)>>}
      [] style = "called" -> {<<"call", i>>}

ExistingDrafts(i, chunk) ==
    {k \in {alias[key] : key \in ArgumentKeys(i, chunk) \cap DOMAIN alias} : drafts[k].named}

-----------------------------------------------------------------------------
\* The provider begins the items in order, one after the other but for calls, whose chunks
\* interleave.
MaySend(i) ==
    /\ over = "no" /\ ending = "open"
    /\ ~sent[i].done
    /\ \A j \in Items : j < i /\ ~sent[j].done =>
          plan[i] = "call" /\ plan[j] = "call" /\ sent[j] # Unsent

Stream == /\ over = "no"
          /\ UNCHANGED <<plan, style>>

\* Chunk "response.output_item.added" or "response.output_item.done" of a call: the former
\* may lack the name, the latter has the name and the arguments.
CallItem(i, named, chunk) ==
    LET n == DraftOf(i)
        found == IF n \in DOMAIN drafts THEN drafts[n] ELSE NewDraft(i)
        known == [found EXCEPT !.named = @ \/ named]
        arguments == IF chunk = "done" THEN Whole(i) ELSE <<>>
        first == chunk = "done" /\ known.chunks = <<>>
        filled == [Started(known) EXCEPT !.final = IF chunk = "done" THEN Whole(i) ELSE @,
                                         !.chunks = IF first THEN arguments ELSE @]
    IN /\ drafts' = IF n \in DOMAIN drafts
                    THEN [drafts EXCEPT ![n] = IF chunk = "done" THEN Completed(filled) ELSE filled]
                    ELSE Append(drafts, IF chunk = "done" THEN Completed(filled) ELSE filled)
       /\ alias' = [key \in DOMAIN alias \cup Aliases(i, chunk) |->
                      IF key \in Aliases(i, chunk) THEN n ELSE alias[key]]
       /\ Emit(StartOf(known)
               \o (IF first THEN <<Event("delta", i, arguments, None)>> ELSE <<>>)
               \o (IF chunk = "done" THEN CompletionOf(filled) ELSE <<>>))

CallAdded(i, named) ==
    /\ Stream /\ MaySend(i) /\ plan[i] = "call" /\ ~sent[i].added
    /\ sent' = [sent EXCEPT ![i].added = TRUE]
    /\ CallItem(i, named, "added")
    /\ UNCHANGED <<ending, thoughts, over>>

CallDone(i) ==
    /\ Stream /\ MaySend(i) /\ plan[i] = "call"
    /\ sent' = [sent EXCEPT ![i].done = TRUE]
    /\ CallItem(i, TRUE, "done")
    /\ UNCHANGED <<ending, thoughts, over>>

\* Chunk "response.function_call_arguments.delta"; an orphan is ignored.
ArgumentsDelta(i) ==
    /\ Stream /\ MaySend(i) /\ plan[i] = "call" /\ sent[i].fragments < 2 /\ ~sent[i].told
    /\ sent' = [sent EXCEPT ![i].fragments = @ + 1]
    /\ IF ExistingDrafts(i, DeltaOf(i)) = {} THEN UNCHANGED <<drafts, message, shown>>
       ELSE \E k \in ExistingDrafts(i, DeltaOf(i)) :
          LET delta == <<Fragment(i, sent[i].fragments + 1)>>
          IN /\ drafts' = [drafts EXCEPT ![k] = [Started(drafts[k]) EXCEPT !.chunks = @ \o delta]]
             /\ Emit(StartOf(drafts[k]) \o <<Event("delta", drafts[k].call, delta, None)>>)
    /\ UNCHANGED <<ending, alias, thoughts, over>>

\* Chunk "response.function_call_arguments.done"
ArgumentsDone(i) ==
    /\ Stream /\ MaySend(i) /\ plan[i] = "call" /\ sent[i].fragments # 1 /\ ~sent[i].told
    /\ sent' = [sent EXCEPT ![i].told = TRUE]
    /\ IF ExistingDrafts(i, "told") = {} THEN UNCHANGED <<drafts, message, shown>>
       ELSE \E k \in ExistingDrafts(i, "told") :
          LET filled == [drafts[k] EXCEPT !.final = Whole(i),
                                          !.chunks = IF @ = <<>> THEN Whole(i) ELSE @]
          IN /\ drafts' = [drafts EXCEPT ![k] = [Started(filled) EXCEPT !.ended = TRUE]]
             /\ Emit(StartOf(filled) \o EndOf(filled))
    /\ UNCHANGED <<ending, alias, thoughts, over>>

\* Chunk "response.output_text.delta"
TextDelta(i) ==
    /\ Stream /\ MaySend(i) /\ plan[i] = "text"
    /\ sent' = [sent EXCEPT ![i].done = TRUE]
    /\ Emit(<<Event("text", 0, <<Fragment(i, 1)>>, None)>>)
    /\ UNCHANGED <<ending, drafts, alias, thoughts, over>>

\* _response_reasoning_draft and _response_reasoning_metadata: the encrypted content of a
\* chunk, if it has one, else what the draft of its item has.
Thought(id) == IF id \in DOMAIN thoughts THEN thoughts[id] ELSE [encrypted |-> None, active |-> FALSE]
Thinks(id, thought) ==
    thoughts' = [x \in DOMAIN thoughts \cup {id} |-> IF x = id THEN thought ELSE thoughts[x]]

\* _ensure_response_reasoning_started; the start and a delta of a part do the same to it.
ReasoningAdded(i, encrypted) ==
    LET id == ItemId(i, "added")
    IN /\ Stream /\ MaySend(i) /\ plan[i] = "reasoning" /\ ~sent[i].added /\ sent[i].fragments = 0
       /\ sent' = [sent EXCEPT ![i].added = TRUE]
       /\ Thinks(id, [encrypted |-> encrypted, active |-> TRUE])
       /\ Emit(<<Event("reasoning", id, <<>>, encrypted)>>)
       /\ UNCHANGED <<ending, drafts, alias, over>>

\* Chunk "response.reasoning_summary_text.delta" or one of its kin
ReasoningDelta(i) ==
    LET id == ItemId(i, DeltaOf(i))
    IN /\ Stream /\ MaySend(i) /\ plan[i] = "reasoning" /\ sent[i].fragments < 2
       /\ sent' = [sent EXCEPT ![i].fragments = @ + 1]
       /\ Thinks(id, [Thought(id) EXCEPT !.active = TRUE])
       /\ Emit(<<Event("reasoning", id, <<Fragment(i, sent[i].fragments + 1)>>, Thought(id).encrypted)>>)
       /\ UNCHANGED <<ending, drafts, alias, over>>

\* Chunk "response.reasoning_summary_part.done"
ReasoningPartDone(i) ==
    LET id == ItemId(i, "told")
    IN /\ Stream /\ MaySend(i) /\ plan[i] = "reasoning" /\ sent[i].fragments = 2 /\ ~sent[i].told
       /\ sent' = [sent EXCEPT ![i].told = TRUE]
       /\ Thinks(id, [Thought(id) EXCEPT !.active = FALSE])
       /\ Emit(IF Thought(id).active THEN <<Event("reasoning", id, <<>>, Thought(id).encrypted)>>
               ELSE <<>>)
       /\ UNCHANGED <<ending, drafts, alias, over>>

\* _end_all_response_reasoning_parts with an item: a part that ended, or never started, is
\* started again, so that it gets what the item has.
Ended(id, encrypted) == <<Event("reasoning", id, <<>>, encrypted)>>

ReasoningDone(i) ==
    LET id == ItemId(i, "done")
    IN /\ Stream /\ MaySend(i) /\ plan[i] = "reasoning"
       /\ sent' = [sent EXCEPT ![i].done = TRUE]
       /\ thoughts' = [x \in DOMAIN thoughts \ {id} |-> thoughts[x]]
       /\ Emit(Ended(id, "final"))
       /\ UNCHANGED <<ending, drafts, alias, over>>

-----------------------------------------------------------------------------
\* Chunk "response.completed", when every item was sent, or "response.incomplete".  The
\* parts of reasoning that are still active end without changing.
Finish ==
    /\ Stream /\ ending = "open"
    /\ ending' \in {"incomplete"} \cup (IF \A i \in Items : sent[i].done THEN {"completed"} ELSE {})
    /\ drafts' = AllCompleted
    /\ thoughts' = <<>>
    /\ Emit(<<Event("text end", 0, <<>>, None)>> \o AllCompletions \o <<Event("finish", 0, <<>>, None)>>)
    /\ UNCHANGED <<sent, alias, over>>

\* Chunk "response.failed" or "error"
Fail ==
    /\ Stream /\ ending = "open"
    /\ ending' = "failed"
    /\ Emit(<<Event("error", 0, <<>>, None)>>)
    /\ UNCHANGED <<sent, drafts, alias, thoughts, over>>

\* What normalize_stream kept ends with it.
Gone == drafts' = <<>> /\ alias' = <<>> /\ thoughts' = <<>>

\* The stream ends, with or without one of these chunks, and the runner stores the message.
Close ==
    /\ Stream
    /\ over' = IF ending = "open" /\ \A i \in Items : sent[i] = Unsent THEN "none" ELSE "stored"
    /\ Gone
    /\ Emit(<<Event("text end", 0, <<>>, None)>>
            \o (IF ending = "failed" THEN <<>> ELSE AllCompletions)
            \o (IF ending = "open" THEN <<Event("finish", 0, <<>>, None)>> ELSE <<>>))
    /\ UNCHANGED <<sent, ending>>

\* The transport raises, and the message of the processor is never stored.
Break ==
    /\ Stream /\ over' = "dropped"
    /\ Gone /\ message' = Blank
    /\ UNCHANGED <<sent, ending, shown>>

-----------------------------------------------------------------------------
Init ==
    /\ plan \in Plans /\ style \in Styles
    /\ sent = [i \in DOMAIN plan |-> Unsent]
    /\ ending = "open" /\ over = "no"
    /\ drafts = <<>> /\ alias = <<>> /\ thoughts = <<>>
    /\ shown = [i \in DOMAIN plan |-> <<>>]
    /\ message = Blank

Next ==
    \/ \E i \in Items :
          \/ CallDone(i) \/ ArgumentsDelta(i) \/ ArgumentsDone(i)
          \/ TextDelta(i) \/ ReasoningDelta(i) \/ ReasoningPartDone(i) \/ ReasoningDone(i)
          \/ \E named \in BOOLEAN : CallAdded(i, named)
          \/ \E encrypted \in {None, "early"} : ReasoningAdded(i, encrypted)
    \/ Finish \/ Fail \/ Close \/ Break

Spec == Init /\ [][Next]_vars

-----------------------------------------------------------------------------
\* The drafts, the message and the runtime events are of their types.
TypeOK ==
    /\ plan \in Plans /\ style \in Styles
    /\ \A i \in Items : sent[i].fragments \in 0..2
    /\ ending \in {"open", "completed", "incomplete", "failed"}
    /\ over \in {"no", "stored", "dropped", "none"}
    /\ \A k \in DOMAIN drafts : drafts[k].call \in Items /\ drafts[k].final \in {None, Whole(drafts[k].call)}
    /\ \A key \in DOMAIN alias : alias[key] \in DOMAIN drafts
    /\ \A id \in DOMAIN thoughts : thoughts[id].active \in BOOLEAN
    /\ \A k \in DOMAIN message.parts : message.parts[k].kind \in {"text", "call", "reasoning", "error"}
    /\ message.status \in {"running", "complete", "error"}

\* Every call the provider finished is one part of the message with the arguments it
\* finished with; one it was cut off in is pending if the response failed, and else has what
\* arrived of them.
CallIsWhole(i) ==
    LET parts == {message.parts[k] : k \in PartsOf(message, "call", i)}
    IN /\ Cardinality(PartsOf(message, "call", i)) <= 1
       /\ sent[i].done => parts = {Part("call", i, Whole(i), "running")}
       /\ \A part \in parts : part.mark = "pending" <=> ending = "failed" /\ ~sent[i].done

\* Observers see a call start, its arguments, their end and the call, each once.
CallIsShownInOrder(i) ==
    LET s == shown[i]
        at(type) == {n \in DOMAIN s : s[n].type = type}
    IN s # <<>> =>
       /\ at("start") = {1}
       /\ Cardinality(at("end")) <= 1 /\ at("complete") \subseteq {Len(s)}
       /\ \A n \in at("end") : n = Len(s) \/ n + 1 \in at("complete")
       /\ sent[i].done => at("complete") # {} /\ at("end") # {}

\* _sanitize_copilot_responses_input_item: reasoning goes out if something follows it.
Replayed ==
    {k \in DOMAIN message.parts :
        /\ message.parts[k].kind = "reasoning" /\ message.parts[k].mark # None
        /\ \E n \in DOMAIN message.parts : n > k /\ message.parts[n].kind \in {"text", "call"}}

\* Reasoning that something follows is replayed, ahead of the calls that follow it, with the
\* content its item ended with; once where its id is stable.
ReasoningIsReplayed(i) ==
    LET mine == {k \in Replayed : message.parts[k].id[1] = i}
    IN \A j \in Items : j > i /\ plan[j] # "reasoning" =>
          /\ \E k \in mine : message.parts[k].mark = "final"
          /\ style # "indexed" => Cardinality(mine) = 1
          /\ \A k \in mine, n \in PartsOf(message, "call", j) : k < n

\* Text and calls are in the order of the response, and no fragment of text is lost.
TextIsKept ==
    LET texts == {k \in DOMAIN message.parts : message.parts[k].kind = "text"}
    IN \A i \in Items : plan[i] = "text" =>
       \E k \in texts :
          /\ Fragment(i, 1) \in Range(message.parts[k].data)
          /\ \A j \in Items : \A n \in PartsOf(message, "call", j) : (j < i) <=> (n < k)

\* The message that is stored is the response the provider streamed, however it names its
\* items, whichever chunks it leaves out and wherever the stream ends.
MessageIsWhole ==
    over = "stored" =>
    /\ message.open = <<>>
    /\ \A i \in Items : plan[i] = "call" => CallIsWhole(i) /\ CallIsShownInOrder(i)
    /\ ending = "completed" =>
       TextIsKept /\ \A i \in Items : plan[i] = "reasoning" => ReasoningIsReplayed(i)
=============================================================================
