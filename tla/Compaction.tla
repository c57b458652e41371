------------------------------ MODULE Compaction ------------------------------
(***************************************************************************)
(* What of a session a provider request carries: the blocks, the budget    *)
(* and the sticky cut of src/src/efp_runtime/compaction/strategy.py, how   *)
(* the runs of a session carry the cut from request to request             *)
(* (src/src/efp_runtime/loop/runner.py), and the compaction the user asks  *)
(* for (AgentRuntime.compact_session).                                     *)
(*                                                                         *)
(* The stored history stays whole.  A request that does not fit leaves     *)
(* blocks out, a block being a call with its result or any other part, and *)
(* remembers the first message it kept.  Sizes are small numbers for       *)
(* characters; the summary of what is left out has one size.               *)
(***************************************************************************)
EXTENDS Naturals, Sequences, FiniteSets, FiniteSetsExt

CONSTANTS Sizes,        \* sizes of results; a message and a call have size 1
          Budget,       \* effective_max_chars
          ContextSize,  \* the system messages in front of the history
          SummarySize,  \* the summary of the blocks that are left out
          MaxParts      \* bound: parts ever written

CompactionAssumption ==
    /\ Sizes \subseteq Nat \ {0}
    /\ {ContextSize, SummarySize, MaxParts} \subseteq Nat
    /\ Budget \in Nat \ {0}  \* _clamp_reserve_chars leaves half of it at least

VARIABLES parts,  \* the stored history, part by part
          ids,    \* the parts and messages written so far
          memory, \* _compaction_boundaries: the message a runtime cuts at, 0 for none
          dirty,  \* _compaction_boundary_dirty
          saved,  \* the cut in the metadata of the session
          pc,     \* "idle", "ready" or "asked": of the run of the session
          sent,   \* the request that is being answered
          cut,    \* ids when the last cut was made, if it stands and is still known, else 0
          owed    \* calls that were made and got no result

vars == <<parts, ids, memory, dirty, saved, pc, sent, cut, owed>>

Part(id, message, kind, call, size) ==
    [id |-> id, message |-> message, kind |-> kind, call |-> call, size |-> size]

-----------------------------------------------------------------------------
(* Blocks and what they cost, in a history h. *)

\* _group_part_blocks: the block of part i.
BlockOf(h, i) == {j \in DOMAIN h : j = i \/ (h[i].call # 0 /\ h[j].call = h[i].call)}

\* A block is named by its first part.
Blocks(h) == {i \in DOMAIN h : \A j \in BlockOf(h, i) : i <= j}

PartsOf(h, blocks) == UNION {BlockOf(h, i) : i \in blocks}

\* _pending_tool_call_ids: calls without a result, by position.
Pending(h) == {i \in DOMAIN h :
    h[i].kind = "call" /\ \A j \in DOMAIN h : h[j].kind = "result" => h[j].call # h[i].call}

\* The size of the parts at some positions.
Total(h, at) ==
    LET sum[i \in 0..Len(h)] ==
            IF i = 0 THEN 0 ELSE sum[i - 1] + (IF i \in at THEN h[i].size ELSE 0)
    IN sum[Len(h)]

\* _selection_usage
Cost(h, kept) ==
    ContextSize + Total(h, PartsOf(h, kept)) + (IF kept = Blocks(h) THEN 0 ELSE SummarySize)

\* Variant: pending calls are as good as any other part.
NewestOnly(h) == {Max(Blocks(h))}

\* _is_protected_block, _latest_unprotected_block_index: the pending calls, and the newest
\* block besides.
AlwaysKept(h) ==
    Pending(h) \cup (IF Blocks(h) \subseteq Pending(h) THEN {} ELSE {Max(Blocks(h) \ Pending(h))})

\* _select_recent_blocks: whatever still fits, from the newest block to the oldest.
Selected(h, limit) ==
    LET With(some, i) ==
            IF i \in Blocks(h) /\ Cost(h, some \cup {i}) <= limit THEN some \cup {i} ELSE some
        kept[n \in 0..Len(h)] ==
            IF n = 0 THEN AlwaysKept(h) ELSE With(kept[n - 1], Len(h) + 1 - n)
    IN kept[Len(h)]

Positions(h, message) == {i \in DOMAIN h : h[i].message = message}

\* What the cut at a message keeps: all of it and after it, and the pending calls.
KeptFrom(h, message) ==
    IF Positions(h, message) = {} THEN Blocks(h)
    ELSE {i \in Blocks(h) : i >= Min(Positions(h, message))} \cup Pending(h)

\* Variant: cut down to the budget and no further.
WholeBudget(limit) == limit

\* _target_budget: six tenths.
Target(limit) == Max({1, (limit * 6) \div 10})

\* _boundary_message_id_for
Boundary(h, kept) == h[Min(IF kept \subseteq Pending(h) THEN kept ELSE kept \ Pending(h))].message

NoRequest == [kept |-> {}, limit |-> 0]

-----------------------------------------------------------------------------
Init ==
    /\ parts = <<>> /\ ids = 0
    /\ memory = 0 /\ dirty = FALSE /\ saved = 0
    /\ pc = "idle" /\ sent = NoRequest /\ cut = 0 /\ owed = {}

Write(kind, size) ==
    /\ ids < MaxParts
    /\ ids' = ids + 1
    /\ parts' = Append(parts, Part(ids + 1, ids + 1, kind, 0, size))

\* _load_session_run_state: the runtime that ran before knows its cut, a new one takes the
\* cut that was saved.
Load ==
    \/ memory' = (IF memory = 0 THEN saved ELSE memory) /\ UNCHANGED <<dirty, cut>>
    \/ memory' = saved /\ dirty' = FALSE /\ cut' = (IF dirty THEN 0 ELSE cut)

\* A run begins with the message of the user.
Begin ==
    /\ pc = "idle" /\ pc' = "ready"
    /\ Write("user", 1) /\ Load
    /\ UNCHANGED <<saved, sent, owed>>

\* A run resumes the calls of a run that parked.
Resume ==
    /\ pc = "idle" /\ pc' = "ready"
    /\ Pending(parts) # {} /\ Load
    /\ UNCHANGED <<parts, ids, saved, sent, owed>>

\* A pending call gets its result.
Return(i, size) ==
    /\ pc = "ready" /\ i \in Pending(parts) /\ ids < MaxParts
    /\ ids' = ids + 1
    /\ parts' = Append(parts, Part(ids + 1, ids + 1, "result", parts[i].call, size))
    /\ owed' = owed \ {parts[i].call}
    /\ UNCHANGED <<memory, dirty, saved, pc, sent, cut>>

\* _remember_compaction_boundary: where something was left out.
Remembered(kept) == IF kept = Blocks(parts) THEN memory ELSE Boundary(parts, kept)

\* The cut keeps everything from its message on, and within its target.
Stands(kept, limit) ==
    /\ kept # Blocks(parts)
    /\ kept = KeptFrom(parts, Boundary(parts, kept))
    /\ Cost(parts, kept) <= Target(limit)

\* StickyBudgetCompactionStrategy.compact: the cut stays where it fits, else there is a
\* new one, down to the target.
Send(limit) ==
    LET standing == KeptFrom(parts, memory)
        kept == IF Cost(parts, standing) <= limit THEN standing ELSE Selected(parts, Target(limit))
    IN /\ sent' = [kept |-> {parts[i].id : i \in PartsOf(parts, kept)}, limit |-> limit]
       /\ pc' = "asked"
       /\ IF kept = standing
          THEN UNCHANGED <<memory, dirty, cut>>
          ELSE /\ memory' = Remembered(kept)
               /\ dirty' = (dirty \/ memory' # memory)
               /\ cut' = IF Stands(kept, limit) THEN ids ELSE 0
       /\ UNCHANGED <<parts, ids, saved, owed>>

\* The provider is asked when no call is pending.
Request == pc = "ready" /\ Pending(parts) = {} /\ Send(Budget)

\* The request did not fit the model after all: once more, with half of the budget.
Overflow == pc = "asked" /\ sent.limit = Budget /\ Send(Max({1, Budget \div 2}))

\* The provider answers with tool calls, in one message.
Call(many) ==
    /\ pc = "asked" /\ pc' = "ready"
    /\ ids + many <= MaxParts
    /\ ids' = ids + many
    /\ parts' = parts \o [k \in 1..many |-> Part(ids + k, ids + 1, "call", ids + k, 1)]
    /\ sent' = NoRequest
    /\ owed' = owed \cup (ids + 1)..(ids + many)
    /\ UNCHANGED <<memory, dirty, saved, cut>>

\* _persist_session_run_state
Save == saved' = (IF dirty THEN memory ELSE saved) /\ dirty' = FALSE

\* The provider answers and the run ends.
Reply ==
    /\ pc = "asked" /\ pc' = "idle"
    /\ Write("text", 1) /\ Save
    /\ sent' = NoRequest
    /\ UNCHANGED <<memory, cut, owed>>

\* The run parks, is cancelled or out of iterations.
Stop ==
    /\ pc # "idle" /\ pc' = "idle" /\ Save
    /\ sent' = NoRequest
    /\ UNCHANGED <<parts, ids, memory, cut, owed>>

\* The run raises: nothing is saved.
Fail ==
    /\ pc # "idle" /\ pc' = "idle"
    /\ sent' = NoRequest
    /\ UNCHANGED <<parts, ids, memory, dirty, saved, cut, owed>>

\* Some positions, in their order.
InOrder(at) ==
    LET list[i \in 0..Len(parts)] ==
            IF i = 0 THEN <<>> ELSE IF i \in at THEN Append(list[i - 1], i) ELSE list[i - 1]
    IN list[Len(parts)]

\* compact_session, forced: pending calls and the newest block stay, and a summary goes
\* before the message of the first part that does not; its place in the order is 0.
Compact ==
    LET kept == PartsOf(parts, AlwaysKept(parts))
        gone == DOMAIN parts \ kept
        before == {i \in kept : i < Min(Positions(parts, parts[Min(gone)].message))}
        order == InOrder(before) \o <<0>> \o InOrder(kept \ before)
    IN /\ pc = "idle" /\ ids < MaxParts
       /\ Cardinality({parts[i].message : i \in DOMAIN parts}) > 1
       /\ gone # {}
       /\ ids' = ids + 1
       /\ parts' = [k \in DOMAIN order |->
                      IF order[k] = 0 THEN Part(ids + 1, ids + 1, "summary", 0, SummarySize)
                      ELSE parts[order[k]]]
       /\ cut' = 0
       /\ UNCHANGED <<memory, dirty, saved, pc, sent, owed>>

Next ==
    \/ \E i \in DOMAIN parts, size \in Sizes : Return(i, size)
    \/ \E many \in {1, 2} : Call(many)
    \/ Begin \/ Resume \/ Request \/ Overflow \/ Reply \/ Stop \/ Fail \/ Compact

Spec == Init /\ [][Next]_vars

-----------------------------------------------------------------------------
\* The parts, the cut and the request have their types, and ids are not used twice.
TypeOK ==
    /\ parts \in Seq([id : 1..ids, message : 1..ids, call : 0..ids, size : Nat,
                      kind : {"user", "text", "call", "result", "summary"}])
    /\ ids \in 0..MaxParts
    /\ {memory, saved, cut} \subseteq 0..ids /\ owed \subseteq 1..ids /\ dirty \in BOOLEAN
    /\ pc \in {"idle", "ready", "asked"}
    /\ sent \in [kept : SUBSET (1..ids), limit : 0..Budget]
    /\ \A i, j \in DOMAIN parts : parts[i].id = parts[j].id => i = j

\* No compaction, whenever it comes, loses a call that was made and waits for its result.
\* In what a provider is asked, every call has its result and the other way round; the
\* newest block is there; and it fits the budget unless that block alone does not.
RequestIsSound ==
    /\ owed = {parts[i].call : i \in Pending(parts)}
    /\ pc = "asked" =>
        LET kept == {i \in DOMAIN parts : parts[i].id \in sent.kept}
            blocks == kept \cap Blocks(parts)
        IN /\ \A i \in {p \in DOMAIN parts : parts[p].call # 0} :
                \E j \in BlockOf(parts, i) : j # i /\ (i \in kept <=> j \in kept)
           /\ Max(Blocks(parts)) \in kept
           /\ Cost(parts, blocks) <= sent.limit \/ blocks = {Max(Blocks(parts))}

Written(since) == Total(parts, {i \in DOMAIN parts : parts[i].id > since})

\* A cut stays where it is until the room it left, four tenths of the budget, is used up:
\* the prefix the provider has cached is not changed by every request, nor by the end of a
\* run or by another runtime.  This is said of the cuts that keep everything from their
\* message on; the greedy selection also makes others.
CutStaysPut ==
    [][Request /\ cut # 0 /\ cut' # cut => Written(cut) > Budget - Max({1, (Budget * 6) \div 10})]_vars
=============================================================================
