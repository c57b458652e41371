------------------------------ MODULE SessionNames ------------------------------
(***************************************************************************)
(* The name of a session: the one a member gave it, the title the runtime  *)
(* generated, and what the Portal is told (src/src/gateway/                *)
(* session_title.py, runtime_api.py, and the session facade).  The Portal  *)
(* is told by requests of their own, which may fail or overtake another.   *)
(*                                                                         *)
(* The event loop runs one operation at a time, but an operation that      *)
(* reads the session and writes it back is two steps, and the worker       *)
(* thread of a title call may write between them.  A question is its       *)
(* number, and a generated title the number of the question it is about.   *)
(***************************************************************************)
EXTENDS Naturals, Sequences, FiniteSets

CONSTANTS Background, \* title calls scheduled after a turn
          Endpoint,   \* title calls of api_generate_session_title
          MaxQuestions, MaxRenames, MaxPosts \* bounds

Calls == Background \cup Endpoint

VARIABLES question,  \* the first question in the history
          names,     \* custom_session_name and generated_session_name in metadata
          loop,      \* the operation the event loop is in
          call,      \* the title calls
          portal,    \* the name the Portal has
          posts,     \* updates of it that are under way, in the order they were sent
          muddled,   \* an update was lost or overtaken
          renames,   \* renames so far
          overtaken, \* questions that were replaced while a call about them was under way
          outrun     \* calls that were storing a title when the session was renamed

vars == <<question, names, loop, call, portal, posts, muddled, renames, overtaken, outrun>>

Unnamed == [custom |-> 0, generated |-> 0]

Free == [op |-> "free", copy |-> Unnamed]

Custom(n) == [custom |-> n, generated |-> 0]

Title(q) == [custom |-> 0, generated |-> q]

\* get_session_title
Shown == IF names.custom # 0 THEN Custom(names.custom) ELSE Title(names.generated)

At(c, pc) == [pc |-> pc, force |-> FALSE, about |-> 0, on |-> c]

InFlight == {c \in Calls : call[c].pc \notin {"idle", "done"}}

\* A call that is over leaves nothing behind.
Goes(c, pc) ==
    call' = [call EXCEPT ![c] = IF pc = "done" THEN At(c, "done") ELSE [@ EXCEPT !.pc = pc]]

-----------------------------------------------------------------------------
(* The Portal                                                              *)

\* publish_session_title_in_background spawns a request, which is not waited for ...
Send(name) == posts' = Append(posts, name) /\ UNCHANGED <<portal, muddled>>

\* ... and arrives ...
Arrive ==
    /\ posts # <<>>
    /\ portal' = Head(posts) /\ posts' = Tail(posts)
    /\ UNCHANGED <<question, names, loop, call, muddled, renames, overtaken, outrun>>

\* ... or fails, which is logged, or overtakes an earlier one.
Muddle(i) ==
    /\ UNCHANGED portal \/ (i > 1 /\ portal' = posts[i])
    /\ posts' = SubSeq(posts, 1, i - 1) \o SubSeq(posts, i + 1, Len(posts))
    /\ muddled' = TRUE
    /\ UNCHANGED <<question, names, loop, call, renames, overtaken, outrun>>

\* The metadata published when a run begins and ends carries the name of the session, if it
\* has one.
Carry ==
    /\ loop = Free /\ names # Unnamed /\ Len(posts) < MaxPosts
    /\ Send(Shown)
    /\ UNCHANGED <<question, names, loop, call, renames, overtaken, outrun>>

-----------------------------------------------------------------------------
(* Operations of the event loop                                            *)

\* rename_session is one update of the session; then the Portal is sent the name.
Rename ==
    /\ loop = Free /\ renames < MaxRenames
    /\ renames' = renames + 1
    /\ names' = [names EXCEPT !.custom = renames + 1]
    /\ Send(Custom(renames + 1))
    /\ outrun' = outrun \cup {c \in Calls : call[c].pc \in {"storing", "stored"}}
    /\ UNCHANGED <<question, loop, call, overtaken>>

\* record_runtime_result reads the metadata
RecordReads ==
    /\ loop = Free
    /\ loop' = [op |-> "record", copy |-> names]
    /\ UNCHANGED <<question, names, call, portal, posts, muddled, renames, overtaken, outrun>>

\* record_runtime_result writes it back
RecordWrites ==
    /\ loop.op = "record"
    /\ names' = loop.copy
    /\ loop' = [op |-> "schedule", copy |-> Unnamed]
    /\ UNCHANGED <<question, call, portal, posts, muddled, renames, overtaken, outrun>>

\* should_generate_after_turn, and no call is in flight
Due == names = Unnamed /\ InFlight \cap Background = {}

\* schedule_session_title, after a turn that may have no answer
Schedule ==
    /\ loop.op = "schedule"
    /\ loop' = Free
    /\ \/ UNCHANGED call
       \/ /\ Due
          /\ \E c \in Background : call[c].pc = "idle" /\ Goes(c, "started")
    /\ UNCHANGED <<question, names, portal, posts, muddled, renames, overtaken, outrun>>

\* edit_message and delete_message, of the first message: the history is replaced
Edit ==
    /\ loop = Free /\ question < MaxQuestions
    /\ question' = question + 1
    /\ loop' = [op |-> "edited", copy |-> Unnamed]
    /\ overtaken' = overtaken \cup ({call[c].about : c \in InFlight} \ {0})
    /\ UNCHANGED <<names, call, portal, posts, muddled, renames, outrun>>

\* Variant: an edit leaves the name.
NoDrop == loop' = Free

\* _drop_generated_name reads the session
DropReads ==
    loop' = IF names.generated = 0 THEN Free ELSE [op |-> "drop", copy |-> names]

Drop ==
    \/ /\ loop.op = "edited" /\ DropReads
       /\ UNCHANGED <<question, names, call, portal, posts, muddled, renames, overtaken, outrun>>
    \/ /\ loop.op = "drop"
       /\ names' = [loop.copy EXCEPT !.generated = 0]
       /\ loop' = Free
       /\ UNCHANGED <<question, call, portal, posts, muddled, renames, overtaken, outrun>>

-----------------------------------------------------------------------------
(* Title calls.  A step on the event loop needs it to be free.             *)

\* api_generate_session_title: it waits for the call in flight, whose title is the answer
\* unless a new one is forced.
Ask(c) ==
    /\ c \in Endpoint /\ loop = Free
    /\ \/ /\ call[c].pc = "idle"
          /\ \E force \in BOOLEAN :
               IF InFlight \cap Background = {}
               THEN call' = [call EXCEPT ![c] = [@ EXCEPT !.pc = "started", !.force = force]]
               ELSE \E b \in InFlight \cap Background :
                      call' = [call EXCEPT ![c] = [@ EXCEPT !.pc = "waiting", !.force = force,
                                                            !.on = b]]
       \/ /\ call[c].pc = "waiting" /\ call[call[c].on].pc = "done"
          /\ Goes(c, IF call[c].force THEN "started" ELSE "done")
    /\ UNCHANGED <<question, names, loop, portal, posts, muddled, renames, overtaken, outrun>>

\* generate_session_title: the session keeps the name it has ...
Begin(c) ==
    /\ call[c].pc = "started" /\ loop = Free
    /\ Goes(c, IF names.custom # 0 \/ (names.generated # 0 /\ ~call[c].force)
               THEN "done" ELSE "reading")
    /\ UNCHANGED <<question, names, loop, portal, posts, muddled, renames, overtaken, outrun>>

\* ... or a thread reads the history ...
ReadHistory(c) ==
    /\ call[c].pc = "reading"
    /\ call' = [call EXCEPT ![c] = [@ EXCEPT !.pc = "thinking", !.about = question]]
    /\ UNCHANGED <<question, names, loop, portal, posts, muddled, renames, overtaken, outrun>>

\* A rename that landed while the model was thinking wins.
MayStore == names.custom = 0

\* ... and the model replies, or fails ...
Reply(c) ==
    /\ call[c].pc = "thinking" /\ loop = Free
    /\ \/ Goes(c, "done")
       \/ Goes(c, IF MayStore THEN "storing" ELSE "done")
    /\ UNCHANGED <<question, names, loop, portal, posts, muddled, renames, overtaken, outrun>>

\* Variant: the metadata is replaced.
Replaced(c) == Title(call[c].about)

Stored(c) == [names EXCEPT !.generated = call[c].about]

\* ... a thread merges the title into the metadata, whatever the event loop does ...
Store(c) ==
    /\ call[c].pc = "storing"
    /\ names' = Stored(c)
    /\ Goes(c, "stored")
    /\ UNCHANGED <<question, loop, portal, posts, muddled, renames, overtaken, outrun>>

\* ... and the Portal is sent it.
Publish(c) ==
    /\ call[c].pc = "stored" /\ loop = Free
    /\ Send(Title(call[c].about))
    /\ Goes(c, "done")
    /\ UNCHANGED <<question, names, loop, renames, overtaken, outrun>>

-----------------------------------------------------------------------------
Init ==
    /\ question = 1 /\ names = Unnamed /\ loop = Free
    /\ call = [c \in Calls |-> At(c, "idle")]
    /\ portal = Unnamed /\ posts = <<>> /\ muddled = FALSE /\ renames = 0 /\ overtaken = {} /\ outrun = {}

Next ==
    \/ Rename \/ RecordReads \/ RecordWrites \/ Schedule \/ Edit \/ Drop \/ Carry \/ Arrive
    \/ \E i \in DOMAIN posts : Muddle(i)
    \/ \E c \in Calls :
         Ask(c) \/ Begin(c) \/ ReadHistory(c) \/ Reply(c) \/ Store(c) \/ Publish(c)

-----------------------------------------------------------------------------
(* Properties                                                              *)

\* Every variable keeps its type.
TypeOK ==
    /\ question \in 1..MaxQuestions /\ overtaken \subseteq 1..MaxQuestions
    /\ {names, portal, loop.copy}
         \subseteq [custom: 0..MaxRenames, generated: 0..MaxQuestions]
    /\ loop.op \in {"free", "record", "schedule", "edited", "drop"}
    /\ call \in [Calls -> [pc: {"idle", "waiting", "started", "reading", "thinking", "storing",
                                "stored", "done"},
                           force: BOOLEAN, about: 0..MaxQuestions, on: Calls]]
    /\ posts \in Seq([custom: 0..MaxRenames, generated: 0..MaxQuestions])
    /\ muddled \in BOOLEAN
    /\ renames \in 0..MaxRenames /\ outrun \subseteq Calls

\* The name a member gave is never lost or replaced by anything but another rename,
\* although titles are stored by a thread and records written back from a copy; and once
\* what was sent has arrived the Portal has it, unless the rename came while a title was
\* being stored, or an update was lost or overtaken.
CustomNameSticks ==
    /\ names.custom = renames
    /\ renames # 0 /\ posts = <<>> /\ ~muddled /\ outrun = {} => portal = Custom(renames)

\* A generated title is about the first question there is, unless that was edited while
\* the call that made the title was under way.
TitleIsOfFirstTurn ==
    loop = Free /\ names.generated # 0 =>
        names.generated \in {question} \cup overtaken

\* A session has the name its member gave it or, without one, a title of its own first turn.
NamesAreRight == CustomNameSticks /\ TitleIsOfFirstTurn
=============================================================================
