------------------------------ MODULE SessionFiles ------------------------------
(***************************************************************************)
(* The session files and the caches in front of them                       *)
(* (src/src/efp_runtime/session/file_store.py).                            *)
(*                                                                         *)
(* One store serves the process and holds its lock for a whole operation,  *)
(* so only a crash cuts one short.  A session is the set of updates that   *)
(* were applied to it.  The clock of the file system may stand still       *)
(* between two writes, and files of different content may have one size:   *)
(* then nothing tells a cached session from the file that replaced it.     *)
(***************************************************************************)
EXTENDS Naturals, Sequences, FiniteSets, Functions

CONSTANTS Sessions,
          MaxUpdates,  \* updates ever asked for (a bound)
          MaxClock,    \* ticks of the file system's clock (a bound)
          ParseMax,    \* _parse_cache_max
          SummaryMax,  \* _summary_cache_max
          Large        \* sizes above _parse_cache_max_bytes; a size is 0 or 1

FilesAssumption == {MaxUpdates, ParseMax, SummaryMax} \subseteq Nat /\ MaxClock \in Nat \ {0}

VARIABLES file,    \* the file of a session, or NoFile
          clock,   \* the time the next write is stamped with
          parsed,  \* _parse_cache, least recently used first
          summary, \* _summary_cache, likewise
          stray,   \* temporary files a crash left behind
          asked,   \* updates asked for so far
          acked,   \* the updates of a session that returned
          unknown  \* the updates of a session cut short by a crash

vars == <<file, clock, parsed, summary, stray, asked, acked, unknown>>

NoFile == [at |-> 0, size |-> 0, holds |-> {}]

Exists(s) == file[s] # NoFile

-----------------------------------------------------------------------------
(* Caches                                                                  *)

Entry(s, f) == [session |-> s, file |-> f]

\* The entry of a session, which has one at most, is popped.
Popped(cache, k) == SubSeq(cache, 1, k - 1) \o SubSeq(cache, k + 1, Len(cache))

Without(cache, s) ==
    LET at == {k \in DOMAIN cache : cache[k].session = s}
    IN IF at = {} THEN cache ELSE Popped(cache, CHOOSE k \in at : TRUE)

\* Put an entry last, and drop the first ones beyond the limit.
Put(cache, s, f, max) ==
    LET new == Append(Without(cache, s), Entry(s, f))
    IN IF Len(new) > max THEN SubSeq(new, Len(new) - max + 1, Len(new)) ELSE new

\* _parse_cache_put
ParsePut(s, f) == IF f.size \in Large THEN Without(parsed, s) ELSE Put(parsed, s, f, ParseMax)

Valid(cache, s) ==
    {e \in Range(cache) : e.session = s /\ e.file.at = file[s].at /\ e.file.size = file[s].size}

\* What a reader takes for the file.
Seen(cache, s) == IF Valid(cache, s) = {} THEN file[s] ELSE (CHOOSE e \in Valid(cache, s) : TRUE).file

\* _read_session_file_locked
Loaded(s) == parsed' = ParsePut(s, Seen(parsed, s))

\* Variant: where the stat fails, the caches stay.
RefreshedIfSeen(s, f, statFails) ==
    IF statFails THEN UNCHANGED <<parsed, summary>>
    ELSE parsed' = ParsePut(s, f) /\ summary' = Put(summary, s, f, SummaryMax)

\* _refresh_caches_after_write
Refreshed(s, f, statFails) ==
    IF statFails THEN parsed' = Without(parsed, s) /\ summary' = Without(summary, s)
    ELSE parsed' = ParsePut(s, f) /\ summary' = Put(summary, s, f, SummaryMax)

-----------------------------------------------------------------------------
(* Operations                                                              *)

\* get_session
Read(s) ==
    /\ Exists(s)
    /\ Loaded(s)
    /\ UNCHANGED <<file, clock, summary, stray, asked, acked, unknown>>

\* list_session_summaries, of one file: it goes through the parse cache, but stores
\* nothing there.
List(s) ==
    /\ Exists(s)
    /\ LET f == IF Valid(summary, s) # {} THEN Seen(summary, s) ELSE Seen(parsed, s)
       IN summary' = Put(summary, s, f, SummaryMax)
    /\ IF Valid(summary, s) = {} /\ Valid(parsed, s) # {} THEN Loaded(s) ELSE UNCHANGED parsed
    /\ UNCHANGED <<file, clock, stray, asked, acked, unknown>>

\* The file that replaces the one of session s.
Written(s, base, size) ==
    [at |-> clock, size |-> size, holds |-> base \cup {asked + 1}]

\* Variant: an update changes the cached session, also where the write fails.
OnCached(s, base) ==
    parsed' = [k \in DOMAIN parsed |-> IF parsed[k].session = s
        THEN [parsed[k] EXCEPT !.file.holds = @ \cup {asked + 1}] ELSE parsed[k]]

\* _read_session_locked_mutable: an update works on a copy.
OnCopy(s, base) == IF base = {} THEN UNCHANGED parsed ELSE Loaded(s)

\* An operation that writes the session it read, or a new one: _write_session_locked
\* either fails before the file is replaced, or replaces it.
Write(s, base) ==
    /\ asked < MaxUpdates
    /\ asked' = asked + 1
    /\ \/ OnCopy(s, base) /\ UNCHANGED <<file, summary, acked>>
       \/ \E size \in {0, 1}, statFails \in BOOLEAN :
            /\ file' = [file EXCEPT ![s] = Written(s, base, size)]
            /\ Refreshed(s, Written(s, base, size), statFails)
            /\ acked' = [acked EXCEPT ![s] = @ \cup {asked + 1}]
    /\ UNCHANGED <<clock, stray, unknown>>

\* create_session
Create(s) == ~Exists(s) /\ Write(s, {})

\* update_session, append_message and the other operations on an existing session
Update(s) == Exists(s) /\ Write(s, Seen(parsed, s).holds)

\* delete_session
Delete(s) ==
    /\ Exists(s)
    /\ file' = [file EXCEPT ![s] = NoFile]
    /\ parsed' = Without(parsed, s) /\ summary' = Without(summary, s)
    /\ acked' = [acked EXCEPT ![s] = {}] /\ unknown' = [unknown EXCEPT ![s] = {}]
    /\ UNCHANGED <<clock, stray, asked>>

\* What a crash in a write leaves of the file.
Cut(s) == {file[s]} \cup {Written(s, Seen(parsed, s).holds, size) : size \in {0, 1}}

\* The process dies while it writes, before or after the file is replaced.
CrashInWrite(s) ==
    /\ Exists(s) /\ asked < MaxUpdates
    /\ asked' = asked + 1
    /\ \E f \in Cut(s) : /\ file' = [file EXCEPT ![s] = f]
                         /\ stray' = IF f = file[s] THEN stray \cup {s} ELSE stray
    /\ unknown' = [unknown EXCEPT ![s] = @ \cup {asked + 1}]
    /\ parsed' = <<>> /\ summary' = <<>>
    /\ UNCHANGED <<clock, acked>>

Tick == clock < MaxClock /\ clock' = clock + 1
        /\ UNCHANGED <<file, parsed, summary, stray, asked, acked, unknown>>

-----------------------------------------------------------------------------
Init ==
    /\ file = [s \in Sessions |-> NoFile] /\ clock = 1
    /\ parsed = <<>> /\ summary = <<>> /\ stray = {} /\ asked = 0
    /\ acked = [s \in Sessions |-> {}] /\ unknown = [s \in Sessions |-> {}]

Next ==
    \/ \E s \in Sessions :
         Create(s) \/ Update(s) \/ Read(s) \/ List(s) \/ Delete(s) \/ CrashInWrite(s)
    \/ Tick

-----------------------------------------------------------------------------
(* Properties                                                              *)

\* Every variable keeps its type.
TypeOK ==
    /\ \A s \in Sessions : file[s].at \in 0..clock /\ file[s].size \in {0, 1}
    /\ clock \in 1..MaxClock /\ asked \in 0..MaxUpdates
    /\ Len(parsed) <= ParseMax /\ Len(summary) <= SummaryMax
    /\ \A e \in Range(parsed) : e.session \in Sessions /\ e.file.size \notin Large
    /\ stray \subseteq Sessions
    /\ {acked, unknown} \subseteq [Sessions -> SUBSET (1..asked)]

\* Every session has all the updates that returned, none that failed and at most those of a
\* crash, whatever the updates were computed from; only one that was deleted has no file, as
\* a crash leaves the old file or the new one.
NothingIsLost ==
    \A s \in Sessions :
        IF Exists(s) THEN acked[s] \subseteq file[s].holds /\ file[s].holds \subseteq acked[s] \cup unknown[s]
        ELSE acked[s] = {}

\* Where the time and the size of the file say that a cache entry is current, it is.
CacheIsCurrent ==
    \A s \in Sessions : Exists(s) => Seen(parsed, s) = file[s] /\ Seen(summary, s) = file[s]

\* A read, from a cache or not, gives what the updates that returned have made.
ReadsAreTrue == NothingIsLost /\ CacheIsCurrent
=============================================================================
