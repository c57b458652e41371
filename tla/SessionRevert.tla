----------------------------- MODULE SessionRevert -----------------------------
(***************************************************************************)
(* Taking a turn back: the runs of the sessions of one workspace save a    *)
(* snapshot of it before they start, publish it as the session's revert    *)
(* target when they finish, and revert_session and unrevert_session go     *)
(* back and forth between history and workspace (session/revert.py,        *)
(* runtime/agent.py, workspace_snapshots.py and the checkpoints of         *)
(* session/file_store.py under src/src/efp_runtime).                       *)
(*                                                                         *)
(* A turn is one number in the history of its session and one edit of the  *)
(* workspace, which the sessions share; a snapshot and a checkpoint hold   *)
(* what they saved.  Every operation but the turn runs without suspending. *)
(***************************************************************************)
EXTENDS Naturals, FiniteSets, FiniteSetsExt, Functions

CONSTANTS Sessions,
          Cap,           \* max_retained_snapshots
          MaxTurns,      \* turns of all sessions (a bound)
          MaxSnapshots,  \* snapshots ever taken (a bound)
          MaxCheckpoints \* checkpoints of a session (a bound)

RevertAssumption ==
    /\ {Cap} \subseteq Nat \ {0}
    /\ {MaxTurns, MaxSnapshots, MaxCheckpoints} \subseteq Nat

VARIABLES history,     \* turns in the history of a session
          turns,       \* turns a session ever had
          revert,      \* metadata["revert"] of a session
          checkpoints, \* what the checkpoints of a session hold
          snapshots,   \* the snapshots on disk
          taken,       \* snapshots ever taken: _next_snapshot_index
          leases,      \* _WORKSPACE_PROTECTED_SNAPSHOTS
          workspace,   \* edits in the workspace
          turn,        \* SessionRevertRunRecord of the run of a session
          meddled      \* what the user did to snapshots, checkpoints and targets of a session

vars == <<history, turns, revert, checkpoints, snapshots, taken, leases, workspace,
          turn, meddled>>

\* 0 is no turn, no snapshot and no checkpoint.
NoRevert == [active |-> FALSE, target |-> 0, snap |-> 0, undo |-> 0, point |-> 0,
             restored |-> FALSE]

NoRun == [pc |-> "idle", before |-> {}, snap |-> 0]

Edits(s, set) == {[session |-> s, turn |-> n] : n \in set}

Ids(set) == {x.id : x \in set}

Snapshot(id) == CHOOSE x \in snapshots : x.id = id

-----------------------------------------------------------------------------
(* WorkspaceSnapshotStore.  A disk is a set of snapshots and the references *)
(* of the sessions to them.                                                 *)

NewestTargets(targets) == {id \in targets : Cardinality({x \in targets : x > id}) < Cap}

\* Variant: only targets are kept.
NoUndo(disk) == {}

UndoPinned(disk) ==
    {x.id : x \in {y \in disk.set : /\ y.purpose = "undo"
                                    /\ disk.refs[y.session].active
                                    /\ disk.refs[y.session].undo = y.id}}

\* _retain_workspace_snapshots
Pinned(disk) ==
    LET targets == {x.id : x \in {y \in disk.set : /\ y.purpose = "target"
                                                   /\ disk.refs[y.session].snap = y.id}}
    IN NewestTargets(targets) \cup UndoPinned(disk)

\* invalidate_session_snapshot_references
Cleared(refs, gone) ==
    [s \in Sessions |-> [refs[s] EXCEPT
        !.snap = IF @ \in {x.id : x \in {y \in gone : y.session = s}} THEN 0 ELSE @,
        !.undo = IF @ \in {x.id : x \in {y \in gone : y.session = s}} THEN 0 ELSE @]]

\* Snapshots that nothing protects.
FreeSnapshots(disk, protected) == {x \in disk.set : x.id \notin protected \cup Pinned(disk)}

\* _prune_old_snapshots: the oldest of them go, down to the cap.
Pruned(disk, protected) ==
    LET free == FreeSnapshots(disk, protected)
        gone == {x \in free : Cardinality({y \in free : y.id <= x.id}) + Cap
                                <= Cardinality(disk.set)}
    IN [set |-> disk.set \ gone, refs |-> Cleared(disk.refs, gone)]

\* create_snapshot of what is in the workspace
Taken(disk, s, purpose, protected) ==
    Pruned([disk EXCEPT !.set = @ \cup {[id |-> taken + 1, session |-> s, purpose |-> purpose,
                                         holds |-> workspace]}],
           protected \cup {taken + 1})

Disk == [set |-> snapshots, refs |-> revert]

Becomes(disk) == snapshots' = disk.set /\ revert' = disk.refs

-----------------------------------------------------------------------------
(* Runs                                                                    *)

\* _prepare_session_revert_record
StartRun(s) ==
    /\ turn[s].pc = "idle" /\ taken < MaxSnapshots
    /\ taken' = taken + 1
    /\ leases' = leases \cup {taken + 1}
    /\ Becomes(Taken(Disk, s, "target", leases))
    /\ turn' = [turn EXCEPT ![s] = [pc |-> "running", before |-> history[s], snap |-> taken + 1]]
    /\ meddled' = [meddled EXCEPT ![s] = @ \ {"moving"}]
    /\ UNCHANGED <<history, turns, checkpoints, workspace>>

\* The run appends its messages and edits the workspace.
Turn(s) ==
    /\ turn[s].pc = "running" /\ FoldFunction(+, 0, turns) < MaxTurns
    /\ turns' = [turns EXCEPT ![s] = @ + 1]
    /\ history' = [history EXCEPT ![s] = @ \cup {turns[s] + 1}]
    /\ workspace' = workspace \cup Edits(s, {turns[s] + 1})
    /\ UNCHANGED <<revert, checkpoints, snapshots, taken, leases, turn, meddled>>

Released(s, failed) == leases \ {turn[s].snap}

Published(s, published) ==
    Pruned([Disk EXCEPT !.refs[s] = published], leases \ {turn[s].snap})

\* Variant: the first message of the session.
FirstOfAll(s) == IF history[s] = {} THEN 0 ELSE Min(history[s])

\* _first_new_message_id
FirstNew(s) ==
    LET new == history[s] \ turn[s].before IN IF new = {} THEN 0 ELSE Min(new)

\* finalize_session_revert_record, then release_snapshot_protection
FinishRun(s) ==
    /\ turn[s].pc = "running"
    /\ Becomes(Published(s, [NoRevert EXCEPT
           !.target = FirstNew(s), !.snap = turn[s].snap]))
    /\ leases' = Released(s, FALSE)
    /\ turn' = [turn EXCEPT ![s] = NoRun]
    /\ meddled' = [meddled EXCEPT ![s] = IF "moving" \in @ THEN {"moved"} ELSE {}]
    /\ UNCHANGED <<history, turns, checkpoints, taken, workspace>>

\* _release_session_revert_record of a run that is cancelled or raises
FailRun(s) ==
    /\ turn[s].pc = "running"
    /\ Becomes(Pruned(Disk, Released(s, TRUE)))
    /\ leases' = Released(s, TRUE)
    /\ turn' = [turn EXCEPT ![s] = NoRun]
    /\ UNCHANGED <<history, turns, checkpoints, taken, workspace, meddled>>

-----------------------------------------------------------------------------
(* Revert and unrevert                                                     *)

Saved(s) == [history |-> history[s], revert |-> revert[s]]

Numbered(s) == Cardinality(checkpoints[s]) + 1

\* The saved state gets a number of its own.
Checkpointed(s) ==
    /\ Numbered(s) <= MaxCheckpoints
    /\ checkpoints' = [checkpoints EXCEPT ![s] = @ \cup {[no |-> Numbered(s), holds |-> Saved(s)]}]

\* _resolve_revert_target: the turn that is named, the target, or the last turn.
Target(s, named) ==
    IF named # 0 THEN named
    ELSE IF revert[s].target # 0 THEN revert[s].target
    ELSE IF history[s] = {} THEN 0 ELSE Max(history[s])

LeasedFor(s) == leases \cup {revert[s].snap}

\* The disk once the workspace that is replaced is saved, and the record of the revert.
UndoDisk(s) == IF revert[s].snap = 0 THEN Disk ELSE Taken(Disk, s, "undo", LeasedFor(s))

RevertRecord(ref, s, target) ==
    LET snap == revert[s].snap
    IN [ref EXCEPT !.active = TRUE, !.target = target, !.snap = snap,
                   !.undo = IF snap = 0 THEN 0 ELSE taken + 1,
                   !.point = Numbered(s), !.restored = snap # 0]

Recorded(s, target) ==
    LET disk == UndoDisk(s) IN [disk EXCEPT !.refs[s] = RevertRecord(@, s, target)]

\* revert_session_state.  A target that is not in the history is an error before
\* anything is done; a snapshot that is not on disk one that leaves a checkpoint.
Revert(s, named) ==
    LET target == Target(s, named)
        snap == revert[s].snap
    IN /\ target \in history[s]
       /\ Checkpointed(s)
       /\ IF snap # 0 /\ snap \notin Ids(snapshots)
          THEN UNCHANGED <<history, revert, snapshots, taken, workspace>>
          ELSE /\ history' = [history EXCEPT ![s] = {n \in @ : n < target}]
               /\ IF snap = 0
                  THEN Becomes(Recorded(s, target)) /\ UNCHANGED <<taken, workspace>>
                  ELSE /\ taken < MaxSnapshots
                       /\ taken' = taken + 1
                       /\ Becomes(Pruned(Recorded(s, target), leases))
                       /\ workspace' = Snapshot(snap).holds
       /\ meddled' = [meddled EXCEPT ![s] =
              IF target = revert[s].target THEN @ ELSE @ \cup {"retargeted"}]
       /\ UNCHANGED <<turns, leases, turn>>

\* Old turns come back to the history, perhaps under a run.
BringsBack(s, deed) ==
    meddled' = [meddled EXCEPT ![s] =
        @ \cup deed \cup (IF turn[s].pc = "running" THEN {"moving"} ELSE {})]

\* unrevert_session_state: the history first, then the workspace, then the record.
\* An undo snapshot that is not on disk ends it after the history.
Unrevert(s) ==
    /\ revert[s].active
    /\ \E c \in checkpoints[s] :
         /\ c.no = revert[s].point
         /\ history' = [history EXCEPT ![s] = c.holds.history]
         /\ IF revert[s].undo # 0 /\ revert[s].undo \notin Ids(snapshots)
            THEN /\ revert' = [revert EXCEPT ![s] = c.holds.revert]
                 /\ UNCHANGED workspace
            ELSE /\ revert' = [revert EXCEPT ![s].active = FALSE]
                 /\ workspace' = IF revert[s].undo = 0 THEN workspace
                                 ELSE Snapshot(revert[s].undo).holds
    /\ BringsBack(s, {})
    /\ UNCHANGED <<turns, checkpoints, snapshots, taken, leases, turn>>

CreateCheckpoint(s) ==
    /\ history[s] # {} /\ Checkpointed(s)
    /\ UNCHANGED <<history, turns, revert, snapshots, taken, leases, workspace, turn, meddled>>

\* restore_checkpoint brings back the metadata of the session as well.
RestoreCheckpoint(s) ==
    /\ \E c \in checkpoints[s] :
         /\ history' = [history EXCEPT ![s] = c.holds.history]
         /\ revert' = [revert EXCEPT ![s] = c.holds.revert]
    /\ BringsBack(s, {"restored"})
    /\ UNCHANGED <<turns, checkpoints, snapshots, taken, leases, workspace, turn>>

\* delete_workspace_snapshot of one that nobody protects
DeleteSnapshot(x) ==
    /\ x.id \notin leases
    /\ Becomes([set |-> snapshots \ {x}, refs |-> Cleared(revert, {x})])
    /\ meddled' = [meddled EXCEPT ![x.session] = @ \cup {"deleted"}]
    /\ UNCHANGED <<history, turns, checkpoints, taken, leases, workspace, turn>>

-----------------------------------------------------------------------------
Init ==
    /\ history = [s \in Sessions |-> {}]
    /\ turns = [s \in Sessions |-> 0]
    /\ revert = [s \in Sessions |-> NoRevert]
    /\ checkpoints = [s \in Sessions |-> {}]
    /\ snapshots = {} /\ taken = 0 /\ leases = {}
    /\ workspace = {}
    /\ turn = [s \in Sessions |-> NoRun]
    /\ meddled = [s \in Sessions |-> {}]

Next ==
    \/ \E s \in Sessions :
         \/ StartRun(s) \/ Turn(s) \/ FinishRun(s) \/ FailRun(s)
         \/ \E named \in {0} \cup history[s] : Revert(s, named)
         \/ Unrevert(s) \/ CreateCheckpoint(s) \/ RestoreCheckpoint(s)
    \/ \E x \in snapshots : DeleteSnapshot(x)

Spec == Init /\ [][Next]_vars

-----------------------------------------------------------------------------
(* Properties                                                              *)

\* Every variable keeps its type: turns and snapshots are those there were, and every
\* snapshot has an id of its own.
TypeOK ==
    LET Snaps == 0..taken
        Reverts(s) == [active: BOOLEAN, target: 0..turns[s], snap: Snaps, undo: Snaps,
                       point: 0..MaxCheckpoints, restored: BOOLEAN]
    IN /\ turns \in [Sessions -> Nat] /\ taken \in Nat
       /\ \A s \in Sessions :
            /\ history[s] \subseteq 1..turns[s] /\ revert[s] \in Reverts(s)
            /\ \A c \in checkpoints[s] :
                 /\ c.no \in 1..MaxCheckpoints
                 /\ c.holds \in [history: SUBSET (1..turns[s]), revert: Reverts(s)]
            /\ turn[s] \in [pc: {"idle", "running"}, before: SUBSET (1..turns[s]), snap: Snaps]
       /\ Ids(snapshots) \subseteq 1..taken
       /\ Cardinality(Ids(snapshots)) = Cardinality(snapshots)

\* A snapshot is protected exactly as long as the run that took it is in flight, however
\* the run ends: a lease left behind would keep it for the life of the process.
LeaseIsHeld == leases = {turn[s].snap : s \in {t \in Sessions : turn[t].pc = "running"}}

\* A session refers to snapshots that are on disk, whoever pruned or deleted others,
\* unless the user restored a checkpoint, whose references nobody kept up.
ReferencesExist ==
    \A s \in Sessions :
        "restored" \notin meddled[s] => {revert[s].snap, revert[s].undo} \subseteq {0} \cup Ids(snapshots)

\* As long as a revert is active, the workspace it replaced can be brought back,
\* unless the user deleted a snapshot or restored a checkpoint.
UndoIsKept ==
    \A s \in Sessions :
        revert[s].active /\ revert[s].restored /\ meddled[s] \cap {"deleted", "restored"} = {}
        => revert[s].undo # 0

\* Retention takes no snapshot away that somebody needs: not those the runs in flight of
\* any session will publish, not those the sessions refer to, and not the workspace a
\* revert replaced.
SnapshotsAreKept ==
    LeaseIsHeld /\ leases \subseteq Ids(snapshots) /\ ReferencesExist /\ UndoIsKept

\* The turns a step takes out of the history of a session.
Trimmed(s) == history[s] \ history'[s]

\* A revert to the target the last run published leaves no edit of the turns it takes
\* out of the history, as it says it does: unless the user meddled with the snapshots,
\* the checkpoints or the target since, or brought old turns back under that run.
LastTurnIsUndone ==
    [][\A s \in Sessions :
          /\ Revert(s, 0) /\ revert'[s].restored
          /\ revert[s].target # 0 /\ ~revert[s].active /\ meddled[s] = {}
          => workspace' \cap Edits(s, Trimmed(s)) = {}]_vars
=============================================================================
