------------------------------ MODULE StepCommit ------------------------------
(***************************************************************************)
(* The writer's commit path in src/src/H5VLstream.c, for a serial writer:  *)
(* the step state machine, the capture of dataset creates and writes, the  *)
(* manifest and its two type dictionaries, the replay into /step/<n>/, the *)
(* path index, the queue policies Block, Discard and Spill with the drain  *)
(* of spilled steps, retention, and the abort of a step that failed.       *)
(*                                                                         *)
(* One thread calls the connector, so its actions never overlap; what does *)
(* run concurrently with end_step is the transport's progress engine,      *)
(* which updates the lag table (ReaderAck) and the membership (ReaderLeave)*)
(* between any two of the writer's steps.                                  *)
(***************************************************************************)
EXTENDS Integers, Sequences, FiniteSets, FiniteSetsExt

CONSTANTS
    Paths,        \* dataset names
    Types,        \* datatypes, as H5Tencode spells them
    NoType,       \* an empty type_enc, and a path the dictionary lacks
    Readers,      \* group members that may acknowledge steps
    Policies,     \* the policies H5Fset_stream_queue_policy is called with
    Reserves,     \* ... and the reserve_slots values
    Retentions,   \* the <<max_steps, max_bytes>> pairs of the retention call
    PendingLimit, \* max_pending_bytes; 0 is no limit
    HaveBake,     \* VOL_STREAM_HAVE_BAKE
    Faults,       \* what may go wrong, a subset of FaultKinds
    Word,         \* 2^64 in the code: the lag arithmetic is modulo Word
    MaxPolls,     \* 600 in the code: how often Block looks before giving up
    MaxSteps,     \* bound: steps begun with physical_step < MaxSteps
    MaxEntries,   \* bound: entries captured in one step
    MaxIndex      \* bound: no end_step once a path's index list is this long
                  \* (every retried drain appends to it)

FaultKinds == {"double_create",  \* the application creates a path twice
               "storage",        \* an HDF5 call of the replay fails
               "bake_start", "bake_write", "bake_read"}

ASSUME ConstantsAssumption ==
    /\ NoType \notin Types
    /\ Policies \subseteq {"Block", "Discard", "Spill"}
    /\ Reserves \subseteq Nat
    /\ Retentions \subseteq Nat \X Nat
    /\ PendingLimit \in Nat
    /\ HaveBake \in BOOLEAN
    /\ Faults \subseteq FaultKinds
    /\ Word \in Nat \ {0}
    /\ MaxPolls \in Nat
    /\ MaxSteps \in Nat
    /\ MaxEntries \in Nat
    /\ MaxIndex \in Nat

VARIABLES
    phase,         \* step_state, with COMMITTING split by where end_step is
    physical_step, \* number of the step being captured or about to be
    pending,       \* fs->pending: the entries captured in the open step
    handle,        \* the application's handle on each path
    write_type_cache, replay_type_cache,
    path_index,    \* per path, the steps that carry it, as appended
    file,          \* /step/<n> in the underlying file
    pending_spill, \* fs->pending_spill: the manifests waiting in BAKE
    drain_to,      \* the lag view the drain loop was entered with
    polls,         \* iterations of the Block loop
    queue_policy, reserve_slots,
    retention,     \* <<max_steps, max_bytes>>, or NoRetention
    retain_floor, retain_bytes,
    lag_table,     \* the newest step each reader acknowledged
    present,       \* readers still in the group
    dropped,       \* history: steps the Discard policy dropped
    tainted,       \* history: paths written by a step that failed
    seen           \* history: readers tracked at the last lag view

captureVars == <<pending, handle>>
cacheVars   == <<write_type_cache, replay_type_cache>>
policyVars  == <<queue_policy, reserve_slots>>
retainVars  == <<retention, retain_floor, retain_bytes>>
lagVars     == <<lag_table, present>>
viewVars    == <<drain_to, polls, seen>>
vars == <<phase, physical_step, captureVars, cacheVars, path_index, file,
          pending_spill, viewVars, policyVars, retainVars, lagVars, dropped, tainted>>

-----------------------------------------------------------------------------
Steps       == 0 .. MaxSteps
NoAck       == -1
NoRetention == <<>>

EntryKinds == {"create", "write"}
Entry == [kind : EntryKinds, path : Paths, type : Types, owner : BOOLEAN]
\* A manifest entry: enc is what was encoded, type what the payload holds.
Record == [kind : EntryKinds, path : Paths, type : Types,
           enc : Types \cup {NoType}]
Cache  == [Paths -> Types \cup {NoType}]
Handle == [state : {"closed", "placeholder", "live"}, index : Nat]
Closed == [state |-> "closed", index |-> 0]
Datum  == [path : Paths, wrote : Types, as : Types]
StepGroup == [group : BOOLEAN,      \* /step/<n> exists
              made : SUBSET Paths,  \* datasets created in it
              data : SUBSET Datum,  \* writes: sent as wrote, decoded as as
              full : BOOLEAN,       \* every entry was replayed
              manifest : BOOLEAN]   \* .manifest exists
NoGroup == [group |-> FALSE, made |-> {}, data |-> {},
            full |-> FALSE, manifest |-> FALSE]
Spilled == [step : Steps, manifest : Seq(Record)]

Committing == {"drain", "draining", "decide", "block", "replay",
               "committed", "failed"}
Phases     == {"NOT_IN_STEP", "IN_STEP", "closed", "crashed"} \cup Committing
FileOpen   == phase \notin {"closed", "crashed"}
Idle       == phase \in {"NOT_IN_STEP", "IN_STEP"}

Init ==
    /\ phase = "NOT_IN_STEP"
    /\ physical_step = 0
    /\ pending = <<>>
    /\ handle = [p \in Paths |-> Closed]
    /\ write_type_cache = [p \in Paths |-> NoType]
    /\ replay_type_cache = [p \in Paths |-> NoType]
    /\ path_index = [p \in Paths |-> <<>>]
    /\ file = [n \in Steps |-> NoGroup]
    /\ pending_spill = <<>>
    /\ drain_to = 0
    /\ polls = 0
    /\ queue_policy = "none"
    /\ reserve_slots = 0
    /\ retention = NoRetention
    /\ retain_floor = 0
    /\ retain_bytes = <<>>
    /\ lag_table = [r \in Readers |-> NoAck]
    /\ present = Readers
    /\ dropped = {}
    /\ tainted = {}
    /\ seen = {}

-----------------------------------------------------------------------------
(* Membership and lag: what the progress engine's callbacks change.        *)

\* The furthest-behind reader's step: a singleton, empty when none is tracked.
Tracked == {r \in present : lag_table[r] # NoAck}
LagView == {lag_table[r] : r \in {q \in Tracked :
                \A o \in Tracked : lag_table[q] <= lag_table[o]}}

\* physical_step <= min_acked + reserve_slots, in 64-bit arithmetic.
InWindow(step, min_acked) == step <= (min_acked + reserve_slots) % Word

\* An acknowledgement of a committed step arrives; it may be an old one.
NewLagLast(r, step) == step  \* mutant: the last acknowledgement wins
NewLag(r, step) == IF step > lag_table[r] THEN step ELSE lag_table[r]
ReaderAck(r, step) ==
    /\ r \in present
    /\ step < physical_step
    /\ lag_table' = [lag_table EXCEPT ![r] = NewLag(r, step)]
    /\ UNCHANGED <<phase, physical_step, captureVars, cacheVars, path_index,
                   file, pending_spill, viewVars, policyVars, retainVars,
                   present, dropped, tainted>>

\* The member leaves or dies. Its lag entry stays; the view ignores it.
ReaderLeave(r) ==
    /\ r \in present
    /\ present' = present \ {r}
    /\ UNCHANGED <<phase, physical_step, captureVars, cacheVars, path_index,
                   file, pending_spill, viewVars, policyVars, retainVars,
                   lag_table, dropped, tainted>>

-----------------------------------------------------------------------------
(* The application's calls.                                                *)

BeginStep ==
    /\ phase = "NOT_IN_STEP"
    /\ physical_step < MaxSteps
    /\ phase' = "IN_STEP"
    /\ UNCHANGED <<physical_step, captureVars, cacheVars, path_index, file,
                   pending_spill, viewVars, policyVars, retainVars, lagVars,
                   dropped, tainted>>

Creates(es, p)  == {i \in DOMAIN es : es[i].kind = "create" /\ es[i].path = p}
PendingBytes    == Cardinality({i \in DOMAIN pending : pending[i].kind = "write"})
NewEntry(kind, p, t, owner) ==
    [kind |-> kind, path |-> p, type |-> t, owner |-> owner]

\* H5Dcreate inside a step: a placeholder that remembers its entry's index.
DatasetCreate(p, t) ==
    /\ phase = "IN_STEP"
    /\ handle[p].state = "closed"
    /\ Creates(pending, p) = {} \/ "double_create" \in Faults
    /\ Len(pending) < MaxEntries
    /\ pending' = Append(pending, NewEntry("create", p, t, TRUE))
    /\ handle' = [handle EXCEPT ![p] = [state |-> "placeholder",
                                        index |-> Len(pending) + 1]]
    /\ UNCHANGED <<phase, physical_step, cacheVars, path_index, file,
                   pending_spill, viewVars, policyVars, retainVars, lagVars,
                   dropped, tainted>>

\* The placeholder's index names the create entry its own H5Dcreate left.
OwnsEntry(p) == /\ handle[p].index \in DOMAIN pending
                /\ handle[p].index \in Creates(pending, p)
                /\ pending[handle[p].index].owner

\* step_create_index: a live dataset rewritten in a step gets one
\* synthesized create, which no handle owns.
WithCreate(p, t) ==
    IF handle[p].state = "live" /\ Creates(pending, p) = {}
    THEN Append(pending, NewEntry("create", p, t, FALSE))
    ELSE pending

\* pending_append refuses a payload over the limit. By then the synthesized
\* create is already in the step, and it stays there.
DatasetWrite(p, t) ==
    LET es == WithCreate(p, t) IN
    /\ phase = "IN_STEP"
    /\ \/ handle[p].state = "live"
       \/ handle[p].state = "placeholder" /\ OwnsEntry(p)
    /\ Len(es) < MaxEntries
    /\ pending' = IF PendingLimit > 0 /\ PendingBytes >= PendingLimit
                  THEN es
                  ELSE Append(es, NewEntry("write", p, t, FALSE))
    /\ UNCHANGED <<phase, physical_step, handle, cacheVars, path_index, file,
                   pending_spill, viewVars, policyVars, retainVars, lagVars,
                   dropped, tainted>>

\* H5Dwrite through a placeholder whose step is gone: capture does not ask
\* whether a step is open, and pending[] is read at an index that is no longer
\* the handle's. The read faults, or finds some other entry's dataspace.
DatasetWriteStale(p, t) ==
    /\ Idle \/ phase = "closed"
    /\ handle[p].state = "placeholder" /\ ~OwnsEntry(p)
    /\ \/ phase' = "crashed" /\ UNCHANGED pending
       \/ /\ pending # <<>> /\ Len(pending) < MaxEntries
          /\ pending' = Append(pending, NewEntry("write", p, t, FALSE))
          /\ UNCHANGED phase
    /\ UNCHANGED <<physical_step, handle, cacheVars, path_index, file,
                   pending_spill, viewVars, policyVars, retainVars, lagVars,
                   dropped, tainted>>

\* H5Dclose: a placeholder first withdraws from the entry it owns.
DatasetClose(p) ==
    /\ Idle
    /\ handle[p].state # "closed"
    /\ pending' = IF handle[p].state = "placeholder" /\ OwnsEntry(p)
                  THEN [pending EXCEPT ![handle[p].index].owner = FALSE]
                  ELSE pending
    /\ handle' = [handle EXCEPT ![p] = Closed]
    /\ UNCHANGED <<phase, physical_step, cacheVars, path_index, file,
                   pending_spill, viewVars, policyVars, retainVars, lagVars,
                   dropped, tainted>>

SetQueuePolicy(policy, reserve) ==
    /\ Idle
    /\ queue_policy' = policy
    /\ reserve_slots' = reserve
    /\ UNCHANGED <<phase, physical_step, captureVars, cacheVars, path_index,
                   file, pending_spill, viewVars, retainVars, lagVars, dropped, tainted>>

\* mutant: the steps already committed are not counted
SetRetentionForgets(bounds) ==
    /\ Idle
    /\ retention' = bounds
    /\ UNCHANGED <<phase, physical_step, captureVars, cacheVars, path_index,
                   file, pending_spill, viewVars, policyVars, lagVars, dropped,
                   tainted, retain_bytes, retain_floor>>

\* Steps committed before the call are counted, with unknown size 0.
SetRetention(bounds) ==
    /\ Idle
    /\ retention' = bounds
    /\ IF physical_step > 0 /\ retain_bytes = <<>>
       THEN /\ retain_bytes' = [i \in 1 .. physical_step |-> 0]
            /\ retain_floor' = 0
       ELSE UNCHANGED <<retain_bytes, retain_floor>>
    /\ UNCHANGED <<phase, physical_step, captureVars, cacheVars, path_index,
                   file, pending_spill, viewVars, policyVars, lagVars, dropped, tainted>>

\* An open step is discarded, and what is still in BAKE is abandoned.
FileClose ==
    /\ Idle
    /\ phase' = "closed"
    /\ pending' = <<>>
    /\ pending_spill' = <<>>
    /\ UNCHANGED <<physical_step, handle, cacheVars, path_index, file,
                   viewVars, policyVars, retainVars, lagVars, dropped, tainted>>

-----------------------------------------------------------------------------
(* The manifest: type dictionaries, encoding and replay.                   *)

WritesTo(es, p) == {i \in DOMAIN es : es[i].kind = "write" /\ es[i].path = p}

\* mutant: the dictionary keeps the first type it saw for a path
TypeSentFirst(es, n, p) ==
    LET S == {i \in WritesTo(es, p) : i <= n} IN
    IF S = {} \/ write_type_cache[p] # NoType THEN write_type_cache[p]
    ELSE es[Min(S)].type

\* write_type_cache[p] once es[1 .. n] are encoded.
TypeSent(es, n, p) ==
    LET S == {i \in WritesTo(es, p) : i <= n} IN
    IF S = {} THEN write_type_cache[p]
    ELSE es[Max(S)].type

\* build_manifest: a write's type is omitted when it is the one last sent.
BuildManifest(es) ==
    [i \in DOMAIN es |->
        [kind |-> es[i].kind, path |-> es[i].path, type |-> es[i].type,
         enc  |-> IF /\ es[i].kind = "write"
                     /\ TypeSent(es, i - 1, es[i].path) = es[i].type
                  THEN NoType ELSE es[i].type]]
CacheAfterBuild(es) == [p \in Paths |-> TypeSent(es, Len(es), p)]

\* replay_type_cache[p] once m[1 .. n] are replayed.
TypeKnown(m, n, p) ==
    LET S == {i \in WritesTo(m, p) : i <= n /\ m[i].enc # NoType} IN
    IF S = {} THEN replay_type_cache[p]
    ELSE m[Max(S)].enc

\* mutant: the result of the dictionary lookup is not checked
CannotReplayUnchecked(m, n, i) ==
    LET p == m[i].path
        before == {j \in Creates(m, p) : j < i}
    IN  IF m[i].kind = "create"
        THEN p \in file[n].made \/ before # {}
        ELSE before = {}

\* replay_manifest gives up at entry i of m: the dataset exists already, the
\* omitted type is unknown, or no earlier entry created the dataset.
CannotReplay(m, n, i) ==
    LET p == m[i].path
        before == {j \in Creates(m, p) : j < i}
    IN  IF m[i].kind = "create"
        THEN p \in file[n].made \/ before # {}
        ELSE before = {} \/ TypeKnown(m, i, p) = NoType

\* Where a replay of m into step n may end: at the entry that fails, or
\* behind the last one when none does.
ReplayEnds(m, n) ==
    {f \in 1 .. Len(m) + 1 :
        /\ \A i \in 1 .. f - 1 : ~CannotReplay(m, n, i)
        /\ f <= Len(m) => CannotReplay(m, n, f) \/ "storage" \in Faults}

\* Whether .manifest is attempted: behind the last entry, empty step or not.
Persists(m, f) == f = Len(m) + 1

\* /step/<n> after a replay of m that ended at f; has is whether .manifest,
\* whose failure is ignored, could be created.
Replayed(m, n, f, has) ==
    LET old == file[n]
    IN  [group |-> old.group \/ f > 1 \/ Persists(m, f),
         made  |-> old.made \cup {m[i].path : i \in
                       {j \in 1 .. f - 1 : m[j].kind = "create"}},
         data  |-> old.data \cup
                   {[path |-> m[i].path, wrote |-> m[i].type,
                     as |-> TypeKnown(m, i, m[i].path)] :
                        i \in {j \in 1 .. f - 1 : m[j].kind = "write"}},
         full  |-> f = Len(m) + 1,
         manifest |-> Persists(m, f) /\ has]
ManifestFates == IF "storage" \in Faults THEN BOOLEAN ELSE {TRUE}

\* path_index_add runs before the create it describes is attempted.
IndexAdd(m, n, f) ==
    [p \in Paths |->
        path_index[p] \o [i \in 1 .. Cardinality({j \in Creates(m, p) : j <= f})
                            |-> n]]

\* replay_type_cache after a replay of m that ended at f.
CacheAfterReplayLost(m, f) == replay_type_cache  \* mutant: learns nothing
CacheAfterReplay(m, f) == [p \in Paths |-> TypeKnown(m, f, p)]

-----------------------------------------------------------------------------
(* end_step.                                                               *)

\* policy_active: with no policy set, end_step goes straight to the replay.
EndStep ==
    /\ phase = "IN_STEP"
    /\ \A p \in Paths : Len(path_index[p]) < MaxIndex
    /\ phase' = IF queue_policy = "none" THEN "replay" ELSE "drain"
    /\ UNCHANGED <<physical_step, captureVars, cacheVars, path_index, file,
                   pending_spill, viewVars, policyVars, retainVars,
                   lagVars, dropped, tainted>>

\* The first lag view: how far the spilled backlog may be drained.
StartDrain ==
    /\ phase = "drain"
    /\ IF pending_spill = <<>>
       THEN phase' = "decide" /\ UNCHANGED drain_to
       ELSE /\ phase' = "draining"
            /\ drain_to' \in IF LagView = {} THEN {physical_step} ELSE LagView
    /\ UNCHANGED <<physical_step, captureVars, cacheVars, path_index, file,
                   pending_spill, polls, seen, policyVars, retainVars, lagVars,
                   dropped, tainted>>

HeadDue == pending_spill # <<>> /\ InWindow(Head(pending_spill).step, drain_to)
AfterDrainAlways(queue, done) == Tail(queue)  \* mutant: drops what failed
AfterDrainKept(queue, done) == queue          \* mutant: keeps what succeeded
AfterDrain(queue, done) == IF done THEN Tail(queue) ELSE queue

\* drain_spill, one entry: read it back and replay it. A failure leaves it
\* and everything behind it queued.
DrainOne ==
    /\ phase = "draining"
    /\ HeadDue
    /\ LET e == Head(pending_spill) IN
       \E f \in ReplayEnds(e.manifest, e.step), has \in ManifestFates :
          LET done == f = Len(e.manifest) + 1 IN
          /\ file' = [file EXCEPT ![e.step] = Replayed(e.manifest, e.step, f, has)]
          /\ path_index' = IndexAdd(e.manifest, e.step, f)
          /\ replay_type_cache' = CacheAfterReplay(e.manifest, f)
          /\ pending_spill' = AfterDrain(pending_spill, done)
          /\ phase' = IF done THEN "draining" ELSE "decide"
    /\ UNCHANGED <<physical_step, captureVars, write_type_cache, viewVars,
                   policyVars, retainVars, lagVars, dropped, tainted>>

\* drain_spill returns: the queue is empty, its head is outside the window,
\* or BAKE does not give the head back.
DrainStop ==
    /\ phase = "draining"
    /\ ~HeadDue \/ "bake_read" \in Faults
    /\ phase' = "decide"
    /\ UNCHANGED <<physical_step, captureVars, cacheVars, path_index, file,
                   pending_spill, viewVars, policyVars, retainVars, lagVars,
                   dropped, tainted>>

\* mutant: off by one
PressureEarly == \E m \in LagView : ~InWindow(physical_step + 1, m)

\* The second lag view: is some tracked reader further behind than allowed?
Pressure == \E m \in LagView : ~InWindow(physical_step, m)
OpenPlaceholder == \E i \in DOMAIN pending : pending[i].owner
PolicyActsAlways == Pressure  \* mutant: ignores open handles
PolicyActs == Pressure /\ ~OpenPlaceholder

\* discard_step: /step/<n> exists, empty.
EmptyGroupMissing(n) == file  \* mutant: makes no group
EmptyGroup(n) == [file EXCEPT ![n].group = TRUE]

\* Nothing to do, or the policy may not act on this step: full replay.
DecideReplay ==
    /\ phase = "decide"
    /\ ~PolicyActs
    /\ phase' = "replay"
    /\ seen' = Tracked
    /\ UNCHANGED <<physical_step, captureVars, cacheVars, path_index, file,
                   pending_spill, drain_to, polls, policyVars, retainVars,
                   lagVars, dropped, tainted>>

\* Discard, and Spill in a build without BAKE.
DecideDiscard ==
    /\ phase = "decide"
    /\ PolicyActs
    /\ queue_policy = "Discard" \/ (queue_policy = "Spill" /\ ~HaveBake)
    /\ file' = EmptyGroup(physical_step)
    /\ dropped' = dropped \cup {physical_step}
    /\ phase' = "committed"
    /\ seen' = Tracked
    /\ UNCHANGED <<physical_step, captureVars, cacheVars, path_index,
                   pending_spill, drain_to, polls, policyVars, retainVars,
                   lagVars, tainted>>

\* The placeholder group cannot be made: the step fails like a replay.
DecideDiscardFails ==
    /\ phase = "decide"
    /\ PolicyActs
    /\ queue_policy = "Discard" \/ (queue_policy = "Spill" /\ ~HaveBake)
    /\ "storage" \in Faults
    /\ phase' = "failed"
    /\ seen' = Tracked
    /\ UNCHANGED <<physical_step, captureVars, cacheVars, path_index, file,
                   pending_spill, drain_to, polls, policyVars, retainVars,
                   lagVars, dropped, tainted>>

\* spill_step: the placeholder group, then the manifest into BAKE.
Enqueue(queue, e) == Append(queue, e)
SpillEntry == [step |-> physical_step, manifest |-> BuildManifest(pending)]
DecideSpill ==
    /\ phase = "decide"
    /\ PolicyActs
    /\ queue_policy = "Spill" /\ HaveBake
    /\ file' = EmptyGroup(physical_step)
    /\ write_type_cache' = CacheAfterBuild(pending)
    /\ pending_spill' = Enqueue(pending_spill, SpillEntry)
    /\ phase' = "committed"
    /\ seen' = Tracked
    /\ UNCHANGED <<physical_step, captureVars, replay_type_cache, path_index,
                   drain_to, polls, policyVars, retainVars, lagVars, dropped, tainted>>

\* spill_step fails, at the group, before or after the manifest is built:
\* as Block.
DecideSpillFails ==
    /\ phase = "decide"
    /\ PolicyActs
    /\ queue_policy = "Spill" /\ HaveBake
    /\ \/ "storage" \in Faults /\ UNCHANGED <<file, write_type_cache>>
       \/ /\ "bake_start" \in Faults
          /\ file' = EmptyGroup(physical_step) /\ UNCHANGED write_type_cache
       \/ /\ "bake_write" \in Faults
          /\ file' = EmptyGroup(physical_step)
          /\ write_type_cache' = CacheAfterBuild(pending)
    /\ phase' = "block"
    /\ seen' = Tracked
    /\ UNCHANGED <<physical_step, captureVars, replay_type_cache, path_index,
                   pending_spill, drain_to, polls, policyVars, retainVars,
                   lagVars, dropped, tainted>>

DecideBlock ==
    /\ phase = "decide"
    /\ PolicyActs
    /\ queue_policy = "Block"
    /\ phase' = "block"
    /\ seen' = Tracked
    /\ UNCHANGED <<physical_step, captureVars, cacheVars, path_index, file,
                   pending_spill, drain_to, polls, policyVars, retainVars,
                   lagVars, dropped, tainted>>

PollCountStuck == polls  \* mutant
PollCount == polls + 1

\* One iteration of the Block loop, and the end of its patience.
BlockPoll ==
    /\ phase = "block"
    /\ polls < MaxPolls
    /\ IF Pressure THEN phase' = "block"  /\ polls' = PollCount
                   ELSE phase' = "replay" /\ polls' = polls
    /\ seen' = Tracked
    /\ UNCHANGED <<physical_step, captureVars, cacheVars, path_index, file,
                   pending_spill, drain_to, policyVars, retainVars, lagVars,
                   dropped, tainted>>

BlockTimeout ==
    /\ phase = "block"
    /\ polls = MaxPolls
    /\ phase' = "replay"
    /\ UNCHANGED <<physical_step, captureVars, cacheVars, path_index, file,
                   pending_spill, viewVars, policyVars, retainVars, lagVars,
                   dropped, tainted>>

\* replay_step: build the manifest, replay it, and make live the handles of
\* the placeholders that were reached.
Wired(f) ==
    [p \in Paths |->
        IF handle[p].state = "placeholder" /\ OwnsEntry(p) /\ handle[p].index < f
        THEN [state |-> "live", index |-> 0]
        ELSE handle[p]]
ReplayStep ==
    /\ phase = "replay"
    /\ LET m == BuildManifest(pending) IN
       \E f \in ReplayEnds(m, physical_step), has \in ManifestFates :
          /\ file' = [file EXCEPT ![physical_step] =
                        Replayed(m, physical_step, f, has)]
          /\ path_index' = IndexAdd(m, physical_step, f)
          /\ write_type_cache' = CacheAfterBuild(pending)
          /\ replay_type_cache' = CacheAfterReplay(m, f)
          /\ handle' = Wired(f)
          /\ phase' = IF f = Len(m) + 1 THEN "committed" ELSE "failed"
    /\ UNCHANGED <<physical_step, pending, pending_spill, viewVars, policyVars,
                   retainVars, lagVars, dropped, tainted>>

-----------------------------------------------------------------------------
(* The end of end_step: commit with retention, or abort.                   *)

\* end_step's locals go out of scope.
ViewReset == drain_to' = 0 /\ polls' = 0 /\ seen' = {}

\* mutant: the step just committed is not counted
FitsUncounted(bytes, k) ==
    \/ k = Len(bytes) - 1
    \/ retention[1] = 0 \/ Len(bytes) - k - 1 <= retention[1]

\* How many of the oldest retained steps apply_retention drops: the fewest
\* that meet both bounds, and never the step just committed.
Fits(bytes, k) ==
    \/ k = Len(bytes) - 1
    \/ /\ retention[1] = 0 \/ Len(bytes) - k <= retention[1]
       /\ \/ retention[2] = 0
          \/ MapThenSumSet(LAMBDA i : bytes[i], k + 1 .. Len(bytes)) <= retention[2]
DropsFor(bytes) ==
    {k \in 0 .. Len(bytes) - 1 :
        Fits(bytes, k) /\ \A j \in 0 .. k - 1 : ~Fits(bytes, j)}

UnlinkNothing(S) == file  \* mutant: the abort leaves the group
Unlink(S) == [n \in Steps |-> IF n \in S THEN NoGroup ELSE file[n]]

ApplyRetention ==
    IF retention = NoRetention
    THEN UNCHANGED <<file, retainVars>>
    ELSE LET bytes == Append(retain_bytes, PendingBytes) IN
         \E k \in DropsFor(bytes) :
            /\ file' = Unlink(retain_floor .. retain_floor + k - 1)
            /\ retain_floor' = retain_floor + k
            /\ retain_bytes' = SubSeq(bytes, k + 1, Len(bytes))
            /\ UNCHANGED retention

CommitStep ==
    /\ phase = "committed"
    /\ physical_step' = physical_step + 1
    /\ pending' = <<>>
    /\ ApplyRetention
    /\ phase' = "NOT_IN_STEP"
    /\ ViewReset
    /\ UNCHANGED <<handle, cacheVars, path_index, pending_spill, policyVars,
                   lagVars, dropped, tainted>>

DropStepNever(steps, n) == steps  \* mutant

\* path_index_drop_step: strip n from the end of a path's steps.
DropStep(steps, n) ==
    SubSeq(steps, 1, Max({0} \cup {i \in DOMAIN steps : steps[i] # n}))

AbortStep ==
    /\ phase = "failed"
    /\ pending' = <<>>
    /\ file' = Unlink({physical_step})
    /\ path_index' = [p \in Paths |-> DropStep(path_index[p], physical_step)]
    /\ phase' = "NOT_IN_STEP"
    /\ ViewReset
    /\ tainted' = tainted \cup {p \in Paths : WritesTo(pending, p) # {}}
    /\ UNCHANGED <<physical_step, handle, cacheVars, pending_spill, policyVars,
                   retainVars, lagVars, dropped>>

-----------------------------------------------------------------------------
Application ==
    \/ BeginStep
    \/ \E p \in Paths, t \in Types : DatasetCreate(p, t)
    \/ \E p \in Paths, t \in Types : DatasetWrite(p, t)
    \/ \E p \in Paths, t \in Types : DatasetWriteStale(p, t)
    \/ \E p \in Paths : DatasetClose(p)
    \/ \E policy \in Policies, reserve \in Reserves :
          SetQueuePolicy(policy, reserve)
    \/ \E bounds \in Retentions : SetRetention(bounds)
    \/ FileClose

\* What end_step does once called.
Commit ==
    \/ StartDrain \/ DrainOne \/ DrainStop
    \/ DecideReplay \/ DecideDiscard \/ DecideDiscardFails
    \/ DecideSpill \/ DecideSpillFails \/ DecideBlock
    \/ BlockPoll \/ BlockTimeout
    \/ ReplayStep \/ CommitStep \/ AbortStep

Progress ==
    \/ \E r \in Readers, step \in Steps : ReaderAck(r, step)
    \/ \E r \in Readers : ReaderLeave(r)

\* The process is gone, or is done with this file.
Stopped == phase \in {"closed", "crashed"} /\ UNCHANGED vars

Next == Application \/ EndStep \/ Commit \/ Progress \/ Stopped

Spec == Init /\ [][Next]_vars

\* The thread inside end_step keeps running, whatever the readers do.
FairSpec == Spec /\ WF_vars(Commit)

-----------------------------------------------------------------------------
(* What the commit path promises.                                          *)

TypeOK ==
    /\ phase \in Phases
    /\ physical_step \in Steps
    /\ pending \in Seq(Entry)
    /\ handle \in [Paths -> Handle]
    /\ write_type_cache \in Cache /\ replay_type_cache \in Cache
    /\ path_index \in [Paths -> Seq(Steps)]
    /\ file \in [Steps -> StepGroup]
    /\ pending_spill \in Seq(Spilled)
    /\ drain_to \in Nat
    /\ polls \in 0 .. MaxPolls
    /\ queue_policy \in Policies \cup {"none"}
    /\ reserve_slots \in Nat
    /\ retention \in Retentions \cup {NoRetention}
    /\ retain_floor \in Steps
    /\ retain_bytes \in Seq(Nat)
    /\ lag_table \in [Readers -> Steps \cup {NoAck}]
    /\ present \subseteq Readers
    /\ dropped \subseteq Steps
    /\ tainted \subseteq Paths
    /\ seen \subseteq Readers

Retained     == retain_floor .. physical_step - 1
SpilledSteps == {pending_spill[i].step : i \in DOMAIN pending_spill}

\* The step being committed, once it is known to commit, is in the file, in
\* BAKE or dropped: what StepChain and NoStepLost will ask of it next.
CommittedIsKept ==
    phase = "committed" =>
        /\ file[physical_step].group
        /\ \/ file[physical_step].full
           \/ physical_step \in SpilledSteps
           \/ physical_step \in dropped

\* Every committed step that retention has not pruned has its /step/<n>,
\* whatever mixture of replay, Discard, Spill, drain and abort made it.
StepChain == \A n \in Retained : file[n].group

\* While the file is open, a committed step is in the file in full, or waits
\* in BAKE, or was dropped by Discard: no failure in between loses one.
NoStepLost ==
    FileOpen =>
        \A n \in Retained :
            file[n].full \/ n \in SpilledSteps \/ n \in dropped

\* A step is only in the file's hands while its number is below the bound.
StepBounded == phase \in {"IN_STEP"} \cup Committing => physical_step < MaxSteps

\* Under retention every committed step is either pruned or counted: the
\* floor and the list of sizes always meet at the step being captured, so
\* apply_retention never prunes a number that is not the oldest one left.
RetentionAccounts ==
    /\ retention = NoRetention => retain_floor = 0 /\ retain_bytes = <<>>
    /\ retention # NoRetention =>
          retain_floor + Len(retain_bytes) = physical_step
    /\ retain_bytes = <<>> => retain_floor = 0

\* The spill queue is in commit order and holds committed steps only, which
\* is what lets drain_spill stop at the first entry outside the window.
SpillSorted ==
    /\ \A i, j \in DOMAIN pending_spill :
          i < j => pending_spill[i].step < pending_spill[j].step
    /\ \A n \in SpilledSteps : n <= physical_step
    /\ phase # "committed" => \A n \in SpilledSteps : n < physical_step

\* Between steps the path index names a dataset in a retained step exactly
\* when the step holds it: an aborted step leaves no trace in either.
IndexTellsTruth ==
    Idle => \A p \in Paths : \A n \in Steps :
        n >= retain_floor =>
            ((\E i \in DOMAIN path_index[p] : path_index[p][i] = n)
                <=> p \in file[n].made)

\* mutant: scans from the front
ResolveFirst(p, step) ==
    {path_index[p][i] : i \in {j \in DOMAIN path_index[p] :
        /\ path_index[p][j] <= step
        /\ \A k \in DOMAIN path_index[p] : k < j => path_index[p][k] > step}}

\* path_index_resolve: the last entry not above the cursor.
Resolve(p, step) ==
    {path_index[p][i] : i \in {j \in DOMAIN path_index[p] :
        /\ path_index[p][j] <= step
        /\ \A k \in DOMAIN path_index[p] : k > j => path_index[p][k] > step}}

\* Resolving a path at any step finds the newest version not above it.
ResolveLatest ==
    Idle => \A p \in Paths : \A step \in Steps :
        LET have == {n \in Steps : n <= step /\ p \in file[n].made} IN
        IF have = {} THEN Resolve(p, step) = {}
                     ELSE Resolve(p, step) = {Max(have)}

\* Whatever reaches the file was decoded with the type it was captured with,
\* although the manifest omits types and a second dictionary restores them. The
\* exception is exact: a path that a failed step wrote. The abort leaves what
\* build_manifest recorded for it, and from then on its type may be omitted
\* although the replay has an older one.
DecodedAsWritten ==
    \A n \in Steps : \A d \in file[n].data : d.wrote = d.as \/ d.path \in tainted

\* A step as the application may write it: each path is created at most once,
\* and before anything is written to it.
WellFormed(es) ==
    \A p \in Paths :
        /\ \A i, j \in Creates(es, p) : i = j
        /\ \A i \in WritesTo(es, p) : \E j \in Creates(es, p) : j < i

\* A well-formed step fails only through a path that an earlier, failed step
\* wrote: a failure reaches later steps through the type dictionary and through
\* nothing else. That it reaches them at all is against
\* test/t_failed_replay.c:8, by which the step after a failed one commits.
FailureContained ==
    phase = "failed" =>
        ~WellFormed(pending) \/ \E p \in tainted : WritesTo(pending, p) # {}

\* While the file stays open, only the abort of a failed step takes from a
\* placeholder handle the entry its create captured: a step that commits makes
\* the handle live, and no policy drops or spills a step that holds one.
PlaceholdersResolve ==
    [][\A p \in Paths :
         /\ handle[p].state = "placeholder" /\ OwnsEntry(p)
         /\ handle'[p].state = "placeholder" /\ ~OwnsEntry(p)'
         => phase = "failed" \/ ~FileOpen']_vars

\* Under Block, a step is replayed while a reader that the last look tracked
\* is too far behind only when the look was the last of MaxPolls, or when the
\* step may not wait because a handle in it is open.
BlockHonoured ==
    (phase = "replay" /\ queue_policy = "Block" /\ ~OpenPlaceholder
        /\ polls < MaxPolls) =>
        \A r \in seen \cap present :
            physical_step <= lag_table[r] + reserve_slots

\* build_index: /step holds exactly 0 .. n-1, and each has a .manifest.
IndexBuilds ==
    LET there == {n \in Steps : file[n].group} IN
    /\ \A n \in there : \A k \in 0 .. n : k \in there
    /\ \A n \in there : file[n].manifest

\* Between steps a reader can open the file, through this connector.
ReaderCanOpen == Idle => IndexBuilds

\* In a writer that does not spill, the file holds at most max_steps steps
\* after every commit, whatever was discarded, aborted or pruned before.
RetentionBound ==
    [][(phase = "committed" /\ phase' = "NOT_IN_STEP"
          /\ retention # NoRetention /\ retention[1] > 0) =>
              Cardinality({n \in Steps : file'[n].group}) <= retention[1]]_vars

\* The commit of a later step, and the drain it starts, never touch a step
\* that is in the file in full, except that retention may remove it.
CommittedStays ==
    [][\A n \in Steps :
          (n < physical_step /\ file[n].full) =>
              file'[n] = file[n] \/ (n < retain_floor' /\ file'[n] = NoGroup)]_vars

\* Once end_step is called it returns, however the readers behave.
EndStepReturns == phase \in Committing ~> Idle

\* Discard drops a step only while some reader really is more than
\* reserve_slots steps behind it.
DropsOnlyLaggards ==
    [][dropped' # dropped =>
          \E r \in Tracked : physical_step > lag_table[r] + reserve_slots]_vars

=============================================================================
