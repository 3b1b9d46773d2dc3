# Verification of vol-stream

vol-stream is an HDF5 VOL connector that turns a file into a stream of *steps*.
A writer brackets its HDF5 calls with `H5Fbegin_step` / `H5Fend_step`; the
connector captures the calls, replays them into `/step/<n>/` of an ordinary HDF5
file when the step ends, announces the step over a Mercury RPC group and pushes
dataset payloads to the readers that subscribed to them. This directory holds
TLA+ models of that system, the TLC configurations that check them on small
instances, and proofs checked by TLAPS.

All paths below are relative to the repository, `C` is `src/src/H5VLstream.c`,
`H` is `src/src/H5VLstream.h`, `T` is `src/src/tr_mercury.c` and `D` is
`src/src/tr_diaspora.cpp`.

## 1. Inventory

| Component | State it keeps | Operations | Hard because |
|---|---|---|---|
| Step state machine and capture (C) | `step_state`, `physical_step`, `pending[]`, placeholder handles | begin_step, dataset/attribute/link create, write, close, end_step | handles outlive the step they were made in; a call may append several entries and then fail |
| Manifest, dictionaries, replay (C) | `write_type_cache`, `replay_type_cache` | build_manifest, replay_manifest | two dictionaries must stay in step although one is updated before the other and a replay may fail anywhere or happen later |
| Path index (C) | per path, the steps that carry it | add, drop_step, resolve | appended in replay order, searched as if in step order |
| Queue policies (C) | `queue_policy`, `reserve_slots`, `pending_spill` | set policy, apply_queue_policy, discard_step, spill_step, drain_spill | decides from a lag table that the progress engine changes meanwhile |
| Retention (C) | `retain_max_*`, `retain_floor`, `retain_bytes` | set_retention, apply_retention, unlink_step | can be set at any time, prunes steps that other parts still name |
| Links and group attributes (C) | folded entries | capture, fold at end_step, two-pass replay | later entries replace earlier ones of the same step |
| Requests and completion cells (C) | request objects, cells shared with entries | wait, notify, cancel, free | freed before, during or after the end_step that completes them |
| Reader cursor and index (C) | `cursor`, logical ids, path index of the file | begin_step, set_step, open | built from a file another process is writing |
| Live schema (C, T) | schema blob and its version | publish, query | the answer may be older than the step it is asked about |
| Backfill (C, T) | `backfill_state` of each subscription | subscribe with a start step, take_backfill, serve_backfill | hand-over from replayed history to live pushes |
| Mercury transport (T) | members, writers, pending steps, lag table, subscriptions, data queue, in-flight pushes | broadcast_step_ready, push_data, subscribe, ack, wait_step_ready, wait_data, membership callback | handlers run concurrently with the caller; sends time out once and are not repeated |
| Parallel writer, concentrator (C) | the same state on each rank | agreement by collectives | ranks see different lag tables and different failures |
| Narrowing (C) | none | selections, predicates, type conversion, refilter | pure, but with edge cases |
| Timeline overlay (C) | virtual datasets over the steps | extend at commit | none concurrent |
| File lifecycle, rendezvous, done marker (C, T) | group file, reference count, done marker | open, close, retries | readers must learn that no step will follow |
| Diaspora transport (D) | control tables, retained pulls, parked items | the transport's interface over an external event log | selected at build time; pulls outlive the calls that time out, subscriptions travel over a side topic |
| BAKE glue, Python subscriber, h5stream | - | - | client of a library, binding, tool |

How they meet: the application's thread runs capture, `end_step`, policies,
retention and the drain one after another. The transport's progress engine runs
concurrently with it and changes the lag table, the membership, the subscription
table and the queues of received steps and data. `end_step` is the place where
everything happens: it serves the backfill, applies the policy, replays the
manifest (pushing payloads entry by entry), commits, prunes, publishes the
schema and broadcasts.

What makes each part right: a step that `end_step` reports committed is never
lost, changed or decoded differently from what was captured; a failed step
leaves no trace; the policies do what their names say to the slowest reader and
never hang the writer; the index always finds the newest version; a subscriber
gets each step's data before the step's announcement, in order and once; a
reader that waits is told of every step or that there will be no more.
`PROJECT.json` lists the hazards at the lines where they bite.

## 2. Plan

Each component has a module, most an MC module, and one or more runs. In the order in
which they were written:

| Module | What it is about | Meets the others in |
|---|---|---|
| `StepCommit` | capture, manifest, replay, index, policies, retention | the committed steps, which all other modules start from |
| `StepDelivery` | pushes, announcements, subscriptions, backfill, membership | replays and commits as its input |
| `StepChannel` | abstract: a log of steps, sessions that are told of it, items of data | implemented by `StepDelivery` |
| `StreamCapture` | attributes, links, requests and completion cells | begin_step and end_step, resolved or failed |
| `ReaderSession` | join, seed, end of stream, crash and restart of the writer, schema | the announcements of `StepDelivery`, without data |
| `ParallelCommit` | the ranks of a parallel writer, concentrators | replaces the middle of `StepCommit`'s end_step |
| `Narrowing` | one write, its packing, and what one subscriber is sent of it | one push of `StepDelivery`, opened up |
| `StepHistory` | resize, carry-forward, the reader's index and cursor | the file that `StepCommit` writes, read back |
| `StepLog` | abstract: a log that a reader moves through | implemented by `StepHistory` |
| `DiasporaTransport` | the second transport | takes the place of `StepDelivery` in a build that selects it |

Seven of them have a module of proofs, named after them (`StepCommitProofs` and so
on); all but `Narrowing`, and the two abstract ones: `StepDeliveryProofs` ends with
the refinement of `StepChannel`, `StepHistoryProofs` with that of `StepLog`.
`ProofFacts` holds the lemmas that the proofs share: least and greatest elements of
sets of numbers, and that a total order numbers the elements of a finite set
(`Enumeration`). The latter is what makes the models' enumerations (`Nth`, `ByPath`,
`Ascending`) open to proof: each lists a set by position and not by recursion, so
that what it returns follows from cardinalities without an induction over data.

`commit_spill` checks `TypeOK`; in the other modules it documents the state. It is
proved of `StepCommit`, `StepDelivery`, `StreamCapture`, `ReaderSession` and
`DiasporaTransport`; the types of `ParallelCommit` and `StepHistory` are the first
parts of their inductive invariants.

Every safety property of the passing runs, invariant, action property or
refinement, is a theorem except the four of `Narrowing`; section 12 says why. Left,
in order of worth:

1. A statement about the writer's index that holds with Spill. `ResolveLatest` and
   `IndexTellsTruth` do not (section 11); what is proved with Spill is that no step
   is lost, that the queue stays sorted and that a committed step stays as it is.
2. The bulk regions and the cap of pushes in flight.
3. `Narrowing` over runs and pieces written as enumerations, so that `EveryMatchOnce`
   becomes provable for the selections of which it is true.

## 3. StepCommit

### Correspondence

State. `phase` is `step_state` with COMMITTING split by how far `end_step` is:

| phase | where `end_step` is |
|---|---|
| `drain` | before the first lag view of `apply_queue_policy` (C:9323) |
| `draining` | inside `drain_spill` (C:8894) |
| `decide` | before the second lag view (C:9338) |
| `block` | inside the bounded wait (C:9425) |
| `replay` | before `replay_step` (C:7574) |
| `committed`, `failed` | the result is known, the commit or abort block is next (C:13570-13645) |

`closed` is a file after its last reference went; `crashed` is a process that
read outside `pending[]`. A handle is `closed`, a `placeholder` with the index
of its entry, or `live`. `file[n]` is `/step/<n>`: whether the group exists,
which datasets it holds, each payload with the type it was captured with and the
type the replay decoded it with, whether all entries were replayed, and whether
`.manifest` exists. Types and paths are uninterpreted; a payload weighs one unit
of `max_pending_bytes` and of the retention's `max_bytes`. `dropped`, `tainted`
(the paths that a failed step wrote) and `seen` are history variables.

Actions. One action per call of the application (`BeginStep`, `DatasetCreate`,
`DatasetWrite`, `DatasetWriteStale`, `DatasetClose`, `SetQueuePolicy`,
`SetRetention`, `FileClose`, `EndStep`), one per piece of `end_step` between two
points at which the progress engine's effect can be seen (`StartDrain` to
`AbortStep`), one per callback (`ReaderAck`, `ReaderLeave`). The capture calls
are atomic because nothing they read is changed by the progress engine. The
guards of `BeginStep` etc. are the code's early returns; a call that returns an
error without changing state is not a step of the model.

Failures are switched on by `Faults`: an application that creates a path twice in
one step, an HDF5 call that fails at any entry of a replay or in the placeholder
group, and BAKE failing to start, write or read. The failure to create
`.manifest` is ignored by the code (C:7462) and therefore by the model's control
too. `Word` is the modulus of `min_acked + reserve_slots`.

Not in this module: attribute and link entries (`StreamCapture`); `H5Dset_extent`
(`StepHistory`); the parallel paths (`ParallelCommit`); calls outside a step,
which go straight to the underlying connector and never touch this state; failures
of memory or of the encoder; what `end_step` does for readers (schema, overlay,
broadcast, pushes, backfill, completion cells). A writer without a transport has
an empty lag view in the model, which makes every policy inactive, as in the code.

### Runs

| Run | Instance | Checks |
|---|---|---|
| `commit_types` | 2 paths, 2 types, 2 steps of up to 3 entries and any number of failed ones, a payload limit of 2, no policy, double creates | `DecodedAsWritten`, `FailureContained`, `ResolveLatest` |
| `commit_spill` | Spill, every fault, 1 reader, 3 steps | `TypeOK`, `StepChain`, `NoStepLost`, `CommittedStays`, `EndStepReturns` |
| `commit_policy` | Block, Discard and Spill without BAKE, a reserve of 1, 2 readers, retention by steps and by bytes set at any time, storage faults | `BlockHonoured`, `PlaceholdersResolve`, `DropsOnlyLaggards`, `RetentionAccounts`, `RetentionBound`, `IndexTellsTruth` |
| `discard_unreadable` | the smallest instance of the first disagreement of section 11 | `ReaderCanOpen`, violated |

The bounds suffice for the cases that matter: a type is sent and changed in one
step and relied on in the next; a step fails between the two, in front of a write
whose type is then omitted, and later steps are decoded with an older type or fail,
while those on the other path are not; a step is spilled, a second one is replayed
ahead of it and the drain happens under a third; two payloads of one dataset in one
step need three entries, as do a double create and a write behind it. Three steps is
also the least at which "the step just committed", "an older retained step" and
"a pruned step" coexist. `MaxIndex` only stops unbounded retries of a drain;
`MaxPolls` stands for 600 and the properties do not depend on its value beyond
"the last look". Paths, types and readers are only compared, so the runs without
a liveness property use them as symmetry sets.

Deadlock is checked. `EndStepReturns` is checked under `WF(Commit)`:
the thread inside `end_step` is scheduled, and each of its pieces is a
non-blocking call or a sleep; nothing is assumed of readers.

### Proofs

`StepCommitProofs` proves, for every value of the constants that satisfies
`ConstantsAssumption` (types of the constants, nothing more):

* `TypeCorrect`, every variable keeps its type. Not inductive alone: that
  `physical_step` stays in range needs `StepBounded`, that `retain_floor` does
  needs `RetentionAccounts`. The interesting leaf is that a replay writes only
  payloads with a known type (`ReplayType`), which rests on the lookup check at
  C:6814-6822.
* `RetentionIsExact`, the floor and the list of sizes meet at the current step.
* `StepsAreContiguous`, `NothingIsLost`, `SpillQueueIsSorted`. The inductive
  invariant adds `CommittedIsKept`: between the decision and the commit block the
  current step is already in the file, in BAKE or dropped. Without it the
  increment of `physical_step` would have to be argued from the past. `NoStepLost`
  is stated for full steps, so the drain's removal of an entry needs that the
  replay ended behind the last entry, and retention needs that floor and sizes
  account for every step (`RetentionAccounts` again). That the queue is sorted
  (`SpillSorted`) is a lemma of the others, and has no run.
* `CommittedIsFinal`, no later step or drain touches a step that is in the file in
  full. `FullInv`: only a committed step is full, and none that waits in BAKE is.
* `PlaceholdersAreResolved`. `HandleInv`: after a successful replay no handle owns
  an entry, because the replay wired every one and because no policy acts on a
  step that has an open one.
* `BlockWaits`, with no assumption on the width of the sum of C:9340: when it
  wraps it can only be too small, which makes the writer wait longer.

and with an assumption that the code needs as well:

* `DiscardDropsLaggards`, when `WideWord`: the largest step plus the reserve
  fits the word. Otherwise the sum wraps and the property fails (section 11).
* `RetentionHolds`, `IndexIsTruthful` and, while no retention is set,
  `ResolvesToLatest`, when `NoSpill`: there is no BAKE, or Spill is never asked for.
  A drained step may arrive below the retention floor, and the index is appended in
  the order of replays (section 11). `GroupInv` and `IndexInv` say that groups exist
  from the floor up only and that every list of the index is sorted, which is what
  lets an abort undo a failed step by stripping the ends of lists. Resolving is
  restricted to no retention because a pruned step stays in the index.
* `DecodesAsWritten`, when `NoSpill`, and `FailuresAreContained`, when in addition
  storage does not fail: each manifest is replayed as soon as it is built, though
  perhaps not to its end. `TaintInv` is that the two dictionaries agree on every
  path but those in `tainted` and those written in a step that has just failed.
  The code has no more than that to give: section 11 has what happens on a
  tainted path, and with Spill.

`FailureContained` is what is left of the promise of `test/t_failed_replay.c:8`, that
the step after a failed one commits: a step fails by its own entries, or by a path
that a failed step wrote. `TypeStep`, `SafeStep` and the others have one step per action; actions
that leave file, queue and history alone go through `QuietStep`.

## 4. StepDelivery

### Correspondence

Four kinds of process interleave. The writer's thread is a program counter `at`:
`serve` and `job` are `serve_backfill` (C:13387), called from begin_step and
end_step and returning to `resume`; `replay` is the replay, as far as its pushes
go; `settle`, `announce` and `forward` are `broadcast_step_ready` (T:2392), cut at
the two points where a handler's effect can be seen: after the snapshot of the
members, and between the check of a member and the forward to it. The writer's
handlers and membership callback are `MemberJoined`, `Subscribe`, `Stage`,
`Release`, `MemberLeft` and `EntriesPurged`, each atomic under `sub_lock` or
`member_lock`; the last two are the halves of one departure (T:1118, T:1140). The
reader's thread is `Join`, `SubscribeFrom`, `Leave` and the sending half of the
former; a request and its handling are one action, since the reader waits for the
answer. The reader's `data_push` handler is `DataPush`.

`members` is the writer's member table, which learns of a reader later than its
first request may arrive. `sub_table[r][p]` is the entry of (member, path) with
its `backfill_state`: `live`, `staged`, `released` are 0, 1 and 2. `inflight` is
the list of pushes not completed. `try` tells the attempts at one step number
apart. `got`, `lost`, `told`, `mark`, `stray`, `from` and `since` are history: what
arrived, what was announced, where the announcements of the present session begin,
the one that was under way when it was staged, and from which step on announcements
and data are due to a reader, decided at the moment it becomes known or is served.

Left out: what a push contains (ranges, selections, predicates, narrowing, one
push per run), so that a step pushes a path once to a member; the cap of 256
pushes in flight, which only drains earlier; the set of members that failed
during one write, whose skipped pushes count as lost; MOVED events and members
wrongly suspected; attributes, which travel like datasets; several pushes of one
backfilled step, which go out together (`Narrowing` has what a push contains);
the join seed, `last_physical_step` and the reader's queue and waits, which are in
`ReaderSession`; a request that its handler works on after the caller has given
it up. The writer replays every step: spilled steps
are announced before their data is pushed, and Discard announces a step without
data, so `DataFirst` says nothing under those policies.

`StepChannel` is what all of this amounts to for a reader, with no thread, table,
snapshot or attempt in it. The stream is a log of steps that grows. A reader in
touch with the writer has a session: the step it begins with, the steps it has
heard of, and for each subscribed path the first step whose data is due. The
session hears of the steps one after the other (`Tell`), of each after the items
due have settled, and the log does not grow while a session has a step to hear of.
An item settles once, by arriving or, where messages may be lost or the reader is
gone, by being lost. A backfill session starts at the step that was asked for or at
the end of the log. A reader that asks for a backfill, or leaves, ends its session.

The refinement mapping (`Channel`) reads the log off `written`, a reader's place off
`stage`, and a session off the tables and the history variables: it is open while the
reader is a member that waits for no backfill (`InSession`), starts at `from`, has
heard what was announced since its `mark`, and is due data from `since` on, for the
paths that are live. An item is a push of the attempt that was committed
(`CommittedPush`): those of a failed replay are not in the channel, and those of a
replay under way appear with its commit.

### Runs

| Run | Instance | Checks |
|---|---|---|
| `delivery` | 1 reader, 2 paths, 2 steps, start steps 0 and 1, lost messages, 1 failed replay | `DataFirst`, `EveryStepTold`, `WriterReturns`, `ImplementsChannel` |

Two steps give a reader a history of one step to ask for, a step to be live
for, and a broadcast to interfere with; start step 1 covers the request for a
step not committed yet. The second path lets staging be half done while a broadcast
or a release passes. Readers meet only in the order in which one broadcast or
one round of the backfill reaches them, and a second one makes the state graph too
large for the liveness check; the two safety properties were also checked with two
readers and one path. `EveryStepTold` accounts for everything that was sent to the
reader since it joined or staged: the exact interval of committed steps and, before
them, the announcement that the broadcast had decided on when the subscription was
staged and forwards after it (T:2446-2457), which the history variable `stray`
records. It is in no session of the channel, may tell of a step that the backfill
tells again, and is not covered by `DataFirst`; the instance has it (section 11).

`WriterReturns` is checked under `WF(WriterRuns)`, the thread inside begin_step or
end_step is scheduled, and `WF(PushCompletes)`, every forward of a push is timed
(T:3396) and so completes with an answer or an error. Nothing is assumed of
readers, and begin_step and end_step themselves need never be called. That the
serve loop ends rests on `has_subscribed`: a reader can be backfilled once.

### Proofs

`StepDeliveryProofs` proves `TypeCorrect`, `DataBeforeAnnouncement` (`DataFirst`) and
`EveryStepIsTold` (`EveryStepTold`) with no further assumption: for any
number of readers and paths, with messages lost and replays failed. That readers do
not disturb each other, which the run only samples, is part of it. The inductive
invariant `IInv` has three layers:

* `ThreadInv`, `StagedOnce`, `PromisedInv`, `JoinInv`: what the writer's thread holds
  at each place, that a reader stages once and has its entries released together,
  and that nobody is told of anything before it is a member.
* `CommittedIssued` and `ReplayIssued`: every push that is due has been issued, for
  committed steps and for the part of the open one that was replayed. A broadcast
  starts when nothing is in flight (T:2417), so at that point issued means
  delivered or lost. `ToldInv` carries it over to the announcements.
* `OnceInv`: the announcements since the reader staged are the interval from `from`
  up to `NextTold`, the next step that it will be told of, which depends on
  whether a broadcast, a backfill or neither is under way. `Unannounced` accounts for
  the one forward that was decided before the staging, and `StrayInv` for its place
  in what was sent.

`DeliveryImplementsChannel` (`ImplementsChannel`) proves the refinement, again for all
constants. `IInv` says what must have been sent; the channel also limits what may
be. `ChannelInv` therefore adds:

* `SentSteps`: a push is of a committed step or of the replay under way, and carries
  the number of an attempt that was made. This is what makes the items of a failed
  replay disappear from the channel for good although its number is reused.
* `SentTo`: it goes to a reader that joined, on a path that is live for it, and is
  lost only where it may be.
* `SentOnce`: it settles once, and a backfill under way has not sent the steps that
  it still has before it. That a step reaches a subscriber live or by the backfill and
  never by both is the point at which the argument is won or lost: a push to a
  subscriber that is released and not yet live breaks it (its mutant in `PROJECT.json`).
* `PromiseBound`: what is due begins at the step asked for, or at most one step
  ahead of the log.

The proof then has one lemma per kind of step: a commit appends to the log
(`CommitRefines`), an announcement is a `Tell` (`TellRefines`), and so on
for subscribing, staging, taking a backfill up, joining and leaving; the rest change
nothing that the channel can see.

## 5. StreamCapture

What a step captures besides dataset contents. `pending` is `fs->pending` as far
as creates, attributes and links go; `live` is what group attributes the live
file holds, `group_attrs` the ones noted for the next fold, `links` the links the
writer remembers; `stream[n]` is what `/step/<n>` holds of all these. A link, an
attribute or a dataset is a name: its value is the step that wrote it.

Actions are the application's calls. `EndStep` is everything up to the resolution
of the step's completion cell: the two folds (`FoldGroupAttrs`, `FoldLinks`), both
passes of the replay (`Replayed`), and the resolution itself. `EndStepFails(k)`
is the same with a replay that stops after k entries: by a fault, or because the next
entry is the second of one attribute (`Repeats`), which `H5Acreate` called twice in a
step makes and nothing in the capture refuses. By then the links of the first k
entries are noted (`misnoted` remembers which) and their attribute handles wired
(`Wired`). What follows is not atomic:
`InvokeNotify` calls one callback at a time, and a callback may notify or free
other requests or the same one, so `RequestNotify` and `RequestFree` are enabled in
between; `EndStepReturns` is the rest. Wait and cancel change nothing and have no
action. A cell's `refs` is the code's count; the model never removes a cell, so
that `CellsAccounted` can say when the code frees it.

The application has at most one handle of each attribute path. A handle whose
step failed stays a placeholder, and its `pending_index` is used unchecked when it
is written again (C:10462): `AttrWriteStale` is that write, which replaces the
contents of whatever entry is there now (contents are not modelled) or finds the list
shorter, where the process may do anything; the model ends it ("crashed").

| Run | Instance | Checks |
|---|---|---|
| `capture` | a dataset, a link, a group attribute, a dataset attribute, 2 requests, 2 steps of 2 entries and a failed one | `LinkFollows`, `GroupAttrsArrive`, `CellsAccounted`, `CalledBackOnce` |

Two steps let a link be made in one and its target be written again in the next;
two requests let one be freed inside the callback of the other; the failed step
may hold anything. `GroupAttrsArrive` excepts attributes folded into a failed
step and `LinkFollows` the links that a failed step noted, and the run has no hard link
to nothing, because the code forgets or misreports in those cases (section 11).
Failures by a fault come before the first entry in this run. The same instance with
failures behind any entry passes as well, in 7 million states, and so does
`LinkFollows` for two datasets and three entries, where it is violated unless it excepts
`misnoted`.

The two folds list what they add: `Wanted` is the positions of the noted
attributes to fold and `Nth` the i-th of them; `Again` is the links to repeat
and `Listing` some order of them, as that of `fs->links` has no effect.

### Proofs

`StreamCaptureProofs` has two inductive invariants.

Requests (`RInv`): `CellsAreAccounted` and `CallbacksOnce`, without further
assumption. `CellsAccounted` says only whether a cell is referenced, and a decrement
does not keep that; `RefsInv` has the exact count, the requests that hold the cell
plus one for the file. `CalledBackOnce` needs to know where a callback is that was not
called yet (`QueueInv`, `ToldInv`): in its cell's queue while the status is 0, in
`notify_list` afterwards, and in neither twice. `ReleaseFact` is the heart: the
release of a request frees the queue only with the last reference, which is
never that of the open step's cell.

Capture (`GInv`, and `LInv` for links): `TypeCorrect`, `GroupAttributesArrive`, and
`LinksFollowTargets` under `SoundLinks`: no hard link to nothing, which the run leaves
out as well, and which breaks it (section 11); replays may fail behind any entry.
`AheadInv` says that nothing lies in the stream at or
above the current step until it is committed, so that a commit only adds (`Adds`)
and all lookups as of earlier steps stay (`LookupFact`). `OnceInv`, no attribute is
noted twice, gives `FoldsRepeatNothing`: only the application's own second
`H5Acreate` puts an attribute twice into a step, never a fold. For links, `KnownInv`
ties the writer's memory to the newest step that has the link, for those that no
failed step noted, and `RelinkedFact` is what `fold_links` is for: if the
step writes the target of a known link, it makes that link, its own or the repeated
one. `HardInv` is needed there, since an own link that cannot be made would suppress the
repetition.

## 6. ReaderSession

One serial writer that may close, be killed and start again on the same name, and
readers that open, join and poll. The writer's thread is `at`: `created` and
`unlinked` are inside file create (the file is new, the old marker is still there;
it is gone, the group is not up), `published`, `announce` and `forward` are inside
end_step, `marked` is the close between the done marker and the departure. The
reader's thread is `stage` and `probe`, the answer it waits for. `joining`,
`leaving` and `departed` are membership events under way, `wire` is the step_ready
requests of the current broadcast that were sent and not handled. `epoch[r]` is the
run whose group r joined. Every RPC is cut where it leaves a process.

| Run | Instance | Checks |
|---|---|---|
| `session` | 1 reader, 2 runs of 3 steps, the writer may be killed at any point, 2 probes | `EosMeansOver`, `NoGap`, `SchemaFresh`, `EosFinal`, `EosReached`, `CrashNoticed` |

Readers do not interact with each other here, so one is enough; two runs make
every file left over from the first meet the second; three steps leave one before,
one during and one after a join. Deadlock is not checked: a stream ends.

Fairness is that of the reader only: membership callbacks and step_ready handlers
run, answers to probes are taken, the application keeps polling. The writer need
never close. `EosReached` is therefore stated from the moment the last run has
left cleanly, and `CrashNoticed` from the moment SWIM has decided. Two timing
facts are assumed, as the code does: a request is handled within the second its
forward waits (T:2457), and SWIM suspects a member for longer than that. The fault
`slow` drops both; `EosFinal` then fails (section 11).

### Proofs

`ReaderSessionProofs` proves, for any number of readers, runs and steps and with the
writer killed at any point:

* `TypeCorrect`, `EndIsTheEnd` (`EosMeansOver`) and `SchemaIsFresh`, with late
  requests too. The invariant says which runs are over and when a marker or a group
  file can be there (`RunInv`), that a reader knows of no writer but the one whose
  group it joined (`KnowsOwn`), and that it has heard of nothing past the last step
  (`HeardInv`), which is what makes a schema asked for afterwards new enough.
* `AnnouncementsHaveNoGap` (`NoGap`) and `EndIsFinal` (`EosFinal`) when `InTime`,
  the fault `slow` is absent. `WireInv`: a request is under way only while the writer
  waits for it or was killed doing so. `GapInv`: the newest announcement is the
  last step, or the one before while the broadcast has not reached the reader.

## 7. ParallelCommit

One process per rank. `pc[r]` is the collective that rank r calls next or is in;
`Call` enters it, `Complete` happens when all ranks are in it and takes each to
where its own state leads (`After`). What a rank does in a step is a program
chosen when it captures. Collectives are identified as MPI does (`MpiOp`): two
barriers are alike, so ranks may meet in different ones without MPI noticing,
which is what `Aligned` excludes. `Merged` is `merge_agg_manifests`: all ranks' entries
in rank order, the first of each key kept. With a concentrator, members send a count and
then one message per write; `Recv` takes them member by member; `ByPath` is the
order in which the gathered writes are issued.

| Run | Instance | Checks |
|---|---|---|
| `parallel` | 3 ranks, 2 paths, 3 programs, 2 steps, Discard and Spill on all or on two of the ranks, no concentration and groups of 2 | `Aligned`, `WritesLand`, `OrderKept`, `EndStepReturns` |

Three ranks in groups of two give a full group and a clipped one; the programs
make a rank contribute nothing, write paths in another order than it has created
them, and keep a handle open so that Discard is refused. A reader is tracked by
rank 0 alone, so ranks see different lags. Fairness: every rank's thread runs and
MPI completes a collective that all ranks have entered. `Block` shares its loop
with the collectives of the run; a parallel writer treats Spill
as Block (C:9391-9407).

`Programs` are assumed to contain a create entry for every path they write:
`step_create_index` (C:11274) synthesizes one when the application has none. `Nth`,
`UpToJob` and `ByPath` list positions, jobs and writes in their order by counting
what comes before each.

### Proofs

`ParallelCommitProofs` proves all three invariants of the run for any number of
ranks, group sizes, programs, steps and policies.

* `RanksAreAligned`. `Lockstep`: two ranks are at the same place of the same step,
  or one has not called end_step yet, or one has finished its writes and the other
  has not. It is inductive because what decides the next collective was
  itself agreed on by one, so that `After` takes all ranks to one place.
* `WritesArriveOnce` and `OrderIsKept`. A write is a rank and a position. `Located`:
  it is in the file, among the writes that its concentrator has still to issue,
  among the gathered jobs, or not handed over yet; it is lost nowhere in between.
  `JobsInv` and `Ordered`: each of these places holds writes to one path by rank and
  position, and what is applied comes before what is left. `ByPath` reorders
  jobs between paths only. `Quiet` clears all of it between steps; `BufsInv`, what
  the ranks exchanged is what they have pending, shows that the merge created the
  dataset of every write.

## 8. Narrowing

One write of a 3 x 3 dataset, one subscriber. `Capture` packs the memory selection
(`GatherMem`, or `VlSerialize` for variable-length data) or refuses; `Replay` puts
the payload into the step's copy and cuts the file selection into runs
(`FlatRunsRange`, at most `MaxPushRuns`); `Backfill` reads the copy back for a
subscriber served later; `PushRun` is one run through `vs_tr_writer_push_data`:
overlap, type conversion (`ConvertForSubscriber`), selection (`SelectionRuns`),
predicate (`EvalPredicate`), chunk pieces and the zero-copy path (`ZeroCopy`), then
one push per piece. `GetSubscribedData` undoes filters. Every delivery flag is
kept. Elements are small numbers; the narrower type saturates at `NarrowMax`, as
`H5Tconvert` does; a variable-length element is its length and bytes.

The reference definitions are `RowMajor`, the order HDF5 gives a selection's
elements, and `Cells`, the set of them: `FileAsWritten` compares the packed and
replayed write with a plain one, `EveryMatchOnce` what arrived with what was asked.

| Run | Instance | Checks |
|---|---|---|
| `narrowing` | 7 file selections, 3 memory selections of each, 10 type pairs, 5 subscriptions, 3 predicates, 4 pipelines, extents of the same and of another width, failing forwards | `FileAsWritten`, `PushTruthful`, `FlagsHonest`, `EveryMatchOnce` |

The caps are 3 and 2 instead of 256 and 64, so that both are exceeded. The
selections are those whose blocks do not share rows, and chunk shapes cover whole
rows; for others the code permutes (section 11). A subscriber whose
extent has another width is represented at the writer by the flat span of its
selection in its own extent, and `EveryMatchOnce` holds it to that span: all of it
arrives. What it selected outside of the span does not, which happens in this
instance (a column of an extent 2 wide) and is against H:602-608 (section 11).

## 9. StepHistory and StepLog

One growing dataset, written through one handle that is kept from its creation,
and one reader. `under` is the extent of the copy the handle is wired to, which
stays that of its first step; `pending_resize_space` is the extent deferred in the
handle; `create` and `writes` are the step's entries. `EndStep` replays them into
the step's copy and fills the rest from the copy before as `carry_forward_resized`
does. `plain` is what an ordinary HDF5 file would hold, kept by the same calls;
`log` its value at each end_step, with `exact` when the step rewrote, appended or
left alone. The reader is `rd`: whether the index is built, how many steps it
covers, the logical map and the cursor. It acts between steps only: a commit
changes nothing but the file, so any interleaving is equivalent to one of these.

`StepLog` is what such a reader is promised: a log that only grows, a prefix fixed
at the first look, a cursor that moves by one or to the last entry of a logical id,
and reads that show the entry's state. `ReadsAsLog` is `StepLog!Spec` under

    known <- IF rd.index_built THEN rd.n_steps_total ELSE Nowhere
    pos   <- rd.current_step

with `log` and `got` mapped to themselves. Reads are compared with `plain`'s states, so
the refinement also shows that appended-to data is carried over, and that nothing
deferred in the handle or taken from its first copy shows through.

| Run | Instance | Checks |
|---|---|---|
| `cursor` | extents up to 3, 3 steps with one write and one resize each, logical ids of which one may be written again | `WritesWin`, `ReadsAsLog` |
| `carry_overwrites` | the same with writes of a part of the old data | `WritesWin`, violated |

Three steps are a creation, a growth and what must not be lost by the next one;
extent 3 lets growth be smaller than, equal to and larger than what was there.
Deadlock is not checked: the stream ends.

### Proofs

`StepHistoryProofs` proves, for every extent, number of steps and choice of ids:

* `StreamImplementsLog`, `Spec => ReadsAsLog`: the refinement, step by step. A commit
  appends to the log; the first look of the reader fixes the prefix; every move of the
  cursor and every read is the abstract one, or leaves its state alone. It holds
  with `HeadWrites` too, since an entry whose carry-forward may go wrong is not
  `exact`, and the log promises nothing of it.
* `OwnWritesWin` (`WritesWin`) when `~HeadWrites`: no step writes a part of the data it
  grew from without writing all of it. With it `carry_overwrites` is the
  counterexample.

`carry_forward_resized` decides by a count of written elements (`WrittenTotal`), so
both need to know what the count stands for: `WrittenInv` says that the
entries of an open step are whole rewrites or lie above the newest copy, `KeptInv`
that what was neither written nor cut (`low` is the smallest extent of the step) is as
in the newest copy, `LogInv` that an exact entry equals that copy. `IndexInv` says that
the logical map names the last step of each id among those counted.

## 10. DiasporaTransport

The transport that `VOL_STREAM_TRANSPORT=diaspora` selects, a prototype on top of
an event log (`docs/dev-plan.md:1537`: not built in CI). The log is external and
modelled from the backend's use of it: `topic` and `control` are sequences; a
consumer hands event `start + i` to its i-th pull whether or not anyone waits for
that pull any more (D:304-309), and starts at the offset kept under its name, which
all readers share (D:753). `cons[r]` counts the pulls and names the one retained in
`pending_data`; `ctl` is the same for the writer. `Arrive` is the consumer's
thread: it satisfies the pull and runs the DataSelector with the subscriptions of
that moment (`view`). `Wait`, `PumpStep`, `PumpData` and `WaitTimesOut` are one
round each of `pump`, in `wait_step_ready` (`call` is `step`) or `wait_data`. The
writer's calls that pump the control topic are cut at each round: `PumpControl`
takes an event, `PumpTimesOut` ends the pump, and with it the call. A timeout may
strike whenever nothing has arrived, however short the code's are.

`Readers` are handles: a reader that stops and starts again is the next one, with
another rid, at the persisted offset. `control` may start with an announcement of
an earlier run, which the start-up drain may or may not take in time.

| Run | Instance | Checks |
|---|---|---|
| `diaspora` | 2 handles one after the other, 2 paths, a selection with a hole, 2 writes, 1 step, 3 control events, one of which may be left over | `AnnouncedKnown`, `StepIsWhole` |

Three control events are a subscription and an acknowledgement of the first handle
and a subscription of the second, which starts in the middle of the log; or two
paths that the writer learns of at different times. `StepIsWhole` counts the writes
since the writer took a subscription from the control topic, not since
`H5Fsubscribe` returned: the writer declines a path that it has not heard of as soon
as it has heard of another (D:1152).

### Proofs

`DiasporaTransportProofs` proves `TypeCorrect`, `NoAnnouncementLost` (`AnnouncedKnown`)
and `ReportedStepIsWhole` (`StepIsWhole`) without further assumption, for any
number of handles, paths, events and timeouts. The argument follows a write through
the log. `DrainSafe`: what the start-up drain consumes was left by an earlier
run, since no reader has joined before the tables are cleared. `TopicOrdered`: no
write of a step lies behind the step's marker. `SubscriptionKept`: what the writer
learned of a subscription the reader still has. `PushedAfterStart`: a write that was
pushed since then lies ahead of where the consumer started. `PullsInOrder` and
`NoneSkipped`: a retained pull is the next event, so every event that a reader
passed and that was due to it made an item, in order (`HandedInOrder`). A reported
step's marker was passed (`ReportedPassed`), and so was every write of the step.

## 11. Where code and documents disagree

Each was found while a property was being checked. The first two have a run.

* **A discarded step makes the file unreadable** (`discard_unreadable`).
  Discard commits an empty group without `.manifest`; `reader_index_one_step`
  (C:5031) fails on it. H:325 and C:8741 promise that later steps stay reachable.
* **Carry-forward may overwrite what the step wrote** (`carry_overwrites`). It is
  decided by counts (C:6221): a step that grows a dataset by n and writes n of its
  old elements gets the previous copy's values over its own, against C:6083-6096.

Of the commit path (confirmed with TLC on variations of the instances):

* The step after a failed step fails: build_manifest records a type before the
  replay that never learns it (C:5524), and the abort does not take it back.
  `test/t_failed_replay.c:8` promises that the next step commits. A path
  whose type was known before is decoded with the older type instead. Both occur in
  the instance of `commit_types`: without `tainted`, `FailureContained` and
  `DecodedAsWritten` are violated there.
* A drained step may be decoded with another step's type: C:6810 assumes a
  manifest is replayed right after it is built.
* With `Spill` and no fault: the index is appended out of step order after a
  drain, against the comment at C:4872; a spilled step drained below the
  retention floor stays in the file beyond the bound H:955 gives; closing the
  file abandons what is in BAKE (C:1640-1658), although end_step reported the step
  committed, against `docs/user-guide.md:907` ("Fail-soft with no loss") and H:328.
* With `Spill` and storage faults: a retried drain meets the datasets of its own
  first attempt and never succeeds, against C:8889-8891.
* With a very large `reserve_slots`, `min_acked + reserve_slots` wraps
  (C:9340) and the policy acts although H:801 says it may not yet.
* With retention of one step: a reader's `build_index` requires the groups to
  start at 0 (C:5203), which pruning makes impossible; the comment at
  C:5140-5144 describes pruned files as readable.
* After a double create, a placeholder of the failed step may be written through
  in a later step (C:11427), against C:11257.
* A write refused by the pending limit leaves the create that was synthesized
  for it in the step (C:11516), against C:2295 and `test/t_config.c:13`.

Of the delivery:

* A staged subscriber may be sent one more live announcement: the broadcast checks
  `backfill_state` and then forwards (T:2446-2457). T:234-240 promises that nothing is
  announced to a staged member, which "sees each step once and in order", and
  H:863-867 likewise. In the instance of `delivery` a reader stages in between, is
  told of step 0 live and of step 0 again by its backfill; `EveryStepTold` states
  that this is all that can come in front of the steps it asked for, and that it is
  the only repetition.
* A subscriber may hold data of a step that failed: pushes go out during the
  replay (C:7140) and the next step has the same number. C:13617 says that no
  reader finds what a failed replay made.
* A subscriber whose JOINED event has not reached the writer is counted by
  `H5Fwait_subscribers` (H:895-899) but has no address, so its pushes and its
  backfill are skipped (T:3005, T:3696).

Of attributes, links and requests:

* The memory of a link (`links_note`) is not taken back by a failed step: a later step
  repeats links that no committed step has, or with the target that the failed step
  gave them. C:6291 has it that "no link names a stale copy"; `LinkFollows` holds of all
  other links. Group attributes folded into a failed step are forgotten.
* `H5Acreate` of one attribute twice in a step succeeds both times (C:10254-10289), and
  the replay of the second fails the step (C:7290-7297).
* The handle of an attribute whose step failed may be written in a later step, and
  its old `pending_index` is taken for the entry (C:10462; the comment at C:10437 is
  "A placeholder already knows its own entry"): another entry gets the contents, or the
  list is read behind its end. `H5Aclose` checks (C:10957-10959).
* A hard link to nothing is reported successful; a link to a link is not followed
  by the fold; a second link of the same name in one step fails without an error.
* An attribute handle from `H5Aopen` has no path (C:10440), so what is
  written through it is not captured.
* A request of a discarded step reports success, and one of a step that is open
  when the file is closed stays pending for ever.

Of the session:

* A reader that learns of the end from the marker is told EOS while `H5Fwait_data`
  still waits out its timeout (T:1130, T:4049); `docs/user-guide.md:475` says that
  "waits then return at once".
* If a step_ready is handled after its second has passed, EOS can be reported and a
  step be queued after it, against the comment at T:930.
* A reader that learns of the writer only after its DIED event, and one that gave
  up joining after 5 seconds (it has no marker path), never learn of the end.
* A group file that a killed writer left behind looks like a running stream, and
  the marker of an earlier run is visible until the next one unlinks it (C:1978);
  an EOS seen through it is retracted by the restart.
* The join seed is queued when its answer arrives (T:2139), so it may repeat a step
  or come after a newer one; a step between the seed and JOINED is not announced.

Of the parallel writer:

* The merge drops the second create of a path, so the handle that another rank
  keeps open for it is never wired (C:7766), against C:7906-7911 and
  `docs/user-guide.md:1959`.
* Links and index entries are not exchanged between ranks. Ranks agree on whether
  a policy acts, not on which one or with which reserve.
* A rank whose replay fails skips the final barrier (C:13614): its next collective
  meets the barrier of the others. The comment there owns up to it ("a rank failure
  inside a commit is not handled anyway").

Of narrowing:

* `space_flat_runs_range` walks block after block while HDF5's order is row-major,
  so a selection of two tall blocks side by side is packed permuted, in the file as
  well as in pushes, against C:5700-5702, C:5982-5984 and C:13312. Such a memory
  selection added to `MCMems` violates `FileAsWritten`.
* The zero-copy path compares the chunk's element count with the run's only (C:3204), so
  a row of a dataset chunked by columns is answered with a column; C:3124-3131
  describes an equality of extents.
* A subscription made against an extent with other trailing dimensions is sent the
  flat span that the reader computed in its own extent (C:13770, T:3620-3646), which
  may leave out elements it selects, against H:600-608. With `Cells(in.sub, Cols)` for
  `Asked`, `EveryMatchOnce` is violated in the instance of `narrowing`.
* A write of more runs than the cap, or of points, is not pushed live, while a
  backfill sends the whole dataset; a path written twice in a step is sent twice
  by a backfill.

Of resizes:

* Shrinking and growing again, within or between steps, brings old values back
  where HDF5 would have its fill value; `exact` excludes it.
* Write, resize, write in one step replays into the extent of the first create.
* An index built on a file without steps never grows: the reader has to reopen it.

Of the Diaspora transport (the first three occur in the instance of `diaspora`):

* What is fetched and what is reported can differ. The selector runs when the event
  arrives, the labelling when it is taken, and a subscription made or changed in
  between gives an item whose buffer was never filled (D:718, D:857, D:881).
  D:353-354 says "those two cannot disagree about what was requested".
* A step marker that `wait_data` meets is dropped (D:840-842), so no
  `wait_step_ready` reports that step. D:797-799 makes the marker durable "so a
  reader cannot miss it".
* The start-up drain ends with the first poll of 5 ms that finds nothing, so an
  announcement of an earlier run can still be counted as a subscriber, against
  D:637-642.
* The persisted offset belongs to a name that all readers share (D:753): a reader
  that starts again resumes where the last acknowledging reader was, against
  D:36-37.

## 12. Not modelled

Formats (flatbuffer layout, datatype encoding), the HDF5 library, Mercury, Flock,
BAKE and MPI themselves. The timeline overlay, the pass-through callbacks and
`H5Dwrite_multi`: sequential, no protocol state. Of the Diaspora transport, the
schema topic, the delivery flags, a writer started again on the same topics, and the
calls that the backend answers with an error. The Python binding, the command line
tool, examples, benchmarks and tests.

Out of reach of the proofs, and left to TLC: liveness (`EndStepReturns` of two
modules, `WriterReturns`, `EosReached`, `CrashNoticed`) and whatever depends on
fairness or ENABLED; and facts that need induction over data. The latter are the
four properties of `Narrowing` (`FileAsWritten`, `PushTruthful`, `FlagsHonest`,
`EveryMatchOnce`): what `FlatRunsRange`, `SelectionRuns` or `VlDeserialize` compute is
built by concatenating and folding sequences, for inputs of any length. Nor are they
true of every selection (section 11): a theorem would need the shapes of
which they are as an assumption, and the run lists those one by one.
