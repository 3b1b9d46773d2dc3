----------------------------- MODULE StepDelivery -----------------------------
(***************************************************************************)
(* How a serial writer's committed steps reach its readers over Mercury    *)
(* (src/src/tr_mercury.c, with the calls to it in src/src/H5VLstream.c):   *)
(* joining and the join seed, plain and backfilled subscriptions, the      *)
(* asynchronous data pushes of a replay, the settling of these pushes, the *)
(* announcement of the step, the backfill service and departures.          *)
(*                                                                         *)
(* Four kinds of process interleave: the writer's thread, the handlers and *)
(* callbacks that the writer's progress engine runs, each reader's thread, *)
(* and each reader's handlers. What a step contains is taken from outside: *)
(* the set of paths that it writes.                                        *)
(***************************************************************************)
EXTENDS Integers, Sequences, FiniteSets, FiniteSetsExt

CONSTANTS
    Readers,      \* processes that may join the group
    Paths,        \* dataset names
    StartSteps,   \* the start_step values H5Fsubscribe_from is called with
    Faults,       \* what may go wrong, a subset of FaultKinds
    MaxSteps,     \* bound: steps begun with physical_step < MaxSteps
    MaxFails      \* bound: failed replays

FaultKinds == {"loss",           \* a push or an announcement is lost
               "failed_replay"}  \* a step fails after some of its pushes

ASSUME DeliveryAssumption ==
    /\ StartSteps \subseteq Nat
    /\ Faults \subseteq FaultKinds
    /\ MaxSteps \in Nat
    /\ MaxFails \in Nat

VARIABLES
    \* The writer's thread.
    at,             \* where it is: see Places
    resume,         \* where serve_backfill returns to
    physical_step,
    fails,          \* replays that failed so far: names an attempt at a step
    writes,         \* paths the open step writes, once end_step is called
    todo,           \* ... those its replay has not reached yet
    job,            \* the backfill being served, or NoJob
    inflight,       \* pushes issued and not completed
    targets, dest,  \* the broadcast's snapshot, and the member being sent to
    written, attempt, \* what step n wrote, and in which attempt it committed
    \* The writer's tables, changed by handlers and callbacks.
    members, sub_table, backfill_from,
    \* The readers.
    stage,          \* where a reader is: see Stages
    has_subscribed,
    to_stage,       \* paths its H5Fsubscribe_from has still to send
    \* History.
    got, lost,      \* pushes that arrived, and that did not
    told,           \* announcements sent to each reader, in order
    mark,           \* how many of these were decided before its staging
    stray,          \* ... and which one of them had still to be sent then
    from,           \* the first step it is to be told of after them
    since           \* per reader and path, the first step whose data is due

threadVars == <<at, resume, physical_step, fails, writes, todo, job, targets,
                dest, written, attempt>>
tableVars  == <<members, sub_table, backfill_from>>
readerVars == <<stage, has_subscribed, to_stage>>
pushVars   == <<inflight, got, lost>>
toldVars   == <<told, mark, stray, from>>
vars == <<threadVars, tableVars, readerVars, pushVars, toldVars, since>>

-----------------------------------------------------------------------------
Steps  == 0 .. MaxSteps
Never  == MaxSteps + 1    \* no step is promised
NoJob  == [member |-> {}, paths |-> {}, k |-> 0, pushed |-> FALSE]

Places == {"idle", "serve", "job", "in_step", "replay", "settle",
           "announce", "forward", "closed"}
Stages == {"out",       \* not started
           "ready",     \* registered with the group
           "staging",   \* inside H5Fsubscribe_from
           "gone"}
Push == [to : Readers, step : Steps, path : Paths, try : 0 .. MaxFails]

\* backfill_state of a (member, path) entry: 0, 1 and 2; none is no entry.
SubStates == {"none", "live", "staged", "released"}

BackfillingStaged(r) == \E p \in Paths : sub_table[r][p] = "staged"  \* mutant
Backfilling(r) == \E p \in Paths : sub_table[r][p] \in {"staged", "released"}

Init ==
    /\ at = "idle" /\ resume = "idle"
    /\ physical_step = 0 /\ fails = 0
    /\ writes = {} /\ todo = {} /\ job = NoJob
    /\ inflight = {} /\ targets = {} /\ dest = {}
    /\ written = [n \in Steps |-> {}]
    /\ attempt = [n \in Steps |-> 0]
    /\ members = {}
    /\ sub_table = [r \in Readers |-> [p \in Paths |-> "none"]]
    /\ backfill_from = [r \in Readers |-> 0]
    /\ stage = [r \in Readers |-> "out"]
    /\ has_subscribed = [r \in Readers |-> FALSE]
    /\ to_stage = [r \in Readers |-> {}]
    /\ got = {} /\ lost = {}
    /\ told = [r \in Readers |-> <<>>]
    /\ mark = [r \in Readers |-> 0]
    /\ stray = [r \in Readers |-> <<>>]
    /\ from = [r \in Readers |-> 0]
    /\ since = [r \in Readers |-> [p \in Paths |-> Never]]

Present(r) == stage[r] \in {"ready", "staging"}

-----------------------------------------------------------------------------
(* Pushes and announcements, from the writer's thread.                     *)

\* mutant: a subscriber whose backfill is still to come gets live data too
PushTargetsEarly(p, only) ==
    {r \in only \cap members : sub_table[r][p] \in {"live", "released"}}

\* push_data: one push to each live subscriber of p, among only, that the
\* member table can still address.
PushTargets(p, only) == {r \in only \cap members : sub_table[r][p] = "live"}
Pushes(n, p, only) ==
    {[to |-> r, step |-> n, path |-> p, try |-> fails] : r \in PushTargets(p, only)}

\* The handler at the reader queues the item and answers.
DataPush(e) ==
    /\ e \in inflight
    /\ Present(e.to)
    /\ inflight' = inflight \ {e}
    /\ got' = got \cup {e}
    /\ UNCHANGED <<threadVars, tableVars, readerVars, toldVars, lost, since>>

\* The forward times out: the reader is gone, or the message is.
NeverTimesOut(e) == FALSE  \* mutant: an untimed forward
TimesOut(e) == ~Present(e.to) \/ "loss" \in Faults
PushFails(e) ==
    /\ e \in inflight
    /\ TimesOut(e)
    /\ inflight' = inflight \ {e}
    /\ lost' = lost \cup {e}
    /\ UNCHANGED <<threadVars, tableVars, readerVars, toldVars, got, since>>

\* drain_pushes returns once every push issued has completed.
SettledAlways == TRUE  \* mutant: announces without waiting
Settled == inflight = {}

\* One step_ready forward to r. It is timed and not repeated: whether it
\* arrives makes no difference to the writer.
StepReady(r, n) == told' = [told EXCEPT ![r] = Append(@, n)]

-----------------------------------------------------------------------------
(* begin_step and end_step.                                                *)

BeginStep ==
    /\ at = "idle"
    /\ physical_step < MaxSteps
    /\ at' = "serve" /\ resume' = "in_step"
    /\ UNCHANGED <<physical_step, fails, writes, todo, job, targets, dest,
                   written, attempt, tableVars, readerVars, pushVars, toldVars,
                   since>>

EndStep(W) ==
    /\ at = "in_step"
    /\ at' = "serve" /\ resume' = "replay"
    /\ writes' = W /\ todo' = W
    /\ UNCHANGED <<physical_step, fails, job, targets, dest, written, attempt,
                   tableVars, readerVars, pushVars, toldVars, since>>

\* The replay reaches a write of p.
ReplayWrite(p) ==
    /\ at = "replay"
    /\ p \in todo
    /\ todo' = todo \ {p}
    /\ inflight' = inflight \cup Pushes(physical_step, p, Readers)
    /\ UNCHANGED <<at, resume, physical_step, fails, writes, job, targets, dest,
                   written, attempt, tableVars, readerVars, got, lost, toldVars,
                   since>>

\* The step is discarded; its number is used again. Its pushes are not recalled.
ReplayFails ==
    /\ at = "replay"
    /\ "failed_replay" \in Faults /\ fails < MaxFails
    /\ fails' = fails + 1
    /\ at' = "idle"
    /\ writes' = {} /\ todo' = {}
    /\ UNCHANGED <<resume, physical_step, job, targets, dest, written, attempt,
                   tableVars, readerVars, pushVars, toldVars, since>>

Commit ==
    /\ at = "replay"
    /\ todo = {}
    /\ written' = [written EXCEPT ![physical_step] = writes]
    /\ attempt' = [attempt EXCEPT ![physical_step] = fails]
    /\ physical_step' = physical_step + 1
    /\ writes' = {}
    /\ at' = "settle"
    /\ UNCHANGED <<resume, fails, todo, job, targets, dest, tableVars,
                   readerVars, pushVars, toldVars, since>>

\* broadcast_step_ready: settle the pushes, then snapshot the members.
Broadcast ==
    /\ at = "settle"
    /\ Settled
    /\ targets' = members
    /\ at' = "announce"
    /\ UNCHANGED <<resume, physical_step, fails, writes, todo, job, dest, written,
                   attempt, tableVars, readerVars, pushVars, toldVars, since>>

\* The next member of the snapshot: skipped when it waits for a backfill or
\* cannot be addressed any more.
AnnounceNext(r) ==
    /\ at = "announce"
    /\ r \in targets
    /\ targets' = targets \ {r}
    /\ IF Backfilling(r) \/ r \notin members
       THEN UNCHANGED <<at, dest>>
       ELSE at' = "forward" /\ dest' = {r}
    /\ UNCHANGED <<resume, physical_step, fails, writes, todo, job, written,
                   attempt, tableVars, readerVars, pushVars, toldVars, since>>

Announce ==
    /\ at = "forward"
    /\ \E r \in dest : StepReady(r, physical_step - 1)
    /\ at' = "announce" /\ dest' = {}
    /\ UNCHANGED <<resume, physical_step, fails, writes, todo, job, targets,
                   written, attempt, tableVars, readerVars, pushVars, mark, stray,
                   from, since>>

AnnounceDone ==
    /\ at = "announce"
    /\ targets = {}
    /\ at' = "idle"
    /\ UNCHANGED <<resume, physical_step, fails, writes, todo, job, targets, dest,
                   written, attempt, tableVars, readerVars, pushVars, toldVars,
                   since>>

\* The last reference to the file goes: pushes of a failed step are settled.
FileClose ==
    /\ at \in {"idle", "in_step"}
    /\ Settled
    /\ at' = "closed"
    /\ UNCHANGED <<resume, physical_step, fails, writes, todo, job, targets, dest,
                   written, attempt, tableVars, readerVars, pushVars, toldVars,
                   since>>

-----------------------------------------------------------------------------
(* serve_backfill.                                                         *)

Released(r) == {p \in Paths : sub_table[r][p] = "released"}

\* take_backfill: all released entries of one member go live.
TakeBackfill(r) ==
    /\ at = "serve"
    /\ Released(r) # {}
    /\ job' = [member |-> {r}, paths |-> Released(r),
               k |-> backfill_from[r], pushed |-> FALSE]
    /\ sub_table' = [sub_table EXCEPT ![r] =
                       [p \in Paths |-> IF p \in Released(r) THEN "live" ELSE @[p]]]
    /\ at' = "job"
    \* A member that cannot be addressed is served in vain.
    /\ since' = IF r \in members THEN since
                ELSE [since EXCEPT ![r] = [p \in Paths |-> Never]]
    /\ from' = [from EXCEPT ![r] = Min({backfill_from[r], physical_step})]
    /\ UNCHANGED <<resume, physical_step, fails, writes, todo, targets, dest,
                   written, attempt, members, backfill_from, readerVars,
                   pushVars, told, mark, stray>>

BackfillEnds(k) == k >= physical_step

\* Push what step k wrote of the paths asked for ...
BackfillPush ==
    /\ at = "job"
    /\ ~BackfillEnds(job.k)
    /\ ~job.pushed
    /\ inflight' = inflight \cup
          UNION {{[e EXCEPT !.try = attempt[job.k]] : e \in Pushes(job.k, p, job.member)} :
                    p \in job.paths \cap written[job.k]}
    /\ job' = [job EXCEPT !.pushed = TRUE]
    /\ UNCHANGED <<at, resume, physical_step, fails, writes, todo, targets, dest,
                   written, attempt, tableVars, readerVars, got, lost, toldVars,
                   since>>

\* ... and announce k to that member alone, once the pushes have settled.
BackfillAnnounce ==
    /\ at = "job"
    /\ job.pushed
    /\ Settled
    /\ IF job.member \subseteq members
       THEN \E r \in job.member : StepReady(r, job.k)
       ELSE UNCHANGED told
    /\ job' = [job EXCEPT !.k = @ + 1, !.pushed = FALSE]
    /\ UNCHANGED <<at, resume, physical_step, fails, writes, todo, targets, dest,
                   written, attempt, tableVars, readerVars, pushVars, mark, stray,
                   from, since>>

BackfillDone ==
    /\ at = "job"
    /\ ~job.pushed
    /\ BackfillEnds(job.k)
    /\ job' = NoJob
    /\ at' = "serve"
    /\ UNCHANGED <<resume, physical_step, fails, writes, todo, targets, dest,
                   written, attempt, tableVars, readerVars, pushVars, toldVars,
                   since>>

ServeDone ==
    /\ at = "serve"
    /\ \A r \in Readers : Released(r) = {}
    /\ at' = resume
    /\ UNCHANGED <<resume, physical_step, fails, writes, todo, job, targets, dest,
                   written, attempt, tableVars, readerVars, pushVars, toldVars,
                   since>>

-----------------------------------------------------------------------------
(* Readers: joining, subscribing, leaving.                                 *)

\* The first step whose pushes all come after this moment, and the first one
\* that is announced to a member r added at this moment.
NextPushed == IF at = "replay" THEN physical_step + 1 ELSE physical_step
NextAnnounced(r) ==
    IF at = "settle" THEN physical_step - 1
    ELSE IF job.member = {r} THEN Min({job.k, physical_step})
    ELSE physical_step

Join(r) ==
    /\ stage[r] = "out"
    /\ stage' = [stage EXCEPT ![r] = "ready"]
    /\ UNCHANGED <<threadVars, tableVars, has_subscribed, to_stage, pushVars,
                   toldVars, since>>

\* The writer's membership callback, whenever the gossip reaches it.
MemberJoined(r) ==
    /\ at # "closed"
    /\ Present(r)
    /\ r \notin members
    /\ members' = members \cup {r}
    /\ since' = [since EXCEPT ![r] =
          [p \in Paths |-> IF sub_table[r][p] = "live" THEN NextPushed ELSE @[p]]]
    /\ from' = [from EXCEPT ![r] = NextAnnounced(r)]
    /\ UNCHANGED <<threadVars, sub_table, backfill_from, readerVars, pushVars,
                   told, mark, stray>>

\* H5Fsubscribe of p: an entry, live at once, unless the request is lost (its
\* result is not looked at). An entry that exists keeps its backfill state.
Subscribe(r, p) ==
    /\ at # "closed"
    /\ stage[r] = "ready"
    /\ has_subscribed' = [has_subscribed EXCEPT ![r] = TRUE]
    /\ \/ /\ sub_table[r][p] = "none"
          /\ sub_table' = [sub_table EXCEPT ![r][p] = "live"]
          /\ since' = IF r \in members THEN [since EXCEPT ![r][p] = NextPushed]
                      ELSE since
       \/ /\ sub_table[r][p] # "none" \/ "loss" \in Faults
          /\ UNCHANGED <<sub_table, since>>
    /\ UNCHANGED <<threadVars, members, backfill_from, stage, to_stage, pushVars,
                   toldVars>>

\* H5Fsubscribe_from, refused unless it is the first subscription.
SubscribeFrom(r, P, s) ==
    /\ at # "closed"
    /\ stage[r] = "ready"
    /\ ~has_subscribed[r]
    /\ P # {}
    /\ stage' = [stage EXCEPT ![r] = "staging"]
    /\ to_stage' = [to_stage EXCEPT ![r] = P]
    /\ backfill_from' = [backfill_from EXCEPT ![r] = s]
    /\ UNCHANGED <<threadVars, members, sub_table, has_subscribed, pushVars,
                   toldVars, since>>

\* Its subscribe requests, one path at a time, reach the writer's handler. A
\* broadcast that has found the reader not waiting and is about to forward the
\* step to it does so all the same, ...
Stage(r, p) ==
    /\ at # "closed"
    /\ stage[r] = "staging"
    /\ p \in to_stage[r]
    /\ to_stage' = [to_stage EXCEPT ![r] = @ \ {p}]
    /\ sub_table' = [sub_table EXCEPT ![r][p] = "staged"]
    /\ since' = [since EXCEPT ![r][p] = backfill_from[r]]
    /\ IF Backfilling(r)
       THEN UNCHANGED <<mark, stray>>
       ELSE /\ mark' = [mark EXCEPT ![r] = Len(told[r]) + Cardinality(dest \cap {r})]
            /\ stray' = [stray EXCEPT ![r] = IF r \in dest THEN <<physical_step - 1>> ELSE <<>>]
    /\ UNCHANGED <<threadVars, members, backfill_from, stage, has_subscribed,
                   pushVars, told, from>>

\* ... or are lost, which the call does not notice, ...
StageLost(r, p) ==
    /\ stage[r] = "staging"
    /\ "loss" \in Faults \/ at = "closed"
    /\ p \in to_stage[r]
    /\ to_stage' = [to_stage EXCEPT ![r] = @ \ {p}]
    /\ UNCHANGED <<threadVars, tableVars, stage, has_subscribed, pushVars,
                   toldVars, since>>

\* ... and then the one that releases what was staged, which may be lost too.
Release(r) ==
    /\ stage[r] = "staging"
    /\ to_stage[r] = {}
    /\ stage' = [stage EXCEPT ![r] = "ready"]
    /\ has_subscribed' = [has_subscribed EXCEPT ![r] = TRUE]
    /\ \/ /\ at # "closed"
          /\ sub_table' = [sub_table EXCEPT ![r] =
                [p \in Paths |-> IF @[p] = "staged" THEN "released" ELSE @[p]]]
       \/ /\ "loss" \in Faults \/ at = "closed"
          /\ UNCHANGED sub_table
    /\ UNCHANGED <<threadVars, members, backfill_from, to_stage, pushVars,
                   toldVars, since>>

Leave(r) ==
    /\ stage[r] = "ready"
    /\ stage' = [stage EXCEPT ![r] = "gone"]
    /\ UNCHANGED <<threadVars, tableVars, has_subscribed, to_stage, pushVars,
                   toldVars, since>>

\* The writer's membership callback: first the member goes, under
\* member_lock, then its entries, under sub_lock.
MemberLeft(r) ==
    /\ at # "closed"
    /\ stage[r] = "gone"
    /\ r \in members
    /\ members' = members \ {r}
    /\ since' = [since EXCEPT ![r] =
          [p \in Paths |-> IF sub_table[r][p] = "live" THEN Never ELSE @[p]]]
    /\ UNCHANGED <<threadVars, sub_table, backfill_from, readerVars, pushVars,
                   toldVars>>
EntriesPurged(r) ==
    /\ at # "closed"
    /\ stage[r] = "gone"
    /\ r \notin members
    /\ \E p \in Paths : sub_table[r][p] # "none"
    /\ sub_table' = [sub_table EXCEPT ![r] = [p \in Paths |-> "none"]]
    /\ since' = [since EXCEPT ![r] = [p \in Paths |-> Never]]
    /\ UNCHANGED <<threadVars, members, backfill_from, readerVars, pushVars,
                   toldVars>>

-----------------------------------------------------------------------------
\* What the writer's thread does inside begin_step and end_step.
WriterRuns ==
    \/ \E p \in Paths : ReplayWrite(p)
    \/ ReplayFails \/ Commit \/ Broadcast
    \/ \E r \in Readers : AnnounceNext(r)
    \/ Announce \/ AnnounceDone
    \/ \E r \in Readers : TakeBackfill(r)
    \/ BackfillPush \/ BackfillAnnounce \/ BackfillDone \/ ServeDone

\* Every forward is timed, so every push completes.
PushCompletes == \E e \in inflight : DataPush(e) \/ PushFails(e)

ReaderRuns ==
    \E r \in Readers :
        \/ Join(r) \/ MemberJoined(r) \/ Leave(r) \/ MemberLeft(r)
        \/ EntriesPurged(r)
        \/ \E p \in Paths : Subscribe(r, p)
        \/ \E P \in SUBSET Paths, s \in StartSteps : SubscribeFrom(r, P, s)
        \/ \E p \in Paths : Stage(r, p) \/ StageLost(r, p)
        \/ Release(r)

Closed == at = "closed" /\ UNCHANGED vars

Next ==
    \/ BeginStep
    \/ \E W \in SUBSET Paths : EndStep(W)
    \/ FileClose
    \/ WriterRuns \/ PushCompletes \/ ReaderRuns \/ Closed

Spec == Init /\ [][Next]_vars

\* The writer's thread and the forwards' timers run; readers need not.
FairSpec == Spec /\ WF_vars(WriterRuns) /\ WF_vars(PushCompletes)

-----------------------------------------------------------------------------
(* What the delivery promises.                                             *)

\* Every variable has its type, and only committed steps are announced.
TypeOK ==
    /\ at \in Places /\ resume \in {"idle", "in_step", "replay"}
    /\ physical_step \in Steps /\ fails \in 0 .. MaxFails
    /\ writes \subseteq Paths /\ todo \subseteq writes
    /\ job \in [member : SUBSET Readers, paths : SUBSET Paths, k : Nat,
                pushed : BOOLEAN]
    /\ inflight \subseteq Push /\ got \subseteq Push /\ lost \subseteq Push
    /\ targets \subseteq Readers /\ dest \subseteq Readers
    /\ written \in [Steps -> SUBSET Paths]
    /\ attempt \in [Steps -> 0 .. MaxFails]
    /\ members \subseteq Readers
    /\ sub_table \in [Readers -> [Paths -> SubStates]]
    /\ backfill_from \in [Readers -> Nat]
    /\ stage \in [Readers -> Stages]
    /\ has_subscribed \in [Readers -> BOOLEAN]
    /\ to_stage \in [Readers -> SUBSET Paths]
    /\ told \in [Readers -> Seq(0 .. physical_step - 1)]  \* committed ones only
    /\ mark \in [Readers -> Nat]
    /\ stray \in [Readers -> Seq(Steps)]
    /\ from \in [Readers -> Steps]
    /\ since \in [Readers -> [Paths -> Nat]]

\* The announcements that the writer decided on after r's staged subscription
\* reached it, and those it sent after that: all of them when r staged none.
Announced(r) == SubSeq(told[r], mark[r] + 1, Len(told[r]))
SentSince(r) == SubSeq(told[r], mark[r] - Len(stray[r]) + 1, Len(told[r]))

\* A reader is told of a step only after everything that the step wrote to a
\* path it is promised has arrived, or is known to be lost: asynchronous
\* pushes never trail the announcement, live or backfilled. The promise of a
\* backfill does not cover the announcement that was under way at the staging.
DataFirst ==
    \A r \in Readers, p \in Paths :
        \A i \in DOMAIN Announced(r) :
            LET n == Announced(r)[i] IN
            (n >= since[r][p] /\ p \in written[n]) =>
                [to |-> r, step |-> n, path |-> p, try |-> attempt[n]]
                    \in got \cup lost

\* Between two calls of the writer, a member that waits for no backfill was
\* sent, since it joined or staged its subscription, every committed step since
\* then, or since the step that its H5Fsubscribe_from named, each once and in
\* order: neither the hand-over from backfill to live delivery, nor a join in
\* the middle of a broadcast, skips a step or repeats one. The one thing in
\* front of them is the announcement that was under way when the subscription
\* was staged. It tells of a step that the backfill may tell again, against
\* tr_mercury.c:234-240 (nothing is announced to a staged member, which "sees
\* each step once and in order") and H5VLstream.h:863-867.
EveryStepTold ==
    at \in {"idle", "in_step"} =>
        \A r \in members :
            ~Backfilling(r) =>
                SentSince(r) = stray[r] \o
                               [i \in 1 .. physical_step - from[r] |-> from[r] + i - 1]

\* The session of a member that waits for no backfill, and the items of
\* committed steps, leaving out the pushes of attempts that failed. What was
\* under way at a staging is in no session: it is sent between two of them.
InSession(r) == r \in members /\ ~Backfilling(r)
SessionOf(r) ==
    IF InSession(r)
    THEN [open |-> TRUE, first |-> from[r], heard |-> Announced(r),
          due |-> [p \in {q \in Paths : sub_table[r][q] = "live"} |-> since[r][p]]]
    ELSE [open |-> FALSE, first |-> 0, heard |-> <<>>, due |-> <<>>]
CommittedPush(e) == e.step < physical_step /\ e.try = attempt[e.step]
ItemsOf(S) ==
    {[to |-> e.to, step |-> e.step, path |-> e.path] : e \in {x \in S : CommittedPush(x)}}

Channel == INSTANCE StepChannel WITH
    Lossy   <- "loss" \in Faults,
    log     <- [i \in 1 .. physical_step |-> written[i - 1]],
    where   <- stage,
    ask     <- backfill_from,
    session <- [r \in Readers |-> SessionOf(r)],
    got     <- ItemsOf(got),
    lost    <- ItemsOf(lost)

\* Threads, tables, snapshots and failed attempts add up to the channel: no
\* reader is told of a step out of turn, of one whose data is not with it, or
\* of the next one late; no item is settled twice, by a backfill and live; a
\* backfill starts where it was asked to, whatever happens in between.
ImplementsChannel == Channel!Spec

\* Whatever the readers do, begin_step and end_step return.
WriterReturns == []<>(at \in {"idle", "in_step", "closed"})
=============================================================================
