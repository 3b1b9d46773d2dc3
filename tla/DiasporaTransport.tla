-------------------------- MODULE DiasporaTransport --------------------------
(***************************************************************************)
(* The second transport (src/src/tr_diaspora.cpp): the interface of the    *)
(* Mercury transport on top of an external event log. The writer appends   *)
(* one event per write and one per step to a topic that every reader       *)
(* consumes; readers append their subscriptions and acknowledgements to a  *)
(* control topic that the writer consumes.                                 *)
(*                                                                         *)
(* The log is modelled from how the backend uses it: a topic is a sequence *)
(* of events; a consumer hands event start + i to its i-th pull, on its    *)
(* own thread, whether or not anyone still waits for that pull; a consumer *)
(* starts at the offset kept under its name.                               *)
(***************************************************************************)
EXTENDS Integers, Sequences, FiniteSets, FiniteSetsExt

CONSTANTS
    Readers,      \* transport handles that may join, each with its own rid
    OldReader,    \* rid of an announcement that an earlier run left behind
    Paths,
    Spans,        \* element sets that subscriptions select
    Writes,       \* element sets that writes cover
    SelectionCb,  \* whether the selection callback resolves selections
    MaxSteps,     \* bound: steps announced
    MaxWrites,    \* bound: writes pushed
    MaxLive,      \* bound: handles in use at a time
    MaxControl    \* bound: events readers append to the control topic

ASSUME DiasporaAssumption ==
    /\ OldReader \notin Readers
    /\ \A S \in Spans \cup Writes : S # {} /\ S \subseteq Nat /\ IsFiniteSet(S)
    /\ SelectionCb \in BOOLEAN
    /\ {MaxSteps, MaxWrites, MaxLive, MaxControl} \subseteq Nat

VARIABLES
    \* The external service.
    topic, control,  \* the events of the two topics
    offset,          \* the offset persisted for "vol-stream-reader"
    group_file,      \* the sidecar exists
    \* The writer.
    op,              \* the call whose pump_control runs: see Calls
    arg,             \* the write that push_data was called with
    cur_step,        \* steps announced so far
    ctl,             \* its control consumer
    seen_subs, sub_paths, acked,
    \* The readers.
    stage,           \* "out", "in" or "gone"
    cons,            \* the consumer, with the pull retained in pending_data
    view,            \* what the DataSelector asked for on the retained pull
    subs,            \* per path, the elements subscribed to; {} is no entry
    call,            \* "none", or the wait that is running: "step", "data"
    ready,           \* items parked for wait_data
    last_event,      \* position of the last item's event, 0 if none
    \* History.
    written,         \* the writes pushed or declined
    since,           \* per reader and path, writes before its subscription was known
    always,          \* ... and the elements that all its subscriptions asked for
    got,             \* the writes whose items each reader's caller was handed
    reported         \* the last step that its wait_step_ready reported

logVars    == <<topic, control, offset, group_file>>
tableVars  == <<seen_subs, sub_paths, acked>>
writerVars == <<op, arg, cur_step, ctl, tableVars, written, since>>
pullVars   == <<cons, view, call>>
readerVars == <<stage, pullVars, subs, ready, last_event, always, got, reported>>
vars == <<logVars, writerVars, readerVars>>

-----------------------------------------------------------------------------
Calls   == {"none", "off", "start", "push", "query"}
NoView  == {-1}         \* the retained pull is not satisfied yet
NoStep  == -1
Elems   == UNION (Spans \cup Writes)
NoWrite == <<>>

DataEvent(j)   == [k |-> "data", at |-> j]      \* carries written[j]
StepEvent(n)   == [k |-> "step", at |-> n]
SubEvent(r, p) == [k |-> "sub", rid |-> r, path |-> {p}, step |-> NoStep]
AckEvent(r, n) == [k |-> "ack", rid |-> r, path |-> {}, step |-> n]

\* A consumer: pulls issued so far, and the one it waits on (0: none).
Consumer(from) == [start |-> from, asked |-> 0, held |-> 0]

\* pull_retained: a pull is issued only when none is outstanding.
ReissuedPull(c) == [c EXCEPT !.asked = @ + 1, !.held = c.asked + 1]  \* mutant
PullRetained(c) == IF c.held = 0 THEN [c EXCEPT !.asked = @ + 1, !.held = c.asked + 1]
                   ELSE c
Satisfied(c) == [c EXCEPT !.held = 0]
Position(c)  == c.start + c.held

\* runs_for: the elements of a write that a subscription gets. A selection
\* that cannot be resolved falls back to the range that bounds it.
Range1D(S) == Min(S) .. Max(S)
RunsFor(S, W) ==
    CASE S = {}      -> {}
      [] SelectionCb -> S \cap W
      [] OTHER       -> Range1D(S) \cap W

Init ==
    /\ topic = <<>>
    /\ control \in {<<>>} \cup {<<SubEvent(OldReader, p)>> : p \in Paths}
    /\ offset = 0 /\ group_file = FALSE
    /\ op = "off" /\ arg = NoWrite /\ cur_step = 0
    /\ ctl = Consumer(0)
    /\ seen_subs = {} /\ sub_paths = {}
    /\ acked = [r \in Readers |-> NoStep]
    /\ stage = [r \in Readers |-> "out"]
    /\ cons = [r \in Readers |-> Consumer(0)]
    /\ view = [r \in Readers |-> NoView]
    /\ subs = [r \in Readers |-> [p \in Paths |-> {}]]
    /\ call = [r \in Readers |-> "none"]
    /\ ready = [r \in Readers |-> <<>>]
    /\ last_event = [r \in Readers |-> 0]
    /\ written = <<>>
    /\ since = [r \in Readers |-> [p \in Paths |-> MaxWrites]]
    /\ always = [r \in Readers |-> [p \in Paths |-> Elems]]
    /\ got = [r \in Readers |-> <<>>]
    /\ reported = [r \in Readers |-> NoStep]

-----------------------------------------------------------------------------
(* The writer: start_group, push_data, broadcast_step_ready and the two    *)
(* calls that only read the control topic.                                 *)

\* start_group, up to its drain of what an earlier run left in the topic.
StartGroup ==
    /\ op = "off"
    /\ op' = "start"
    /\ ctl' = Consumer(0)
    /\ UNCHANGED <<logVars, arg, cur_step, tableVars, written, since, readerVars>>

PushData(p, W) ==
    /\ op = "none"
    /\ Len(written) < MaxWrites
    /\ op' = "push"
    /\ arg' = [step |-> cur_step, path |-> p, elems |-> W]
    /\ UNCHANGED <<logVars, cur_step, ctl, tableVars, written, since, readerVars>>

WaitSubscribers(n) ==
    /\ op = "none"
    /\ Cardinality(seen_subs) < n
    /\ op' = "query"
    /\ UNCHANGED <<logVars, arg, cur_step, ctl, tableVars, written, since, readerVars>>

MinAckedStep ==
    /\ op = "none"
    /\ op' = "query"
    /\ UNCHANGED <<logVars, arg, cur_step, ctl, tableVars, written, since, readerVars>>

Pumping == op \in {"start", "push", "query"}

\* One round of pump_control that finds an event.
PumpControl ==
    LET c == PullRetained(ctl)
        e == control[Position(c)]
    IN  /\ Pumping
        /\ Position(c) <= Len(control)
        /\ ctl' = Satisfied(c)
        /\ seen_subs' = seen_subs \cup {e.rid}
        /\ sub_paths' = sub_paths \cup e.path
        /\ acked' = IF e.k = "ack" /\ e.step > acked[e.rid]
                    THEN [acked EXCEPT ![e.rid] = e.step] ELSE acked
        /\ since' = [r \in Readers |-> [p \in Paths |->
                        IF r = e.rid /\ p \in e.path
                        THEN Min({since[r][p], Len(written)}) ELSE since[r][p]]]
        /\ UNCHANGED <<logVars, op, arg, cur_step, written, readerVars>>

\* The round that times out ends the pump; the call goes on.
PumpedStart ==
    /\ op = "start"
    /\ seen_subs' = {} /\ sub_paths' = {}
    /\ acked' = [r \in Readers |-> NoStep]
    /\ group_file' = TRUE
    /\ UNCHANGED <<topic, control, offset, written>>

\* A path that nobody subscribed to is declined, once anyone subscribed.
Declined(p)       == sub_paths # {} /\ p \notin sub_paths
PumpedPush ==
    /\ op = "push"
    /\ written' = Append(written, arg)
    /\ topic' = IF Declined(arg.path) THEN topic
                ELSE Append(topic, DataEvent(Len(written) + 1))
    /\ UNCHANGED <<control, offset, group_file, tableVars>>

PumpedQuery ==
    /\ op = "query"
    /\ UNCHANGED <<logVars, tableVars, written>>

PumpTimesOut ==
    /\ Pumping
    /\ ctl' = PullRetained(ctl)
    /\ op' = "none" /\ arg' = NoWrite
    /\ PumpedStart \/ PumpedPush \/ PumpedQuery
    /\ UNCHANGED <<cur_step, since, readerVars>>

BroadcastStepReady ==
    /\ op = "none"
    /\ cur_step < MaxSteps
    /\ topic' = Append(topic, StepEvent(cur_step))
    /\ cur_step' = cur_step + 1
    /\ UNCHANGED <<control, offset, group_file, op, arg, ctl, tableVars, written,
                   since, readerVars>>

-----------------------------------------------------------------------------
(* The readers.                                                            *)

JoinGroup(r) ==
    /\ stage[r] = "out"
    /\ group_file
    /\ Cardinality({q \in Readers : stage[q] = "in"}) < MaxLive
    /\ stage' = [stage EXCEPT ![r] = "in"]
    /\ cons' = [cons EXCEPT ![r] = Consumer(offset)]
    /\ UNCHANGED <<logVars, writerVars, view, call, subs, ready, last_event, always,
                   got, reported>>

\* leave_group drops the consumer.
LeaveGroup(r) == cons' = [cons EXCEPT ![r] = Consumer(0)]

\* leave_group and vs_tr_stop: the handle goes with all that it holds. A
\* process that starts again has another handle, hence another rid.
StopReader(r) ==
    /\ stage[r] = "in" /\ call[r] = "none"
    /\ stage' = [stage EXCEPT ![r] = "gone"]
    /\ LeaveGroup(r)
    /\ view' = [view EXCEPT ![r] = NoView]
    /\ subs' = [subs EXCEPT ![r] = [p \in Paths |-> {}]]
    /\ ready' = [ready EXCEPT ![r] = <<>>]
    /\ last_event' = [last_event EXCEPT ![r] = 0]
    /\ got' = [got EXCEPT ![r] = <<>>]
    /\ reported' = [reported EXCEPT ![r] = NoStep]
    /\ UNCHANGED <<logVars, writerVars, call, always>>

\* announce: one event on the control topic.
Announce(e) ==
    /\ Len(control) < MaxControl
    /\ control' = Append(control, e)

Subscribe(r, p, S) ==
    /\ stage[r] = "in" /\ call[r] = "none"
    /\ subs' = [subs EXCEPT ![r][p] = S]
    /\ always' = [always EXCEPT ![r][p] = @ \cap S]
    /\ Announce(SubEvent(r, p))
    /\ UNCHANGED <<topic, offset, group_file, writerVars, stage, pullVars, ready,
                   last_event, got, reported>>

\* ack_step: the last item's event is acknowledged under the shared name.
AckStep(r, n) ==
    /\ stage[r] = "in" /\ call[r] = "none"
    /\ offset' = IF last_event[r] = 0 THEN offset ELSE last_event[r]
    /\ Announce(AckEvent(r, n))
    /\ UNCHANGED <<topic, group_file, writerVars, readerVars>>

\* The consumer's thread satisfies the retained pull, and the DataSelector
\* decides then what is fetched. The selector knows the subscriptions of
\* this moment, not of the one at which the event is taken.
Arrive(r) ==
    LET c == cons[r] IN
    /\ stage[r] = "in"
    /\ c.held # 0 /\ view[r] = NoView
    /\ Position(c) <= Len(topic)
    /\ LET e == topic[Position(c)] IN
       view' = [view EXCEPT ![r] =
                  IF e.k = "step" THEN {}
                  ELSE RunsFor(subs[r][written[e.at].path], written[e.at].elems)]
    /\ UNCHANGED <<logVars, writerVars, stage, cons, call, subs, ready, last_event,
                   always, got, reported>>

\* wait_step_ready and wait_data start to pump ...
Wait(r, kind) ==
    /\ stage[r] = "in" /\ call[r] = "none"
    /\ kind = "data" => ready[r] = <<>>
    /\ call' = [call EXCEPT ![r] = kind]
    /\ cons' = [cons EXCEPT ![r] = PullRetained(@)]
    /\ UNCHANGED <<logVars, writerVars, stage, view, subs, ready, last_event, always,
                   got, reported>>

\* ... unless an item is parked already.
WaitDataParked(r) ==
    /\ stage[r] = "in" /\ call[r] = "none"
    /\ ready[r] # <<>>
    /\ got' = [got EXCEPT ![r] = Append(@, Head(ready[r]).at)]
    /\ ready' = [ready EXCEPT ![r] = Tail(@)]
    /\ UNCHANGED <<logVars, writerVars, stage, pullVars, subs, last_event, always,
                   reported>>

\* The call ends, or pulls the next event.
PumpReturns(r) ==
    /\ call' = [call EXCEPT ![r] = "none"]
    /\ cons' = [cons EXCEPT ![r] = Satisfied(@)]
PumpGoesOn(r) ==
    /\ cons' = [cons EXCEPT ![r] = PullRetained(Satisfied(@))]
    /\ UNCHANGED call

Taken(r) == topic[Position(cons[r])]
Taking(r, kind) ==
    /\ call[r] # "none"
    /\ view[r] # NoView
    /\ Taken(r).k = kind
    /\ view' = [view EXCEPT ![r] = NoView]

\* A step marker ends wait_step_ready; wait_data drops it.
PumpStep(r) ==
    /\ Taking(r, "step")
    /\ IF call[r] = "step"
       THEN /\ reported' = [reported EXCEPT ![r] = Taken(r).at]
            /\ PumpReturns(r)
       ELSE PumpGoesOn(r) /\ UNCHANGED reported
    /\ UNCHANGED <<logVars, writerVars, stage, subs, ready, last_event, always, got>>

\* An item is labelled with what the subscription selects now, and filled
\* with what was fetched. (The code makes one item of each run; the runs of
\* one event stay together here.)
Item(r) ==
    LET w == written[Taken(r).at] IN
    [at |-> Taken(r).at, elems |-> RunsFor(subs[r][w.path], w.elems), fetched |-> view[r]]

\* wait_data returns the first item; wait_step_ready parks it.
DropWhileWaiting(r) == call[r] = "data" /\ Item(r).elems # {}  \* mutant
Wanted(r) == Item(r).elems # {}
PumpData(r) ==
    /\ Taking(r, "data")
    /\ IF ~Wanted(r)
       THEN PumpGoesOn(r) /\ UNCHANGED <<ready, got, last_event>>
       ELSE /\ last_event' = [last_event EXCEPT ![r] = Position(cons[r])]
            /\ IF call[r] = "data"
               THEN /\ got' = [got EXCEPT ![r] = Append(@, Item(r).at)]
                    /\ PumpReturns(r) /\ UNCHANGED ready
               ELSE /\ ready' = [ready EXCEPT ![r] = Append(@, Item(r))]
                    /\ PumpGoesOn(r) /\ UNCHANGED got
    /\ UNCHANGED <<logVars, writerVars, stage, subs, always, reported>>

\* Nothing arrived in time; the pull stays outstanding.
WaitTimesOut(r) ==
    /\ call[r] # "none"
    /\ view[r] = NoView
    /\ call' = [call EXCEPT ![r] = "none"]
    /\ UNCHANGED <<logVars, writerVars, stage, cons, view, subs, ready, last_event,
                   always, got, reported>>

-----------------------------------------------------------------------------
Writer ==
    \/ StartGroup
    \/ \E p \in Paths, W \in Writes : PushData(p, W)
    \/ \E n \in 1 .. Cardinality(Readers) : WaitSubscribers(n)
    \/ MinAckedStep
    \/ PumpControl \/ PumpTimesOut
    \/ BroadcastStepReady

Reader(r) ==
    \/ JoinGroup(r) \/ StopReader(r)
    \/ \E p \in Paths, S \in Spans : Subscribe(r, p, S)
    \/ \E n \in 0 .. MaxSteps - 1 : AckStep(r, n)
    \/ Arrive(r)
    \/ \E kind \in {"step", "data"} : Wait(r, kind)
    \/ WaitDataParked(r) \/ PumpStep(r) \/ PumpData(r) \/ WaitTimesOut(r)

Next == Writer \/ \E r \in Readers : Reader(r)

Spec == Init /\ [][Next]_vars

-----------------------------------------------------------------------------
(* What the transport promises.                                            *)

\* Every variable has its type: a retained pull is the last one issued, and a
\* topic position is one that exists.
TypeOK ==
    /\ op \in Calls
    /\ cur_step \in 0 .. MaxSteps
    /\ \A c \in {ctl} \cup {cons[r] : r \in Readers} : c.held \in {0, c.asked}
    /\ seen_subs \subseteq Readers \cup {OldReader}
    /\ sub_paths \subseteq Paths
    /\ acked \in [Readers -> NoStep .. MaxSteps - 1]
    /\ offset \in 0 .. Len(topic)
    /\ stage \in [Readers -> {"out", "in", "gone"}]
    /\ call \in [Readers -> {"none", "step", "data"}]
    /\ \A r \in Readers : view[r] = NoView \/ view[r] \subseteq Elems
    /\ \A r \in Readers, p \in Paths : subs[r][p] \in Spans \cup {{}}
    /\ last_event \in [Readers -> 0 .. Len(topic)]
    /\ reported \in [Readers -> NoStep .. MaxSteps - 1]

\* The pulls that a consumer no longer waits on.
Passed(c) == IF c.held = 0 THEN c.asked ELSE c.held - 1

\* Every announcement that the writer's control consumer has gone past is in
\* the writer's tables: none vanishes into a pull that was given up, neither
\* the one of the start-up drain nor a later one.
AnnouncedKnown ==
    op \notin {"off", "start"} =>
        \A i \in DOMAIN control :
            LET e == control[i] IN
            (i <= Passed(ctl) /\ e.rid \in Readers) =>
                /\ e.rid \in seen_subs
                /\ e.path \subseteq sub_paths
                /\ acked[e.rid] >= e.step

\* What a reader's caller was given, and what it can have without a pull.
Handed(r) == got[r] \o [i \in DOMAIN ready[r] |-> ready[r][i].at]

\* When wait_step_ready reports step n, every write of a step up to n that
\* was pushed since the writer learned of the reader's subscription, and that
\* the subscription selects, has been handed to the reader or is parked for
\* it; and items are handed over once, in the order of the writes.
StepIsWhole ==
    \A r \in Readers :
        /\ \A i, k \in DOMAIN Handed(r) : i < k => Handed(r)[i] < Handed(r)[k]
        /\ \A j \in DOMAIN written :
               LET w == written[j] IN
               (/\ w.step <= reported[r]
                /\ j > since[r][w.path]
                /\ always[r][w.path] \cap w.elems # {})
               => j \in {Handed(r)[k] : k \in DOMAIN Handed(r)}
=============================================================================
