------------------------ MODULE DiasporaTransportProofs ------------------------
(* Proofs about DiasporaTransport, for every value of its constants.       *)
EXTENDS DiasporaTransport, ProofFacts

-----------------------------------------------------------------------------
(* The inductive invariant.                                                *)

TopicEvent   == [k : {"data", "step"}, at : Nat]
ControlEvent == [k : {"sub", "ack"}, rid : Readers \cup {OldReader},
                 path : SUBSET Paths, step : NoStep .. MaxSteps - 1]
Write        == [step : 0 .. MaxSteps, path : Paths, elems : Writes]
ConsumerType == [start : Nat, asked : Nat, held : Nat]
ItemType     == [at : Nat, elems : SUBSET Elems, fetched : SUBSET Elems]

\* A consumer whose retained pull, if any, is the last one that it issued.
OneHeld == {c \in ConsumerType : c.held \in {0, c.asked}}

\* TypeOK, with the shape of the events, the writes and the items.
LogTypes ==
    /\ topic \in Seq(TopicEvent)
    /\ control \in Seq(ControlEvent)
    /\ group_file \in BOOLEAN
WriterTypes ==
    /\ op \in Calls
    /\ cur_step \in 0 .. MaxSteps
    /\ ctl \in OneHeld
    /\ seen_subs \subseteq Readers \cup {OldReader}
    /\ sub_paths \subseteq Paths
    /\ acked \in [Readers -> NoStep .. MaxSteps - 1]
    /\ written \in Seq(Write)
    /\ since \in [Readers -> [Paths -> 0 .. MaxWrites]]
ReaderTypes ==
    /\ stage \in [Readers -> {"out", "in", "gone"}]
    /\ cons \in [Readers -> OneHeld]
    /\ view \in [Readers -> (SUBSET Elems) \cup {NoView}]
    /\ subs \in [Readers -> [Paths -> Spans \cup {{}}]]
    /\ call \in [Readers -> {"none", "step", "data"}]
    /\ ready \in [Readers -> Seq(ItemType)]
    /\ always \in [Readers -> [Paths -> SUBSET Elems]]
    /\ got \in [Readers -> Seq(Nat)]
    /\ reported \in [Readers -> NoStep .. MaxSteps - 1]
EventsExist ==
    /\ offset \in 0 .. Len(topic)
    /\ last_event \in [Readers -> 0 .. Len(topic)]
Types == LogTypes /\ WriterTypes /\ ReaderTypes /\ EventsExist

\* The write that push_data holds while it pumps the control topic.
PushPending ==
    /\ Len(written) <= MaxWrites
    /\ op = "push" => /\ arg \in Write
                      /\ arg.step = cur_step
                      /\ Len(written) < MaxWrites

\* Until start_group has cleared its tables no reader can have joined: all
\* that the drain finds was left by an earlier run.
DrainSafe ==
    /\ ctl.start = 0 /\ Passed(ctl) <= Len(control)
    /\ op \in {"off", "start"} => ~group_file
    /\ ~group_file => /\ \A r \in Readers : stage[r] = "out"
                      /\ \A i \in DOMAIN control : control[i].rid = OldReader
    /\ \A i \in DOMAIN control :
           /\ control[i].rid = OldReader => control[i].k = "sub"
           /\ control[i].k = "sub" => control[i].step = NoStep

\* The topic: writes in the order in which they were pushed, and none of a
\* step behind the marker of that step.
TopicOrdered ==
    /\ \A i \in DOMAIN topic :
           IF topic[i].k = "data" THEN topic[i].at \in DOMAIN written
           ELSE topic[i].at < cur_step
    /\ \A i, k \in DOMAIN topic :
           (i < k /\ topic[k].k = "data") =>
               IF topic[i].k = "data" THEN topic[i].at < topic[k].at
               ELSE topic[i].at < written[topic[k].at].step

\* What the writer learned of a reader's subscription, the reader still has.
AnnouncedKept ==
    \A i \in DOMAIN control, r \in Readers :
        control[i].rid = r =>
            /\ stage[r] # "out"
            /\ stage[r] = "in" => \A p \in control[i].path : subs[r][p] # {}
KnownKept ==
    \A r \in Readers, p \in Paths :
        since[r][p] < MaxWrites =>
            /\ stage[r] # "out"
            /\ stage[r] = "in" => subs[r][p] # {}
            /\ p \in sub_paths /\ group_file
AlwaysHeld ==
    \A r \in Readers, p \in Paths :
        subs[r][p] # {} => always[r][p] \subseteq subs[r][p]
SubscriptionKept == AnnouncedKept /\ KnownKept /\ AlwaysHeld

\* The last event that r has gone past.
Consumed(r) == cons[r].start + Passed(cons[r])

\* A reader waits on one pull; the one that was satisfied is the next event.
PullsInOrder ==
    \A r \in Readers :
        /\ cons[r].start <= Len(topic)
        /\ stage[r] # "in" => /\ call[r] = "none" /\ reported[r] = NoStep
                              /\ view[r] = NoView
                              /\ got[r] = <<>> /\ ready[r] = <<>>
        /\ call[r] # "none" => cons[r].held # 0
        /\ call[r] = "data" => ready[r] = <<>>
        /\ view[r] # NoView => /\ cons[r].held # 0
                               /\ Position(cons[r]) <= Len(topic)

\* ... and it has only gone past events that exist.
ConsumedExists == \A r \in Readers : Consumed(r) <= Len(topic)

\* A write pushed since the subscription was known lies ahead of where the
\* reader's consumer started.
PushedAfterStart ==
    \A r \in Readers : stage[r] = "in" =>
        \A j \in DOMAIN written :
            j > since[r][written[j].path] =>
                \E i \in DOMAIN topic : i > cons[r].start /\ topic[i] = DataEvent(j)

\* Items come from events that the consumer went past, in their order ...
HandedInOrder ==
    \A r \in Readers :
        /\ \A i, k \in DOMAIN Handed(r) : i < k => Handed(r)[i] < Handed(r)[k]
        /\ \A k \in DOMAIN Handed(r) :
               \E i \in DOMAIN topic : i <= Consumed(r) /\ topic[i] = DataEvent(Handed(r)[k])

\* ... and every event that was due to the reader made an item.
NoneSkipped ==
    \A r \in Readers : \A i \in DOMAIN topic :
        (cons[r].start < i /\ i <= Consumed(r) /\ topic[i].k = "data") =>
            LET w == written[topic[i].at] IN
            (topic[i].at > since[r][w.path] /\ always[r][w.path] \cap w.elems # {}) =>
                \E k \in DOMAIN Handed(r) : Handed(r)[k] = topic[i].at

\* A step is reported because its marker was taken.
ReportedPassed ==
    \A r \in Readers : reported[r] # NoStep =>
        /\ stage[r] = "in"
        /\ \E i \in DOMAIN topic : i <= Consumed(r) /\ topic[i] = StepEvent(reported[r])

IInv ==
    /\ Types /\ PushPending /\ DrainSafe /\ TopicOrdered /\ SubscriptionKept
    /\ PullsInOrder /\ ConsumedExists /\ PushedAfterStart /\ HandedInOrder /\ NoneSkipped
    /\ ReportedPassed /\ AnnouncedKnown

-----------------------------------------------------------------------------
(* Types.                                                                  *)

\* What the constants give.
LEMMA Constants ==
    /\ MaxSteps \in Nat /\ MaxWrites \in Nat
    /\ \A S \in Spans \cup Writes : S # {} /\ S \subseteq Elems
    /\ Elems \subseteq Nat
BY DiasporaAssumption DEF Elems

\* runs_for gives a part of the write.
LEMMA RunsForType ==
    ASSUME NEW S, NEW W \in Writes
    PROVE  RunsFor(S, W) \subseteq W /\ RunsFor(S, W) \in SUBSET Elems
<1>1. W \subseteq Elems
  BY Constants
<1> QED
  BY <1>1 DEF RunsFor

\* What a pull, and an event that satisfies it, do to a consumer.
LEMMA PullFacts ==
    ASSUME NEW c \in OneHeld
    PROVE  /\ Passed(c) \in Nat
           /\ LET d == PullRetained(c) IN
              /\ d \in OneHeld /\ d.start = c.start
              /\ d.held = Passed(c) + 1 /\ Passed(d) = Passed(c)
           /\ c.held # 0 => /\ c.held = Passed(c) + 1
                            /\ Position(c) = c.start + Passed(c) + 1
                            /\ Satisfied(c) \in OneHeld
                            /\ Satisfied(c).start = c.start
                            /\ Passed(Satisfied(c)) = Passed(c) + 1
<1>1. CASE c.held = 0
  <2>1. c.asked \in Nat /\ c.start \in Nat
    BY DEF OneHeld, ConsumerType
  <2>2. /\ PullRetained(c) = [start |-> c.start, asked |-> c.asked + 1, held |-> c.asked + 1]
        /\ Passed(c) = c.asked
    BY <1>1 DEF PullRetained, Passed, OneHeld, ConsumerType
  <2> QED
    BY <1>1, <2>1, <2>2 DEF Passed, OneHeld, ConsumerType
<1>2. CASE c.held # 0
  <2>1. c.held = c.asked /\ c.held \in Nat /\ c.start \in Nat
    BY <1>2 DEF OneHeld, ConsumerType
  <2>2. PullRetained(c) = c /\ Passed(c) = c.held - 1
    BY <1>2 DEF PullRetained, Passed
  <2>3. Satisfied(c) = [start |-> c.start, asked |-> c.asked, held |-> 0]
    BY DEF Satisfied, OneHeld, ConsumerType
  <2> QED
    BY <1>2, <2>1, <2>2, <2>3 DEF Passed, Position, OneHeld, ConsumerType
<1> QED
  BY <1>1, <1>2

\* The same where the call goes on to the next event.
LEMMA NextPullFacts ==
    ASSUME NEW c \in OneHeld, c.held # 0
    PROVE  LET d == PullRetained(Satisfied(c)) IN
           /\ d \in OneHeld /\ d.start = c.start
           /\ d.held # 0 /\ Passed(d) = Passed(c) + 1
<1>1. /\ Satisfied(c) \in OneHeld /\ Satisfied(c).start = c.start
      /\ Passed(Satisfied(c)) = Passed(c) + 1
      /\ Passed(c) \in Nat
  BY PullFacts
<1> DEFINE b == Satisfied(c)
<1> HIDE DEF b
<1>2. b \in OneHeld /\ b.start = c.start /\ Passed(b) = Passed(c) + 1
  BY <1>1 DEF b
<1>3. LET d == PullRetained(b) IN
      /\ d \in OneHeld /\ d.start = c.start
      /\ d.held # 0 /\ Passed(d) = Passed(c) + 1
  BY <1>1, <1>2, PullFacts
<1> QED
  BY <1>3 DEF b

\* Every initial state has the types.
LEMMA TypesInit == Init => Types
<1> SUFFICES ASSUME Init PROVE Types
  OBVIOUS
<1> USE Constants DEF Init
<1>1. control \in Seq(ControlEvent)
  <2>1. CASE control = <<>>
    BY <2>1
  <2>2. ASSUME NEW p \in Paths, control = <<SubEvent(OldReader, p)>>
        PROVE  control \in Seq(ControlEvent)
    <3>1. SubEvent(OldReader, p) \in ControlEvent
      BY DEF ControlEvent, SubEvent, NoStep
    <3> QED
      BY <2>2, <3>1
  <2> QED
    BY <2>1, <2>2
<1>2. Consumer(0) \in OneHeld
  BY DEF Consumer, ConsumerType, OneHeld
<1>3. LogTypes
  <2>1. topic = <<>> /\ group_file = FALSE
    OBVIOUS
  <2> HIDE DEF Init
  <2>2. group_file \in BOOLEAN
    BY <2>1, Zenon
  <2>3. topic \in Seq(TopicEvent)
    BY <2>1
  <2> QED
    BY <1>1, <2>2, <2>3, Zenon DEF LogTypes
<1>4. WriterTypes
  BY <1>2 DEF WriterTypes, Calls, NoStep
<1>5. ReaderTypes
  BY <1>2 DEF ReaderTypes, NoStep
<1>6. EventsExist
  BY DEF EventsExist
<1> QED
  BY <1>3, <1>4, <1>5, <1>6 DEF Types

\* The types imply TypeOK.
LEMMA TypesImply == Types => TypeOK
BY DEF Types, LogTypes, WriterTypes, ReaderTypes, EventsExist, TypeOK, OneHeld

\* The event that a wait takes, and the item that it makes of it.
LEMMA TakenFacts ==
    ASSUME IInv, NEW r \in Readers, call[r] # "none", view[r] # NoView
    PROVE  /\ Position(cons[r]) \in DOMAIN topic /\ Taken(r) \in TopicEvent
           /\ Satisfied(cons[r]) \in OneHeld
           /\ PullRetained(Satisfied(cons[r])) \in OneHeld
           /\ Taken(r).k = "data" => Item(r) \in ItemType /\ Item(r).at = Taken(r).at
<1>t. LogTypes /\ WriterTypes /\ ReaderTypes /\ PullsInOrder /\ TopicOrdered
  BY DEF IInv, Types
<1>1. cons[r] \in OneHeld /\ cons[r].held # 0 /\ Position(cons[r]) <= Len(topic)
  BY <1>t DEF ReaderTypes, PullsInOrder
<1>2. Satisfied(cons[r]) \in OneHeld /\ PullRetained(Satisfied(cons[r])) \in OneHeld
  BY <1>1, PullFacts, NextPullFacts
<1>3. Position(cons[r]) \in DOMAIN topic
  BY <1>1, <1>t DEF Position, OneHeld, ConsumerType, LogTypes
<1>4. Taken(r) \in TopicEvent
  BY <1>3, <1>t DEF Taken, LogTypes
<1>5. ASSUME Taken(r).k = "data" PROVE Item(r) \in ItemType /\ Item(r).at = Taken(r).at
  <2>1. Taken(r).at \in DOMAIN written
    BY <1>3, <1>5, <1>t DEF TopicOrdered, Taken
  <2>a. written[Taken(r).at] \in Write
    BY <2>1, <1>t DEF WriterTypes
  <2>2. written[Taken(r).at].elems \in Writes
    BY <2>a DEF Write
  <2>3. RunsFor(subs[r][written[Taken(r).at].path], written[Taken(r).at].elems)
           \in SUBSET Elems
    BY <2>2, RunsForType
  <2>4. view[r] \in SUBSET Elems
    BY <1>t DEF ReaderTypes
  <2> QED
    BY <1>4, <2>3, <2>4 DEF Item, ItemType, TopicEvent
<1> QED
  BY <1>2, <1>3, <1>4, <1>5

\* Every step keeps the types.
LEMMA TypesStep == IInv /\ [Next]_vars => Types'
<1> SUFFICES ASSUME IInv, [Next]_vars PROVE Types'
  OBVIOUS
<1> USE Constants DEF logVars, tableVars, writerVars, pullVars, readerVars
<1>t. /\ LogTypes /\ WriterTypes /\ ReaderTypes /\ EventsExist
      /\ PushPending /\ DrainSafe /\ TopicOrdered /\ PullsInOrder
  BY DEF IInv, Types
<1>c. Consumer(0) \in OneHeld
  BY DEF Consumer, ConsumerType, OneHeld
<1>l. UNCHANGED logVars => LogTypes'
  BY <1>t DEF LogTypes
<1>w. UNCHANGED <<op, cur_step, ctl, tableVars, written, since>> => WriterTypes'
  BY <1>t DEF WriterTypes
<1>r. UNCHANGED readerVars => ReaderTypes'
  BY <1>t DEF ReaderTypes
<1>e. UNCHANGED <<topic, offset, last_event>> => EventsExist'
  BY <1>t DEF EventsExist
<1> USE <1>t, <1>l, <1>w, <1>r, <1>e DEF Types
<1>1. CASE StartGroup
  BY <1>1, <1>c DEF StartGroup, WriterTypes, Calls
<1>2. ASSUME NEW p \in Paths, NEW W \in Writes, PushData(p, W) PROVE Types'
  BY <1>2 DEF PushData, WriterTypes, Calls
<1>3. ASSUME NEW n \in 1 .. Cardinality(Readers), WaitSubscribers(n) PROVE Types'
  BY <1>3 DEF WaitSubscribers, WriterTypes, Calls
<1>4. CASE MinAckedStep
  BY <1>4 DEF MinAckedStep, WriterTypes, Calls
<1>5. CASE PumpControl
  <2> DEFINE c == PullRetained(ctl)
             e == control[Position(c)]
  <2>1. ctl \in OneHeld
    BY DEF WriterTypes
  <2>0. c \in OneHeld /\ c.held # 0
    BY <2>1, PullFacts
  <2>2. Satisfied(c) \in OneHeld /\ Position(c) \in Nat \ {0}
    <3> HIDE DEF c
    <3> QED
      BY <2>0, PullFacts DEF OneHeld, ConsumerType
  <2>3. e \in ControlEvent
    BY <1>5, <2>2 DEF PumpControl, LogTypes
  <2>4. e.k = "ack" => e.rid \in Readers
    BY <2>3, <2>2, <1>5 DEF DrainSafe, ControlEvent, PumpControl, LogTypes
  <2> HIDE DEF c, e
  <2>5. ctl' \in OneHeld
    BY <1>5, <2>2 DEF PumpControl, c
  <2>6. seen_subs' \subseteq Readers \cup {OldReader} /\ sub_paths' \subseteq Paths
    BY <1>5, <2>3 DEF PumpControl, c, e, WriterTypes, ControlEvent
  <2>7. acked' \in [Readers -> NoStep .. MaxSteps - 1]
    <3>1. acked' = IF e.k = "ack" /\ e.step > acked[e.rid]
                   THEN [acked EXCEPT ![e.rid] = e.step] ELSE acked
      BY <1>5 DEF PumpControl, c, e
    <3> QED
      BY <2>3, <2>4, <3>1 DEF WriterTypes, ControlEvent
  <2>8. since' \in [Readers -> [Paths -> 0 .. MaxWrites]]
    <3>1. \A r \in Readers, p \in Paths :
             Min({since[r][p], Len(written)}) \in 0 .. MaxWrites
      <4> TAKE r \in Readers, p \in Paths
      <4>1. since[r][p] \in 0 .. MaxWrites /\ Len(written) \in Nat
        BY DEF WriterTypes
      <4> QED
        BY <4>1, MinOfTwo
    <3> QED
      BY <1>5, <3>1 DEF PumpControl, WriterTypes
  <2>9. WriterTypes'
    BY <1>5, <2>5, <2>6, <2>7, <2>8 DEF PumpControl, WriterTypes
  <2> QED
    BY <1>5, <2>9 DEF PumpControl
<1>6. CASE PumpTimesOut
  <2>1. ctl' \in OneHeld
    BY <1>6, PullFacts DEF PumpTimesOut, WriterTypes
  <2>2. CASE PumpedStart
    <3>1. LogTypes'
      BY <2>2 DEF PumpedStart, LogTypes
    <3>2. WriterTypes'
      BY <1>6, <2>1, <2>2 DEF PumpTimesOut, PumpedStart, WriterTypes, Calls, NoStep
    <3> QED
      BY <1>6, <2>2, <3>1, <3>2 DEF PumpTimesOut, PumpedStart
  <2>3. CASE PumpedPush
    <3>1. written' \in Seq(Write)
      BY <2>3, AppendProperties DEF PumpedPush, WriterTypes, PushPending
    <3>2. WriterTypes'
      BY <1>6, <2>1, <2>3, <3>1 DEF PumpTimesOut, PumpedPush, WriterTypes, Calls
    <3>3. topic' \in Seq(TopicEvent) /\ Len(topic') \in Nat /\ Len(topic) <= Len(topic')
      <4>1. DataEvent(Len(written) + 1) \in TopicEvent
        BY DEF DataEvent, TopicEvent, WriterTypes
      <4> QED
        BY <2>3, <4>1, AppendProperties DEF PumpedPush, LogTypes
    <3>4. LogTypes'
      BY <2>3, <3>3 DEF PumpedPush, LogTypes
    <3>5. EventsExist'
      BY <1>6, <2>3, <3>3 DEF PumpTimesOut, PumpedPush, EventsExist, LogTypes
    <3> QED
      BY <1>6, <3>2, <3>4, <3>5 DEF PumpTimesOut
  <2>4. CASE PumpedQuery
    BY <1>6, <2>1, <2>4 DEF PumpTimesOut, PumpedQuery, WriterTypes, Calls
  <2> QED
    BY <1>6, <2>2, <2>3, <2>4 DEF PumpTimesOut
<1>7. CASE BroadcastStepReady
  <2>1. StepEvent(cur_step) \in TopicEvent
    BY DEF StepEvent, TopicEvent, WriterTypes
  <2>2. topic' \in Seq(TopicEvent) /\ Len(topic') = Len(topic) + 1 /\ Len(topic) \in Nat
    BY <1>7, <2>1, AppendProperties DEF BroadcastStepReady, LogTypes
  <2> QED
    BY <1>7, <2>2 DEF BroadcastStepReady, LogTypes, WriterTypes, EventsExist
<1>8. ASSUME NEW r \in Readers, JoinGroup(r) PROVE Types'
  <2>1. Consumer(offset) \in OneHeld
    BY DEF Consumer, ConsumerType, OneHeld, EventsExist, LogTypes
  <2> QED
    BY <1>8, <2>1 DEF JoinGroup, ReaderTypes
<1>9. ASSUME NEW r \in Readers, StopReader(r) PROVE Types'
  <2>1. EventsExist'
    BY <1>9 DEF StopReader, LeaveGroup, EventsExist, LogTypes
  <2>2. ReaderTypes'
    BY <1>9, <1>c DEF StopReader, LeaveGroup, ReaderTypes, NoStep
  <2> QED
    BY <1>9, <2>1, <2>2 DEF StopReader, LeaveGroup
<1>10. ASSUME NEW r \in Readers, NEW p \in Paths, NEW S \in Spans,
              Subscribe(r, p, S)
       PROVE  Types'
  <2>1. SubEvent(r, p) \in ControlEvent
    BY DEF SubEvent, ControlEvent, NoStep
  <2>2. LogTypes'
    BY <1>10, <2>1, AppendProperties DEF Subscribe, Announce, LogTypes
  <2>3. ReaderTypes'
    BY <1>10 DEF Subscribe, ReaderTypes
  <2> QED
    BY <1>10, <2>2, <2>3 DEF Subscribe
<1>11. ASSUME NEW r \in Readers, NEW n \in 0 .. MaxSteps - 1, AckStep(r, n)
       PROVE  Types'
  <2>1. AckEvent(r, n) \in ControlEvent
    BY DEF AckEvent, ControlEvent, NoStep
  <2>2. LogTypes'
    BY <1>11, <2>1, AppendProperties DEF AckStep, Announce, LogTypes
  <2>3. EventsExist'
    BY <1>11 DEF AckStep, EventsExist
  <2> QED
    BY <1>11, <2>2, <2>3 DEF AckStep
<1>12. ASSUME NEW r \in Readers, Arrive(r) PROVE Types'
  <2> DEFINE e == topic[Position(cons[r])]
             v == IF e.k = "step" THEN {}
                  ELSE RunsFor(subs[r][written[e.at].path], written[e.at].elems)
  <2>1. cons[r] \in OneHeld /\ Position(cons[r]) \in DOMAIN topic
    <3>1. cons[r] \in OneHeld /\ cons[r].held # 0
      BY <1>12 DEF Arrive, ReaderTypes
    <3>2. Position(cons[r]) \in Nat \ {0}
      BY <3>1 DEF Position, OneHeld, ConsumerType
    <3> QED
      BY <1>12, <3>1, <3>2 DEF Arrive, LogTypes
  <2>2. e \in TopicEvent /\ (e.k = "data" => e.at \in DOMAIN written)
    BY <2>1 DEF LogTypes, TopicOrdered
  <2>3. v \in SUBSET Elems
    <3>1. CASE e.k = "step"
      BY <3>1
    <3>2. CASE e.k # "step"
      <4>1. written[e.at] \in Write
        BY <2>2, <3>2 DEF WriterTypes, TopicEvent
      <4>2. written[e.at].elems \in Writes
        BY <4>1 DEF Write
      <4> QED
        BY <3>2, <4>2, RunsForType
    <3> QED
      BY <3>1, <3>2
  <2>4. view' = [view EXCEPT ![r] = v]
    BY <1>12 DEF Arrive
  <2> HIDE DEF v
  <2>5. ReaderTypes'
    BY <1>12, <2>3, <2>4 DEF Arrive, ReaderTypes
  <2> QED
    BY <1>12, <2>5 DEF Arrive
<1>13. ASSUME NEW r \in Readers, NEW kind \in {"step", "data"}, Wait(r, kind)
       PROVE  Types'
  <2>1. PullRetained(cons[r]) \in OneHeld
    BY PullFacts DEF ReaderTypes
  <2>2. ReaderTypes'
    BY <1>13, <2>1 DEF Wait, ReaderTypes
  <2> QED
    BY <1>13, <2>2 DEF Wait
<1>14. ASSUME NEW r \in Readers, WaitDataParked(r) PROVE Types'
  <2>1. Head(ready[r]) \in ItemType /\ Tail(ready[r]) \in Seq(ItemType)
    BY <1>14, HeadTailProperties DEF WaitDataParked, ReaderTypes
  <2>2. Append(got[r], Head(ready[r]).at) \in Seq(Nat)
    BY <2>1, AppendProperties DEF ItemType, ReaderTypes
  <2>3. ReaderTypes'
    BY <1>14, <2>1, <2>2 DEF WaitDataParked, ReaderTypes, pullVars
  <2> QED
    BY <1>14, <2>3 DEF WaitDataParked
<1>15. ASSUME NEW r \in Readers, PumpStep(r) PROVE Types'
  <2>1. call[r] # "none" /\ view[r] # NoView /\ Taken(r).k = "step"
    BY <1>15 DEF PumpStep, Taking
  <2>2. Position(cons[r]) \in DOMAIN topic
    BY <2>1, TakenFacts
  <2>3. Taken(r).at \in NoStep .. MaxSteps - 1
    <3>1. Taken(r) \in TopicEvent
      BY <2>1, TakenFacts
    <3>2. Taken(r).at < cur_step
      BY <2>1, <2>2 DEF TopicOrdered, Taken
    <3> QED
      BY <3>1, <3>2 DEF TopicEvent, WriterTypes, NoStep
  <2>4. cons' \in [Readers -> OneHeld]
    <3>1. \E c \in OneHeld : cons' = [cons EXCEPT ![r] = c]
      BY <1>15, TakenFacts, <2>1 DEF PumpStep, PumpReturns, PumpGoesOn
    <3> QED
      BY <3>1 DEF ReaderTypes
  <2>5. /\ view' = [view EXCEPT ![r] = NoView]
        /\ call' \in {call, [call EXCEPT ![r] = "none"]}
        /\ reported' \in {reported, [reported EXCEPT ![r] = Taken(r).at]}
        /\ UNCHANGED <<stage, subs, ready, always, got>>
    BY <1>15 DEF PumpStep, PumpReturns, PumpGoesOn, Taking
  <2>6. view' \in [Readers -> (SUBSET Elems) \cup {NoView}]
    BY <2>5 DEF ReaderTypes
  <2>7. call' \in [Readers -> {"none", "step", "data"}]
    BY <2>5 DEF ReaderTypes
  <2>8. reported' \in [Readers -> NoStep .. MaxSteps - 1]
    BY <2>3, <2>5 DEF ReaderTypes
  <2>9. ReaderTypes'
    BY <2>4, <2>5, <2>6, <2>7, <2>8 DEF ReaderTypes
  <2> QED
    BY <1>15, <2>9 DEF PumpStep
<1>16. ASSUME NEW r \in Readers, PumpData(r) PROVE Types'
  <2>1. call[r] # "none" /\ view[r] # NoView /\ Taken(r).k = "data"
    BY <1>16 DEF PumpData, Taking
  <2>2. Position(cons[r]) \in DOMAIN topic /\ Item(r) \in ItemType
    BY <2>1, TakenFacts
  <2>3. /\ Append(got[r], Item(r).at) \in Seq(Nat)
        /\ Append(ready[r], Item(r)) \in Seq(ItemType)
    BY <2>2, AppendProperties DEF ItemType, ReaderTypes
  <2>4. cons' \in [Readers -> OneHeld]
    <3>1. \E c \in OneHeld : cons' = [cons EXCEPT ![r] = c]
      BY <1>16, TakenFacts, <2>1 DEF PumpData, PumpReturns, PumpGoesOn
    <3> QED
      BY <3>1 DEF ReaderTypes
  <2> DEFINE more == Append(got[r], Item(r).at)
             held == Append(ready[r], Item(r))
  <2>5. /\ view' = [view EXCEPT ![r] = NoView]
        /\ call' \in {call, [call EXCEPT ![r] = "none"]}
        /\ UNCHANGED <<stage, subs, always, reported>>
    BY <1>16 DEF PumpData, PumpReturns, PumpGoesOn, Taking
  <2>6. /\ got' \in {got, [got EXCEPT ![r] = more]}
        /\ ready' \in {ready, [ready EXCEPT ![r] = held]}
    BY <1>16 DEF PumpData
  <2>7. more \in Seq(Nat) /\ held \in Seq(ItemType)
    BY <2>3
  <2> HIDE DEF more, held
  <2>8. got' \in [Readers -> Seq(Nat)]
    BY <2>6, <2>7 DEF ReaderTypes
  <2>9. ready' \in [Readers -> Seq(ItemType)]
    BY <2>6, <2>7 DEF ReaderTypes
  <2>10. view' \in [Readers -> (SUBSET Elems) \cup {NoView}]
    BY <2>5 DEF ReaderTypes
  <2>11. call' \in [Readers -> {"none", "step", "data"}]
    BY <2>5 DEF ReaderTypes
  <2>12. ReaderTypes'
    BY <2>4, <2>5, <2>8, <2>9, <2>10, <2>11 DEF ReaderTypes
  <2>13. EventsExist'
    BY <1>16, <2>2 DEF PumpData, EventsExist, LogTypes
  <2> QED
    BY <1>16, <2>12, <2>13 DEF PumpData
<1>17. ASSUME NEW r \in Readers, WaitTimesOut(r) PROVE Types'
  BY <1>17 DEF WaitTimesOut, ReaderTypes
<1>18. CASE UNCHANGED vars
  BY <1>18 DEF vars
<1> QED
  BY <1>1, <1>2, <1>3, <1>4, <1>5, <1>6, <1>7, <1>8, <1>9, <1>10, <1>11, <1>12,
     <1>13, <1>14, <1>15, <1>16, <1>17, <1>18 DEF Next, Writer, Reader

-----------------------------------------------------------------------------
(* The writer's side.                                                      *)

\* What a reader's call leaves to the writer.
LEMMA ReaderLeaves ==
    ASSUME NEW r \in Readers, Reader(r)
    PROVE  UNCHANGED <<topic, group_file, writerVars>>
BY DEF Reader, JoinGroup, StopReader, LeaveGroup, Subscribe, AckStep, Arrive, Wait, WaitDataParked,
       PumpStep, PumpData, WaitTimesOut, logVars

\* ... and a writer's call to the readers.
LEMMA WriterLeaves ==
    ASSUME Writer
    PROVE  UNCHANGED <<control, offset, readerVars>>
BY DEF Writer, StartGroup, PushData, WaitSubscribers, MinAckedStep, PumpControl,
       PumpTimesOut, PumpedStart, PumpedPush, PumpedQuery, BroadcastStepReady, logVars

\* The write that push_data holds is of the current step, and there is room
\* for it, while the writer pumps.
LEMMA PushPendingStep == IInv /\ [Next]_vars => PushPending'
<1> SUFFICES ASSUME IInv, [Next]_vars PROVE PushPending'
  OBVIOUS
<1>t. WriterTypes /\ PushPending
  BY DEF IInv, Types
<1>1. ASSUME NEW r \in Readers, Reader(r) PROVE PushPending'
  BY <1>1, <1>t, ReaderLeaves DEF PushPending, writerVars
<1>2. ASSUME NEW p \in Paths, NEW W \in Writes, PushData(p, W) PROVE PushPending'
  BY <1>2, <1>t DEF PushData, PushPending, WriterTypes, Write
<1>3. CASE Writer /\ ~\E p \in Paths, W \in Writes : PushData(p, W)
  <2>1. op' # "push" \/ UNCHANGED <<op, arg, cur_step, written>>
    BY <1>3 DEF Writer, StartGroup, WaitSubscribers, MinAckedStep, PumpControl,
       PumpTimesOut, BroadcastStepReady
  <2>2. \/ written' = written
        \/ arg \in Write /\ written' = Append(written, arg) /\ Len(written) < MaxWrites
    BY <1>3, <1>t DEF Writer, StartGroup, WaitSubscribers, MinAckedStep, PumpControl,
       PumpTimesOut, PumpedStart, PumpedPush, PumpedQuery, BroadcastStepReady, PushPending
  <2>3. Len(written') <= MaxWrites
    BY <1>t, <2>2, Constants, AppendProperties DEF PushPending, WriterTypes
  <2> QED
    BY <1>t, <2>1, <2>3 DEF PushPending
<1>4. CASE UNCHANGED vars
  BY <1>4, <1>t DEF vars, writerVars, PushPending
<1> QED
  BY <1>1, <1>2, <1>3, <1>4 DEF Next

\* What one round of pump_control does with the event that it finds.
LEMMA PumpControlFacts ==
    ASSUME IInv, PumpControl
    PROVE  \E i \in DOMAIN control :
               /\ i = Passed(ctl) + 1 /\ Passed(ctl') = i
               /\ control[i] \in ControlEvent
               /\ control[i].k = "ack" => control[i].rid \in Readers
               /\ control[i].k = "sub" => control[i].step = NoStep
               /\ seen_subs' = seen_subs \cup {control[i].rid}
               /\ sub_paths' = sub_paths \cup control[i].path
               /\ acked' = IF control[i].k = "ack" /\ control[i].step > acked[control[i].rid]
                           THEN [acked EXCEPT ![control[i].rid] = control[i].step] ELSE acked
               /\ since' = [r \in Readers |-> [p \in Paths |->
                               IF r = control[i].rid /\ p \in control[i].path
                               THEN Min({since[r][p], Len(written)}) ELSE since[r][p]]]
<1>t. LogTypes /\ WriterTypes /\ DrainSafe
  BY DEF IInv, Types
<1> DEFINE c == PullRetained(ctl)
<1>1. ctl \in OneHeld /\ ctl.start = 0
  BY <1>t DEF WriterTypes, DrainSafe
<1>2. c \in OneHeld /\ c.start = 0 /\ c.held = Passed(ctl) + 1 /\ Passed(c) = Passed(ctl)
      /\ Passed(ctl) \in Nat
  BY <1>1, PullFacts
<1> HIDE DEF c
<1>3. Passed(Satisfied(c)) = Passed(ctl) + 1 /\ Position(c) = Passed(ctl) + 1
  BY <1>2, PullFacts
<1> DEFINE i == Position(c)
<1>4. i \in DOMAIN control
  BY <1>2, <1>3, <1>t DEF PumpControl, LogTypes, c
<1>5. control[i] \in ControlEvent
  BY <1>4, <1>t DEF LogTypes
<1>6. /\ control[i].k = "ack" => control[i].rid \in Readers
      /\ control[i].k = "sub" => control[i].step = NoStep
  BY <1>4, <1>5, <1>t DEF DrainSafe, ControlEvent
<1>7. /\ seen_subs' = seen_subs \cup {control[i].rid}
      /\ sub_paths' = sub_paths \cup control[i].path
      /\ acked' = IF control[i].k = "ack" /\ control[i].step > acked[control[i].rid]
                  THEN [acked EXCEPT ![control[i].rid] = control[i].step] ELSE acked
      /\ since' = [r \in Readers |-> [p \in Paths |->
                      IF r = control[i].rid /\ p \in control[i].path
                      THEN Min({since[r][p], Len(written)}) ELSE since[r][p]]]
      /\ ctl' = Satisfied(c)
  BY DEF PumpControl, c
<1> QED
  BY <1>3, <1>4, <1>5, <1>6, <1>7

\* start_group drains what an earlier run left, before a reader can join.
LEMMA DrainSafeStep == IInv /\ [Next]_vars => DrainSafe'
<1> SUFFICES ASSUME IInv, [Next]_vars PROVE DrainSafe'
  OBVIOUS
<1>t. LogTypes /\ WriterTypes /\ ReaderTypes /\ DrainSafe
  BY DEF IInv, Types
<1>o. ctl \in OneHeld /\ Passed(ctl) \in Nat /\ Len(control) \in Nat
  BY <1>t, PullFacts DEF WriterTypes, LogTypes
<1>1. CASE Writer
  <2>a. Passed(ctl') <= Len(control)
    <3>1. CASE PumpControl
      BY <1>o, <3>1, <1>t, PumpControlFacts DEF LogTypes
    <3>2. CASE ctl' = ctl \/ ctl' = PullRetained(ctl)
      BY <1>t, <1>o, <3>2, PullFacts DEF DrainSafe
    <3>3. CASE ctl' = Consumer(0)
      BY <1>o, <3>3 DEF Consumer, Passed
    <3> QED
      BY <1>1, <3>1, <3>2, <3>3 DEF Writer, StartGroup, PushData, WaitSubscribers,
         MinAckedStep, PumpTimesOut, BroadcastStepReady
  <2>1. UNCHANGED <<control, stage>>
    BY <1>1, WriterLeaves DEF readerVars
  <2>2. ctl'.start = 0
    <3>1. ctl \in OneHeld /\ ctl.start = 0
      BY <1>t DEF WriterTypes, DrainSafe
    <3>2. Satisfied(PullRetained(ctl)).start = 0 /\ PullRetained(ctl).start = 0
      BY <3>1 DEF OneHeld, ConsumerType, PullRetained, Satisfied
    <3> QED
      BY <1>1, <3>1, <3>2 DEF Writer, StartGroup, PushData, WaitSubscribers, MinAckedStep,
         PumpControl, PumpTimesOut, BroadcastStepReady, Consumer
  <2>3. /\ op' \in {"off", "start"} => (op \in {"off", "start"} /\ ~group_file')
        /\ ~group_file' => ~group_file
    BY <1>1, <1>t DEF Writer, StartGroup, PushData, WaitSubscribers, MinAckedStep,
         PumpControl, PumpTimesOut, PumpedStart, PumpedPush, PumpedQuery,
         BroadcastStepReady, DrainSafe, logVars
  <2> QED
    BY <1>t, <2>a, <2>1, <2>2, <2>3 DEF DrainSafe
<1>2. ASSUME NEW r \in Readers, Reader(r) PROVE DrainSafe'
  <2>1. UNCHANGED <<op, ctl, group_file>>
    BY <1>2, ReaderLeaves DEF writerVars
  <2>2. ASSUME NEW e \in ControlEvent, control' = Append(control, e), stage[r] = "in",
               stage' = stage, e.rid = r, e.k = "sub" => e.step = NoStep
        PROVE  DrainSafe'
    <3>1. group_file /\ r # OldReader
      BY <1>t, <2>2, DiasporaAssumption DEF DrainSafe
    <3>2. \A i \in DOMAIN control' : control'[i] = e \/ (i \in DOMAIN control /\ control'[i] = control[i])
      BY <1>t, <2>2, AppendProperties DEF LogTypes
    <3>3. Len(control') = Len(control) + 1
      BY <1>t, <2>2 DEF LogTypes
    <3> QED
      BY <1>t, <1>o, <2>1, <2>2, <3>1, <3>2, <3>3 DEF DrainSafe
  <2>3. ASSUME NEW p \in Paths, NEW S \in Spans, Subscribe(r, p, S) PROVE DrainSafe'
    <3>1. SubEvent(r, p) \in ControlEvent
      BY Constants DEF SubEvent, ControlEvent, NoStep
    <3> QED
      BY <2>2, <2>3, <3>1 DEF Subscribe, Announce, SubEvent
  <2>4. ASSUME NEW n \in 0 .. MaxSteps - 1, AckStep(r, n) PROVE DrainSafe'
    <3>1. AckEvent(r, n) \in ControlEvent
      BY Constants DEF AckEvent, ControlEvent, NoStep
    <3> QED
      BY <2>2, <2>4, <3>1 DEF AckStep, Announce, AckEvent, readerVars
  <2>5. ASSUME UNCHANGED control,
               stage' = stage \/ group_file
        PROVE  DrainSafe'
    BY <1>t, <2>1, <2>5 DEF DrainSafe
  <2>6. StopReader(r) => group_file
    BY <1>t DEF StopReader, LeaveGroup, DrainSafe
  <2> QED
    BY <1>2, <2>3, <2>4, <2>5, <2>6 DEF Reader, JoinGroup, StopReader, LeaveGroup, Arrive, Wait, WaitDataParked,
       PumpStep, PumpData, WaitTimesOut, logVars
<1>3. CASE UNCHANGED vars
  BY <1>3, <1>t DEF vars, logVars, writerVars, readerVars, DrainSafe
<1> QED
  BY <1>1, <1>2, <1>3 DEF Next

\* The writer pushes a step's writes in order, and its marker after them.
LEMMA TopicOrderedStep == IInv /\ [Next]_vars => TopicOrdered'
<1> SUFFICES ASSUME IInv, [Next]_vars PROVE TopicOrdered'
  OBVIOUS
<1>t. LogTypes /\ WriterTypes /\ TopicOrdered /\ PushPending
  BY DEF IInv, Types
<1>1. CASE UNCHANGED <<topic, written, cur_step>>
  BY <1>1, <1>t DEF TopicOrdered
<1>2. CASE PumpTimesOut /\ PumpedPush
  <2>0. /\ arg \in Write /\ arg.step = cur_step /\ written \in Seq(Write)
        /\ written' = Append(written, arg) /\ cur_step' = cur_step
        /\ Len(written) \in Nat /\ cur_step \in Nat
    BY <1>2, <1>t DEF PumpTimesOut, PumpedPush, PushPending, WriterTypes
  <2>1. /\ DOMAIN written' = 1 .. Len(written) + 1
        /\ written'[Len(written) + 1] = arg
        /\ \A j \in DOMAIN written : written'[j] = written[j]
    BY <2>0, AppendProperties
  <2>2. CASE topic' = topic
    BY <2>0, <2>1, <2>2, <1>t DEF TopicOrdered, WriterTypes
  <2>3. CASE topic' = Append(topic, DataEvent(Len(written) + 1))
    <3> DEFINE e == DataEvent(Len(written) + 1)
    <3>1. e \in TopicEvent /\ e.k = "data" /\ e.at = Len(written) + 1
      BY <2>0 DEF DataEvent, TopicEvent
    <3> HIDE DEF e
    <3>2. /\ DOMAIN topic' = 1 .. Len(topic) + 1 /\ topic'[Len(topic) + 1] = e
          /\ \A i \in DOMAIN topic : topic'[i] = topic[i] /\ topic[i] \in TopicEvent
          /\ DOMAIN topic = 1 .. Len(topic) /\ Len(topic) \in Nat
      BY <2>3, <3>1, <1>t, AppendProperties DEF LogTypes, e
    <3>3. \A i \in DOMAIN topic' :
             IF topic'[i].k = "data" THEN topic'[i].at \in DOMAIN written'
             ELSE topic'[i].at < cur_step
      BY <1>t, <2>0, <2>1, <3>1, <3>2 DEF TopicOrdered
    <3>4. ASSUME NEW i \in DOMAIN topic', NEW k \in DOMAIN topic', i < k,
                 topic'[k].k = "data"
          PROVE  IF topic'[i].k = "data" THEN topic'[i].at < topic'[k].at
                 ELSE topic'[i].at < written'[topic'[k].at].step
      <4>1. i \in DOMAIN topic /\ topic'[i] = topic[i]
        BY <3>2, <3>4
      <4>2. CASE k \in DOMAIN topic
        <5>1. topic'[k] = topic[k] /\ topic[k].at \in DOMAIN written
          BY <1>t, <3>2, <3>4, <4>2 DEF TopicOrdered
        <5> QED
          BY <1>t, <2>1, <3>4, <4>1, <4>2, <5>1 DEF TopicOrdered
      <4>3. CASE k = Len(topic) + 1
        <5>1. topic'[k] = e /\ written'[topic'[k].at].step = cur_step
          BY <2>0, <2>1, <3>1, <3>2, <4>3
        <5> QED
          BY <1>t, <2>0, <3>1, <4>1, <5>1 DEF TopicOrdered
      <4> QED
        BY <3>2, <4>2, <4>3
    <3> QED
      BY <2>0, <3>3, <3>4 DEF TopicOrdered
  <2> QED
    BY <1>2, <2>2, <2>3 DEF PumpedPush
<1>3. CASE BroadcastStepReady
  <2> DEFINE e == StepEvent(cur_step)
  <2>1. e \in TopicEvent /\ e.k = "step" /\ e.at = cur_step /\ cur_step \in Nat
    BY <1>t DEF StepEvent, TopicEvent, WriterTypes
  <2>2. topic' = Append(topic, e) /\ cur_step' = cur_step + 1 /\ written' = written
    BY <1>3 DEF BroadcastStepReady
  <2> HIDE DEF e
  <2>3. /\ DOMAIN topic' = 1 .. Len(topic) + 1 /\ topic'[Len(topic) + 1] = e
        /\ \A i \in DOMAIN topic : topic'[i] = topic[i] /\ topic[i] \in TopicEvent
        /\ DOMAIN topic = 1 .. Len(topic) /\ Len(topic) \in Nat
    BY <2>1, <2>2, <1>t, AppendProperties DEF LogTypes
  <2>4. \A i \in DOMAIN topic : topic[i].at \in Nat
    BY <2>3 DEF TopicEvent
  <2> QED
    BY <1>t, <2>1, <2>2, <2>3, <2>4 DEF TopicOrdered
<1> QED
  <2>1. ASSUME NEW r \in Readers, Reader(r) PROVE UNCHANGED <<topic, written, cur_step>>
    BY <2>1, ReaderLeaves DEF writerVars
  <2>2. CASE Writer
    BY <1>1, <1>2, <1>3, <2>2 DEF Writer, StartGroup, PushData, WaitSubscribers, MinAckedStep,
       PumpControl, PumpTimesOut, PumpedStart, PumpedQuery, logVars
  <2>3. CASE UNCHANGED vars
    BY <1>1, <2>3 DEF vars, logVars, writerVars
  <2> QED
    BY <1>1, <2>1, <2>2, <2>3 DEF Next

\* The reader still has every subscription that the writer learned of.
LEMMA SubscriptionKeptStep == IInv /\ [Next]_vars => SubscriptionKept'
<1> SUFFICES ASSUME IInv, [Next]_vars PROVE SubscriptionKept'
  OBVIOUS
<1>t. /\ LogTypes /\ WriterTypes /\ ReaderTypes /\ DrainSafe /\ SubscriptionKept
      /\ MaxWrites \in Nat
  BY Constants DEF IInv, Types
<1>1. CASE PumpControl
  <2>0. UNCHANGED <<control, stage, subs, always, group_file>>
    BY <1>1 DEF PumpControl, logVars, readerVars
  <2>1. PICK i \in DOMAIN control :
               /\ control[i] \in ControlEvent
               /\ sub_paths' = sub_paths \cup control[i].path
               /\ since' = [r \in Readers |-> [p \in Paths |->
                               IF r = control[i].rid /\ p \in control[i].path
                               THEN Min({since[r][p], Len(written)}) ELSE since[r][p]]]
    BY <1>1, PumpControlFacts
  <2>2. ASSUME NEW r \in Readers, NEW p \in Paths, since'[r][p] < MaxWrites
        PROVE  /\ stage[r] # "out"
               /\ stage[r] = "in" => subs[r][p] # {}
               /\ p \in sub_paths' /\ group_file
    <3>1. CASE r = control[i].rid /\ p \in control[i].path
      BY <1>t, <2>1, <3>1, DiasporaAssumption DEF SubscriptionKept, AnnouncedKept, KnownKept, AlwaysHeld, DrainSafe
    <3>2. CASE ~(r = control[i].rid /\ p \in control[i].path)
      <4>1. since'[r][p] = since[r][p]
        BY <2>1, <3>2
      <4> QED
        BY <1>t, <2>1, <2>2, <4>1 DEF SubscriptionKept, AnnouncedKept, KnownKept, AlwaysHeld
    <3> QED
      BY <3>1, <3>2
  <2> QED
    BY <1>t, <2>0, <2>2 DEF SubscriptionKept, AnnouncedKept, KnownKept, AlwaysHeld
<1>2. CASE Writer /\ ~PumpControl
  <2>1. UNCHANGED <<control, stage, subs, always, since>>
    BY <1>2, WriterLeaves DEF readerVars, Writer, StartGroup, PushData, WaitSubscribers,
       MinAckedStep, PumpTimesOut, BroadcastStepReady
  <2>2. \/ UNCHANGED <<sub_paths, group_file>>
        \/ op = "start" /\ group_file'
    BY <1>2 DEF Writer, StartGroup, PushData, WaitSubscribers, MinAckedStep, PumpTimesOut,
       PumpedStart, PumpedPush, PumpedQuery, BroadcastStepReady, logVars, tableVars
  <2>3. op = "start" => ~group_file
    BY <1>t DEF DrainSafe
  <2> QED
    BY <1>t, <2>1, <2>2, <2>3 DEF SubscriptionKept, AnnouncedKept, KnownKept, AlwaysHeld
<1>3. ASSUME NEW r \in Readers, Reader(r) PROVE SubscriptionKept'
  <2>0. UNCHANGED <<group_file, since, sub_paths>>
    BY <1>3, ReaderLeaves DEF writerVars, tableVars
  <2>1. CASE JoinGroup(r)
    <3>1. UNCHANGED <<control, subs, always>> /\ stage[r] = "out"
          /\ stage' = [stage EXCEPT ![r] = "in"]
      BY <2>1 DEF JoinGroup, logVars
    <3>2. stage'[r] = "in" /\ \A q \in Readers : q # r => stage'[q] = stage[q]
      BY <1>t, <3>1 DEF ReaderTypes
    <3>3. AnnouncedKept'
      BY <1>t, <3>1, <3>2 DEF SubscriptionKept, AnnouncedKept
    <3>4. KnownKept'
      BY <1>t, <2>0, <3>1, <3>2 DEF SubscriptionKept, KnownKept
    <3> QED
      BY <1>t, <3>1, <3>3, <3>4 DEF SubscriptionKept, AlwaysHeld
  <2>2. CASE StopReader(r)
    <3>1. UNCHANGED <<control, always>> /\ stage' = [stage EXCEPT ![r] = "gone"]
          /\ subs' = [subs EXCEPT ![r] = [p \in Paths |-> {}]]
      BY <2>2 DEF StopReader, LeaveGroup, logVars
    <3>2. /\ stage'[r] = "gone" /\ \A p \in Paths : subs'[r][p] = {}
          /\ \A q \in Readers : q # r => stage'[q] = stage[q] /\ subs'[q] = subs[q]
      BY <1>t, <3>1 DEF ReaderTypes
    <3>3. AnnouncedKept'
      BY <1>t, <3>1, <3>2 DEF SubscriptionKept, AnnouncedKept
    <3>4. KnownKept'
      BY <1>t, <2>0, <3>1, <3>2 DEF SubscriptionKept, KnownKept
    <3>5. AlwaysHeld'
      BY <1>t, <3>1, <3>2 DEF SubscriptionKept, AlwaysHeld
    <3> QED
      BY <3>3, <3>4, <3>5 DEF SubscriptionKept
  <2>3. ASSUME NEW p \in Paths, NEW S \in Spans, Subscribe(r, p, S)
        PROVE  SubscriptionKept'
    <3>1. /\ stage[r] = "in" /\ stage' = stage
          /\ subs' = [subs EXCEPT ![r][p] = S]
          /\ always' = [always EXCEPT ![r][p] = always[r][p] \cap S]
          /\ control' = Append(control, SubEvent(r, p))
          /\ S # {}
      BY <2>3, Constants DEF Subscribe, Announce
    <3>2. SubEvent(r, p).rid = r /\ SubEvent(r, p).path = {p}
      BY DEF SubEvent
    <3>3. \A q \in Readers, x \in Paths :
             /\ subs'[q][x] = IF q = r /\ x = p THEN S ELSE subs[q][x]
             /\ always'[q][x] = IF q = r /\ x = p THEN always[q][x] \cap S ELSE always[q][x]
      BY <1>t, <3>1 DEF ReaderTypes
    <3>4. \A i \in DOMAIN control' :
             control'[i] = SubEvent(r, p) \/ (i \in DOMAIN control /\ control'[i] = control[i])
      BY <1>t, <3>1 DEF LogTypes
    <3>5. \A i \in DOMAIN control : control[i].path \subseteq Paths
      <4>1. \A i \in DOMAIN control : control[i] \in ControlEvent
        BY <1>t DEF LogTypes
      <4> QED
        BY <4>1 DEF ControlEvent
    <3>6. AnnouncedKept'
      <4> SUFFICES ASSUME NEW i \in DOMAIN control', NEW q \in Readers, control'[i].rid = q
                   PROVE  /\ stage[q] # "out"
                          /\ stage[q] = "in" => \A x \in control'[i].path : subs'[q][x] # {}
        BY <3>1 DEF AnnouncedKept
      <4>1. CASE control'[i] = SubEvent(r, p)
        <5>1. q = r /\ control'[i].path = {p}
          BY <3>2, <4>1
        <5>2. subs'[r][p] = S
          BY <3>3
        <5> QED
          BY <3>1, <5>1, <5>2
      <4>2. CASE i \in DOMAIN control /\ control'[i] = control[i]
        <5>1. /\ stage[q] # "out"
              /\ stage[q] = "in" => \A x \in control[i].path : subs[q][x] # {}
          BY <1>t, <4>2 DEF SubscriptionKept, AnnouncedKept
        <5>2. control[i].path \subseteq Paths
          BY <3>5, <4>2
        <5> QED
          BY <3>1, <3>3, <4>2, <5>1, <5>2
      <4> QED
        BY <3>4, <4>1, <4>2
    <3>7. KnownKept'
      BY <1>t, <2>0, <3>1, <3>3 DEF SubscriptionKept, KnownKept
    <3>8. AlwaysHeld'
      <4> SUFFICES ASSUME NEW q \in Readers, NEW x \in Paths, subs'[q][x] # {}
                   PROVE  always'[q][x] \subseteq subs'[q][x]
        BY DEF AlwaysHeld
      <4>1. CASE q = r /\ x = p
        BY <3>3, <4>1
      <4>2. CASE ~(q = r /\ x = p)
        <5>1. subs'[q][x] = subs[q][x] /\ always'[q][x] = always[q][x]
          BY <3>3, <4>2
        <5> QED
          BY <1>t, <5>1 DEF SubscriptionKept, AlwaysHeld
      <4> QED
        BY <4>1, <4>2
    <3> QED
      BY <3>6, <3>7, <3>8 DEF SubscriptionKept
  <2>4. ASSUME NEW n \in 0 .. MaxSteps - 1, AckStep(r, n) PROVE SubscriptionKept'
    <3>1. /\ stage[r] = "in" /\ UNCHANGED <<stage, subs, always>>
          /\ control' = Append(control, AckEvent(r, n))
      BY <2>4 DEF AckStep, Announce, readerVars
    <3>2. AckEvent(r, n).rid = r /\ AckEvent(r, n).path = {}
      BY DEF AckEvent
    <3>3. \A i \in DOMAIN control' :
             control'[i] = AckEvent(r, n) \/ (i \in DOMAIN control /\ control'[i] = control[i])
      BY <1>t, <3>1 DEF LogTypes
    <3> QED
      BY <1>t, <2>0, <3>1, <3>2, <3>3 DEF SubscriptionKept, AnnouncedKept, KnownKept, AlwaysHeld
  <2>5. ASSUME UNCHANGED <<control, stage, subs, always>> PROVE SubscriptionKept'
    BY <1>t, <2>0, <2>5 DEF SubscriptionKept, AnnouncedKept, KnownKept, AlwaysHeld
  <2> QED
    BY <1>3, <2>1, <2>2, <2>3, <2>4, <2>5 DEF Reader, Arrive, Wait, WaitDataParked,
       PumpStep, PumpData, WaitTimesOut, logVars
<1>4. CASE UNCHANGED vars
  BY <1>4, <1>t DEF vars, logVars, writerVars, tableVars, readerVars, SubscriptionKept,
     AnnouncedKept, KnownKept, AlwaysHeld
<1> QED
  BY <1>1, <1>2, <1>3, <1>4 DEF Next

\* Every announcement that the writer went past is in its tables.
LEMMA AnnouncedKnownStep == IInv /\ [Next]_vars => AnnouncedKnown'
<1> SUFFICES ASSUME IInv, [Next]_vars PROVE AnnouncedKnown'
  OBVIOUS
<1>t. /\ LogTypes /\ WriterTypes /\ DrainSafe /\ AnnouncedKnown
  BY DEF IInv, Types
<1>a. Passed(ctl) \in Nat
  BY <1>t, PullFacts DEF WriterTypes
<1>1. CASE PumpControl
  <2>0. UNCHANGED <<control, op>>
    BY <1>1 DEF PumpControl, logVars
  <2>1. PICK j \in DOMAIN control :
               /\ j = Passed(ctl) + 1 /\ Passed(ctl') = j
               /\ control[j] \in ControlEvent
               /\ control[j].k = "ack" => control[j].rid \in Readers
               /\ control[j].k = "sub" => control[j].step = NoStep
               /\ seen_subs' = seen_subs \cup {control[j].rid}
               /\ sub_paths' = sub_paths \cup control[j].path
               /\ acked' = IF control[j].k = "ack" /\ control[j].step > acked[control[j].rid]
                           THEN [acked EXCEPT ![control[j].rid] = control[j].step] ELSE acked
    BY <1>1, PumpControlFacts
  <2>2. \A r \in Readers : /\ acked'[r] >= acked[r] /\ acked'[r] \in Int
                           /\ acked[r] >= NoStep /\ acked[r] \in Int
                           /\ control[j].rid = r => acked'[r] >= control[j].step
    BY <1>t, <2>1 DEF WriterTypes, ControlEvent, NoStep
  <2>3. ASSUME op' \notin {"off", "start"}, NEW i \in DOMAIN control, i <= Passed(ctl'),
               control[i].rid \in Readers
        PROVE  /\ control[i].rid \in seen_subs'
               /\ control[i].path \subseteq sub_paths'
               /\ acked'[control[i].rid] >= control[i].step
    <3>1. CASE i = j
      BY <2>1, <2>2, <2>3, <3>1
    <3>2. CASE i # j
      <4>1. i <= Passed(ctl)
        BY <1>a, <2>1, <2>3, <3>2, <1>t DEF LogTypes
      <4>2. /\ control[i].rid \in seen_subs
            /\ control[i].path \subseteq sub_paths
            /\ acked[control[i].rid] >= control[i].step
        BY <1>t, <2>0, <2>3, <4>1 DEF AnnouncedKnown
      <4>3. control[i].step \in Int
        <5>1. control[i] \in ControlEvent
          BY <1>t DEF LogTypes
        <5> QED
          BY <5>1, Constants DEF ControlEvent, NoStep
      <4> QED
        BY <2>1, <2>2, <2>3, <4>2, <4>3
    <3> QED
      BY <3>1, <3>2
  <2> QED
    BY <2>0, <2>3 DEF AnnouncedKnown
<1>2. CASE Writer /\ ~PumpControl
  <2>1. UNCHANGED control
    BY <1>2, WriterLeaves
  <2>2. ctl' = ctl \/ ctl' = PullRetained(ctl) \/ op' = "start"
    BY <1>2 DEF Writer, StartGroup, PushData, WaitSubscribers, MinAckedStep, PumpTimesOut,
       BroadcastStepReady
  <2>3. op' # "start" => Passed(ctl') = Passed(ctl)
    BY <1>t, <2>2, PullFacts DEF WriterTypes
  <2>4. \/ op' = "start"
        \/ op = "start"
        \/ UNCHANGED tableVars /\ (op = "off" => op' = "off")
    BY <1>2 DEF Writer, StartGroup, PushData, WaitSubscribers, MinAckedStep, PumpTimesOut,
       PumpedStart, PumpedPush, PumpedQuery, BroadcastStepReady, Pumping
  <2>5. op = "start" => \A i \in DOMAIN control : control[i].rid \notin Readers
    BY <1>t, DiasporaAssumption DEF DrainSafe
  <2> QED
    BY <1>t, <2>1, <2>3, <2>4, <2>5 DEF AnnouncedKnown, tableVars
<1>3. ASSUME NEW r \in Readers, Reader(r) PROVE AnnouncedKnown'
  <2>1. UNCHANGED <<op, ctl, seen_subs, sub_paths, acked>>
    BY <1>3, ReaderLeaves DEF writerVars, tableVars
  <2>2. \/ control' = control
        \/ \E e \in ControlEvent : control' = Append(control, e)
    <3>1. \A p \in Paths : SubEvent(r, p) \in ControlEvent
      BY Constants DEF SubEvent, ControlEvent, NoStep
    <3>2. \A n \in 0 .. MaxSteps - 1 : AckEvent(r, n) \in ControlEvent
      BY Constants DEF AckEvent, ControlEvent, NoStep
    <3> QED
      BY <1>3, <3>1, <3>2 DEF Reader, JoinGroup, StopReader, LeaveGroup, Subscribe, AckStep, Announce,
         Arrive, Wait, WaitDataParked, PumpStep, PumpData, WaitTimesOut, logVars
  <2>3. CASE control' = control
    BY <1>t, <2>1, <2>3 DEF AnnouncedKnown
  <2>4. ASSUME NEW e \in ControlEvent, control' = Append(control, e)
        PROVE  AnnouncedKnown'
    <3>1. Passed(ctl) <= Len(control)
      BY <1>t DEF DrainSafe
    <3>2. \A i \in DOMAIN control' : i <= Len(control) => i \in DOMAIN control /\ control'[i] = control[i]
      BY <1>t, <2>4 DEF LogTypes
    <3>3. DOMAIN control' \subseteq Nat /\ Len(control) \in Nat
      BY <1>t, <2>4 DEF LogTypes
    <3> QED
      BY <1>t, <1>a, <2>1, <3>1, <3>2, <3>3 DEF AnnouncedKnown
  <2> QED
    BY <2>2, <2>3, <2>4
<1>4. CASE UNCHANGED vars
  BY <1>4, <1>t DEF vars, logVars, writerVars, tableVars, AnnouncedKnown
<1> QED
  BY <1>1, <1>2, <1>3, <1>4 DEF Next

-----------------------------------------------------------------------------
(* The readers' side. First what a step does to the log and to a reader.   *)

\* The topic and the list of writes only grow.
LEMMA LogGrows ==
    ASSUME IInv, [Next]_vars
    PROVE  /\ Len(topic) \in Nat /\ Len(topic') \in Nat /\ Len(topic) <= Len(topic')
           /\ DOMAIN topic = 1 .. Len(topic) /\ DOMAIN topic' = 1 .. Len(topic')
           /\ \A i \in DOMAIN topic : topic'[i] = topic[i]
           /\ DOMAIN written = 1 .. Len(written) /\ DOMAIN written \subseteq DOMAIN written'
           /\ \A j \in DOMAIN written : written'[j] = written[j]
<1>t. LogTypes /\ WriterTypes /\ PushPending
  BY DEF IInv, Types
<1>1. topic' = topic \/ \E e \in TopicEvent : topic' = Append(topic, e)
  <2>1. DataEvent(Len(written) + 1) \in TopicEvent /\ StepEvent(cur_step) \in TopicEvent
    BY <1>t DEF DataEvent, StepEvent, TopicEvent, WriterTypes
  <2>2. ASSUME NEW r \in Readers, Reader(r) PROVE topic' = topic
    BY <2>2, ReaderLeaves
  <2>3. Writer => (topic' = topic \/ \E e \in TopicEvent : topic' = Append(topic, e))
    BY <2>1 DEF Writer, StartGroup, PushData, WaitSubscribers, MinAckedStep, PumpControl,
       PumpTimesOut, PumpedStart, PumpedPush, PumpedQuery, BroadcastStepReady, logVars
  <2> QED
    BY <2>2, <2>3 DEF Next, vars, logVars
<1>2. written' = written \/ (arg \in Write /\ written' = Append(written, arg))
  <2>1. ASSUME NEW r \in Readers, Reader(r) PROVE written' = written
    BY <2>1, ReaderLeaves DEF writerVars
  <2>2. Writer => written' = written \/ (arg \in Write /\ written' = Append(written, arg))
    BY <1>t DEF Writer, StartGroup, PushData, WaitSubscribers, MinAckedStep, PumpControl,
       PumpTimesOut, PumpedStart, PumpedPush, PumpedQuery, BroadcastStepReady, PushPending
  <2> QED
    BY <2>1, <2>2 DEF Next, vars, writerVars
<1>3. /\ Len(topic) \in Nat /\ Len(topic') \in Nat /\ Len(topic) <= Len(topic')
      /\ DOMAIN topic = 1 .. Len(topic) /\ DOMAIN topic' = 1 .. Len(topic')
      /\ \A i \in DOMAIN topic : topic'[i] = topic[i]
  BY <1>t, <1>1, AppendProperties DEF LogTypes
<1>4. /\ DOMAIN written = 1 .. Len(written) /\ DOMAIN written \subseteq DOMAIN written'
      /\ \A j \in DOMAIN written : written'[j] = written[j]
  <2>1. written \in Seq(Write) /\ DOMAIN written = 1 .. Len(written) /\ Len(written) \in Nat
    BY <1>t DEF WriterTypes
  <2>2. CASE written' = written
    BY <2>1, <2>2
  <2>3. CASE arg \in Write /\ written' = Append(written, arg)
    BY <2>1, <2>3, AppendProperties
  <2> QED
    BY <1>2, <2>1, <2>2, <2>3
<1> QED
  BY <1>3, <1>4

\* A write that is not due to a reader when it is pushed never becomes due.
LEMMA DueShrinks ==
    ASSUME IInv, [Next]_vars
    PROVE  /\ \A r \in Readers, p \in Paths, j \in DOMAIN written :
                  j > since'[r][p] => j > since[r][p]
           /\ \A r \in Readers, p \in Paths : always'[r][p] \subseteq always[r][p]
<1>t. WriterTypes /\ ReaderTypes
  BY DEF IInv, Types
<1>1. CASE PumpControl
  <2>1. PICK i \in DOMAIN control : since' = [r \in Readers |-> [p \in Paths |->
                               IF r = control[i].rid /\ p \in control[i].path
                               THEN Min({since[r][p], Len(written)}) ELSE since[r][p]]]
    BY <1>1, PumpControlFacts
  <2>2. ASSUME NEW r \in Readers, NEW p \in Paths, NEW j \in DOMAIN written,
               j > since'[r][p]
        PROVE  j > since[r][p]
    <3>1. since[r][p] \in Nat /\ Len(written) \in Nat /\ j \in 1 .. Len(written)
      BY <1>t, Constants DEF WriterTypes
    <3>2. since'[r][p] \in {since[r][p], Min({since[r][p], Len(written)})}
      BY <2>1
    <3>3. Min({since[r][p], Len(written)}) =
             IF since[r][p] <= Len(written) THEN since[r][p] ELSE Len(written)
      BY <3>1, MinOfTwo
    <3>4. ~(j > Len(written))
      BY <3>1
    <3> QED
      BY <2>2, <3>2, <3>3, <3>4
  <2>3. always' = always
    BY <1>1 DEF PumpControl, readerVars
  <2> QED
    BY <2>2, <2>3
<1>2. ~PumpControl => since' = since
  <2>1. ASSUME NEW r \in Readers, Reader(r) PROVE since' = since
    BY <2>1, ReaderLeaves DEF writerVars
  <2> QED
    BY <2>1 DEF Next, vars, writerVars, Writer, StartGroup, PushData, WaitSubscribers,
       MinAckedStep, PumpTimesOut, BroadcastStepReady
<1>3. \/ always' = always
      \/ \E r \in Readers, p \in Paths, S \in Spans :
             always' = [always EXCEPT ![r][p] = always[r][p] \cap S]
  <2>1. Writer => always' = always
    BY WriterLeaves DEF readerVars
  <2>2. UNCHANGED vars => always' = always
    BY DEF vars, readerVars
  <2>3. ASSUME NEW r \in Readers, Reader(r),
               ~(\E p \in Paths, S \in Spans : Subscribe(r, p, S))
        PROVE  always' = always
    BY <2>3 DEF Reader, JoinGroup, StopReader, LeaveGroup, AckStep, Arrive, Wait, WaitDataParked,
       PumpStep, PumpData, WaitTimesOut, readerVars, pullVars
  <2>4. ASSUME NEW r \in Readers, NEW p \in Paths, NEW S \in Spans, Subscribe(r, p, S)
        PROVE  always' = [always EXCEPT ![r][p] = always[r][p] \cap S]
    BY <2>4 DEF Subscribe
  <2> QED
    BY <2>1, <2>2, <2>3, <2>4 DEF Next
<1>4. \A r \in Readers, p \in Paths : always'[r][p] \subseteq always[r][p]
  <2> TAKE r \in Readers, p \in Paths
  <2>1. ASSUME NEW q \in Readers, NEW x \in Paths, NEW S \in Spans,
               always' = [always EXCEPT ![q][x] = always[q][x] \cap S]
        PROVE  always'[r][p] = IF r = q /\ p = x THEN always[r][p] \cap S ELSE always[r][p]
    BY <1>t, <2>1 DEF ReaderTypes
  <2> QED
    BY <1>3, <2>1
<1> QED
  BY <1>1, <1>2, <1>4

\* What a caller was handed, g, and can have without a pull, d.
HandedOf(g, d) == g \o [i \in DOMAIN d |-> d[i].at]

\* Its parts.
LEMMA HandedOfFacts ==
    ASSUME NEW g \in Seq(Nat), NEW d \in Seq(ItemType)
    PROVE  /\ HandedOf(g, d) \in Seq(Nat)
           /\ Len(HandedOf(g, d)) = Len(g) + Len(d)
           /\ \A i \in 1 .. Len(g) : HandedOf(g, d)[i] = g[i]
           /\ \A i \in 1 .. Len(d) : HandedOf(g, d)[Len(g) + i] = d[i].at
<1> DEFINE n == Len(d)
           t == [i \in 1 .. n |-> d[i].at]
<1>1. n \in Nat /\ Len(g) \in Nat /\ DOMAIN d = 1 .. n
  OBVIOUS
<1>2. \A i \in 1 .. n : d[i].at \in Nat
  <2> TAKE i \in 1 .. n
  <2>1. d[i] \in ItemType
    OBVIOUS
  <2> QED
    BY <2>1 DEF ItemType
<1>3. t \in Seq(Nat) /\ Len(t) = n /\ \A i \in 1 .. n : t[i] = d[i].at
  BY <1>1, <1>2, IsASeq
<1>4. HandedOf(g, d) = g \o t
  BY <1>1, Zenon DEF HandedOf
<1> HIDE DEF t, n
<1>5. /\ g \o t \in Seq(Nat) /\ Len(g \o t) = Len(g) + Len(t)
      /\ \A i \in 1 .. Len(g) + Len(t) : (g \o t)[i] = IF i <= Len(g) THEN g[i] ELSE t[i - Len(g)]
  BY <1>3, ConcatProperties
<1>6. \A i \in 1 .. Len(g) : (g \o t)[i] = g[i]
  BY <1>1, <1>3, <1>5
<1>7. \A i \in 1 .. n : (g \o t)[Len(g) + i] = d[i].at
  <2> TAKE i \in 1 .. n
  <2>1. Len(g) + i \in 1 .. Len(g) + Len(t) /\ ~(Len(g) + i <= Len(g)) /\ Len(g) + i - Len(g) = i
    BY <1>1, <1>3
  <2> QED
    BY <1>3, <1>5, <2>1
<1> QED
  BY <1>3, <1>4, <1>5, <1>6, <1>7 DEF n

\* Parking an item appends its write ...
LEMMA HandedOfPark ==
    ASSUME NEW g \in Seq(Nat), NEW d \in Seq(ItemType), NEW x \in ItemType
    PROVE  HandedOf(g, Append(d, x)) = Append(HandedOf(g, d), x.at)
<1> DEFINE v == x.at
           h == HandedOf(g, d)
           e == Append(d, x)
           k == HandedOf(g, e)
           a == Append(h, v)
<1>0. v \in Nat /\ Len(g) \in Nat /\ Len(d) \in Nat
  BY DEF ItemType
<1>1. /\ e \in Seq(ItemType) /\ Len(e) = Len(d) + 1 /\ e[Len(d) + 1] = x
      /\ \A i \in 1 .. Len(d) : e[i] = d[i]
  BY AppendProperties
<1> HIDE DEF e
<1>2. /\ h \in Seq(Nat) /\ Len(h) = Len(g) + Len(d)
      /\ \A i \in 1 .. Len(g) : h[i] = g[i]
      /\ \A i \in 1 .. Len(d) : h[Len(g) + i] = d[i].at
  BY HandedOfFacts
<1>3. /\ k \in Seq(Nat) /\ Len(k) = Len(g) + Len(e)
      /\ \A i \in 1 .. Len(g) : k[i] = g[i]
      /\ \A i \in 1 .. Len(e) : k[Len(g) + i] = e[i].at
  BY <1>1, HandedOfFacts
<1> HIDE DEF h, k, v
<1>4. /\ a \in Seq(Nat) /\ Len(a) = Len(h) + 1
      /\ \A i \in 1 .. Len(h) : a[i] = h[i]
      /\ a[Len(h) + 1] = v
  <2>1. h \in Seq(Nat) /\ v \in Nat
    BY <1>0, <1>2
  <2> QED
    BY <2>1, AppendProperties
<1> HIDE DEF a
<1>l. Len(k) = Len(g) + Len(d) + 1 /\ Len(a) = Len(k)
  BY <1>0, <1>1, <1>2, <1>3, <1>4
<1>5. ASSUME NEW i \in 1 .. Len(k) PROVE k[i] = a[i]
  <2>1. CASE i \in 1 .. Len(g)
    BY <1>0, <1>2, <1>3, <1>4, <2>1
  <2>2. CASE i \in Len(g) + 1 .. Len(g) + Len(d)
    <3>1. i - Len(g) \in 1 .. Len(d) /\ Len(g) + (i - Len(g)) = i /\ i - Len(g) \in 1 .. Len(e)
      BY <1>0, <1>1, <2>2
    <3>2. h[i] = d[i - Len(g)].at /\ k[i] = e[i - Len(g)].at
      BY <1>2, <1>3, <3>1
    <3>3. a[i] = h[i]
      BY <1>0, <1>2, <1>4, <2>2
    <3> QED
      BY <1>1, <3>1, <3>2, <3>3
  <2>3. CASE i = Len(g) + Len(d) + 1
    <3>1. Len(d) + 1 \in 1 .. Len(e) /\ Len(g) + (Len(d) + 1) = i
      BY <1>0, <1>1, <2>3
    <3>2. k[i] = v
      BY <1>1, <1>3, <3>1 DEF v
    <3> QED
      BY <1>2, <1>4, <2>3, <3>2
  <2> QED
    BY <1>0, <1>l, <2>1, <2>2, <2>3
<1>6. k = a
  BY <1>l, <1>3, <1>4, <1>5, SeqEqual
<1> QED
  BY <1>6 DEF k, a, h, e, v

\* ... so does handing it over when none is parked ...
LEMMA HandedOfGive ==
    ASSUME NEW g \in Seq(Nat), NEW n \in Nat
    PROVE  HandedOf(Append(g, n), <<>>) = Append(HandedOf(g, <<>>), n)
<1>1. \A s \in Seq(Nat) : HandedOf(s, <<>>) = s
  <2> TAKE s \in Seq(Nat)
  <2> DEFINE d == <<>>
             h == HandedOf(s, d)
  <2>1. d \in Seq(ItemType) /\ Len(d) = 0 /\ Len(s) \in Nat
    OBVIOUS
  <2> HIDE DEF d
  <2>2. /\ h \in Seq(Nat) /\ Len(h) = Len(s) + Len(d)
        /\ \A i \in 1 .. Len(s) : h[i] = s[i]
    BY <2>1, HandedOfFacts
  <2> HIDE DEF h
  <2>3. h = s
    BY <2>1, <2>2, SeqEqual
  <2> QED
    BY <2>3 DEF h, d
<1>2. Append(g, n) \in Seq(Nat)
  BY AppendProperties
<1> QED
  BY <1>1, <1>2

\* ... and handing over the first parked item changes nothing.
LEMMA HandedOfMove ==
    ASSUME NEW g \in Seq(Nat), NEW d \in Seq(ItemType), d # <<>>
    PROVE  HandedOf(Append(g, Head(d).at), Tail(d)) = HandedOf(g, d)
<1> DEFINE b == Append(g, Head(d).at)
           e == Tail(d)
           h == HandedOf(g, d)
           k == HandedOf(b, e)
<1>1. /\ Head(d) = d[1] /\ Head(d) \in ItemType /\ e \in Seq(ItemType) /\ Len(e) = Len(d) - 1
      /\ Len(d) \in Nat \ {0} /\ Len(g) \in Nat
      /\ \A i \in 1 .. Len(e) : e[i] = d[i + 1]
  BY HeadTailProperties
<1>2. Head(d).at \in Nat
  BY <1>1 DEF ItemType
<1>3. /\ b \in Seq(Nat) /\ Len(b) = Len(g) + 1 /\ b[Len(g) + 1] = d[1].at
      /\ \A i \in 1 .. Len(g) : b[i] = g[i]
  BY <1>1, <1>2, AppendProperties
<1> HIDE DEF b, e
<1>4. /\ h \in Seq(Nat) /\ Len(h) = Len(g) + Len(d)
      /\ \A i \in 1 .. Len(g) : h[i] = g[i]
      /\ \A i \in 1 .. Len(d) : h[Len(g) + i] = d[i].at
  BY HandedOfFacts
<1>5. /\ k \in Seq(Nat) /\ Len(k) = Len(b) + Len(e)
      /\ \A i \in 1 .. Len(b) : k[i] = b[i]
      /\ \A i \in 1 .. Len(e) : k[Len(b) + i] = e[i].at
  BY <1>1, <1>3, HandedOfFacts
<1> HIDE DEF h, k
<1>l. Len(k) = Len(g) + Len(d) /\ Len(h) = Len(k) /\ Len(b) = Len(g) + 1
  BY <1>1, <1>3, <1>4, <1>5
<1>6. ASSUME NEW i \in 1 .. Len(k) PROVE k[i] = h[i]
  <2>1. CASE i \in 1 .. Len(g)
    <3>1. i \in 1 .. Len(b)
      BY <1>1, <1>l, <2>1
    <3> QED
      BY <1>3, <1>4, <1>5, <2>1, <3>1
  <2>2. CASE i = Len(g) + 1
    <3>1. 1 \in 1 .. Len(d) /\ i \in 1 .. Len(b)
      BY <1>1, <1>3, <2>2
    <3>2. k[i] = b[Len(g) + 1] /\ h[Len(g) + 1] = d[1].at
      BY <1>4, <1>5, <2>2, <3>1
    <3> QED
      BY <1>3, <2>2, <3>2
  <2>3. CASE i \in Len(g) + 2 .. Len(g) + Len(d)
    <3> DEFINE m == i - Len(b)
    <3>1. m \in 1 .. Len(e) /\ Len(b) + m = i /\ Len(g) + (m + 1) = i /\ m + 1 \in 1 .. Len(d)
      BY <1>1, <1>3, <2>3
    <3> HIDE DEF m
    <3>2. k[i] = e[m].at /\ h[i] = d[m + 1].at
      BY <1>4, <1>5, <3>1
    <3> QED
      BY <1>1, <3>1, <3>2
  <2> QED
    BY <1>1, <1>l, <2>1, <2>2, <2>3
<1>7. k = h
  BY <1>l, <1>4, <1>5, <1>6, SeqEqual
<1> QED
  BY <1>7 DEF k, h, b, e

\* A reader waits on one pull at a time.
LEMMA PullsInOrderStep == IInv /\ [Next]_vars => PullsInOrder'
<1> SUFFICES ASSUME IInv, [Next]_vars, NEW q \in Readers
             PROVE  /\ cons'[q].start <= Len(topic')
                    /\ stage'[q] # "in" => /\ call'[q] = "none" /\ reported'[q] = NoStep
                                           /\ view'[q] = NoView
                                           /\ got'[q] = <<>> /\ ready'[q] = <<>>
                    /\ call'[q] # "none" => cons'[q].held # 0
                    /\ call'[q] = "data" => ready'[q] = <<>>
                    /\ view'[q] # NoView => /\ cons'[q].held # 0
                                            /\ Position(cons'[q]) <= Len(topic')
  BY DEF PullsInOrder, Position
<1> DEFINE Goal == /\ cons'[q].start <= Len(topic')
                   /\ stage'[q] # "in" => /\ call'[q] = "none" /\ reported'[q] = NoStep
                                          /\ view'[q] = NoView
                                          /\ got'[q] = <<>> /\ ready'[q] = <<>>
                   /\ call'[q] # "none" => cons'[q].held # 0
                   /\ call'[q] = "data" => ready'[q] = <<>>
                   /\ view'[q] # NoView => /\ cons'[q].held # 0
                                           /\ Position(cons'[q]) <= Len(topic')
<1> SUFFICES Goal
  OBVIOUS
<1>t. LogTypes /\ ReaderTypes /\ EventsExist
  BY DEF IInv, Types
<1>i. /\ cons[q].start <= Len(topic)
      /\ stage[q] # "in" => /\ call[q] = "none" /\ reported[q] = NoStep
                            /\ view[q] = NoView
                            /\ got[q] = <<>> /\ ready[q] = <<>>
      /\ call[q] # "none" => cons[q].held # 0
      /\ call[q] = "data" => ready[q] = <<>>
      /\ view[q] # NoView => cons[q].held # 0 /\ Position(cons[q]) <= Len(topic)
  BY DEF IInv, PullsInOrder
<1>o. cons[q] \in OneHeld /\ cons[q].start \in Nat /\ cons[q].held \in Nat
      /\ Position(cons[q]) \in Nat
  BY <1>t DEF ReaderTypes, OneHeld, ConsumerType, Position
<1>g. Len(topic) \in Nat /\ Len(topic') \in Nat /\ Len(topic) <= Len(topic')
  BY LogGrows
<1>u. ASSUME /\ cons'[q] = cons[q] /\ stage'[q] = stage[q] /\ call'[q] = call[q]
             /\ reported'[q] = reported[q] /\ view'[q] = view[q] /\ got'[q] = got[q]
             /\ ready'[q] = ready[q]
      PROVE  Goal
  BY <1>i, <1>o, <1>g, <1>u
<1>1. CASE Writer
  BY <1>1, <1>u, WriterLeaves DEF readerVars, pullVars
<1>2. ASSUME NEW r \in Readers, Reader(r) PROVE Goal
  <2>0. topic' = topic
    BY <1>2, ReaderLeaves
  <2>1. CASE q # r
    BY <1>2, <1>t, <1>u, <2>1 DEF Reader, JoinGroup, StopReader, LeaveGroup, Subscribe, AckStep, Arrive, Wait,
       WaitDataParked, PumpStep, PumpData, Taking, PumpReturns, PumpGoesOn, WaitTimesOut,
       readerVars, pullVars, ReaderTypes
  <2>2. CASE q = r
    <3>1. CASE JoinGroup(r)
      <4>1. /\ cons'[q] = Consumer(offset) /\ stage'[q] = "in" /\ stage[q] = "out"
            /\ UNCHANGED <<view, call, ready>>
        BY <1>t, <2>2, <3>1 DEF JoinGroup, ReaderTypes
      <4> QED
        BY <1>t, <1>i, <2>0, <4>1 DEF Consumer, EventsExist
    <3>2. CASE StopReader(r)
      <4>1. /\ cons'[q] = Consumer(0) /\ stage'[q] = "gone" /\ call' = call
            /\ call[q] = "none" /\ reported'[q] = NoStep /\ view'[q] = NoView
            /\ got'[q] = <<>> /\ ready'[q] = <<>>
        BY <1>t, <2>2, <3>2 DEF StopReader, LeaveGroup, ReaderTypes
      <4> QED
        BY <1>g, <4>1 DEF Consumer
    <3>3. ASSUME NEW p \in Paths, NEW S \in Spans, Subscribe(r, p, S) PROVE Goal
      BY <1>u, <3>3 DEF Subscribe, pullVars
    <3>4. ASSUME NEW n \in 0 .. MaxSteps - 1, AckStep(r, n) PROVE Goal
      BY <1>u, <3>4 DEF AckStep, readerVars, pullVars
    <3>5. CASE Arrive(r)
      <4>1. /\ stage[q] = "in" /\ cons[q].held # 0 /\ Position(cons[q]) <= Len(topic)
            /\ UNCHANGED <<stage, cons, call, ready>>
        BY <2>2, <3>5 DEF Arrive
      <4> QED
        BY <1>i, <2>0, <4>1
    <3>6. ASSUME NEW kind \in {"step", "data"}, Wait(r, kind) PROVE Goal
      <4>1. /\ stage[q] = "in" /\ cons'[q] = PullRetained(cons[q]) /\ call'[q] = kind
            /\ kind = "data" => ready[q] = <<>>
            /\ UNCHANGED <<stage, view, ready>>
        BY <1>t, <2>2, <3>6 DEF Wait, ReaderTypes
      <4>2. /\ PullRetained(cons[q]).start = cons[q].start
            /\ PullRetained(cons[q]).held # 0
            /\ cons[q].held # 0 => PullRetained(cons[q]) = cons[q]
        <5>1. cons[q].held # 0 => PullRetained(cons[q]) = cons[q]
          BY DEF PullRetained
        <5>2. /\ PullRetained(cons[q]).start = cons[q].start
              /\ PullRetained(cons[q]).held = Passed(cons[q]) + 1 /\ Passed(cons[q]) \in Nat
          BY <1>o, PullFacts
        <5> QED
          BY <5>1, <5>2
      <4> QED
        BY <1>i, <2>0, <4>1, <4>2
    <3>7. CASE WaitDataParked(r)
      <4>1. stage[q] = "in" /\ call[q] = "none" /\ UNCHANGED <<stage, cons, view, call>>
        BY <2>2, <3>7 DEF WaitDataParked, pullVars
      <4> QED
        BY <1>i, <2>0, <4>1
    <3>8. CASE PumpStep(r) \/ PumpData(r)
      <4>1. /\ call[q] # "none" /\ view'[q] = NoView /\ stage' = stage
            /\ \/ cons'[q] = Satisfied(cons[q]) /\ call'[q] = "none"
               \/ cons'[q] = PullRetained(Satisfied(cons[q])) /\ call' = call
            /\ call'[q] = "data" => ready'[q] = ready[q]
        BY <1>t, <2>2, <3>8 DEF PumpStep, PumpData, Taking, PumpReturns, PumpGoesOn, ReaderTypes
      <4>2. stage[q] = "in" /\ cons[q].held # 0
        BY <1>i, <4>1
      <4>3. /\ Satisfied(cons[q]).start = cons[q].start
            /\ PullRetained(Satisfied(cons[q])).start = cons[q].start
            /\ PullRetained(Satisfied(cons[q])).held # 0
        BY <1>o, <4>2, PullFacts, NextPullFacts
      <4> QED
        BY <1>i, <2>0, <4>1, <4>2, <4>3
    <3>9. CASE WaitTimesOut(r)
      <4>1. call[q] # "none" /\ call'[q] = "none" /\ view[q] = NoView
            /\ UNCHANGED <<stage, cons, view, got, ready, reported>>
        BY <1>t, <2>2, <3>9 DEF WaitTimesOut, ReaderTypes
      <4> QED
        BY <1>i, <2>0, <4>1
    <3> QED
      BY <1>2, <3>1, <3>2, <3>3, <3>4, <3>5, <3>6, <3>7, <3>8, <3>9 DEF Reader
  <2> QED
    BY <2>1, <2>2
<1>3. CASE UNCHANGED vars
  BY <1>3, <1>u DEF vars, readerVars, pullVars
<1> QED
  BY <1>1, <1>2, <1>3 DEF Next

\* How a step may change where a reader's consumer is and what was handed over:
\* not at all, by joining, by stopping, or by going past the next event.
Quiet(q) ==
    /\ cons'[q].start = cons[q].start /\ Passed(cons'[q]) = Passed(cons[q])
    /\ HandedOf(got'[q], ready'[q]) = HandedOf(got[q], ready[q])
    /\ reported'[q] = reported[q] /\ stage'[q] = stage[q]
Joins(q) ==
    /\ stage[q] = "out" /\ stage'[q] = "in" /\ cons'[q] = Consumer(offset)
    /\ reported'[q] = reported[q] /\ got'[q] = got[q] /\ ready'[q] = ready[q]
Stops(q) ==
    /\ stage'[q] = "gone" /\ cons'[q] = Consumer(0)
    /\ reported'[q] = NoStep /\ got'[q] = <<>> /\ ready'[q] = <<>>
Passes(q) ==
    /\ stage[q] = "in" /\ stage'[q] = "in" /\ UNCHANGED <<topic, written, since, subs, always>>
    /\ cons'[q].start = cons[q].start /\ Passed(cons'[q]) = Passed(cons[q]) + 1
    /\ Consumed(q) + 1 \in DOMAIN topic /\ Taken(q) = topic[Consumed(q) + 1]
    /\ \/ /\ Taken(q).k = "step"
          /\ HandedOf(got'[q], ready'[q]) = HandedOf(got[q], ready[q])
          /\ reported'[q] \in {reported[q], Taken(q).at}
       \/ /\ Taken(q).k = "data" /\ reported'[q] = reported[q]
          /\ ~Wanted(q)
          /\ HandedOf(got'[q], ready'[q]) = HandedOf(got[q], ready[q])
       \/ /\ Taken(q).k = "data" /\ reported'[q] = reported[q]
          /\ HandedOf(got'[q], ready'[q]) = Append(HandedOf(got[q], ready[q]), Taken(q).at)

\* Every step does one of these things to a reader.
LEMMA ReaderEffect ==
    ASSUME IInv, [Next]_vars, NEW q \in Readers
    PROVE  Quiet(q) \/ Joins(q) \/ Stops(q) \/ Passes(q)
<1>t. LogTypes /\ WriterTypes /\ ReaderTypes /\ EventsExist /\ PullsInOrder /\ TopicOrdered
  BY DEF IInv, Types
<1>o. cons[q] \in OneHeld /\ got[q] \in Seq(Nat) /\ ready[q] \in Seq(ItemType)
  BY <1>t DEF ReaderTypes
<1>u. ASSUME /\ cons'[q] = cons[q] \/ cons'[q] = PullRetained(cons[q])
             /\ stage'[q] = stage[q] /\ reported'[q] = reported[q] /\ got'[q] = got[q]
             /\ ready'[q] = ready[q]
      PROVE  Quiet(q)
  BY <1>o, <1>u, PullFacts DEF Quiet
<1>1. CASE Writer
  BY <1>1, <1>u, WriterLeaves DEF readerVars, pullVars
<1>2. ASSUME NEW r \in Readers, Reader(r)
      PROVE  Quiet(q) \/ Joins(q) \/ Stops(q) \/ Passes(q)
  <2>1. CASE q # r
    BY <1>2, <1>t, <1>u, <2>1 DEF Reader, JoinGroup, StopReader, LeaveGroup, Subscribe, AckStep, Arrive, Wait,
       WaitDataParked, PumpStep, PumpData, Taking, PumpReturns, PumpGoesOn, WaitTimesOut,
       readerVars, pullVars, ReaderTypes
  <2>2. CASE q = r
    <3>1. CASE JoinGroup(r)
      BY <1>t, <2>2, <3>1 DEF JoinGroup, Joins, ReaderTypes
    <3>2. CASE StopReader(r)
      BY <1>t, <2>2, <3>2 DEF StopReader, LeaveGroup, Stops, ReaderTypes
    <3>3. ASSUME NEW p \in Paths, NEW S \in Spans, Subscribe(r, p, S) PROVE Quiet(q)
      BY <1>u, <3>3 DEF Subscribe, pullVars
    <3>4. ASSUME NEW n \in 0 .. MaxSteps - 1, AckStep(r, n) PROVE Quiet(q)
      BY <1>u, <3>4 DEF AckStep, readerVars, pullVars
    <3>5. CASE Arrive(r)
      BY <1>u, <3>5 DEF Arrive
    <3>6. ASSUME NEW kind \in {"step", "data"}, Wait(r, kind) PROVE Quiet(q)
      BY <1>t, <1>u, <2>2, <3>6 DEF Wait, ReaderTypes
    <3>7. CASE WaitDataParked(r)
      <4>1. /\ ready[q] # <<>> /\ got'[q] = Append(got[q], Head(ready[q]).at)
            /\ ready'[q] = Tail(ready[q])
            /\ UNCHANGED <<cons, stage, reported>>
        BY <1>t, <2>2, <3>7 DEF WaitDataParked, pullVars, ReaderTypes
      <4> QED
        BY <1>o, <4>1, HandedOfMove DEF Quiet
    <3>8. CASE PumpStep(r) \/ PumpData(r)
      <4>1. /\ call[q] # "none" /\ view[q] # NoView /\ stage' = stage
            /\ \/ cons'[q] = Satisfied(cons[q])
               \/ cons'[q] = PullRetained(Satisfied(cons[q]))
            /\ UNCHANGED <<topic, written, since, subs, always>>
        BY <1>t, <2>2, <3>8 DEF PumpStep, PumpData, Taking, PumpReturns, PumpGoesOn, ReaderTypes,
           logVars, writerVars
      <4>2. stage[q] = "in" /\ cons[q].held # 0 /\ Position(cons[q]) <= Len(topic)
        BY <1>t, <4>1 DEF PullsInOrder
      <4>3. cons'[q].start = cons[q].start /\ Passed(cons'[q]) = Passed(cons[q]) + 1
        BY <1>o, <4>1, <4>2, PullFacts, NextPullFacts
      <4>4. /\ Position(cons[q]) = Consumed(q) + 1 /\ Consumed(q) \in Nat
        <5>1. Position(cons[q]) = cons[q].start + Passed(cons[q]) + 1 /\ Passed(cons[q]) \in Nat
          BY <1>o, <4>2, PullFacts
        <5>2. cons[q].start \in Nat
          BY <1>o DEF OneHeld, ConsumerType
        <5> QED
          BY <5>1, <5>2 DEF Consumed
      <4>5. Consumed(q) + 1 \in DOMAIN topic /\ Taken(q) = topic[Consumed(q) + 1]
        BY <1>t, <4>2, <4>4 DEF LogTypes, Taken
      <4>6. CASE PumpStep(r)
        <5>1. /\ Taken(q).k = "step" /\ UNCHANGED <<got, ready>>
              /\ reported'[q] \in {reported[q], Taken(q).at}
          BY <1>t, <2>2, <4>6 DEF PumpStep, Taking, ReaderTypes
        <5> QED
          BY <4>1, <4>2, <4>3, <4>5, <5>1 DEF Passes
      <4>7. CASE PumpData(r)
        <5>1. /\ Taken(q).k = "data" /\ reported' = reported
              /\ \/ ~Wanted(q) /\ UNCHANGED <<got, ready>>
                 \/ /\ call[q] = "data" /\ got'[q] = Append(got[q], Item(q).at)
                    /\ ready'[q] = ready[q]
                 \/ /\ ready'[q] = Append(ready[q], Item(q)) /\ got'[q] = got[q]
          BY <1>t, <2>2, <4>7 DEF PumpData, Taking, ReaderTypes
        <5>2. Item(q) \in ItemType /\ Item(q).at = Taken(q).at
          BY <4>1, <5>1, TakenFacts
        <5>3. CASE ~Wanted(q) /\ UNCHANGED <<got, ready>>
          BY <4>1, <4>2, <4>3, <4>5, <5>1, <5>3 DEF Passes
        <5>4. CASE /\ call[q] = "data" /\ got'[q] = Append(got[q], Item(q).at)
                   /\ ready'[q] = ready[q]
          <6>1. ready[q] = <<>>
            BY <1>t, <5>4 DEF PullsInOrder
          <6>2. Taken(q).at \in Nat
            BY <5>2 DEF ItemType
          <6>3. HandedOf(got'[q], ready'[q]) = Append(HandedOf(got[q], ready[q]), Taken(q).at)
            BY <1>o, <5>2, <5>4, <6>1, <6>2, HandedOfGive
          <6> QED
            BY <4>1, <4>2, <4>3, <4>5, <5>1, <6>3 DEF Passes
        <5>5. CASE ready'[q] = Append(ready[q], Item(q)) /\ got'[q] = got[q]
          <6>1. HandedOf(got'[q], ready'[q]) = Append(HandedOf(got[q], ready[q]), Taken(q).at)
            BY <1>o, <5>2, <5>5, HandedOfPark
          <6> QED
            BY <4>1, <4>2, <4>3, <4>5, <5>1, <6>1 DEF Passes
        <5> QED
          BY <5>1, <5>3, <5>4, <5>5
      <4> QED
        BY <3>8, <4>6, <4>7
    <3>9. CASE WaitTimesOut(r)
      BY <1>u, <3>9 DEF WaitTimesOut
    <3> QED
      BY <1>2, <3>1, <3>2, <3>3, <3>4, <3>5, <3>6, <3>7, <3>8, <3>9 DEF Reader
  <2> QED
    BY <2>1, <2>2
<1>3. CASE UNCHANGED vars
  BY <1>3, <1>u DEF vars, readerVars, pullVars
<1> QED
  BY <1>1, <1>2, <1>3 DEF Next

\* The last event that a reader went past is a number.
LEMMA ConsumedType ==
    ASSUME ReaderTypes, NEW q \in Readers
    PROVE  cons[q].start \in Nat /\ Passed(cons[q]) \in Nat /\ Consumed(q) \in Nat
<1>1. cons[q] \in OneHeld
  BY DEF ReaderTypes
<1>2. cons[q].start \in Nat /\ Passed(cons[q]) \in Nat
  BY <1>1, PullFacts DEF OneHeld, ConsumerType
<1> QED
  BY <1>2 DEF Consumed

\* A reader goes past events that exist only.
LEMMA ConsumedExistsStep == IInv /\ [Next]_vars => ConsumedExists'
<1> SUFFICES ASSUME IInv, [Next]_vars, NEW q \in Readers
             PROVE  cons'[q].start + Passed(cons'[q]) <= Len(topic')
  BY DEF ConsumedExists, Consumed, Passed
<1>t. ReaderTypes /\ EventsExist /\ ConsumedExists
  BY DEF IInv, Types
<1>g. /\ Len(topic) \in Nat /\ Len(topic') \in Nat /\ Len(topic) <= Len(topic')
      /\ DOMAIN topic = 1 .. Len(topic)
  BY LogGrows
<1>o. /\ cons[q].start \in Nat /\ Passed(cons[q]) \in Nat
      /\ cons[q].start + Passed(cons[q]) <= Len(topic)
  BY <1>t, ConsumedType DEF ConsumedExists, Consumed
<1>1. CASE Quiet(q)
  BY <1>g, <1>o, <1>1 DEF Quiet
<1>2. CASE Joins(q)
  BY <1>t, <1>g, <1>2 DEF Joins, EventsExist, Consumer, Passed
<1>3. CASE Stops(q)
  BY <1>g, <1>3 DEF Stops, Consumer, Passed
<1>4. CASE Passes(q)
  BY <1>g, <1>o, <1>4 DEF Passes, Consumed
<1> QED
  BY <1>1, <1>2, <1>3, <1>4, ReaderEffect

\* A write that is pushed for a subscription is ahead of the reader's consumer.
LEMMA PushedAfterStartStep == IInv /\ [Next]_vars => PushedAfterStart'
<1> SUFFICES ASSUME IInv, [Next]_vars, NEW r \in Readers, stage'[r] = "in",
                    NEW j \in DOMAIN written', j > since'[r][written'[j].path]
             PROVE  \E i \in DOMAIN topic' : i > cons'[r].start /\ topic'[i] = DataEvent(j)
  BY DEF PushedAfterStart, DataEvent
<1>t. /\ LogTypes /\ WriterTypes /\ ReaderTypes /\ PushPending /\ SubscriptionKept
      /\ PushedAfterStart /\ ConsumedExists /\ MaxWrites \in Nat
  BY Constants DEF IInv, Types
<1>g. /\ Len(topic) \in Nat /\ Len(topic') \in Nat /\ Len(topic) <= Len(topic')
      /\ DOMAIN topic = 1 .. Len(topic) /\ DOMAIN topic' = 1 .. Len(topic')
      /\ \A i \in DOMAIN topic : topic'[i] = topic[i]
      /\ DOMAIN written = 1 .. Len(written) /\ DOMAIN written \subseteq DOMAIN written'
      /\ \A i \in DOMAIN written : written'[i] = written[i]
  BY LogGrows
<1>l. Len(written) \in Nat /\ Len(written) <= MaxWrites
  BY <1>t DEF WriterTypes, PushPending
<1>1. CASE j \in DOMAIN written
  <2> DEFINE p == written[j].path
  <2>1. p \in Paths /\ written'[j].path = p
    <3>1. written[j] \in Write
      BY <1>t, <1>1 DEF WriterTypes
    <3> QED
      BY <1>g, <1>1, <3>1 DEF Write
  <2> HIDE DEF p
  <2>2. j > since[r][p]
    BY <1>1, <2>1, DueShrinks
  <2>3. since[r][p] < MaxWrites
    <3>1. since[r][p] \in Nat /\ j <= MaxWrites /\ j \in Nat
      BY <1>t, <1>g, <1>l, <1>1, <2>1 DEF WriterTypes
    <3> QED
      BY <1>t, <2>2, <3>1
  <2>4. stage[r] # "out"
    BY <1>t, <2>1, <2>3 DEF SubscriptionKept, KnownKept
  <2>5. stage[r] = "in" /\ cons'[r].start = cons[r].start
    BY <2>4, ReaderEffect DEF Quiet, Joins, Stops, Passes
  <2>6. PICK i \in DOMAIN topic : i > cons[r].start /\ topic[i] = DataEvent(j)
    BY <1>t, <1>1, <2>2, <2>5 DEF PushedAfterStart, p
  <2> QED
    BY <1>g, <2>5, <2>6
<1>2. CASE j \notin DOMAIN written
  <2>1. PumpTimesOut /\ PumpedPush
    <3>1. written' # written
      BY <1>2
    <3>2. ASSUME NEW q \in Readers, Reader(q) PROVE written' = written
      BY <3>2, ReaderLeaves DEF writerVars
    <3> QED
      BY <3>1, <3>2 DEF Next, vars, writerVars, Writer, StartGroup, PushData, WaitSubscribers,
         MinAckedStep, PumpControl, PumpTimesOut, PumpedStart, PumpedQuery, BroadcastStepReady
  <2>2. /\ arg \in Write /\ written' = Append(written, arg) /\ Len(written) < MaxWrites
        /\ UNCHANGED <<since, stage, cons>>
        /\ topic' = IF Declined(arg.path) THEN topic ELSE Append(topic, DataEvent(Len(written) + 1))
    BY <1>t, <2>1 DEF PumpTimesOut, PumpedPush, PushPending, readerVars, pullVars
  <2>3. j = Len(written) + 1 /\ written'[j] = arg
    BY <1>t, <1>g, <1>2, <2>2, AppendProperties DEF WriterTypes
  <2>4. arg.path \in Paths
    BY <2>2 DEF Write
  <2>5. since[r][arg.path] < MaxWrites
    BY <1>t, <1>l, <2>2, <2>3, <2>4 DEF WriterTypes
  <2>6. ~Declined(arg.path)
    BY <1>t, <2>4, <2>5 DEF SubscriptionKept, KnownKept, Declined
  <2>7. topic' = Append(topic, DataEvent(j)) /\ DataEvent(j) \in TopicEvent
    BY <1>l, <2>2, <2>3, <2>6 DEF DataEvent, TopicEvent
  <2>8. Len(topic) + 1 \in DOMAIN topic' /\ topic'[Len(topic) + 1] = DataEvent(j)
    BY <1>t, <1>g, <2>7, AppendProperties DEF LogTypes
  <2>9. Len(topic) + 1 > cons'[r].start
    BY <1>t, <1>g, <2>2, ConsumedType DEF ConsumedExists, Consumed
  <2> QED
    BY <2>8, <2>9
<1> QED
  BY <1>1, <1>2

\* A selection that meets a write gets a part of it.
LEMMA RunsForMeets ==
    ASSUME NEW S \in Spans, NEW W \in Writes, S \cap W # {}
    PROVE  RunsFor(S, W) # {}
<1>1. S # {} /\ S \subseteq Nat /\ IsFiniteSet(S)
  BY DiasporaAssumption
<1>2. S \subseteq Range1D(S)
  BY <1>1, BetweenMinAndMax DEF Range1D
<1> QED
  BY <1>1, <1>2 DEF RunsFor

\* What a reader was handed is a sequence of numbers of writes.
LEMMA HandedType ==
    ASSUME ReaderTypes, NEW q \in Readers
    PROVE  /\ Handed(q) = HandedOf(got[q], ready[q]) /\ Handed(q) \in Seq(Nat)
           /\ DOMAIN Handed(q) = 1 .. Len(Handed(q)) /\ Len(Handed(q)) \in Nat
<1>1. got[q] \in Seq(Nat) /\ ready[q] \in Seq(ItemType)
  BY DEF ReaderTypes
<1>2. Handed(q) = HandedOf(got[q], ready[q])
  BY DEF Handed, HandedOf
<1>3. HandedOf(got[q], ready[q]) \in Seq(Nat)
  BY <1>1, HandedOfFacts
<1> QED
  BY <1>2, <1>3

\* A reader that has nothing was handed nothing.
LEMMA HandedEmpty == HandedOf(<<>>, <<>>) = <<>>
<1> DEFINE g == <<>>
           d == <<>>
<1>1. g \in Seq(Nat) /\ d \in Seq(ItemType) /\ Len(g) = 0 /\ Len(d) = 0
  OBVIOUS
<1> HIDE DEF g, d
<1>2. HandedOf(g, d) \in Seq(Nat) /\ Len(HandedOf(g, d)) = 0
  <2>1. HandedOf(g, d) \in Seq(Nat) /\ Len(HandedOf(g, d)) = Len(g) + Len(d)
    BY <1>1, HandedOfFacts
  <2> QED
    BY <1>1, <2>1
<1>3. HandedOf(g, d) = <<>>
  BY <1>2, EmptySeq
<1> QED
  BY <1>3 DEF g, d

\* Items are handed over in the order of the topic.
LEMMA HandedInOrderStep == IInv /\ [Next]_vars => HandedInOrder'
<1> SUFFICES ASSUME IInv, [Next]_vars, NEW q \in Readers
             PROVE  /\ \A i, k \in DOMAIN Handed(q)' : i < k => Handed(q)'[i] < Handed(q)'[k]
                    /\ \A k \in DOMAIN Handed(q)' :
                          \E i \in DOMAIN topic' : i <= Consumed(q)' /\ topic'[i] = DataEvent(Handed(q)'[k])
  BY DEF HandedInOrder, DataEvent
<1> DEFINE h == HandedOf(got[q], ready[q])
           g == HandedOf(got'[q], ready'[q])
<1>t. LogTypes /\ WriterTypes /\ ReaderTypes /\ TopicOrdered /\ PullsInOrder
  BY DEF IInv, Types
<1>h. /\ Handed(q) = h /\ h \in Seq(Nat) /\ DOMAIN h = 1 .. Len(h) /\ Len(h) \in Nat
      /\ Handed(q)' = g
  BY <1>t, HandedType DEF Handed, HandedOf
<1>i. /\ \A i, k \in DOMAIN h : i < k => h[i] < h[k]
      /\ \A k \in DOMAIN h : \E i \in DOMAIN topic : i <= Consumed(q) /\ topic[i] = DataEvent(h[k])
  BY <1>h DEF IInv, HandedInOrder
<1>g. /\ DOMAIN topic = 1 .. Len(topic) /\ DOMAIN topic \subseteq DOMAIN topic'
      /\ \A i \in DOMAIN topic : topic'[i] = topic[i]
  BY LogGrows
<1>c. Consumed(q)' = cons'[q].start + Passed(cons'[q]) /\ Consumed(q) = cons[q].start + Passed(cons[q])
      /\ Consumed(q) \in Nat
  BY <1>t, ConsumedType DEF Consumed, Passed
<1> SUFFICES /\ \A i, k \in DOMAIN g : i < k => g[i] < g[k]
             /\ \A k \in DOMAIN g :
                   \E i \in DOMAIN topic' : i <= Consumed(q)' /\ topic'[i] = DataEvent(g[k])
  BY <1>h
<1> HIDE DEF h, g
<1>1. ASSUME g = h, Consumed(q) <= Consumed(q)', Consumed(q)' \in Nat
      PROVE  /\ \A i, k \in DOMAIN g : i < k => g[i] < g[k]
             /\ \A k \in DOMAIN g :
                   \E i \in DOMAIN topic' : i <= Consumed(q)' /\ topic'[i] = DataEvent(g[k])
  <2>1. ASSUME NEW k \in DOMAIN g
        PROVE  \E i \in DOMAIN topic' : i <= Consumed(q)' /\ topic'[i] = DataEvent(g[k])
    <3>1. PICK i \in DOMAIN topic : i <= Consumed(q) /\ topic[i] = DataEvent(h[k])
      BY <1>1, <1>i, <2>1
    <3>2. i \in Int /\ i <= Consumed(q)'
      BY <1>g, <1>c, <1>1, <3>1
    <3> QED
      BY <1>g, <1>1, <3>1, <3>2
  <2> QED
    BY <1>1, <1>i, <2>1
<1>2. CASE Quiet(q)
  BY <1>1, <1>2, <1>c DEF Quiet, g, h
<1>3. CASE Joins(q) \/ Stops(q)
  <2>1. got'[q] = <<>> /\ ready'[q] = <<>>
    BY <1>t, <1>3 DEF Joins, Stops, PullsInOrder
  <2>2. g = <<>>
    BY <2>1, HandedEmpty DEF g
  <2> QED
    BY <2>2
<1>4. CASE Passes(q)
  <2>1. Consumed(q)' = Consumed(q) + 1 /\ Consumed(q) + 1 \in DOMAIN topic /\ topic' = topic
        /\ Taken(q) = topic[Consumed(q) + 1] /\ Taken(q) \in TopicEvent
    <3>1. cons[q].start \in Nat /\ Passed(cons[q]) \in Nat
      BY <1>t, ConsumedType
    <3> QED
      BY <1>t, <1>c, <1>4, <3>1 DEF Passes, LogTypes
  <2>2. CASE g = h
    BY <1>1, <1>c, <2>1, <2>2
  <2>3. CASE Taken(q).k = "data" /\ g = Append(h, Taken(q).at)
    <3> DEFINE n == Taken(q).at
    <3>1. n \in Nat /\ Taken(q) = DataEvent(n)
      BY <2>1, <2>3 DEF TopicEvent, DataEvent
    <3> HIDE DEF n
    <3>2. /\ DOMAIN g = 1 .. Len(h) + 1 /\ g[Len(h) + 1] = n
          /\ \A k \in 1 .. Len(h) : g[k] = h[k]
      BY <1>h, <2>3, <3>1, AppendProperties DEF n
    <3>3. \A k \in 1 .. Len(h) : h[k] < n
      <4> TAKE k \in 1 .. Len(h)
      <4>1. PICK i \in DOMAIN topic : i <= Consumed(q) /\ topic[i] = DataEvent(h[k])
        BY <1>h, <1>i
      <4>2. i < Consumed(q) + 1
        BY <1>c, <1>g, <4>1
      <4>3. topic[i].at < topic[Consumed(q) + 1].at
        BY <1>t, <2>1, <2>3, <4>1, <4>2 DEF TopicOrdered, DataEvent
      <4> QED
        BY <2>1, <4>1, <4>3 DEF DataEvent, n
    <3>4. \A i, k \in DOMAIN g : i < k => g[i] < g[k]
      BY <1>h, <1>i, <3>2, <3>3
    <3>5. ASSUME NEW k \in DOMAIN g
          PROVE  \E i \in DOMAIN topic' : i <= Consumed(q)' /\ topic'[i] = DataEvent(g[k])
      <4>1. CASE k \in 1 .. Len(h)
        <5>1. PICK i \in DOMAIN topic : i <= Consumed(q) /\ topic[i] = DataEvent(h[k])
          BY <1>h, <1>i, <4>1
        <5>2. i <= Consumed(q)'
          BY <1>c, <1>g, <2>1, <5>1
        <5> QED
          BY <2>1, <3>2, <4>1, <5>1, <5>2
      <4>2. CASE k = Len(h) + 1
        <5>1. Consumed(q) + 1 \in DOMAIN topic' /\ Consumed(q) + 1 <= Consumed(q)'
          BY <1>c, <2>1
        <5>2. topic'[Consumed(q) + 1] = DataEvent(g[k])
          BY <2>1, <3>1, <3>2, <4>2
        <5> QED
          BY <5>1, <5>2
      <4> QED
        BY <1>h, <3>2, <4>1, <4>2
    <3> QED
      BY <3>4, <3>5
  <2> QED
    BY <1>4, <2>2, <2>3 DEF Passes, g, h
<1> QED
  BY <1>2, <1>3, <1>4, ReaderEffect

\* No event that is due to a reader is skipped.
LEMMA NoneSkippedStep == IInv /\ [Next]_vars => NoneSkipped'
<1> SUFFICES ASSUME IInv, [Next]_vars, NEW q \in Readers, NEW i \in DOMAIN topic',
                    cons'[q].start < i, i <= Consumed(q)', topic'[i].k = "data",
                    topic'[i].at > since'[q][written'[topic'[i].at].path],
                    always'[q][written'[topic'[i].at].path] \cap written'[topic'[i].at].elems # {}
             PROVE  \E k \in DOMAIN Handed(q)' : Handed(q)'[k] = topic'[i].at
  BY DEF NoneSkipped
<1> DEFINE h == HandedOf(got[q], ready[q])
           g == HandedOf(got'[q], ready'[q])
<1>t. /\ LogTypes /\ WriterTypes /\ ReaderTypes /\ TopicOrdered /\ PullsInOrder
      /\ ConsumedExists /\ PushPending /\ SubscriptionKept /\ MaxWrites \in Nat
  BY Constants DEF IInv, Types
<1>h. /\ Handed(q) = h /\ h \in Seq(Nat) /\ DOMAIN h = 1 .. Len(h) /\ Len(h) \in Nat
      /\ Handed(q)' = g
  BY <1>t, HandedType DEF Handed, HandedOf
<1>g. /\ DOMAIN topic = 1 .. Len(topic) /\ Len(topic) \in Nat /\ DOMAIN topic' = 1 .. Len(topic')
      /\ \A x \in DOMAIN topic : topic'[x] = topic[x]
      /\ \A x \in DOMAIN written : written'[x] = written[x]
  BY LogGrows
<1>c. /\ Consumed(q)' = cons'[q].start + Passed(cons'[q])
      /\ Consumed(q) = cons[q].start + Passed(cons[q])
      /\ cons[q].start \in Nat /\ Passed(cons[q]) \in Nat /\ Consumed(q) <= Len(topic)
  BY <1>t, ConsumedType DEF Consumed, Passed, ConsumedExists
<1> SUFFICES \E k \in DOMAIN g : g[k] = topic'[i].at
  BY <1>h
<1> HIDE DEF h, g
<1>d. ASSUME i \in DOMAIN topic
      PROVE  LET e == topic[i]
                 w == written[e.at]
             IN  /\ topic'[i] = e /\ e.k = "data" /\ w \in Write
                 /\ e.at \in DOMAIN written
                 /\ e.at > since[q][w.path]
                 /\ always[q][w.path] \cap w.elems # {}
  <2> DEFINE e == topic[i]
             w == written[e.at]
  <2>1. topic'[i] = e /\ e.k = "data" /\ e.at \in DOMAIN written
    BY <1>d, <1>g, <1>t DEF TopicOrdered
  <2>2. written'[e.at] = w /\ w \in Write
    BY <1>g, <1>t, <2>1 DEF WriterTypes
  <2>3. w.path \in Paths
    BY <2>2 DEF Write
  <2>4. e.at > since'[q][w.path] /\ always'[q][w.path] \cap w.elems # {}
    BY <2>1, <2>2
  <2> HIDE DEF e, w
  <2>5. e.at > since[q][w.path] /\ always'[q][w.path] \subseteq always[q][w.path]
    BY <2>1, <2>3, <2>4, DueShrinks
  <2> QED
    BY <2>1, <2>2, <2>4, <2>5 DEF e, w
<1>o. ASSUME i \in DOMAIN topic, cons[q].start < i, i <= Consumed(q)
      PROVE  \E k \in DOMAIN h : h[k] = topic'[i].at
  BY <1>d, <1>h, <1>o DEF IInv, NoneSkipped
<1>1. CASE Quiet(q)
  <2>1. g = h /\ cons'[q].start = cons[q].start /\ Consumed(q)' = Consumed(q)
    BY <1>c, <1>1 DEF Quiet, g, h
  <2>2. i \in DOMAIN topic
    BY <1>g, <1>c, <2>1
  <2> QED
    BY <1>o, <2>1, <2>2
<1>2. CASE Joins(q) \/ Stops(q)
  <2>1. offset \in Nat
    BY <1>g DEF IInv, Types, EventsExist
  <2>2. cons'[q].start = Consumed(q)' /\ Consumed(q)' \in Nat
    BY <1>c, <1>2, <2>1 DEF Joins, Stops, Consumer, Passed
  <2> QED
    BY <1>g, <2>2
<1>3. CASE Passes(q)
  <2>1. /\ Consumed(q)' = Consumed(q) + 1 /\ cons'[q].start = cons[q].start /\ topic' = topic
        /\ Taken(q) = topic[Consumed(q) + 1] /\ stage[q] = "in"
    BY <1>c, <1>3 DEF Passes
  <2>2. i \in DOMAIN topic /\ i \in Int /\ Consumed(q) \in Int
    BY <1>g, <1>c, <2>1
  <2>3. CASE i <= Consumed(q)
    <3>1. PICK k \in DOMAIN h : h[k] = topic'[i].at
      BY <1>o, <2>1, <2>2, <2>3
    <3>2. CASE g = h
      BY <3>1, <3>2
    <3>3. CASE g = Append(h, Taken(q).at) /\ Taken(q).k = "data"
      <4>1. Taken(q).at \in Nat
        <5>1. Taken(q) \in TopicEvent
          BY <1>t, <1>3 DEF Passes, LogTypes
        <5> QED
          BY <5>1 DEF TopicEvent
      <4>2. k \in DOMAIN g /\ g[k] = h[k]
        BY <1>h, <3>3, <4>1, AppendProperties
      <4> QED
        BY <3>1, <4>2
    <3> QED
      BY <1>3, <3>2, <3>3 DEF Passes, g, h
  <2>4. CASE i = Consumed(q) + 1
    <3> DEFINE e == topic[i]
               w == written[e.at]
    <3>1. /\ Taken(q) = e /\ topic'[i] = e /\ e.k = "data" /\ w \in Write
          /\ e.at \in DOMAIN written /\ e.at > since[q][w.path]
          /\ always[q][w.path] \cap w.elems # {}
      BY <1>d, <2>1, <2>2, <2>4
    <3>2. w.path \in Paths /\ w.elems \in Writes
      BY <3>1 DEF Write
    <3>3. Wanted(q)
      <4>1. since[q][w.path] < MaxWrites
        <5>1. since[q][w.path] \in Nat /\ Len(written) <= MaxWrites /\ Len(written) \in Nat
              /\ e.at \in 1 .. Len(written)
          BY <1>t, <3>1, <3>2 DEF WriterTypes, PushPending
        <5> HIDE DEF e, w
        <5> QED
          BY <1>t, <3>1, <5>1
      <4>2. subs[q][w.path] # {} /\ always[q][w.path] \subseteq subs[q][w.path]
        BY <1>t, <2>1, <3>2, <4>1 DEF SubscriptionKept, KnownKept, AlwaysHeld
      <4>3. subs[q][w.path] \in Spans
        BY <1>t, <3>2, <4>2 DEF ReaderTypes
      <4>4. subs[q][w.path] \cap w.elems # {}
        BY <3>1, <4>2
      <4>5. RunsFor(subs[q][w.path], w.elems) # {}
        BY <3>2, <4>3, <4>4, RunsForMeets
      <4> QED
        BY <3>1, <4>5 DEF Wanted, Item
    <3> HIDE DEF e, w
    <3>4. g = Append(h, e.at) /\ e.at \in Nat
      <4>1. e.at \in Nat
        BY <1>t, <3>1 DEF WriterTypes
      <4> QED
        BY <1>3, <3>1, <3>3, <4>1 DEF Passes, g, h
    <3>5. Len(h) + 1 \in DOMAIN g /\ g[Len(h) + 1] = e.at
      BY <1>h, <3>4, AppendProperties
    <3> QED
      BY <3>1, <3>5
  <2> QED
    BY <2>1, <2>2, <2>3, <2>4
<1> QED
  BY <1>1, <1>2, <1>3, ReaderEffect

\* A step is reported when its marker is taken.
LEMMA ReportedPassedStep == IInv /\ [Next]_vars => ReportedPassed'
<1> SUFFICES ASSUME IInv, [Next]_vars, NEW q \in Readers, reported'[q] # NoStep
             PROVE  /\ stage'[q] = "in"
                    /\ \E i \in DOMAIN topic' :
                          i <= Consumed(q)' /\ topic'[i] = StepEvent(reported'[q])
  BY DEF ReportedPassed, StepEvent
<1>t. LogTypes /\ ReaderTypes /\ PullsInOrder /\ ReportedPassed
  BY DEF IInv, Types
<1>g. /\ DOMAIN topic = 1 .. Len(topic) /\ DOMAIN topic \subseteq DOMAIN topic'
      /\ Len(topic) \in Nat /\ Len(topic') \in Nat /\ Len(topic) <= Len(topic')
      /\ DOMAIN topic' = 1 .. Len(topic')
      /\ \A i \in DOMAIN topic : topic'[i] = topic[i]
  BY LogGrows
<1>c. /\ Consumed(q)' = cons'[q].start + Passed(cons'[q])
      /\ Consumed(q) = cons[q].start + Passed(cons[q])
      /\ cons[q].start \in Nat /\ Passed(cons[q]) \in Nat
  BY <1>t, ConsumedType DEF Consumed, Passed
<1>o. ASSUME reported'[q] = reported[q], stage'[q] = stage[q],
             Consumed(q)' \in {Consumed(q), Consumed(q) + 1}
      PROVE  /\ stage'[q] = "in"
             /\ \E i \in DOMAIN topic' : i <= Consumed(q)' /\ topic'[i] = StepEvent(reported'[q])
  <2>1. PICK i \in DOMAIN topic : i <= Consumed(q) /\ topic[i] = StepEvent(reported[q])
    BY <1>t, <1>o DEF ReportedPassed
  <2>2. i <= Consumed(q)' /\ i \in DOMAIN topic'
    BY <1>g, <1>c, <1>o, <2>1
  <2>3. stage[q] = "in"
    BY <1>t, <1>o DEF ReportedPassed
  <2> QED
    BY <1>g, <1>o, <2>1, <2>2, <2>3
<1>1. CASE Quiet(q)
  BY <1>o, <1>c, <1>1 DEF Quiet
<1>2. CASE Joins(q) \/ Stops(q)
  BY <1>t, <1>2 DEF Joins, Stops, PullsInOrder
<1>3. CASE Passes(q)
  <2>1. /\ Consumed(q)' = Consumed(q) + 1 /\ topic' = topic /\ stage'[q] = "in" /\ stage[q] = "in"
        /\ Taken(q) = topic[Consumed(q) + 1] /\ Consumed(q) + 1 \in DOMAIN topic
    BY <1>c, <1>3 DEF Passes
  <2>2. CASE reported'[q] = reported[q]
    BY <1>o, <2>1, <2>2
  <2>3. CASE Taken(q).k = "step" /\ reported'[q] = Taken(q).at
    <3>1. Taken(q) \in TopicEvent
      BY <1>t, <2>1 DEF LogTypes
    <3>2. Taken(q) = StepEvent(reported'[q])
      BY <2>3, <3>1 DEF TopicEvent, StepEvent
    <3>3. Consumed(q) + 1 \in DOMAIN topic' /\ Consumed(q) + 1 <= Consumed(q)'
      BY <1>c, <2>1
    <3>4. topic'[Consumed(q) + 1] = StepEvent(reported'[q])
      BY <2>1, <3>2
    <3> HIDE DEF StepEvent
    <3> QED
      BY <2>1, <3>3, <3>4
  <2> QED
    BY <1>3, <2>2, <2>3 DEF Passes
<1> QED
  BY <1>1, <1>2, <1>3, ReaderEffect

-----------------------------------------------------------------------------
(* The theorems.                                                           *)

\* The first state.
LEMMA InitIInv == Init => IInv
<1> SUFFICES ASSUME Init PROVE IInv
  OBVIOUS
<1>1. Types
  BY TypesInit
<1>2. PushPending /\ TopicOrdered /\ ReportedPassed
  BY Constants DEF Init, PushPending, TopicOrdered, ReportedPassed
<1>3. DOMAIN control \subseteq {1} /\ Len(control) \in Nat
      /\ \A i \in DOMAIN control : /\ control[i].rid = OldReader /\ control[i].k = "sub"
                                   /\ control[i].step = NoStep
  BY DEF Init, SubEvent
<1>4. DrainSafe /\ AnnouncedKnown
  BY <1>3 DEF Init, DrainSafe, AnnouncedKnown, Consumer, Passed
<1>5. SubscriptionKept
  BY <1>3, DiasporaAssumption DEF Init, SubscriptionKept, AnnouncedKept, KnownKept, AlwaysHeld
<1>6. PullsInOrder /\ ConsumedExists
  BY DEF Init, PullsInOrder, ConsumedExists, Consumed, Consumer, Passed
<1>7. \A r \in Readers : Handed(r) = <<>>
  BY HandedEmpty DEF Init, Handed, HandedOf
<1>8. PushedAfterStart /\ HandedInOrder /\ NoneSkipped
  BY <1>7 DEF Init, PushedAfterStart, HandedInOrder, NoneSkipped
<1> QED
  BY <1>1, <1>2, <1>4, <1>5, <1>6, <1>8 DEF IInv

\* The invariant holds throughout.
LEMMA Inductive == Spec => []IInv
<1>1. IInv /\ [Next]_vars => IInv'
  BY TypesStep, PushPendingStep, DrainSafeStep, TopicOrderedStep, SubscriptionKeptStep,
     AnnouncedKnownStep, PullsInOrderStep, ConsumedExistsStep, PushedAfterStartStep,
     HandedInOrderStep, NoneSkippedStep, ReportedPassedStep DEF IInv
<1> QED
  BY <1>1, InitIInv, PTL DEF Spec

\* The variables of the Diaspora transport keep their types; in particular a
\* retained pull is the last one issued and every offset is of an event that
\* exists.
THEOREM TypeCorrect == Spec => []TypeOK
<1>1. IInv => TypeOK
  BY TypesImply DEF IInv
<1> QED
  BY <1>1, Inductive, PTL

\* pump_control loses no announcement, whatever the number of readers and of
\* events: each one that the control consumer went past is in the tables of
\* the writer, those of an earlier run apart.
THEOREM NoAnnouncementLost == Spec => []AnnouncedKnown
<1>1. IInv => AnnouncedKnown
  BY DEF IInv
<1> QED
  BY <1>1, Inductive, PTL

\* When wait_step_ready reports a step, all that the reader subscribed to of
\* it has been handed over or is parked, once and in order; for any number of
\* readers, paths, writes and steps, and however subscriptions change between
\* the fetch and the delivery of an event.
THEOREM ReportedStepIsWhole == Spec => []StepIsWhole
<1>1. IInv => StepIsWhole
  <2> SUFFICES ASSUME IInv, NEW r \in Readers
               PROVE  /\ \A i, k \in DOMAIN Handed(r) : i < k => Handed(r)[i] < Handed(r)[k]
                      /\ \A j \in DOMAIN written :
                            (/\ written[j].step <= reported[r]
                             /\ j > since[r][written[j].path]
                             /\ always[r][written[j].path] \cap written[j].elems # {})
                            => j \in {Handed(r)[k] : k \in DOMAIN Handed(r)}
    BY DEF StepIsWhole
  <2>t. /\ LogTypes /\ WriterTypes /\ ReaderTypes /\ TopicOrdered /\ PushedAfterStart
        /\ NoneSkipped /\ ReportedPassed
    BY DEF IInv, Types
  <2>1. \A i, k \in DOMAIN Handed(r) : i < k => Handed(r)[i] < Handed(r)[k]
    BY DEF IInv, HandedInOrder
  <2>2. ASSUME NEW j \in DOMAIN written,
               written[j].step <= reported[r],
               j > since[r][written[j].path],
               always[r][written[j].path] \cap written[j].elems # {}
        PROVE  j \in {Handed(r)[k] : k \in DOMAIN Handed(r)}
    <3>1. written[j] \in Write
      BY <2>t DEF WriterTypes
    <3>2. written[j].step \in Nat /\ reported[r] \in Int
      BY <2>t, <3>1, Constants DEF Write, ReaderTypes, NoStep
    <3>3. reported[r] # NoStep
      BY <2>2, <3>2 DEF NoStep
    <3>4. PICK m \in DOMAIN topic : m <= Consumed(r) /\ topic[m] = StepEvent(reported[r])
      BY <2>t, <3>3 DEF ReportedPassed
    <3>5. stage[r] = "in"
      BY <2>t, <3>3 DEF ReportedPassed
    <3>6. PICK i \in DOMAIN topic : i > cons[r].start /\ topic[i] = DataEvent(j)
      BY <2>t, <2>2, <3>5 DEF PushedAfterStart
    <3>7. topic[i].k = "data" /\ topic[i].at = j /\ topic[m].k = "step" /\ topic[m].at = reported[r]
      BY <3>4, <3>6 DEF DataEvent, StepEvent
    <3>8. ~(m < i)
      <4>1. m < i => topic[m].at < written[topic[i].at].step
        BY <2>t, <3>7 DEF TopicOrdered
      <4> QED
        BY <2>2, <3>2, <3>7, <4>1
    <3>9. i <= Consumed(r) /\ cons[r].start < i
      <4>1. i \in Int /\ m \in Int
        BY <2>t DEF LogTypes
      <4>2. cons[r].start \in Nat /\ Consumed(r) \in Nat
        BY <2>t, ConsumedType
      <4> QED
        BY <3>4, <3>6, <3>8, <4>1, <4>2
    <3>10. \E k \in DOMAIN Handed(r) : Handed(r)[k] = topic[i].at
      BY <2>t, <2>2, <3>7, <3>9 DEF NoneSkipped
    <3> QED
      BY <3>7, <3>10
  <2> QED
    BY <2>1, <2>2
<1> QED
  BY <1>1, Inductive, PTL
=============================================================================
