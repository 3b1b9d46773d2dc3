-------------------------- MODULE StepDeliveryProofs --------------------------
(* Proofs about StepDelivery, for every value of its constants.            *)
EXTENDS StepDelivery, ProofFacts

-----------------------------------------------------------------------------
(* The inductive invariant.                                                *)

\* TypeOK, in groups of variables that change together.
ThreadTypes ==
    /\ at \in Places /\ resume \in {"idle", "in_step", "replay"}
    /\ physical_step \in Steps /\ fails \in 0 .. MaxFails
    /\ writes \subseteq Paths /\ todo \subseteq writes
    /\ targets \subseteq Readers /\ dest \subseteq Readers
JobTypes == job \in [member : SUBSET Readers, paths : SUBSET Paths, k : Nat, pushed : BOOLEAN]
CommitTypes ==
    /\ written \in [Steps -> SUBSET Paths]
    /\ attempt \in [Steps -> 0 .. MaxFails]
PushTypes == inflight \subseteq Push /\ got \subseteq Push /\ lost \subseteq Push
TableTypes ==
    /\ members \subseteq Readers
    /\ sub_table \in [Readers -> [Paths -> SubStates]]
    /\ backfill_from \in [Readers -> Nat]
SinceTypes == since \in [Readers -> [Paths -> Nat]]
ReaderTypes ==
    /\ stage \in [Readers -> Stages]
    /\ has_subscribed \in [Readers -> BOOLEAN]
    /\ to_stage \in [Readers -> SUBSET Paths]
ToldTypes == told \in [Readers -> Seq(0 .. physical_step - 1)]
FromTypes ==
    mark \in [Readers -> Nat] /\ stray \in [Readers -> Seq(Steps)] /\ from \in [Readers -> Steps]
Types ==
    /\ ThreadTypes /\ JobTypes /\ CommitTypes /\ PushTypes /\ TableTypes
    /\ SinceTypes /\ ReaderTypes /\ ToldTypes /\ FromTypes

\* Where the writer's thread is decides what it holds.
ThreadInv ==
    /\ at \notin {"idle", "announce", "forward", "settle", "closed"} => physical_step < MaxSteps
    /\ at \in {"settle", "announce", "forward"} => physical_step > 0
    /\ at # "replay" => todo = writes
    /\ at # "job" => job = NoJob
    /\ at = "job" => \E r \in Readers : job.member = {r}
    /\ job.pushed => job.k < physical_step
    /\ at # "forward" => dest = {}
    /\ at = "forward" => \E r \in Readers : dest = {r}
    /\ at \in {"announce", "forward"} => inflight = {}
    /\ at \notin {"announce", "forward"} => targets = {}
    /\ targets \cap dest = {}

\* A reader stages once, before any other subscription; its entries are
\* released together.
StagedOnce ==
    \A r \in Readers :
        /\ stage[r] = "out" => ~has_subscribed[r]
        /\ stage[r] = "staging" => ~has_subscribed[r]
        /\ ~has_subscribed[r] => \A p \in Paths : sub_table[r][p] \in {"none", "staged"}
        /\ stage[r] \in {"out", "ready"} /\ ~has_subscribed[r] =>
               \A p \in Paths : sub_table[r][p] = "none"
        /\ Released(r) # {} => \A p \in Paths : sub_table[r][p] # "staged"
        /\ job.member = {r} => ~Backfilling(r) /\ has_subscribed[r]
        /\ \A p \in Paths : sub_table[r][p] \in {"staged", "released"} =>
               since[r][p] = backfill_from[r]

\* No step is promised on a path that has no entry, nor to a reader whose
\* address the writer does not have.
PromisedInv ==
    \A r \in Readers, p \in Paths :
        (sub_table[r][p] = "none" \/ (sub_table[r][p] = "live" /\ r \notin members)) =>
            since[r][p] = Never

\* A reader that waits for a backfill was told nothing since it staged, the
\* forward that was under way then apart.
Pending(r) == IF r \in dest THEN 1 ELSE 0
Unannounced == \A r \in Readers : Backfilling(r) => mark[r] = Len(told[r]) + Pending(r)

\* The writer has issued the pushes of every committed step that is due ...
Due(r, p, n) ==
    /\ sub_table[r][p] = "live" /\ since[r][p] <= n
    /\ job.member = {r} /\ p \in job.paths => (n < job.k \/ (n = job.k /\ job.pushed))
Issued(r, p, n, t) == [to |-> r, step |-> n, path |-> p, try |-> t] \in inflight \cup got \cup lost
CommittedIssued ==
    \A r \in Readers, p \in Paths, n \in Steps :
        (n < physical_step /\ Due(r, p, n) /\ p \in written[n]) => Issued(r, p, n, attempt[n])

\* ... and of the writes that the replay has reached.
ReplayIssued ==
    at = "replay" =>
        \A r \in Readers, p \in writes \ todo :
            (sub_table[r][p] = "live" /\ since[r][p] <= physical_step) =>
                Issued(r, p, physical_step, fails)

\* DataFirst, by positions.
ToldInv ==
    \A r \in Readers, p \in Paths, i \in Nat :
        (mark[r] < i /\ i <= Len(told[r]) /\ since[r][p] <= told[r][i] /\ p \in written[told[r][i]]) =>
            [to |-> r, step |-> told[r][i], path |-> p, try |-> attempt[told[r][i]]] \in got \cup lost

\* A reader that is not a member yet has been told nothing.
JoinInv ==
    \A r \in Readers : (r \notin members /\ stage[r] # "gone") =>
        told[r] = <<>> /\ mark[r] = 0 /\ r \notin dest /\ r \notin targets

\* The next step that a member waiting for no backfill is told of.
NextTold(r) ==
    IF at = "settle" \/ r \in targets \cup dest THEN physical_step - 1
    ELSE IF job.member = {r} /\ job.k < physical_step THEN job.k
    ELSE physical_step

OnceInv ==
    \A r \in members : ~Backfilling(r) =>
        /\ from[r] <= NextTold(r)
        /\ Len(told[r]) = mark[r] + (NextTold(r) - from[r])
        /\ \A i \in Nat : (mark[r] < i /\ i <= Len(told[r])) =>
               told[r][i] = from[r] + (i - mark[r]) - 1

\* The announcement that was under way at the staging of r: it is about to be
\* sent, or it was, just behind what had been sent before.
StrayInv ==
    \A r \in Readers :
        \/ stray[r] = <<>>
        \/ mark[r] = Len(told[r]) + 1 /\ r \in dest /\ stray[r] = <<physical_step - 1>>
        \/ mark[r] \in 1 .. Len(told[r]) /\ stray[r] = <<told[r][mark[r]]>>

IInv ==
    /\ Types /\ ThreadInv /\ StagedOnce /\ PromisedInv /\ Unannounced
    /\ CommittedIssued /\ ReplayIssued /\ ToldInv /\ JoinInv /\ OnceInv
    /\ StrayInv

-----------------------------------------------------------------------------
(* Types.                                                                  *)

\* The groups make up TypeOK.
LEMMA TypesAreTypeOK == Types <=> TypeOK
BY DEF Types, TypeOK, ThreadTypes, JobTypes, CommitTypes, PushTypes, TableTypes, SinceTypes,
       ReaderTypes, ToldTypes, FromTypes

\* What the proofs need of the constants.
LEMMA ConstantFacts ==
    /\ MaxSteps \in Nat /\ MaxFails \in Nat /\ Never \in Nat
    /\ Steps \subseteq Nat /\ MaxSteps < Never
    /\ \A n \in Steps : n <= MaxSteps
BY DeliveryAssumption DEF Never, Steps

\* The values that the thread's variables take stay in their sets.
LEMMA ThreadTypesStep == IInv /\ [Next]_vars => ThreadTypes'
<1> SUFFICES ASSUME IInv, [Next]_vars PROVE ThreadTypes'
  OBVIOUS
<1> USE DEF IInv, Types
<1>a. ThreadTypes /\ ThreadInv /\ TableTypes
  OBVIOUS
<1>u. UNCHANGED threadVars => ThreadTypes'
  BY <1>a DEF ThreadTypes, threadVars
<1>1. CASE BeginStep
  BY <1>a, <1>1 DEF BeginStep, ThreadTypes, Places
<1>2. ASSUME NEW W \in SUBSET Paths, EndStep(W) PROVE ThreadTypes'
  BY <1>a, <1>2 DEF EndStep, ThreadTypes, Places
<1>3. CASE FileClose
  BY <1>a, <1>3 DEF FileClose, ThreadTypes, Places
<1>4. ASSUME NEW p \in Paths, ReplayWrite(p) PROVE ThreadTypes'
  BY <1>a, <1>4 DEF ReplayWrite, ThreadTypes, Places
<1>5. CASE ReplayFails
  <2>1. fails' \in 0 .. MaxFails
    BY <1>a, <1>5, ConstantFacts DEF ReplayFails, ThreadTypes
  <2> QED
    BY <1>a, <1>5, <2>1 DEF ReplayFails, ThreadTypes, Places
<1>6. CASE Commit
  <2>1. physical_step < MaxSteps
    BY <1>a, <1>6 DEF Commit, ThreadInv
  <2>2. physical_step' \in Steps
    BY <1>a, <1>6, <2>1, ConstantFacts DEF Commit, ThreadTypes, Steps
  <2> QED
    BY <1>a, <1>6, <2>2 DEF Commit, ThreadTypes, Places
<1>7. CASE Broadcast
  BY <1>a, <1>7 DEF Broadcast, ThreadTypes, TableTypes, Places
<1>8. ASSUME NEW r \in Readers, AnnounceNext(r) PROVE ThreadTypes'
  BY <1>a, <1>8 DEF AnnounceNext, ThreadTypes, Places
<1>9. CASE Announce
  BY <1>a, <1>9 DEF Announce, ThreadTypes, Places
<1>10. CASE AnnounceDone
  BY <1>a, <1>10 DEF AnnounceDone, ThreadTypes, Places
<1>11. ASSUME NEW r \in Readers, TakeBackfill(r) PROVE ThreadTypes'
  BY <1>a, <1>11 DEF TakeBackfill, ThreadTypes, Places
<1>12. CASE BackfillPush
  BY <1>a, <1>12 DEF BackfillPush, ThreadTypes, Places
<1>13. CASE BackfillAnnounce
  BY <1>a, <1>13 DEF BackfillAnnounce, ThreadTypes, Places
<1>14. CASE BackfillDone
  BY <1>a, <1>14 DEF BackfillDone, ThreadTypes, Places
<1>15. CASE ServeDone
  BY <1>a, <1>15 DEF ServeDone, ThreadTypes, Places
<1>16. CASE PushCompletes
  BY <1>u, <1>16 DEF PushCompletes, DataPush, PushFails
<1>17. CASE ReaderRuns
  BY <1>u, <1>17 DEF ReaderRuns, Join, MemberJoined, Leave, MemberLeft, EntriesPurged, Subscribe,
                     SubscribeFrom, Stage, StageLost, Release
<1>18. CASE UNCHANGED vars
  BY <1>u, <1>18 DEF vars
<1> HIDE DEF IInv, Types
<1> QED
  BY <1>1, <1>2, <1>3, <1>4, <1>5, <1>6, <1>7, <1>8, <1>9, <1>10, <1>11, <1>12, <1>13,
     <1>14, <1>15, <1>16, <1>17, <1>18 DEF Next, WriterRuns, Closed

\* What the thread that calls the library does; a reader, a push that
\* completes and a step after the close leave that thread as it is.
ThreadStep ==
    BeginStep \/ (\E W \in SUBSET Paths : EndStep(W)) \/ FileClose \/ WriterRuns

\* A step is one of the writer's thread, or leaves that thread's state.
LEMMA ThreadSteps ==
    ASSUME [Next]_vars
    PROVE  ThreadStep \/ UNCHANGED threadVars
<1>1. CASE PushCompletes
  BY <1>1 DEF PushCompletes, DataPush, PushFails
<1>2. CASE ReaderRuns
  BY <1>2 DEF ReaderRuns, Join, MemberJoined, Leave, MemberLeft, EntriesPurged, Subscribe, SubscribeFrom,
     Stage, StageLost, Release
<1>3. CASE UNCHANGED vars \/ Closed
  BY <1>3 DEF Closed, vars
<1> QED
  BY <1>1, <1>2, <1>3 DEF Next, ThreadStep

\* Only a commit advances physical_step or says what a step wrote.
LEMMA OnlyCommit ==
    ASSUME [Next]_vars, ~Commit
    PROVE  UNCHANGED <<physical_step, written, attempt>>
<1>1. CASE \/ BeginStep \/ (\E W \in SUBSET Paths : EndStep(W)) \/ FileClose
           \/ \E p \in Paths : ReplayWrite(p)
           \/ ReplayFails
  BY <1>1 DEF BeginStep, EndStep, FileClose, ReplayWrite, ReplayFails
<1>2. CASE \/ Broadcast \/ (\E r \in Readers : AnnounceNext(r))
           \/ Announce \/ AnnounceDone
  BY <1>2 DEF Broadcast, AnnounceNext, Announce, AnnounceDone
<1>3. CASE \/ \E r \in Readers : TakeBackfill(r)
           \/ BackfillPush \/ BackfillAnnounce \/ BackfillDone \/ ServeDone
  BY <1>3 DEF TakeBackfill, BackfillPush, BackfillAnnounce, BackfillDone, ServeDone
<1>4. CASE UNCHANGED threadVars
  BY <1>4 DEF threadVars
<1> QED
  BY <1>1, <1>2, <1>3, <1>4, ThreadSteps DEF ThreadStep, WriterRuns

\* The backfill being served names one member and a step that may exist.
LEMMA JobTypesStep == IInv /\ [Next]_vars => JobTypes'
<1> SUFFICES ASSUME IInv, [Next]_vars PROVE JobTypes'
  OBVIOUS
<1>a. JobTypes /\ TableTypes
  BY DEF IInv, Types
<1>u. UNCHANGED job => JobTypes'
  BY <1>a DEF JobTypes
<1>1. ASSUME NEW r \in Readers, TakeBackfill(r) PROVE JobTypes'
  <2>1. backfill_from[r] \in Nat /\ Released(r) \subseteq Paths
    BY <1>a DEF TableTypes, Released
  <2> QED
    BY <1>1, <2>1 DEF TakeBackfill, JobTypes
<1>2. CASE BackfillPush
  BY <1>a, <1>2 DEF BackfillPush, JobTypes
<1>3. CASE BackfillAnnounce
  <2>1. job.k + 1 \in Nat
    BY <1>a DEF JobTypes
  <2>2. job' = [job EXCEPT !.k = job.k + 1, !.pushed = FALSE]
    BY <1>a, <1>3 DEF BackfillAnnounce, JobTypes
  <2> QED
    BY <1>a, <2>1, <2>2 DEF JobTypes
<1>4. CASE BackfillDone
  BY <1>4 DEF BackfillDone, JobTypes, NoJob
<1>5. CASE ~(\E r \in Readers : TakeBackfill(r)) /\ ~BackfillPush /\ ~BackfillAnnounce /\ ~BackfillDone
  <2>1. UNCHANGED job
    BY <1>5, ThreadSteps DEF ThreadStep, WriterRuns, threadVars, BeginStep, EndStep,
      FileClose, ReplayWrite, ReplayFails, Commit, Broadcast, AnnounceNext, Announce,
      AnnounceDone, ServeDone
  <2> QED
    BY <2>1, <1>u
<1> QED
  BY <1>1, <1>2, <1>3, <1>4, <1>5

\* A commit records what it wrote and its attempt, once.
LEMMA CommitTypesStep == IInv /\ [Next]_vars => CommitTypes'
<1> SUFFICES ASSUME IInv, [Next]_vars PROVE CommitTypes'
  OBVIOUS
<1>a. CommitTypes /\ ThreadTypes
  BY DEF IInv, Types
<1>1. CASE Commit
  BY <1>a, <1>1 DEF Commit, CommitTypes, ThreadTypes
<1>2. CASE ~Commit
  <2>1. UNCHANGED <<written, attempt>>
    BY <1>2, OnlyCommit
  <2> QED
    BY <1>a, <2>1 DEF CommitTypes
<1> QED
  BY <1>1, <1>2

\* Pushes name a reader, a step, a path and an attempt.
LEMMA PushTypesStep == IInv /\ [Next]_vars => PushTypes'
<1> SUFFICES ASSUME IInv, [Next]_vars PROVE PushTypes'
  OBVIOUS
<1>a. PushTypes /\ ThreadTypes /\ CommitTypes /\ JobTypes /\ ThreadInv
  BY DEF IInv, Types
<1>1. ASSUME NEW p \in Paths, ReplayWrite(p) PROVE PushTypes'
  <2>1. Pushes(physical_step, p, Readers) \subseteq Push
    BY <1>a DEF Pushes, Push, PushTargets, ThreadTypes
  <2> QED
    BY <1>a, <1>1, <2>1 DEF ReplayWrite, PushTypes
<1>2. CASE BackfillPush
  <2>1. job.k \in Steps
    <3>1. job.k \in Nat /\ job.k < physical_step /\ physical_step \in Steps
      BY <1>2, <1>a, ConstantFacts DEF BackfillPush, BackfillEnds, JobTypes, ThreadTypes
    <3> QED
      BY <3>1, ConstantFacts DEF Steps
  <2>2. attempt[job.k] \in 0 .. MaxFails
    BY <2>1, <1>a DEF CommitTypes
  <2>3. \A p \in job.paths \cap written[job.k] : \A e \in Pushes(job.k, p, job.member) :
          [e EXCEPT !.try = attempt[job.k]] \in Push
    <3> TAKE p \in job.paths \cap written[job.k]
    <3> TAKE e \in Pushes(job.k, p, job.member)
    <3>1. p \in Paths /\ job.member \subseteq Readers /\ fails \in 0 .. MaxFails
      BY <1>a DEF JobTypes, ThreadTypes
    <3>2. e \in Push
      BY <2>1, <3>1 DEF Pushes, PushTargets, Push
    <3> QED
      BY <3>2, <2>2 DEF Push
  <2>4. inflight' \subseteq Push
    BY <1>2, <2>3, <1>a DEF BackfillPush, PushTypes
  <2> QED
    BY <1>a, <1>2, <2>4 DEF BackfillPush, PushTypes
<1>3. CASE PushCompletes
  BY <1>a, <1>3 DEF PushCompletes, DataPush, PushFails, PushTypes
<1>4. CASE ~(\E p \in Paths : ReplayWrite(p)) /\ ~BackfillPush /\ ~PushCompletes
  <2>1. UNCHANGED pushVars
    BY <1>4 DEF Next, WriterRuns, ReaderRuns, Closed, vars, BeginStep,
        EndStep, FileClose, ReplayFails, Commit, Broadcast, AnnounceNext, Announce,
        AnnounceDone, TakeBackfill, BackfillAnnounce, BackfillDone, ServeDone,
        Join, MemberJoined, Leave, MemberLeft, EntriesPurged,
        Subscribe, SubscribeFrom, Stage, StageLost, Release
  <2> QED
    BY <1>a, <2>1 DEF PushTypes, pushVars
<1> QED
  BY <1>1, <1>2, <1>3, <1>4

\* The writer's tables keep one entry per reader.
LEMMA TableTypesStep == IInv /\ [Next]_vars => TableTypes'
<1> SUFFICES ASSUME IInv, [Next]_vars PROVE TableTypes'
  OBVIOUS
<1>a. TableTypes /\ StartSteps \subseteq Nat
  BY DeliveryAssumption DEF IInv, Types
<1>u. UNCHANGED tableVars => TableTypes'
  BY <1>a DEF TableTypes, tableVars
<1>t. UNCHANGED <<members, backfill_from>> /\ sub_table' \in [Readers -> [Paths -> SubStates]]
        => TableTypes'
  BY <1>a DEF TableTypes
<1>1. ASSUME NEW r \in Readers, TakeBackfill(r) PROVE TableTypes'
  <2>1. [p \in Paths |-> IF p \in Released(r) THEN "live" ELSE sub_table[r][p]]
           \in [Paths -> SubStates]
    BY <1>a DEF TableTypes, SubStates
  <2> QED
    BY <1>a, <1>1, <2>1, <1>t DEF TakeBackfill, TableTypes
<1>2. ASSUME NEW r \in Readers, MemberJoined(r) PROVE TableTypes'
  BY <1>a, <1>2 DEF MemberJoined, TableTypes
<1>3. ASSUME NEW r \in Readers, NEW p \in Paths, Subscribe(r, p) PROVE TableTypes'
  BY <1>a, <1>3, <1>t DEF Subscribe, TableTypes, SubStates
<1>4. ASSUME NEW r \in Readers, NEW P \in SUBSET Paths, NEW s \in StartSteps, SubscribeFrom(r, P, s)
      PROVE  TableTypes'
  BY <1>a, <1>4 DEF SubscribeFrom, TableTypes
<1>5. ASSUME NEW r \in Readers, NEW p \in Paths, Stage(r, p) PROVE TableTypes'
  BY <1>a, <1>5, <1>t DEF Stage, TableTypes, SubStates
<1>6. ASSUME NEW r \in Readers, Release(r) PROVE TableTypes'
  <2>1. [p \in Paths |-> IF sub_table[r][p] = "staged" THEN "released" ELSE sub_table[r][p]]
           \in [Paths -> SubStates]
    BY <1>a DEF TableTypes, SubStates
  <2>2. UNCHANGED sub_table \/ sub_table' = [sub_table EXCEPT ![r] =
           [p \in Paths |-> IF sub_table[r][p] = "staged" THEN "released" ELSE sub_table[r][p]]]
    BY <1>a, <1>6 DEF Release, TableTypes
  <2>3. UNCHANGED <<members, backfill_from>>
    BY <1>6 DEF Release
  <2>4. sub_table' \in [Readers -> [Paths -> SubStates]]
    BY <1>a, <2>1, <2>2 DEF TableTypes
  <2> QED
    BY <2>3, <2>4, <1>t
<1>7. ASSUME NEW r \in Readers, MemberLeft(r) \/ EntriesPurged(r) PROVE TableTypes'
  <2>1. [p \in Paths |-> "none"] \in [Paths -> SubStates]
    BY DEF SubStates
  <2> QED
    BY <1>a, <1>7, <2>1 DEF MemberLeft, EntriesPurged, TableTypes
<1>8. CASE UNCHANGED tableVars
  BY <1>8, <1>u
<1>9. ASSUME NEW r \in Readers, NEW p \in Paths, StageLost(r, p) PROVE TableTypes'
  BY <1>9, <1>u DEF StageLost
<1>10. ASSUME NEW r \in Readers, Join(r) \/ Leave(r) PROVE TableTypes'
  BY <1>10, <1>u DEF Join, Leave
<1>11. CASE ReaderRuns
  BY <1>11, <1>2, <1>3, <1>4, <1>5, <1>6, <1>7, <1>9, <1>10 DEF ReaderRuns
<1>12. CASE ~ReaderRuns /\ ~(\E r \in Readers : TakeBackfill(r))
  <2>1. UNCHANGED tableVars
    BY <1>12 DEF Next, WriterRuns, Closed, vars, BeginStep, PushCompletes, DataPush, PushFails,
        EndStep, FileClose, ReplayWrite, ReplayFails, Commit, Broadcast, AnnounceNext, Announce,
        AnnounceDone, BackfillPush, BackfillAnnounce, BackfillDone, ServeDone
  <2> QED
    BY <2>1, <1>u
<1> QED
  BY <1>1, <1>11, <1>12

\* The first step whose pushes come after this moment is a step number.
LEMMA NextPushedType ==
    ASSUME Types PROVE NextPushed \in Nat /\ physical_step \in Nat /\ physical_step <= NextPushed
BY ConstantFacts DEF Types, ThreadTypes, NextPushed

\* since names a step, or Never, for each reader and path.
LEMMA SinceTypesStep == IInv /\ [Next]_vars => SinceTypes'
<1> SUFFICES ASSUME IInv, [Next]_vars PROVE SinceTypes'
  OBVIOUS
<1>a. SinceTypes /\ TableTypes /\ NextPushed \in Nat /\ Never \in Nat
  BY NextPushedType, ConstantFacts DEF IInv, Types
<1>u. UNCHANGED since => SinceTypes'
  BY <1>a DEF SinceTypes
<1>1. ASSUME NEW r \in Readers, TakeBackfill(r) PROVE SinceTypes'
  BY <1>a, <1>1 DEF TakeBackfill, SinceTypes
<1>2. ASSUME NEW r \in Readers, MemberJoined(r) PROVE SinceTypes'
  <2>1. [p \in Paths |-> IF sub_table[r][p] = "live" THEN NextPushed ELSE since[r][p]]
           \in [Paths -> Nat]
    BY <1>a DEF SinceTypes
  <2> QED
    BY <1>a, <1>2, <2>1 DEF MemberJoined, SinceTypes
<1>3. ASSUME NEW r \in Readers, NEW p \in Paths, Subscribe(r, p) PROVE SinceTypes'
  BY <1>a, <1>3 DEF Subscribe, SinceTypes
<1>4. ASSUME NEW r \in Readers, NEW p \in Paths, Stage(r, p) PROVE SinceTypes'
  BY <1>a, <1>4 DEF Stage, SinceTypes, TableTypes
<1>5. ASSUME NEW r \in Readers, MemberLeft(r) \/ EntriesPurged(r) PROVE SinceTypes'
  BY <1>a, <1>5 DEF MemberLeft, EntriesPurged, SinceTypes
<1>6. ASSUME NEW r \in Readers,
             \/ Join(r) \/ Leave(r) \/ Release(r)
             \/ \E P \in SUBSET Paths, s \in StartSteps : SubscribeFrom(r, P, s)
             \/ \E p \in Paths : StageLost(r, p)
      PROVE  SinceTypes'
  BY <1>6, <1>u DEF Join, Leave, Release, SubscribeFrom, StageLost
<1>7. CASE ReaderRuns
  BY <1>7, <1>2, <1>3, <1>4, <1>5, <1>6 DEF ReaderRuns
<1>8. CASE ~ReaderRuns /\ ~(\E r \in Readers : TakeBackfill(r))
  <2>1. UNCHANGED since
    BY <1>8 DEF Next, WriterRuns, Closed, vars, BeginStep, PushCompletes, DataPush, PushFails,
        EndStep, FileClose, ReplayWrite, ReplayFails, Commit, Broadcast, AnnounceNext, Announce,
        AnnounceDone, BackfillPush, BackfillAnnounce, BackfillDone, ServeDone
  <2> QED
    BY <2>1, <1>u
<1> QED
  BY <1>1, <1>7, <1>8

\* A reader's own variables.
LEMMA ReaderTypesStep == IInv /\ [Next]_vars => ReaderTypes'
<1> SUFFICES ASSUME IInv, [Next]_vars PROVE ReaderTypes'
  OBVIOUS
<1>a. ReaderTypes
  BY DEF IInv, Types
<1>1. CASE ReaderRuns
  <2>1. PICK r \in Readers :
        \/ Join(r) \/ MemberJoined(r) \/ Leave(r) \/ MemberLeft(r) \/ EntriesPurged(r)
        \/ \E p \in Paths : Subscribe(r, p)
        \/ \E P \in SUBSET Paths, s \in StartSteps : SubscribeFrom(r, P, s)
        \/ \E p \in Paths : Stage(r, p) \/ StageLost(r, p)
        \/ Release(r)
    BY <1>1 DEF ReaderRuns
  <2>2. \/ UNCHANGED stage
        \/ stage' = [stage EXCEPT ![r] = "ready"]
        \/ stage' = [stage EXCEPT ![r] = "staging"]
        \/ stage' = [stage EXCEPT ![r] = "gone"]
    BY <2>1 DEF Join, MemberJoined, Leave, MemberLeft, EntriesPurged, Subscribe, SubscribeFrom, Stage, StageLost,
                Release, readerVars
  <2>3. has_subscribed' \in {has_subscribed, [has_subscribed EXCEPT ![r] = TRUE]}
    BY <2>1 DEF Join, MemberJoined, Leave, MemberLeft, EntriesPurged, Subscribe, SubscribeFrom, Stage, StageLost,
                Release, readerVars
  <2>4. \/ UNCHANGED to_stage
        \/ \E P \in SUBSET Paths : to_stage' = [to_stage EXCEPT ![r] = P]
        \/ \E p \in Paths : to_stage' = [to_stage EXCEPT ![r] = @ \ {p}]
    BY <2>1 DEF Join, MemberJoined, Leave, MemberLeft, EntriesPurged, Subscribe, SubscribeFrom, Stage, StageLost,
                Release, readerVars
  <2>5. stage' \in [Readers -> Stages]
    BY <1>a, <2>2 DEF ReaderTypes, Stages
  <2>6. has_subscribed' \in [Readers -> BOOLEAN]
    BY <1>a, <2>3 DEF ReaderTypes
  <2>7. to_stage' \in [Readers -> SUBSET Paths]
    BY <1>a, <2>4 DEF ReaderTypes
  <2> QED
    BY <2>5, <2>6, <2>7 DEF ReaderTypes
<1>2. CASE ~ReaderRuns
  <2>1. UNCHANGED readerVars
    BY <1>2 DEF Next, WriterRuns, Closed, vars, BeginStep, PushCompletes, DataPush, PushFails,
        EndStep, FileClose, ReplayWrite, ReplayFails, Commit, Broadcast, AnnounceNext, Announce,
        AnnounceDone, TakeBackfill, BackfillPush, BackfillAnnounce, BackfillDone, ServeDone
  <2> QED
    BY <1>a, <2>1 DEF ReaderTypes, readerVars
<1> QED
  BY <1>1, <1>2

\* Only committed steps are announced: the step just committed, or a step
\* before the present one that a backfill serves.
LEMMA ToldEffect ==
    ASSUME IInv, [Next]_vars
    PROVE  \/ UNCHANGED told
           \/ \E r \in Readers, n \in Nat :
                 /\ n < physical_step /\ UNCHANGED physical_step
                 /\ told' = [told EXCEPT ![r] = Append(@, n)]
                 /\ \/ Announce /\ dest = {r} /\ n = physical_step - 1
                    \/ BackfillAnnounce /\ job.member = {r} /\ r \in members /\ n = job.k
<1>a. ThreadTypes /\ JobTypes /\ ThreadInv /\ physical_step \in Nat
  BY ConstantFacts DEF IInv, Types, ThreadTypes
<1>1. CASE Announce
  <2>1. PICK r \in Readers : dest = {r}
    BY <1>1, <1>a DEF Announce, ThreadInv
  <2>2. physical_step > 0
    BY <1>1, <1>a DEF Announce, ThreadInv
  <2>3. physical_step - 1 \in Nat /\ physical_step - 1 < physical_step
    BY <2>2, <1>a
  <2>4. told' = [told EXCEPT ![r] = Append(@, physical_step - 1)] /\ UNCHANGED physical_step
    BY <1>1, <2>1 DEF Announce, StepReady
  <2> QED
    BY <1>1, <2>1, <2>3, <2>4
<1>2. CASE BackfillAnnounce
  <2>1. PICK r \in Readers : job.member = {r}
    BY <1>2, <1>a DEF BackfillAnnounce, ThreadInv
  <2>2. job.k \in Nat /\ job.k < physical_step
    BY <1>2, <1>a DEF BackfillAnnounce, ThreadInv, JobTypes
  <2>3. CASE r \in members
    <3>1. told' = [told EXCEPT ![r] = Append(@, job.k)] /\ UNCHANGED physical_step
      BY <1>2, <2>1, <2>3 DEF BackfillAnnounce, StepReady
    <3> QED
      BY <1>2, <2>1, <2>2, <2>3, <3>1
  <2>4. CASE r \notin members
    BY <1>2, <2>1, <2>4 DEF BackfillAnnounce
  <2> QED
    BY <2>3, <2>4
<1>3. CASE ~Announce /\ ~BackfillAnnounce
  BY <1>3 DEF Next, WriterRuns, Closed, vars, toldVars, BeginStep, PushCompletes, DataPush,
        PushFails, EndStep, FileClose, ReplayWrite, ReplayFails, Commit, Broadcast, AnnounceNext,
        AnnounceDone, TakeBackfill, BackfillPush, BackfillDone, ServeDone,
        ReaderRuns, Join, MemberJoined, Leave, MemberLeft, EntriesPurged,
        Subscribe, SubscribeFrom, Stage, StageLost, Release
<1> QED
  BY <1>1, <1>2, <1>3

\* physical_step never goes back: only a commit changes it.
LEMMA StepGrows ==
    ASSUME IInv, [Next]_vars
    PROVE  (UNCHANGED physical_step \/ Commit)
           /\ physical_step \in Nat /\ physical_step' \in Nat /\ physical_step <= physical_step'
<1>1. physical_step \in Nat
  BY ConstantFacts DEF IInv, Types, ThreadTypes
<1>2. CASE Commit
  BY <1>1, <1>2 DEF Commit
<1>3. CASE ~Commit
  <2>1. UNCHANGED physical_step
    BY <1>3, OnlyCommit
  <2> QED
    BY <1>1, <2>1
<1> QED
  BY <1>2, <1>3

\* What a reader was told of is committed.
LEMMA ToldTypesStep == IInv /\ [Next]_vars => ToldTypes'
<1> SUFFICES ASSUME IInv, [Next]_vars PROVE ToldTypes'
  OBVIOUS
<1>a. ToldTypes
  BY DEF IInv, Types
<1> DEFINE Old == 0 .. physical_step - 1
           New == 0 .. physical_step' - 1
<1>1. Old \subseteq New
  BY StepGrows
<1>2. told \in [Readers -> Seq(Old)]
  BY <1>a DEF ToldTypes
<1> HIDE DEF Old, New
<1>3. \A r \in Readers : told[r] \in Seq(New)
  BY <1>1, <1>2
<1>4. told \in [Readers -> Seq(New)]
  BY <1>2, <1>3
<1>5. CASE UNCHANGED told
  BY <1>4, <1>5 DEF ToldTypes, New
<1>6. ASSUME NEW r \in Readers, NEW n \in Nat, n < physical_step,
             told' = [told EXCEPT ![r] = Append(@, n)]
      PROVE  ToldTypes'
  <2>1. n \in New
    BY <1>6, StepGrows DEF New
  <2>2. Append(told[r], n) \in Seq(New)
    BY <1>3, <2>1
  <2>3. told' \in [Readers -> Seq(New)]
    BY <1>4, <1>6, <2>2
  <2> QED
    BY <2>3 DEF ToldTypes, New
<1> QED
  BY <1>5, <1>6, ToldEffect

\* The step to announce next is a step number.
LEMMA NextAnnouncedType ==
    ASSUME IInv, NEW r \in Readers
    PROVE  /\ NextAnnounced(r) \in Steps
           /\ NextAnnounced(r) = IF at = "settle" THEN physical_step - 1
                                 ELSE IF job.member = {r} /\ job.k < physical_step THEN job.k
                                 ELSE physical_step
<1>a. physical_step \in Nat /\ physical_step \in Steps /\ job.k \in Nat
  BY ConstantFacts DEF IInv, Types, ThreadTypes, JobTypes
<1>1. at = "settle" => physical_step > 0
  BY DEF IInv, ThreadInv
<1>2. Min({job.k, physical_step}) = IF job.k <= physical_step THEN job.k ELSE physical_step
  BY <1>a, MinOfTwo
<1>3. \A n \in Nat : n <= physical_step => n \in Steps
  BY <1>a, ConstantFacts DEF Steps
<1> QED
  BY <1>a, <1>1, <1>2, <1>3 DEF NextAnnounced

\* A set meets a singleton in a number of elements.
LEMMA CountOne == ASSUME NEW D, NEW r PROVE Cardinality(D \cap {r}) \in Nat
<1>1. D \cap {r} = {} \/ D \cap {r} = {r}
  OBVIOUS
<1> QED
  BY <1>1, FS_EmptySet, FS_Singleton

\* mark, stray and from name a position and steps.
LEMMA FromTypesStep == IInv /\ [Next]_vars => FromTypes'
<1> SUFFICES ASSUME IInv, [Next]_vars PROVE FromTypes'
  OBVIOUS
<1>a. FromTypes /\ TableTypes /\ ToldTypes /\ ThreadTypes
  BY DEF IInv, Types
<1>u. UNCHANGED <<mark, stray, from>> => FromTypes'
  BY <1>a DEF FromTypes
<1>1. ASSUME NEW r \in Readers, TakeBackfill(r) PROVE FromTypes'
  <2>1. backfill_from[r] \in Nat /\ physical_step \in Nat /\ physical_step \in Steps
    BY <1>a, ConstantFacts DEF TableTypes, ThreadTypes
  <2>2. Min({backfill_from[r], physical_step}) =
          IF backfill_from[r] <= physical_step THEN backfill_from[r] ELSE physical_step
    BY <2>1, MinOfTwo
  <2>3. Min({backfill_from[r], physical_step}) \in Steps
    BY <2>1, <2>2, ConstantFacts DEF Steps
  <2> QED
    BY <1>a, <1>1, <2>3 DEF TakeBackfill, FromTypes
<1>2. ASSUME NEW r \in Readers, MemberJoined(r) PROVE FromTypes'
  BY <1>a, <1>2, NextAnnouncedType DEF MemberJoined, FromTypes
<1>3. ASSUME NEW r \in Readers, NEW p \in Paths, Stage(r, p) PROVE FromTypes'
  <2>1. Cardinality(dest \cap {r}) \in Nat
    BY CountOne
  <2>2. Len(told[r]) \in Nat
    BY <1>a DEF ToldTypes
  <2>3. Len(told[r]) + Cardinality(dest \cap {r}) \in Nat
    BY <2>1, <2>2
  <2>4. r \in dest => physical_step - 1 \in Steps
    <3>1. r \in dest => physical_step > 0
      BY DEF IInv, ThreadInv
    <3> QED
      BY <1>a, <3>1, ConstantFacts DEF ThreadTypes, Steps
  <2>5. (IF r \in dest THEN <<physical_step - 1>> ELSE <<>>) \in Seq(Steps)
    BY <2>4
  <2> QED
    BY <1>a, <1>3, <2>3, <2>5 DEF Stage, FromTypes
<1>4. CASE ~(\E r \in Readers : \/ TakeBackfill(r) \/ MemberJoined(r)
                                 \/ \E p \in Paths : Stage(r, p))
  <2>1. UNCHANGED <<mark, stray, from>>
    BY <1>4 DEF Next, WriterRuns, PushCompletes, ReaderRuns, Closed, vars, toldVars, BeginStep,
        EndStep, FileClose, ReplayWrite, ReplayFails, Commit, Broadcast, AnnounceNext, Announce,
        AnnounceDone, BackfillPush, BackfillAnnounce, BackfillDone, ServeDone,
        DataPush, PushFails, Join, Leave, MemberLeft, EntriesPurged,
        Subscribe, SubscribeFrom, StageLost, Release
  <2> QED
    BY <2>1, <1>u
<1> QED
  BY <1>1, <1>2, <1>3, <1>4

\* All of the types.
LEMMA TypesStep == IInv /\ [Next]_vars => Types'
BY ThreadTypesStep, JobTypesStep, CommitTypesStep, PushTypesStep, TableTypesStep, SinceTypesStep,
   ReaderTypesStep, ToldTypesStep, FromTypesStep DEF Types

-----------------------------------------------------------------------------
(* What the thread and the readers hold.                                   *)

\* The thread holds a job only inside serve_backfill, and a destination and a
\* snapshot only inside a broadcast, which starts with no push in flight.
LEMMA ThreadInvStep == IInv /\ [Next]_vars => ThreadInv'
<1> SUFFICES ASSUME IInv, [Next]_vars PROVE ThreadInv'
  OBVIOUS
<1>a. ThreadTypes /\ ThreadInv /\ JobTypes /\ physical_step \in Nat /\ MaxSteps \in Nat
  BY ConstantFacts DEF IInv, Types, ThreadTypes
<1>b. at = "job" => job.k \in Nat /\ job.pushed \in BOOLEAN
  BY <1>a DEF JobTypes
<1>n. NoJob.pushed = FALSE /\ ~(\E r \in Readers : NoJob.member = {r})
  BY DEF NoJob
<1>u. UNCHANGED threadVars /\ inflight' \subseteq inflight => ThreadInv'
  BY <1>a DEF ThreadInv, threadVars
<1>1. CASE BeginStep
  BY <1>a, <1>1 DEF BeginStep, ThreadInv
<1>2. ASSUME NEW W \in SUBSET Paths, EndStep(W) PROVE ThreadInv'
  BY <1>a, <1>2 DEF EndStep, ThreadInv
<1>3. CASE FileClose
  BY <1>a, <1>3 DEF FileClose, ThreadInv
<1>4. ASSUME NEW p \in Paths, ReplayWrite(p) PROVE ThreadInv'
  BY <1>a, <1>4 DEF ReplayWrite, ThreadInv
<1>5. CASE ReplayFails
  BY <1>a, <1>5 DEF ReplayFails, ThreadInv
<1>6. CASE Commit
  <2>1. physical_step' > 0
    BY <1>a, <1>6 DEF Commit
  <2>2. job = NoJob /\ dest = {} /\ targets = {}
    BY <1>a, <1>6 DEF Commit, ThreadInv
  <2> QED
    BY <1>6, <1>n, <2>1, <2>2 DEF Commit, ThreadInv
<1>7. CASE Broadcast
  BY <1>a, <1>7, <1>n DEF Broadcast, ThreadInv, Settled, pushVars
<1>8. ASSUME NEW r \in Readers, AnnounceNext(r) PROVE ThreadInv'
  <2>1. CASE Backfilling(r) \/ r \notin members
    BY <1>a, <1>8, <2>1 DEF AnnounceNext, ThreadInv, pushVars
  <2>2. CASE ~(Backfilling(r) \/ r \notin members)
    BY <1>a, <1>8, <2>2 DEF AnnounceNext, ThreadInv, pushVars
  <2> QED
    BY <2>1, <2>2
<1>9. CASE Announce
  BY <1>a, <1>9 DEF Announce, ThreadInv, pushVars
<1>10. CASE AnnounceDone
  BY <1>a, <1>10 DEF AnnounceDone, ThreadInv
<1>11. ASSUME NEW r \in Readers, TakeBackfill(r) PROVE ThreadInv'
  BY <1>a, <1>11 DEF TakeBackfill, ThreadInv
<1>12. CASE BackfillPush
  <2>1. job.k < physical_step /\ job' = [job EXCEPT !.pushed = TRUE]
    BY <1>a, <1>b, <1>12 DEF BackfillPush, BackfillEnds
  <2>2. job'.k < physical_step' /\ job'.member = job.member
    BY <1>a, <1>12, <2>1 DEF BackfillPush, JobTypes
  <2> QED
    BY <1>a, <1>12, <2>2 DEF BackfillPush, ThreadInv
<1>13. CASE BackfillAnnounce
  <2>1. job'.pushed = FALSE /\ job'.member = job.member
    BY <1>a, <1>13 DEF BackfillAnnounce, JobTypes
  <2> QED
    BY <1>a, <1>13, <2>1 DEF BackfillAnnounce, ThreadInv
<1>14. CASE BackfillDone
  BY <1>a, <1>14, <1>n DEF BackfillDone, ThreadInv
<1>15. CASE ServeDone
  BY <1>a, <1>15 DEF ServeDone, ThreadInv, ThreadTypes
<1>16. CASE PushCompletes
  <2>1. UNCHANGED threadVars /\ inflight' \subseteq inflight
    BY <1>16 DEF PushCompletes, DataPush, PushFails
  <2> QED
    BY <2>1, <1>u
<1>17. CASE ReaderRuns
  <2>1. UNCHANGED <<threadVars, inflight>>
    BY <1>17 DEF ReaderRuns, Join, MemberJoined, Leave, MemberLeft, EntriesPurged, Subscribe,
                     SubscribeFrom, Stage, StageLost, Release, pushVars
  <2> QED
    BY <2>1, <1>u
<1>18. CASE UNCHANGED vars
  BY <1>u, <1>18 DEF vars, pushVars
<1> QED
  BY <1>1, <1>2, <1>3, <1>4, <1>5, <1>6, <1>7, <1>8, <1>9, <1>10, <1>11, <1>12, <1>13,
     <1>14, <1>15, <1>16, <1>17, <1>18 DEF Next, WriterRuns, Closed

\* How the member that a backfill serves changes.
LEMMA JobEffect ==
    ASSUME IInv, [Next]_vars, ~(\E r \in Readers : TakeBackfill(r))
    PROVE  job'.member = job.member \/ job' = NoJob
<1>a. JobTypes
  BY DEF IInv, Types
<1>1. CASE BackfillPush
  BY <1>a, <1>1 DEF BackfillPush, JobTypes
<1>2. CASE BackfillAnnounce
  BY <1>a, <1>2 DEF BackfillAnnounce, JobTypes
<1>3. CASE BackfillDone
  BY <1>3 DEF BackfillDone
<1>4. CASE ~BackfillPush /\ ~BackfillAnnounce /\ ~BackfillDone
  BY <1>4, ThreadSteps DEF ThreadStep, WriterRuns, threadVars, BeginStep, EndStep,
    FileClose, ReplayWrite, ReplayFails, Commit, Broadcast, AnnounceNext, Announce,
    AnnounceDone, ServeDone
<1> QED
  BY <1>1, <1>2, <1>3, <1>4

\* A step of neither the readers nor the backfill's start leaves the tables,
\* the readers and what is promised alone.
LEMMA TablesKept ==
    ASSUME [Next]_vars, ~ReaderRuns, ~(\E r \in Readers : TakeBackfill(r))
    PROVE  UNCHANGED <<members, sub_table, backfill_from, stage, has_subscribed, to_stage,
                       mark, stray, from, since>>
BY DEF Next, WriterRuns, PushCompletes, Closed, vars, tableVars, readerVars, toldVars, BeginStep,
        EndStep, FileClose, ReplayWrite, ReplayFails, Commit, Broadcast, AnnounceNext, Announce,
        AnnounceDone, BackfillPush, BackfillAnnounce, BackfillDone, ServeDone, DataPush, PushFails

\* A step of the readers leaves the thread and the announcements alone.
LEMMA ThreadKept ==
    ASSUME ReaderRuns
    PROVE  UNCHANGED <<at, resume, physical_step, fails, writes, todo, job, targets, dest, written,
                       attempt, inflight, got, lost, told>>
BY DEF ReaderRuns, threadVars, pushVars, toldVars, Join, MemberJoined, Leave, MemberLeft, EntriesPurged, Subscribe,
       SubscribeFrom, Stage, StageLost, Release

\* The staging discipline of one reader.
Staged1(r) ==
    /\ stage[r] = "out" => ~has_subscribed[r]
    /\ stage[r] = "staging" => ~has_subscribed[r]
    /\ ~has_subscribed[r] => \A p \in Paths : sub_table[r][p] \in {"none", "staged"}
    /\ stage[r] \in {"out", "ready"} /\ ~has_subscribed[r] =>
           \A p \in Paths : sub_table[r][p] = "none"
    /\ Released(r) # {} => \A p \in Paths : sub_table[r][p] # "staged"
    /\ \A p \in Paths : sub_table[r][p] \in {"staged", "released"} =>
           since[r][p] = backfill_from[r]
Served1(r) == job.member = {r} => ~Backfilling(r) /\ has_subscribed[r]

\* Reader by reader.
LEMMA StagedSplit == StagedOnce <=> \A r \in Readers : Staged1(r) /\ Served1(r)
BY DEF StagedOnce, Staged1, Served1

\* A reader that stages has no other subscription, what it staged is released
\* at once, and no reader is served while it stages.
LEMMA StagedOnceStep == IInv /\ [Next]_vars => StagedOnce'
<1> SUFFICES ASSUME IInv, [Next]_vars, NEW q \in Readers PROVE Staged1(q)' /\ Served1(q)'
  BY DEF StagedOnce, Staged1, Served1
<1>a. TableTypes /\ ReaderTypes /\ SinceTypes /\ JobTypes /\ Staged1(q) /\ Served1(q) /\ ThreadInv
  BY StagedSplit DEF IInv, Types
<1>n. NoJob.member # {q}
  BY DEF NoJob
<1>k. UNCHANGED <<sub_table[q], backfill_from[q], stage[q], has_subscribed[q], since[q]>>
        => Staged1(q)'
  BY <1>a DEF Staged1, Released
<1>j. UNCHANGED <<sub_table[q], has_subscribed[q]>> /\ (job'.member = job.member \/ job' = NoJob)
        => Served1(q)'
  BY <1>a, <1>n DEF Served1, Backfilling
<1>1. ASSUME NEW r \in Readers, TakeBackfill(r) PROVE Staged1(q)' /\ Served1(q)'
  <2>1. job'.member = {r}
    BY <1>1 DEF TakeBackfill
  <2>2. CASE q # r
    <3>1. UNCHANGED <<sub_table[q], backfill_from[q], stage[q], has_subscribed[q], since[q]>>
      BY <1>a, <1>1, <2>2 DEF TakeBackfill, readerVars, TableTypes, SinceTypes
    <3> QED
      BY <3>1, <1>k, <2>1, <2>2 DEF Served1
  <2>3. CASE q = r
    <3>1. Released(q) # {} /\ sub_table' = [sub_table EXCEPT ![q] =
                       [p \in Paths |-> IF p \in Released(q) THEN "live" ELSE sub_table[q][p]]]
      BY <1>a, <1>1, <2>3 DEF TakeBackfill, TableTypes
    <3>2. \A p \in Paths : sub_table'[q][p] = IF p \in Released(q) THEN "live" ELSE sub_table[q][p]
      BY <1>a, <3>1 DEF TableTypes
    <3>3. \A p \in Paths : sub_table[q][p] # "staged"
      BY <1>a, <3>1 DEF Staged1
    <3>4. \A p \in Paths : sub_table'[q][p] \in {"none", "live"}
      BY <1>a, <3>2, <3>3 DEF TableTypes, SubStates, Released
    <3>5. has_subscribed[q]
      BY <1>a, <3>1 DEF Staged1, Released
    <3>6. UNCHANGED <<stage, has_subscribed>>
      BY <1>1 DEF TakeBackfill, readerVars
    <3> QED
      BY <1>a, <3>4, <3>5, <3>6, <2>1 DEF Staged1, Served1, Backfilling, Released
  <2> QED
    BY <2>2, <2>3
<1>2. CASE ~ReaderRuns /\ ~(\E r \in Readers : TakeBackfill(r))
  BY <1>2, <1>k, <1>j, TablesKept, JobEffect
<1>3. ASSUME NEW r \in Readers, q # r,
             \/ Join(r) \/ MemberJoined(r) \/ Leave(r) \/ MemberLeft(r) \/ EntriesPurged(r)
             \/ \E p \in Paths : Subscribe(r, p)
             \/ \E P \in SUBSET Paths, s \in StartSteps : SubscribeFrom(r, P, s)
             \/ \E p \in Paths : Stage(r, p) \/ StageLost(r, p)
             \/ Release(r)
      PROVE Staged1(q)' /\ Served1(q)'
  <2>1. UNCHANGED <<sub_table[q], backfill_from[q], stage[q], has_subscribed[q], since[q]>>
    BY <1>3, <1>a DEF Join, MemberJoined, Leave, MemberLeft, EntriesPurged, Subscribe, SubscribeFrom, Stage,
       StageLost, Release, TableTypes, ReaderTypes, SinceTypes, tableVars, readerVars
  <2>2. UNCHANGED job
    BY <1>3, ThreadKept DEF ReaderRuns
  <2> QED
    BY <2>1, <2>2, <1>k, <1>j
<1>4. ASSUME Join(q) PROVE Staged1(q)' /\ Served1(q)'
  <2>1. UNCHANGED <<sub_table[q], has_subscribed[q], since[q], backfill_from[q], job>>
        /\ stage[q] = "out" /\ stage'[q] = "ready"
    BY <1>4, <1>a DEF Join, ReaderTypes, threadVars, tableVars
  <2> QED
    BY <2>1, <1>a, <1>j DEF Staged1, Released
<1>5. ASSUME MemberJoined(q) PROVE Staged1(q)' /\ Served1(q)'
  <2>1. UNCHANGED <<sub_table, has_subscribed, stage, backfill_from, job>>
    BY <1>5 DEF MemberJoined, readerVars, threadVars
  <2>2. \A p \in Paths : sub_table[q][p] # "live" => since'[q][p] = since[q][p]
    BY <1>5, <1>a DEF MemberJoined, SinceTypes
  <2> QED
    BY <2>1, <2>2, <1>a, <1>j DEF Staged1, Released
<1>6. ASSUME Leave(q) PROVE Staged1(q)' /\ Served1(q)'
  <2>1. UNCHANGED <<sub_table[q], has_subscribed[q], since[q], backfill_from[q], job>>
        /\ stage'[q] = "gone"
    BY <1>6, <1>a DEF Leave, ReaderTypes, threadVars, tableVars
  <2> QED
    BY <2>1, <1>a, <1>j DEF Staged1, Released
<1>m. ASSUME MemberLeft(q) PROVE Staged1(q)' /\ Served1(q)'
  <2>1. UNCHANGED <<sub_table, has_subscribed, stage, backfill_from, job>>
    BY <1>m DEF MemberLeft, readerVars, threadVars
  <2>2. \A p \in Paths : sub_table[q][p] # "live" => since'[q][p] = since[q][p]
    BY <1>m, <1>a DEF MemberLeft, SinceTypes
  <2> QED
    BY <2>1, <2>2, <1>a, <1>j DEF Staged1, Released
<1>7. ASSUME EntriesPurged(q) PROVE Staged1(q)' /\ Served1(q)'
  <2>1. UNCHANGED <<has_subscribed, stage, backfill_from, job>> /\ stage[q] = "gone"
    BY <1>7 DEF EntriesPurged, readerVars, threadVars
  <2>2. \A p \in Paths : sub_table'[q][p] = "none"
    BY <1>7, <1>a DEF EntriesPurged, TableTypes
  <2> QED
    BY <2>1, <2>2, <1>a DEF Staged1, Served1, Released, Backfilling
<1>8. ASSUME NEW x \in Paths, Subscribe(q, x) PROVE Staged1(q)' /\ Served1(q)'
  <2>1. UNCHANGED <<stage, backfill_from, job>> /\ stage[q] = "ready" /\ has_subscribed'[q] = TRUE
    BY <1>8, <1>a DEF Subscribe, ReaderTypes, threadVars
  <2>2. CASE UNCHANGED <<sub_table, since>>
    BY <2>1, <2>2, <1>a DEF Staged1, Served1, Released, Backfilling
  <2>3. CASE ~UNCHANGED <<sub_table, since>>
    <3>1. sub_table[q][x] = "none" /\ sub_table' = [sub_table EXCEPT ![q][x] = "live"]
          /\ since' \in {since, [since EXCEPT ![q][x] = NextPushed]}
      BY <1>8, <2>3 DEF Subscribe
    <3>2. \A p \in Paths : IF p = x THEN sub_table'[q][p] = "live"
                           ELSE sub_table'[q][p] = sub_table[q][p] /\ since'[q][p] = since[q][p]
      BY <3>1, <1>a DEF TableTypes, SinceTypes
    <3> QED
      BY <2>1, <3>1, <3>2, <1>a DEF Staged1, Served1, Released, Backfilling
  <2> QED
    BY <2>2, <2>3
<1>9. ASSUME NEW P \in SUBSET Paths, NEW s \in StartSteps, SubscribeFrom(q, P, s)
      PROVE  Staged1(q)' /\ Served1(q)'
  <2>1. UNCHANGED <<sub_table, has_subscribed, since, job>> /\ stage[q] = "ready"
        /\ ~has_subscribed[q] /\ stage'[q] = "staging"
    BY <1>9, <1>a DEF SubscribeFrom, ReaderTypes, threadVars
  <2>2. \A p \in Paths : sub_table[q][p] = "none"
    BY <2>1, <1>a DEF Staged1
  <2> QED
    BY <2>1, <2>2, <1>j DEF Staged1, Released
<1>10. ASSUME NEW x \in Paths, Stage(q, x) PROVE Staged1(q)' /\ Served1(q)'
  <2>1. UNCHANGED <<has_subscribed, stage, backfill_from, job>> /\ stage[q] = "staging"
    BY <1>10 DEF Stage, threadVars
  <2>2. ~has_subscribed[q] /\ \A p \in Paths : sub_table[q][p] \in {"none", "staged"}
    BY <2>1, <1>a DEF Staged1
  <2>3. \A p \in Paths : IF p = x THEN sub_table'[q][p] = "staged" /\ since'[q][p] = backfill_from[q]
                         ELSE sub_table'[q][p] = sub_table[q][p] /\ since'[q][p] = since[q][p]
    BY <1>10, <1>a DEF Stage, TableTypes, SinceTypes
  <2> QED
    BY <2>1, <2>2, <2>3, <1>a DEF Staged1, Served1, Released
<1>11. ASSUME NEW x \in Paths, StageLost(q, x) PROVE Staged1(q)' /\ Served1(q)'
  BY <1>11, <1>k, <1>j DEF StageLost, threadVars, tableVars
<1>12. ASSUME Release(q) PROVE Staged1(q)' /\ Served1(q)'
  <2>1. UNCHANGED <<since, backfill_from, job>> /\ stage[q] = "staging" /\ stage'[q] = "ready"
        /\ has_subscribed'[q] = TRUE
    BY <1>12, <1>a DEF Release, threadVars, ReaderTypes
  <2>2. ~has_subscribed[q] /\ \A p \in Paths : sub_table[q][p] \in {"none", "staged"}
    BY <2>1, <1>a DEF Staged1
  <2>3. job.member # {q}
    BY <2>2, <1>a DEF Served1
  <2>4. \/ UNCHANGED sub_table
        \/ \A p \in Paths : sub_table'[q][p] =
                              IF sub_table[q][p] = "staged" THEN "released" ELSE sub_table[q][p]
    BY <1>12, <1>a DEF Release, TableTypes
  <2> QED
    BY <2>1, <2>2, <2>3, <2>4, <1>a DEF Staged1, Served1, Released
<1>13. CASE ReaderRuns
  BY <1>13, <1>3, <1>4, <1>5, <1>6, <1>m, <1>7, <1>8, <1>9, <1>10, <1>11, <1>12 DEF ReaderRuns
<1> QED
  BY <1>1, <1>2, <1>13

-----------------------------------------------------------------------------
(* How the entry of one reader and path changes.                           *)

\* A step of reader q, or the start of its backfill.
StepOf(q) ==
    \/ TakeBackfill(q) \/ Join(q) \/ MemberJoined(q) \/ Leave(q) \/ MemberLeft(q) \/ EntriesPurged(q)
    \/ \E p \in Paths : Subscribe(q, p)
    \/ \E P \in SUBSET Paths, s \in StartSteps : SubscribeFrom(q, P, s)
    \/ \E p \in Paths : Stage(q, p) \/ StageLost(q, p)
    \/ Release(q)

\* Everything kept about reader q, other than what it was told.
ReaderKept(q) ==
    /\ UNCHANGED <<sub_table[q], backfill_from[q], stage[q], has_subscribed[q], to_stage[q],
                   since[q], mark[q], stray[q], from[q]>>
    /\ q \in members' <=> q \in members

\* A step of one reader changes nothing that is kept about another.
LEMMA OtherReaders ==
    ASSUME IInv, NEW r \in Readers, NEW q \in Readers, r # q, StepOf(r)
    PROVE  ReaderKept(q)
<1>a. TableTypes /\ ReaderTypes /\ SinceTypes /\ FromTypes
  BY DEF IInv, Types
<1>1. UNCHANGED <<sub_table[q], backfill_from[q]>> /\ (q \in members' <=> q \in members)
  BY <1>a DEF StepOf, TakeBackfill, Join, MemberJoined, Leave, MemberLeft, EntriesPurged, Subscribe,
     SubscribeFrom, Stage, StageLost, Release, TableTypes, tableVars
<1>2. UNCHANGED <<stage[q], has_subscribed[q], to_stage[q]>>
  BY <1>a DEF StepOf, TakeBackfill, Join, MemberJoined, Leave, MemberLeft, EntriesPurged, Subscribe,
     SubscribeFrom, Stage, StageLost, Release, ReaderTypes, readerVars
<1>3. UNCHANGED <<since[q], mark[q], stray[q], from[q]>>
  BY <1>a DEF StepOf, TakeBackfill, Join, MemberJoined, Leave, MemberLeft, EntriesPurged, Subscribe,
     SubscribeFrom, Stage, StageLost, Release, SinceTypes, FromTypes, toldVars
<1> QED
  BY <1>1, <1>2, <1>3 DEF ReaderKept

\* Only a step of q changes what is kept about q.
LEMMA OthersKeep ==
    ASSUME IInv, [Next]_vars, NEW q \in Readers
    PROVE  StepOf(q) \/ ReaderKept(q)
<1>1. ASSUME NEW r \in Readers, r # q, StepOf(r) PROVE ReaderKept(q)
  BY <1>1, OtherReaders
<1>2. CASE ~ReaderRuns /\ ~(\E r \in Readers : TakeBackfill(r))
  BY <1>2, TablesKept DEF ReaderKept
<1>3. CASE ReaderRuns \/ \E r \in Readers : TakeBackfill(r)
  <2>1. \E r \in Readers : StepOf(r)
    BY <1>3 DEF ReaderRuns, StepOf
  <2> QED
    BY <2>1, <1>1
<1> QED
  BY <1>2, <1>3

\* The entry of reader q and path x, across one step.
EntryEffect(q, x) ==
    \/ ReaderKept(q)
    \/ /\ TakeBackfill(q)                  \* released entries go live
       /\ sub_table'[q][x] = IF sub_table[q][x] = "released" THEN "live" ELSE sub_table[q][x]
       /\ since'[q][x] = IF q \in members THEN since[q][x] ELSE Never
       /\ UNCHANGED <<members, mark>>
    \/ /\ MemberJoined(q)                  \* promises start with the address
       /\ UNCHANGED <<sub_table, mark>> /\ q \in members'
       /\ since'[q][x] = IF sub_table[q][x] = "live" THEN NextPushed ELSE since[q][x]
    \/ /\ MemberLeft(q)                    \* and end with it
       /\ UNCHANGED <<sub_table, mark>> /\ q \notin members'
       /\ since'[q][x] = IF sub_table[q][x] = "live" THEN Never ELSE since[q][x]
    \/ /\ EntriesPurged(q)
       /\ sub_table'[q][x] = "none" /\ since'[q][x] = Never
       /\ q \notin members /\ UNCHANGED <<members, mark>>
    \/ /\ Subscribe(q, x)                  \* a plain subscription
       /\ sub_table[q][x] = "none" /\ sub_table'[q][x] = "live"
       /\ since'[q][x] = IF q \in members THEN NextPushed ELSE since[q][x]
       /\ UNCHANGED <<members, mark>>
    \/ /\ Stage(q, x)
       /\ sub_table'[q][x] = "staged" /\ UNCHANGED members
    \/ /\ UNCHANGED <<sub_table[q][x], since[q][x], members>>
       /\ UNCHANGED mark \/ \E p \in Paths : Stage(q, p)
    \/ /\ Release(q) /\ sub_table[q][x] = "staged" /\ sub_table'[q][x] = "released"
       /\ UNCHANGED <<since, members, mark>>

\* Every step does one of these things to an entry of the table.
LEMMA EntryChanges ==
    ASSUME IInv, [Next]_vars, NEW q \in Readers, NEW x \in Paths
    PROVE  EntryEffect(q, x)
<1>a. TableTypes /\ SinceTypes /\ FromTypes
  BY DEF IInv, Types
<1> USE DEF EntryEffect
<1>0. CASE ReaderKept(q)
  BY <1>0
<1>1. CASE TakeBackfill(q)
  <2>1. sub_table'[q][x] = IF sub_table[q][x] = "released" THEN "live" ELSE sub_table[q][x]
    BY <1>1, <1>a DEF TakeBackfill, TableTypes, Released
  <2>2. since'[q][x] = IF q \in members THEN since[q][x] ELSE Never
    BY <1>1, <1>a DEF TakeBackfill, SinceTypes
  <2> QED
    BY <1>1, <2>1, <2>2 DEF TakeBackfill
<1>2. CASE Join(q) \/ Leave(q)
  BY <1>2 DEF Join, Leave, tableVars, toldVars
<1>3. CASE MemberJoined(q)
  BY <1>3, <1>a DEF MemberJoined, SinceTypes
<1>4. CASE MemberLeft(q) \/ EntriesPurged(q)
  BY <1>4, <1>a DEF MemberLeft, EntriesPurged, SinceTypes, TableTypes, toldVars
<1>5. ASSUME NEW p \in Paths, Subscribe(q, p) PROVE EntryEffect(q, x)
  <2>1. CASE p = x
    BY <1>5, <2>1, <1>a DEF Subscribe, SinceTypes, TableTypes, toldVars
  <2>2. CASE p # x
    BY <1>5, <2>2, <1>a DEF Subscribe, SinceTypes, TableTypes, toldVars
  <2> QED
    BY <2>1, <2>2
<1>6. ASSUME NEW P \in SUBSET Paths, NEW s \in StartSteps, SubscribeFrom(q, P, s)
      PROVE  EntryEffect(q, x)
  BY <1>6 DEF SubscribeFrom, toldVars
<1>7. ASSUME NEW p \in Paths, Stage(q, p) PROVE EntryEffect(q, x)
  <2>1. CASE p = x
    BY <1>7, <2>1, <1>a DEF Stage, SinceTypes, TableTypes
  <2>2. CASE p # x
    BY <1>7, <2>2, <1>a DEF Stage, SinceTypes, TableTypes
  <2> QED
    BY <2>1, <2>2
<1>8. ASSUME NEW p \in Paths, StageLost(q, p) PROVE EntryEffect(q, x)
  BY <1>8 DEF StageLost, tableVars, toldVars
<1>9. CASE Release(q)
  <2>1. UNCHANGED <<since, members, mark>>
    BY <1>9 DEF Release, toldVars
  <2>2. \/ UNCHANGED sub_table[q][x]
        \/ sub_table[q][x] = "staged" /\ sub_table'[q][x] = "released"
    BY <1>9, <1>a DEF Release, TableTypes
  <2> QED
    BY <1>9, <2>1, <2>2
<1> QED
  BY <1>0, <1>1, <1>2, <1>3, <1>4, <1>5, <1>6, <1>7, <1>8, <1>9, OthersKeep DEF StepOf

\* An entry without an address, or no entry: no step is promised.
LEMMA PromisedInvStep == IInv /\ [Next]_vars => PromisedInv'
<1> SUFFICES ASSUME IInv, [Next]_vars, NEW q \in Readers, NEW x \in Paths,
                    sub_table'[q][x] = "none" \/ (sub_table'[q][x] = "live" /\ q \notin members')
             PROVE  since'[q][x] = Never
  BY DEF PromisedInv
<1>1. (sub_table[q][x] = "none" \/ (sub_table[q][x] = "live" /\ q \notin members))
         => since[q][x] = Never
  BY DEF IInv, PromisedInv
<1> QED
  BY <1>1, EntryChanges DEF EntryEffect, ReaderKept

\* An entry goes live, or is promised more, only from the steps still to be
\* pushed on, apart from the entries that a backfill takes.
LEMMA LiveEffect ==
    ASSUME IInv, [Next]_vars, NEW q \in Readers, NEW x \in Paths
    PROVE  /\ sub_table'[q][x] = "live" =>
                \/ sub_table[q][x] = "live" /\ since'[q][x] = since[q][x]
                \/ since'[q][x] >= NextPushed
                \/ TakeBackfill(q) /\ sub_table[q][x] = "released" /\ since'[q][x] = since[q][x]
           /\ \/ since'[q][x] = since[q][x]
              \/ since'[q][x] >= NextPushed
              \/ Stage(q, x)
<1>1. NextPushed \in Nat /\ Never \in Nat /\ Never >= NextPushed
  BY ConstantFacts DEF IInv, Types, ThreadTypes, NextPushed, Steps, Never
<1>2. (sub_table[q][x] = "none" \/ (sub_table[q][x] = "live" /\ q \notin members))
         => since[q][x] = Never
  BY DEF IInv, PromisedInv
<1> QED
  BY <1>1, <1>2, EntryChanges DEF EntryEffect, ReaderKept

\* A reader starts to wait for a backfill only by staging, and mark moves only
\* then.
LEMMA WaitsEffect ==
    ASSUME IInv, [Next]_vars, NEW q \in Readers, ~(\E p \in Paths : Stage(q, p))
    PROVE  /\ Backfilling(q)' => Backfilling(q)
           /\ mark'[q] = mark[q] /\ stray'[q] = stray[q]
           /\ TakeBackfill(q) \/ EntriesPurged(q) \/ (Backfilling(q) => Backfilling(q)')
<1>1. \A x \in Paths : EntryEffect(q, x)
  BY EntryChanges
<1>2. \A x \in Paths : sub_table'[q][x] \in {"staged", "released"} =>
                          sub_table[q][x] \in {"staged", "released"}
  BY <1>1 DEF EntryEffect, ReaderKept
<1>3. mark'[q] = mark[q] /\ stray'[q] = stray[q]
  <2>1. CASE ReaderKept(q)
    BY <2>1 DEF ReaderKept
  <2>2. CASE StepOf(q)
    BY <2>2 DEF StepOf, TakeBackfill, Join, MemberJoined, Leave, MemberLeft, EntriesPurged, Subscribe,
       SubscribeFrom, StageLost, Release, toldVars
  <2> QED
    BY <2>1, <2>2, OthersKeep
<1>4. TakeBackfill(q) \/ EntriesPurged(q) \/
        \A x \in Paths : sub_table[q][x] \in {"staged", "released"} =>
                           sub_table'[q][x] \in {"staged", "released"}
  BY <1>1 DEF EntryEffect, ReaderKept
<1> QED
  BY <1>2, <1>3, <1>4 DEF Backfilling

\* The destination of a broadcast's forward.
LEMMA DestEffect ==
    ASSUME [Next]_vars
    PROVE  \/ UNCHANGED dest
           \/ Announce /\ dest' = {}
           \/ \E r \in Readers : AnnounceNext(r) /\ dest' = {r} /\ ~Backfilling(r) /\ r \in members
                                 /\ r \in targets
<1>1. ASSUME NEW r \in Readers, AnnounceNext(r)
      PROVE  \/ UNCHANGED dest
             \/ dest' = {r} /\ ~Backfilling(r) /\ r \in members /\ r \in targets
  BY <1>1 DEF AnnounceNext
<1>2. CASE ~Announce /\ ~(\E r \in Readers : AnnounceNext(r))
  BY <1>2, ThreadSteps DEF ThreadStep, WriterRuns, threadVars, BeginStep, EndStep,
    FileClose, ReplayWrite, ReplayFails, Commit, Broadcast, TakeBackfill, BackfillPush,
    BackfillAnnounce, BackfillDone, AnnounceDone, ServeDone
<1> QED
  BY <1>1, <1>2 DEF Announce

\* A reader that waits for its backfill is told nothing.
LEMMA UnannouncedStep == IInv /\ [Next]_vars => Unannounced'
<1> SUFFICES ASSUME IInv, [Next]_vars, NEW q \in Readers, Backfilling(q)'
             PROVE  mark'[q] = Len(told'[q]) + Pending(q)'
  BY DEF Unannounced
<1>a. ToldTypes /\ FromTypes /\ ThreadInv /\ TableTypes
  BY DEF IInv, Types
<1>b. Backfilling(q) => mark[q] = Len(told[q]) + Pending(q)
  BY DEF IInv, Unannounced
<1>c. job.member = {q} => ~Backfilling(q)
  BY DEF IInv, StagedOnce
<1>d. told \in [Readers -> Seq(0 .. physical_step - 1)]
  BY <1>a DEF ToldTypes
<1>1. ASSUME NEW p \in Paths, Stage(q, p) PROVE mark'[q] = Len(told'[q]) + Pending(q)'
  <2>1. UNCHANGED <<told, dest>>
    BY <1>1 DEF Stage, threadVars
  <2>2. CASE Backfilling(q)
    BY <1>1, <1>b, <2>1, <2>2 DEF Stage, Pending
  <2>3. CASE ~Backfilling(q)
    <3>1. mark'[q] = Len(told[q]) + Cardinality(dest \cap {q})
      BY <1>1, <1>a, <2>3 DEF Stage, FromTypes
    <3>2. CASE q \in dest
      <4>1. dest \cap {q} = {q}
        BY <3>2
      <4>2. Cardinality({q}) = 1
        BY FS_Singleton
      <4> QED
        BY <2>1, <3>1, <3>2, <4>1, <4>2 DEF Pending
    <3>3. CASE q \notin dest
      <4>1. dest \cap {q} = {}
        BY <3>3
      <4>2. Cardinality({}) = 0
        BY FS_EmptySet
      <4> QED
        BY <2>1, <3>1, <3>3, <4>1, <4>2 DEF Pending
    <3> QED
      BY <3>2, <3>3
  <2> QED
    BY <2>2, <2>3
<1>2. CASE ~(\E p \in Paths : Stage(q, p))
  <2>1. Backfilling(q) /\ mark'[q] = mark[q] /\ mark[q] = Len(told[q]) + Pending(q)
    BY <1>2, WaitsEffect, <1>b
  <2>2. CASE Announce
    <3>1. PICK r \in Readers : dest = {r}
      BY <2>2, <1>a DEF Announce, ThreadInv
    <3>2. dest' = {} /\ told' = [told EXCEPT ![r] = Append(@, physical_step - 1)]
      BY <2>2, <3>1 DEF Announce, StepReady
    <3>3. CASE q = r
      <4>1. physical_step - 1 \in 0 .. physical_step - 1
        BY <2>2, <1>a, ConstantFacts DEF Announce, ThreadInv, IInv, Types, ThreadTypes
      <4>2. told'[q] = Append(told[q], physical_step - 1)
        BY <3>2, <3>3, <1>d
      <4>3. Len(told'[q]) = Len(told[q]) + 1
        BY <4>1, <4>2, <1>d
      <4> QED
        BY <2>1, <4>3, <3>1, <3>2, <3>3, <1>d DEF Pending
    <3>4. CASE q # r
      BY <2>1, <3>1, <3>2, <3>4, <1>d DEF Pending
    <3> QED
      BY <3>3, <3>4
  <2>3. CASE ~Announce
    <3>1. q \in dest' <=> q \in dest
      <4>1. CASE UNCHANGED dest
        BY <4>1
      <4>2. ASSUME NEW r \in Readers, dest' = {r}, ~Backfilling(r), AnnounceNext(r) PROVE q \in dest' <=> q \in dest
        <5>1. r # q /\ at = "announce"
          BY <4>2, <2>1 DEF AnnounceNext
        <5>2. dest = {}
          BY <5>1, <1>a DEF ThreadInv
        <5> QED
          BY <5>1, <5>2, <4>2
      <4> QED
        BY <4>1, <4>2, <2>3, DestEffect
    <3>2. told'[q] = told[q]
      <4>1. CASE UNCHANGED told
        BY <4>1
      <4>2. ASSUME NEW r \in Readers, NEW n \in Nat, told' = [told EXCEPT ![r] = Append(@, n)],
                   job.member = {r}
            PROVE  told'[q] = told[q]
        BY <4>2, <1>c, <2>1, <1>d
      <4> QED
        BY <4>1, <4>2, <2>3, ToldEffect
    <3> QED
      BY <2>1, <3>1, <3>2 DEF Pending
  <2> QED
    BY <2>2, <2>3
<1> QED
  BY <1>1, <1>2

-----------------------------------------------------------------------------
(* The pushes that are due have been issued.                               *)

\* A push that was issued stays known to the writer: in flight, arrived or
\* lost.
LEMMA IssuedStays ==
    ASSUME [Next]_vars
    PROVE  (inflight \cup got \cup lost) \subseteq (inflight' \cup got' \cup lost')
<1>1. CASE PushCompletes
  BY <1>1 DEF PushCompletes, DataPush, PushFails
<1>2. CASE \E p \in Paths : ReplayWrite(p)
  BY <1>2 DEF ReplayWrite
<1>3. CASE BackfillPush
  BY <1>3 DEF BackfillPush
<1>4. CASE ~PushCompletes /\ ~BackfillPush /\ ~(\E p \in Paths : ReplayWrite(p))
  <2>1. UNCHANGED pushVars
    BY <1>4 DEF Next, WriterRuns, ReaderRuns, Closed, vars, BeginStep,
        EndStep, FileClose, ReplayFails, Commit, Broadcast, AnnounceNext, Announce,
        AnnounceDone, TakeBackfill, BackfillAnnounce, BackfillDone, ServeDone,
        Join, MemberJoined, Leave, MemberLeft, EntriesPurged,
        Subscribe, SubscribeFrom, Stage, StageLost, Release
  <2> QED
    BY <2>1 DEF pushVars
<1> QED
  BY <1>1, <1>2, <1>3, <1>4

\* What the replay pushes: its write of p, to each live subscriber of p.
LEMMA ReplayPushes ==
    ASSUME NEW p \in Paths, ReplayWrite(p), NEW q \in Readers, q \in members,
           sub_table[q][p] = "live"
    PROVE  [to |-> q, step |-> physical_step, path |-> p, try |-> fails] \in inflight'
BY DEF ReplayWrite, Pushes, PushTargets

\* What the backfill pushes for step job.k.
LEMMA BackfillPushes ==
    ASSUME BackfillPush, NEW q \in Readers, q \in members, job.member = {q},
           NEW p \in Paths, p \in job.paths, p \in written[job.k], sub_table[q][p] = "live"
    PROVE  [to |-> q, step |-> job.k, path |-> p, try |-> attempt[job.k]] \in inflight'
<1> DEFINE e == [to |-> q, step |-> job.k, path |-> p, try |-> fails]
           f == [to |-> q, step |-> job.k, path |-> p, try |-> attempt[job.k]]
<1>1. e \in Pushes(job.k, p, job.member)
  BY DEF Pushes, PushTargets
<1>2. f = [e EXCEPT !.try = attempt[job.k]]
  OBVIOUS
<1> HIDE DEF e, f
<1>3. f \in {[d EXCEPT !.try = attempt[job.k]] : d \in Pushes(job.k, p, job.member)}
  BY <1>1, <1>2
<1>4. f \in UNION {{[d EXCEPT !.try = attempt[job.k]] : d \in Pushes(job.k, y, job.member)} :
                    y \in job.paths \cap written[job.k]}
  BY <1>3
<1> QED
  BY <1>4 DEF BackfillPush, f

\* Every push of a committed step that is due has been issued.
LEMMA CommittedIssuedStep == IInv /\ [Next]_vars => CommittedIssued'
<1> SUFFICES ASSUME IInv, [Next]_vars, NEW q \in Readers, NEW x \in Paths, NEW n \in Steps,
                    n < physical_step', Due(q, x, n)', x \in written'[n]
             PROVE  [to |-> q, step |-> n, path |-> x, try |-> attempt'[n]]
                       \in inflight' \cup got' \cup lost'
  BY DEF CommittedIssued, Issued
<1>a. TableTypes /\ SinceTypes /\ ThreadTypes /\ CommitTypes /\ JobTypes /\ ThreadInv
      /\ ThreadTypes' /\ SinceTypes' /\ JobTypes'
  BY TypesStep DEF IInv, Types
<1>b. n < physical_step /\ Due(q, x, n) /\ x \in written[n] =>
         [to |-> q, step |-> n, path |-> x, try |-> attempt[n]] \in inflight \cup got \cup lost
  BY DEF IInv, CommittedIssued, Issued
<1>c. n \in Nat /\ physical_step \in Nat /\ since[q][x] \in Nat /\ since'[q][x] \in Nat
      /\ job.k \in Nat /\ job'.k \in Nat
  BY <1>a, ConstantFacts DEF ThreadTypes, SinceTypes, JobTypes
<1>d. sub_table'[q][x] = "live" /\ since'[q][x] <= n
  BY DEF Due
<1>e. NoJob.member # {q}
  BY DEF NoJob
<1>f. job'.member = {q} /\ x \in job'.paths => (n < job'.k \/ (n = job'.k /\ job'.pushed))
  BY DEF Due
<1>1. CASE Commit
  <2>1. UNCHANGED <<sub_table, since, job>> /\ at = "replay" /\ todo = {} /\ job = NoJob
    BY <1>1, <1>a DEF Commit, tableVars, ThreadInv
  <2>2. CASE n = physical_step
    <3>1. written'[n] = writes /\ attempt'[n] = fails
      BY <1>1, <1>a, <2>2 DEF Commit, CommitTypes
    <3>2. [to |-> q, step |-> physical_step, path |-> x, try |-> fails] \in inflight \cup got \cup lost
      BY <2>1, <2>2, <3>1, <1>d DEF IInv, ReplayIssued, Issued
    <3> QED
      BY <3>1, <3>2, <2>2, IssuedStays
  <2>3. CASE n # physical_step
    <3>1. written'[n] = written[n] /\ attempt'[n] = attempt[n] /\ n < physical_step
      BY <1>1, <1>a, <1>c, <2>3 DEF Commit, CommitTypes
    <3>2. Due(q, x, n)
      BY <2>1, <1>d, <1>e DEF Due
    <3> QED
      BY <3>1, <3>2, <1>b, IssuedStays
  <2> QED
    BY <2>2, <2>3
<1>2. CASE ~Commit
  <2>1. UNCHANGED <<written, attempt, physical_step>>
    BY <1>2, OnlyCommit
  <2>2. SUFFICES ASSUME ~Due(q, x, n)
                 PROVE  [to |-> q, step |-> n, path |-> x, try |-> attempt[n]]
                            \in inflight' \cup got' \cup lost'
    BY <2>1, <1>b, IssuedStays
  <2>3. n < physical_step /\ ~(since'[q][x] >= NextPushed)
    BY <2>1, <1>c, <1>d, NextPushedType DEF IInv
  <2>4. ASSUME TakeBackfill(q) PROVE FALSE
    <3>1. job' = [member |-> {q}, paths |-> Released(q), k |-> backfill_from[q], pushed |-> FALSE]
          /\ job = NoJob
      BY <2>4, <1>a DEF TakeBackfill, ThreadInv
    <3>2. CASE sub_table[q][x] = "released"
      <4>1. x \in Released(q)
        BY <3>2 DEF Released
      <4>2. n < backfill_from[q]
        BY <3>1, <4>1, <1>f
      <4>3. since[q][x] = backfill_from[q]
        BY <3>2 DEF IInv, StagedOnce
      <4>4. since'[q][x] = since[q][x] \/ since'[q][x] >= NextPushed
        BY <2>4, LiveEffect DEF TakeBackfill, Stage, readerVars, threadVars
      <4> QED
        BY <4>2, <4>3, <4>4, <2>3, <1>c, <1>d
    <3>3. CASE sub_table[q][x] # "released"
      BY <3>1, <3>3, <1>d, <1>e, <2>2, <2>3, LiveEffect DEF Due
    <3> QED
      BY <3>2, <3>3
  <2>5. sub_table[q][x] = "live" /\ since[q][x] <= n
    BY <2>3, <2>4, <1>d, LiveEffect
  <2>6. job.member = {q} /\ x \in job.paths /\ ~(n < job.k \/ (n = job.k /\ job.pushed))
    BY <2>2, <2>5 DEF Due
  <2>7. at = "job"
    BY <2>6, <1>a, <1>e DEF ThreadInv
  <2>8. CASE BackfillPush
    <3>1. job'.k = job.k /\ job'.member = job.member /\ job'.paths = job.paths
      BY <2>8, <1>a DEF BackfillPush, JobTypes
    <3>2. n = job.k
      BY <3>1, <2>6, <1>f
    <3>3. q \in members
      <4>1. since[q][x] # Never
        BY <2>5, <1>c, ConstantFacts
      <4> QED
        BY <4>1, <2>5 DEF IInv, PromisedInv
    <3> QED
      BY <2>8, <3>2, <3>3, <2>1, <2>5, <2>6, BackfillPushes
  <2>9. CASE BackfillAnnounce
    <3>1. job'.k = job.k + 1 /\ job'.member = job.member /\ job'.paths = job.paths /\ job'.pushed = FALSE
      BY <2>9, <1>a DEF BackfillAnnounce, JobTypes
    <3>2. job.pushed
      BY <2>9 DEF BackfillAnnounce
    <3> QED
      BY <3>1, <3>2, <2>6, <1>f, <1>c
  <2>10. CASE BackfillDone
    BY <2>10, <2>6, <2>3, <1>c DEF BackfillDone, BackfillEnds
  <2>11. CASE ~BackfillPush /\ ~BackfillAnnounce /\ ~BackfillDone
    <3>1. ~(\E r \in Readers : TakeBackfill(r))
      BY <2>7 DEF TakeBackfill
    <3>2. UNCHANGED job
      BY <2>11, <3>1, ThreadSteps DEF ThreadStep, WriterRuns, threadVars, BeginStep,
        EndStep, FileClose, ReplayWrite, ReplayFails, Commit, Broadcast, AnnounceNext,
        Announce, AnnounceDone, ServeDone
    <3> QED
      BY <3>2, <2>6, <1>f
  <2> QED
    BY <2>8, <2>9, <2>10, <2>11
<1> QED
  BY <1>1, <1>2

\* Within a replay, the writes that it has reached have been pushed to every
\* subscriber they are due to.
LEMMA ReplayIssuedStep == IInv /\ [Next]_vars => ReplayIssued'
<1> SUFFICES ASSUME IInv, [Next]_vars, at' = "replay", NEW q \in Readers, NEW x \in writes' \ todo',
                    sub_table'[q][x] = "live", since'[q][x] <= physical_step'
             PROVE  [to |-> q, step |-> physical_step', path |-> x, try |-> fails']
                       \in inflight' \cup got' \cup lost'
  BY DEF ReplayIssued, Issued
<1>a. ThreadTypes /\ SinceTypes /\ ThreadInv /\ ThreadTypes' /\ ThreadInv' /\ SinceTypes'
  BY TypesStep, ThreadInvStep DEF IInv, Types
<1>b. x \in Paths /\ physical_step \in Nat /\ since[q][x] \in Nat /\ since'[q][x] \in Nat
  BY <1>a, ConstantFacts DEF ThreadTypes, SinceTypes
<1>1. at = "replay"
  <2>1. CASE ServeDone
    <3>1. writes' = writes /\ todo' = todo /\ todo = writes
      BY <2>1, <1>a DEF ServeDone, ThreadInv
    <3> QED
      BY <3>1
  <2>2. CASE ~ServeDone
    BY <2>2, ThreadSteps DEF ThreadStep, WriterRuns, threadVars, BeginStep, EndStep,
      FileClose, ReplayWrite, ReplayFails, Commit, Broadcast, AnnounceNext, Announce,
      AnnounceDone, TakeBackfill, BackfillPush, BackfillAnnounce, BackfillDone
  <2> QED
    BY <2>1, <2>2
<1>2. UNCHANGED <<physical_step, fails, writes>>
  BY <1>1, ThreadSteps DEF ThreadStep, WriterRuns, threadVars, BeginStep, EndStep,
    FileClose, ReplayWrite, ReplayFails, Commit, Broadcast, AnnounceNext, Announce,
    AnnounceDone, TakeBackfill, BackfillPush, BackfillAnnounce, BackfillDone, ServeDone
<1>3. sub_table[q][x] = "live" /\ since[q][x] <= physical_step
  <2>1. NextPushed = physical_step + 1
    BY <1>1 DEF NextPushed
  <2>2. ~TakeBackfill(q)
    BY <1>1 DEF TakeBackfill
  <2> QED
    BY <2>1, <2>2, <1>b, <1>2, LiveEffect
<1>4. CASE x \notin todo
  <2>1. [to |-> q, step |-> physical_step, path |-> x, try |-> fails] \in inflight \cup got \cup lost
    BY <1>1, <1>2, <1>3, <1>4 DEF IInv, ReplayIssued, Issued
  <2> QED
    BY <2>1, <1>2, IssuedStays
<1>5. CASE x \in todo
  <2>1. ReplayWrite(x)
    BY <1>1, <1>5, ThreadSteps DEF ThreadStep, WriterRuns, threadVars, BeginStep, EndStep,
      FileClose, ReplayWrite, ReplayFails, Commit, Broadcast, AnnounceNext, Announce,
      AnnounceDone, TakeBackfill, BackfillPush, BackfillAnnounce, BackfillDone, ServeDone
  <2>2. q \in members
    <3>1. since[q][x] # Never
      BY <1>3, <1>b, <1>a, ConstantFacts DEF ThreadTypes
    <3> QED
      BY <3>1, <1>3, <1>b DEF IInv, PromisedInv
  <2> QED
    BY <2>1, <2>2, <1>2, <1>3, <1>b, ReplayPushes
<1> QED
  BY <1>4, <1>5

-----------------------------------------------------------------------------
(* Announcements.                                                          *)

\* A push that arrived or was lost stays so.
LEMMA SettledStays ==
    ASSUME [Next]_vars
    PROVE  (got \cup lost) \subseteq (got' \cup lost')
BY DEF Next, WriterRuns, PushCompletes, ReaderRuns, Closed, vars, pushVars, BeginStep,
        EndStep, FileClose, ReplayWrite, ReplayFails, Commit, Broadcast, AnnounceNext,
        Announce, AnnounceDone, TakeBackfill, BackfillPush, BackfillAnnounce, BackfillDone,
        ServeDone, DataPush, PushFails, Join, MemberJoined, Leave,
        MemberLeft, EntriesPurged, Subscribe, SubscribeFrom, Stage, StageLost, Release

\* What was written at a committed step, and by which attempt, stays.
LEMMA CommittedKept ==
    ASSUME IInv, [Next]_vars, NEW n \in Nat, n < physical_step
    PROVE  written'[n] = written[n] /\ attempt'[n] = attempt[n]
<1>a. CommitTypes /\ ThreadTypes /\ n \in Steps /\ n # physical_step
  BY ConstantFacts DEF IInv, Types, ThreadTypes, Steps
<1>1. CASE Commit
  BY <1>1, <1>a DEF Commit, CommitTypes
<1>2. CASE ~Commit
  BY <1>2, OnlyCommit
<1> QED
  BY <1>1, <1>2

\* The data of a step that is announced to a member waiting for no backfill
\* has settled: the pushes due were issued, and none is in flight.
LEMMA DataSettled ==
    ASSUME IInv, NEW r \in Readers, NEW p \in Paths, NEW n \in Nat, n < physical_step,
           inflight = {}, ~Backfilling(r), since[r][p] <= n, p \in written[n],
           job.member = {r} => n = job.k /\ job.pushed
    PROVE  [to |-> r, step |-> n, path |-> p, try |-> attempt[n]] \in got \cup lost
<1>1. n \in Steps /\ since[r][p] \in Nat
  BY ConstantFacts DEF IInv, Types, ThreadTypes, SinceTypes, Steps
<1>2. sub_table[r][p] = "live"
  <2>1. sub_table[r][p] \in {"none", "live"}
    BY DEF IInv, Types, TableTypes, SubStates, Backfilling
  <2>2. since[r][p] # Never
    BY <1>1, ConstantFacts
  <2> QED
    BY <2>1, <2>2 DEF IInv, PromisedInv
<1>3. Due(r, p, n)
  BY <1>2 DEF Due
<1> QED
  BY <1>1, <1>3 DEF IInv, CommittedIssued, Issued

\* The positions of what a reader was told, one announcement later.
LEMMA ToldPositions ==
    ASSUME NEW S, NEW s \in Seq(S), NEW n \in S
    PROVE  /\ Len(Append(s, n)) = Len(s) + 1
           /\ \A i \in Nat : (0 < i /\ i <= Len(s)) => Append(s, n)[i] = s[i]
           /\ Append(s, n)[Len(s) + 1] = n
BY AppendProperties

\* A reader is told of a step only after its data has settled.
LEMMA ToldInvStep == IInv /\ [Next]_vars => ToldInv'
<1> SUFFICES ASSUME IInv, [Next]_vars, NEW q \in Readers, NEW x \in Paths, NEW i \in Nat,
                    mark'[q] < i, i <= Len(told'[q]), since'[q][x] <= told'[q][i],
                    x \in written'[told'[q][i]]
             PROVE  [to |-> q, step |-> told'[q][i], path |-> x, try |-> attempt'[told'[q][i]]]
                       \in got' \cup lost'
  BY DEF ToldInv
<1>a. ToldTypes /\ FromTypes /\ SinceTypes /\ ThreadTypes /\ ThreadInv /\ JobTypes
      /\ SinceTypes' /\ FromTypes' /\ physical_step \in Nat
  BY TypesStep, ConstantFacts DEF IInv, Types, ThreadTypes
<1>b. (mark[q] < i /\ i <= Len(told[q]) /\ since[q][x] <= told[q][i] /\ x \in written[told[q][i]])
        => [to |-> q, step |-> told[q][i], path |-> x, try |-> attempt[told[q][i]]] \in got \cup lost
  BY DEF IInv, ToldInv
<1>c. mark[q] \in Nat /\ mark'[q] \in Nat /\ since[q][x] \in Nat /\ since'[q][x] \in Nat
  BY <1>a DEF FromTypes, SinceTypes
<1>d. told[q] \in Seq(0 .. physical_step - 1)
  BY <1>a DEF ToldTypes
<1>e. \A j \in 1 .. Len(told[q]) : told[q][j] \in Nat /\ told[q][j] < physical_step
  BY <1>d, <1>a
\* Staging moves mark past everything told so far.
<1>1. ASSUME NEW p \in Paths, Stage(q, p) PROVE FALSE
  <2>1. UNCHANGED told
    BY <1>1 DEF Stage
  <2>2. CASE Backfilling(q)
    <3>1. mark'[q] = mark[q] /\ mark[q] = Len(told[q]) + Pending(q)
      BY <1>1, <2>2 DEF Stage, IInv, Unannounced
    <3>2. Len(told[q]) \in Nat /\ Pending(q) \in Nat
      BY <1>d DEF Pending
    <3>3. i <= Len(told[q])
      BY <2>1
    <3> QED
      BY <3>1, <3>2, <3>3, <1>c
  <2>3. CASE ~Backfilling(q)
    <3>1. mark'[q] = Len(told[q]) + Cardinality(dest \cap {q})
      BY <1>1, <1>a, <2>3 DEF Stage, FromTypes
    <3>2. Cardinality(dest \cap {q}) \in Nat
      BY CountOne
    <3> QED
      BY <2>1, <3>1, <3>2, <1>d
  <2> QED
    BY <2>2, <2>3
<1>2. mark'[q] = mark[q]
  BY <1>1, WaitsEffect
<1>3. \A n \in Nat : n < physical_step /\ since'[q][x] <= n => since[q][x] <= n
  <2> SUFFICES ASSUME NEW n \in Nat, n < physical_step, since'[q][x] <= n PROVE since[q][x] <= n
    OBVIOUS
  <2>1. ~(since'[q][x] >= NextPushed)
    BY <1>a, <1>c, NextPushedType DEF IInv
  <2> QED
    BY <2>1, <1>1, LiveEffect
\* What was told before ...
<1>4. CASE i <= Len(told[q]) /\ told'[q][i] = told[q][i]
  <2>1. i \in 1 .. Len(told[q])
    BY <1>4, <1>2, <1>c, <1>d
  <2>2. told[q][i] \in Nat /\ told[q][i] < physical_step
    BY <2>1, <1>e
  <2>3. written'[told[q][i]] = written[told[q][i]] /\ attempt'[told[q][i]] = attempt[told[q][i]]
    BY <2>2, CommittedKept
  <2> QED
    BY <1>4, <1>2, <1>3, <2>2, <2>3, <1>b, SettledStays
\* ... and what is told in this step.
<1>5. ASSUME NEW n \in Nat, n < physical_step, told'[q] = Append(told[q], n),
             inflight = {}, ~Backfilling(q), job.member = {q} => n = job.k /\ job.pushed
      PROVE  [to |-> q, step |-> told'[q][i], path |-> x, try |-> attempt'[told'[q][i]]]
                       \in got' \cup lost'
  <2>0. n \in 0 .. physical_step - 1
    BY <1>5, <1>a
  <2>1. CASE i = Len(told[q]) + 1
    <3>1. told'[q][i] = n
      BY <2>0, <2>1, <1>5, <1>d, ToldPositions
    <3>2. written'[n] = written[n] /\ attempt'[n] = attempt[n]
      BY <1>5, CommittedKept
    <3>3. since[q][x] <= n
      BY <1>3, <1>5, <3>1
    <3>4. [to |-> q, step |-> n, path |-> x, try |-> attempt[n]] \in got \cup lost
      BY <3>1, <3>2, <3>3, <1>5, DataSettled
    <3> QED
      BY <3>1, <3>2, <3>4, SettledStays
  <2>2. CASE i # Len(told[q]) + 1
    <3>1. Len(told'[q]) = Len(told[q]) + 1 /\ Len(told[q]) \in Nat
      BY <2>0, <1>5, <1>d, ToldPositions
    <3>2. i <= Len(told[q]) /\ 0 < i
      BY <3>1, <2>2, <1>2, <1>c
    <3>3. told'[q][i] = told[q][i]
      BY <3>2, <2>0, <1>5, <1>d, ToldPositions
    <3> QED
      BY <3>2, <3>3, <1>4
  <2> QED
    BY <2>1, <2>2
<1>6. CASE told'[q] = told[q]
  BY <1>6, <1>4
<1>7. ASSUME NEW r \in Readers, NEW n \in Nat, n < physical_step,
             told' = [told EXCEPT ![r] = Append(@, n)],
             Announce, dest = {r}, n = physical_step - 1
      PROVE  [to |-> q, step |-> told'[q][i], path |-> x, try |-> attempt'[told'[q][i]]]
                       \in got' \cup lost'
  <2>1. CASE q # r
    BY <1>7, <2>1, <1>a, <1>6 DEF ToldTypes
  <2>2. CASE q = r
    <3>1. told'[q] = Append(told[q], n)
      BY <1>7, <2>2, <1>a DEF ToldTypes
    <3>2. inflight = {} /\ job.member # {q}
      <4>1. job = NoJob /\ inflight = {}
        BY <1>7, <1>a DEF Announce, ThreadInv
      <4> QED
        BY <4>1 DEF NoJob
    <3>3. CASE ~Backfilling(q)
      BY <3>1, <3>2, <3>3, <1>7, <1>5
    <3>4. CASE Backfilling(q)
      <4>1. mark[q] = Len(told[q]) + 1
        BY <3>4, <1>7, <2>2 DEF IInv, Unannounced, Pending
      <4>2. n \in 0 .. physical_step - 1
        BY <1>7, <1>a
      <4>3. Len(told'[q]) = Len(told[q]) + 1 /\ Len(told[q]) \in Nat
        BY <4>2, <3>1, <1>d, ToldPositions
      <4> QED
        BY <4>1, <4>3, <1>2, <1>c
    <3> QED
      BY <3>3, <3>4
  <2> QED
    BY <2>1, <2>2
<1>8. ASSUME NEW r \in Readers, NEW n \in Nat, n < physical_step,
             told' = [told EXCEPT ![r] = Append(@, n)],
             BackfillAnnounce, job.member = {r}, n = job.k
      PROVE  [to |-> q, step |-> told'[q][i], path |-> x, try |-> attempt'[told'[q][i]]]
                       \in got' \cup lost'
  <2>1. CASE q # r
    BY <1>8, <2>1, <1>a, <1>6 DEF ToldTypes
  <2>2. CASE q = r
    <3>1. told'[q] = Append(told[q], n)
      BY <1>8, <2>2, <1>a DEF ToldTypes
    <3>2. inflight = {} /\ job.pushed
      BY <1>8 DEF BackfillAnnounce, Settled
    <3>3. ~Backfilling(q)
      BY <1>8, <2>2 DEF IInv, StagedOnce
    <3> QED
      BY <3>1, <3>2, <3>3, <1>8, <1>5
  <2> QED
    BY <2>1, <2>2
<1> QED
  BY <1>6, <1>7, <1>8, ToldEffect

\* A reader without an address has been told nothing.
LEMMA JoinInvStep == IInv /\ [Next]_vars => JoinInv'
<1> SUFFICES ASSUME IInv, [Next]_vars, NEW q \in Readers, q \notin members', stage'[q] # "gone"
             PROVE  told'[q] = <<>> /\ mark'[q] = 0 /\ q \notin dest' /\ q \notin targets'
  BY DEF JoinInv
<1>a. ToldTypes /\ FromTypes /\ ReaderTypes /\ TableTypes /\ ThreadInv
  BY DEF IInv, Types
<1>1. q \notin members /\ stage[q] # "gone"
  <2>1. CASE ReaderKept(q)
    BY <2>1 DEF ReaderKept
  <2>2. CASE StepOf(q)
    BY <2>2, <1>a DEF StepOf, TakeBackfill, Join, MemberJoined, Leave, MemberLeft, EntriesPurged, Subscribe,
       SubscribeFrom, Stage, StageLost, Release, tableVars, readerVars, ReaderTypes
  <2> QED
    BY <2>1, <2>2, OthersKeep
<1>2. told[q] = <<>> /\ mark[q] = 0 /\ q \notin dest /\ q \notin targets
  BY <1>1 DEF IInv, JoinInv
<1>3. told'[q] = told[q]
  <2>1. ASSUME NEW r \in Readers, NEW n \in Nat, told' = [told EXCEPT ![r] = Append(@, n)],
               dest = {r} \/ r \in members
        PROVE  told'[q] = told[q]
    BY <2>1, <1>1, <1>2, <1>a DEF ToldTypes
  <2> QED
    BY <2>1, ToldEffect
<1>4. mark'[q] = 0
  <2>1. ASSUME NEW p \in Paths, Stage(q, p) PROVE mark'[q] = 0
    <3>1. CASE Backfilling(q)
      BY <2>1, <3>1, <1>2 DEF Stage
    <3>2. CASE ~Backfilling(q)
      <4>1. mark'[q] = Len(told[q]) + Cardinality(dest \cap {q})
        BY <2>1, <3>2, <1>a DEF Stage, FromTypes
      <4>2. dest \cap {q} = {} /\ Cardinality({}) = 0 /\ Len(<<>>) = 0
        BY <1>2, FS_EmptySet
      <4>3. Len(told[q]) = 0 /\ Cardinality(dest \cap {q}) = 0
        BY <4>2, <1>2
      <4> QED
        BY <4>1, <4>3
    <3> QED
      BY <3>1, <3>2
  <2> QED
    BY <2>1, <1>2, WaitsEffect
<1>5. q \notin dest'
  BY <1>1, <1>2, DestEffect
<1>6. q \notin targets'
  BY <1>1, <1>2, ThreadSteps DEF ThreadStep, WriterRuns, threadVars, BeginStep, EndStep,
    FileClose, ReplayWrite, ReplayFails, Commit, Broadcast, AnnounceNext, Announce,
    AnnounceDone, TakeBackfill, BackfillPush, BackfillAnnounce, BackfillDone, ServeDone
<1> QED
  BY <1>2, <1>3, <1>4, <1>5, <1>6

\* A step that announces nothing to q leaves the step that q is told of next.
LEMMA NextToldKept ==
    ASSUME IInv, [Next]_vars, NEW q \in Readers, q \in members, ~Backfilling(q),
           ~TakeBackfill(q), ~(Announce /\ dest = {q}), ~(BackfillAnnounce /\ job.member = {q})
    PROVE  NextTold(q)' = NextTold(q)
<1>a. ThreadInv /\ JobTypes /\ ThreadTypes /\ physical_step \in Nat /\ job.k \in Nat
      /\ NoJob.member # {q}
  BY ConstantFacts DEF IInv, Types, ThreadTypes, JobTypes, NoJob
<1>1. CASE Commit
  <2>1. job = NoJob /\ targets = {} /\ dest = {} /\ UNCHANGED <<job, targets, dest>>
    BY <1>1, <1>a DEF Commit, ThreadInv
  <2> QED
    BY <1>1, <1>a, <2>1 DEF Commit, NextTold
<1>2. CASE Broadcast
  BY <1>2, <1>a DEF Broadcast, NextTold
<1>3. ASSUME NEW r \in Readers, AnnounceNext(r) PROVE NextTold(q)' = NextTold(q)
  <2>1. at = "announce" /\ dest = {} /\ at' # "settle" /\ UNCHANGED <<job, physical_step>>
    BY <1>3, <1>a DEF AnnounceNext, ThreadInv
  <2>2. q \in targets' \cup dest' <=> q \in targets \cup dest
    BY <1>3, <2>1 DEF AnnounceNext
  <2> QED
    BY <2>1, <2>2 DEF NextTold
<1>4. CASE Announce
  <2>1. PICK r \in Readers : dest = {r}
    BY <1>4, <1>a DEF Announce, ThreadInv
  <2>2. q # r /\ dest' = {} /\ at' # "settle" /\ at # "settle" /\ UNCHANGED <<job, targets, physical_step>>
    BY <1>4, <2>1 DEF Announce
  <2> QED
    BY <2>1, <2>2 DEF NextTold
<1>5. ASSUME NEW r \in Readers, TakeBackfill(r) PROVE NextTold(q)' = NextTold(q)
  <2>1. job = NoJob /\ job'.member # {q} /\ UNCHANGED <<targets, dest, physical_step>>
        /\ at # "settle" /\ at' # "settle"
    BY <1>5, <1>a DEF TakeBackfill, ThreadInv
  <2> QED
    BY <2>1, <1>a DEF NextTold
<1>6. CASE BackfillPush
  <2>1. job'.member = job.member /\ job'.k = job.k /\ UNCHANGED <<targets, dest, physical_step, at>>
    BY <1>6, <1>a DEF BackfillPush, JobTypes
  <2> QED
    BY <2>1 DEF NextTold
<1>7. CASE BackfillAnnounce
  <2>1. job'.member = job.member /\ job.member # {q} /\ UNCHANGED <<targets, dest, physical_step, at>>
    BY <1>7, <1>a DEF BackfillAnnounce, JobTypes
  <2> QED
    BY <2>1 DEF NextTold
<1>8. CASE BackfillDone
  <2>1. job' = NoJob /\ ~(job.k < physical_step) /\ UNCHANGED <<targets, dest, physical_step>>
        /\ at # "settle" /\ at' # "settle"
    BY <1>8, <1>a DEF BackfillDone, BackfillEnds
  <2> QED
    BY <2>1, <1>a DEF NextTold
<1>9. CASE /\ ~Commit /\ ~Broadcast /\ ~Announce /\ ~BackfillPush /\ ~BackfillAnnounce /\ ~BackfillDone
           /\ ~(\E r \in Readers : AnnounceNext(r) \/ TakeBackfill(r))
  <2>1. UNCHANGED <<job, targets, dest, physical_step>> /\ (at' = "settle" <=> at = "settle")
    BY <1>9, <1>a, ThreadSteps DEF ThreadStep, WriterRuns, threadVars, BeginStep, EndStep,
      FileClose, ReplayWrite, ReplayFails, AnnounceDone, ServeDone, ThreadTypes
  <2> QED
    BY <2>1 DEF NextTold
<1> QED
  BY <1>1, <1>2, <1>3, <1>4, <1>5, <1>6, <1>7, <1>8, <1>9

\* What one member was told: each step from f to n - 1 once, in order, after
\* the first m announcements.
Row(s, m, f, n) ==
    /\ f <= n
    /\ Len(s) = m + (n - f)
    /\ \A i \in Nat : (m < i /\ i <= Len(s)) => s[i] = f + (i - m) - 1

\* Telling it of n next extends the row.
LEMMA RowAppend ==
    ASSUME NEW S, NEW s \in Seq(S), NEW m \in Nat, NEW f \in Nat, NEW n \in Nat, n \in S,
           Row(s, m, f, n)
    PROVE  Row(Append(s, n), m, f, n + 1)
<1> DEFINE t == Append(s, n)
<1>1. Len(t) = Len(s) + 1 /\ Len(s) \in Nat
      /\ (\A i \in Nat : (0 < i /\ i <= Len(s)) => t[i] = s[i]) /\ t[Len(s) + 1] = n
  BY ToldPositions
<1> HIDE DEF t
<1>2. Len(s) = m + (n - f) /\ f <= n /\ \A i \in Nat : (m < i /\ i <= Len(s)) => s[i] = f + (i - m) - 1
  BY DEF Row
<1>3. ASSUME NEW i \in Nat, m < i, i <= Len(t) PROVE t[i] = f + (i - m) - 1
  <2>1. CASE i = Len(s) + 1
    BY <2>1, <1>1, <1>2
  <2>2. CASE i # Len(s) + 1
    <3>1. 0 < i /\ i <= Len(s)
      BY <2>2, <1>1, <1>3
    <3>2. t[i] = s[i] /\ s[i] = f + (i - m) - 1
      BY <3>1, <1>1, <1>2, <1>3
    <3> QED
      BY <3>2
  <2> QED
    BY <2>1, <2>2
<1>4. Len(t) = m + (n + 1 - f) /\ f <= n + 1
  BY <1>1, <1>2
<1>5. Row(t, m, f, n + 1)
  BY <1>3, <1>4 DEF Row
<1> QED
  BY <1>5 DEF t

\* Member by member.
LEMMA OnceSplit == OnceInv <=> \A r \in members : ~Backfilling(r) => Row(told[r], mark[r], from[r], NextTold(r))
BY DEF OnceInv, Row

\* Every step once: the row of each member that waits for no backfill ends
\* just before the step it is told of next.
LEMMA OnceInvStep == IInv /\ [Next]_vars => OnceInv'
<1> SUFFICES ASSUME IInv, [Next]_vars, NEW q \in members', ~Backfilling(q)'
             PROVE  Row(told'[q], mark'[q], from'[q], NextTold(q)')
  BY DEF OnceInv, Row
<1>a. ToldTypes /\ FromTypes /\ TableTypes /\ ThreadInv /\ JobTypes /\ ThreadTypes
      /\ TableTypes' /\ FromTypes' /\ physical_step \in Nat
  BY TypesStep, ConstantFacts DEF IInv, Types, ThreadTypes
<1>b. q \in Readers /\ job.k \in Nat
  BY <1>a DEF TableTypes, JobTypes
<1>c. q \in members /\ ~Backfilling(q) => Row(told[q], mark[q], from[q], NextTold(q))
  BY OnceSplit DEF IInv
<1>d. told[q] \in Seq(0 .. physical_step - 1) /\ Len(told[q]) \in Nat
      /\ mark[q] \in Nat /\ from[q] \in Nat /\ from'[q] \in Nat
  <2>1. told[q] \in Seq(0 .. physical_step - 1)
    BY <1>a, <1>b DEF ToldTypes
  <2>2. mark[q] \in Nat /\ from[q] \in Steps /\ from'[q] \in Steps
    BY <1>a, <1>b DEF FromTypes
  <2>3. Len(told[q]) \in Nat
    BY <2>1
  <2>4. mark[q] \in Nat /\ from[q] \in Nat /\ from'[q] \in Nat
    BY <2>2, ConstantFacts
  <2> QED
    BY <2>1, <2>3, <2>4
<1>1. CASE MemberJoined(q)
  <2>1. UNCHANGED <<told, mark, at, job, targets, dest, physical_step>> /\ from'[q] = NextAnnounced(q)
    BY <1>1, <1>a, <1>b DEF MemberJoined, FromTypes, threadVars
  <2>2. told[q] = <<>> /\ mark[q] = 0 /\ q \notin dest /\ q \notin targets
    BY <1>1, <1>b DEF MemberJoined, Present, IInv, JoinInv
  <2>3. NextTold(q)' = NextAnnounced(q)
    BY <2>1, <2>2, <1>b, NextAnnouncedType DEF NextTold
  <2>4. NextAnnounced(q) \in Nat
    BY <1>b, NextAnnouncedType, ConstantFacts
  <2>5. Len(<<>>) = 0
    OBVIOUS
  <2>6. Row(<<>>, 0, NextAnnounced(q), NextAnnounced(q))
    BY <2>4, <2>5 DEF Row
  <2> QED
    BY <2>1, <2>2, <2>3, <2>6
<1>2. CASE TakeBackfill(q)
  <2>1. Backfilling(q) /\ at = "serve"
    BY <1>2 DEF TakeBackfill, Released, Backfilling
  <2>2. dest = {} /\ targets = {}
    BY <2>1, <1>a DEF ThreadInv
  <2>3. mark[q] = Len(told[q])
    <3>1. mark[q] = Len(told[q]) + Pending(q) /\ Pending(q) = 0
      BY <2>1, <2>2, <1>b DEF IInv, Unannounced, Pending
    <3> QED
      BY <3>1, <1>d
  <2>4. backfill_from[q] \in Nat
    BY <1>a, <1>b DEF TableTypes
  <2>5. from'[q] = Min({backfill_from[q], physical_step})
    BY <1>2, <1>a, <1>b DEF TakeBackfill, FromTypes
  <2>6. from'[q] = IF backfill_from[q] <= physical_step THEN backfill_from[q] ELSE physical_step
    BY <2>4, <2>5, <1>a, MinOfTwo
  <2>7. UNCHANGED <<told, mark, targets, dest, physical_step>> /\ at' = "job"
        /\ job'.member = {q} /\ job'.k = backfill_from[q]
    BY <1>2 DEF TakeBackfill
  <2>8. NextTold(q)' = from'[q]
    BY <2>2, <2>4, <2>6, <2>7, <1>a DEF NextTold
  <2>9. Row(told[q], mark[q], from'[q], from'[q])
    BY <2>3, <1>d DEF Row
  <2> QED
    BY <2>7, <2>8, <2>9
<1>3. CASE ~MemberJoined(q) /\ ~TakeBackfill(q)
  <2>1. ~(\E p \in Paths : Stage(q, p))
    <3> SUFFICES ASSUME NEW p \in Paths, Stage(q, p) PROVE FALSE
      OBVIOUS
    <3>1. sub_table'[q][p] = "staged"
      BY <1>a, <1>b DEF Stage, TableTypes
    <3> QED
      BY <3>1 DEF Backfilling
  <2>2. ~MemberLeft(q) /\ ~EntriesPurged(q)
    BY DEF MemberLeft, EntriesPurged
  <2>3. ~Backfilling(q) /\ mark'[q] = mark[q]
    BY <2>1, <2>2, <1>3, <1>b, WaitsEffect
  <2>4. q \in members /\ from'[q] = from[q]
    <3>1. CASE ReaderKept(q)
      BY <3>1 DEF ReaderKept
    <3>2. CASE StepOf(q)
      BY <3>2, <2>1, <2>2, <1>3 DEF StepOf, Join, Leave, Subscribe, SubscribeFrom, StageLost,
         Release, tableVars, toldVars
    <3> QED
      BY <3>1, <3>2, <1>b, OthersKeep
  <2>5. Row(told[q], mark[q], from[q], NextTold(q))
    BY <2>3, <2>4, <1>c
  <2>6. CASE Announce /\ dest = {q}
    <3>1. told' = [told EXCEPT ![q] = Append(@, physical_step - 1)] /\ dest' = {}
          /\ UNCHANGED <<job, targets, physical_step>> /\ at' = "announce"
      BY <2>6 DEF Announce, StepReady
    <3>2. told'[q] = Append(told[q], physical_step - 1)
      BY <3>1, <1>a, <1>b DEF ToldTypes
    <3>3. q \notin targets /\ job = NoJob /\ physical_step > 0
      BY <2>6, <1>a DEF Announce, ThreadInv
    <3>4. NextTold(q) = physical_step - 1 /\ NextTold(q)' = physical_step
      BY <2>6, <3>1, <3>3 DEF NextTold, NoJob
    <3>5. physical_step - 1 \in Nat /\ physical_step - 1 \in 0 .. physical_step - 1
          /\ physical_step = (physical_step - 1) + 1
      BY <3>3, <1>a
    <3>6. Row(told'[q], mark[q], from[q], (physical_step - 1) + 1)
      BY <3>2, <3>4, <3>5, <2>5, <1>d, RowAppend
    <3> QED
      BY <3>4, <3>5, <3>6, <2>3, <2>4
  <2>7. CASE BackfillAnnounce /\ job.member = {q}
    <3>1. told' = [told EXCEPT ![q] = Append(@, job.k)] /\ UNCHANGED <<targets, dest, physical_step, at>>
      BY <2>7, <2>4 DEF BackfillAnnounce, StepReady
    <3>2. told'[q] = Append(told[q], job.k)
      BY <3>1, <1>a, <1>b DEF ToldTypes
    <3>3. job'.member = {q} /\ job'.k = job.k + 1
      BY <2>7, <1>a DEF BackfillAnnounce, JobTypes
    <3>4. job.k < physical_step /\ targets = {} /\ dest = {} /\ at = "job"
      BY <2>7, <1>a DEF BackfillAnnounce, ThreadInv
    <3>5. NextTold(q) = job.k /\ NextTold(q)' = job.k + 1
      BY <2>7, <3>1, <3>3, <3>4, <1>a, <1>b DEF NextTold
    <3>6. job.k \in 0 .. physical_step - 1
      BY <3>4, <1>a, <1>b
    <3>7. Row(told'[q], mark[q], from[q], job.k + 1)
      BY <3>2, <3>5, <3>6, <2>5, <1>b, <1>d, RowAppend
    <3> QED
      BY <3>5, <3>7, <2>3, <2>4
  <2>8. CASE ~(Announce /\ dest = {q}) /\ ~(BackfillAnnounce /\ job.member = {q})
    <3>1. told'[q] = told[q]
      <4>1. ASSUME NEW r \in Readers, NEW n \in Nat, told' = [told EXCEPT ![r] = Append(@, n)],
                   (Announce /\ dest = {r}) \/ (BackfillAnnounce /\ job.member = {r})
            PROVE  told'[q] = told[q]
        BY <4>1, <2>8, <1>a, <1>b DEF ToldTypes
      <4> QED
        BY <4>1, ToldEffect
    <3>2. NextTold(q)' = NextTold(q)
      BY <1>3, <2>3, <2>4, <2>8, <1>b, NextToldKept
    <3> QED
      BY <3>1, <3>2, <2>3, <2>4, <2>5
  <2> QED
    BY <2>6, <2>7, <2>8
<1> QED
  BY <1>1, <1>2, <1>3

\* The announcement under way at a staging is sent next, and stays in place.
LEMMA StrayInvStep == IInv /\ [Next]_vars => StrayInv'
<1> DEFINE Placed(s, m, d, x, n, q) ==
             \/ x = <<>>
             \/ m = Len(s) + 1 /\ q \in d /\ x = <<n - 1>>
             \/ m \in 1 .. Len(s) /\ x = <<s[m]>>
<1> SUFFICES ASSUME IInv, [Next]_vars, NEW q \in Readers
             PROVE  Placed(told'[q], mark'[q], dest', stray'[q], physical_step', q)
  BY DEF StrayInv
<1>a. ToldTypes /\ FromTypes /\ ThreadInv /\ ThreadTypes
  BY DEF IInv, Types
<1>b. Placed(told[q], mark[q], dest, stray[q], physical_step, q)
  BY DEF IInv, StrayInv
<1>d. /\ told \in [Readers -> Seq(0 .. physical_step - 1)] /\ told[q] \in Seq(0 .. physical_step - 1)
      /\ Len(told[q]) \in Nat /\ mark[q] \in Nat
  BY <1>a DEF ToldTypes, FromTypes
<1>1. ASSUME NEW p \in Paths, Stage(q, p)
      PROVE  Placed(told'[q], mark'[q], dest', stray'[q], physical_step', q)
  <2>1. UNCHANGED <<told, dest, physical_step>>
    BY <1>1 DEF Stage, threadVars
  <2>2. CASE Backfilling(q)
    <3>1. UNCHANGED <<mark, stray>>
      BY <1>1, <2>2 DEF Stage
    <3> QED
      BY <1>b, <2>1, <3>1
  <2>3. CASE ~Backfilling(q)
    <3>1. /\ mark'[q] = Len(told[q]) + Cardinality(dest \cap {q})
          /\ stray'[q] = IF q \in dest THEN <<physical_step - 1>> ELSE <<>>
      BY <1>1, <1>a, <2>3 DEF Stage, FromTypes
    <3>2. CASE q \in dest
      <4>1. dest \cap {q} = {q} /\ Cardinality({q}) = 1
        BY <3>2, FS_Singleton
      <4> QED
        BY <2>1, <3>1, <3>2, <4>1
    <3>3. CASE q \notin dest
      BY <3>1, <3>3
    <3> QED
      BY <3>2, <3>3
  <2> QED
    BY <2>2, <2>3
<1>2. CASE ~(\E p \in Paths : Stage(q, p))
  <2>1. mark'[q] = mark[q] /\ stray'[q] = stray[q]
    BY <1>2, WaitsEffect
  <2>2. ASSUME NEW n \in Nat, n < physical_step, told'[q] = Append(told[q], n)
        PROVE  /\ Len(told'[q]) = Len(told[q]) + 1 /\ told'[q][Len(told[q]) + 1] = n
               /\ \A i \in 1 .. Len(told[q]) : told'[q][i] = told[q][i]
    <3>1. n \in 0 .. physical_step - 1
      BY <1>a, <2>2, ConstantFacts DEF ThreadTypes
    <3> QED
      BY <1>d, <2>2, <3>1, AppendProperties
  <2>3. CASE stray[q] = <<>>
    BY <2>1, <2>3
  <2>4. CASE mark[q] = Len(told[q]) + 1 /\ q \in dest /\ stray[q] = <<physical_step - 1>>
    <3>1. at = "forward" /\ dest = {q} /\ physical_step > 0 /\ physical_step \in Nat
      BY <1>a, <2>4, ConstantFacts DEF ThreadInv, ThreadTypes
    <3>2. CASE Announce
      <4>1. told'[q] = Append(told[q], physical_step - 1) /\ UNCHANGED physical_step
        BY <1>d, <3>1, <3>2 DEF Announce, StepReady
      <4>2. physical_step - 1 \in Nat /\ physical_step - 1 < physical_step
        BY <3>1
      <4>3. Len(told'[q]) = Len(told[q]) + 1 /\ told'[q][Len(told[q]) + 1] = physical_step - 1
        BY <2>2, <4>1, <4>2
      <4> QED
        BY <1>d, <2>1, <2>4, <4>3
    <3>3. CASE ~Announce
      <4>1. UNCHANGED <<dest, physical_step>>
        BY <3>1, <3>3, ThreadSteps DEF ThreadStep, WriterRuns, threadVars, BeginStep, EndStep,
           FileClose, ReplayWrite, ReplayFails, Commit, Broadcast, AnnounceNext, TakeBackfill, BackfillPush,
           BackfillAnnounce, BackfillDone, AnnounceDone, ServeDone
      <4>2. UNCHANGED told
        BY <3>1, <3>3, ToldEffect DEF BackfillAnnounce
      <4> QED
        BY <2>1, <2>4, <4>1, <4>2
    <3> QED
      BY <3>2, <3>3
  <2>5. CASE mark[q] \in 1 .. Len(told[q]) /\ stray[q] = <<told[q][mark[q]]>>
    <3>1. told'[q] = told[q] \/ \E n \in Nat : n < physical_step /\ told'[q] = Append(told[q], n)
      BY <1>d, ToldEffect
    <3>2. mark[q] \in 1 .. Len(told'[q]) /\ told'[q][mark[q]] = told[q][mark[q]]
      BY <1>d, <2>2, <2>5, <3>1
    <3> QED
      BY <2>1, <2>5, <3>2
  <2> QED
    BY <1>b, <2>3, <2>4, <2>5
<1> QED
  BY <1>1, <1>2

-----------------------------------------------------------------------------
(* The theorems.                                                           *)

\* Nobody has joined and nothing was sent: the invariant holds at the start.
LEMMA InitIInv == Init => IInv
<1> SUFFICES ASSUME Init PROVE IInv
  OBVIOUS
<1> USE ConstantFacts DEF Init
<1>1. ThreadTypes /\ JobTypes /\ CommitTypes /\ PushTypes
  BY DEF ThreadTypes, JobTypes, CommitTypes, PushTypes, NoJob, Places, Steps
<1>2. TableTypes /\ SinceTypes /\ ReaderTypes
  BY DEF TableTypes, SinceTypes, ReaderTypes, SubStates, Stages
<1>3. ToldTypes /\ FromTypes
  BY DEF ToldTypes, FromTypes, Steps
<1>4. ThreadInv /\ StagedOnce /\ PromisedInv /\ Unannounced
  BY DEF ThreadInv, StagedOnce, PromisedInv, Unannounced, NoJob, Released, Backfilling
<1>5. CommittedIssued /\ ReplayIssued /\ JoinInv /\ OnceInv
  BY DEF CommittedIssued, ReplayIssued, Due, JoinInv, OnceInv, Steps
<1>6. ToldInv /\ StrayInv
  BY DEF ToldInv, StrayInv
<1> QED
  BY <1>1, <1>2, <1>3, <1>4, <1>5, <1>6 DEF IInv, Types

\* The invariant is inductive.
LEMMA Inductive == IInv /\ [Next]_vars => IInv'
BY TypesStep, ThreadInvStep, StagedOnceStep, PromisedInvStep, UnannouncedStep, CommittedIssuedStep,
   ReplayIssuedStep, ToldInvStep, JoinInvStep, OnceInvStep, StrayInvStep DEF IInv

\* Announced(r), by positions of told[r].
LEMMA AnnouncedPositions ==
    ASSUME Types, NEW r \in Readers
    PROVE  /\ Announced(r) \in Seq(0 .. physical_step - 1)
           /\ DOMAIN Announced(r) = 1 .. Len(Announced(r))
           /\ \A i \in 1 .. Len(Announced(r)) :
                 Announced(r)[i] = told[r][mark[r] + i] /\ mark[r] + i <= Len(told[r])
           /\ Len(Announced(r)) = IF mark[r] <= Len(told[r]) THEN Len(told[r]) - mark[r] ELSE 0
<1>1. told[r] \in Seq(0 .. physical_step - 1) /\ mark[r] \in Nat
  BY DEF Types, ToldTypes, FromTypes
<1> DEFINE s == told[r]
           m == mark[r]
<1> HIDE DEF s, m
<1>2. s \in Seq(0 .. physical_step - 1) /\ m \in Nat /\ Len(s) \in Nat
  BY <1>1 DEF s, m
<1>3. m + 1 \in Int /\ Len(s) \in Int
  BY <1>2
<1>4. \A i \in m + 1 .. Len(s) : i \in 1 .. Len(s)
  BY <1>2
<1> DEFINE t == SubSeq(s, m + 1, Len(s))
           l == IF m <= Len(s) THEN Len(s) - m ELSE 0
<1>5. t = [i \in 1 .. (1 + Len(s) - (m + 1)) |-> s[i + (m + 1) - 1]]
  BY <1>2
<1>6. l \in Nat /\ 1 .. (1 + Len(s) - (m + 1)) = 1 .. l
  BY <1>2
<1> HIDE DEF t, l
<1>9. \A i \in 1 .. l : s[i + (m + 1) - 1] = s[m + i] /\ m + i <= Len(s)
  BY <1>2 DEF l
<1>10. DOMAIN t = 1 .. l /\ \A i \in 1 .. l : t[i] = s[m + i]
  BY <1>5, <1>6, <1>9
<1>11. \A i \in 1 .. l : s[m + i] \in 0 .. physical_step - 1
  <2> TAKE i \in 1 .. l
  <2>1. m + i \in 1 .. Len(s)
    BY <1>2, <1>6, <1>9
  <2> QED
    BY <2>1, <1>2, ElementOfSeq
<1>12. t \in Seq(0 .. physical_step - 1)
  <2>1. t = [i \in 1 .. l |-> s[m + i]]
    BY <1>5, <1>6, <1>9
  <2> QED
    BY <2>1, <1>6, <1>11
<1>13. Len(t) = l
  BY <1>12, <1>10, <1>6
<1>7. /\ DOMAIN t = 1 .. Len(t)
      /\ \A i \in 1 .. Len(t) : t[i] = s[m + i] /\ m + i <= Len(s)
      /\ Len(t) = l
  BY <1>9, <1>10, <1>13
<1>8. Announced(r) = t
  BY DEF Announced, t, s, m
<1> QED
  BY <1>7, <1>8, <1>12 DEF s, m, l

\* Every variable of the delivery keeps its type, and only committed steps are
\* announced, whatever the readers, the faults and the bounds.
THEOREM TypeCorrect == Spec => []TypeOK
<1>1. Init => IInv
  BY InitIInv
<1>2. IInv /\ [Next]_vars => IInv'
  BY Inductive
<1>3. IInv => TypeOK
  BY TypesAreTypeOK DEF IInv
<1> QED
  BY <1>1, <1>2, <1>3, PTL DEF Spec

\* Data before announcement: whatever a step wrote to a path that a reader is
\* promised has arrived, or is known to be lost, when broadcast_step_ready or
\* the backfill tells the reader of the step.
THEOREM DataBeforeAnnouncement == Spec => []DataFirst
<1>1. Init => IInv
  BY InitIInv
<1>2. IInv /\ [Next]_vars => IInv'
  BY Inductive
<1>3. IInv => DataFirst
  <2> SUFFICES ASSUME IInv, NEW r \in Readers, NEW p \in Paths, NEW i \in DOMAIN Announced(r),
                      Announced(r)[i] >= since[r][p], p \in written[Announced(r)[i]]
               PROVE  [to |-> r, step |-> Announced(r)[i], path |-> p, try |-> attempt[Announced(r)[i]]]
                         \in got \cup lost
    BY DEF DataFirst
  <2>a. Types /\ mark[r] \in Nat /\ since[r][p] \in Nat /\ told[r] \in Seq(0 .. physical_step - 1)
    BY DEF IInv, Types, FromTypes, SinceTypes, ToldTypes
  <2>1. i \in 1 .. Len(Announced(r)) /\ Announced(r)[i] = told[r][mark[r] + i]
        /\ mark[r] + i <= Len(told[r])
    BY <2>a, AnnouncedPositions
  <2>2. mark[r] + i \in Nat /\ mark[r] < mark[r] + i /\ mark[r] + i \in 1 .. Len(told[r])
    BY <2>a, <2>1
  <2>3. told[r][mark[r] + i] \in 0 .. physical_step - 1
    BY <2>a, <2>2, ElementOfSeq
  <2>4. since[r][p] <= told[r][mark[r] + i]
    BY <2>1, <2>3, <2>a
  <2> QED
    BY <2>1, <2>2, <2>4 DEF IInv, ToldInv
<1> QED
  BY <1>1, <1>2, <1>3, PTL DEF Spec

\* Between two calls of the writer, every member that waits for no backfill was
\* sent, since it joined or staged its subscription, every committed step since
\* then, or since the step that its H5Fsubscribe_from named, once and in order;
\* and before them, at most, the one announcement that broadcast_step_ready had
\* decided on when the subscription was staged.
THEOREM EveryStepIsTold == Spec => []EveryStepTold
<1>1. Init => IInv
  BY InitIInv
<1>2. IInv /\ [Next]_vars => IInv'
  BY Inductive
<1>3. IInv => EveryStepTold
  <2> SUFFICES ASSUME IInv, at \in {"idle", "in_step"}, NEW r \in members, ~Backfilling(r)
               PROVE  SentSince(r) = stray[r] \o [i \in 1 .. physical_step - from[r] |-> from[r] + i - 1]
    BY DEF EveryStepTold
  <2> DEFINE s == told[r]
             m == mark[r]
             x == stray[r]
             f == from[r]
             n == physical_step
             tail == [i \in 1 .. n - f |-> f + i - 1]
  <2>a. r \in Readers /\ n \in Nat /\ m \in Nat /\ f \in Nat
    BY ConstantFacts DEF IInv, Types, TableTypes, ThreadTypes, FromTypes
  <2>b. s \in Seq(0 .. n - 1) /\ Len(s) \in Nat
    BY <2>a DEF IInv, Types, ToldTypes
  <2>1. NextTold(r) = n /\ dest = {}
    BY DEF NextTold, NoJob, IInv, ThreadInv
  <2>2. f <= n /\ Len(s) = m + (n - f) /\ \A i \in Nat : (m < i /\ i <= Len(s)) => s[i] = f + (i - m) - 1
    BY <2>1, OnceSplit DEF IInv, Row
  <2>3. x = <<>> \/ (m \in 1 .. Len(s) /\ x = <<s[m]>>)
    BY <2>1, <2>a DEF IInv, StrayInv
  <2>5. SentSince(r) = SubSeq(s, m - Len(x) + 1, Len(s))
    BY DEF SentSince
  <2> HIDE DEF s, m, x, f, n
  <2>4. tail \in Seq(Nat) /\ Len(tail) = n - f
    <3>1. n - f \in Nat
      BY <2>a, <2>2
    <3>2. \A i \in 1 .. n - f : f + i - 1 \in Nat
      BY <2>a
    <3>3. tail \in [1 .. n - f -> Nat]
      BY <3>2
    <3> HIDE DEF tail
    <3> QED
      BY <3>1, <3>3
  <2>6. ASSUME x = <<>>
        PROVE  SubSeq(s, m - Len(x) + 1, Len(s)) = x \o tail
    <3>1. SubSeq(s, m + 1, Len(s)) = [i \in 1 .. n - f |-> s[m + i]]
      <4>1. SubSeq(s, m + 1, Len(s)) = [i \in 1 .. (1 + Len(s) - (m + 1)) |-> s[i + (m + 1) - 1]]
        BY <2>a, <2>b
      <4>2. 1 + Len(s) - (m + 1) = n - f
        BY <2>a, <2>2
      <4>3. \A i \in 1 .. n - f : i + (m + 1) - 1 = m + i
        BY <2>a
      <4> QED
        BY <4>1, <4>2, <4>3
    <3>2. \A i \in 1 .. n - f : s[m + i] = f + i - 1
      <4> TAKE i \in 1 .. n - f
      <4>1. m + i \in Nat /\ m < m + i /\ m + i <= Len(s) /\ f + ((m + i) - m) - 1 = f + i - 1
        BY <2>a, <2>2
      <4> QED
        BY <2>2, <4>1
    <3>3. SubSeq(s, m + 1, Len(s)) = tail
      BY <3>1, <3>2
    <3>4. Len(x) = 0 /\ m - 0 + 1 = m + 1
      BY <2>6, <2>a
    <3>5. x \o tail = tail
      BY <2>4, <2>6
    <3> HIDE DEF tail
    <3> QED
      BY <3>3, <3>4, <3>5
  <2>7. ASSUME m \in 1 .. Len(s) /\ x = <<s[m]>>
        PROVE  SubSeq(s, m - Len(x) + 1, Len(s)) = x \o tail
    <3>0. Len(x) = 1 /\ m - 1 + 1 = m
      BY <2>7, <2>a
    <3>1. SubSeq(s, m, Len(s)) = [i \in 1 .. n - f + 1 |-> s[m + i - 1]]
      <4>1. SubSeq(s, m, Len(s)) = [i \in 1 .. (1 + Len(s) - m) |-> s[i + m - 1]]
        BY <2>a, <2>b, <2>7
      <4>2. 1 + Len(s) - m = n - f + 1
        BY <2>a, <2>2
      <4>3. \A i \in 1 .. n - f + 1 : i + m - 1 = m + i - 1
        BY <2>a
      <4> QED
        BY <4>1, <4>2, <4>3
    <3>2. \A i \in 1 .. n - f + 1 : s[m + i - 1] = IF i = 1 THEN s[m] ELSE tail[i - 1]
      <4> TAKE i \in 1 .. n - f + 1
      <4>1. CASE i = 1
        <5>1. m + i - 1 = m
          BY <4>1, <2>a
        <5> QED
          BY <4>1, <5>1
      <4>2. CASE i # 1
        <5>1. /\ m + i - 1 \in Nat /\ m < m + i - 1 /\ m + i - 1 <= Len(s)
              /\ f + ((m + i - 1) - m) - 1 = f + (i - 1) - 1 /\ i - 1 \in 1 .. n - f
          BY <4>2, <2>a, <2>2
        <5>2. s[m + i - 1] = f + (i - 1) - 1 /\ tail[i - 1] = f + (i - 1) - 1
          BY <2>2, <5>1
        <5> QED
          BY <4>2, <5>2
      <4> QED
        BY <4>1, <4>2
    <3>3. x \o tail = [i \in 1 .. n - f + 1 |-> IF i = 1 THEN s[m] ELSE tail[i - 1]]
      <4> HIDE DEF tail
      <4>1. x \o tail = [i \in 1 .. 1 + Len(tail) |-> IF i <= 1 THEN x[i] ELSE tail[i - 1]]
        BY <2>4, <2>7
      <4>2. 1 + Len(tail) = n - f + 1 /\ x[1] = s[m]
        BY <2>4, <2>7, <2>a
      <4>3. \A i \in 1 .. n - f + 1 : i <= 1 <=> i = 1
        BY <2>a
      <4> QED
        BY <4>1, <4>2, <4>3
    <3>4. SubSeq(s, m, Len(s)) = x \o tail
      BY <3>1, <3>2, <3>3
    <3> HIDE DEF tail
    <3> QED
      BY <3>0, <3>4
  <2>8. SubSeq(s, m - Len(x) + 1, Len(s)) = x \o tail
    BY <2>3, <2>6, <2>7
  <2> QED
    BY <2>5, <2>8 DEF s, m, x, f, n
<1> QED
  BY <1>1, <1>2, <1>3, PTL DEF Spec


-----------------------------------------------------------------------------
(* The channel: what the refinement needs besides IInv.                    *)

Sent == inflight \cup got \cup lost

\* A push is of a step that is committed or being replayed ...
SentSteps ==
    /\ \A n \in Steps : n < physical_step => attempt[n] <= fails
    /\ \A e \in Sent :
          /\ e.step <= physical_step /\ e.try <= fails
          /\ CommittedPush(e) => e.path \in written[e.step]
          /\ e.step = physical_step /\ e.try = fails => at = "replay" /\ e.path \in writes \ todo

\* ... to a reader that joined, on a path live for it, and is lost only if
\* that reader is gone or messages may be lost ...
SentTo ==
    /\ \A r \in members : stage[r] # "out"
    /\ \A e \in Sent :
          /\ stage[e.to] # "out"
          /\ sub_table[e.to][e.path] = "live"
             \/ (sub_table[e.to][e.path] = "none" /\ stage[e.to] = "gone")
          /\ e \in lost => stage[e.to] = "gone" \/ "loss" \in Faults

\* ... and settles once; a backfill under way has not sent later steps.
SentOnce ==
    /\ inflight \cap (got \cup lost) = {}
    /\ got \cap lost = {}
    /\ \A e \in Sent :
          (e.to \in job.member /\ e.path \in job.paths /\ CommittedPush(e) /\ job.k <= e.step)
              => job.pushed /\ e.step = job.k

\* What a member is promised begins at the step it asked for, or at one that
\* had not been sent when it subscribed.
PromiseBound ==
    \A r \in members, p \in Paths : sub_table[r][p] = "live" =>
        since[r][p] = backfill_from[r] \/ since[r][p] <= physical_step + 1

ChannelInv == IInv /\ SentSteps /\ SentTo /\ SentOnce /\ PromiseBound

\* How the pushes change: one arrives, one is lost, or some are issued.
LEMMA PushEffect ==
    ASSUME [Next]_vars
    PROVE  \/ \E e \in inflight : DataPush(e)
           \/ \E e \in inflight : PushFails(e)
           \/ UNCHANGED <<got, lost>> /\ inflight \subseteq inflight'
<1>1. CASE \E p \in Paths : ReplayWrite(p)
  BY <1>1 DEF ReplayWrite
<1>2. CASE BackfillPush
  BY <1>2 DEF BackfillPush
<1>3. CASE ~PushCompletes /\ ~BackfillPush /\ ~(\E p \in Paths : ReplayWrite(p))
  <2>1. UNCHANGED pushVars
    BY <1>3 DEF Next, WriterRuns, ReaderRuns, Closed, vars, BeginStep,
        EndStep, FileClose, ReplayFails, Commit, Broadcast, AnnounceNext, Announce,
        AnnounceDone, TakeBackfill, BackfillAnnounce, BackfillDone, ServeDone,
        Join, MemberJoined, Leave, MemberLeft, EntriesPurged,
        Subscribe, SubscribeFrom, Stage, StageLost, Release
  <2> QED
    BY <2>1 DEF pushVars
<1> QED
  BY <1>1, <1>2, <1>3 DEF PushCompletes

\* The pushes that a step adds: of the replay's write, or of the step that the
\* backfill has reached, to members for which the path is live.
LEMMA NewPushes ==
    ASSUME IInv, [Next]_vars, NEW e \in inflight', e \notin inflight
    PROVE  /\ e \in Push /\ UNCHANGED <<got, lost, stage, sub_table, members>>
           /\ e.to \in members /\ sub_table[e.to][e.path] = "live"
           /\ \/ /\ \E p \in Paths : ReplayWrite(p) /\ e.path = p
                 /\ e.step = physical_step /\ e.try = fails
              \/ /\ BackfillPush
                 /\ e.step = job.k /\ e.try = attempt[job.k] /\ e.to \in job.member
                 /\ e.path \in job.paths \cap written[job.k]
<1>a. PushTypes' /\ ThreadTypes
  BY TypesStep DEF IInv, Types
<1>b. e \in Push
  BY <1>a DEF PushTypes
<1>1. ASSUME NEW p \in Paths, ReplayWrite(p)
      PROVE  /\ UNCHANGED <<got, lost, stage, sub_table, members>>
             /\ e.to \in members /\ sub_table[e.to][e.path] = "live"
             /\ e.path = p /\ e.step = physical_step /\ e.try = fails
  <2>1. UNCHANGED <<got, lost, stage, sub_table, members>> /\ e \in Pushes(physical_step, p, Readers)
    BY <1>1 DEF ReplayWrite, tableVars, readerVars
  <2>2. PICK r \in PushTargets(p, Readers) :
            e = [to |-> r, step |-> physical_step, path |-> p, try |-> fails]
    BY <2>1 DEF Pushes
  <2> QED
    BY <1>1, <2>1, <2>2 DEF PushTargets
<1>2. CASE BackfillPush
  <2>1. UNCHANGED <<got, lost, stage, sub_table, members>>
    BY <1>2 DEF BackfillPush, tableVars, readerVars
  <2>2. PICK p \in job.paths \cap written[job.k] :
            e \in {[d EXCEPT !.try = attempt[job.k]] : d \in Pushes(job.k, p, job.member)}
    BY <1>2, <2>1 DEF BackfillPush
  <2>3. PICK d \in Pushes(job.k, p, job.member) : e = [d EXCEPT !.try = attempt[job.k]]
    BY <2>2
  <2>4. PICK r \in PushTargets(p, job.member) :
            d = [to |-> r, step |-> job.k, path |-> p, try |-> fails]
    BY <2>3 DEF Pushes
  <2>5. e.to = r /\ e.step = job.k /\ e.path = p /\ e.try = attempt[job.k]
    BY <2>3, <2>4
  <2> QED
    BY <1>b, <1>2, <2>1, <2>2, <2>4, <2>5 DEF PushTargets
<1>3. CASE PushCompletes
  BY <1>3 DEF PushCompletes, DataPush, PushFails
<1>4. CASE ~(\E p \in Paths : ReplayWrite(p)) /\ ~BackfillPush /\ ~PushCompletes
  <2>1. UNCHANGED pushVars
    BY <1>4 DEF Next, WriterRuns, ReaderRuns, Closed, vars, BeginStep,
        EndStep, FileClose, ReplayFails, Commit, Broadcast, AnnounceNext, Announce,
        AnnounceDone, TakeBackfill, BackfillAnnounce, BackfillDone, ServeDone,
        Join, MemberJoined, Leave, MemberLeft, EntriesPurged,
        Subscribe, SubscribeFrom, Stage, StageLost, Release
  <2> QED
    BY <2>1 DEF pushVars
<1> QED
  BY <1>b, <1>1, <1>2, <1>3, <1>4

\* What is sent in a step is issued in it.
LEMMA SentGrows ==
    ASSUME [Next]_vars, NEW e \in Sent', e \notin Sent
    PROVE  e \in inflight' /\ e \notin inflight
<1>1. \/ \E d \in inflight : DataPush(d)
      \/ \E d \in inflight : PushFails(d)
      \/ UNCHANGED <<got, lost>> /\ inflight \subseteq inflight'
  BY PushEffect
<1> QED
  BY <1>1 DEF Sent, DataPush, PushFails

\* Only a failed replay begins another attempt, and only a step of the thread
\* changes what is being replayed.
LEMMA ReplayEffect ==
    ASSUME IInv, [Next]_vars
    PROVE  \/ UNCHANGED fails /\ at = "replay" /\ at' = "replay" /\ writes' = writes /\ todo' \subseteq todo
           \/ UNCHANGED fails /\ at # "replay"
           \/ Commit
           \/ ReplayFails
<1>1. CASE ~(\E p \in Paths : ReplayWrite(p)) /\ ~Commit /\ ~ReplayFails
  BY <1>1, ThreadSteps DEF ThreadStep, WriterRuns, threadVars, BeginStep, EndStep,
    FileClose, Broadcast, AnnounceNext, Announce, TakeBackfill, BackfillPush, BackfillAnnounce,
    BackfillDone, AnnounceDone, ServeDone
<1> QED
  BY <1>1 DEF ReplayWrite

\* A push is of a step that is committed or being replayed.
LEMMA SentStepsStep == IInv /\ SentSteps /\ [Next]_vars => SentSteps'
<1> SUFFICES ASSUME IInv, SentSteps, [Next]_vars PROVE SentSteps'
  OBVIOUS
<1>a. ThreadTypes /\ CommitTypes /\ ThreadInv /\ JobTypes /\ PushTypes /\ physical_step \in Nat /\ fails \in Nat
  BY ConstantFacts DEF IInv, Types, ThreadTypes
<1>b. physical_step' \in Nat /\ physical_step <= physical_step' /\ (UNCHANGED physical_step \/ Commit)
  BY StepGrows
<1>c. fails' \in Nat /\ fails <= fails'
  BY <1>a, ReplayEffect DEF Commit, ReplayFails
<1>d. \A n \in Steps : attempt[n] \in Nat
  BY <1>a DEF CommitTypes
<1>1. ASSUME NEW n \in Steps, n < physical_step' PROVE attempt'[n] <= fails'
  <2>0. n \in Nat
    BY ConstantFacts
  <2>1. CASE n < physical_step
    BY <2>0, <2>1, <1>c, <1>d, <1>a, CommittedKept DEF SentSteps
  <2>2. CASE ~(n < physical_step)
    <3>1. Commit
      BY <1>1, <2>2, <1>b
    <3>2. n = physical_step
      BY <3>1, <1>1, <2>0, <2>2, <1>a DEF Commit
    <3> QED
      BY <3>1, <3>2, <1>1, <1>a DEF Commit, CommitTypes
  <2> QED
    BY <2>1, <2>2
<1>2. ASSUME NEW e \in Sent'
      PROVE  /\ e.step <= physical_step' /\ e.try <= fails'
             /\ CommittedPush(e)' => e.path \in written'[e.step]
             /\ e.step = physical_step' /\ e.try = fails' => at' = "replay" /\ e.path \in writes' \ todo'
  <2>0. e \in Push /\ e.step \in Nat /\ e.step \in Steps /\ e.try \in Nat
    <3>1. e \in Push
      BY TypesStep DEF Types, PushTypes, Sent
    <3>2. e.step \in Steps /\ e.try \in 0 .. MaxFails
      BY <3>1 DEF Push
    <3>3. \A x \in 0 .. MaxFails : x \in Nat
      BY ConstantFacts
    <3> QED
      BY <3>1, <3>2, <3>3, ConstantFacts
  <2>1. CASE e \notin Sent
    <3>1. CASE \E p \in Paths : ReplayWrite(p) /\ e.path = p /\ e.step = physical_step /\ e.try = fails
      <4>1. PICK p \in Paths : ReplayWrite(p) /\ e.path = p /\ e.step = physical_step /\ e.try = fails
        BY <3>1
      <4>2. UNCHANGED <<physical_step, fails, at, writes>> /\ at = "replay" /\ p \in todo /\ todo' = todo \ {p}
        BY <4>1 DEF ReplayWrite
      <4>3. ~CommittedPush(e)'
        BY <4>1, <4>2, <1>a DEF CommittedPush
      <4> QED
        BY <4>1, <4>2, <4>3, <1>a DEF ThreadTypes
    <3>2. CASE /\ BackfillPush
               /\ e.step = job.k /\ e.try = attempt[job.k]
               /\ e.path \in job.paths \cap written[job.k]
      <4>1. UNCHANGED <<physical_step, fails, written>> /\ job.k < physical_step
        BY <3>2, <1>a DEF BackfillPush, BackfillEnds, JobTypes
      <4>2. e.step <= physical_step /\ e.try <= fails /\ e.step # physical_step
        BY <3>2, <4>1, <2>0, <1>a DEF SentSteps
      <4> QED
        BY <3>2, <4>1, <4>2
    <3> QED
      BY <2>1, <3>1, <3>2, NewPushes, SentGrows
  <2>2. CASE e \in Sent
    <3>0. /\ e.step <= physical_step /\ e.try <= fails
          /\ CommittedPush(e) => e.path \in written[e.step]
          /\ e.step = physical_step /\ e.try = fails => at = "replay" /\ e.path \in writes \ todo
      BY <2>2 DEF SentSteps
    <3>1. e.step <= physical_step' /\ e.try <= fails'
      BY <3>0, <2>0, <1>a, <1>b, <1>c
    <3>2. CASE Commit
      <4>1. physical_step' = physical_step + 1 /\ fails' = fails
        BY <3>2 DEF Commit
      <4>2. e.step # physical_step'
        BY <3>0, <4>1, <2>0, <1>a
      <4>3. CASE e.step < physical_step
        <5>1. CommittedPush(e)' => CommittedPush(e)
          BY <4>3, <2>0, CommittedKept DEF CommittedPush
        <5> QED
          BY <3>1, <4>2, <4>3, <5>1, <3>0, <2>0, CommittedKept
      <4>4. CASE e.step = physical_step
        <5>1. attempt'[e.step] = fails /\ written'[e.step] = writes
          BY <3>2, <4>4, <2>0, <1>a DEF Commit, CommitTypes
        <5> QED
          BY <3>1, <4>2, <4>4, <5>1, <3>0 DEF CommittedPush
      <4> QED
        BY <4>3, <4>4, <3>0, <2>0, <1>a
    <3>3. CASE ~Commit
      <4>1. UNCHANGED <<physical_step, written, attempt>>
        BY <3>3, OnlyCommit
      <4>2. CommittedPush(e)' => e.path \in written'[e.step]
        BY <4>1, <3>0 DEF CommittedPush
      <4>3. CASE ReplayFails
        <5>1. fails' = fails + 1
          BY <4>3 DEF ReplayFails
        <5>2. e.try # fails'
          BY <5>1, <3>0, <2>0, <1>a
        <5> QED
          BY <5>2, <4>2, <3>1
      <4>4. CASE ~ReplayFails
        BY <3>0, <3>1, <3>3, <4>1, <4>2, <4>4, ReplayEffect
      <4> QED
        BY <4>3, <4>4
    <3> QED
      BY <3>2, <3>3
  <2> QED
    BY <2>1, <2>2
<1> QED
  BY <1>1, <1>2 DEF SentSteps


\* A reader goes from out to ready, to staging and back, and then is gone.
LEMMA StageEffect ==
    ASSUME IInv, [Next]_vars, NEW q \in Readers
    PROVE  /\ stage[q] # "out" => stage'[q] # "out"
           /\ stage[q] = "gone" => stage'[q] = "gone"
<1>a. ReaderTypes
  BY DEF IInv, Types
<1>1. CASE ReaderKept(q)
  BY <1>1 DEF ReaderKept
<1>2. CASE StepOf(q)
  BY <1>2, <1>a DEF StepOf, TakeBackfill, Join, MemberJoined, Leave, MemberLeft, EntriesPurged, Subscribe,
     SubscribeFrom, Stage, StageLost, Release, ReaderTypes, readerVars
<1> QED
  BY <1>1, <1>2, OthersKeep

\* Every push is to a reader that joined, on a path live for it, and a lost
\* one is accounted for.
LEMMA SentToStep == IInv /\ SentTo /\ [Next]_vars => SentTo'
<1> SUFFICES ASSUME IInv, SentTo, [Next]_vars PROVE SentTo'
  OBVIOUS
<1>a. TableTypes /\ TableTypes' /\ PushTypes' /\ ReaderTypes
  BY TypesStep DEF IInv, Types
<1>1. ASSUME NEW r \in members' PROVE stage'[r] # "out"
  <2>1. r \in Readers
    BY <1>a DEF TableTypes
  <2>2. CASE r \in members
    BY <2>1, <2>2, StageEffect DEF SentTo
  <2>3. CASE r \notin members
    <3>1. MemberJoined(r)
      BY <2>1, <2>3, OthersKeep DEF ReaderKept, StepOf, TakeBackfill, Join, MemberJoined, Leave,
        MemberLeft, EntriesPurged, Subscribe, SubscribeFrom, Stage, StageLost, Release, tableVars
    <3> QED
      BY <3>1 DEF MemberJoined, readerVars, Present
  <2> QED
    BY <2>2, <2>3
<1>2. ASSUME NEW e \in Sent'
      PROVE  /\ stage'[e.to] # "out"
             /\ sub_table'[e.to][e.path] = "live"
                \/ (sub_table'[e.to][e.path] = "none" /\ stage'[e.to] = "gone")
             /\ e \in lost' => stage'[e.to] = "gone" \/ "loss" \in Faults
  <2>0. e \in Push /\ e.to \in Readers /\ e.path \in Paths
    BY <1>a DEF PushTypes, Sent, Push
  <2>1. CASE e \notin Sent
    <3>1. UNCHANGED <<got, lost, stage, sub_table, members>> /\ e.to \in members
          /\ sub_table[e.to][e.path] = "live"
      BY <2>1, NewPushes, SentGrows
    <3>2. e \notin lost'
      BY <3>1, <2>1 DEF Sent
    <3> QED
      BY <3>1, <3>2 DEF SentTo
  <2>2. CASE e \in Sent
    <3>0. /\ stage[e.to] # "out"
          /\ sub_table[e.to][e.path] = "live"
             \/ (sub_table[e.to][e.path] = "none" /\ stage[e.to] = "gone")
          /\ e \in lost => stage[e.to] = "gone" \/ "loss" \in Faults
      BY <2>2 DEF SentTo
    <3>1. stage'[e.to] # "out" /\ (stage[e.to] = "gone" => stage'[e.to] = "gone")
      BY <2>0, <3>0, StageEffect
    <3>2. e \in lost => stage'[e.to] = "gone" \/ "loss" \in Faults
      BY <3>0, <3>1
    <3>3. ASSUME e \in lost', e \notin lost PROVE stage'[e.to] = "gone" \/ "loss" \in Faults
      <4>1. PICK d \in inflight : PushFails(d) /\ d = e
        BY <3>3, PushEffect DEF DataPush, PushFails
      <4>2. stage[e.to] \in Stages
        BY <2>0, <1>a DEF ReaderTypes
      <4> QED
        BY <4>1, <4>2, <3>0, <3>1 DEF PushFails, TimesOut, Present, Stages
    <3>4. sub_table'[e.to][e.path] = "live"
          \/ (sub_table'[e.to][e.path] = "none" /\ stage'[e.to] = "gone")
      <4>1. EntryEffect(e.to, e.path)
        BY <2>0, EntryChanges
      <4>2. CASE EntriesPurged(e.to)
        <5>1. sub_table'[e.to][e.path] = "none" /\ stage[e.to] = "gone"
          BY <4>2, <2>0, <1>a DEF EntriesPurged, TableTypes
        <5> QED
          BY <5>1, <3>1
      <4>3. CASE Stage(e.to, e.path)
        <5>1. stage[e.to] = "staging"
          BY <4>3 DEF Stage
        <5>2. sub_table[e.to][e.path] \in {"none", "staged"}
          BY <5>1, <2>0 DEF IInv, StagedOnce
        <5> QED
          BY <5>1, <5>2, <3>0
      <4>4. CASE sub_table[e.to][e.path] = "live" /\ ~EntriesPurged(e.to) /\ ~Stage(e.to, e.path)
        BY <4>1, <4>4 DEF EntryEffect, ReaderKept
      <4>5. CASE sub_table[e.to][e.path] = "none" /\ stage[e.to] = "gone"
                 /\ ~EntriesPurged(e.to) /\ ~Stage(e.to, e.path)
        <5>1. ~Subscribe(e.to, e.path)
          BY <4>5 DEF Subscribe
        <5> QED
          BY <4>1, <4>5, <5>1, <3>1 DEF EntryEffect, ReaderKept
      <4> QED
        BY <4>2, <4>3, <4>4, <4>5, <3>0
    <3> QED
      BY <3>0, <3>1, <3>2, <3>3, <3>4
  <2> QED
    BY <2>1, <2>2
<1> QED
  BY <1>1, <1>2 DEF SentTo

\* What the backfill's job is after a step: the one before, with its step
\* pushed or passed, a new one, or none.
LEMMA JobChanges ==
    ASSUME IInv, [Next]_vars
    PROVE  \/ UNCHANGED job
           \/ job' = NoJob
           \/ BackfillPush /\ job' = [job EXCEPT !.pushed = TRUE]
           \/ BackfillAnnounce /\ job' = [job EXCEPT !.k = job.k + 1, !.pushed = FALSE]
           \/ \E r \in Readers : TakeBackfill(r)
<1>a. JobTypes
  BY DEF IInv, Types
<1>1. CASE BackfillPush
  BY <1>1 DEF BackfillPush
<1>2. CASE BackfillAnnounce
  BY <1>a, <1>2 DEF BackfillAnnounce, JobTypes
<1>3. CASE BackfillDone
  BY <1>3 DEF BackfillDone
<1>4. CASE ~BackfillPush /\ ~BackfillAnnounce /\ ~BackfillDone /\ ~(\E r \in Readers : TakeBackfill(r))
  BY <1>4, ThreadSteps DEF ThreadStep, WriterRuns, threadVars, BeginStep, EndStep,
    FileClose, ReplayWrite, ReplayFails, Commit, Broadcast, AnnounceNext, Announce,
    AnnounceDone, ServeDone
<1> QED
  BY <1>1, <1>2, <1>3, <1>4


\* No push is issued twice: the replay reaches each write once, and a path
\* that a backfill takes had not been live before.
LEMMA IssuedFresh ==
    ASSUME IInv, SentSteps, SentOnce, [Next]_vars, NEW e \in inflight', e \notin inflight
    PROVE  e \notin Sent
<1>a. ThreadTypes /\ JobTypes /\ physical_step \in Nat /\ ThreadInv
  BY ConstantFacts DEF IInv, Types, ThreadTypes
<1>1. ASSUME e \in Sent, NEW p \in Paths, ReplayWrite(p), e.path = p, e.step = physical_step, e.try = fails
      PROVE  FALSE
  BY <1>1 DEF ReplayWrite, SentSteps
<1>2. ASSUME e \in Sent, BackfillPush, e.step = job.k, e.try = attempt[job.k], e.to \in job.member,
             e.path \in job.paths \cap written[job.k]
      PROVE  FALSE
  <2>1. job.k < physical_step /\ job.k <= job.k /\ ~job.pushed
    BY <1>2, <1>a DEF BackfillPush, BackfillEnds, JobTypes
  <2>2. CommittedPush(e)
    BY <1>2, <2>1 DEF CommittedPush
  <2> QED
    BY <1>2, <2>1, <2>2 DEF SentOnce
<1> QED
  BY <1>1, <1>2, NewPushes

\* Every push settles once, and a backfill has not sent what it still has to.
LEMMA SentOnceStep ==
    IInv /\ SentSteps /\ SentTo /\ SentOnce /\ [Next]_vars => SentOnce'
<1> SUFFICES ASSUME IInv, SentSteps, SentTo, SentOnce, [Next]_vars PROVE SentOnce'
  OBVIOUS
<1>a. ThreadTypes /\ JobTypes /\ physical_step \in Nat /\ ThreadInv /\ PushTypes' /\ PushTypes
  BY TypesStep, ConstantFacts DEF IInv, Types, ThreadTypes
<1>b. inflight \cap (got \cup lost) = {} /\ got \cap lost = {}
  BY DEF SentOnce
<1>1. inflight' \cap (got' \cup lost') = {} /\ got' \cap lost' = {}
  <2>1. CASE \E e \in inflight : DataPush(e) \/ PushFails(e)
    BY <2>1, <1>b DEF DataPush, PushFails
  <2>2. CASE UNCHANGED <<got, lost>> /\ inflight \subseteq inflight'
    <3>1. \A e \in inflight' : e \in inflight \/ e \notin got \cup lost
      BY IssuedFresh DEF Sent
    <3> QED
      BY <2>2, <3>1, <1>b
  <2> QED
    BY <2>1, <2>2, PushEffect
<1>2. ASSUME NEW e \in Sent', e.to \in job'.member, e.path \in job'.paths, CommittedPush(e)', job'.k <= e.step
      PROVE  job'.pushed /\ e.step = job'.k
  <2>0. e \in Push /\ e.step \in Nat /\ e.to \in Readers /\ e.path \in Paths
    <3>1. e \in Push
      BY <1>a DEF PushTypes, Sent
    <3> QED
      BY <3>1, ConstantFacts DEF Push
  <2>1. CASE e \notin Sent
    <3>1. CASE e.step = physical_step /\ \E p \in Paths : ReplayWrite(p)
      BY <3>1, <1>2, <1>a DEF ReplayWrite, CommittedPush
    <3>2. CASE BackfillPush /\ e.step = job.k
      BY <3>2, <1>a DEF BackfillPush, JobTypes
    <3> QED
      BY <2>1, <3>1, <3>2, NewPushes, SentGrows
  <2>2. CASE e \in Sent /\ Commit
    <3>1. job' = NoJob
      BY <2>2, <1>a DEF Commit, ThreadInv
    <3> QED
      BY <3>1, <1>2 DEF NoJob
  <2>3. CASE e \in Sent /\ ~Commit
    <3>1. CommittedPush(e)
      BY <2>3, <1>2, OnlyCommit DEF CommittedPush
    <3>2. e.to \in job.member /\ e.path \in job.paths /\ job.k <= e.step => job.pushed /\ e.step = job.k
      BY <2>3, <3>1 DEF SentOnce
    <3>3. CASE UNCHANGED job
      BY <3>2, <3>3, <1>2
    <3>4. CASE job' = NoJob
      BY <3>4, <1>2 DEF NoJob
    <3>5. CASE BackfillPush /\ job' = [job EXCEPT !.pushed = TRUE]
      <4>1. job'.member = job.member /\ job'.paths = job.paths /\ job'.k = job.k /\ ~job.pushed
        BY <3>5, <1>a DEF JobTypes, BackfillPush
      <4> QED
        BY <4>1, <3>2, <1>2
    <3>6. CASE BackfillAnnounce /\ job' = [job EXCEPT !.k = job.k + 1, !.pushed = FALSE]
      <4>1. job'.member = job.member /\ job'.paths = job.paths /\ job'.k = job.k + 1 /\ job.k \in Nat
        BY <3>6, <1>a DEF JobTypes
      <4>2. job.k <= e.step /\ e.step # job.k
        BY <4>1, <1>2, <2>0
      <4> QED
        BY <4>1, <4>2, <3>2, <1>2
    <3>7. ASSUME NEW r \in Readers, TakeBackfill(r) PROVE FALSE
      <4>1. e.to = r /\ e.path \in Released(r)
        BY <3>7, <1>2 DEF TakeBackfill
      <4>2. sub_table[e.to][e.path] = "released"
        BY <4>1 DEF Released
      <4> QED
        BY <4>2, <2>3 DEF SentTo
    <3> QED
      BY <3>3, <3>4, <3>5, <3>6, <3>7, JobChanges
  <2> QED
    BY <2>1, <2>2, <2>3
<1> QED
  BY <1>1, <1>2 DEF SentOnce

\* What a member is promised begins at the step it asked for, or at one that
\* had not been sent when it subscribed.
LEMMA PromiseBoundStep == IInv /\ PromiseBound /\ [Next]_vars => PromiseBound'
<1> SUFFICES ASSUME IInv, PromiseBound, [Next]_vars, NEW q \in members', NEW x \in Paths,
                    sub_table'[q][x] = "live"
             PROVE  since'[q][x] = backfill_from'[q] \/ since'[q][x] <= physical_step' + 1
  BY DEF PromiseBound
<1>a. TableTypes /\ TableTypes' /\ SinceTypes /\ q \in Readers /\ NextPushed \in Nat
  BY TypesStep, NextPushedType DEF IInv, Types, TableTypes
<1>b. physical_step \in Nat /\ physical_step' \in Nat /\ physical_step <= physical_step'
  BY StepGrows
<1>c. NextPushed <= physical_step + 1 /\ since[q][x] \in Nat
  BY <1>b, <1>a DEF NextPushed, SinceTypes
<1>d. NextPushed <= physical_step' + 1 /\ (since[q][x] <= physical_step + 1 => since[q][x] <= physical_step' + 1)
  <2>1. \A a, b, c \in Nat : a <= b + 1 /\ b <= c => a <= c + 1
    OBVIOUS
  <2> QED
    BY <2>1, <1>a, <1>b, <1>c
<1>e. q \in members /\ sub_table[q][x] = "live" =>
        since[q][x] = backfill_from[q] \/ since[q][x] <= physical_step + 1
  BY DEF PromiseBound
<1>f. sub_table[q][x] = "released" => since[q][x] = backfill_from[q]
  BY <1>a DEF IInv, StagedOnce
<1>1. backfill_from'[q] = backfill_from[q] \/ \E P \in SUBSET Paths, s \in StartSteps : SubscribeFrom(q, P, s)
  <2>1. CASE ReaderKept(q)
    BY <2>1 DEF ReaderKept
  <2>2. CASE StepOf(q)
    BY <2>2 DEF StepOf, TakeBackfill, Join, MemberJoined, Leave, MemberLeft, EntriesPurged, Subscribe,
       Stage, StageLost, Release, tableVars
  <2> QED
    BY <2>1, <2>2, <1>a, OthersKeep
<1>2. ASSUME NEW P \in SUBSET Paths, NEW s \in StartSteps, SubscribeFrom(q, P, s) PROVE FALSE
  BY <1>2, <1>a DEF SubscribeFrom, IInv, StagedOnce
<1>3. EntryEffect(q, x)
  BY <1>a, EntryChanges
<1>4. \/ since'[q][x] = NextPushed
      \/ since'[q][x] = since[q][x] /\ sub_table[q][x] = "released"
      \/ since'[q][x] = since[q][x] /\ q \in members /\ sub_table[q][x] = "live"
  BY <1>3 DEF EntryEffect, ReaderKept
<1> QED
  BY <1>1, <1>2, <1>4, <1>d, <1>e, <1>f


\* The invariant of the refinement holds at the start, ...
LEMMA InitChannelInv == Init => ChannelInv
<1> SUFFICES ASSUME Init PROVE ChannelInv
  OBVIOUS
<1>1. SentSteps /\ SentTo /\ SentOnce /\ PromiseBound
  <2>1. Sent = {} /\ physical_step = 0 /\ members = {} /\ inflight = {} /\ got = {} /\ lost = {}
    BY DEF Init, Sent
  <2>2. \A n \in Steps : ~(n < 0)
    BY ConstantFacts
  <2> QED
    BY <2>1, <2>2 DEF SentSteps, SentTo, SentOnce, PromiseBound
<1> QED
  BY <1>1, InitIInv DEF ChannelInv

\* ... and is inductive.
LEMMA ChannelInductive == ChannelInv /\ [Next]_vars => ChannelInv'
BY Inductive, SentStepsStep, SentToStep, SentOnceStep, PromiseBoundStep DEF ChannelInv

-----------------------------------------------------------------------------
(* The channel: the refinement mapping.                                    *)

LogOf == [i \in 1 .. physical_step |-> written[i - 1]]
Sessions == [r \in Readers |-> SessionOf(r)]
LiveOf(r) == {q \in Paths : sub_table[r][q] = "live"}
DueOf(r) == [p \in LiveOf(r) |-> since[r][p]]

\* The log, by steps.
LEMMA LogSteps ==
    ASSUME Types
    PROVE  /\ LogOf \in Seq(SUBSET Paths) /\ Len(LogOf) = physical_step /\ physical_step \in Nat
           /\ \A n \in Nat : n < physical_step => LogOf[n + 1] = written[n]
<1>a. physical_step \in Nat /\ written \in [Steps -> SUBSET Paths]
  BY ConstantFacts DEF Types, ThreadTypes, CommitTypes
<1>1. ASSUME NEW i \in 1 .. physical_step PROVE written[i - 1] \in SUBSET Paths
  <2>1. i - 1 \in Steps
    BY <1>1, <1>a, ConstantFacts DEF Types, ThreadTypes, Steps
  <2> QED
    BY <2>1, <1>a
<1>2. LogOf \in Seq(SUBSET Paths)
  BY <1>1, <1>a DEF LogOf
<1>3. Len(LogOf) = physical_step
  BY <1>2, <1>a DEF LogOf
<1>4. ASSUME NEW n \in Nat, n < physical_step PROVE LogOf[n + 1] = written[n]
  <2>1. n + 1 \in 1 .. physical_step /\ (n + 1) - 1 = n
    BY <1>4, <1>a
  <2> QED
    BY <2>1 DEF LogOf
<1> QED
  BY <1>2, <1>3, <1>4, <1>a

\* A member that waits for no backfill has a session.
LEMMA SessionIn ==
    ASSUME NEW r, InSession(r)
    PROVE  /\ SessionOf(r) = [open |-> TRUE, first |-> from[r], heard |-> Announced(r), due |-> DueOf(r)]
           /\ SessionOf(r).open /\ SessionOf(r).first = from[r]
           /\ SessionOf(r).heard = Announced(r) /\ SessionOf(r).due = DueOf(r)
BY DEF SessionOf, DueOf, LiveOf

\* Any other reader has none.
LEMMA SessionOut ==
    ASSUME NEW r, ~InSession(r)
    PROVE  SessionOf(r) = Channel!NoSession /\ ~SessionOf(r).open
BY DEF SessionOf, Channel!NoSession

\* What a session consists of did not change: nor did the session.
LEMMA SessionSame ==
    ASSUME NEW q, InSession(q)' <=> InSession(q), LiveOf(q)' = LiveOf(q),
           UNCHANGED <<told[q], mark[q], from[q], since[q]>>
    PROVE  SessionOf(q)' = SessionOf(q)
<1>1. Announced(q)' = Announced(q)
  BY DEF Announced
<1>2. DueOf(q)' = DueOf(q)
  BY DEF DueOf
<1> QED
  BY <1>1, <1>2 DEF SessionOf, DueOf, LiveOf

\* Nothing about q changed: nor did its session.
LEMMA SessionKept ==
    ASSUME NEW q, ReaderKept(q), told'[q] = told[q]
    PROVE  SessionOf(q)' = SessionOf(q)
<1>1. InSession(q)' <=> InSession(q)
  BY DEF InSession, Backfilling, ReaderKept
<1>2. LiveOf(q)' = LiveOf(q)
  BY DEF LiveOf, ReaderKept
<1> QED
  BY <1>1, <1>2, SessionSame DEF ReaderKept

\* The sessions after a step that concerns only r.
LEMMA SessionsExcept ==
    ASSUME NEW r \in Readers, \A q \in Readers \ {r} : SessionOf(q)' = SessionOf(q)
    PROVE  /\ Sessions' = [Sessions EXCEPT ![r] = SessionOf(r)']
           /\ SessionOf(r)' = SessionOf(r) => Sessions' = Sessions
BY DEF Sessions

\* Unless a step commits, or a push completes, the log and the items stay.
LEMMA ItemsKept ==
    ASSUME [Next]_vars, ~Commit
    PROVE  /\ LogOf' = LogOf
           /\ got' = got => ItemsOf(got)' = ItemsOf(got)
           /\ lost' = lost => ItemsOf(lost)' = ItemsOf(lost)
BY OnlyCommit DEF LogOf, ItemsOf, CommittedPush

\* An item stands for one push.
LEMMA ItemsApart ==
    ASSUME NEW A, NEW B, A \subseteq Push, B \subseteq Push, A \cap B = {}
    PROVE  ItemsOf(A) \cap ItemsOf(B) = {}
<1> SUFFICES ASSUME NEW i \in ItemsOf(A), i \in ItemsOf(B) PROVE FALSE
  OBVIOUS
<1>1. PICK d \in A : CommittedPush(d) /\ i = [to |-> d.to, step |-> d.step, path |-> d.path]
  BY DEF ItemsOf
<1>2. PICK e \in B : CommittedPush(e) /\ i = [to |-> e.to, step |-> e.step, path |-> e.path]
  BY DEF ItemsOf
<1>3. d.to = e.to /\ d.step = e.step /\ d.path = e.path
  BY <1>1, <1>2
<1>4. d.try = e.try
  BY <1>1, <1>2, <1>3 DEF CommittedPush
<1>5. d \in Push /\ e \in Push
  OBVIOUS
<1>6. d = e
  BY <1>3, <1>4, <1>5 DEF Push
<1> QED
  BY <1>6


ApartPushes == got \cap lost = {}
ApartItems == ItemsOf(got) \cap ItemsOf(lost) = {}

\* No item has both arrived and been lost, ...
LEMMA SettledApart == PushTypes /\ ApartPushes => ApartItems
BY ItemsApart DEF PushTypes, ApartPushes, ApartItems

\* ... nor after a step.
LEMMA SettledApartNext == PushTypes' /\ ApartPushes' => ApartItems'
BY SettledApart, PTL

\* The next step of a session is the one that the writer tells of next.
LEMMA NextOfSession ==
    ASSUME IInv, NEW r \in Readers, InSession(r)
    PROVE  /\ from[r] \in Nat /\ Len(Announced(r)) \in Nat /\ mark[r] \in Nat
           /\ from[r] + Len(Announced(r)) = NextTold(r)
           /\ mark[r] <= Len(told[r])
<1>a. Types /\ physical_step \in Nat /\ job.k \in Nat /\ (physical_step > 0 => physical_step - 1 \in Nat)
  BY ConstantFacts DEF IInv, Types, ThreadTypes, JobTypes
<1>b. from[r] \in Nat /\ mark[r] \in Nat /\ told[r] \in Seq(0 .. physical_step - 1)
  BY <1>a, ConstantFacts DEF Types, FromTypes, ToldTypes
<1>1. Row(told[r], mark[r], from[r], NextTold(r))
  BY OnceSplit DEF IInv, InSession
<1>2. from[r] <= NextTold(r) /\ Len(told[r]) = mark[r] + (NextTold(r) - from[r])
  BY <1>1 DEF Row
<1>3. Len(Announced(r)) = IF mark[r] <= Len(told[r]) THEN Len(told[r]) - mark[r] ELSE 0
  BY <1>a, AnnouncedPositions
<1>4. NextTold(r) \in Int
  BY <1>a DEF NextTold
<1>5. Len(told[r]) \in Nat
  BY <1>b
<1> DEFINE n == NextTold(r)
           l == Len(told[r])
           a == Len(Announced(r))
<1> HIDE DEF n, l, a
<1>6. from[r] <= n /\ l = mark[r] + (n - from[r]) /\ a = (IF mark[r] <= l THEN l - mark[r] ELSE 0)
      /\ n \in Int /\ l \in Nat
  BY <1>2, <1>3, <1>4, <1>5 DEF n, l, a
<1>7. a \in Nat /\ from[r] + a = n /\ mark[r] <= l
  BY <1>6, <1>b
<1> QED
  BY <1>7, <1>b DEF n, l, a

\* A commit is one of the channel: every session is up to date by then, and
\* the items of the step that have settled are ones that it wrote.
LEMMA CommitRefines == ASSUME ChannelInv, [Next]_vars, Commit PROVE Channel!Commit
<1>a. IInv /\ Types /\ IInv' /\ Types' /\ ThreadInv /\ PushTypes /\ ThreadTypes
  BY Inductive DEF ChannelInv, IInv, Types
<1>b. at = "replay" /\ physical_step' = physical_step + 1 /\ writes \in SUBSET Paths
      /\ UNCHANGED <<members, sub_table, backfill_from, stage, has_subscribed, to_stage,
                     told, mark, stray, from, since, got, lost>>
  BY <1>a DEF Commit, tableVars, readerVars, toldVars, pushVars, ThreadTypes
<1>c. Len(LogOf) = physical_step /\ physical_step \in Nat /\ LogOf \in Seq(SUBSET Paths)
  BY <1>a, LogSteps
<1>1. \A r \in Readers : SessionOf(r).open => SessionOf(r).first + Len(SessionOf(r).heard) = Len(LogOf)
  <2> SUFFICES ASSUME NEW r \in Readers, SessionOf(r).open
               PROVE  SessionOf(r).first + Len(SessionOf(r).heard) = Len(LogOf)
    OBVIOUS
  <2>1. InSession(r)
    BY SessionOut
  <2>2. NextTold(r) = physical_step
    BY <1>a, <1>b DEF NextTold, ThreadInv, NoJob
  <2>3. from[r] + Len(Announced(r)) = physical_step
    BY <2>1, <2>2, <1>a, NextOfSession
  <2> QED
    BY <2>1, <2>3, <1>c, SessionIn
<1>2. LogOf' = Append(LogOf, writes)
  <2>1. ASSUME NEW i \in 1 .. physical_step PROVE written'[i - 1] = written[i - 1]
    <3>1. i - 1 \in Nat /\ i - 1 < physical_step
      BY <2>1, <1>c
    <3> QED
      BY <3>1, <1>a, CommittedKept
  <2>2. written'[physical_step] = writes
    BY <1>a DEF Commit, CommitTypes, Types, ThreadTypes
  <2> DEFINE t == Append(LogOf, writes)
  <2>3. t = [i \in 1 .. physical_step + 1 |->
               IF i = physical_step + 1 THEN writes ELSE LogOf[i]]
    <3>1. /\ Len(t) = physical_step + 1 /\ t[physical_step + 1] = writes
          /\ \A i \in Nat : (0 < i /\ i <= physical_step) => t[i] = LogOf[i]
      BY <1>b, <1>c, ToldPositions
    <3>2. t \in Seq(SUBSET Paths)
      BY <1>b, <1>c
    <3> HIDE DEF t
    <3>3. t = [i \in 1 .. Len(t) |-> t[i]]
      BY <3>2
    <3>4. ASSUME NEW i \in 1 .. physical_step + 1
          PROVE  t[i] = IF i = physical_step + 1 THEN writes ELSE LogOf[i]
      BY <3>1, <1>c
    <3> QED
      BY <3>1, <3>3, <3>4
  <2> HIDE DEF t
  <2>4. ASSUME NEW i \in 1 .. physical_step + 1
        PROVE  written'[i - 1] = IF i = physical_step + 1 THEN writes ELSE LogOf[i]
    <3>1. CASE i = physical_step + 1
      BY <3>1, <2>2, <1>c
    <3>2. CASE i # physical_step + 1
      <4>1. i \in 1 .. physical_step
        BY <3>2, <1>c
      <4> QED
        BY <3>2, <4>1, <2>1 DEF LogOf
    <3> QED
      BY <3>1, <3>2
  <2>5. LogOf' = [i \in 1 .. physical_step + 1 |-> written'[i - 1]]
    BY <1>b DEF LogOf
  <2> QED
    BY <2>3, <2>4, <2>5 DEF t
<1>3. ASSUME NEW S \in SUBSET Sent, S' = S
      PROVE  /\ ItemsOf(S) \subseteq ItemsOf(S)'
             /\ \A i \in ItemsOf(S)' \ ItemsOf(S) : \E e \in S :
                   /\ i = [to |-> e.to, step |-> physical_step, path |-> e.path]
                   /\ e.path \in writes /\ e.to \in Readers
  <2>0. \A e \in S : e \in Push /\ e.step \in Nat /\ e.step \in Steps
    <3>1. \A e \in S : e \in Push
      BY <1>a DEF PushTypes, Sent
    <3> QED
      BY <3>1, ConstantFacts DEF Push
  <2>1. ASSUME NEW e \in S PROVE CommittedPush(e) => CommittedPush(e)'
    BY <2>0, <1>a, <1>b, <1>c, CommittedKept DEF CommittedPush
  <2>2. ASSUME NEW e \in S, CommittedPush(e)', ~CommittedPush(e)
        PROVE  e.step = physical_step /\ e.path \in writes /\ e.to \in Readers
    <3>1. e.step = physical_step
      <4>1. e.step < physical_step + 1
        BY <2>2, <1>b DEF CommittedPush
      <4>2. e.step < physical_step => CommittedPush(e)
        BY <2>2, <2>0, <1>a, CommittedKept DEF CommittedPush
      <4> QED
        BY <4>1, <4>2, <2>2, <2>0, <1>c
    <3>2. attempt'[physical_step] = fails
      BY <1>a DEF Commit, CommitTypes, Types, ThreadTypes
    <3>3. e.try = fails
      BY <2>2, <3>1, <3>2 DEF CommittedPush
    <3>4. e \in Sent /\ e \in Push
      BY <2>0
    <3> QED
      BY <3>1, <3>3, <3>4 DEF ChannelInv, SentSteps, Push
  <2>3. ItemsOf(S)' = {[to |-> e.to, step |-> e.step, path |-> e.path] : e \in {x \in S : CommittedPush(x)'}}
    BY <1>3 DEF ItemsOf
  <2>4. ItemsOf(S) \subseteq ItemsOf(S)'
    BY <2>1, <2>3 DEF ItemsOf
  <2>5. ASSUME NEW i \in ItemsOf(S)' \ ItemsOf(S)
        PROVE  \E e \in S : /\ i = [to |-> e.to, step |-> physical_step, path |-> e.path]
                            /\ e.path \in writes /\ e.to \in Readers
    <3>1. PICK e \in S : CommittedPush(e)' /\ i = [to |-> e.to, step |-> e.step, path |-> e.path]
      BY <2>3, <2>5
    <3>2. ~CommittedPush(e)
      BY <2>5, <3>1 DEF ItemsOf
    <3> QED
      BY <3>1, <3>2, <2>2
  <2> QED
    BY <2>4, <2>5
<1>4. got' = got /\ lost' = lost /\ got \in SUBSET Sent /\ lost \in SUBSET Sent
  BY <1>b DEF Sent
<1>5. (ItemsOf(got)' \ ItemsOf(got)) \cup (ItemsOf(lost)' \ ItemsOf(lost))
         \subseteq {[to |-> r, step |-> Len(LogOf), path |-> p] : r \in Readers, p \in writes}
  BY <1>3, <1>4, <1>c
<1>6. ItemsOf(got)' \cap ItemsOf(lost)' = {}
  <2>1. PushTypes' /\ got' \cap lost' = {}
    BY <1>a, <1>b DEF ChannelInv, SentOnce, Types
  <2> QED
    BY <2>1, SettledApartNext DEF ApartPushes, ApartItems
<1>7. \A i \in ItemsOf(lost)' \ ItemsOf(lost) : "loss" \in Faults \/ stage[i.to] = "gone"
  <2> SUFFICES ASSUME NEW i \in ItemsOf(lost)' \ ItemsOf(lost) PROVE "loss" \in Faults \/ stage[i.to] = "gone"
    OBVIOUS
  <2>1. PICK e \in lost : i = [to |-> e.to, step |-> physical_step, path |-> e.path]
    BY <1>3, <1>4
  <2> QED
    BY <2>1 DEF ChannelInv, SentTo, Sent
<1>8. Sessions' = Sessions
  <2>1. \A r \in Readers : SessionOf(r)' = SessionOf(r)
    BY <1>b, SessionKept DEF ReaderKept
  <2> QED
    BY <2>1 DEF Sessions
<1>9. ItemsOf(got) \subseteq ItemsOf(got)' /\ ItemsOf(lost) \subseteq ItemsOf(lost)'
  BY <1>3, <1>4
<1>10. \E W \in SUBSET Paths :
          /\ LogOf' = Append(LogOf, W)
          /\ (ItemsOf(got)' \ ItemsOf(got)) \cup (ItemsOf(lost)' \ ItemsOf(lost))
                \subseteq {[to |-> r, step |-> Len(LogOf), path |-> p] : r \in Readers, p \in W}
  BY <1>2, <1>5, <1>b
<1>11. \A r \in Readers : Sessions[r].open => Sessions[r].first + Len(Sessions[r].heard) = Len(LogOf)
  BY <1>1 DEF Sessions
<1> HIDE DEF LogOf, Sessions
<1>12. Channel!Commit <=>
          /\ \A r \in Readers : Sessions[r].open => Sessions[r].first + Len(Sessions[r].heard) = Len(LogOf)
          /\ \E W \in SUBSET Paths :
                /\ LogOf' = Append(LogOf, W)
                /\ (ItemsOf(got)' \ ItemsOf(got)) \cup (ItemsOf(lost)' \ ItemsOf(lost))
                      \subseteq {[to |-> r, step |-> Len(LogOf), path |-> p] : r \in Readers, p \in W}
          /\ ItemsOf(got) \subseteq ItemsOf(got)' /\ ItemsOf(lost) \subseteq ItemsOf(lost)'
          /\ ItemsOf(got)' \cap ItemsOf(lost)' = {}
          /\ \A i \in ItemsOf(lost)' \ ItemsOf(lost) : "loss" \in Faults \/ stage[i.to] = "gone"
          /\ UNCHANGED <<stage, backfill_from, Sessions>>
  BY DEF Channel!Commit, Channel!NextStep, Channel!Item, Channel!MayLose, LogOf, Sessions
<1> QED
  BY <1>6, <1>7, <1>8, <1>9, <1>10, <1>11, <1>12, <1>b


\* The item of a push.
ItemOf(e) == [to |-> e.to, step |-> e.step, path |-> e.path]

\* One more push among those that settled: one more item, or none when it was
\* of an attempt that failed or is still being replayed.
LEMMA ItemAdded ==
    ASSUME NEW S, NEW e
    PROVE  ItemsOf(S \cup {e}) = ItemsOf(S) \cup (IF CommittedPush(e) THEN {ItemOf(e)} ELSE {})
BY DEF ItemsOf, ItemOf

\* The push that completes: its item has not settled before.
LEMMA SettlingItem ==
    ASSUME ChannelInv, NEW e \in inflight, CommittedPush(e)
    PROVE  /\ e.to \in Readers /\ e.path \in Paths /\ e.step \in 0 .. Len(LogOf) - 1
           /\ e.path \in LogOf[e.step + 1]
           /\ ItemOf(e) \notin ItemsOf(got) \cup ItemsOf(lost)
<1>a. Types /\ PushTypes /\ Len(LogOf) = physical_step /\ physical_step \in Nat
  BY LogSteps DEF ChannelInv, IInv, Types
<1>b. e \in Push /\ e \in Sent
  BY <1>a DEF PushTypes, Sent
<1>c. e.to \in Readers /\ e.path \in Paths /\ e.step \in Nat
  BY <1>b, ConstantFacts DEF Push
<1>1. e.step < physical_step /\ e.path \in written[e.step]
  BY <1>b DEF ChannelInv, SentSteps, CommittedPush
<1>2. LogOf[e.step + 1] = written[e.step]
  BY <1>1, <1>a, <1>c, LogSteps
<1>3. {e} \cap (got \cup lost) = {}
  BY DEF ChannelInv, SentOnce
<1>4. ItemsOf({e}) \cap ItemsOf(got \cup lost) = {}
  BY <1>3, <1>b, <1>a, ItemsApart DEF PushTypes
<1>5. ItemOf(e) \in ItemsOf({e}) /\ ItemsOf(got \cup lost) = ItemsOf(got) \cup ItemsOf(lost)
  BY DEF ItemsOf, ItemOf
<1>6. e.step \in 0 .. physical_step - 1
  BY <1>1, <1>a, <1>c
<1>7. ItemOf(e) \notin ItemsOf(got) \cup ItemsOf(lost)
  BY <1>4, <1>5, Zenon
<1> QED
  BY <1>1, <1>2, <1>6, <1>7, <1>a, <1>c

\* What Channel!Arrive and Channel!Lose say of an item of the mapping.
LEMMA SettleUnfolds ==
    ASSUME NEW r, NEW n, NEW p
    PROVE  /\ Channel!Arrive(Channel!Item(r, n, p)) <=>
                /\ p \in LogOf[n + 1]
                /\ [to |-> r, step |-> n, path |-> p] \notin ItemsOf(got) \cup ItemsOf(lost)
                /\ stage[r] \in {"ready", "staging"}
                /\ ItemsOf(got)' = ItemsOf(got) \cup {[to |-> r, step |-> n, path |-> p]}
                /\ LogOf' = LogOf /\ Sessions' = Sessions /\ ItemsOf(lost)' = ItemsOf(lost)
                /\ UNCHANGED <<stage, backfill_from>>
           /\ Channel!Lose(Channel!Item(r, n, p)) <=>
                /\ p \in LogOf[n + 1]
                /\ [to |-> r, step |-> n, path |-> p] \notin ItemsOf(got) \cup ItemsOf(lost)
                /\ "loss" \in Faults \/ stage[r] = "gone"
                /\ ItemsOf(lost)' = ItemsOf(lost) \cup {[to |-> r, step |-> n, path |-> p]}
                /\ LogOf' = LogOf /\ Sessions' = Sessions /\ ItemsOf(got)' = ItemsOf(got)
                /\ UNCHANGED <<stage, backfill_from>>
<1> DEFINE i == [to |-> r, step |-> n, path |-> p]
<1>1. i.to = r /\ i.step = n /\ i.path = p
  OBVIOUS
<1>2. Channel!Item(r, n, p) = i
  BY DEF Channel!Item
<1> HIDE DEF i
<1>3. Channel!Arrive(i) <=>
        /\ i.path \in LogOf[i.step + 1]
        /\ i \notin ItemsOf(got) \cup ItemsOf(lost)
        /\ stage[i.to] \in {"ready", "staging"}
        /\ ItemsOf(got)' = ItemsOf(got) \cup {i}
        /\ LogOf' = LogOf /\ Sessions' = Sessions /\ ItemsOf(lost)' = ItemsOf(lost)
        /\ UNCHANGED <<stage, backfill_from>>
  BY DEF Channel!Arrive, Channel!Settles, LogOf, Sessions
<1>4. Channel!Lose(i) <=>
        /\ i.path \in LogOf[i.step + 1]
        /\ i \notin ItemsOf(got) \cup ItemsOf(lost)
        /\ "loss" \in Faults \/ stage[i.to] = "gone"
        /\ ItemsOf(lost)' = ItemsOf(lost) \cup {i}
        /\ LogOf' = LogOf /\ Sessions' = Sessions /\ ItemsOf(got)' = ItemsOf(got)
        /\ UNCHANGED <<stage, backfill_from>>
  BY DEF Channel!Lose, Channel!Settles, Channel!MayLose, LogOf, Sessions
<1> QED
  BY <1>1, <1>2, <1>3, <1>4 DEF i

\* The channel's variables, mapped, stay.
Stutter ==
    /\ LogOf' = LogOf /\ Sessions' = Sessions
    /\ ItemsOf(got)' = ItemsOf(got) /\ ItemsOf(lost)' = ItemsOf(lost)
    /\ UNCHANGED <<stage, backfill_from>>

\* That is a stuttering step of the channel.
LEMMA StutterUnfolds == Stutter => UNCHANGED Channel!vars
BY DEF Stutter, Channel!vars, LogOf, Sessions

\* A push that completes settles an item, or nothing that the channel knows.
LEMMA CompletesRefines ==
    ASSUME ChannelInv, [Next]_vars, NEW e \in inflight, DataPush(e) \/ PushFails(e), ~Commit
    PROVE  Channel!Next \/ Stutter
<1>a. IInv /\ ReaderTypes /\ PushTypes
  BY DEF ChannelInv, IInv, Types
<1>b. /\ UNCHANGED <<members, sub_table, backfill_from, stage, told, mark, stray, from, since, has_subscribed,
                     to_stage>>
      /\ UNCHANGED <<physical_step, attempt>>
  BY DEF DataPush, PushFails, tableVars, readerVars, toldVars, threadVars
<1>1. Sessions' = Sessions
  <2>1. \A r \in Readers : SessionOf(r)' = SessionOf(r)
    BY <1>b, SessionKept DEF ReaderKept
  <2> QED
    BY <2>1 DEF Sessions
<1>2. LogOf' = LogOf
  BY ItemsKept
<1>3. CASE DataPush(e)
  <2>1. got' = got \cup {e} /\ lost' = lost /\ stage[e.to] \in {"ready", "staging"}
    BY <1>3 DEF DataPush, Present
  <2>2. ItemsOf(got)' = ItemsOf(got \cup {e}) /\ ItemsOf(lost)' = ItemsOf(lost)
    BY <2>1, <1>b DEF ItemsOf, CommittedPush
  <2>3. CASE CommittedPush(e)
    <3>1. ItemsOf(got)' = ItemsOf(got) \cup {ItemOf(e)}
      BY <2>2, <2>3, ItemAdded
    <3>2. Channel!Arrive(Channel!Item(e.to, e.step, e.path))
      BY <1>1, <1>2, <2>1, <2>2, <2>3, <3>1, <1>b, SettlingItem, SettleUnfolds DEF ItemOf
    <3>3. e.to \in Readers /\ e.path \in Paths /\ e.step \in 0 .. Len(LogOf) - 1
      BY <2>3, SettlingItem
    <3> QED
      BY <3>2, <3>3 DEF Channel!Next, LogOf
  <2>4. CASE ~CommittedPush(e)
    BY <2>2, <2>4, <1>1, <1>2, <1>b, ItemAdded DEF Stutter
  <2> QED
    BY <2>3, <2>4
<1>4. CASE PushFails(e)
  <2>1. lost' = lost \cup {e} /\ got' = got /\ (~Present(e.to) \/ "loss" \in Faults)
    BY <1>4 DEF PushFails, TimesOut
  <2>2. ItemsOf(lost)' = ItemsOf(lost \cup {e}) /\ ItemsOf(got)' = ItemsOf(got)
    BY <2>1, <1>b DEF ItemsOf, CommittedPush
  <2>3. CASE CommittedPush(e)
    <3>1. ItemsOf(lost)' = ItemsOf(lost) \cup {ItemOf(e)}
      BY <2>2, <2>3, ItemAdded
    <3>2. e.to \in Readers /\ e.path \in Paths /\ e.step \in 0 .. Len(LogOf) - 1
      BY <2>3, SettlingItem
    <3>3. "loss" \in Faults \/ stage[e.to] = "gone"
      <4>1. stage[e.to] \in Stages /\ stage[e.to] # "out"
        BY <3>2, <1>a DEF ReaderTypes, ChannelInv, SentTo, Sent
      <4> QED
        BY <4>1, <2>1 DEF Present, Stages
    <3>4. Channel!Lose(Channel!Item(e.to, e.step, e.path))
      BY <1>1, <1>2, <2>1, <2>2, <2>3, <3>1, <3>3, <1>b, SettlingItem, SettleUnfolds DEF ItemOf
    <3> QED
      BY <3>2, <3>4 DEF Channel!Next, LogOf
  <2>4. CASE ~CommittedPush(e)
    BY <2>2, <2>4, <1>1, <1>2, <1>b, ItemAdded DEF Stutter
  <2> QED
    BY <2>3, <2>4
<1> QED
  BY <1>3, <1>4


\* What a reader has heard, one announcement later.
LEMMA AnnouncedAppend ==
    ASSUME Types, NEW r \in Readers, NEW n \in 0 .. physical_step - 1, mark[r] <= Len(told[r]),
           told'[r] = Append(told[r], n), mark'[r] = mark[r]
    PROVE  Announced(r)' = Append(Announced(r), n)
<1> DEFINE S == 0 .. physical_step - 1
           s == told[r]
           m == mark[r]
           t == Append(s, n)
           a == SubSeq(s, m + 1, Len(s))
           b == SubSeq(t, m + 1, Len(t))
           c == Append(a, n)
<1>1. s \in Seq(S) /\ m \in Nat /\ n \in S /\ m <= Len(s) /\ Len(s) \in Nat
  BY DEF Types, ToldTypes, FromTypes
<1>2. Announced(r)' = b /\ Announced(r) = a
  BY DEF Announced
<1> HIDE DEF S, s, m
<1>3. /\ Len(t) = Len(s) + 1 /\ t \in Seq(S) /\ t[Len(s) + 1] = n
      /\ \A i \in Nat : (0 < i /\ i <= Len(s)) => t[i] = s[i]
  BY <1>1, ToldPositions
<1> HIDE DEF t
<1>4. a \in Seq(S) /\ a = [i \in 1 .. Len(s) - m |-> s[i + m]] /\ Len(a) = Len(s) - m
  <2>1. a = [i \in 1 .. (1 + Len(s) - (m + 1)) |-> s[i + (m + 1) - 1]]
    BY <1>1
  <2>2. 1 .. (1 + Len(s) - (m + 1)) = 1 .. Len(s) - m
    BY <1>1
  <2>3. \A i \in 1 .. Len(s) - m : s[i + (m + 1) - 1] = s[i + m]
    BY <1>1
  <2>4. a = [i \in 1 .. Len(s) - m |-> s[i + m]]
    BY <2>1, <2>2, <2>3
  <2>5. ASSUME NEW i \in 1 .. Len(s) - m PROVE s[i + m] \in S
    <3>1. i + m \in 1 .. Len(s)
      BY <1>1
    <3> QED
      BY <3>1, <1>1, ElementOfSeq
  <2>6. Len(s) - m \in Nat
    BY <1>1
  <2> HIDE DEF a
  <2>7. a \in Seq(S)
    BY <2>4, <2>5, <2>6
  <2>8. Len(a) = Len(s) - m
    BY <2>4, <2>6, <2>7
  <2> QED
    BY <2>4, <2>7, <2>8
<1>5. b = [i \in 1 .. Len(s) + 1 - m |-> t[i + m]]
  <2>0. t \in Seq(S) /\ m \in Nat /\ Len(t) \in Nat
    BY <1>1, <1>3
  <2>1. b = [i \in 1 .. (1 + Len(t) - (m + 1)) |-> t[i + (m + 1) - 1]]
    BY <2>0
  <2>2. 1 .. (1 + Len(t) - (m + 1)) = 1 .. Len(s) + 1 - m
    BY <1>1, <1>3
  <2>3. \A i \in 1 .. Len(s) + 1 - m : t[i + (m + 1) - 1] = t[i + m]
    BY <1>1
  <2> QED
    BY <2>1, <2>2, <2>3
<1> HIDE DEF a, b
<1>6. /\ c \in Seq(S) /\ Len(c) = Len(s) + 1 - m /\ c[Len(s) + 1 - m] = n
      /\ \A i \in Nat : (0 < i /\ i <= Len(s) - m) => c[i] = a[i]
  <2>1. Len(c) = Len(a) + 1 /\ c[Len(a) + 1] = n /\ c \in Seq(S)
        /\ \A i \in Nat : (0 < i /\ i <= Len(a)) => c[i] = a[i]
    BY <1>1, <1>4, ToldPositions
  <2>2. Len(a) + 1 = Len(s) + 1 - m
    BY <1>1, <1>4
  <2> QED
    BY <2>1, <2>2, <1>4
<1> HIDE DEF c
<1>7. c = [i \in 1 .. Len(s) + 1 - m |-> c[i]]
  BY <1>6
<1>8. ASSUME NEW i \in 1 .. Len(s) + 1 - m PROVE c[i] = t[i + m]
  <2>1. CASE i = Len(s) + 1 - m
    BY <2>1, <1>1, <1>3, <1>6
  <2>2. CASE i # Len(s) + 1 - m
    <3>1. i \in 1 .. Len(s) - m /\ i \in Nat /\ 0 < i /\ i <= Len(s) - m
          /\ i + m \in Nat /\ 0 < i + m /\ i + m <= Len(s)
      BY <2>2, <1>1
    <3>2. c[i] = a[i] /\ t[i + m] = s[i + m]
      BY <3>1, <1>3, <1>6
    <3>3. a[i] = s[i + m]
      BY <3>1, <1>4
    <3> QED
      BY <3>2, <3>3
  <2> QED
    BY <2>1, <2>2
<1>9. b = c
  BY <1>5, <1>7, <1>8
<1> QED
  BY <1>2, <1>9 DEF c


\* A record that differs in heard, ...
LEMMA RecordHeard ==
    ASSUME NEW F, NEW H, NEW D, NEW s \in [open : BOOLEAN, first : F, heard : H, due : D], NEW b,
           NEW t \in [open : BOOLEAN, first : F, heard : {b}, due : D],
           t.open = s.open, t.first = s.first, t.due = s.due
    PROVE  t = [s EXCEPT !.heard = b]
OBVIOUS

\* ... or in due.
LEMMA RecordDue ==
    ASSUME NEW F, NEW H, NEW D, NEW s \in [open : BOOLEAN, first : F, heard : H, due : D], NEW b,
           NEW t \in [open : BOOLEAN, first : F, heard : H, due : {b}],
           t.open = s.open, t.first = s.first, t.heard = s.heard
    PROVE  t = [s EXCEPT !.due = b]
OBVIOUS

\* What Channel!Tell says of the mapped sessions.
LEMMA TellUnfolds ==
    ASSUME NEW r \in Readers, NEW n, n = SessionOf(r).first + Len(SessionOf(r).heard),
           SessionOf(r).open, n < Len(LogOf),
           \A p \in DOMAIN SessionOf(r).due :
              SessionOf(r).due[p] <= n /\ p \in LogOf[n + 1] =>
                 [to |-> r, step |-> n, path |-> p] \in ItemsOf(got) \cup ItemsOf(lost),
           Sessions' = [Sessions EXCEPT ![r].heard = Append(Sessions[r].heard, n)],
           LogOf' = LogOf, ItemsOf(got)' = ItemsOf(got), ItemsOf(lost)' = ItemsOf(lost),
           UNCHANGED <<stage, backfill_from>>
    PROVE  Channel!Tell(r)
<1>1. Channel!NextStep(r) = n
  BY DEF Channel!NextStep, Sessions
<1>2. Sessions[r] = SessionOf(r)
  BY DEF Sessions
<1> DEFINE k == Channel!NextStep(r)
<1> HIDE DEF k
<1>3. Channel!Tell(r) <=>
        /\ Sessions[r].open
        /\ k < Len(LogOf)
        /\ \A p \in DOMAIN Sessions[r].due :
              Sessions[r].due[p] <= k /\ p \in LogOf[k + 1] =>
                 [to |-> r, step |-> k, path |-> p] \in ItemsOf(got) \cup ItemsOf(lost)
        /\ Sessions' = [Sessions EXCEPT ![r].heard = Append(@, k)]
        /\ LogOf' = LogOf /\ ItemsOf(got)' = ItemsOf(got) /\ ItemsOf(lost)' = ItemsOf(lost)
        /\ UNCHANGED <<stage, backfill_from>>
  BY DEF Channel!Tell, Channel!Item, LogOf, Sessions, k
<1>4. k = n
  BY <1>1 DEF k
<1> QED
  BY <1>2, <1>3, <1>4

\* An announcement to a member in session tells of its next step, whose data
\* has settled.
LEMMA TellRefines ==
    ASSUME ChannelInv, [Next]_vars, ~Commit, NEW r \in Readers, InSession(r), NEW n \in Nat,
           n = NextTold(r), n < physical_step, inflight = {},
           job.member = {r} => n = job.k /\ job.pushed,
           told' = [told EXCEPT ![r] = Append(@, n)],
           UNCHANGED <<members, sub_table, backfill_from, stage, has_subscribed, to_stage,
                       mark, stray, from, since, got, lost>>
    PROVE  Channel!Tell(r)
<1>a. IInv /\ Types /\ told \in [Readers -> Seq(0 .. physical_step - 1)]
  BY DEF ChannelInv, IInv, Types, ToldTypes
<1>b. n \in 0 .. physical_step - 1 /\ physical_step \in Nat /\ Len(LogOf) = physical_step
      /\ LogOf[n + 1] = written[n]
  BY <1>a, LogSteps
<1>c. mark[r] <= Len(told[r]) /\ from[r] + Len(Announced(r)) = n
  BY <1>a, NextOfSession
<1>d. /\ SessionOf(r) = [open |-> TRUE, first |-> from[r], heard |-> Announced(r), due |-> DueOf(r)]
      /\ SessionOf(r).open /\ SessionOf(r).first = from[r]
      /\ SessionOf(r).heard = Announced(r) /\ SessionOf(r).due = DueOf(r)
  BY SessionIn
<1>1. Announced(r)' = Append(Announced(r), n)
  <2>1. told'[r] = Append(told[r], n) /\ mark'[r] = mark[r]
    BY <1>a
  <2> QED
    BY <2>1, <1>a, <1>b, <1>c, AnnouncedAppend
<1>2. SessionOf(r)' = [SessionOf(r) EXCEPT !.heard = Append(Announced(r), n)]
  <2>1. InSession(r)' /\ from'[r] = from[r] /\ DueOf(r)' = DueOf(r)
    BY DEF InSession, Backfilling, DueOf, LiveOf
  <2>2. SessionOf(r)' = [open |-> TRUE, first |-> from[r], heard |-> Append(Announced(r), n), due |-> DueOf(r)]
    BY <2>1, <1>1 DEF SessionOf, DueOf, LiveOf
  <2>3. SessionOf(r) \in [open : BOOLEAN, first : {from[r]}, heard : {Announced(r)}, due : {DueOf(r)}]
    BY <1>d
  <2>4. SessionOf(r)' \in [open : BOOLEAN, first : {from[r]}, heard : {Append(Announced(r), n)}, due : {DueOf(r)}]
    BY <2>2
  <2>5. SessionOf(r)'.open = SessionOf(r).open /\ SessionOf(r)'.first = SessionOf(r).first
        /\ SessionOf(r)'.due = SessionOf(r).due
    BY <2>2, <1>d
  <2> QED
    BY <2>3, <2>4, <2>5, RecordHeard, Zenon
<1>3. Sessions' = [Sessions EXCEPT ![r].heard = Append(Sessions[r].heard, n)]
  <2>1. \A q \in Readers \ {r} : SessionOf(q)' = SessionOf(q)
    <3> TAKE q \in Readers \ {r}
    <3>1. told'[q] = told[q] /\ ReaderKept(q)
      BY <1>a DEF ReaderKept
    <3> QED
      BY <3>1, SessionKept
  <2>2. Sessions' = [Sessions EXCEPT ![r] = [SessionOf(r) EXCEPT !.heard = Append(Announced(r), n)]]
    BY <2>1, <1>2, SessionsExcept
  <2>3. Sessions[r] = SessionOf(r)
    BY DEF Sessions
  <2> QED
    BY <2>2, <2>3, <1>d
<1>4. ASSUME NEW p \in DOMAIN SessionOf(r).due, SessionOf(r).due[p] <= n, p \in LogOf[n + 1]
      PROVE  [to |-> r, step |-> n, path |-> p] \in ItemsOf(got) \cup ItemsOf(lost)
  <2>1. p \in LiveOf(r) /\ since[r][p] <= n /\ p \in Paths /\ p \in written[n]
    BY <1>4, <1>d, <1>b DEF DueOf, LiveOf
  <2>2. [to |-> r, step |-> n, path |-> p, try |-> attempt[n]] \in got \cup lost
    BY <2>1, <1>a, DataSettled DEF InSession
  <2> DEFINE e == [to |-> r, step |-> n, path |-> p, try |-> attempt[n]]
  <2>3. e.to = r /\ e.step = n /\ e.path = p /\ e.try = attempt[n]
    OBVIOUS
  <2> HIDE DEF e
  <2>4. e \in got \cup lost /\ CommittedPush(e)
    BY <2>2, <2>3 DEF CommittedPush, e
  <2> QED
    BY <2>3, <2>4 DEF ItemsOf
<1>5. ItemsOf(got)' = ItemsOf(got) /\ ItemsOf(lost)' = ItemsOf(lost) /\ LogOf' = LogOf
  BY ItemsKept
<1> QED
  BY <1>3, <1>4, <1>5, <1>b, <1>c, <1>d, TellUnfolds

\* The broadcast tells a member of its next step; one that left, or has begun
\* to stage, is not in session any more.
LEMMA AnnounceRefines ==
    ASSUME ChannelInv, [Next]_vars, Announce \/ BackfillAnnounce, ~Commit
    PROVE  Channel!Next \/ Stutter
<1>a. IInv /\ ThreadInv /\ TableTypes /\ ToldTypes /\ JobTypes
  BY DEF ChannelInv, IInv, Types
<1>b. UNCHANGED <<members, sub_table, backfill_from, stage, has_subscribed, to_stage,
                  mark, stray, from, since, got, lost>>
  BY DEF Announce, BackfillAnnounce, tableVars, readerVars, pushVars
<1>c. ItemsOf(got)' = ItemsOf(got) /\ ItemsOf(lost)' = ItemsOf(lost) /\ LogOf' = LogOf
  BY <1>b, ItemsKept
<1>1. CASE UNCHANGED told
  <2>1. \A q \in Readers : SessionOf(q)' = SessionOf(q)
    BY <1>1, <1>b, SessionKept DEF ReaderKept
  <2> QED
    BY <2>1, <1>b, <1>c DEF Sessions, Stutter
<1>2. ASSUME NEW r \in Readers, NEW n \in Nat, n < physical_step,
             told' = [told EXCEPT ![r] = Append(@, n)],
             \/ Announce /\ dest = {r} /\ n = physical_step - 1
             \/ BackfillAnnounce /\ job.member = {r} /\ r \in members /\ n = job.k
      PROVE  Channel!Next \/ Stutter
  <2>1. CASE InSession(r)
    <3>1. inflight = {} /\ n = NextTold(r) /\ (job.member = {r} => n = job.k /\ job.pushed)
      <4>1. CASE Announce /\ dest = {r} /\ n = physical_step - 1
        <5>1. at = "forward" /\ job = NoJob
          BY <4>1, <1>a DEF Announce, ThreadInv
        <5> QED
          BY <4>1, <5>1, <1>a DEF ThreadInv, NoJob, NextTold
      <4>2. CASE BackfillAnnounce /\ job.member = {r} /\ n = job.k
        <5>1. at = "job" /\ job.pushed /\ inflight = {}
          BY <4>2 DEF BackfillAnnounce, Settled
        <5>2. targets = {} /\ dest = {}
          BY <5>1, <1>a DEF ThreadInv
        <5> QED
          BY <4>2, <5>1, <5>2, <1>2 DEF NextTold
      <4> QED
        BY <1>2, <4>1, <4>2
    <3>2. Channel!Tell(r)
      BY <2>1, <3>1, <1>2, <1>b, TellRefines
    <3> QED
      BY <3>2 DEF Channel!Next
  <2>2. CASE ~InSession(r)
    <3>1. \A q \in Readers : SessionOf(q)' = SessionOf(q)
      <4> TAKE q \in Readers
      <4>1. CASE q = r
        <5>1. ~InSession(r)'
          BY <2>2, <1>b DEF InSession, Backfilling
        <5> QED
          BY <4>1, <5>1, <2>2 DEF SessionOf
      <4>2. CASE q # r
        <5>1. told'[q] = told[q] /\ ReaderKept(q)
          BY <4>2, <1>2, <1>a, <1>b DEF ReaderKept, ToldTypes
        <5> QED
          BY <5>1, SessionKept
      <4> QED
        BY <4>1, <4>2
    <3> QED
      BY <3>1, <1>b, <1>c DEF Sessions, Stutter
  <2> QED
    BY <2>1, <2>2
<1> QED
  BY <1>1, <1>2, <1>a, ToldEffect

-----------------------------------------------------------------------------
(* The channel: steps of readers.                                          *)

\* A step of r leaves the log, the items and the other sessions alone.
LEMMA ReaderFrame ==
    ASSUME ChannelInv, [Next]_vars, NEW r \in Readers, StepOf(r)
    PROVE  /\ LogOf' = LogOf /\ ItemsOf(got)' = ItemsOf(got) /\ ItemsOf(lost)' = ItemsOf(lost)
           /\ Sessions[r] = SessionOf(r)
           /\ Sessions' = [Sessions EXCEPT ![r] = SessionOf(r)']
           /\ SessionOf(r)' = SessionOf(r) => Sessions' = Sessions
           /\ UNCHANGED <<told, physical_step>>
<1>a. IInv
  BY DEF ChannelInv
<1>1. ~Commit /\ UNCHANGED <<told, got, lost>>
  <2>1. at = "replay" => at' = at
    BY DEF StepOf, TakeBackfill, Join, MemberJoined, Leave, MemberLeft, EntriesPurged, Subscribe,
       SubscribeFrom, Stage, StageLost, Release, threadVars
  <2>2. ~Commit
    BY <2>1 DEF Commit
  <2>3. UNCHANGED <<told, got, lost>>
    BY DEF StepOf, TakeBackfill, Join, MemberJoined, Leave, MemberLeft, EntriesPurged, Subscribe,
       SubscribeFrom, Stage, StageLost, Release, toldVars, pushVars
  <2> QED
    BY <2>2, <2>3
<1>2. LogOf' = LogOf /\ ItemsOf(got)' = ItemsOf(got) /\ ItemsOf(lost)' = ItemsOf(lost)
  BY <1>1, ItemsKept
<1>3. \A q \in Readers \ {r} : SessionOf(q)' = SessionOf(q)
  BY <1>a, <1>1, OtherReaders, SessionKept
<1>4. Sessions' = [Sessions EXCEPT ![r] = SessionOf(r)'] /\ (SessionOf(r)' = SessionOf(r) => Sessions' = Sessions)
  BY <1>3, SessionsExcept
<1>5. Sessions[r] = SessionOf(r)
  BY DEF Sessions
<1>6. UNCHANGED physical_step
  BY <1>1, OnlyCommit
<1> QED
  BY <1>1, <1>2, <1>4, <1>5, <1>6

\* A step of r that changes neither its session nor where it is.
LEMMA ReaderStutter ==
    ASSUME ChannelInv, [Next]_vars, NEW r \in Readers, StepOf(r), SessionOf(r)' = SessionOf(r),
           UNCHANGED <<stage, backfill_from>>
    PROVE  Stutter
BY ReaderFrame DEF Stutter

\* A step that takes r out of its session.
LEMMA CloseRefines ==
    ASSUME ChannelInv, [Next]_vars, NEW r \in Readers, StepOf(r), ~InSession(r)',
           stage[r] \in {"staging", "gone"}, UNCHANGED <<stage, backfill_from>>
    PROVE  Channel!Close(r) \/ Stutter
<1>1. SessionOf(r)' = Channel!NoSession
  BY DEF SessionOf, Channel!NoSession
<1>2. CASE ~InSession(r)
  BY <1>1, <1>2, SessionOut, ReaderStutter
<1>3. CASE InSession(r)
  <2>1. SessionOf(r).open
    BY <1>3, SessionIn
  <2>2. Sessions[r].open /\ Sessions' = [Sessions EXCEPT ![r] = Channel!NoSession]
        /\ LogOf' = LogOf /\ ItemsOf(got)' = ItemsOf(got) /\ ItemsOf(lost)' = ItemsOf(lost)
    BY <2>1, <1>1, ReaderFrame
  <2>3. Channel!Close(r) <=>
          /\ Sessions[r].open
          /\ stage[r] \in {"staging", "gone"}
          /\ Sessions' = [Sessions EXCEPT ![r] = Channel!NoSession]
          /\ LogOf' = LogOf /\ ItemsOf(got)' = ItemsOf(got) /\ ItemsOf(lost)' = ItemsOf(lost)
          /\ UNCHANGED <<stage, backfill_from>>
    BY DEF Channel!Close, Channel!NoSession, LogOf, Sessions
  <2> QED
    BY <2>2, <2>3
<1> QED
  BY <1>2, <1>3

\* A step that moves r and nothing else that the channel knows.
LEMMA MoveRefines ==
    ASSUME ChannelInv, [Next]_vars, NEW r \in Readers, StepOf(r), NEW w,
           <<stage[r], w>> \in Channel!Moves, stage' = [stage EXCEPT ![r] = w],
           SessionOf(r)' = SessionOf(r), UNCHANGED backfill_from
    PROVE  Channel!Move(r)
<1>1. stage'[r] = w /\ stage' = [stage EXCEPT ![r] = stage'[r]]
  BY DEF ChannelInv, IInv, Types, ReaderTypes
<1>2. Channel!Move(r) <=>
        /\ <<stage[r], stage'[r]>> \in Channel!Moves
        /\ stage' = [stage EXCEPT ![r] = stage'[r]]
        /\ LogOf' = LogOf /\ Sessions' = Sessions
        /\ ItemsOf(got)' = ItemsOf(got) /\ ItemsOf(lost)' = ItemsOf(lost)
        /\ UNCHANGED backfill_from
  BY DEF Channel!Move, LogOf, Sessions
<1> QED
  BY <1>1, <1>2, ReaderFrame

\* Readers that come, go, ask for a backfill, stage and release.
LEMMA ReaderMovesRefine ==
    ASSUME ChannelInv, [Next]_vars, NEW r \in Readers, StepOf(r),
           \/ Join(r) \/ Leave(r) \/ Release(r) \/ MemberLeft(r) \/ EntriesPurged(r)
           \/ \E P \in SUBSET Paths, s \in StartSteps : SubscribeFrom(r, P, s)
           \/ \E p \in Paths : Stage(r, p) \/ StageLost(r, p)
    PROVE  Channel!Close(r) \/ Channel!Move(r) \/ Channel!Ask(r) \/ Stutter
<1>a. TableTypes /\ ReaderTypes /\ SinceTypes
  BY DEF ChannelInv, IInv, Types
<1>1. CASE Join(r) \/ Leave(r)
  <2>1. UNCHANGED <<members, sub_table, backfill_from, told, mark, from, since>>
    BY <1>1 DEF Join, Leave, tableVars, toldVars
  <2>2. SessionOf(r)' = SessionOf(r)
    <3>1. InSession(r)' <=> InSession(r)
      BY <2>1 DEF InSession, Backfilling
    <3>2. LiveOf(r)' = LiveOf(r)
      BY <2>1 DEF LiveOf
    <3> QED
      BY <2>1, <3>1, <3>2, SessionSame
  <2>3. \E w : <<stage[r], w>> \in Channel!Moves /\ stage' = [stage EXCEPT ![r] = w]
    BY <1>1 DEF Join, Leave, Channel!Moves
  <2> QED
    BY <2>1, <2>2, <2>3, MoveRefines
<1>2. CASE Release(r)
  <2>1. UNCHANGED <<members, backfill_from, told, mark, from, since>>
        /\ <<stage[r], "ready">> \in Channel!Moves /\ stage' = [stage EXCEPT ![r] = "ready"]
    BY <1>2 DEF Release, toldVars, Channel!Moves
  <2>2. \A p \in Paths : \/ sub_table'[r][p] = sub_table[r][p]
                         \/ sub_table[r][p] = "staged" /\ sub_table'[r][p] = "released"
    BY <1>2, <1>a DEF Release, TableTypes
  <2>3. SessionOf(r)' = SessionOf(r)
    <3>1. InSession(r)' <=> InSession(r)
      BY <2>1, <2>2 DEF InSession, Backfilling
    <3>2. LiveOf(r)' = LiveOf(r)
      BY <2>2 DEF LiveOf
    <3> QED
      BY <2>1, <3>1, <3>2, SessionSame
  <2> QED
    BY <2>1, <2>3, MoveRefines
<1>3. CASE MemberLeft(r) \/ EntriesPurged(r)
  <2>1. r \notin members' /\ stage[r] = "gone" /\ UNCHANGED <<stage, backfill_from>>
    BY <1>3 DEF MemberLeft, EntriesPurged, readerVars
  <2> QED
    BY <2>1, CloseRefines DEF InSession
<1>4. ASSUME NEW P \in SUBSET Paths, NEW s \in StartSteps, SubscribeFrom(r, P, s)
      PROVE  Channel!Ask(r)
  <2>1. UNCHANGED <<members, sub_table, told, mark, from, since>>
    BY <1>4 DEF SubscribeFrom, toldVars
  <2>2. SessionOf(r)' = SessionOf(r)
    <3>1. InSession(r)' <=> InSession(r)
      BY <2>1 DEF InSession, Backfilling
    <3>2. LiveOf(r)' = LiveOf(r)
      BY <2>1 DEF LiveOf
    <3> QED
      BY <2>1, <3>1, <3>2, SessionSame
  <2>3. stage[r] = "ready" /\ stage' = [stage EXCEPT ![r] = "staging"] /\ s \in Nat
        /\ backfill_from' = [backfill_from EXCEPT ![r] = s]
    BY <1>4, DeliveryAssumption DEF SubscribeFrom
  <2>4. backfill_from'[r] = s
    BY <2>3, <1>a DEF TableTypes
  <2>5. Channel!Ask(r) <=>
          /\ stage[r] = "ready"
          /\ stage' = [stage EXCEPT ![r] = "staging"]
          /\ backfill_from'[r] \in Nat
          /\ backfill_from' = [backfill_from EXCEPT ![r] = backfill_from'[r]]
          /\ LogOf' = LogOf /\ Sessions' = Sessions
          /\ ItemsOf(got)' = ItemsOf(got) /\ ItemsOf(lost)' = ItemsOf(lost)
    BY DEF Channel!Ask, LogOf, Sessions
  <2> QED
    BY <2>2, <2>3, <2>4, <2>5, ReaderFrame
<1>5. ASSUME NEW p \in Paths, Stage(r, p) PROVE Channel!Close(r) \/ Stutter
  <2>1. sub_table'[r][p] = "staged" /\ stage[r] = "staging" /\ UNCHANGED <<stage, backfill_from>>
    BY <1>5, <1>a DEF Stage, TableTypes
  <2> QED
    BY <2>1, CloseRefines DEF InSession, Backfilling
<1>6. ASSUME NEW p \in Paths, StageLost(r, p) PROVE Stutter
  <2>1. UNCHANGED <<members, sub_table, backfill_from, stage, told, mark, from, since>>
    BY <1>6 DEF StageLost, tableVars, toldVars
  <2>2. InSession(r)' <=> InSession(r)
    BY <2>1 DEF InSession, Backfilling
  <2>3. LiveOf(r)' = LiveOf(r)
    BY <2>1 DEF LiveOf
  <2>4. SessionOf(r)' = SessionOf(r)
    BY <2>1, <2>2, <2>3, SessionSame
  <2> QED
    BY <2>1, <2>4, ReaderStutter
<1> QED
  BY <1>1, <1>2, <1>3, <1>4, <1>5, <1>6

\* A plain subscription of a reader in session promises it one more path.
LEMMA SubscribeRefines ==
    ASSUME ChannelInv, [Next]_vars, NEW r \in Readers, NEW p \in Paths, Subscribe(r, p)
    PROVE  Channel!Promise(r, p) \/ Stutter
<1>a. TableTypes /\ SinceTypes /\ StepOf(r)
  BY DEF ChannelInv, IInv, Types, StepOf
<1>b. /\ stage[r] = "ready" /\ UNCHANGED <<members, backfill_from, stage, told, mark, from>>
      /\ \/ sub_table[r][p] = "none" /\ sub_table' = [sub_table EXCEPT ![r][p] = "live"]
            /\ since' = IF r \in members THEN [since EXCEPT ![r][p] = NextPushed] ELSE since
         \/ UNCHANGED <<sub_table, since>>
  BY DEF Subscribe, toldVars
<1>c. sub_table[r][p] = "none" /\ sub_table' = [sub_table EXCEPT ![r][p] = "live"] =>
        /\ sub_table'[r] = [sub_table[r] EXCEPT ![p] = "live"]
        /\ \A q \in Paths : sub_table'[r][q] = IF q = p THEN "live" ELSE sub_table[r][q]
  BY <1>a DEF TableTypes
<1>d. InSession(r)' <=> InSession(r)
  BY <1>b, <1>c DEF InSession, Backfilling
<1>1. CASE ~InSession(r)
  <2>1. SessionOf(r)' = SessionOf(r)
    BY <1>1, <1>d DEF SessionOf
  <2> QED
    BY <2>1, <1>a, <1>b, ReaderStutter
<1>2. CASE UNCHANGED <<sub_table, since>>
  <2>1. LiveOf(r)' = LiveOf(r)
    BY <1>2 DEF LiveOf
  <2>2. SessionOf(r)' = SessionOf(r)
    BY <2>1, <1>b, <1>d, <1>2, SessionSame
  <2> QED
    BY <2>2, <1>a, <1>b, ReaderStutter
<1>3. CASE InSession(r) /\ sub_table[r][p] = "none" /\ sub_table' = [sub_table EXCEPT ![r][p] = "live"]
           /\ since' = IF r \in members THEN [since EXCEPT ![r][p] = NextPushed] ELSE since
  <2> DEFINE n == NextPushed
             D == [q \in LiveOf(r) \cup {p} |-> IF q = p THEN n ELSE DueOf(r)[q]]
  <2>1. LiveOf(r)' = LiveOf(r) \cup {p} /\ p \notin LiveOf(r)
    BY <1>c, <1>3 DEF LiveOf
  <2>2. \A q \in Paths : since'[r][q] = IF q = p THEN n ELSE since[r][q]
    BY <1>3, <1>a DEF InSession, SinceTypes
  <2> HIDE DEF n
  <2>3. DueOf(r)' = D
    <3>1. \A q \in LiveOf(r) \cup {p} : since'[r][q] = IF q = p THEN n ELSE DueOf(r)[q]
      BY <2>2 DEF DueOf, LiveOf
    <3> QED
      BY <2>1, <3>1 DEF DueOf
  <2>4. /\ SessionOf(r) = [open |-> TRUE, first |-> from[r], heard |-> Announced(r), due |-> DueOf(r)]
        /\ SessionOf(r).open /\ SessionOf(r).first = from[r]
        /\ SessionOf(r).heard = Announced(r) /\ SessionOf(r).due = DueOf(r)
    BY <1>3, SessionIn
  <2>5. SessionOf(r)' = [open |-> TRUE, first |-> from[r], heard |-> Announced(r), due |-> D]
    <3>1. Announced(r)' = Announced(r) /\ from'[r] = from[r]
      BY <1>b DEF Announced
    <3> QED
      BY <1>3, <1>d, <2>3, <3>1 DEF SessionOf, DueOf, LiveOf
  <2>6. SessionOf(r)' = [SessionOf(r) EXCEPT !.due = D]
    <3> HIDE DEF D
    <3>1. SessionOf(r) \in [open : BOOLEAN, first : {from[r]}, heard : {Announced(r)}, due : {DueOf(r)}]
      BY <2>4
    <3>2. SessionOf(r)' \in [open : BOOLEAN, first : {from[r]}, heard : {Announced(r)}, due : {D}]
      BY <2>5
    <3>3. SessionOf(r)'.open = SessionOf(r).open /\ SessionOf(r)'.first = SessionOf(r).first
          /\ SessionOf(r)'.heard = SessionOf(r).heard
      BY <2>5, <2>4
    <3> QED
      BY <3>1, <3>2, <3>3, RecordDue, Zenon
  <2>7. n \in {Len(LogOf), Len(LogOf) + 1}
    BY LogSteps DEF ChannelInv, IInv, NextPushed, n
  <2>8. DOMAIN SessionOf(r).due = LiveOf(r)
    BY <2>4 DEF DueOf
  <2>9. D = [q \in DOMAIN SessionOf(r).due \cup {p} |-> IF q = p THEN n ELSE SessionOf(r).due[q]]
    BY <2>4, <2>8
  <2> HIDE DEF D
  <2>10. Channel!Promise(r, p) <=>
          /\ Sessions[r].open
          /\ stage[r] = "ready"
          /\ p \notin DOMAIN Sessions[r].due
          /\ \E k \in {Len(LogOf), Len(LogOf) + 1} :
                Sessions' = [Sessions EXCEPT ![r].due =
                   [q \in DOMAIN Sessions[r].due \cup {p} |-> IF q = p THEN k ELSE Sessions[r].due[q]]]
          /\ LogOf' = LogOf /\ ItemsOf(got)' = ItemsOf(got) /\ ItemsOf(lost)' = ItemsOf(lost)
          /\ UNCHANGED <<stage, backfill_from>>
    BY DEF Channel!Promise, LogOf, Sessions
  <2>11. Sessions[r] = SessionOf(r) /\ Sessions' = [Sessions EXCEPT ![r].due = D]
         /\ LogOf' = LogOf /\ ItemsOf(got)' = ItemsOf(got) /\ ItemsOf(lost)' = ItemsOf(lost)
    BY <2>6, <1>a, ReaderFrame
  <2> QED
    BY <2>1, <2>4, <2>7, <2>8, <2>9, <2>10, <2>11, <1>b
<1> QED
  BY <1>1, <1>2, <1>3, <1>b

\* A reader with no announcement after mark has heard nothing.
LEMMA HeardNothing ==
    ASSUME NEW r, mark'[r] = Len(told'[r]), Len(told'[r]) \in Nat
    PROVE  Announced(r)' = <<>>
<1> DEFINE s == told'[r]
           m == mark'[r]
<1>1. m = Len(s) /\ Len(s) \in Nat
  OBVIOUS
<1>2. Announced(r)' = SubSeq(s, m + 1, Len(s))
  BY DEF Announced
<1> HIDE DEF s, m
<1>3. SubSeq(s, m + 1, Len(s)) = <<>>
  BY <1>1
<1> QED
  BY <1>2, <1>3

\* A member that joins and waits for no backfill opens a session.
LEMMA MemberJoinedRefines ==
    ASSUME ChannelInv, [Next]_vars, NEW r \in Readers, MemberJoined(r)
    PROVE  Channel!Open(r) \/ Stutter
<1>a. IInv /\ Types /\ Types' /\ TableTypes /\ SinceTypes /\ FromTypes /\ StepOf(r)
  BY TypesStep DEF ChannelInv, IInv, Types, StepOf
<1>b. /\ Present(r) /\ r \notin members /\ members' = members \cup {r}
      /\ UNCHANGED <<sub_table, backfill_from, stage, told, mark>>
      /\ from' = [from EXCEPT ![r] = NextAnnounced(r)]
  BY DEF MemberJoined, readerVars
<1>c. ~InSession(r) /\ (InSession(r)' <=> ~Backfilling(r))
  BY <1>b DEF InSession, Backfilling
<1>1. CASE Backfilling(r)
  <2>1. SessionOf(r)' = SessionOf(r)
    BY <1>1, <1>c DEF SessionOf
  <2> QED
    BY <2>1, <1>a, <1>b, ReaderStutter
<1>2. CASE ~Backfilling(r)
  <2> DEFINE n == NextAnnounced(r)
             P == LiveOf(r)
             D == DueOf(r)'
  <2>1. physical_step \in Nat /\ Len(LogOf) = physical_step
    BY <1>a, LogSteps
  <2>2. n \in 0 .. Len(LogOf)
    <3>1. /\ n \in Nat /\ job.k \in Nat /\ (at = "settle" => physical_step > 0)
          /\ n = IF at = "settle" THEN physical_step - 1
                 ELSE IF job.member = {r} /\ job.k < physical_step THEN job.k ELSE physical_step
      BY <1>a, NextAnnouncedType, ConstantFacts DEF IInv, Types, JobTypes, ThreadInv
    <3> HIDE DEF n
    <3> QED
      BY <3>1, <2>1
  <2>3. D \in [P -> {Len(LogOf), Len(LogOf) + 1}]
    <3>1. LiveOf(r)' = LiveOf(r)
      BY <1>b DEF LiveOf
    <3>2. \A p \in LiveOf(r) : since'[r][p] = NextPushed
      BY <1>a DEF MemberJoined, SinceTypes, LiveOf
    <3>3. NextPushed \in {Len(LogOf), Len(LogOf) + 1}
      BY <2>1 DEF NextPushed
    <3>4. D = [p \in LiveOf(r) |-> since'[r][p]]
      BY <3>1 DEF DueOf
    <3> QED
      BY <3>2, <3>3, <3>4
  <2>4. Announced(r)' = <<>>
    <3>1. stage[r] # "gone"
      BY <1>b DEF Present
    <3>2. told[r] = <<>> /\ mark[r] = 0
      BY <3>1, <1>a, <1>b DEF IInv, JoinInv
    <3> QED
      BY <3>2, <1>b, HeardNothing
  <2>5. SessionOf(r)' = [open |-> TRUE, first |-> n, heard |-> <<>>, due |-> D]
    <3>1. from'[r] = n
      BY <1>a, <1>b DEF FromTypes
    <3> HIDE DEF n
    <3> QED
      BY <3>1, <1>2, <1>c, <2>4 DEF SessionOf, DueOf, LiveOf
  <2>6. P \in SUBSET Paths
    BY DEF LiveOf
  <2> HIDE DEF n, P, D
  <2>7. Sessions[r] = SessionOf(r) /\ ~SessionOf(r).open
        /\ Sessions' = [Sessions EXCEPT ![r] = [open |-> TRUE, first |-> n, heard |-> <<>>, due |-> D]]
        /\ LogOf' = LogOf /\ ItemsOf(got)' = ItemsOf(got) /\ ItemsOf(lost)' = ItemsOf(lost)
    BY <2>5, <1>a, <1>c, ReaderFrame, SessionOut
  <2>8. Channel!Open(r) <=>
          /\ ~Sessions[r].open
          /\ stage[r] \in {"ready", "staging"}
          /\ \E k \in 0 .. Len(LogOf), Q \in SUBSET Paths :
                \E E \in [Q -> {Len(LogOf), Len(LogOf) + 1}] :
                   Sessions' = [Sessions EXCEPT ![r] = [open |-> TRUE, first |-> k, heard |-> <<>>, due |-> E]]
          /\ LogOf' = LogOf /\ ItemsOf(got)' = ItemsOf(got) /\ ItemsOf(lost)' = ItemsOf(lost)
          /\ UNCHANGED <<stage, backfill_from>>
    BY DEF Channel!Open, Channel!Session, LogOf, Sessions
  <2>9. stage[r] \in {"ready", "staging"}
    BY <1>b DEF Present
  <2> QED
    BY <2>2, <2>3, <2>6, <2>7, <2>8, <2>9, <1>b
<1> QED
  BY <1>1, <1>2

\* The backfill service takes the entries of a member: its session starts.
LEMMA TakeBackfillRefines ==
    ASSUME ChannelInv, [Next]_vars, NEW r \in Readers, TakeBackfill(r)
    PROVE  Channel!Backfill(r) \/ Stutter
<1>a. IInv /\ IInv' /\ Types /\ TableTypes /\ TableTypes' /\ SinceTypes /\ SinceTypes' /\ FromTypes /\ StepOf(r) /\ PromiseBound'
  BY Inductive, ChannelInductive DEF ChannelInv, IInv, Types, StepOf
<1>b. /\ at = "serve" /\ UNCHANGED <<members, backfill_from, stage, told, mark, physical_step>>
      /\ from' = [from EXCEPT ![r] = Min({backfill_from[r], physical_step})]
      /\ since' = IF r \in members THEN since ELSE [since EXCEPT ![r] = [p \in Paths |-> Never]]
  BY DEF TakeBackfill, readerVars
<1>c. PICK x \in Paths : sub_table[r][x] = "released"
  BY DEF TakeBackfill, Released
<1>d. ~InSession(r) /\ Backfilling(r)
  BY <1>c DEF InSession, Backfilling
<1>1. CASE r \notin members
  <2>1. ~InSession(r)'
    BY <1>1, <1>b DEF InSession
  <2>2. SessionOf(r)' = SessionOf(r)
    BY <1>d, <2>1 DEF SessionOf
  <2> QED
    BY <2>2, <1>a, <1>b, ReaderStutter
<1>2. CASE r \in members
  <2> DEFINE s == backfill_from[r]
             n == Min({backfill_from[r], physical_step})
             P == LiveOf(r)'
             D == DueOf(r)'
  <2>1. physical_step \in Nat /\ Len(LogOf) = physical_step /\ s \in Nat
    BY <1>a, LogSteps DEF TableTypes
  <2>2. n \in {s, Len(LogOf)} /\ n <= s /\ n <= Len(LogOf)
    BY <2>1, MinOfTwo
  <2>3. \A p \in Paths : sub_table'[r][p] = IF sub_table[r][p] = "released" THEN "live" ELSE sub_table[r][p]
    BY <1>a DEF TakeBackfill, TableTypes, Released
  <2>4. InSession(r)'
    <3>1. \A p \in Paths : sub_table[r][p] # "staged"
      BY <1>c, <1>a DEF IInv, StagedOnce, Released
    <3>2. \A p \in Paths : sub_table'[r][p] \notin {"staged", "released"}
      BY <2>3, <3>1
    <3> QED
      BY <3>2, <1>2, <1>b DEF InSession, Backfilling
  <2>5. x \in P /\ D[x] = s
    <3>1. x \in P
      BY <2>3, <1>c DEF LiveOf
    <3>2. since[r][x] = s
      BY <1>a, <1>c DEF IInv, StagedOnce
    <3> QED
      BY <3>1, <3>2, <1>2, <1>b DEF DueOf
  <2>6. D \in [P -> (0 .. Len(LogOf) + 1) \cup {s}]
    <3>1. ASSUME NEW p \in P PROVE since'[r][p] \in (0 .. Len(LogOf) + 1) \cup {s}
      <4>1. p \in Paths /\ sub_table'[r][p] = "live"
        BY DEF LiveOf
      <4>2. since'[r][p] = s \/ since'[r][p] <= physical_step + 1
        BY <4>1, <1>a, <1>b, <1>2 DEF PromiseBound
      <4>3. since'[r][p] \in Nat
        BY <4>1, <1>a DEF SinceTypes
      <4> QED
        BY <4>2, <4>3, <2>1
    <3>2. D = [p \in P |-> since'[r][p]]
      BY DEF DueOf
    <3> HIDE DEF s, P, D
    <3> QED
      BY <3>1, <3>2
  <2>7. Announced(r)' = <<>>
    <3>1. dest = {}
      BY <1>a, <1>b DEF IInv, ThreadInv
    <3>2. mark[r] = Len(told[r]) + 0 /\ Len(told[r]) \in Nat
      BY <3>1, <1>a, <1>d DEF IInv, Unannounced, Pending, Types, ToldTypes
    <3> QED
      BY <3>2, <1>b, HeardNothing
  <2>8. SessionOf(r)' = [open |-> TRUE, first |-> n, heard |-> <<>>, due |-> D]
    <3>1. from'[r] = n
      BY <1>a, <1>b DEF FromTypes
    <3> HIDE DEF n
    <3> QED
      BY <3>1, <2>4, <2>7 DEF SessionOf, DueOf, LiveOf
  <2>9. P \in SUBSET Paths
    BY DEF LiveOf
  <2>10. stage[r] # "out"
    BY <1>2 DEF ChannelInv, SentTo
  <2> HIDE DEF n, P, D
  <2>11. Sessions[r] = SessionOf(r) /\ ~SessionOf(r).open
         /\ Sessions' = [Sessions EXCEPT ![r] = [open |-> TRUE, first |-> n, heard |-> <<>>, due |-> D]]
         /\ LogOf' = LogOf /\ ItemsOf(got)' = ItemsOf(got) /\ ItemsOf(lost)' = ItemsOf(lost)
    BY <2>8, <1>a, <1>d, ReaderFrame, SessionOut
  <2>12. Channel!Backfill(r) <=>
          /\ ~Sessions[r].open
          /\ stage[r] # "out"
          /\ \E k \in {s, Len(LogOf)}, Q \in SUBSET Paths :
                /\ k <= s /\ k <= Len(LogOf)
                /\ \E E \in [Q -> (0 .. Len(LogOf) + 1) \cup {s}] :
                      /\ \E p \in Q : E[p] = s
                      /\ Sessions' = [Sessions EXCEPT ![r] = [open |-> TRUE, first |-> k, heard |-> <<>>, due |-> E]]
          /\ LogOf' = LogOf /\ ItemsOf(got)' = ItemsOf(got) /\ ItemsOf(lost)' = ItemsOf(lost)
          /\ UNCHANGED <<stage, backfill_from>>
    BY DEF Channel!Backfill, Channel!Session, LogOf, Sessions
  <2> HIDE DEF s
  <2> QED
    BY <2>2, <2>5, <2>6, <2>9, <2>10, <2>11, <2>12, <1>b
<1> QED
  BY <1>1, <1>2

\* What no reader sees of the writer is a stuttering step of the channel.
LEMMA RestRefines ==
    ASSUME ChannelInv, [Next]_vars, ~Commit, ~Announce, ~BackfillAnnounce, ~PushCompletes, ~ReaderRuns,
           ~(\E r \in Readers : TakeBackfill(r))
    PROVE  Stutter
<1>1. UNCHANGED <<members, sub_table, backfill_from, stage, has_subscribed, to_stage, mark, stray, from, since>>
  BY TablesKept
<1>2. UNCHANGED told
  BY ToldEffect DEF ChannelInv
<1>3. UNCHANGED <<got, lost>>
  BY PushEffect DEF PushCompletes
<1>4. LogOf' = LogOf /\ ItemsOf(got)' = ItemsOf(got) /\ ItemsOf(lost)' = ItemsOf(lost)
  BY <1>3, ItemsKept
<1>5. \A q \in Readers : SessionOf(q)' = SessionOf(q)
  BY <1>1, <1>2, SessionKept DEF ReaderKept
<1> QED
  BY <1>1, <1>4, <1>5 DEF Sessions, Stutter

\* Every step of the delivery is one of the channel, or a stuttering step.
LEMMA StepRefines == ChannelInv /\ [Next]_vars => [Channel!Next]_Channel!vars
<1> SUFFICES ASSUME ChannelInv, [Next]_vars PROVE Channel!Next \/ Stutter
  BY StutterUnfolds
<1>1. CASE Commit
  BY <1>1, CommitRefines DEF Channel!Next
<1>2. CASE ~Commit /\ (Announce \/ BackfillAnnounce)
  BY <1>2, AnnounceRefines
<1>3. CASE ~Commit /\ PushCompletes
  BY <1>3, CompletesRefines DEF PushCompletes
<1>4. ASSUME NEW r \in Readers, TakeBackfill(r) PROVE Channel!Next \/ Stutter
  BY <1>4, TakeBackfillRefines DEF Channel!Next
<1>5. CASE ReaderRuns
  <2>1. PICK r \in Readers :
          \/ Join(r) \/ MemberJoined(r) \/ Leave(r) \/ MemberLeft(r) \/ EntriesPurged(r)
          \/ \E p \in Paths : Subscribe(r, p)
          \/ \E P \in SUBSET Paths, s \in StartSteps : SubscribeFrom(r, P, s)
          \/ \E p \in Paths : Stage(r, p) \/ StageLost(r, p)
          \/ Release(r)
    BY <1>5 DEF ReaderRuns
  <2>2. CASE MemberJoined(r)
    BY <2>2, MemberJoinedRefines DEF Channel!Next
  <2>3. ASSUME NEW p \in Paths, Subscribe(r, p) PROVE Channel!Next \/ Stutter
    BY <2>3, SubscribeRefines DEF Channel!Next
  <2>4. CASE \/ Join(r) \/ Leave(r) \/ Release(r) \/ MemberLeft(r) \/ EntriesPurged(r)
             \/ \E P \in SUBSET Paths, s \in StartSteps : SubscribeFrom(r, P, s)
             \/ \E p \in Paths : Stage(r, p) \/ StageLost(r, p)
    <3>1. StepOf(r)
      BY <2>4 DEF StepOf
    <3>2. Channel!Close(r) \/ Channel!Move(r) \/ Channel!Ask(r) \/ Stutter
      BY <2>4, <3>1, ReaderMovesRefine
    <3> QED
      BY <3>2 DEF Channel!Next
  <2> QED
    BY <2>1, <2>2, <2>3, <2>4
<1>6. CASE /\ ~Commit /\ ~Announce /\ ~BackfillAnnounce /\ ~PushCompletes /\ ~ReaderRuns
           /\ ~(\E r \in Readers : TakeBackfill(r))
  BY <1>6, RestRefines
<1> QED
  BY <1>1, <1>2, <1>3, <1>4, <1>5, <1>6

\* The writer starts with an empty log, and no reader is in session.
LEMMA InitRefines == Init => Channel!Init
<1> SUFFICES ASSUME Init PROVE Channel!Init
  OBVIOUS
<1>1. LogOf = <<>>
  <2>1. physical_step = 0
    BY DEF Init
  <2>2. 1 .. 0 = {}
    OBVIOUS
  <2>3. LogOf = [i \in {} |-> written[i - 1]]
    BY <2>1, <2>2 DEF LogOf
  <2> QED
    BY <2>3
<1>2. Sessions = [r \in Readers |-> Channel!NoSession]
  <2>1. \A r \in Readers : ~InSession(r)
    BY DEF Init, InSession
  <2> QED
    BY <2>1, SessionOut DEF Sessions
<1>3. ItemsOf(got) = {} /\ ItemsOf(lost) = {}
  BY DEF Init, ItemsOf
<1>4. stage = [r \in Readers |-> "out"] /\ backfill_from = [r \in Readers |-> 0]
  BY DEF Init
<1>5. Channel!Init <=>
        /\ LogOf = <<>> /\ stage = [r \in Readers |-> "out"]
        /\ backfill_from = [r \in Readers |-> 0]
        /\ Sessions = [r \in Readers |-> Channel!NoSession]
        /\ ItemsOf(got) = {} /\ ItemsOf(lost) = {}
  BY DEF Channel!Init, LogOf, Sessions, Channel!NoSession
<1> QED
  BY <1>1, <1>2, <1>3, <1>4, <1>5

\* The delivery over Mercury implements the channel, for any readers, paths,
\* faults, start steps and bounds: a session tells of every step from its
\* first one on, in turn and after the data due; an item settles once, live or
\* by a backfill; a backfill session starts at the step that was asked for.
THEOREM DeliveryImplementsChannel == Spec => ImplementsChannel
<1>1. Init => ChannelInv
  BY InitChannelInv
<1>2. ChannelInv /\ [Next]_vars => ChannelInv'
  BY ChannelInductive
<1>3. Init => Channel!Init
  BY InitRefines
<1>4. ChannelInv /\ [Next]_vars => [Channel!Next]_Channel!vars
  BY StepRefines
<1> QED
  BY <1>1, <1>2, <1>3, <1>4, PTL DEF Spec, ImplementsChannel, Channel!Spec
=============================================================================
