------------------------ MODULE ReaderSessionProofs ------------------------
(* Proofs about ReaderSession, for every value of its constants.           *)
EXTENDS ReaderSession, ProofFacts

-----------------------------------------------------------------------------
(* The inductive invariant. The first three parts hold whatever goes wrong *)
(* and give EosMeansOver and SchemaFresh; the last two need the time limit *)
(* of a forward to be kept and give EosFinal and NoGap.                    *)

InTime == "slow" \notin Faults

Kinds == {"none", "seed", "schema", "ack"}
WriterTypes ==
    /\ at \in Places /\ run \in 0 .. MaxRuns
    /\ ended \in [Runs -> {"no", "left", "died"}]
    /\ marker \in BOOLEAN /\ group_file \in 0 .. MaxRuns
    /\ last_step \in 0 .. MaxSteps /\ schema_step \in 0 .. MaxSteps
    /\ members \subseteq Readers /\ targets \subseteq Readers
    /\ dest = {} \/ \E r \in Readers : dest = {r}
    /\ joining \subseteq Readers /\ leaving \subseteq Readers
ReaderTypes ==
    /\ stage \in [Readers -> Stages]
    /\ epoch \in [Readers -> 0 .. MaxRuns]
    /\ done_path \in [Readers -> BOOLEAN] /\ writer_done \in [Readers -> BOOLEAN]
    /\ eos_writers \in [Readers -> SUBSET Runs]
    /\ eos_writer_gone \in [Readers -> SUBSET Runs]
    /\ data_eos \in [Readers -> BOOLEAN]
    /\ departed \in [Readers -> {"no", "sent", "seen"}]
    /\ wire \in [Readers -> SUBSET Steps]
    /\ eos \in [Readers -> BOOLEAN]
QueueTypes ==
    /\ pending \in [Readers -> Seq(Steps)]
    /\ announced \in [Readers -> Seq(Steps)]
    /\ probe \in [Readers -> [kind : Kinds, step : 0 .. MaxSteps]]
    /\ told \in [Readers -> 0 .. MaxSteps]
    /\ \A r \in Readers :
          /\ probe[r].kind = "none" <=> probe[r] = NoProbe
          /\ probe[r].kind = "seed" => probe[r].step # 0

\* Which runs are over, and when a marker or a group file can be there.
RunInv ==
    /\ group_file <= run
    /\ at \in {"created", "unlinked"} => group_file < run
    /\ at # "off" => run # 0
    /\ \A k \in Runs : k < run => ended[k] # "no"
    /\ run # 0 => (ended[run] = "no" <=> at # "off")
    /\ \A k \in Runs : k > run => ended[k] = "no"
    /\ marker => at \in {"off", "created", "marked"}
    /\ last_step <= schema_step
    /\ at = "published" => last_step < schema_step
    /\ at \in {"announce", "forward"} => last_step # 0

\* A reader knows of no writer but the one whose group it joined, and of its
\* departure only when that run is over.
KnowsOwn(r) ==
    /\ epoch[r] <= group_file
    /\ stage[r] \in {"out", "opening"} =>
          /\ epoch[r] = 0 /\ ~eos[r] /\ told[r] = 0 /\ pending[r] = <<>>
          /\ announced[r] = <<>>
    /\ epoch[r] = 0 => wire[r] = {} /\ probe[r] = NoProbe
    /\ writer_done[r] => epoch[r] = 0 /\ stage[r] \in {"open", "closed"}
    /\ 0 \notin eos_writers[r] /\ eos_writers[r] \subseteq {epoch[r]}
    /\ eos_writer_gone[r] \subseteq eos_writers[r]
    /\ departed[r] # "no" => epoch[r] # 0 /\ ended[epoch[r]] # "no"
    /\ eos_writer_gone[r] # {} => departed[r] = "seen"
    /\ eos[r] => stage[r] \in {"open", "closed"}
    /\ probe[r].kind = "seed" => stage[r] = "joined"
    /\ wire[r] # {} => stage[r] \in {"joined", "open"}
    /\ r \in leaving => stage[r] = "closed"
OverInv(r) ==
    eos[r] /\ epoch[r] # 0 =>
        ended[epoch[r]] # "no" \/ (epoch[r] = run /\ at = "marked")

\* While the writer runs, nothing a member of its group has heard of is past
\* the last step.
HeardInv(r) ==
    /\ InGroup(r) /\ at # "off" =>
          /\ told[r] <= last_step
          /\ \A i \in DOMAIN pending[r] : pending[r][i] <= last_step
          /\ \A n \in wire[r] : n <= last_step
          /\ probe[r].kind = "seed" => probe[r].step <= last_step
    /\ probe[r].kind = "schema" => probe[r].step >= told[r]

\* A request is under way only while the writer waits for it, or when it was
\* killed then.
WireInv(r) ==
    /\ departed[r] = "seen" => wire[r] = {}
    /\ eos[r] => wire[r] = {}
    /\ \A m, n \in wire[r] : m = n
    /\ wire[r] # {} =>
          /\ ~marker
          /\ \/ at = "off"
             \/ /\ at = "forward" /\ dest = {r} /\ epoch[r] = run
                /\ wire[r] = {last_step} /\ r \in members /\ r \notin targets

\* A member that was told of one step is told of each one after it.
Newest(r) == announced[r][Len(announced[r])]
Missing(r) == at = "announce" \/ (at = "forward" /\ (r \in targets \/ wire[r] # {}))
GapInv(r) ==
    /\ \A i \in 1 .. Len(announced[r]) - 1 :
          announced[r][i + 1] = announced[r][i] + 1
    /\ announced[r] # <<>> =>
          /\ \A n \in wire[r] : n = Newest(r) + 1
          /\ InGroup(r) /\ at # "off" =>
                /\ r \in members
                /\ last_step = IF Missing(r) THEN Newest(r) + 1 ELSE Newest(r)

Knowledge == \A r \in Readers : KnowsOwn(r)
Over == \A r \in Readers : OverInv(r)
Heard == \A r \in Readers : HeardInv(r)
Wires == \A r \in Readers : WireInv(r)
Gaps == \A r \in Readers : GapInv(r)
SInv == WriterTypes /\ ReaderTypes /\ QueueTypes /\ RunInv /\ Knowledge /\ Over /\ Heard

\* The writer's variables keep their types.
LEMMA WriterTypesStep ==
    ASSUME WriterTypes, ReaderTypes, RunInv, [Next]_vars
    PROVE  WriterTypes'
<1> USE SessionAssumption DEF WriterTypes, ReaderTypes, RunInv, Places, Runs, Steps
<1>1. CASE FileCreate
  BY <1>1 DEF FileCreate, writerVars, knownVars, openVars, eventVars, historyVars
<1>2. CASE UnlinkMarker
  BY <1>2 DEF UnlinkMarker, writerVars, knownVars, openVars, eventVars, historyVars
<1>3. CASE StartGroup
  BY <1>3 DEF StartGroup, writerVars, knownVars, openVars, eventVars, historyVars
<1>4. CASE PublishSchema
  BY <1>4 DEF PublishSchema, writerVars, knownVars, openVars, eventVars, historyVars
<1>5. CASE SetLastStep
  BY <1>5 DEF SetLastStep, writerVars, knownVars, openVars, eventVars, historyVars
<1>6. CASE Snapshot
  BY <1>6 DEF Snapshot, writerVars, knownVars, openVars, eventVars, historyVars
<1>7. CASE ForwardDone
  BY <1>7 DEF ForwardDone, writerVars, knownVars, openVars, eventVars, historyVars
<1>8. CASE WriteMarker
  BY <1>8 DEF WriteMarker, writerVars, knownVars, openVars, eventVars, historyVars
<1>9. CASE Stop
  BY <1>9 DEF Stop, Depart, writerVars, knownVars, openVars, eventVars, historyVars
<1>10. CASE Crash
  BY <1>10 DEF Crash, Depart, writerVars, knownVars, openVars, eventVars, historyVars
<1>11. ASSUME NEW q \in Readers, Forward(q) PROVE WriterTypes'
  BY <1>11 DEF Forward, writerVars, knownVars, openVars, eventVars, historyVars
<1>12. ASSUME NEW q \in Readers, ForwardTimesOut(q) PROVE WriterTypes'
  BY <1>12 DEF ForwardTimesOut, writerVars, knownVars, openVars, eventVars, historyVars
<1>13. ASSUME NEW q \in Readers, MemberJoined(q) PROVE WriterTypes'
  BY <1>13 DEF MemberJoined, writerVars, knownVars, openVars, eventVars, historyVars
<1>14. ASSUME NEW q \in Readers, MemberLeft(q) PROVE WriterTypes'
  BY <1>14 DEF MemberLeft, writerVars, knownVars, openVars, eventVars, historyVars
<1>15. ASSUME NEW q \in Readers, FileOpen(q) PROVE WriterTypes'
  BY <1>15 DEF FileOpen, writerVars, knownVars, openVars, eventVars, historyVars
<1>16. ASSUME NEW q \in Readers, OpenDone(q) PROVE WriterTypes'
  BY <1>16 DEF OpenDone, writerVars, knownVars, openVars, eventVars, historyVars
<1>17. ASSUME NEW q \in Readers, JoinGroup(q) PROVE WriterTypes'
  BY <1>17 DEF JoinGroup, writerVars, knownVars, openVars, eventVars, historyVars
<1>18. ASSUME NEW q \in Readers, GiveUp(q) PROVE WriterTypes'
  BY <1>18 DEF GiveUp, writerVars, knownVars, openVars, eventVars, historyVars
<1>19. ASSUME NEW q \in Readers, AskCurrentStep(q) PROVE WriterTypes'
  BY <1>19 DEF AskCurrentStep, writerVars, knownVars, openVars, eventVars, historyVars
<1>20. ASSUME NEW q \in Readers, NoSeed(q) PROVE WriterTypes'
  BY <1>20 DEF NoSeed, writerVars, knownVars, openVars, eventVars, historyVars
<1>21. ASSUME NEW q \in Readers, Answered(q) PROVE WriterTypes'
  BY <1>21 DEF Answered, LearnWriter, PushPending, writerVars, knownVars, openVars,
     eventVars, historyVars
<1>22. ASSUME NEW q \in Readers, AskWriter(q, "schema") PROVE WriterTypes'
  BY <1>22 DEF AskWriter, writerVars, knownVars, openVars, eventVars, historyVars
<1>23. ASSUME NEW q \in Readers, AskWriter(q, "ack") PROVE WriterTypes'
  BY <1>23 DEF AskWriter, writerVars, knownVars, openVars, eventVars, historyVars
<1>24. ASSUME NEW q \in Readers, WriterDeparted(q) PROVE WriterTypes'
  BY <1>24 DEF WriterDeparted, writerVars, knownVars, openVars, eventVars, historyVars
<1>25. ASSUME NEW q \in Readers, WaitStepReady(q) PROVE WriterTypes'
  BY <1>25 DEF WaitStepReady, writerVars, knownVars, openVars, eventVars, historyVars
<1>26. ASSUME NEW q \in Readers, StepStatus(q) PROVE WriterTypes'
  BY <1>26 DEF StepStatus, writerVars, knownVars, openVars, eventVars, historyVars
<1>27. ASSUME NEW q \in Readers, FileClose(q) PROVE WriterTypes'
  BY <1>27 DEF FileClose, writerVars, knownVars, openVars, eventVars, historyVars
<1>28. ASSUME NEW q \in Readers, NEW m \in Steps, HandleStepReady(q, m) PROVE WriterTypes'
  BY <1>28 DEF HandleStepReady, LearnWriter, PushPending, writerVars, knownVars,
     openVars, eventVars, historyVars
<1>29. CASE UNCHANGED vars
  BY <1>29 DEF vars, writerVars, knownVars, openVars, eventVars, historyVars,
     writerVars, knownVars, openVars, eventVars, historyVars
<1> QED
  BY <1>1, <1>2, <1>3, <1>4, <1>5, <1>6, <1>7, <1>8, <1>9, <1>10, <1>11, <1>12,
     <1>13, <1>14, <1>15, <1>16, <1>17, <1>18, <1>19, <1>20, <1>21, <1>22, <1>23,
     <1>24, <1>25, <1>26, <1>27, <1>28, <1>29, Zenon DEF Next, WriterNext, ReaderNext

\* The readers' variables keep their types.
LEMMA ReaderTypesStep ==
    ASSUME WriterTypes, ReaderTypes, RunInv, Knowledge, [Next]_vars
    PROVE  ReaderTypes'
<1> USE SessionAssumption DEF WriterTypes, ReaderTypes, RunInv, Stages, Runs, Steps
<1>1. CASE FileCreate
  BY <1>1 DEF FileCreate, writerVars, knownVars, openVars, eventVars, historyVars
<1>2. CASE UnlinkMarker
  BY <1>2 DEF UnlinkMarker, writerVars, knownVars, openVars, eventVars, historyVars
<1>3. CASE StartGroup
  BY <1>3 DEF StartGroup, writerVars, knownVars, openVars, eventVars, historyVars
<1>4. CASE PublishSchema
  BY <1>4 DEF PublishSchema, writerVars, knownVars, openVars, eventVars, historyVars
<1>5. CASE SetLastStep
  BY <1>5 DEF SetLastStep, writerVars, knownVars, openVars, eventVars, historyVars
<1>6. CASE Snapshot
  BY <1>6 DEF Snapshot, writerVars, knownVars, openVars, eventVars, historyVars
<1>7. CASE ForwardDone
  BY <1>7 DEF ForwardDone, writerVars, knownVars, openVars, eventVars, historyVars
<1>8. CASE WriteMarker
  BY <1>8 DEF WriteMarker, writerVars, knownVars, openVars, eventVars, historyVars
<1>9. CASE Stop
  BY <1>9 DEF Stop, Depart, writerVars, knownVars, openVars, eventVars, historyVars
<1>10. CASE Crash
  BY <1>10 DEF Crash, Depart, writerVars, knownVars, openVars, eventVars, historyVars
<1>11. ASSUME NEW q \in Readers, Forward(q) PROVE ReaderTypes'
  <2>1. last_step \in Steps
    BY <1>11 DEF Forward
  <2>2. wire' = wire \/ wire' = [wire EXCEPT ![q] = wire[q] \cup {last_step}]
    BY <1>11 DEF Forward
  <2>3. wire' \in [Readers -> SUBSET Steps]
    BY <2>1, <2>2
  <2> QED
    BY <1>11, <2>3 DEF Forward, knownVars, openVars, eventVars, historyVars
<1>12. ASSUME NEW q \in Readers, ForwardTimesOut(q) PROVE ReaderTypes'
  BY <1>12 DEF ForwardTimesOut, writerVars, knownVars, openVars, eventVars, historyVars
<1>13. ASSUME NEW q \in Readers, MemberJoined(q) PROVE ReaderTypes'
  BY <1>13 DEF MemberJoined, writerVars, knownVars, openVars, eventVars, historyVars
<1>14. ASSUME NEW q \in Readers, MemberLeft(q) PROVE ReaderTypes'
  BY <1>14 DEF MemberLeft, writerVars, knownVars, openVars, eventVars, historyVars
<1>15. ASSUME NEW q \in Readers, FileOpen(q) PROVE ReaderTypes'
  BY <1>15 DEF FileOpen, writerVars, knownVars, openVars, eventVars, historyVars
<1>16. ASSUME NEW q \in Readers, OpenDone(q) PROVE ReaderTypes'
  BY <1>16 DEF OpenDone, writerVars, knownVars, openVars, eventVars, historyVars
<1>17. ASSUME NEW q \in Readers, JoinGroup(q) PROVE ReaderTypes'
  BY <1>17 DEF JoinGroup, writerVars, knownVars, openVars, eventVars, historyVars
<1>18. ASSUME NEW q \in Readers, GiveUp(q) PROVE ReaderTypes'
  BY <1>18 DEF GiveUp, writerVars, knownVars, openVars, eventVars, historyVars
<1>19. ASSUME NEW q \in Readers, AskCurrentStep(q) PROVE ReaderTypes'
  BY <1>19 DEF AskCurrentStep, writerVars, knownVars, openVars, eventVars, historyVars
<1>20. ASSUME NEW q \in Readers, NoSeed(q) PROVE ReaderTypes'
  BY <1>20 DEF NoSeed, writerVars, knownVars, openVars, eventVars, historyVars
<1>21. ASSUME NEW q \in Readers, Answered(q) PROVE ReaderTypes'
  <2>1. epoch[q] \in Runs
    BY <1>21 DEF Answered, Knowledge, KnowsOwn
  <2>2. eos_writers' = [eos_writers EXCEPT ![q] = eos_writers[q] \cup {epoch[q]}]
    BY <1>21 DEF Answered, LearnWriter
  <2>3. stage' \in [Readers -> Stages]
    BY <1>21 DEF Answered
  <2> QED
    BY <1>21, <2>1, <2>2, <2>3 DEF Answered, eventVars, historyVars
<1>22. ASSUME NEW q \in Readers, AskWriter(q, "schema") PROVE ReaderTypes'
  BY <1>22 DEF AskWriter, writerVars, knownVars, openVars, eventVars, historyVars
<1>23. ASSUME NEW q \in Readers, AskWriter(q, "ack") PROVE ReaderTypes'
  BY <1>23 DEF AskWriter, writerVars, knownVars, openVars, eventVars, historyVars
<1>24. ASSUME NEW q \in Readers, WriterDeparted(q) PROVE ReaderTypes'
  BY <1>24 DEF WriterDeparted, writerVars, knownVars, openVars, eventVars, historyVars
<1>25. ASSUME NEW q \in Readers, WaitStepReady(q) PROVE ReaderTypes'
  BY <1>25 DEF WaitStepReady, writerVars, knownVars, openVars, eventVars, historyVars
<1>26. ASSUME NEW q \in Readers, StepStatus(q) PROVE ReaderTypes'
  BY <1>26 DEF StepStatus, writerVars, knownVars, openVars, eventVars, historyVars
<1>27. ASSUME NEW q \in Readers, FileClose(q) PROVE ReaderTypes'
  BY <1>27 DEF FileClose, writerVars, knownVars, openVars, eventVars, historyVars
<1>28. ASSUME NEW q \in Readers, NEW m \in Steps, HandleStepReady(q, m) PROVE ReaderTypes'
  BY <1>28 DEF Knowledge, KnowsOwn, HandleStepReady, LearnWriter, PushPending,
     writerVars, knownVars, openVars, eventVars, historyVars
<1>29. CASE UNCHANGED vars
  BY <1>29 DEF vars, writerVars, knownVars, openVars, eventVars, historyVars,
     writerVars, knownVars, openVars, eventVars, historyVars
<1> QED
  BY <1>1, <1>2, <1>3, <1>4, <1>5, <1>6, <1>7, <1>8, <1>9, <1>10, <1>11, <1>12,
     <1>13, <1>14, <1>15, <1>16, <1>17, <1>18, <1>19, <1>20, <1>21, <1>22, <1>23,
     <1>24, <1>25, <1>26, <1>27, <1>28, <1>29, Zenon DEF Next, WriterNext, ReaderNext

\* What is known of the runs is kept.
LEMMA RunInvStep ==
    ASSUME WriterTypes, RunInv, [Next]_vars
    PROVE  RunInv'
<1> USE SessionAssumption DEF WriterTypes, RunInv, Places, Runs, Steps
<1>1. CASE FileCreate
  <2>1. /\ at = "off" /\ at' = "created" /\ run' = run + 1 /\ run < MaxRuns
        /\ last_step' = 0 /\ schema_step' = 0
        /\ UNCHANGED <<ended, marker, group_file>>
    BY <1>1 DEF FileCreate
  <2>2. \A k \in Runs : k < run' => ended'[k] # "no"
    BY <2>1
  <2>3. run' # 0 /\ run' \in Runs
    BY <2>1
  <2>4. ended[run'] = "no"
    BY <2>1, <2>3
  <2> QED
    BY <2>1, <2>2, <2>3, <2>4
<1>2. CASE UnlinkMarker
  BY <1>2 DEF UnlinkMarker, writerVars, knownVars, openVars, eventVars, historyVars
<1>3. CASE StartGroup
  BY <1>3 DEF StartGroup, writerVars, knownVars, openVars, eventVars, historyVars
<1>4. CASE PublishSchema
  BY <1>4 DEF PublishSchema, writerVars, knownVars, openVars, eventVars, historyVars
<1>5. CASE SetLastStep
  BY <1>5 DEF SetLastStep, writerVars, knownVars, openVars, eventVars, historyVars
<1>6. CASE Snapshot
  BY <1>6 DEF Snapshot, writerVars, knownVars, openVars, eventVars, historyVars
<1>7. CASE ForwardDone
  BY <1>7 DEF ForwardDone, writerVars, knownVars, openVars, eventVars, historyVars
<1>8. CASE WriteMarker
  BY <1>8 DEF WriteMarker, writerVars, knownVars, openVars, eventVars, historyVars
<1>9. CASE Stop
  BY <1>9 DEF Stop, Depart, writerVars, knownVars, openVars, eventVars, historyVars
<1>10. CASE Crash
  BY <1>10 DEF Crash, Depart, writerVars, knownVars, openVars, eventVars, historyVars
<1>11. ASSUME NEW q \in Readers, Forward(q) PROVE RunInv'
  BY <1>11 DEF Forward, writerVars, knownVars, openVars, eventVars, historyVars
<1>12. ASSUME NEW q \in Readers, ForwardTimesOut(q) PROVE RunInv'
  BY <1>12 DEF ForwardTimesOut, writerVars, knownVars, openVars, eventVars, historyVars
<1>13. ASSUME NEW q \in Readers, MemberJoined(q) PROVE RunInv'
  BY <1>13 DEF MemberJoined, writerVars, knownVars, openVars, eventVars, historyVars
<1>14. ASSUME NEW q \in Readers, MemberLeft(q) PROVE RunInv'
  BY <1>14 DEF MemberLeft, writerVars, knownVars, openVars, eventVars, historyVars
<1>15. ASSUME NEW q \in Readers, FileOpen(q) PROVE RunInv'
  BY <1>15 DEF FileOpen, writerVars, knownVars, openVars, eventVars, historyVars
<1>16. ASSUME NEW q \in Readers, OpenDone(q) PROVE RunInv'
  BY <1>16 DEF OpenDone, writerVars, knownVars, openVars, eventVars, historyVars
<1>17. ASSUME NEW q \in Readers, JoinGroup(q) PROVE RunInv'
  BY <1>17 DEF JoinGroup, writerVars, knownVars, openVars, eventVars, historyVars
<1>18. ASSUME NEW q \in Readers, GiveUp(q) PROVE RunInv'
  BY <1>18 DEF GiveUp, writerVars, knownVars, openVars, eventVars, historyVars
<1>19. ASSUME NEW q \in Readers, AskCurrentStep(q) PROVE RunInv'
  BY <1>19 DEF AskCurrentStep, writerVars, knownVars, openVars, eventVars, historyVars
<1>20. ASSUME NEW q \in Readers, NoSeed(q) PROVE RunInv'
  BY <1>20 DEF NoSeed, writerVars, knownVars, openVars, eventVars, historyVars
<1>21. ASSUME NEW q \in Readers, Answered(q) PROVE RunInv'
  BY <1>21 DEF Answered, LearnWriter, PushPending, writerVars, knownVars, openVars,
     eventVars, historyVars
<1>22. ASSUME NEW q \in Readers, AskWriter(q, "schema") PROVE RunInv'
  BY <1>22 DEF AskWriter, writerVars, knownVars, openVars, eventVars, historyVars
<1>23. ASSUME NEW q \in Readers, AskWriter(q, "ack") PROVE RunInv'
  BY <1>23 DEF AskWriter, writerVars, knownVars, openVars, eventVars, historyVars
<1>24. ASSUME NEW q \in Readers, WriterDeparted(q) PROVE RunInv'
  BY <1>24 DEF WriterDeparted, writerVars, knownVars, openVars, eventVars, historyVars
<1>25. ASSUME NEW q \in Readers, WaitStepReady(q) PROVE RunInv'
  BY <1>25 DEF WaitStepReady, writerVars, knownVars, openVars, eventVars, historyVars
<1>26. ASSUME NEW q \in Readers, StepStatus(q) PROVE RunInv'
  BY <1>26 DEF StepStatus, writerVars, knownVars, openVars, eventVars, historyVars
<1>27. ASSUME NEW q \in Readers, FileClose(q) PROVE RunInv'
  BY <1>27 DEF FileClose, writerVars, knownVars, openVars, eventVars, historyVars
<1>28. ASSUME NEW q \in Readers, NEW m \in Steps, HandleStepReady(q, m) PROVE RunInv'
  BY <1>28 DEF HandleStepReady, LearnWriter, PushPending, writerVars, knownVars,
     openVars, eventVars, historyVars
<1>29. CASE UNCHANGED vars
  BY <1>29 DEF vars, writerVars, knownVars, openVars, eventVars, historyVars,
     writerVars, knownVars, openVars, eventVars, historyVars
<1> QED
  BY <1>1, <1>2, <1>3, <1>4, <1>5, <1>6, <1>7, <1>8, <1>9, <1>10, <1>11, <1>12,
     <1>13, <1>14, <1>15, <1>16, <1>17, <1>18, <1>19, <1>20, <1>21, <1>22, <1>23,
     <1>24, <1>25, <1>26, <1>27, <1>28, <1>29, Zenon DEF Next, WriterNext, ReaderNext

\* A queue that grows by a step, or gives its first one, keeps its bound.
LEMMA QueueBound ==
    ASSUME NEW s \in Seq(Steps), NEW b \in Nat, \A i \in DOMAIN s : s[i] <= b
    PROVE  /\ \A n \in Steps : Append(s, n) \in Seq(Steps)
           /\ \A n \in Steps : n <= b =>
                 \A i \in DOMAIN Append(s, n) : Append(s, n)[i] <= b
           /\ s # <<>> => /\ Head(s) \in Steps /\ Head(s) <= b
                          /\ Tail(s) \in Seq(Steps)
                          /\ \A i \in DOMAIN Tail(s) : Tail(s)[i] <= b
<1>1. DOMAIN s = 1 .. Len(s) /\ Len(s) \in Nat
  BY LenProperties
<1>2. ASSUME NEW n \in Steps
      PROVE  /\ Append(s, n) \in Seq(Steps)
             /\ n <= b => \A i \in DOMAIN Append(s, n) : Append(s, n)[i] <= b
  BY <1>1, <1>2, AppendProperties
<1>3. CASE s # <<>>
  <2>1. Len(s) > 0
    BY <1>3, EmptySeq
  <2>2. Head(s) = s[1] /\ s[1] \in Steps
    BY <1>1, <2>1, ElementOfSeq
  <2>3. Tail(s) \in Seq(Steps) /\ Len(Tail(s)) = Len(s) - 1
        /\ \A i \in 1 .. Len(s) - 1 : Tail(s)[i] = s[i + 1]
    BY <1>3, HeadTailProperties
  <2>4. DOMAIN Tail(s) = 1 .. Len(s) - 1
    BY <2>3, LenProperties
  <2> QED
    BY <1>1, <2>1, <2>2, <2>3, <2>4
<1> QED
  BY <1>2, <1>3

\* The answer that a reader takes: what it changes.
AnswerStep(q) ==
    /\ probe[q] # NoProbe /\ probe' = [probe EXCEPT ![q] = NoProbe]
    /\ eos_writers' = [eos_writers EXCEPT ![q] = eos_writers[q] \cup {epoch[q]}]
    /\ probe[q].kind = "seed" =>
          /\ probe[q].step \in Steps
          /\ pending' = [pending EXCEPT ![q] = Append(pending[q], probe[q].step)]
          /\ stage' = [stage EXCEPT ![q] = "open"]
    /\ probe[q].kind # "seed" => UNCHANGED <<pending, stage>>
    /\ UNCHANGED <<writerVars, eos_writer_gone, data_eos, epoch, done_path,
                   writer_done, eventVars, historyVars, members, wire>>
\* The answer to a probe does this.
LEMMA AnswerEffect ==
    ASSUME QueueTypes, NEW q \in Readers, Answered(q)
    PROVE  AnswerStep(q)
<1>1. probe[q].kind = "seed" => probe[q].step \in Steps
  BY SessionAssumption DEF QueueTypes, Steps
<1> QED
  BY <1>1, Zenon DEF Answered, LearnWriter, PushPending, AnswerStep

\* A forward puts the last step on the way to one reader at most.
LEMMA ForwardEffect ==
    ASSUME ReaderTypes, NEW q \in Readers, Forward(q), NEW r \in Readers
    PROVE  /\ r # q => wire'[r] = wire[r]
           /\ q \in members /\ InGroup(q) => wire'[q] = wire[q] \cup {last_step}
           /\ ~(q \in members /\ InGroup(q)) => wire'[q] = wire[q]
<1>1. wire \in [Readers -> SUBSET Steps]
  BY DEF ReaderTypes
<1>2. CASE q \in members /\ InGroup(q)
  <2>1. wire' = [wire EXCEPT ![q] = wire[q] \cup {last_step}]
    BY <1>2 DEF Forward
  <2> QED
    BY <1>1, <1>2, <2>1
<1>3. CASE ~(q \in members /\ InGroup(q))
  BY <1>3 DEF Forward
<1> QED
  BY <1>2, <1>3

\* The queues and answers of the readers keep their types.
LEMMA QueueTypesStep ==
    ASSUME WriterTypes, ReaderTypes, QueueTypes, [Next]_vars
    PROVE  QueueTypes'
<1> USE SessionAssumption DEF WriterTypes, ReaderTypes, QueueTypes, NoProbe, Kinds,
   Runs, Steps
<1>1. CASE FileCreate
  BY <1>1 DEF FileCreate, writerVars, knownVars, openVars, eventVars, historyVars
<1>2. CASE UnlinkMarker
  BY <1>2 DEF UnlinkMarker, writerVars, knownVars, openVars, eventVars, historyVars
<1>3. CASE StartGroup
  BY <1>3 DEF StartGroup, writerVars, knownVars, openVars, eventVars, historyVars
<1>4. CASE PublishSchema
  BY <1>4 DEF PublishSchema, writerVars, knownVars, openVars, eventVars, historyVars
<1>5. CASE SetLastStep
  BY <1>5 DEF SetLastStep, writerVars, knownVars, openVars, eventVars, historyVars
<1>6. CASE Snapshot
  BY <1>6 DEF Snapshot, writerVars, knownVars, openVars, eventVars, historyVars
<1>7. CASE ForwardDone
  BY <1>7 DEF ForwardDone, writerVars, knownVars, openVars, eventVars, historyVars
<1>8. CASE WriteMarker
  BY <1>8 DEF WriteMarker, writerVars, knownVars, openVars, eventVars, historyVars
<1>9. CASE Stop
  BY <1>9 DEF Stop, Depart, writerVars, knownVars, openVars, eventVars, historyVars
<1>10. CASE Crash
  BY <1>10 DEF Crash, Depart, writerVars, knownVars, openVars, eventVars, historyVars
<1>11. ASSUME NEW q \in Readers, Forward(q) PROVE QueueTypes'
  BY <1>11 DEF Forward, writerVars, knownVars, openVars, eventVars, historyVars
<1>12. ASSUME NEW q \in Readers, ForwardTimesOut(q) PROVE QueueTypes'
  BY <1>12 DEF ForwardTimesOut, writerVars, knownVars, openVars, eventVars, historyVars
<1>13. ASSUME NEW q \in Readers, MemberJoined(q) PROVE QueueTypes'
  BY <1>13 DEF MemberJoined, writerVars, knownVars, openVars, eventVars, historyVars
<1>14. ASSUME NEW q \in Readers, MemberLeft(q) PROVE QueueTypes'
  BY <1>14 DEF MemberLeft, writerVars, knownVars, openVars, eventVars, historyVars
<1>15. ASSUME NEW q \in Readers, FileOpen(q) PROVE QueueTypes'
  BY <1>15 DEF FileOpen, writerVars, knownVars, openVars, eventVars, historyVars
<1>16. ASSUME NEW q \in Readers, OpenDone(q) PROVE QueueTypes'
  BY <1>16 DEF OpenDone, writerVars, knownVars, openVars, eventVars, historyVars
<1>17. ASSUME NEW q \in Readers, JoinGroup(q) PROVE QueueTypes'
  BY <1>17 DEF JoinGroup, writerVars, knownVars, openVars, eventVars, historyVars
<1>18. ASSUME NEW q \in Readers, GiveUp(q) PROVE QueueTypes'
  BY <1>18 DEF GiveUp, writerVars, knownVars, openVars, eventVars, historyVars
<1>19. ASSUME NEW q \in Readers, AskCurrentStep(q) PROVE QueueTypes'
  BY <1>19 DEF AskCurrentStep, writerVars, knownVars, openVars, eventVars, historyVars
<1>20. ASSUME NEW q \in Readers, NoSeed(q) PROVE QueueTypes'
  BY <1>20 DEF NoSeed, writerVars, knownVars, openVars, eventVars, historyVars
<1>21. ASSUME NEW q \in Readers, Answered(q) PROVE QueueTypes'
  <2>0. AnswerStep(q)
    BY <1>21, AnswerEffect
  <2> USE <2>0 DEF AnswerStep
  <2>1. probe' \in [Readers -> [kind : Kinds, step : 0 .. MaxSteps]]
    BY DEF NoProbe
  <2>2. pending' \in [Readers -> Seq(Steps)]
    <3>1. CASE probe[q].kind = "seed"
      <4> DEFINE s == Append(pending[q], probe[q].step)
      <4>1. s \in Seq(Steps)
        BY <3>1, AppendProperties
      <4>2. pending' = [pending EXCEPT ![q] = s]
        BY <3>1
      <4> HIDE DEF s
      <4> QED
        BY <4>1, <4>2
    <3>2. CASE probe[q].kind # "seed"
      BY <3>2
    <3> QED
      BY <3>1, <3>2
  <2>3. \A r \in Readers :
           /\ probe'[r].kind = "none" <=> probe'[r] = NoProbe
           /\ probe'[r].kind = "seed" => probe'[r].step # 0
    BY DEF NoProbe
  <2>4. UNCHANGED <<announced, told>>
    BY DEF historyVars
  <2> QED
    BY <2>1, <2>2, <2>3, <2>4
<1>22. ASSUME NEW q \in Readers, AskWriter(q, "schema") PROVE QueueTypes'
  BY <1>22 DEF AskWriter, writerVars, knownVars, openVars, eventVars, historyVars
<1>23. ASSUME NEW q \in Readers, AskWriter(q, "ack") PROVE QueueTypes'
  BY <1>23 DEF AskWriter, writerVars, knownVars, openVars, eventVars, historyVars
<1>24. ASSUME NEW q \in Readers, WriterDeparted(q) PROVE QueueTypes'
  BY <1>24 DEF WriterDeparted, writerVars, knownVars, openVars, eventVars, historyVars
<1>25. ASSUME NEW q \in Readers, WaitStepReady(q) PROVE QueueTypes'
  BY <1>25, SMTT(30) DEF WaitStepReady, writerVars, knownVars, openVars, eventVars, historyVars
<1>26. ASSUME NEW q \in Readers, StepStatus(q) PROVE QueueTypes'
  BY <1>26 DEF StepStatus, writerVars, knownVars, openVars, eventVars, historyVars
<1>27. ASSUME NEW q \in Readers, FileClose(q) PROVE QueueTypes'
  BY <1>27 DEF FileClose, writerVars, knownVars, openVars, eventVars, historyVars
<1>28. ASSUME NEW q \in Readers, NEW m \in Steps, HandleStepReady(q, m) PROVE QueueTypes'
  BY <1>28 DEF HandleStepReady, LearnWriter, PushPending, writerVars, knownVars,
     openVars, eventVars, historyVars
<1>29. CASE UNCHANGED vars
  BY <1>29 DEF vars, writerVars, knownVars, openVars, eventVars, historyVars,
     writerVars, knownVars, openVars, eventVars, historyVars
<1> QED
  BY <1>1, <1>2, <1>3, <1>4, <1>5, <1>6, <1>7, <1>8, <1>9, <1>10, <1>11, <1>12,
     <1>13, <1>14, <1>15, <1>16, <1>17, <1>18, <1>19, <1>20, <1>21, <1>22, <1>23,
     <1>24, <1>25, <1>26, <1>27, <1>28, <1>29, Zenon DEF Next, WriterNext, ReaderNext

\* What a reader knows of its writer is kept.
LEMMA KnowsOwnStep ==
    ASSUME WriterTypes, ReaderTypes, QueueTypes, RunInv, Knowledge,
           NEW r \in Readers, [Next]_vars
    PROVE  KnowsOwn(r)'
<1> USE SessionAssumption DEF WriterTypes, ReaderTypes, RunInv, KnowsOwn, Runs, Steps
<1> KnowsOwn(r)
  BY DEF Knowledge
<1>1. CASE FileCreate
  BY <1>1 DEF FileCreate, writerVars, knownVars, openVars, eventVars, historyVars,
     InGroup
<1>2. CASE UnlinkMarker
  BY <1>2 DEF UnlinkMarker, writerVars, knownVars, openVars, eventVars, historyVars,
     InGroup
<1>3. CASE StartGroup
  BY <1>3 DEF StartGroup, writerVars, knownVars, openVars, eventVars, historyVars,
     InGroup
<1>4. CASE PublishSchema
  BY <1>4 DEF PublishSchema, writerVars, knownVars, openVars, eventVars, historyVars,
     InGroup
<1>5. CASE SetLastStep
  BY <1>5 DEF SetLastStep, writerVars, knownVars, openVars, eventVars, historyVars,
     InGroup
<1>6. CASE Snapshot
  BY <1>6 DEF Snapshot, writerVars, knownVars, openVars, eventVars, historyVars, InGroup
<1>7. CASE ForwardDone
  BY <1>7 DEF ForwardDone, writerVars, knownVars, openVars, eventVars, historyVars,
     InGroup
<1>8. CASE WriteMarker
  BY <1>8 DEF WriteMarker, writerVars, knownVars, openVars, eventVars, historyVars,
     InGroup
<1>9. CASE Stop
  BY <1>9 DEF Stop, Depart, writerVars, knownVars, openVars, eventVars, historyVars,
     InGroup
<1>10. CASE Crash
  BY <1>10 DEF Crash, Depart, writerVars, knownVars, openVars, eventVars,
     historyVars, InGroup
<1>11. ASSUME NEW q \in Readers, Forward(q) PROVE KnowsOwn(r)'
  BY <1>11 DEF Forward, writerVars, knownVars, openVars, eventVars, historyVars, InGroup
<1>12. ASSUME NEW q \in Readers, ForwardTimesOut(q) PROVE KnowsOwn(r)'
  BY <1>12 DEF ForwardTimesOut, writerVars, knownVars, openVars, eventVars,
     historyVars, InGroup
<1>13. ASSUME NEW q \in Readers, MemberJoined(q) PROVE KnowsOwn(r)'
  BY <1>13 DEF MemberJoined, writerVars, knownVars, openVars, eventVars, historyVars,
     InGroup
<1>14. ASSUME NEW q \in Readers, MemberLeft(q) PROVE KnowsOwn(r)'
  BY <1>14 DEF MemberLeft, writerVars, knownVars, openVars, eventVars, historyVars,
     InGroup
<1>15. ASSUME NEW q \in Readers, FileOpen(q) PROVE KnowsOwn(r)'
  BY <1>15 DEF FileOpen, writerVars, knownVars, openVars, eventVars, historyVars,
     InGroup
<1>16. ASSUME NEW q \in Readers, OpenDone(q) PROVE KnowsOwn(r)'
  BY <1>16 DEF OpenDone, writerVars, knownVars, openVars, eventVars, historyVars,
     InGroup
<1>17. ASSUME NEW q \in Readers, JoinGroup(q) PROVE KnowsOwn(r)'
  BY <1>17 DEF JoinGroup, writerVars, knownVars, openVars, eventVars, historyVars,
     InGroup
<1>18. ASSUME NEW q \in Readers, GiveUp(q) PROVE KnowsOwn(r)'
  BY <1>18 DEF GiveUp, writerVars, knownVars, openVars, eventVars, historyVars, InGroup
<1>19. ASSUME NEW q \in Readers, AskCurrentStep(q) PROVE KnowsOwn(r)'
  BY <1>19 DEF AskCurrentStep, Reaches, Alive, NoProbe, writerVars, knownVars,
     openVars, eventVars, historyVars, InGroup
<1>20. ASSUME NEW q \in Readers, NoSeed(q) PROVE KnowsOwn(r)'
  BY <1>20 DEF NoSeed, NoProbe, writerVars, knownVars, openVars, eventVars,
     historyVars, InGroup
<1>21. ASSUME NEW q \in Readers, Answered(q) PROVE KnowsOwn(r)'
  <2>0. AnswerStep(q)
    BY <1>21, AnswerEffect
  <2>1. UNCHANGED <<epoch, group_file, ended, eos_writer_gone, writer_done, wire,
                    departed, leaving, eos, told, announced>>
    BY <2>0 DEF AnswerStep, writerVars, eventVars, historyVars
  <2>2. CASE r # q
    <3>1. /\ probe'[r] = probe[r] /\ stage'[r] = stage[r]
          /\ pending'[r] = pending[r] /\ eos_writers'[r] = eos_writers[r]
      BY <2>0, <2>2 DEF AnswerStep, QueueTypes
    <3> QED
      BY <2>1, <3>1
  <2>3. CASE r = q
    <3>1. epoch[r] # 0 /\ stage[r] \notin {"out", "opening"}
      BY <2>0, <2>3 DEF AnswerStep, QueueTypes
    <3>2. probe'[r] = NoProbe
      BY <2>0, <2>3 DEF AnswerStep, QueueTypes
    <3>3. eos_writers'[r] = eos_writers[r] \cup {epoch[r]}
      BY <2>0, <2>3 DEF AnswerStep, QueueTypes
    <3>4. stage'[r] = stage[r] \/ (stage[r] = "joined" /\ stage'[r] = "open")
      BY <2>0, <2>3 DEF AnswerStep, QueueTypes
    <3> QED
      BY <2>1, <3>1, <3>2, <3>3, <3>4 DEF NoProbe
  <2> QED
    BY <2>2, <2>3
<1>22. ASSUME NEW q \in Readers, AskWriter(q, "schema") PROVE KnowsOwn(r)'
  BY <1>22 DEF AskWriter, Reaches, Alive, NoProbe, writerVars, knownVars, openVars,
     eventVars, historyVars, InGroup
<1>23. ASSUME NEW q \in Readers, AskWriter(q, "ack") PROVE KnowsOwn(r)'
  BY <1>23 DEF AskWriter, Reaches, Alive, NoProbe, writerVars, knownVars, openVars,
     eventVars, historyVars, InGroup
<1>24. ASSUME NEW q \in Readers, WriterDeparted(q) PROVE KnowsOwn(r)'
  BY <1>24 DEF WriterDeparted, writerVars, knownVars, openVars, eventVars,
     historyVars, InGroup
<1>25. ASSUME NEW q \in Readers, WaitStepReady(q) PROVE KnowsOwn(r)'
  BY <1>25 DEF WaitStepReady, Free, NoProbe, writerVars, knownVars, openVars,
     eventVars, historyVars, InGroup
<1>26. ASSUME NEW q \in Readers, StepStatus(q) PROVE KnowsOwn(r)'
  BY <1>26 DEF StepStatus, Free, EndOfStream, AllWritersGone, MarkedDone, writerVars,
     knownVars, openVars, eventVars, historyVars, InGroup
<1>27. ASSUME NEW q \in Readers, FileClose(q) PROVE KnowsOwn(r)'
  BY <1>27 DEF FileClose, Free, NoProbe, writerVars, knownVars, openVars, eventVars,
     historyVars, InGroup
<1>28. ASSUME NEW q \in Readers, NEW m \in Steps, HandleStepReady(q, m) PROVE KnowsOwn(r)'
  BY <1>28 DEF HandleStepReady, LearnWriter, PushPending, writerVars, knownVars,
     openVars, eventVars, historyVars, InGroup
<1>29. CASE UNCHANGED vars
  BY <1>29 DEF vars, writerVars, knownVars, openVars, eventVars, historyVars,
     writerVars, knownVars, openVars, eventVars, historyVars, InGroup
<1> QED
  BY <1>1, <1>2, <1>3, <1>4, <1>5, <1>6, <1>7, <1>8, <1>9, <1>10, <1>11, <1>12,
     <1>13, <1>14, <1>15, <1>16, <1>17, <1>18, <1>19, <1>20, <1>21, <1>22, <1>23,
     <1>24, <1>25, <1>26, <1>27, <1>28, <1>29, Zenon DEF Next, WriterNext, ReaderNext

\* A reader told of the end stays with a run that is over.
LEMMA OverInvStep ==
    ASSUME WriterTypes, ReaderTypes, RunInv, Knowledge, Over,
           NEW r \in Readers, [Next]_vars
    PROVE  OverInv(r)'
<1> USE SessionAssumption DEF WriterTypes, ReaderTypes, RunInv, KnowsOwn, OverInv, Runs
<1> KnowsOwn(r) /\ OverInv(r)
  BY DEF Knowledge, Over
<1>1. CASE FileCreate
  BY <1>1 DEF FileCreate, writerVars, knownVars, openVars, eventVars, historyVars,
     InGroup
<1>2. CASE UnlinkMarker
  BY <1>2 DEF UnlinkMarker, writerVars, knownVars, openVars, eventVars, historyVars,
     InGroup
<1>3. CASE StartGroup
  BY <1>3 DEF StartGroup, writerVars, knownVars, openVars, eventVars, historyVars,
     InGroup
<1>4. CASE PublishSchema
  BY <1>4 DEF PublishSchema, writerVars, knownVars, openVars, eventVars, historyVars,
     InGroup
<1>5. CASE SetLastStep
  BY <1>5 DEF SetLastStep, writerVars, knownVars, openVars, eventVars, historyVars,
     InGroup
<1>6. CASE Snapshot
  BY <1>6 DEF Snapshot, writerVars, knownVars, openVars, eventVars, historyVars, InGroup
<1>7. CASE ForwardDone
  BY <1>7 DEF ForwardDone, writerVars, knownVars, openVars, eventVars, historyVars,
     InGroup
<1>8. CASE WriteMarker
  BY <1>8 DEF WriteMarker, writerVars, knownVars, openVars, eventVars, historyVars,
     InGroup
<1>9. CASE Stop
  BY <1>9 DEF Stop, Depart, writerVars, knownVars, openVars, eventVars, historyVars,
     InGroup
<1>10. CASE Crash
  BY <1>10 DEF Crash, Depart, writerVars, knownVars, openVars, eventVars,
     historyVars, InGroup
<1>11. ASSUME NEW q \in Readers, Forward(q) PROVE OverInv(r)'
  BY <1>11 DEF Forward, writerVars, knownVars, openVars, eventVars, historyVars, InGroup
<1>12. ASSUME NEW q \in Readers, ForwardTimesOut(q) PROVE OverInv(r)'
  BY <1>12 DEF ForwardTimesOut, writerVars, knownVars, openVars, eventVars,
     historyVars, InGroup
<1>13. ASSUME NEW q \in Readers, MemberJoined(q) PROVE OverInv(r)'
  BY <1>13 DEF MemberJoined, writerVars, knownVars, openVars, eventVars, historyVars,
     InGroup
<1>14. ASSUME NEW q \in Readers, MemberLeft(q) PROVE OverInv(r)'
  BY <1>14 DEF MemberLeft, writerVars, knownVars, openVars, eventVars, historyVars,
     InGroup
<1>15. ASSUME NEW q \in Readers, FileOpen(q) PROVE OverInv(r)'
  BY <1>15 DEF FileOpen, writerVars, knownVars, openVars, eventVars, historyVars,
     InGroup
<1>16. ASSUME NEW q \in Readers, OpenDone(q) PROVE OverInv(r)'
  BY <1>16 DEF OpenDone, writerVars, knownVars, openVars, eventVars, historyVars,
     InGroup
<1>17. ASSUME NEW q \in Readers, JoinGroup(q) PROVE OverInv(r)'
  BY <1>17 DEF JoinGroup, writerVars, knownVars, openVars, eventVars, historyVars,
     InGroup
<1>18. ASSUME NEW q \in Readers, GiveUp(q) PROVE OverInv(r)'
  BY <1>18 DEF GiveUp, writerVars, knownVars, openVars, eventVars, historyVars, InGroup
<1>19. ASSUME NEW q \in Readers, AskCurrentStep(q) PROVE OverInv(r)'
  BY <1>19 DEF AskCurrentStep, Reaches, Alive, NoProbe, writerVars, knownVars,
     openVars, eventVars, historyVars, InGroup
<1>20. ASSUME NEW q \in Readers, NoSeed(q) PROVE OverInv(r)'
  BY <1>20 DEF NoSeed, NoProbe, writerVars, knownVars, openVars, eventVars,
     historyVars, InGroup
<1>21. ASSUME NEW q \in Readers, Answered(q) PROVE OverInv(r)'
  BY <1>21 DEF Answered, LearnWriter, PushPending, NoProbe, writerVars, knownVars,
     openVars, eventVars, historyVars, InGroup
<1>22. ASSUME NEW q \in Readers, AskWriter(q, "schema") PROVE OverInv(r)'
  BY <1>22 DEF AskWriter, Reaches, Alive, NoProbe, writerVars, knownVars, openVars,
     eventVars, historyVars, InGroup
<1>23. ASSUME NEW q \in Readers, AskWriter(q, "ack") PROVE OverInv(r)'
  BY <1>23 DEF AskWriter, Reaches, Alive, NoProbe, writerVars, knownVars, openVars,
     eventVars, historyVars, InGroup
<1>24. ASSUME NEW q \in Readers, WriterDeparted(q) PROVE OverInv(r)'
  BY <1>24 DEF WriterDeparted, writerVars, knownVars, openVars, eventVars,
     historyVars, InGroup
<1>25. ASSUME NEW q \in Readers, WaitStepReady(q) PROVE OverInv(r)'
  BY <1>25 DEF WaitStepReady, Free, NoProbe, writerVars, knownVars, openVars,
     eventVars, historyVars, InGroup
<1>26. ASSUME NEW q \in Readers, StepStatus(q) PROVE OverInv(r)'
  BY <1>26 DEF StepStatus, Free, EndOfStream, AllWritersGone, MarkedDone, writerVars,
     knownVars, openVars, eventVars, historyVars, InGroup
<1>27. ASSUME NEW q \in Readers, FileClose(q) PROVE OverInv(r)'
  BY <1>27 DEF FileClose, Free, NoProbe, writerVars, knownVars, openVars, eventVars,
     historyVars, InGroup
<1>28. ASSUME NEW q \in Readers, NEW m \in Steps, HandleStepReady(q, m) PROVE OverInv(r)'
  BY <1>28 DEF HandleStepReady, LearnWriter, PushPending, writerVars, knownVars,
     openVars, eventVars, historyVars, InGroup
<1>29. CASE UNCHANGED vars
  BY <1>29 DEF vars, writerVars, knownVars, openVars, eventVars, historyVars,
     writerVars, knownVars, openVars, eventVars, historyVars, InGroup
<1> QED
  BY <1>1, <1>2, <1>3, <1>4, <1>5, <1>6, <1>7, <1>8, <1>9, <1>10, <1>11, <1>12,
     <1>13, <1>14, <1>15, <1>16, <1>17, <1>18, <1>19, <1>20, <1>21, <1>22, <1>23,
     <1>24, <1>25, <1>26, <1>27, <1>28, <1>29, Zenon DEF Next, WriterNext, ReaderNext

\* Nothing a member heard of is past the last step.
LEMMA HeardInvStep ==
    ASSUME WriterTypes, ReaderTypes, QueueTypes, RunInv, Knowledge, Heard,
           NEW r \in Readers, [Next]_vars
    PROVE  HeardInv(r)'
<1> USE SessionAssumption DEF WriterTypes, ReaderTypes, QueueTypes, RunInv, KnowsOwn,
   HeardInv, InGroup, Runs, Steps
<1> KnowsOwn(r) /\ HeardInv(r)
  BY DEF Knowledge, Heard
<1>1. CASE FileCreate
  BY <1>1 DEF FileCreate, writerVars, knownVars, openVars, eventVars, historyVars
<1>2. CASE UnlinkMarker
  BY <1>2 DEF UnlinkMarker, writerVars, knownVars, openVars, eventVars, historyVars
<1>3. CASE StartGroup
  BY <1>3 DEF StartGroup, writerVars, knownVars, openVars, eventVars, historyVars
<1>4. CASE PublishSchema
  BY <1>4 DEF PublishSchema, writerVars, knownVars, openVars, eventVars, historyVars
<1>5. CASE SetLastStep
  BY <1>5, SMTT(30) DEF SetLastStep, writerVars, knownVars, openVars, eventVars, historyVars
<1>6. CASE Snapshot
  BY <1>6 DEF Snapshot, writerVars, knownVars, openVars, eventVars, historyVars
<1>7. CASE ForwardDone
  BY <1>7 DEF ForwardDone, writerVars, knownVars, openVars, eventVars, historyVars
<1>8. CASE WriteMarker
  BY <1>8 DEF WriteMarker, writerVars, knownVars, openVars, eventVars, historyVars
<1>9. CASE Stop
  BY <1>9 DEF Stop, Depart, writerVars, knownVars, openVars, eventVars, historyVars
<1>10. CASE Crash
  BY <1>10 DEF Crash, Depart, writerVars, knownVars, openVars, eventVars, historyVars
<1>11. ASSUME NEW q \in Readers, Forward(q) PROVE HeardInv(r)'
  <2>1. UNCHANGED <<at, run, last_step, epoch, stage, told, pending, probe>>
    BY <1>11 DEF Forward, openVars, historyVars
  <2>2. wire'[r] = wire[r] \/ wire'[r] = wire[r] \cup {last_step}
    BY <1>11, ForwardEffect
  <2>3. (\A n \in wire[r] : n <= last_step) => \A n \in wire'[r] : n <= last_step
    <3> SUFFICES ASSUME \A n \in wire[r] : n <= last_step, NEW n \in wire'[r]
                 PROVE  n <= last_step
      OBVIOUS
    <3>1. n \in wire[r] \/ n = last_step
      BY <2>2, ZenonT(30)
    <3> QED
      BY <3>1, SMTT(30)
  <2> QED
    BY <2>1, <2>3
<1>12. ASSUME NEW q \in Readers, ForwardTimesOut(q) PROVE HeardInv(r)'
  BY <1>12 DEF ForwardTimesOut, writerVars, knownVars, openVars, eventVars, historyVars
<1>13. ASSUME NEW q \in Readers, MemberJoined(q) PROVE HeardInv(r)'
  BY <1>13 DEF MemberJoined, writerVars, knownVars, openVars, eventVars, historyVars
<1>14. ASSUME NEW q \in Readers, MemberLeft(q) PROVE HeardInv(r)'
  BY <1>14 DEF MemberLeft, writerVars, knownVars, openVars, eventVars, historyVars
<1>15. ASSUME NEW q \in Readers, FileOpen(q) PROVE HeardInv(r)'
  BY <1>15 DEF FileOpen, writerVars, knownVars, openVars, eventVars, historyVars
<1>16. ASSUME NEW q \in Readers, OpenDone(q) PROVE HeardInv(r)'
  BY <1>16 DEF OpenDone, writerVars, knownVars, openVars, eventVars, historyVars
<1>17. ASSUME NEW q \in Readers, JoinGroup(q) PROVE HeardInv(r)'
  BY <1>17 DEF JoinGroup, writerVars, knownVars, openVars, eventVars, historyVars
<1>18. ASSUME NEW q \in Readers, GiveUp(q) PROVE HeardInv(r)'
  BY <1>18 DEF GiveUp, writerVars, knownVars, openVars, eventVars, historyVars
<1>19. ASSUME NEW q \in Readers, AskCurrentStep(q) PROVE HeardInv(r)'
  BY <1>19, SMTT(30) DEF AskCurrentStep, Reaches, Alive, NoProbe, writerVars, knownVars,
     openVars, eventVars, historyVars
<1>20. ASSUME NEW q \in Readers, NoSeed(q) PROVE HeardInv(r)'
  BY <1>20 DEF NoSeed, NoProbe, writerVars, knownVars, openVars, eventVars, historyVars
<1>21. ASSUME NEW q \in Readers, Answered(q) PROVE HeardInv(r)'
  <2>0. AnswerStep(q)
    BY <1>21, AnswerEffect
  <2> USE <2>0 DEF AnswerStep
  <2>1. UNCHANGED <<at, run, last_step, epoch, told, wire>>
    BY DEF writerVars, historyVars
  <2>2. CASE r # q
    BY <2>1, <2>2, SMTT(30)
  <2>3. CASE r = q /\ probe[q].kind # "seed"
    BY <2>1, <2>3 DEF NoProbe
  <2>4. CASE r = q /\ probe[q].kind = "seed"
    <3>1. pending'[r] = Append(pending[r], probe[r].step) /\ probe'[r] = NoProbe
      BY <2>4
    <3>2. InGroup(r) => InGroup(r)' /\ stage[r] = "joined"
      BY <2>1, <2>4
    <3>3. InGroup(r)' => InGroup(r)
      BY <2>1, <2>4
    <3>4. InGroup(r) /\ at # "off" =>
             \A i \in DOMAIN pending'[r] : pending'[r][i] <= last_step
      BY <2>4, <3>1, QueueBound
    <3> QED
      BY <2>1, <3>1, <3>3, <3>4 DEF NoProbe
  <2> QED
    BY <2>2, <2>3, <2>4
<1>22. ASSUME NEW q \in Readers, AskWriter(q, "schema") PROVE HeardInv(r)'
  <2>1. /\ Reaches(q)
        /\ probe' = [probe EXCEPT ![q] = [kind |-> "schema", step |-> schema_step]]
        /\ UNCHANGED <<at, run, last_step, epoch, stage, told, pending, wire>>
    BY <1>22 DEF AskWriter, writerVars, openVars
  <2>2. CASE r # q
    BY <2>1, <2>2
  <2>3. CASE r = q
    <3>1. probe'[r].kind = "schema" /\ probe'[r].step = schema_step
      BY <2>1, <2>3
    <3>2. told[r] <= last_step
      BY <2>1, <2>3 DEF Reaches, Alive
    <3> QED
      BY <2>1, <3>1, <3>2, SMTT(30)
  <2> QED
    BY <2>2, <2>3
<1>23. ASSUME NEW q \in Readers, AskWriter(q, "ack") PROVE HeardInv(r)'
  BY <1>23 DEF AskWriter, Reaches, Alive, NoProbe, writerVars, knownVars, openVars,
     eventVars, historyVars
<1>24. ASSUME NEW q \in Readers, WriterDeparted(q) PROVE HeardInv(r)'
  BY <1>24 DEF WriterDeparted, writerVars, knownVars, openVars, eventVars, historyVars
<1>25. ASSUME NEW q \in Readers, WaitStepReady(q) PROVE HeardInv(r)'
  <2>1. /\ Free(q) /\ pending[q] # <<>>
        /\ pending' = [pending EXCEPT ![q] = Tail(pending[q])]
        /\ told' = [told EXCEPT ![q] = Head(pending[q])]
        /\ UNCHANGED <<at, run, last_step, epoch, stage, probe, wire>>
    BY <1>25 DEF WaitStepReady, writerVars, openVars
  <2>2. CASE r # q
    BY <2>1, <2>2
  <2>3. CASE r = q
    <3>1. probe[r].kind # "schema"
      BY <2>1, <2>3 DEF Free, NoProbe
    <3>2. told'[r] = Head(pending[r]) /\ pending'[r] = Tail(pending[r])
      BY <2>1, <2>3
    <3>3. InGroup(r) /\ at # "off" =>
             /\ Head(pending[r]) <= last_step
             /\ \A i \in DOMAIN Tail(pending[r]) : Tail(pending[r])[i] <= last_step
      BY <2>1, <2>3, QueueBound, SMTT(30)
    <3> QED
      BY <2>1, <3>1, <3>2, <3>3
  <2> QED
    BY <2>2, <2>3
<1>26. ASSUME NEW q \in Readers, StepStatus(q) PROVE HeardInv(r)'
  BY <1>26 DEF StepStatus, Free, EndOfStream, AllWritersGone, MarkedDone, writerVars,
     knownVars, openVars, eventVars, historyVars
<1>27. ASSUME NEW q \in Readers, FileClose(q) PROVE HeardInv(r)'
  BY <1>27 DEF FileClose, Free, NoProbe, writerVars, knownVars, openVars, eventVars,
     historyVars
<1>28. ASSUME NEW q \in Readers, NEW m \in Steps, HandleStepReady(q, m) PROVE HeardInv(r)'
  <2>1. /\ m \in wire[q] /\ wire' = [wire EXCEPT ![q] = wire[q] \ {m}]
        /\ pending' = [pending EXCEPT ![q] = Append(pending[q], m)]
        /\ UNCHANGED <<at, run, last_step, epoch, stage, probe, told>>
    BY <1>28 DEF HandleStepReady, PushPending, openVars
  <2>2. CASE r # q
    BY <2>1, <2>2
  <2>3. CASE r = q
    <3>1. pending'[r] = Append(pending[r], m) /\ wire'[r] \subseteq wire[r]
      BY <2>1, <2>3
    <3>2. InGroup(r) /\ at # "off" =>
             \A i \in DOMAIN Append(pending[r], m) : Append(pending[r], m)[i] <= last_step
      BY <2>1, <2>3, QueueBound, SMTT(30)
    <3> QED
      BY <2>1, <3>1, <3>2
  <2> QED
    BY <2>2, <2>3
<1>29. CASE UNCHANGED vars
  BY <1>29 DEF vars, writerVars, knownVars, openVars, eventVars, historyVars,
     writerVars, knownVars, openVars, eventVars, historyVars
<1> QED
  BY <1>1, <1>2, <1>3, <1>4, <1>5, <1>6, <1>7, <1>8, <1>9, <1>10, <1>11, <1>12,
     <1>13, <1>14, <1>15, <1>16, <1>17, <1>18, <1>19, <1>20, <1>21, <1>22, <1>23,
     <1>24, <1>25, <1>26, <1>27, <1>28, <1>29, Zenon DEF Next, WriterNext, ReaderNext

\* In time, a request is under way only while the writer waits for it.
LEMMA WireInvStep ==
    ASSUME InTime, WriterTypes, ReaderTypes, RunInv, Knowledge, Over, Wires,
           NEW r \in Readers, [Next]_vars
    PROVE  WireInv(r)'
<1> USE SessionAssumption DEF InTime, WriterTypes, ReaderTypes, RunInv, KnowsOwn,
   OverInv, WireInv, InGroup, Runs, Steps
<1> KnowsOwn(r) /\ OverInv(r) /\ WireInv(r)
  BY DEF Knowledge, Over, Wires
<1>1. CASE FileCreate
  BY <1>1 DEF FileCreate, writerVars, knownVars, openVars, eventVars, historyVars
<1>2. CASE UnlinkMarker
  BY <1>2 DEF UnlinkMarker, writerVars, knownVars, openVars, eventVars, historyVars
<1>3. CASE StartGroup
  BY <1>3 DEF StartGroup, writerVars, knownVars, openVars, eventVars, historyVars
<1>4. CASE PublishSchema
  BY <1>4 DEF PublishSchema, writerVars, knownVars, openVars, eventVars, historyVars
<1>5. CASE SetLastStep
  BY <1>5 DEF SetLastStep, writerVars, knownVars, openVars, eventVars, historyVars
<1>6. CASE Snapshot
  BY <1>6 DEF Snapshot, writerVars, knownVars, openVars, eventVars, historyVars
<1>7. CASE ForwardDone
  BY <1>7 DEF ForwardDone, writerVars, knownVars, openVars, eventVars, historyVars
<1>8. CASE WriteMarker
  BY <1>8 DEF WriteMarker, writerVars, knownVars, openVars, eventVars, historyVars
<1>9. CASE Stop
  BY <1>9 DEF Stop, Depart, writerVars, knownVars, openVars, eventVars, historyVars
<1>10. CASE Crash
  BY <1>10 DEF Crash, Depart, writerVars, knownVars, openVars, eventVars, historyVars
<1>11. ASSUME NEW q \in Readers, Forward(q) PROVE WireInv(r)'
  <2>1. /\ at = "forward" /\ dest = {} /\ q \in targets /\ targets' = targets \ {q}
        /\ UNCHANGED <<at, run, last_step, marker, epoch, departed, eos, members>>
    BY <1>11 DEF Forward, openVars, eventVars, historyVars
  <2>2. wire[r] = {}
    BY <2>1
  <2>3. CASE r = q /\ r \in members /\ InGroup(r)
    <3>1. wire'[r] = {last_step}
      BY <1>11, <2>2, <2>3, ForwardEffect
    <3>2. dest' = {r}
      BY <1>11, <2>3 DEF Forward
    <3>3. ended[run] = "no" /\ run # 0
      BY <2>1
    <3> QED
      BY <2>1, <2>3, <3>1, <3>2, <3>3
  <2>4. CASE ~(r = q /\ r \in members /\ InGroup(r))
    <3>1. wire'[r] = {}
      BY <1>11, <2>2, <2>4, ForwardEffect
    <3> QED
      BY <3>1
  <2> QED
    BY <2>3, <2>4
<1>12. ASSUME NEW q \in Readers, ForwardTimesOut(q) PROVE WireInv(r)'
  <2>1. /\ dest = {q} /\ dest' = {} /\ ~InGroup(q)
        /\ UNCHANGED <<at, run, last_step, marker, epoch, departed, eos, members,
                       targets, wire>>
    BY <1>12 DEF ForwardTimesOut, TimesOut, openVars, eventVars, historyVars
  <2>2. wire[r] # {} => at = "off"
    <3> SUFFICES ASSUME wire[r] # {}, at # "off" PROVE FALSE
      OBVIOUS
    <3>1. r = q /\ epoch[r] = run
      BY <2>1, ZenonT(30)
    <3>2. stage[r] \in {"joined", "open"}
      OBVIOUS
    <3> QED
      BY <2>1, <3>1, <3>2
  <2>3. wire'[r] = wire[r] /\ departed'[r] = departed[r] /\ eos'[r] = eos[r]
    BY <2>1
  <2> QED
    BY <2>1, <2>2, <2>3
<1>13. ASSUME NEW q \in Readers, MemberJoined(q) PROVE WireInv(r)'
  BY <1>13 DEF MemberJoined, writerVars, knownVars, openVars, eventVars, historyVars
<1>14. ASSUME NEW q \in Readers, MemberLeft(q) PROVE WireInv(r)'
  BY <1>14 DEF MemberLeft, writerVars, knownVars, openVars, eventVars, historyVars
<1>15. ASSUME NEW q \in Readers, FileOpen(q) PROVE WireInv(r)'
  BY <1>15 DEF FileOpen, writerVars, knownVars, openVars, eventVars, historyVars
<1>16. ASSUME NEW q \in Readers, OpenDone(q) PROVE WireInv(r)'
  BY <1>16 DEF OpenDone, writerVars, knownVars, openVars, eventVars, historyVars
<1>17. ASSUME NEW q \in Readers, JoinGroup(q) PROVE WireInv(r)'
  BY <1>17 DEF JoinGroup, writerVars, knownVars, openVars, eventVars, historyVars
<1>18. ASSUME NEW q \in Readers, GiveUp(q) PROVE WireInv(r)'
  BY <1>18 DEF GiveUp, writerVars, knownVars, openVars, eventVars, historyVars
<1>19. ASSUME NEW q \in Readers, AskCurrentStep(q) PROVE WireInv(r)'
  BY <1>19 DEF AskCurrentStep, Reaches, Alive, NoProbe, writerVars, knownVars,
     openVars, eventVars, historyVars
<1>20. ASSUME NEW q \in Readers, NoSeed(q) PROVE WireInv(r)'
  BY <1>20 DEF NoSeed, NoProbe, writerVars, knownVars, openVars, eventVars, historyVars
<1>21. ASSUME NEW q \in Readers, Answered(q) PROVE WireInv(r)'
  BY <1>21 DEF Answered, LearnWriter, PushPending, NoProbe, writerVars, knownVars,
     openVars, eventVars, historyVars
<1>22. ASSUME NEW q \in Readers, AskWriter(q, "schema") PROVE WireInv(r)'
  BY <1>22 DEF AskWriter, Reaches, Alive, NoProbe, writerVars, knownVars, openVars,
     eventVars, historyVars
<1>23. ASSUME NEW q \in Readers, AskWriter(q, "ack") PROVE WireInv(r)'
  BY <1>23 DEF AskWriter, Reaches, Alive, NoProbe, writerVars, knownVars, openVars,
     eventVars, historyVars
<1>24. ASSUME NEW q \in Readers, WriterDeparted(q) PROVE WireInv(r)'
  BY <1>24 DEF WriterDeparted, writerVars, knownVars, openVars, eventVars, historyVars
<1>25. ASSUME NEW q \in Readers, WaitStepReady(q) PROVE WireInv(r)'
  BY <1>25 DEF WaitStepReady, Free, NoProbe, writerVars, knownVars, openVars,
     eventVars, historyVars
<1>26. ASSUME NEW q \in Readers, StepStatus(q) PROVE WireInv(r)'
  BY <1>26 DEF StepStatus, Free, EndOfStream, AllWritersGone, MarkedDone, writerVars,
     knownVars, openVars, eventVars, historyVars
<1>27. ASSUME NEW q \in Readers, FileClose(q) PROVE WireInv(r)'
  BY <1>27 DEF FileClose, Free, NoProbe, writerVars, knownVars, openVars, eventVars,
     historyVars
<1>28. ASSUME NEW q \in Readers, NEW m \in Steps, HandleStepReady(q, m) PROVE WireInv(r)'
  BY <1>28 DEF HandleStepReady, LearnWriter, PushPending, writerVars, knownVars,
     openVars, eventVars, historyVars
<1>29. CASE UNCHANGED vars
  BY <1>29 DEF vars, writerVars, knownVars, openVars, eventVars, historyVars,
     writerVars, knownVars, openVars, eventVars, historyVars
<1> QED
  BY <1>1, <1>2, <1>3, <1>4, <1>5, <1>6, <1>7, <1>8, <1>9, <1>10, <1>11, <1>12,
     <1>13, <1>14, <1>15, <1>16, <1>17, <1>18, <1>19, <1>20, <1>21, <1>22, <1>23,
     <1>24, <1>25, <1>26, <1>27, <1>28, <1>29, Zenon DEF Next, WriterNext, ReaderNext

\* In time, the announcements to a reader leave out no step.
LEMMA GapInvStep ==
    ASSUME InTime, WriterTypes, ReaderTypes, QueueTypes, RunInv, Knowledge, Wires, Gaps,
           NEW r \in Readers, [Next]_vars
    PROVE  GapInv(r)'
<1> USE SessionAssumption DEF WriterTypes, ReaderTypes, RunInv, KnowsOwn, WireInv,
   GapInv, Newest, Missing, InGroup, Runs, Steps
<1> KnowsOwn(r) /\ WireInv(r) /\ GapInv(r)
  BY DEF Knowledge, Wires, Gaps
<1>1. CASE FileCreate
  BY <1>1 DEF FileCreate, writerVars, knownVars, openVars, eventVars, historyVars
<1>2. CASE UnlinkMarker
  BY <1>2 DEF UnlinkMarker, writerVars, knownVars, openVars, eventVars, historyVars
<1>3. CASE StartGroup
  BY <1>3 DEF StartGroup, writerVars, knownVars, openVars, eventVars, historyVars
<1>4. CASE PublishSchema
  BY <1>4 DEF PublishSchema, writerVars, knownVars, openVars, eventVars, historyVars
<1>5. CASE SetLastStep
  BY <1>5 DEF SetLastStep, writerVars, knownVars, openVars, eventVars, historyVars
<1>6. CASE Snapshot
  BY <1>6 DEF Snapshot, writerVars, knownVars, openVars, eventVars, historyVars
<1>7. CASE ForwardDone
  BY <1>7 DEF ForwardDone, writerVars, knownVars, openVars, eventVars, historyVars
<1>8. CASE WriteMarker
  BY <1>8 DEF WriteMarker, writerVars, knownVars, openVars, eventVars, historyVars
<1>9. CASE Stop
  BY <1>9 DEF Stop, Depart, writerVars, knownVars, openVars, eventVars, historyVars
<1>10. CASE Crash
  BY <1>10 DEF Crash, Depart, writerVars, knownVars, openVars, eventVars, historyVars
<1>11. ASSUME NEW q \in Readers, Forward(q) PROVE GapInv(r)'
  <2>1. /\ at = "forward" /\ dest = {} /\ q \in targets /\ targets' = targets \ {q}
        /\ UNCHANGED <<at, run, last_step, epoch, stage, announced, members>>
    BY <1>11 DEF Forward, openVars, historyVars
  <2>2. CASE r # q
    <3>1. wire'[r] = wire[r]
      BY <1>11, <2>2, ForwardEffect
    <3>2. r \in targets' <=> r \in targets
      BY <2>1, <2>2
    <3> QED
      BY <2>1, <3>1, <3>2
  <2>3. CASE r = q
    <3>1. wire[r] = {}
      BY <2>1
    <3>2. CASE r \in members /\ InGroup(r)
      <4>1. wire'[r] = {last_step}
        BY <1>11, <2>3, <3>1, <3>2, ForwardEffect
      <4>2. announced[r] # <<>> => last_step = Newest(r) + 1
        BY <2>1, <2>3, <3>2
      <4> QED
        BY <2>1, <3>2, <4>1, <4>2
    <3>3. CASE ~(r \in members /\ InGroup(r))
      <4>1. wire'[r] = {}
        BY <1>11, <2>3, <3>1, <3>3, ForwardEffect
      <4>2. announced[r] # <<>> => ~InGroup(r)
        BY <2>1, <3>3
      <4> QED
        BY <2>1, <4>1, <4>2
    <3> QED
      BY <3>2, <3>3
  <2> QED
    BY <2>2, <2>3
<1>12. ASSUME NEW q \in Readers, ForwardTimesOut(q) PROVE GapInv(r)'
  BY <1>12 DEF ForwardTimesOut, TimesOut, writerVars, knownVars, openVars, eventVars,
     historyVars
<1>13. ASSUME NEW q \in Readers, MemberJoined(q) PROVE GapInv(r)'
  BY <1>13 DEF MemberJoined, writerVars, knownVars, openVars, eventVars, historyVars
<1>14. ASSUME NEW q \in Readers, MemberLeft(q) PROVE GapInv(r)'
  BY <1>14 DEF MemberLeft, writerVars, knownVars, openVars, eventVars, historyVars
<1>15. ASSUME NEW q \in Readers, FileOpen(q) PROVE GapInv(r)'
  BY <1>15 DEF FileOpen, writerVars, knownVars, openVars, eventVars, historyVars
<1>16. ASSUME NEW q \in Readers, OpenDone(q) PROVE GapInv(r)'
  BY <1>16 DEF OpenDone, writerVars, knownVars, openVars, eventVars, historyVars
<1>17. ASSUME NEW q \in Readers, JoinGroup(q) PROVE GapInv(r)'
  BY <1>17 DEF JoinGroup, writerVars, knownVars, openVars, eventVars, historyVars
<1>18. ASSUME NEW q \in Readers, GiveUp(q) PROVE GapInv(r)'
  BY <1>18 DEF GiveUp, writerVars, knownVars, openVars, eventVars, historyVars
<1>19. ASSUME NEW q \in Readers, AskCurrentStep(q) PROVE GapInv(r)'
  BY <1>19 DEF AskCurrentStep, Reaches, Alive, NoProbe, writerVars, knownVars,
     openVars, eventVars, historyVars
<1>20. ASSUME NEW q \in Readers, NoSeed(q) PROVE GapInv(r)'
  BY <1>20 DEF NoSeed, NoProbe, writerVars, knownVars, openVars, eventVars, historyVars
<1>21. ASSUME NEW q \in Readers, Answered(q) PROVE GapInv(r)'
  BY <1>21 DEF Answered, LearnWriter, PushPending, NoProbe, writerVars, knownVars,
     openVars, eventVars, historyVars
<1>22. ASSUME NEW q \in Readers, AskWriter(q, "schema") PROVE GapInv(r)'
  BY <1>22 DEF AskWriter, Reaches, Alive, NoProbe, writerVars, knownVars, openVars,
     eventVars, historyVars
<1>23. ASSUME NEW q \in Readers, AskWriter(q, "ack") PROVE GapInv(r)'
  BY <1>23 DEF AskWriter, Reaches, Alive, NoProbe, writerVars, knownVars, openVars,
     eventVars, historyVars
<1>24. ASSUME NEW q \in Readers, WriterDeparted(q) PROVE GapInv(r)'
  BY <1>24 DEF WriterDeparted, writerVars, knownVars, openVars, eventVars, historyVars
<1>25. ASSUME NEW q \in Readers, WaitStepReady(q) PROVE GapInv(r)'
  BY <1>25 DEF WaitStepReady, Free, NoProbe, writerVars, knownVars, openVars,
     eventVars, historyVars
<1>26. ASSUME NEW q \in Readers, StepStatus(q) PROVE GapInv(r)'
  BY <1>26 DEF StepStatus, Free, EndOfStream, AllWritersGone, MarkedDone, writerVars,
     knownVars, openVars, eventVars, historyVars
<1>27. ASSUME NEW q \in Readers, FileClose(q) PROVE GapInv(r)'
  BY <1>27 DEF FileClose, Free, NoProbe, writerVars, knownVars, openVars, eventVars,
     historyVars
<1>28. ASSUME NEW q \in Readers, NEW m \in Steps, HandleStepReady(q, m) PROVE GapInv(r)'
  <2>1. /\ m \in wire[q] /\ wire' = [wire EXCEPT ![q] = wire[q] \ {m}]
        /\ announced' = [announced EXCEPT ![q] = Append(announced[q], m)]
        /\ UNCHANGED <<at, run, last_step, epoch, stage, members, targets>>
    BY <1>28 DEF HandleStepReady, openVars
  <2>2. announced \in [Readers -> Seq(Steps)]
    BY DEF QueueTypes
  <2>3. CASE r # q
    <3>1. wire'[r] = wire[r] /\ announced'[r] = announced[r]
      BY <2>1, <2>2, <2>3
    <3> QED
      BY <2>1, <3>1
  <2>4. CASE r = q
    <3> DEFINE s == announced[r]
               t == Append(s, m)
    <3>1. /\ s \in Seq(Steps) /\ announced'[r] = t
          /\ Len(s) \in Nat /\ Len(t) = Len(s) + 1
          /\ t[Len(t)] = m /\ \A i \in 1 .. Len(s) : t[i] = s[i]
      BY <2>1, <2>2, <2>4, AppendProperties, LenProperties
    <3>2. wire'[r] = {}
      BY <2>1, <2>4
    <3>3. s # <<>> => m = s[Len(s)] + 1
      BY <2>1, <2>4
    <3>4. s = <<>> => Len(s) = 0
      BY <3>1
    <3>5. \A i \in 1 .. Len(s) - 1 : s[i + 1] = s[i] + 1
      OBVIOUS
    <3>6. \A i \in 1 .. Len(t) - 1 : t[i + 1] = t[i] + 1
      <4> HIDE DEF s, t
      <4> TAKE i \in 1 .. Len(t) - 1
      <4>1. CASE i < Len(s)
        <5>1. i \in 1 .. Len(s) - 1 /\ i \in 1 .. Len(s) /\ i + 1 \in 1 .. Len(s)
          BY <3>1, <4>1
        <5>2. t[i] = s[i] /\ t[i + 1] = s[i + 1] /\ s[i + 1] = s[i] + 1
          BY <3>1, <3>5, <5>1
        <5> QED
          BY <5>2
      <4>2. CASE i = Len(s)
        BY <3>1, <3>3, <3>4, <4>2
      <4> QED
        BY <3>1, <4>1, <4>2
    <3>7. at # "off" => at = "forward" /\ r \in members /\ r \notin targets /\ m = last_step
      BY <2>1, <2>4
    <3> HIDE DEF s, t
    <3>8. Newest(r)' = m
      BY <3>1
    <3> QED
      BY <2>1, <3>1, <3>2, <3>6, <3>7, <3>8, ZenonT(30)
  <2> QED
    BY <2>3, <2>4
<1>29. CASE UNCHANGED vars
  BY <1>29 DEF vars, writerVars, knownVars, openVars, eventVars, historyVars,
     writerVars, knownVars, openVars, eventVars, historyVars
<1> QED
  BY <1>1, <1>2, <1>3, <1>4, <1>5, <1>6, <1>7, <1>8, <1>9, <1>10, <1>11, <1>12,
     <1>13, <1>14, <1>15, <1>16, <1>17, <1>18, <1>19, <1>20, <1>21, <1>22, <1>23,
     <1>24, <1>25, <1>26, <1>27, <1>28, <1>29, Zenon DEF Next, WriterNext, ReaderNext

-----------------------------------------------------------------------------
(* The theorems.                                                           *)

\* The first state satisfies every part of the invariant.
LEMMA SInvInit ==
    ASSUME Init
    PROVE  SInv /\ Wires /\ Gaps
<1> USE SessionAssumption DEF Init
<1>1. WriterTypes
  <2>1. 0 \in 0 .. MaxRuns /\ 0 \in 0 .. MaxSteps /\ "off" \in Places
    BY DEF Places
  <2>2. ended \in [Runs -> {"no", "left", "died"}]
    OBVIOUS
  <2> QED
    BY <2>1, <2>2 DEF WriterTypes
<1>2. ReaderTypes
  BY DEF ReaderTypes, Stages
<1>3. QueueTypes
  BY DEF QueueTypes, NoProbe, Kinds
<1>4. RunInv
  BY DEF RunInv, Runs
<1>5. Knowledge
  BY DEF Knowledge, KnowsOwn, NoProbe
<1>6. Over
  BY DEF Over, OverInv
<1>7. Heard
  BY DEF Heard, HeardInv, InGroup, NoProbe
<1>8. Wires
  BY DEF Wires, WireInv
<1>9. Gaps
  BY DEF Gaps, GapInv
<1> QED
  BY <1>1, <1>2, <1>3, <1>4, <1>5, <1>6, <1>7, <1>8, <1>9 DEF SInv

\* Every step keeps the part that holds whatever goes wrong.
LEMMA SInvStep ==
    ASSUME SInv, [Next]_vars
    PROVE  SInv'
<1>1. WriterTypes' /\ ReaderTypes' /\ QueueTypes' /\ RunInv'
  BY WriterTypesStep, ReaderTypesStep, QueueTypesStep, RunInvStep DEF SInv
<1>2. Knowledge'
  BY KnowsOwnStep DEF SInv, Knowledge
<1>3. Over'
  BY OverInvStep DEF SInv, Over
<1>4. Heard'
  BY HeardInvStep DEF SInv, Heard
<1> QED
  BY <1>1, <1>2, <1>3, <1>4 DEF SInv

\* ... and, in time, the other part.
LEMMA InTimeStep ==
    ASSUME InTime, SInv, Wires, Gaps, [Next]_vars
    PROVE  Wires' /\ Gaps'
<1>1. Wires'
  BY WireInvStep DEF SInv, Wires
<1>2. Gaps'
  BY GapInvStep DEF SInv, Gaps
<1> QED
  BY <1>1, <1>2

\* The invariants, for every behaviour.
LEMMA SInvHolds == Spec => []SInv
<1>1. Init => SInv
  BY SInvInit
<1>2. SInv /\ [Next]_vars => SInv'
  BY SInvStep
<1> QED
  BY <1>1, <1>2, PTL DEF Spec

\* In time, so do the invariants on the wires and on the gaps.
LEMMA InTimeHolds ==
    ASSUME InTime
    PROVE  Spec => [](SInv /\ Wires /\ Gaps)
<1>1. Init => SInv /\ Wires /\ Gaps
  BY SInvInit
<1>2. SInv /\ Wires /\ Gaps /\ [Next]_vars => (SInv /\ Wires /\ Gaps)'
  BY SInvStep, InTimeStep
<1> QED
  BY <1>1, <1>2, PTL DEF Spec

\* The variables keep their types, and a reader marks no writer as gone that
\* it does not know of (membership_cb).
THEOREM TypeCorrect == Spec => []TypeOK
<1>1. SInv => TypeOK
  <2> SUFFICES ASSUME SInv PROVE TypeOK
    OBVIOUS
  <2>1. IsFiniteSet(dest) /\ Cardinality(dest) <= 1
    <3>1. CASE dest = {}
      BY <3>1, FS_EmptySet
    <3>2. CASE \E r \in Readers : dest = {r}
      BY <3>2, FS_Singleton
    <3> QED
      BY <3>1, <3>2 DEF SInv, WriterTypes
  <2>2. \A r \in Readers : \A i \in DOMAIN pending[r] : pending[r][i] \in Steps
    <3> TAKE r \in Readers
    <3>1. pending[r] \in Seq(Steps)
      BY DEF SInv, QueueTypes
    <3> QED
      BY <3>1, ElementOfSeq, LenProperties
  <2>3. \A r \in Readers : eos_writer_gone[r] \subseteq eos_writers[r]
    BY DEF SInv, Knowledge, KnowsOwn
  <2>4. group_file \in 0 .. run
    BY SessionAssumption DEF SInv, WriterTypes, RunInv
  <2>5. dest \subseteq Readers
    BY DEF SInv, WriterTypes
  <2>6. WriterTypes /\ ReaderTypes
    BY DEF SInv
  <2> QED
    BY <2>1, <2>2, <2>3, <2>4, <2>5, <2>6 DEF TypeOK, WriterTypes, ReaderTypes
<1> QED
  BY <1>1, SInvHolds, PTL

\* H5Fstep_status tells a reader that joined a group of the end only when the
\* run it joined is over or has written its marker, even when the writer is
\* killed, restarts on the same name, or answers late.
THEOREM EndIsTheEnd == Spec => []EosMeansOver
<1>1. SInv => EosMeansOver
  BY DEF SInv, Over, OverInv, EosMeansOver
<1> QED
  BY <1>1, SInvHolds, PTL

\* A schema answered by get_schema is never older than a step that
\* H5Fwait_step_ready returned before it was asked for.
THEOREM SchemaIsFresh == Spec => []SchemaFresh
<1>1. SInv => SchemaFresh
  BY DEF SInv, Heard, HeardInv, SchemaFresh
<1> QED
  BY <1>1, SInvHolds, PTL

\* When requests are handled within the second a forward waits, the
\* announcements that reach a reader are consecutive.
THEOREM AnnouncementsHaveNoGap ==
    ASSUME InTime
    PROVE  Spec => []NoGap
<1>1. Gaps => NoGap
  BY DEF Gaps, GapInv, NoGap
<1> QED
  BY <1>1, InTimeHolds, PTL

\* In time, no step is queued for a reader that was told of the end.
LEMMA EosFinalStep ==
    ASSUME WriterTypes, ReaderTypes, QueueTypes, Knowledge, Wires,
           NEW r \in Readers, eos[r], [Next]_vars
    PROVE  Len(pending'[r]) <= Len(pending[r])
<1> USE SessionAssumption DEF QueueTypes, KnowsOwn, WireInv
<1> KnowsOwn(r) /\ WireInv(r) /\ Len(pending[r]) \in Nat
  BY LenProperties DEF Knowledge, Wires
<1>1. CASE FileCreate
  BY <1>1 DEF FileCreate, writerVars, knownVars, openVars, eventVars, historyVars
<1>2. CASE UnlinkMarker
  BY <1>2 DEF UnlinkMarker, writerVars, knownVars, openVars, eventVars, historyVars
<1>3. CASE StartGroup
  BY <1>3 DEF StartGroup, writerVars, knownVars, openVars, eventVars, historyVars
<1>4. CASE PublishSchema
  BY <1>4 DEF PublishSchema, writerVars, knownVars, openVars, eventVars, historyVars
<1>5. CASE SetLastStep
  BY <1>5 DEF SetLastStep, writerVars, knownVars, openVars, eventVars, historyVars
<1>6. CASE Snapshot
  BY <1>6 DEF Snapshot, writerVars, knownVars, openVars, eventVars, historyVars
<1>7. CASE ForwardDone
  BY <1>7 DEF ForwardDone, writerVars, knownVars, openVars, eventVars, historyVars
<1>8. CASE WriteMarker
  BY <1>8 DEF WriteMarker, writerVars, knownVars, openVars, eventVars, historyVars
<1>9. CASE Stop
  BY <1>9 DEF Stop, Depart, writerVars, knownVars, openVars, eventVars, historyVars
<1>10. CASE Crash
  BY <1>10 DEF Crash, Depart, writerVars, knownVars, openVars, eventVars, historyVars
<1>11. ASSUME NEW q \in Readers, Forward(q) PROVE Len(pending'[r]) <= Len(pending[r])
  BY <1>11 DEF Forward, writerVars, knownVars, openVars, eventVars, historyVars
<1>12. ASSUME NEW q \in Readers, ForwardTimesOut(q) PROVE Len(pending'[r]) <= Len(pending[r])
  BY <1>12 DEF ForwardTimesOut, writerVars, knownVars, openVars, eventVars, historyVars
<1>13. ASSUME NEW q \in Readers, MemberJoined(q) PROVE Len(pending'[r]) <= Len(pending[r])
  BY <1>13 DEF MemberJoined, writerVars, knownVars, openVars, eventVars, historyVars
<1>14. ASSUME NEW q \in Readers, MemberLeft(q) PROVE Len(pending'[r]) <= Len(pending[r])
  BY <1>14 DEF MemberLeft, writerVars, knownVars, openVars, eventVars, historyVars
<1>15. ASSUME NEW q \in Readers, FileOpen(q) PROVE Len(pending'[r]) <= Len(pending[r])
  BY <1>15 DEF FileOpen, writerVars, knownVars, openVars, eventVars, historyVars
<1>16. ASSUME NEW q \in Readers, OpenDone(q) PROVE Len(pending'[r]) <= Len(pending[r])
  BY <1>16 DEF OpenDone, writerVars, knownVars, openVars, eventVars, historyVars
<1>17. ASSUME NEW q \in Readers, JoinGroup(q) PROVE Len(pending'[r]) <= Len(pending[r])
  BY <1>17 DEF JoinGroup, writerVars, knownVars, openVars, eventVars, historyVars
<1>18. ASSUME NEW q \in Readers, GiveUp(q) PROVE Len(pending'[r]) <= Len(pending[r])
  BY <1>18 DEF GiveUp, writerVars, knownVars, openVars, eventVars, historyVars
<1>19. ASSUME NEW q \in Readers, AskCurrentStep(q) PROVE Len(pending'[r]) <= Len(pending[r])
  BY <1>19 DEF AskCurrentStep, writerVars, knownVars, openVars, eventVars, historyVars
<1>20. ASSUME NEW q \in Readers, NoSeed(q) PROVE Len(pending'[r]) <= Len(pending[r])
  BY <1>20 DEF NoSeed, writerVars, knownVars, openVars, eventVars, historyVars
<1>21. ASSUME NEW q \in Readers, Answered(q) PROVE Len(pending'[r]) <= Len(pending[r])
  <2>1. AnswerStep(q)
    BY <1>21, AnswerEffect
  <2>2. pending'[r] = pending[r]
    BY <2>1 DEF AnswerStep
  <2> QED
    BY <2>2
<1>22. ASSUME NEW q \in Readers, AskWriter(q, "schema") PROVE Len(pending'[r]) <= Len(pending[r])
  BY <1>22 DEF AskWriter, writerVars, knownVars, openVars, eventVars, historyVars
<1>23. ASSUME NEW q \in Readers, AskWriter(q, "ack") PROVE Len(pending'[r]) <= Len(pending[r])
  BY <1>23 DEF AskWriter, writerVars, knownVars, openVars, eventVars, historyVars
<1>24. ASSUME NEW q \in Readers, WriterDeparted(q) PROVE Len(pending'[r]) <= Len(pending[r])
  BY <1>24 DEF WriterDeparted, writerVars, knownVars, openVars, eventVars, historyVars
<1>25. ASSUME NEW q \in Readers, WaitStepReady(q) PROVE Len(pending'[r]) <= Len(pending[r])
  BY <1>25 DEF WaitStepReady, Free, NoProbe, writerVars, knownVars, openVars,
     eventVars, historyVars
<1>26. ASSUME NEW q \in Readers, StepStatus(q) PROVE Len(pending'[r]) <= Len(pending[r])
  BY <1>26 DEF StepStatus, writerVars, knownVars, openVars, eventVars, historyVars
<1>27. ASSUME NEW q \in Readers, FileClose(q) PROVE Len(pending'[r]) <= Len(pending[r])
  BY <1>27 DEF FileClose, writerVars, knownVars, openVars, eventVars, historyVars
<1>28. ASSUME NEW q \in Readers, NEW m \in Steps, HandleStepReady(q, m) PROVE Len(pending'[r]) <= Len(pending[r])
  BY <1>28 DEF HandleStepReady, LearnWriter, PushPending, writerVars, knownVars,
     openVars, eventVars, historyVars
<1>29. CASE UNCHANGED vars
  BY <1>29 DEF vars, writerVars, knownVars, openVars, eventVars, historyVars,
     writerVars, knownVars, openVars, eventVars, historyVars
<1> QED
  BY <1>1, <1>2, <1>3, <1>4, <1>5, <1>6, <1>7, <1>8, <1>9, <1>10, <1>11, <1>12,
     <1>13, <1>14, <1>15, <1>16, <1>17, <1>18, <1>19, <1>20, <1>21, <1>22, <1>23,
     <1>24, <1>25, <1>26, <1>27, <1>28, <1>29, Zenon DEF Next, WriterNext, ReaderNext

\* Under the same condition H5F_STEP_EOS is final: no step is queued for a
\* reader after it was told.
THEOREM EndIsFinal ==
    ASSUME InTime
    PROVE  Spec => EosFinal
<1>1. SInv /\ Wires /\ [Next]_vars =>
         \A r \in Readers : eos[r] => Len(pending'[r]) <= Len(pending[r])
  BY EosFinalStep DEF SInv
<1> QED
  BY <1>1, InTimeHolds, PTL DEF Spec, EosFinal
=============================================================================
