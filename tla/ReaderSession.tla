---------------------------- MODULE ReaderSession ----------------------------
(***************************************************************************)
(* A reader's session with a serial writer, from H5Fopen to end of stream  *)
(* (src/src/tr_mercury.c, and its callers in src/src/H5VLstream.c): how    *)
(* the reader finds the writer through the .vsgroup and .vsdone files, the *)
(* join seed, what it learns of the writer from probes and announcements,  *)
(* membership events that arrive when they please, and the writer's close, *)
(* crash and restart on the same file name.                                *)
(*                                                                         *)
(* The writer's thread, the handlers and callbacks at each end and the     *)
(* reader's thread interleave. Data pushes and subscriptions are in        *)
(* StepDelivery; a step is its number here.                                *)
(***************************************************************************)
EXTENDS Integers, Sequences, FiniteSets

CONSTANTS
    Readers,
    Faults,     \* what may go wrong, a subset of FaultKinds
    MaxSteps,   \* bound: steps of one run of the writer
    MaxRuns,    \* bound: runs of the writer on the file
    MaxProbes   \* bound: get_schema and ack calls of a reader

FaultKinds == {"crash",  \* the writer is killed
               "slow"}   \* step_ready is handled after its second has passed

ASSUME SessionAssumption ==
    /\ Faults \subseteq FaultKinds
    /\ MaxSteps \in Nat \ {0} /\ MaxRuns \in Nat \ {0} /\ MaxProbes \in Nat

VARIABLES
    \* The writer and its files.
    at,            \* where its thread is: see Places
    run,           \* the current or latest run, 0 before the first
    ended,         \* how each run ended
    marker,        \* whether <file>.vsdone exists
    group_file,    \* the run whose view <file>.vsgroup holds, 0 if none
    last_step,     \* last_physical_step; 0 while has_last_step is not set
    schema_step,   \* the step of the published schema, 0 if none
    members,       \* readers in the writer's member table
    targets, dest, \* the broadcast's snapshot, and the member waited for
    \* The readers.
    stage, epoch,  \* where a reader is, and the run whose group it joined
    done_path,     \* whether set_done_marker gave it the marker's path
    writer_done,   \* ... and found it there already
    eos_writers, eos_writer_gone,
    data_eos,
    pending,
    probe,         \* an answer on its way to the reader's thread
    \* What is under way between them.
    joining,       \* JOINED events the writer has not seen
    leaving,       \* LEFT events of readers the writer has not seen
    departed,      \* the writer's LEFT or DIED event, per reader
    wire,          \* step_ready requests not yet handled
    \* History.
    probes, announced, told, eos

writerVars  == <<at, run, ended, marker, group_file, last_step, schema_step,
                 targets, dest>>
knownVars   == <<eos_writers, eos_writer_gone, data_eos>>
openVars    == <<stage, epoch, done_path, writer_done>>
eventVars   == <<joining, leaving, departed>>
historyVars == <<probes, announced, told, eos>>
vars == <<writerVars, knownVars, openVars, eventVars, historyVars, members,
          pending, probe, wire>>

-----------------------------------------------------------------------------
Runs   == 1 .. MaxRuns
Steps  == 1 .. MaxSteps
Places == {"off", "created", "unlinked", "running", "published", "announce",
           "forward", "marked"}
Stages == {"out",     \* not open
           "opening", \* waits for a group file
           "joined",  \* in the group, the seed is still to come
           "open", "closed"}
NoProbe == [kind |-> "none", step |-> 0]

Init ==
    /\ at = "off" /\ run = 0
    /\ ended = [k \in Runs |-> "no"]
    /\ marker = FALSE /\ group_file = 0
    /\ last_step = 0 /\ schema_step = 0
    /\ members = {} /\ targets = {} /\ dest = {}
    /\ stage = [r \in Readers |-> "out"]
    /\ epoch = [r \in Readers |-> 0]
    /\ done_path = [r \in Readers |-> FALSE]
    /\ writer_done = [r \in Readers |-> FALSE]
    /\ eos_writers = [r \in Readers |-> {}]
    /\ eos_writer_gone = [r \in Readers |-> {}]
    /\ data_eos = [r \in Readers |-> FALSE]
    /\ pending = [r \in Readers |-> <<>>]
    /\ probe = [r \in Readers |-> NoProbe]
    /\ joining = {} /\ leaving = {}
    /\ departed = [r \in Readers |-> "no"]
    /\ wire = [r \in Readers |-> {}]
    /\ probes = [r \in Readers |-> 0]
    /\ announced = [r \in Readers |-> <<>>]
    /\ told = [r \in Readers |-> 0]
    /\ eos = [r \in Readers |-> FALSE]

-----------------------------------------------------------------------------
(* The writer's thread.                                                    *)

Alive == at # "off" /\ at \notin {"created", "unlinked"}
InGroup(r) == epoch[r] = run /\ stage[r] \in {"joined", "open"}

\* H5Fcreate, or H5Fopen for writing: the file is there and flushed, and
\* whatever an earlier run left beside it still is. Requests of an earlier
\* run are handled by then unless they are slow.
FileCreate ==
    /\ at = "off" /\ run < MaxRuns
    /\ "slow" \in Faults \/ \A r \in Readers : wire[r] = {}
    /\ at' = "created"
    /\ run' = run + 1
    /\ last_step' = 0 /\ schema_step' = 0
    /\ UNCHANGED <<ended, marker, group_file, members, targets, dest, knownVars,
                   openVars, eventVars, historyVars, pending, probe, wire>>

\* transport_start_writer: remove a stale marker, then make the group.
UnlinkMarker ==
    /\ at = "created"
    /\ at' = "unlinked"
    /\ marker' = FALSE
    /\ UNCHANGED <<run, ended, group_file, last_step, schema_step, targets, dest,
                   knownVars, openVars, eventVars, historyVars, members, pending,
                   probe, wire>>
StartGroup ==
    /\ at = "unlinked"
    /\ at' = "running"
    /\ group_file' = run
    /\ UNCHANGED <<run, ended, marker, last_step, schema_step, targets, dest,
                   knownVars, openVars, eventVars, historyVars, members, pending,
                   probe, wire>>

\* mutant: the schema is published with the number of the step before
PublishSchemaLate ==
    /\ at = "running" /\ last_step < MaxSteps
    /\ at' = "published"
    /\ schema_step' = last_step
    /\ UNCHANGED <<run, ended, marker, group_file, last_step, targets, dest,
                   knownVars, openVars, eventVars, historyVars, members, pending,
                   probe, wire>>

\* end_step, once the replay has succeeded: first the schema ...
PublishSchema ==
    /\ at = "running" /\ last_step < MaxSteps
    /\ at' = "published"
    /\ schema_step' = last_step + 1
    /\ UNCHANGED <<run, ended, marker, group_file, last_step, targets, dest,
                   knownVars, openVars, eventVars, historyVars, members, pending,
                   probe, wire>>

\* ... then broadcast_step_ready: record the step for late joiners,
SetLastStep ==
    /\ at = "published"
    /\ at' = "announce"
    /\ last_step' = last_step + 1
    /\ UNCHANGED <<run, ended, marker, group_file, schema_step, targets, dest,
                   knownVars, openVars, eventVars, historyVars, members, pending,
                   probe, wire>>

\* take a snapshot of the members,
Snapshot ==
    /\ at = "announce"
    /\ at' = "forward"
    /\ targets' = members
    /\ UNCHANGED <<run, ended, marker, group_file, last_step, schema_step, dest,
                   knownVars, openVars, eventVars, historyVars, members, pending,
                   probe, wire>>

\* and forward to one member after the other, each for at most a second. A
\* member that has left the table meanwhile has no address.
Forward(r) ==
    /\ at = "forward" /\ dest = {} /\ r \in targets
    /\ targets' = targets \ {r}
    /\ IF r \in members /\ InGroup(r)
         THEN /\ wire' = [wire EXCEPT ![r] = @ \cup {last_step}]
              /\ dest' = {r}
         ELSE UNCHANGED <<wire, dest>>
    /\ UNCHANGED <<at, run, ended, marker, group_file, last_step, schema_step,
                   knownVars, openVars, eventVars, historyVars, members, pending,
                   probe>>

AlwaysTimesOut(r) == TRUE  \* mutant: the forward does not wait for an answer
TimesOut(r) == "slow" \in Faults \/ ~InGroup(r)
ForwardTimesOut(r) ==
    /\ dest = {r} /\ TimesOut(r)
    /\ dest' = {}
    /\ UNCHANGED <<at, run, ended, marker, group_file, last_step, schema_step,
                   targets, knownVars, openVars, eventVars, historyVars, members,
                   pending, probe, wire>>
ForwardDone ==
    /\ at = "forward" /\ targets = {} /\ dest = {}
    /\ at' = "running"
    /\ UNCHANGED <<run, ended, marker, group_file, last_step, schema_step,
                   targets, dest, knownVars, openVars, eventVars, historyVars,
                   members, pending, probe, wire>>

\* file_state_decref: the marker is renamed into place before vs_tr_stop.
WriteMarker ==
    /\ at = "running"
    /\ at' = "marked"
    /\ marker' = TRUE
    /\ UNCHANGED <<run, ended, group_file, last_step, schema_step, targets, dest,
                   knownVars, openVars, eventVars, historyVars, members, pending,
                   probe, wire>>

\* The writer's departure reaches each member of its group in its own time.
Depart(how) ==
    /\ at' = "off"
    /\ ended' = [ended EXCEPT ![run] = how]
    /\ departed' = [r \in Readers |-> IF InGroup(r) THEN "sent" ELSE departed[r]]
    /\ members' = {} /\ targets' = {} /\ dest' = {}
    /\ joining' = {} /\ leaving' = {}
    /\ UNCHANGED <<run, marker, group_file, last_step, schema_step, knownVars,
                   openVars, historyVars, pending, probe, wire>>
Stop == at = "marked" /\ Depart("left")
Crash == "crash" \in Faults /\ at # "off" /\ Depart("died")

\* membership_cb at the writer, for a reader that joined or left.
MemberJoined(r) ==
    /\ r \in joining /\ Alive
    /\ joining' = joining \ {r}
    /\ members' = members \cup {r}
    /\ UNCHANGED <<writerVars, knownVars, openVars, leaving, departed,
                   historyVars, pending, probe, wire>>
MemberLeft(r) ==
    /\ r \in leaving /\ r \notin joining /\ Alive
    /\ leaving' = leaving \ {r}
    /\ members' = members \ {r}
    /\ UNCHANGED <<writerVars, knownVars, openVars, joining, departed,
                   historyVars, pending, probe, wire>>

-----------------------------------------------------------------------------
(* The reader: opening.                                                    *)

FileOpen(r) ==
    /\ stage[r] = "out" /\ run > 0
    /\ stage' = [stage EXCEPT ![r] = "opening"]
    /\ UNCHANGED <<writerVars, knownVars, epoch, done_path, writer_done,
                   eventVars, historyVars, members, pending, probe, wire>>

\* One attempt of transport_start_reader: a marker means that the stream is
\* over, a group file that it can be joined; else try again, or give up.
OpenDone(r) ==
    /\ stage[r] = "opening" /\ marker
    /\ stage' = [stage EXCEPT ![r] = "open"]
    /\ done_path' = [done_path EXCEPT ![r] = TRUE]
    /\ writer_done' = [writer_done EXCEPT ![r] = TRUE]
    /\ UNCHANGED <<writerVars, knownVars, epoch, eventVars, historyVars, members,
                   pending, probe, wire>>
JoinGroup(r) ==
    /\ stage[r] = "opening" /\ ~marker /\ group_file # 0
    /\ stage' = [stage EXCEPT ![r] = "joined"]
    /\ epoch' = [epoch EXCEPT ![r] = group_file]
    /\ done_path' = [done_path EXCEPT ![r] = TRUE]
    /\ IF ended[group_file] = "no"
         THEN joining' = joining \cup {r} /\ UNCHANGED departed
         ELSE departed' = [departed EXCEPT ![r] = "sent"] /\ UNCHANGED joining
    /\ UNCHANGED <<writerVars, knownVars, writer_done, leaving, historyVars,
                   members, pending, probe, wire>>
GiveUp(r) ==
    /\ stage[r] = "opening" /\ ~marker /\ group_file = 0
    /\ stage' = [stage EXCEPT ![r] = "open"]
    /\ UNCHANGED <<writerVars, knownVars, epoch, done_path, writer_done,
                   eventVars, historyVars, members, pending, probe, wire>>

\* A probe reaches the writer's handler: the writer runs, and is still in the
\* reader's member table.
Reaches(r) ==
    /\ Alive /\ InGroup(r) /\ departed[r] # "seen" /\ probe[r] = NoProbe

\* get_current_step is refused until there is a step; the seed is given up
\* after ten attempts.
AskCurrentStep(r) ==
    /\ stage[r] = "joined" /\ Reaches(r) /\ last_step > 0
    /\ probe' = [probe EXCEPT ![r] = [kind |-> "seed", step |-> last_step]]
    /\ UNCHANGED <<writerVars, knownVars, openVars, eventVars, historyVars,
                   members, pending, wire>>
NoSeed(r) ==
    /\ stage[r] = "joined" /\ probe[r] = NoProbe
    /\ ~Reaches(r) \/ last_step = 0
    /\ stage' = [stage EXCEPT ![r] = "open"]
    /\ UNCHANGED <<writerVars, knownVars, epoch, done_path, writer_done,
                   eventVars, historyVars, members, pending, probe, wire>>

\* get_schema, ack_step: answered by the writer only.
AskWriter(r, kind) ==
    /\ stage[r] = "open" /\ Reaches(r) /\ probes[r] < MaxProbes
    /\ probe' = [probe EXCEPT ![r] = [kind |-> kind,
                     step |-> IF kind = "schema" THEN schema_step ELSE 0]]
    /\ probes' = [probes EXCEPT ![r] = @ + 1]
    /\ UNCHANGED <<writerVars, knownVars, openVars, eventVars, announced, told,
                   eos, members, pending, wire>>

\* learn_writer, note_writer: whoever answered is the writer.
LearnWriter(r) == eos_writers' = [eos_writers EXCEPT ![r] = @ \cup {epoch[r]}]
PushPending(r, n) == pending' = [pending EXCEPT ![r] = Append(@, n)]
Answered(r) ==
    /\ probe[r] # NoProbe
    /\ LearnWriter(r)
    /\ probe' = [probe EXCEPT ![r] = NoProbe]
    /\ IF probe[r].kind = "seed"
         THEN /\ PushPending(r, probe[r].step)
              /\ stage' = [stage EXCEPT ![r] = "open"]
         ELSE UNCHANGED <<pending, stage>>
    /\ UNCHANGED <<writerVars, eos_writer_gone, data_eos, epoch, done_path,
                   writer_done, eventVars, historyVars, members, wire>>

-----------------------------------------------------------------------------
(* The reader: handlers and callbacks.                                     *)

\* step_ready_ult: note the writer, queue the step, answer.
HandleStepReady(r, n) ==
    /\ n \in wire[r] /\ stage[r] \in {"joined", "open"}
    /\ wire' = [wire EXCEPT ![r] = @ \ {n}]
    /\ LearnWriter(r)
    /\ PushPending(r, n)
    /\ announced' = [announced EXCEPT ![r] = Append(@, n)]
    /\ dest' = IF dest = {r} /\ n = last_step /\ InGroup(r) THEN {} ELSE dest
    /\ UNCHANGED <<at, run, ended, marker, group_file, last_step, schema_step,
                   targets, eos_writer_gone, data_eos, openVars, eventVars, probes,
                   told, eos, members, probe>>

\* mutant: holds of a reader that knows no writer
AllWritersGoneVacuous(r) == eos_writers[r] \subseteq eos_writer_gone[r]
AllWritersGone(r) == eos_writers[r] # {} /\ eos_writers[r] \subseteq eos_writer_gone[r]
MarkedDoneAtOpen(r) == writer_done[r]  \* mutant: looked for at open only
MarkedDone(r) == writer_done[r] \/ (done_path[r] /\ marker)

\* mutant: the callback only maintains the member table
WriterDepartedUnnoted(r) ==
    /\ departed[r] = "sent" /\ stage[r] \in {"joined", "open"}
    /\ departed' = [departed EXCEPT ![r] = "seen"]
    /\ UNCHANGED <<writerVars, knownVars, openVars, joining, leaving,
                   historyVars, members, pending, probe, wire>>

\* membership_cb at the reader: only a writer it knows of is marked as gone.
\* SWIM suspects a dead member for two seconds, longer than a forward lasts.
WriterDeparted(r) ==
    /\ departed[r] = "sent" /\ stage[r] \in {"joined", "open"}
    /\ wire[r] = {} \/ "slow" \in Faults
    /\ departed' = [departed EXCEPT ![r] = "seen"]
    /\ eos_writer_gone' = [eos_writer_gone EXCEPT
                             ![r] = @ \cup ({epoch[r]} \cap eos_writers[r])]
    /\ data_eos' = [data_eos EXCEPT ![r] = @ \/ epoch[r] \in eos_writers[r]]
    /\ UNCHANGED <<writerVars, eos_writers, openVars, joining, leaving,
                   historyVars, members, pending, probe, wire>>

-----------------------------------------------------------------------------
(* The reader: the application's calls.                                    *)

Free(r) == stage[r] = "open" /\ probe[r] = NoProbe

\* H5Fwait_step_ready, when it returns a step.
WaitStepReady(r) ==
    /\ Free(r) /\ pending[r] # <<>>
    /\ pending' = [pending EXCEPT ![r] = Tail(@)]
    /\ told' = [told EXCEPT ![r] = Head(pending[r])]
    /\ UNCHANGED <<writerVars, knownVars, openVars, eventVars, probes, announced,
                   eos, members, probe, wire>>

EndOfStream(r) == (AllWritersGone(r) \/ MarkedDone(r)) /\ pending[r] = <<>>

\* H5Fstep_status, when it reports H5F_STEP_EOS.
StepStatus(r) ==
    /\ Free(r) /\ EndOfStream(r) /\ ~eos[r]
    /\ eos' = [eos EXCEPT ![r] = TRUE]
    /\ UNCHANGED <<writerVars, knownVars, openVars, eventVars, probes, announced,
                   told, members, pending, probe, wire>>

\* H5Fwait_data, with an empty queue, returns before its timeout.
WaitDataReturns(r) == data_eos[r]

\* H5Fclose leaves the group.
FileClose(r) ==
    /\ Free(r)
    /\ stage' = [stage EXCEPT ![r] = "closed"]
    /\ pending' = [pending EXCEPT ![r] = <<>>]
    /\ wire' = [wire EXCEPT ![r] = {}]
    /\ leaving' = IF InGroup(r) /\ ended[run] = "no" THEN leaving \cup {r} ELSE leaving
    /\ UNCHANGED <<writerVars, knownVars, epoch, done_path, writer_done, joining,
                   departed, historyVars, members, probe>>

-----------------------------------------------------------------------------
WriterNext ==
    \/ FileCreate \/ UnlinkMarker \/ StartGroup
    \/ PublishSchema \/ SetLastStep \/ Snapshot \/ ForwardDone
    \/ WriteMarker \/ Stop \/ Crash
    \/ \E r \in Readers : Forward(r) \/ ForwardTimesOut(r)
                             \/ MemberJoined(r) \/ MemberLeft(r)
ReaderNext(r) ==
    \/ FileOpen(r) \/ OpenDone(r) \/ JoinGroup(r) \/ GiveUp(r)
    \/ AskCurrentStep(r) \/ NoSeed(r) \/ Answered(r)
    \/ AskWriter(r, "schema") \/ AskWriter(r, "ack")
    \/ WriterDeparted(r)
    \/ \E n \in Steps : HandleStepReady(r, n)
    \/ WaitStepReady(r) \/ StepStatus(r) \/ FileClose(r)
Next == WriterNext \/ \E r \in Readers : ReaderNext(r)

Spec == Init /\ [][Next]_vars

\* Callbacks run, answers are taken, and the application keeps asking for
\* steps and for the status until it is told that the stream is over.
Fairness ==
    \A r \in Readers :
        /\ WF_vars(WriterDeparted(r))
        /\ WF_vars(\E n \in Steps : HandleStepReady(r, n))
        /\ WF_vars(AskCurrentStep(r) \/ NoSeed(r)) /\ WF_vars(Answered(r))
        /\ WF_vars(WaitStepReady(r))
        /\ WF_vars(StepStatus(r))
FairSpec == Spec /\ Fairness

-----------------------------------------------------------------------------
(* Properties.                                                             *)

\* Every variable has its type, and only a writer that a reader knows of is
\* ever marked as gone.
TypeOK ==
    /\ at \in Places /\ run \in 0 .. MaxRuns
    /\ ended \in [Runs -> {"no", "left", "died"}]
    /\ marker \in BOOLEAN /\ group_file \in 0 .. run
    /\ last_step \in 0 .. MaxSteps /\ schema_step \in 0 .. MaxSteps
    /\ members \subseteq Readers /\ targets \subseteq Readers
    /\ dest \subseteq Readers /\ Cardinality(dest) <= 1
    /\ stage \in [Readers -> Stages]
    /\ epoch \in [Readers -> 0 .. MaxRuns]
    /\ done_path \in [Readers -> BOOLEAN] /\ writer_done \in [Readers -> BOOLEAN]
    /\ eos_writers \in [Readers -> SUBSET Runs]
    /\ \A r \in Readers : eos_writer_gone[r] \subseteq eos_writers[r]
    /\ data_eos \in [Readers -> BOOLEAN]
    /\ \A r \in Readers : \A i \in DOMAIN pending[r] : pending[r][i] \in Steps
    /\ joining \subseteq Readers /\ leaving \subseteq Readers
    /\ departed \in [Readers -> {"no", "sent", "seen"}]
    /\ wire \in [Readers -> SUBSET Steps]

\* A reader that joined a group and was told EOS (H5VL_stream_op_step_status)
\* joined a run of the writer that has ended or written its marker.
EosMeansOver ==
    \A r \in Readers : eos[r] /\ epoch[r] # 0 =>
        \/ ended[epoch[r]] # "no"
        \/ epoch[r] = run /\ at = "marked"

\* Once a reader was told EOS no step is queued for it any more: every step
\* the writer will ever send is queued before the marker exists.
EosFinal ==
    [][\A r \in Readers : eos[r] => Len(pending'[r]) <= Len(pending[r])]_vars

\* Among the announcements that reach a reader none is missing between two
\* others and none is repeated: only the seed of its join can be.
NoGap ==
    \A r \in Readers : \A i \in 1 .. Len(announced[r]) - 1 :
        announced[r][i + 1] = announced[r][i] + 1

\* The schema that a reader asks for describes at least the steps it was
\* told of by H5Fwait_step_ready.
SchemaFresh ==
    \A r \in Readers : probe[r].kind = "schema" => probe[r].step >= told[r]

\* A reader that takes part while the last run closes cleanly learns of the
\* end of the stream, whether or not it ever learned who the writer was.
EosReached ==
    \A r \in Readers :
        (run = MaxRuns /\ at = "off" /\ ended[MaxRuns] = "left" /\ epoch[r] # 0)
            ~> (eos[r] \/ stage[r] = "closed")

\* A writer that is killed is noticed by every reader that knew it: it is
\* told EOS, and its H5Fwait_data no longer waits either.
CrashNoticed ==
    \A r \in Readers :
        (\E k \in eos_writers[r] : ended[k] = "died" /\ departed[r] = "sent")
            ~> ((eos[r] /\ WaitDataReturns(r)) \/ stage[r] = "closed")
=============================================================================
