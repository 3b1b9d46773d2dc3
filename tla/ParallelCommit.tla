---------------------------- MODULE ParallelCommit ----------------------------
(***************************************************************************)
(* The steps of a parallel writer (src/src/H5VLstream.c, H5_HAVE_PARALLEL):*)
(* begin_step and end_step are collective, the queue policy is agreed on,  *)
(* the ranks exchange what each of them creates, merge it, create all of   *)
(* it together, and then write their own data, directly or through a       *)
(* concentrator.                                                           *)
(*                                                                         *)
(* Each rank is a process. It calls collectives in the order its own state *)
(* makes it, and one completes when all ranks are in it. What a rank       *)
(* writes in a step is a program chosen from outside.                      *)
(***************************************************************************)
EXTENDS Integers, Sequences, FiniteSets, FiniteSetsExt, Functions

CONSTANTS
    N,            \* ranks of the communicator
    Paths,
    Programs,     \* what a rank may do in a step: see Program
    Tracked,      \* ranks whose transport tracks a reader
    SetOn,        \* ranks that may have called H5Fset_queue_policy: choices
    Policies,     \* a subset of {"discard", "block", "spill"}
    reserve_slots,
    GroupSizes,   \* values of VOL_STREAM_CONCENTRATION, 1 is off
    None,
    MaxSteps,     \* bound: steps of a run
    MaxPolls      \* polls of the Block policy before it gives up

Ranks == 0 .. N - 1
Entry == [kind : {"create", "attr", "write"}, path : Paths]
Program == [entries : Seq(Entry), open : BOOLEAN]  \* open: handles are kept

ASSUME ParallelAssumption ==
    /\ N \in Nat \ {0} /\ GroupSizes \subseteq Nat \ {0}
    /\ MaxSteps \in Nat /\ MaxPolls \in Nat \ {0} /\ reserve_slots \in Nat
    /\ Tracked \subseteq Ranks
    /\ SetOn \subseteq SUBSET Ranks
    /\ Policies \subseteq {"discard", "block", "spill"}
    /\ Programs \subseteq Program
    /\ \A prog \in Programs : \A k \in DOMAIN prog.entries :
          prog.entries[k].kind = "write" =>   \* step_create_index
              [kind |-> "create", path |-> prog.entries[k].path] \in Range(prog.entries)

VARIABLES
    pc,             \* the collective a rank calls next, or is in
    in_call,        \* whether it is in it
    queue_policy, policy_set, group_size,
    physical_step,
    pending,        \* fs->pending of each rank
    wrapper,        \* its dataset handles that are open at end_step
    lag,            \* the smallest step its readers acknowledged, or None
    seen_lag,       \* ... when the rank contributed it
    polls,          \* iterations of the Block policy
    bufs,           \* every rank's aggregated manifest, after the exchange
    made, attrs,    \* what the step created, and whose attribute values
    chan, sent,     \* per member: the message to its concentrator, and count
    recv_from,      \* per concentrator: the member it receives from
    jobs,           \* per concentrator: entries gathered
    todo,           \* writes a rank has still to issue, in order
    applied,        \* writes the file received in this step, in order
    verdict         \* how each rank's end_step went

policyVars == <<queue_policy, policy_set, group_size>>
commitVars == <<bufs, made, attrs, verdict>>
writeVars  == <<chan, sent, recv_from, jobs, todo, applied>>
vars == <<pc, in_call, policyVars, physical_step, pending, wrapper, lag, seen_lag,
          polls, commitVars, writeVars>>

-----------------------------------------------------------------------------
Collectives == {"begin", "end", "agree", "lag", "or", "block", "discard",
                "lens", "gather", "create", "final"}
Locals == {"in_step", "write", "closed"}

\* What MPI sees of a collective: two barriers are alike to it.
MpiOp(c) == CASE c \in {"begin", "end", "final"} -> "barrier"
              [] c \in {"lag", "block"} -> "allreduce_min_or"
              [] c = "agree" -> "allreduce_and"
              [] c = "or" -> "allreduce_or"
              [] OTHER -> c

Init ==
    /\ pc = [r \in Ranks |-> "begin"]
    /\ in_call = [r \in Ranks |-> FALSE]
    /\ queue_policy \in Policies
    /\ policy_set \in SetOn
    /\ group_size \in GroupSizes
    /\ physical_step = [r \in Ranks |-> 0]
    /\ pending = [r \in Ranks |-> <<>>]
    /\ wrapper = [r \in Ranks |-> [p \in Paths |-> "none"]]
    /\ lag = [r \in Ranks |-> None]
    /\ seen_lag = [r \in Ranks |-> None]
    /\ polls = [r \in Ranks |-> 0]
    /\ bufs = [r \in Ranks |-> <<>>]
    /\ made = {} /\ attrs = [p \in Paths |-> None]
    /\ chan = [r \in Ranks |-> <<>>]
    /\ sent = [r \in Ranks |-> 0]
    /\ recv_from = [r \in Ranks |-> r + 1]
    /\ jobs = [r \in Ranks |-> <<>>]
    /\ todo = [r \in Ranks |-> <<>>]
    /\ applied = <<>>
    /\ verdict = [r \in Ranks |-> "none"]

-----------------------------------------------------------------------------
(* Captures, and acknowledgements that the transport of a rank receives.   *)

\* The operations of a rank inside the step, up to its call of end_step.
Capture(r, prog) ==
    /\ pc[r] = "in_step"
    /\ pending' = [pending EXCEPT ![r] = prog.entries]
    /\ wrapper' = [wrapper EXCEPT ![r] =
          [p \in Paths |-> IF /\ prog.open
                              /\ [kind |-> "create", path |-> p] \in Range(prog.entries)
                             THEN "placeholder" ELSE "none"]]
    /\ pc' = [pc EXCEPT ![r] = "end"]
    /\ UNCHANGED <<in_call, policyVars, physical_step, lag, seen_lag, polls,
                   commitVars, writeVars>>

\* A reader of rank r acknowledges step n, or leaves.
ReaderAck(r, n) ==
    /\ r \in Tracked /\ n < physical_step[r]
    /\ IF lag[r] = None THEN TRUE ELSE lag[r] < n
    /\ lag' = [lag EXCEPT ![r] = n]
    /\ UNCHANGED <<pc, in_call, policyVars, physical_step, pending, wrapper,
                   seen_lag, polls, commitVars, writeVars>>
ReaderLeave(r) ==
    /\ lag[r] # None
    /\ lag' = [lag EXCEPT ![r] = None]
    /\ UNCHANGED <<pc, in_call, policyVars, physical_step, pending, wrapper,
                   seen_lag, polls, commitVars, writeVars>>

-----------------------------------------------------------------------------
(* What the ranks agree on.                                                *)

\* queue_lag_view: the minimum over the ranks that track a reader.
Lags == {seen_lag[s] : s \in Ranks} \ {None}
OwnPressure(r) ==  \* mutant: decided from the rank's own readers
    seen_lag[r] # None /\ physical_step[r] > seen_lag[r] + reserve_slots
Pressure(r) == Lags # {} /\ physical_step[r] > Min(Lags) + reserve_slots

\* mutant: only the objects of the first rank are exchanged
AggManifestOfRoot(r) ==
    [k \in {k \in DOMAIN pending[r] : r = 0 /\ pending[r][k].kind # "write"} |->
        pending[r][k]]

\* build_agg_manifest: creations and attributes, not writes (nor links), by
\* their place in the step.
AggManifest(r) ==
    [k \in {k \in DOMAIN pending[r] : pending[r][k].kind # "write"} |-> pending[r][k]]

\* The entries that rank r has after the exchange: of which rank, and which.
Gathered(r) == UNION {{s} \X DOMAIN bufs[r][s] : s \in Ranks}
SameKey(e, f) == e.kind = f.kind /\ e.path = f.path
Earlier(a, b) == a[1] < b[1] \/ (a[1] = b[1] /\ a[2] < b[2])

\* merge_agg_manifests: by rank, then in order; the first of a key is kept.
Merged(r) ==
    LET entry(a) == bufs[r][a[1]][a[2]]
        first == {a \in Gathered(r) :
                    ~\E b \in Gathered(r) : Earlier(b, a) /\ SameKey(entry(a), entry(b))}
    IN  {[kind |-> entry(a).kind, path |-> entry(a).path, rank |-> a[1]] : a \in first}

\* The wiring: a handle is completed by the entry that its own rank gave to
\* the merge.
Wired(r) ==
    [p \in Paths |->
        IF wrapper[r][p] = "placeholder" /\
           [kind |-> "create", path |-> p, rank |-> r] \in Merged(r)
        THEN "live" ELSE wrapper[r][p]]

-----------------------------------------------------------------------------
(* Where a rank goes after a collective: begin_step, end_step,             *)
(* apply_queue_policy and replay_step_parallel.                            *)

AnyPlaceholder == \E s \in Ranks : \E p \in Paths : wrapper[s][p] = "placeholder"

After(r) ==
    CASE pc[r] = "begin"  -> "in_step"
      [] pc[r] = "end"    -> "agree"
      [] pc[r] = "agree"  -> IF policy_set = Ranks THEN "lag" ELSE "lens"
      [] pc[r] = "lag"    -> IF Pressure(r) THEN "or" ELSE "lens"
      [] pc[r] = "or"     -> IF AnyPlaceholder THEN "lens"
                             ELSE IF queue_policy = "discard" THEN "discard" ELSE "block"
      [] pc[r] = "block"  -> IF Pressure(r) /\ polls[r] + 1 < MaxPolls THEN "block" ELSE "lens"
      [] pc[r] = "lens"   -> "gather"
      [] pc[r] = "gather" -> "create"
      [] pc[r] = "create" -> "write"
      [] pc[r] = "discard" -> "final"
      [] pc[r] = "final"  -> IF physical_step[r] < MaxSteps THEN "begin" ELSE "closed"

\* Writes of rank r, named by their place in its step.
Writes(r) == {k \in DOMAIN pending[r] : pending[r][k].kind = "write"}
Nth(S, i) == CHOOSE x \in S : Cardinality({y \in S : y <= x}) = i
WriteSeq(r) ==
    [i \in 1 .. Cardinality(Writes(r)) |->
        LET k == Nth(Writes(r), i) IN [rank |-> r, k |-> k, path |-> pending[r][k].path]]

\* A rank calls its next collective, with what it knows at that moment.
Call(r) ==
    /\ pc[r] \in Collectives /\ ~in_call[r]
    /\ in_call' = [in_call EXCEPT ![r] = TRUE]
    /\ seen_lag' = [seen_lag EXCEPT ![r] = IF pc[r] \in {"lag", "block"} THEN lag[r] ELSE None]
    /\ UNCHANGED <<pc, policyVars, physical_step, pending, wrapper, lag, polls,
                   commitVars, writeVars>>

\* The collective completes, and each rank acts on its result.
Complete ==
    /\ \A r \in Ranks : in_call[r] /\ MpiOp(pc[r]) = MpiOp(pc[0])
    /\ in_call' = [r \in Ranks |-> FALSE]
    /\ pc' = [r \in Ranks |-> After(r)]
    /\ polls' = [r \in Ranks |-> IF pc[r] = "block" /\ After(r) = "block" THEN polls[r] + 1 ELSE 0]
    /\ seen_lag' = [r \in Ranks |-> None]
    /\ bufs' = [r \in Ranks |-> IF pc[r] = "gather"
                                  THEN [s \in Ranks |-> AggManifest(s)]
                                  ELSE IF pc[r] = "create" THEN <<>> ELSE bufs[r]]
    /\ IF pc[0] = "create"
         THEN /\ made' = {e.path : e \in {x \in Merged(0) : x.kind = "create"}}
              /\ attrs' = [p \in Paths |->
                    IF \E e \in Merged(0) : e.kind = "attr" /\ e.path = p
                    THEN (CHOOSE e \in Merged(0) : e.kind = "attr" /\ e.path = p).rank
                    ELSE None]
         ELSE IF pc[0] = "begin"
           THEN made' = {} /\ attrs' = [p \in Paths |-> None]
           ELSE UNCHANGED <<made, attrs>>
    /\ wrapper' = [r \in Ranks |-> IF pc[r] = "create" THEN Wired(r) ELSE wrapper[r]]
    /\ todo' = [r \in Ranks |->
                  IF pc[r] = "create" /\ group_size = 1 THEN WriteSeq(r) ELSE todo[r]]
    /\ jobs' = [r \in Ranks |->
                  IF pc[r] = "create" /\ group_size > 1 /\ r % group_size = 0
                  THEN WriteSeq(r) ELSE jobs[r]]
    /\ verdict' = [r \in Ranks |-> CASE pc[r] = "discard" -> "discarded"
                                     [] pc[r] = "begin" -> "none"
                                     [] OTHER -> verdict[r]]
    /\ physical_step' = [r \in Ranks |->
                  IF pc[r] = "discard" THEN physical_step[r] + 1 ELSE physical_step[r]]
    /\ pending' = [r \in Ranks |-> IF pc[r] = "begin" THEN <<>> ELSE pending[r]]
    /\ applied' = IF pc[0] = "begin" THEN <<>> ELSE applied
    /\ sent' = IF pc[0] = "begin" THEN [r \in Ranks |-> 0] ELSE sent
    /\ recv_from' = IF pc[0] = "begin" THEN [r \in Ranks |-> r + 1] ELSE recv_from
    /\ UNCHANGED <<policyVars, lag, chan>>

-----------------------------------------------------------------------------
(* Writing: each rank its own data, or through the concentrator.           *)

Concentrator(r) == (r \div group_size) * group_size
GroupEndUnclipped(c) == c + group_size  \* mutant
GroupEnd(c) == IF c + group_size > N THEN N ELSE c + group_size

\* end_step's tail: count the step and go to the last barrier.
Committed(r) ==
    /\ physical_step' = [physical_step EXCEPT ![r] = @ + 1]
    /\ verdict' = [verdict EXCEPT ![r] = "committed"]
    /\ pc' = [pc EXCEPT ![r] = "final"]

\* replay_local_writes, and the concentrator's loop over its jobs.
IssueWrite(r) ==
    /\ pc[r] = "write" /\ todo[r] # <<>>
    /\ applied' = Append(applied, Head(todo[r]))
    /\ todo' = [todo EXCEPT ![r] = Tail(@)]
    /\ UNCHANGED <<pc, in_call, policyVars, physical_step, pending, wrapper, lag,
                   seen_lag, polls, commitVars, chan, sent, recv_from, jobs>>
LocalDone(r) ==
    /\ pc[r] = "write" /\ group_size = 1 /\ todo[r] = <<>>
    /\ Committed(r)
    /\ UNCHANGED <<in_call, policyVars, pending, wrapper, lag, seen_lag, polls,
                   bufs, made, attrs, writeVars>>

\* A member sends its count, then each write; a send may block until it is
\* received.
Member(r) == group_size > 1 /\ Concentrator(r) # r
MessagesOf(r) == <<Cardinality(Writes(r))>> \o WriteSeq(r)
Send(r) ==
    /\ pc[r] = "write" /\ Member(r)
    /\ chan[r] = <<>> /\ sent[r] < Len(MessagesOf(r))
    /\ chan' = [chan EXCEPT ![r] = <<MessagesOf(r)[sent[r] + 1]>>]
    /\ sent' = [sent EXCEPT ![r] = @ + 1]
    /\ UNCHANGED <<pc, in_call, policyVars, physical_step, pending, wrapper, lag,
                   seen_lag, polls, commitVars, recv_from, jobs, todo, applied>>
SendDone(r) ==
    /\ pc[r] = "write" /\ Member(r)
    /\ chan[r] = <<>> /\ sent[r] = Len(MessagesOf(r))
    /\ Committed(r)
    /\ UNCHANGED <<in_call, policyVars, pending, wrapper, lag, seen_lag, polls,
                   bufs, made, attrs, writeVars>>

JobListAppend(js, job) == Append(js, job)

\* The concentrator takes the members in turn, each one's messages in order.
Recv(c) ==
    LET m == recv_from[c]
        n == Cardinality({i \in DOMAIN jobs[c] : jobs[c][i].rank = m})
    IN  /\ pc[c] = "write" /\ group_size > 1 /\ Concentrator(c) = c
        /\ m < GroupEnd(c) /\ m \in Ranks
        /\ chan[m] # <<>>
        /\ chan' = [chan EXCEPT ![m] = <<>>]
        /\ jobs' = [jobs EXCEPT ![c] = IF sent[m] = 1 THEN @ ELSE JobListAppend(@, chan[m][1])]
        /\ recv_from' = [recv_from EXCEPT ![c] =
              IF (IF sent[m] = 1 THEN chan[m][1] = 0 ELSE n + 1 = Cardinality(Writes(m)))
              THEN @ + 1 ELSE @]
    /\ UNCHANGED <<pc, in_call, policyVars, physical_step, pending, wrapper, lag,
                   seen_lag, polls, commitVars, sent, todo, applied>>

\* The first job of the same path.
FirstOfPath(js, i) == Min({j \in DOMAIN js : js[j].path = js[i].path})

\* mutant: path by path, but the last entry first
ByPathReversed(js) ==
    LET upto(i) == {j \in DOMAIN js :
                      \/ FirstOfPath(js, j) < FirstOfPath(js, i)
                      \/ FirstOfPath(js, j) = FirstOfPath(js, i) /\ j >= i}
    IN  [n \in DOMAIN js |-> js[CHOOSE i \in DOMAIN js : Cardinality(upto(i)) = n]]

\* Jobs are written path by path, in the order in which they were gathered:
\* the n-th is the one with n up to it.
UpToJob(js, i) ==
    {j \in DOMAIN js : \/ FirstOfPath(js, j) < FirstOfPath(js, i)
                       \/ FirstOfPath(js, j) = FirstOfPath(js, i) /\ j <= i}
ByPath(js) ==
    [n \in DOMAIN js |-> js[CHOOSE i \in DOMAIN js : Cardinality(UpToJob(js, i)) = n]]

Gather(c) ==
    /\ pc[c] = "write" /\ group_size > 1 /\ Concentrator(c) = c
    /\ recv_from[c] = GroupEnd(c)
    /\ recv_from' = [recv_from EXCEPT ![c] = N + 1]
    /\ todo' = [todo EXCEPT ![c] = ByPath(jobs[c])]
    /\ jobs' = [jobs EXCEPT ![c] = <<>>]
    /\ UNCHANGED <<pc, in_call, policyVars, physical_step, pending, wrapper, lag,
                   seen_lag, polls, commitVars, chan, sent, applied>>
ConcentratorDone(c) ==
    /\ pc[c] = "write" /\ group_size > 1 /\ recv_from[c] = N + 1 /\ todo[c] = <<>>
    /\ Committed(c)
    /\ UNCHANGED <<in_call, policyVars, pending, wrapper, lag, seen_lag, polls,
                   bufs, made, attrs, writeVars>>

-----------------------------------------------------------------------------
RankNext(r) ==
    \/ Call(r)
    \/ \E prog \in Programs : Capture(r, prog)
    \/ IssueWrite(r) \/ LocalDone(r)
    \/ Send(r) \/ SendDone(r)
    \/ Recv(r) \/ Gather(r) \/ ConcentratorDone(r)
ReaderNext(r) == (\E n \in 0 .. MaxSteps : ReaderAck(r, n)) \/ ReaderLeave(r)
Next == Complete \/ \E r \in Ranks : RankNext(r) \/ ReaderNext(r)
Spec == Init /\ [][Next]_vars

\* Every rank runs, and MPI completes what all ranks have called.
FairSpec == Spec /\ WF_vars(Complete) /\ \A r \in Ranks : WF_vars(RankNext(r))

-----------------------------------------------------------------------------
(* Properties.                                                             *)

\* Every variable has its type; a member has one message under way at most.
TypeOK ==
    /\ pc \in [Ranks -> Collectives \cup Locals]
    /\ in_call \in [Ranks -> BOOLEAN]
    /\ physical_step \in [Ranks -> 0 .. MaxSteps]
    /\ lag \in [Ranks -> {None} \cup 0 .. MaxSteps]
    /\ polls \in [Ranks -> 0 .. MaxPolls - 1]
    /\ made \subseteq Paths /\ attrs \in [Paths -> Ranks \cup {None}]
    /\ wrapper \in [Ranks -> [Paths -> {"none", "placeholder", "live"}]]
    /\ recv_from \in [Ranks -> 1 .. N + 1]
    /\ \A r \in Ranks : Len(chan[r]) <= 1

\* Two ranks that are in a collective are in the same one, for the same step:
\* agree_or, agree_and and queue_lag_view keep the ranks on one path.
Aligned ==
    \A r, s \in Ranks : in_call[r] /\ in_call[s] =>
        pc[r] = pc[s] /\ physical_step[r] = physical_step[s]

\* When all ranks have committed, every write of every rank has reached a
\* dataset that exists, once.
WritesLand ==
    (\A r \in Ranks : pc[r] = "final" /\ verdict[r] = "committed") =>
        \A r \in Ranks : \A k \in Writes(r) :
            /\ Cardinality({i \in DOMAIN applied :
                              applied[i].rank = r /\ applied[i].k = k}) = 1
            /\ pending[r][k].path \in made

\* Writes of one group to one path keep their order: the concentrator's own,
\* then each member's, each in the order it was made.
OrderKept ==
    \A i, j \in DOMAIN applied :
        /\ i < j /\ applied[i].path = applied[j].path
        /\ Concentrator(applied[i].rank) = Concentrator(applied[j].rank)
        => \/ applied[i].rank < applied[j].rank
           \/ applied[i].rank = applied[j].rank /\ applied[i].k < applied[j].k

\* A rank that has called end_step returns from it: no rank waits for ever in
\* a collective, a send or a receive.
EndStepReturns == \A r \in Ranks : pc[r] = "end" ~> pc[r] \in {"begin", "closed"}
=============================================================================
