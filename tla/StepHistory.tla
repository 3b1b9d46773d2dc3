------------------------------ MODULE StepHistory ------------------------------
(***************************************************************************)
(* A dataset through the steps of a stream, and the reader that moves      *)
(* through them (src/src/H5VLstream.c). Every step that writes the dataset *)
(* holds a copy of its own: the writer resizes it, writes parts of it, and *)
(* end_step fills what an append left out from the copy before             *)
(* (carry_forward_resized). The reader indexes the manifests once, moves   *)
(* its cursor, and resolves the dataset and its attribute to the newest    *)
(* copy up to the cursor.                                                  *)
(*                                                                         *)
(* The dataset is one-dimensional, an element holds 1 + the step that      *)
(* wrote it, Fill where none did. One handle is kept from the creation on. *)
(* Every step commits: failures and policies are StepCommit's.             *)
(***************************************************************************)
EXTENDS Integers, Sequences, FiniteSets, FiniteSetsExt

CONSTANTS
    MaxDim,       \* the dataset's maximal extent
    LogicalIds,
    IdChoices,    \* for each step, the sets of them that it may be given
    FirstExtents, \* the extents it may be created with
    HeadWrites,   \* whether a step may rewrite only a part of the old data
    MaxSteps,     \* bound: steps of the stream
    MaxWrites,    \* bound: H5Dwrite calls of a step
    MaxResizes,   \* bound: H5Dset_extent calls of a step
    Nowhere       \* no step, no copy, no extent

Fill == 0
Extents == 0 .. MaxDim
Copies == UNION {[1 .. n -> 0 .. MaxSteps] : n \in Extents}
IdLists == UNION {[1 .. n -> LogicalIds] : n \in 0 .. Cardinality(LogicalIds)}
\* What a call of the reader returns.
Results == [what : {"data"}, val : Copies] \cup [what : {"attr"}, val : 0 .. MaxSteps]
           \cup [what : {"ids"}, val : IdLists]

ASSUME HistoryAssumption ==
    /\ MaxDim \in Nat \ {0} /\ LogicalIds \subseteq Nat /\ IsFiniteSet(LogicalIds)
    /\ IdChoices \in [0 .. MaxSteps - 1 -> SUBSET SUBSET LogicalIds]
    /\ FirstExtents \subseteq 0 .. MaxDim
    /\ HeadWrites \in BOOLEAN
    /\ MaxSteps \in Nat /\ MaxWrites \in Nat /\ MaxResizes \in Nat
    /\ Nowhere \notin Int \cup Copies \cup Results

Span == [lo : 1 .. MaxDim, hi : 0 .. MaxDim]   \* elements lo .. hi
Covers(w, i) == w.lo <= i /\ i <= w.hi

VARIABLES
    in_step, logical_ids,
    obj,            \* the handle: "none", "placeholder", "live"
    under,          \* extent of the copy it is wired to (its first)
    pending_resize_space,
    create,         \* extent in the step's create entry, or Nowhere
    writes,         \* the step's write entries
    attr_entry,     \* whether the step holds an entry of the attribute
    resizes,
    steps,          \* the file: /step/<k> is steps[k + 1]
    plain,          \* what plain HDF5 would hold now
    low,            \* its smallest extent since the last copy
    late,           \* the step was resized after its create entry
    log,            \* the states plain HDF5 had at each end_step
    rd,             \* the reader's file state
    got             \* what the reader's last call returned

captureVars == <<obj, under, pending_resize_space, create, writes, attr_entry,
                 resizes>>
historyVars == <<plain, low, late>>
readerVars == <<rd, got>>
writerVars == <<in_step, logical_ids, captureVars, steps, historyVars, log>>
vars == <<writerVars, readerVars>>

Step == [ids : SUBSET LogicalIds, ext : Extents \cup {Nowhere}, writes : Seq(Span),
         data : Seq(0 .. MaxSteps) \cup {Nowhere}, attr : BOOLEAN]

Closed == [index_built |-> FALSE, n_steps_total |-> 0, map |-> <<>>,
           current_step |-> Nowhere]

Init ==
    /\ in_step = FALSE /\ logical_ids = {}
    /\ obj = "none" /\ under = Nowhere /\ pending_resize_space = Nowhere
    /\ create = Nowhere /\ writes = <<>> /\ attr_entry = FALSE /\ resizes = 0
    /\ steps = <<>>
    /\ plain = Nowhere /\ low = 0 /\ late = FALSE /\ log = <<>>
    /\ rd = Closed /\ got = Nowhere

physical_step == Len(steps)
\* The steps below n whose manifests name the dataset, or its attribute:
\* the path index.
DataSteps(n) == {k \in 0 .. n - 1 : steps[k + 1].data # Nowhere}
AttrSteps(n) == {k \in 0 .. n - 1 : steps[k + 1].attr}

\* path_index_resolve: the newest of the steps S up to k.
Resolve(S, k) ==
    LET at == {s \in S : s <= k} IN IF at = {} THEN Nowhere ELSE Max(at)
-----------------------------------------------------------------------------
(* The writer.                                                             *)

BeginStep(ids) ==
    /\ ~in_step
    /\ physical_step < MaxSteps
    /\ ids \in IdChoices[physical_step]
    /\ in_step' = TRUE
    /\ logical_ids' = ids
    /\ UNCHANGED <<captureVars, steps, historyVars, log, readerVars>>

\* H5Dcreate in the open step: the entry of a placeholder.
DatasetCreate(n) ==
    /\ in_step
    /\ obj = "none"
    /\ obj' = "placeholder"
    /\ create' = n
    /\ plain' = [i \in 1 .. n |-> Fill]
    /\ low' = n
    /\ UNCHANGED <<in_step, logical_ids, under, pending_resize_space, writes,
                   attr_entry, resizes, steps, late, log, readerVars>>

\* What H5Dget_space returns.
View == IF obj = "placeholder" THEN create
        ELSE IF pending_resize_space # Nowhere THEN pending_resize_space
        ELSE under

Resized(c, n) == [i \in 1 .. n |-> IF i <= Len(c) THEN c[i] ELSE Fill]
ResizePlain(n) ==
    /\ plain' = Resized(plain, n)
    /\ low' = IF n < low THEN n ELSE low

\* H5Dset_extent of a dataset made in this step: it may only grow. (A call
\* that leaves the extent as it is changes nothing here and below.)
SetExtentPlaceholder(n) ==
    /\ in_step /\ obj = "placeholder"
    /\ resizes < MaxResizes
    /\ n > create /\ n <= MaxDim
    /\ create' = n
    /\ resizes' = resizes + 1
    /\ ResizePlain(n)
    /\ UNCHANGED <<in_step, logical_ids, obj, under, pending_resize_space, writes,
                   attr_entry, steps, late, log, readerVars>>

\* H5Dset_extent of an earlier step's dataset: kept with the handle, from
\* then on, and used by the next create entry.
SetExtentLive(n) ==
    /\ in_step /\ obj = "live"
    /\ resizes < MaxResizes
    /\ n # View /\ n <= MaxDim
    /\ pending_resize_space' = n
    /\ resizes' = resizes + 1
    /\ ResizePlain(n)
    /\ late' = (late \/ create # Nowhere)
    /\ UNCHANGED <<in_step, logical_ids, obj, under, create, writes, attr_entry,
                   steps, log, readerVars>>

\* step_create_index: one create entry a step, with the extent of its time.
CreateIndex == IF create # Nowhere THEN create ELSE View

\* H5Dwrite of the elements lo .. hi, or (All) of H5S_ALL, which is all of the
\* create entry's space. Without HeadWrites a step that does not write
\* everything writes only past the newest copy.
Newest == Resolve(DataSteps(physical_step), physical_step)
OldExtent == IF Newest = Nowhere THEN 0 ELSE Len(steps[Newest + 1].data)
WriteSpan(w, all) ==
    /\ in_step
    /\ Len(writes) < MaxWrites
    /\ writes' = Append(writes, w)
    /\ create' = CreateIndex
    /\ plain' = [i \in DOMAIN plain |->
                   IF all \/ Covers(w, i) THEN physical_step + 1 ELSE plain[i]]
    /\ UNCHANGED <<in_step, logical_ids, obj, under, pending_resize_space,
                   attr_entry, resizes, steps, low, late, log, readerVars>>
DatasetWrite ==
    /\ obj # "none"
    /\ \E w \in Span : /\ w.lo <= w.hi /\ w.hi <= View
                       /\ HeadWrites \/ w.lo > OldExtent
                       /\ WriteSpan(w, FALSE)
DatasetWriteAll == obj # "none" /\ WriteSpan([lo |-> 1, hi |-> CreateIndex], TRUE)

\* H5Acreate and H5Awrite, or H5Awrite of a live attribute.
AttrWrite ==
    /\ in_step /\ obj # "none"
    /\ ~attr_entry
    /\ attr_entry' = TRUE
    /\ UNCHANGED <<in_step, logical_ids, obj, under, pending_resize_space, create,
                   writes, resizes, steps, historyVars, log, readerVars>>

\* The step's copy, after its writes. What lies past its extent is in no
\* readable place.
Replayed ==
    [i \in 1 .. create |->
       IF \E j \in DOMAIN writes : Covers(writes[j], i) THEN physical_step + 1
       ELSE Fill]

\* mutant: an object that shrank is completed as well
CarryForwardGateNoGrowth(old, new, total) == total = new - old \/ total = old - new
CarryForwardGate(old, new, total) == new > old /\ total = new - old

\* The elements of all write entries together, an element counted again for
\* every entry it is in.
WrittenTotal ==
    Cardinality({e \in (DOMAIN writes) \X (1 .. MaxDim) : Covers(writes[e[1]], e[2])})

\* carry_forward_resized: the copy before this one is put over the new one
\* when the step wrote as many elements as the dataset grew by.
CarryForward(copy) ==
    LET prev == Resolve(DataSteps(physical_step), physical_step - 1)
        old  == steps[prev + 1].data
    IN  IF prev # Nowhere /\ CarryForwardGate(Len(old), Len(copy), WrittenTotal)
        THEN [i \in DOMAIN copy |-> IF i <= Len(old) THEN old[i] ELSE copy[i]]
        ELSE copy

\* Whether the step is a first one, a full rewrite, an append to the newest
\* copy, or leaves the dataset alone.
Written == {i \in 1 .. MaxDim : \E j \in DOMAIN writes : Covers(writes[j], i)}
Ordinary ==
    IF create = Nowhere
    THEN plain = (IF log = <<>> THEN Nowhere ELSE log[Len(log)].data)
    ELSE /\ ~late
         /\ \/ Newest = Nowhere
            \/ Written = 1 .. create
            \/ /\ Written = OldExtent + 1 .. create
               /\ low >= OldExtent
               /\ WrittenTotal = create - OldExtent

EndStep ==
    LET data == IF create = Nowhere THEN Nowhere ELSE CarryForward(Replayed)
        last == IF log = <<>> THEN [exact |-> TRUE, attr |-> Nowhere]
                ELSE log[Len(log)]
    IN
    /\ in_step
    /\ steps' = Append(steps, [ids |-> logical_ids, ext |-> create, writes |-> writes,
                               data |-> data, attr |-> attr_entry])
    /\ log' = Append(log, [ids |-> logical_ids, data |-> plain,
                           attr |-> IF attr_entry THEN physical_step ELSE last.attr,
                           exact |-> last.exact /\ Ordinary])
    /\ in_step' = FALSE
    /\ obj' = IF obj = "placeholder" THEN "live" ELSE obj
    /\ under' = IF obj = "placeholder" THEN create ELSE under
    /\ create' = Nowhere /\ writes' = <<>> /\ attr_entry' = FALSE /\ resizes' = 0
    /\ late' = FALSE
    /\ low' = IF create = Nowhere THEN low ELSE Len(plain)
    /\ logical_ids' = {}    \* left until the next begin_step, and not read
    /\ UNCHANGED <<pending_resize_space, plain, readerVars>>
-----------------------------------------------------------------------------
(* The reader.                                                             *)

\* mutant: the first step of an id is kept
LogicalMapFirst(n) ==
    LET ids == UNION {steps[k].ids : k \in 1 .. n}
    IN  [id \in ids |-> Min({k \in 0 .. n - 1 : id \in steps[k + 1].ids})]
\* logical_map_set for every step in ascending order: the last one stays.
LogicalMap(n) ==
    LET ids == UNION {steps[k].ids : k \in 1 .. n}
    IN  [id \in ids |-> Max({k \in 0 .. n - 1 : id \in steps[k + 1].ids})]

\* reader_build_index, on the first call that needs it, never again.
Indexed ==
    IF rd.index_built THEN rd
    ELSE [rd EXCEPT !.index_built = TRUE, !.n_steps_total = physical_step,
                    !.map = LogicalMap(physical_step)]

\* reader_advance: past the last indexed step the cursor stays.
ReaderAdvance(next) ==
    rd' = IF next < Indexed.n_steps_total
          THEN [Indexed EXCEPT !.current_step = next] ELSE Indexed

\* The reader is another process. It sees what is committed, so only its
\* order with the end_step calls matters, and it runs between them.
ReaderBeginStep ==
    /\ ~in_step
    /\ ReaderAdvance(IF rd.current_step = Nowhere THEN 0 ELSE rd.current_step + 1)
    /\ got' = Nowhere
    /\ UNCHANGED writerVars

BeginLogicalStep(id) ==
    /\ ~in_step
    /\ IF id \in DOMAIN Indexed.map THEN ReaderAdvance(Indexed.map[id])
       ELSE rd' = Indexed
    /\ got' = Nowhere
    /\ UNCHANGED writerVars

\* A set of ids in the order of the logical map: the i-th has i up to it.
Ascending(S) ==
    [i \in 1 .. Cardinality(S) |-> CHOOSE x \in S : Cardinality({y \in S : y <= x}) = i]

\* get_logical_steps into an array of cap ids.
GetLogicalSteps(cap) ==
    LET ids == Ascending(DOMAIN Indexed.map)
    IN  /\ ~in_step
        /\ rd' = Indexed
        /\ got' = [what |-> "ids",
                   val |-> SubSeq(ids, 1, IF cap < Len(ids) THEN cap ELSE Len(ids))]
        /\ UNCHANGED writerVars

\* H5Dopen at the cursor.
ReaderOpenDataset ==
    LET at == Resolve(DataSteps(rd.n_steps_total), rd.current_step) IN
    /\ ~in_step
    /\ rd.current_step # Nowhere
    /\ at # Nowhere
    /\ got' = [what |-> "data", val |-> steps[at + 1].data]
    /\ UNCHANGED <<writerVars, rd>>

\* H5Aopen at the cursor; the value is the step that wrote it.
ReaderOpenAttr ==
    LET at == Resolve(AttrSteps(rd.n_steps_total), rd.current_step) IN
    /\ ~in_step
    /\ rd.current_step # Nowhere
    /\ at # Nowhere
    /\ got' = [what |-> "attr", val |-> at]
    /\ UNCHANGED <<writerVars, rd>>

\* The reader closes the file and opens it again.
ReaderReopen ==
    /\ ~in_step
    /\ rd' = Closed
    /\ got' = Nowhere
    /\ UNCHANGED writerVars
-----------------------------------------------------------------------------
Next ==
    \/ \E ids \in SUBSET LogicalIds : BeginStep(ids)
    \/ \E n \in FirstExtents : DatasetCreate(n)
    \/ \E n \in Extents \ {0} : SetExtentPlaceholder(n) \/ SetExtentLive(n)
    \/ DatasetWrite \/ DatasetWriteAll \/ AttrWrite \/ EndStep
    \/ ReaderBeginStep
    \/ \E id \in LogicalIds : BeginLogicalStep(id)
    \/ \E cap \in 1 .. Cardinality(LogicalIds) : GetLogicalSteps(cap)
    \/ ReaderOpenDataset \/ ReaderOpenAttr \/ ReaderReopen

Spec == Init /\ [][Next]_vars
-----------------------------------------------------------------------------
\* Every variable has its type, the handle shows the extent plain HDF5 would,
\* and the cursor stays inside the steps the reader indexed.
TypeOK ==
    /\ in_step \in BOOLEAN /\ logical_ids \subseteq LogicalIds
    /\ obj \in {"none", "placeholder", "live"}
    /\ under \in Extents \cup {Nowhere}
    /\ pending_resize_space \in Extents \cup {Nowhere}
    /\ create \in Extents \cup {Nowhere}
    /\ writes \in Seq(Span) /\ attr_entry \in BOOLEAN /\ resizes \in 0 .. MaxResizes
    /\ steps \in Seq(Step) /\ Len(log) = Len(steps)
    /\ low \in Extents /\ late \in BOOLEAN
    /\ obj # "none" => Len(plain) = View
    /\ rd.n_steps_total \in 0 .. Len(steps)
    /\ rd.current_step # Nowhere => rd.current_step \in 0 .. rd.n_steps_total - 1

\* What a step wrote into its copy is what the copy holds once the step is
\* committed: filling the copy from an earlier one (carry_forward_resized)
\* never replaces a value of the step itself.
WritesWin ==
    \A k \in DOMAIN steps : steps[k].data # Nowhere =>
        \A i \in DOMAIN steps[k].data :
            (\E j \in DOMAIN steps[k].writes : Covers(steps[k].writes[j], i))
                => steps[k].data[i] = k

\* The stream, with its copies, index, logical map and cursor, is the log of
\* states that StepLog promises: a begin_step goes to the next state of the
\* prefix that was indexed, a begin_logical_step to the last one with the id
\* (a restart supersedes), and an open shows the state of that step.
Log == INSTANCE StepLog WITH known  <- IF rd.index_built THEN rd.n_steps_total
                                       ELSE Nowhere,
                             pos    <- rd.current_step
ReadsAsLog == Log!Spec
=============================================================================
