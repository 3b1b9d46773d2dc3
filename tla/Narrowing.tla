----------------------------- MODULE Narrowing -----------------------------
(***************************************************************************)
(* One write of a two-dimensional dataset and one subscriber of it: what    *)
(* the capture packs out of the application's buffer                        *)
(* (H5VL__stream_gather_mem, H5VL__stream_vl_serialize), what the replay    *)
(* puts into the file, how the written selection is cut into contiguous     *)
(* runs (H5VL__stream_space_flat_runs_range), and how a run is narrowed to  *)
(* the subscriber's selection, datatype, predicate and chunk shape          *)
(* (vs_tr_writer_push_data), live or as a backfill read from the file.      *)
(* Elements are addressed by their flat, row-major index.                   *)
(***************************************************************************)
EXTENDS Integers, FiniteSets, Sequences, SequencesExt

CONSTANTS
    Rows, Cols,         \* extent of the dataset
    MemCols,            \* width of the application's buffer
    MaxPushRuns,        \* H5VL_STREAM_MAX_PUSH_RUNS
    MaxPredRuns,        \* VS_TR_MAX_PRED_RUNS
    NarrowMax,          \* largest value the subscriber's narrower type holds
    BaseSize,           \* bytes of an element of a variable-length sequence
    Writes, Mems,       \* file selections, and memory selections, of the write
    Buffers,            \* contents of the application's buffer
    Types,              \* datatypes: the dataset's, and what the subscriber wants
    Subs, SubCols,      \* selections of the subscriber, and its extent's width
    Preds,              \* predicates of the subscriber
    Chunks,             \* chunk shapes: the subscriber's, and the dataset's
    Faults              \* a forward to the subscriber may fail

ASSUME SizesAssumption == /\ {Rows, Cols, MemCols, BaseSize} \subseteq Nat \ {0}
                          /\ {MaxPushRuns, MaxPredRuns} \subseteq Nat \ {0}
                          /\ NarrowMax \in Nat
                          /\ Faults \in BOOLEAN

VARIABLES
    in,         \* what is written, and what the subscriber asked for
    pc,         \* the writer: capture, replay, backfill, push, done or refused
    payload,    \* the pending entry's captured bytes
    file,       \* the step's copy of the dataset, after the replay
    src,        \* the buffer the pushes are cut from
    todo,       \* runs of the write still to push
    queue,      \* pushes on their way to the subscriber
    got,        \* pushes H5Fget_subscribed_data returned
    lost        \* a forward failed: the rest of that run was dropped

vars == <<in, pc, payload, file, src, todo, queue, got, lost>>

Fill == 0
Garbage == -1             \* a value nobody wrote
NoChunk == [r |-> 0, c |-> 0]
Whole == Rows * Cols
Unbounded == 1000           \* UINT64_MAX as the end of a range

Min2(a, b) == IF a < b THEN a ELSE b
Max2(a, b) == IF a > b THEN a ELSE b

-----------------------------------------------------------------------------
(* Selections: a hyperslab gives start, stride, count and block for each    *)
(* dimension; "all" and "points" are the selections of those types.         *)

\* H5Sget_select_hyper_blocklist: the blocks in row-major order of blocks.
BlockList(sel) ==
    [i \in 1..(sel.r.count * sel.c.count) |->
        LET rk == (i - 1) \div sel.c.count
            ck == (i - 1) % sel.c.count
        IN  [r0 |-> sel.r.start + rk * sel.r.stride, height |-> sel.r.block,
             c0 |-> sel.c.start + ck * sel.c.stride, width |-> sel.c.block]]

DimCells(d) == {d.start + k * d.stride + b : k \in 0..(d.count - 1), b \in 0..(d.block - 1)}
Cells(sel, cols) == {r * cols + c : r \in DimCells(sel.r), c \in DimCells(sel.c)}
NPoints(sel) == Cardinality(DimCells(sel.r)) * Cardinality(DimCells(sel.c))

\* H5VL__stream_space_1d_bounds: the flat span of the bounding box.
SpanStart(sel, cols) == sel.r.start * cols + sel.c.start
SpanEnd(sel, cols) ==
    LET last(d) == d.start + (d.count - 1) * d.stride + d.block - 1
    IN  last(sel.r) * cols + last(sel.c) + 1

\* The order in which HDF5 itself moves the elements of a selection.
RowMajor(sel, cols) ==
    SelectSeq([i \in 1..SpanEnd(sel, cols) |-> i - 1], LAMBDA e : e \in Cells(sel, cols))

-----------------------------------------------------------------------------
(* Contiguous runs of a selection.                                          *)

Run(s, n) == [start |-> s, count |-> n]
NoRuns == [ok |-> TRUE, runs |-> <<>>]
Declined == [ok |-> FALSE, runs |-> <<>>]

\* The rows of a block, block after block.
Segments(sel, cols) ==
    FlattenSeq([i \in DOMAIN BlockList(sel) |->
        LET b == BlockList(sel)[i]
        IN  [k \in 1..b.height |-> Run((b.r0 + k - 1) * cols + b.c0, b.width)]])

Clip(s, lo, hi) ==
    LET cs == Max2(s.start, lo)
        ce == Min2(s.start + s.count, hi)
    IN  Run(cs, IF cs < ce THEN ce - cs ELSE 0)

\* mutant: at the cap the rest of the selection is dropped, not declined
AddRunTruncating(acc, s, max) ==
    IF ~acc.ok \/ s.count = 0 THEN acc
    ELSE IF acc.runs # <<>> /\ Last(acc.runs).start + Last(acc.runs).count = s.start
      THEN [acc EXCEPT !.runs[Len(acc.runs)].count = @ + s.count]
    ELSE IF Len(acc.runs) >= max THEN acc
    ELSE [acc EXCEPT !.runs = Append(@, s)]

\* A run that abuts the last one extends it; one more than max declines.
AddRun(acc, s, max) ==
    IF ~acc.ok \/ s.count = 0 THEN acc
    ELSE IF acc.runs # <<>> /\ Last(acc.runs).start + Last(acc.runs).count = s.start
      THEN [acc EXCEPT !.runs[Len(acc.runs)].count = @ + s.count]
    ELSE IF Len(acc.runs) >= max THEN Declined
    ELSE [acc EXCEPT !.runs = Append(@, s)]

FlatRunsRange(sel, cols, lo, hi, max) ==
    IF sel.kind = "points" THEN Declined
    ELSE FoldLeft(LAMBDA acc, s : AddRun(acc, Clip(s, lo, hi), max), NoRuns, Segments(sel, cols))

FlatRuns(sel, cols, max) == FlatRunsRange(sel, cols, 0, Unbounded, max)

\* mutant: one run of the right size is taken for the start of the buffer
MemSelIsOneRun(sel, n) ==
    \/ sel.kind = "all"
    \/ LET f == FlatRuns(sel, MemCols, 1)
       IN  f.ok /\ Len(f.runs) = 1 /\ f.runs[1].count = n

MemSelIsPacked(sel, n) ==
    \/ sel.kind = "all"
    \/ LET f == FlatRuns(sel, MemCols, 1)
       IN  f.ok /\ f.runs = <<Run(0, n)>>

\* The captured elements, in the order of the runs.
GatherMem(buf, sel, n) ==
    IF MemSelIsPacked(sel, n) THEN [ok |-> TRUE, vals |-> SubSeq(buf, 1, n)]
    ELSE LET f == FlatRuns(sel, MemCols, MaxPushRuns)
             vals == FlattenSeq([i \in DOMAIN f.runs |->
                        SubSeq(buf, f.runs[i].start + 1, f.runs[i].start + f.runs[i].count)])
         IN  [ok |-> f.ok /\ Len(vals) = n, vals |-> vals]

-----------------------------------------------------------------------------
(* Variable-length elements: value 0 is a NULL pointer and value v + 1 one  *)
(* with v units of its own. A tag of one more than the number of bytes      *)
(* precedes the bytes; here a tag is one cell of the serialized sequence.   *)

VlTypes == {"vlstr", "vlseq"}
Unit(type) == IF type = "vlseq" THEN BaseSize ELSE 1

\* What the pointer of element v leads to: its bytes, told apart by v.
BytesOf(v, type) == [i \in 1..((v - 1) * Unit(type)) |-> v]
VlElement(v, type) == IF v = 0 THEN <<0>>
                      ELSE <<Len(BytesOf(v, type)) + 1>> \o BytesOf(v, type)

VlSerialize(vals, type) == FlattenSeq([i \in DOMAIN vals |-> VlElement(vals[i], type)])

\* One element of the walk over the bytes: a tag, then tag - 1 bytes, whole units.
VlNext(acc, bytes, type) ==
    IF ~acc.ok \/ acc.off >= Len(bytes) THEN [acc EXCEPT !.ok = FALSE]
    ELSE LET tag == bytes[acc.off + 1]
             n == IF tag > 0 THEN tag - 1 ELSE 0
             data == SubSeq(bytes, acc.off + 2, acc.off + 1 + n)
             v == IF tag = 0 THEN 0 ELSE n \div Unit(type) + 1
         IN  [ok |-> Len(data) = n /\ n % Unit(type) = 0,
              off |-> acc.off + 1 + n,
              vals |-> Append(acc.vals, IF tag = 0 \/ data = BytesOf(v, type) THEN v
                                        ELSE Garbage)]

VlDeserialize(bytes, count, type) ==
    FoldLeft(LAMBDA acc, i : VlNext(acc, bytes, type),
             [ok |-> TRUE, off |-> 0, vals |-> <<>>], [i \in 1..count |-> i])

\* The reader's twin of VlDeserialize lays the same elements out in one block.
VlFlatten(bytes, count, type) == VlDeserialize(bytes, count, type)

-----------------------------------------------------------------------------
(* The writer's handling of one subscription of the written path.           *)

\* H5Tconvert to the subscriber's type: it clamps, and "same" is declined.
ConvertValue(v) == Min2(v, NarrowMax)
ConvertForSubscriber(vals, want) ==
    [ok |-> want = "narrow", vals |-> [i \in DOMAIN vals |-> ConvertValue(vals[i])]]

PredMatch(v, p) ==
    CASE p.op = "LT" -> v < p.value  [] p.op = "LE" -> v <= p.value
      [] p.op = "GT" -> v > p.value  [] p.op = "GE" -> v >= p.value
      [] p.op = "EQ" -> v = p.value  [] p.op = "NE" -> v # p.value

\* Matches that need more than MaxPredRuns runs become the span that holds them.
EvalPredicate(vals, type, p) ==
    LET matching == SelectSeq([i \in DOMAIN vals |-> i], LAMBDA i : PredMatch(vals[i], p))
        f == FoldLeft(LAMBDA acc, i : AddRun(acc, Run(i - 1, 1), MaxPredRuns), NoRuns, matching)
    IN  [ok |-> type # "ullong",
         coalesced |-> ~f.ok,
         runs |-> IF f.ok THEN f.runs
                  ELSE <<Run(Head(matching) - 1, Last(matching) - Head(matching) + 1)>>]

\* mutant: extents of different widths are not told apart
SelectionRunsAnyExtent(lo, hi, max) ==
    LET f == FlatRunsRange(in.sub, in.subcols, lo, hi, max)
    IN  IF ~f.ok THEN Declined
        ELSE [f EXCEPT !.runs = [i \in DOMAIN @ |-> [@[i] EXCEPT !.start = @ - lo]]]

\* The subscriber's selection inside [lo, hi), as offsets from lo.
SelectionRuns(lo, hi, max) ==
    LET f == FlatRunsRange(in.sub, Cols, lo, hi, max)
    IN  IF in.subcols # Cols \/ ~f.ok THEN Declined
        ELSE [f EXCEPT !.runs = [i \in DOMAIN @ |-> [@[i] EXCEPT !.start = @ - lo]]]

SubStart == IF in.sub.kind = "none" THEN 0 ELSE SpanStart(in.sub, in.subcols)
SubEnd   == IF in.sub.kind = "none" THEN Unbounded ELSE SpanEnd(in.sub, in.subcols)

\* Elements a push may carry for a chunked request, 0 for no split.
RefilterShape(chunk, count) ==
    LET n == chunk.r * chunk.c IN IF n > 0 /\ n < count THEN n ELSE 0

\* The stored bytes of the chunk at the origin, past the extent included.
OriginChunk(chunk) ==
    [i \in 1..(chunk.r * chunk.c) |->
        LET r == (i - 1) \div chunk.c
            c == (i - 1) % chunk.c
        IN  IF r < Rows /\ c < Cols THEN file[r * Cols + c] ELSE Fill]

\* mutant: a converted push does not opt out of the stored chunk
ZeroCopyConverted(piece, run, converted) ==
    /\ in.live
    /\ in.chunk = in.native
    /\ run.start = 0 /\ run.count = piece.count
    /\ in.chunk.r * in.chunk.c = piece.count

\* The stored chunk serves when the requested pipeline is the dataset's own,
\* the piece is the whole run, the run starts at 0 and the chunk is as large.
ZeroCopy(piece, run, converted) ==
    /\ in.live /\ ~converted
    /\ in.chunk = in.native
    /\ run.start = 0 /\ run.count = piece.count
    /\ in.chunk.r * in.chunk.c = piece.count

\* One push: the elements from piece.start on, filtered where a pipeline was
\* asked for, by the stored chunk or by filtering vals.
PushOneItem(piece, vals, run, type, converted, flags) ==
    [start |-> piece.start, count |-> piece.count, type |-> type, flags |-> flags,
     dcpl |-> in.chunk,
     bytes |-> IF in.chunk # NoChunk /\ ZeroCopy(piece, run, converted)
                 THEN OriginChunk(in.chunk) ELSE vals]

\* A run of matching elements, whole or in pieces of the requested chunk size.
Pieces(start, count) ==
    LET shape == RefilterShape(in.chunk, count)
        size == IF shape = 0 THEN count ELSE shape
    IN  [k \in 1..((count + size - 1) \div size) |->
            Run(start + (k - 1) * size, Min2(size, count - (k - 1) * size))]

\* vs_tr_writer_push_data for the run of the write that holds vals.
PushData(run, vals) ==
    LET lo == Max2(SubStart, run.start)
        hi == Min2(SubEnd, run.start + run.count)
        overlap == SubSeq(vals, lo - run.start + 1, hi - run.start)
        s == IF in.sub.kind = "none" THEN Declined ELSE SelectionRuns(lo, hi, MaxPredRuns)
        selected == IF s.ok THEN s.runs ELSE <<Run(0, hi - lo)>>
        c == ConvertForSubscriber(overlap, in.want)
        type == IF c.ok THEN in.want ELSE in.type
        data == IF c.ok THEN c.vals ELSE overlap
        subFlags == (IF in.sub.kind # "none" /\ ~s.ok THEN {"SELECTION_SPAN"} ELSE {})
                    \cup (IF in.want # "none" /\ ~c.ok THEN {"TYPE_NATIVE"} ELSE {})
        \* the pushes of one run of selected elements
        OfSelected(sr) ==
            LET part == SubSeq(data, sr.start + 1, sr.start + sr.count)
                p == IF in.pred.op = "none" THEN [Declined EXCEPT !.ok = FALSE]
                     ELSE EvalPredicate(part, type, in.pred)
                runs == IF p.ok THEN p.runs ELSE <<Run(0, sr.count)>>
                flags == subFlags
                         \cup (IF in.pred.op # "none" /\ ~p.ok THEN {"PREDICATE_UNEVALUATED"} ELSE {})
                         \cup (IF p.ok /\ p.coalesced THEN {"PREDICATE_SPAN"} ELSE {})
                Item(piece) == PushOneItem(piece,
                                 SubSeq(data, piece.start - lo + 1, piece.start - lo + piece.count),
                                 run, type, c.ok, flags)
                pieces == FlattenSeq([i \in DOMAIN runs |->
                             Pieces(lo + sr.start + runs[i].start, runs[i].count)])
            IN  [i \in DOMAIN pieces |-> Item(pieces[i])]
    IN  IF lo >= hi THEN <<>>
        ELSE FlattenSeq([i \in DOMAIN selected |-> OfSelected(selected[i])])

\* vs_tr_writer_push_opaque: all of it or nothing, and no narrowing.
PushOpaque(run, bytes) ==
    LET end == run.start + run.count
        s == SelectionRuns(run.start, end, 1)
        covers == SubStart <= run.start /\ end <= SubEnd
        exact == \/ in.sub.kind = "none"
                 \/ covers /\ s.ok /\ s.runs = <<Run(0, run.count)>>
        flags == (IF exact THEN {} ELSE {"SELECTION_SPAN"})
                 \cup (IF in.pred.op = "none" THEN {} ELSE {"PREDICATE_UNEVALUATED"})
                 \cup (IF in.want = "none" THEN {} ELSE {"TYPE_NATIVE"})
    IN  IF SubStart >= end \/ SubEnd <= run.start THEN <<>>
        ELSE <<[start |-> run.start, count |-> run.count, type |-> in.type, flags |-> flags,
                dcpl |-> NoChunk, bytes |-> bytes]>>

-----------------------------------------------------------------------------
(* The write, its step, and the subscriber.                                 *)

IsVl == in.type \in VlTypes

Init ==
    /\ \E w \in Writes, m \in Mems, b \in Buffers, t \in Types, s \in Subs,
          cols \in SubCols, p \in Preds, ch \in Chunks, live \in BOOLEAN :
          /\ NPoints(m) = NPoints(w)
          /\ in = [sel |-> w, mem |-> m, buf |-> b, type |-> t.native, want |-> t.want,
                   sub |-> s, subcols |-> cols, pred |-> p,
                   chunk |-> ch.want, native |-> ch.native, live |-> live]
    /\ pc = "capture"
    /\ payload = <<>> /\ src = <<>> /\ todo = <<>>
    /\ file = [i \in 0..(Whole - 1) |-> Fill]
    /\ queue = <<>> /\ got = <<>> /\ lost = FALSE

\* H5Dwrite in a step: the elements are copied out of the caller's buffer.
Capture ==
    LET n == NPoints(in.sel)
        g == GatherMem(in.buf, in.mem, n)
    IN  /\ pc = "capture"
        /\ IF IF IsVl THEN ~MemSelIsPacked(in.mem, n) ELSE ~g.ok
             THEN pc' = "refused" /\ UNCHANGED payload
             ELSE /\ payload' = IF IsVl THEN VlSerialize(SubSeq(in.buf, 1, n), in.type)
                                ELSE g.vals
                  /\ pc' = "replay"
        /\ UNCHANGED <<in, file, src, todo, queue, got, lost>>

\* The replay of the entry: the payload goes to the selected elements in
\* HDF5's order, and a write that has runs is pushed.
Replay ==
    LET order == RowMajor(in.sel, Cols)
        d == VlDeserialize(payload, Len(order), in.type)
        vals == IF IsVl THEN d.vals ELSE payload
        f == FlatRuns(in.sel, Cols, IF IsVl THEN 1 ELSE MaxPushRuns)
    IN  /\ pc = "replay"
        /\ file' = [i \in DOMAIN file |->
                      IF i \in Range(order)
                        THEN vals[CHOOSE k \in DOMAIN order : order[k] = i] ELSE file[i]]
        /\ src' = payload
        /\ todo' = IF in.live /\ f.ok THEN f.runs ELSE <<>>
        /\ pc' = IF in.live THEN "push" ELSE "backfill"
        /\ UNCHANGED <<in, payload, queue, got, lost>>

\* Variable-length values are read back as they were captured; what has more
\* than one run is not sent.
BackfillVl(f, vals) ==
    \/ f.ok /\ src' = VlSerialize(vals, in.type) /\ todo' = f.runs
    \/ ~f.ok /\ UNCHANGED <<src, todo>>

\* A later subscriber: what the step wrote is read back from the file, and
\* all of the dataset where the write has too many runs.
Backfill ==
    LET order == RowMajor(in.sel, Cols)
        vals == [k \in DOMAIN order |-> file[order[k]]]
        f == FlatRuns(in.sel, Cols, IF IsVl THEN 1 ELSE MaxPushRuns)
    IN  /\ pc = "backfill"
        /\ \/ IsVl /\ BackfillVl(f, vals)
           \/ /\ ~IsVl /\ f.ok
              /\ src' = vals /\ todo' = f.runs
           \/ /\ ~IsVl /\ ~f.ok
              /\ src' = [k \in 1..Whole |-> file[k - 1]]
              /\ todo' = <<Run(0, Whole)>>
        /\ pc' = "push"
        /\ UNCHANGED <<in, payload, file, queue, got, lost>>

\* The next run goes to the subscriber: after a failed forward, no more of it.
PushRun ==
    LET run == Head(todo)
        vals == SubSeq(src, 1, run.count)
        items == IF IsVl THEN PushOpaque(run, src) ELSE PushData(run, vals)
    IN  /\ pc = "push" /\ todo # <<>>
        /\ \E n \in 0..Len(items) :
              /\ n = Len(items) \/ Faults
              /\ queue' = queue \o SubSeq(items, 1, n)
              /\ lost' = (lost \/ n < Len(items))
        /\ todo' = Tail(todo)
        /\ src' = SubSeq(src, run.count + 1, Len(src))
        /\ UNCHANGED <<in, pc, payload, file, got>>

PushesDone ==
    /\ pc = "push" /\ todo = <<>>
    /\ pc' = "done"
    /\ UNCHANGED <<in, payload, file, src, todo, queue, got, lost>>

\* H5Fget_subscribed_data: the push is unfiltered or decoded.
UnfilterPushedData(push) == SubSeq(push.bytes, 1, push.count)
GetSubscribedData ==
    LET push == Head(queue)
        d == VlFlatten(push.bytes, push.count, push.type)
    IN  /\ queue # <<>>
        /\ queue' = Tail(queue)
        /\ got' = IF IsVl /\ ~d.ok THEN got
                  ELSE Append(got, [start |-> push.start, type |-> push.type, flags |-> push.flags,
                                    vals |-> IF IsVl THEN d.vals ELSE UnfilterPushedData(push)])
        /\ UNCHANGED <<in, pc, payload, file, src, todo, lost>>

Finished ==
    /\ pc \in {"done", "refused"} /\ queue = <<>>
    /\ UNCHANGED vars

Next == Capture \/ Replay \/ Backfill \/ PushRun \/ PushesDone \/ GetSubscribedData \/ Finished

Spec == Init /\ [][Next]_vars

-----------------------------------------------------------------------------
(* Properties.                                                              *)

\* Every variable has its type, and runs and pushes lie inside the dataset.
TypeOK ==
    /\ pc \in {"capture", "replay", "backfill", "push", "done", "refused"}
    /\ payload \in Seq(Nat) /\ src \in Seq(Nat)
    /\ file \in [0..(Whole - 1) -> Nat]
    /\ \A i \in DOMAIN todo : todo[i].start >= 0 /\ todo[i].count > 0
                              /\ todo[i].start + todo[i].count <= Whole
    /\ \A i \in DOMAIN queue : queue[i].start >= 0 /\ queue[i].count > 0
                               /\ queue[i].start + queue[i].count <= Whole
    /\ lost \in BOOLEAN

\* A step that captured the write leaves in the file what the same H5Dwrite
\* outside of a step would: the k-th element of the memory selection at the
\* k-th of the file selection, and nothing elsewhere.
FileAsWritten ==
    pc \in {"backfill", "push", "done"} =>
        LET from == RowMajor(in.mem, MemCols)
            to == RowMajor(in.sel, Cols)
        IN  /\ \A k \in DOMAIN to : file[to[k]] = in.buf[from[k] + 1]
            /\ \A i \in DOMAIN file \ Range(to) : file[i] = Fill

\* What a push says an element holds is what the file holds there, in the
\* datatype the push names: no narrowing moves a value to another element.
PushTruthful ==
    \A k \in DOMAIN got : \A j \in DOMAIN got[k].vals :
        LET v == file[got[k].start + j - 1]
        IN  got[k].vals[j] = IF got[k].type = "narrow" THEN ConvertValue(v) ELSE v

\* A narrowing that was not applied is owned up to: without its flag the push
\* holds selected elements only, in the wanted type, that satisfy the predicate.
FlagsHonest ==
    \A k \in DOMAIN got :
        /\ \/ in.sub.kind = "none" \/ "SELECTION_SPAN" \in got[k].flags
           \/ \A j \in DOMAIN got[k].vals : got[k].start + j - 1 \in Cells(in.sub, Cols)
        /\ in.want = "none" \/ "TYPE_NATIVE" \in got[k].flags \/ got[k].type = in.want
        /\ \/ in.pred.op = "none"
           \/ {"PREDICATE_UNEVALUATED", "PREDICATE_SPAN"} \cap got[k].flags # {}
           \/ \A j \in DOMAIN got[k].vals : PredMatch(got[k].vals[j], in.pred)

\* Times element i was delivered.
Deliveries(i) ==
    Cardinality({k \in DOMAIN got : i \in got[k].start..(got[k].start + Len(got[k].vals) - 1)})

\* What a subscription stands for at the writer: the selected elements where
\* the extents have one width, and otherwise the flat span that the reader
\* computed in its own extent.
Asked == CASE in.sub.kind = "none" -> 0..(Whole - 1)
           [] in.subcols = Cols    -> Cells(in.sub, Cols)
           [] OTHER                -> SubStart..(SubEnd - 1)

\* Elements of the write the subscriber asked for, by their delivered value.
Wanted ==
    {i \in Cells(in.sel, Cols) \cap Asked :
        \/ in.pred.op = "none" \/ IsVl
        \/ in.type = "ullong" /\ in.want # "narrow"
        \/ PredMatch(IF in.want = "narrow" THEN ConvertValue(file[i]) ELSE file[i], in.pred)}

\* The write has no more contiguous runs than a live push describes.
Describable ==
    LET cells == Cells(in.sel, Cols)
    IN  /\ in.sel.kind # "points"
        /\ Cardinality({i \in cells : i - 1 \notin cells}) <= IF IsVl THEN 1 ELSE MaxPushRuns

\* No element reaches a subscriber twice, and every element its subscription
\* stands for does, live when the write's runs fit the cap and by a backfill
\* always, unless a forward failed. A subscriber with an extent of another
\* width has no more than this: its selection may have elements outside of the
\* span it sent, and those are not sent, against H5VLstream.h:602-608
\* ("sending more rather than less").
EveryMatchOnce ==
    /\ \A i \in 0..(Whole - 1) : Deliveries(i) <= 1
    /\ (/\ pc = "done" /\ queue = <<>> /\ ~lost
        /\ Describable \/ (~in.live /\ ~IsVl))
       => \A i \in Wanted : Deliveries(i) = 1

=============================================================================
