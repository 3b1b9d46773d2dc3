---------------------------- MODULE MCNarrowing ----------------------------
(* Narrowing on a 3 x 3 dataset written from a buffer 4 elements wide.       *)
EXTENDS Narrowing

Dim(s, t, n, b) == [start |-> s, stride |-> t, count |-> n, block |-> b]
Hyper(r, c) == [kind |-> "hyper", r |-> r, c |-> c]
Block(r0, h, c0, w) == Hyper(Dim(r0, 1, 1, h), Dim(c0, 1, 1, w))

\* Whole, a slab, a row, a part of one, a column, scattered, points.
MCWrites == {Block(0, 3, 0, 3), Block(1, 2, 0, 3), Block(0, 1, 0, 3), Block(1, 1, 1, 2),
             Block(0, 3, 1, 1), Hyper(Dim(0, 2, 2, 1), Dim(0, 2, 2, 1)),
             [Block(0, 1, 0, 2) EXCEPT !.kind = "points"]}
Height(sel) == sel.r.count * sel.r.block
Width(sel) == sel.c.count * sel.c.block

\* The memory space of just the elements, the inside of a larger buffer,
\* every other row of one.
MCMems == UNION {{[Block(0, 1, 0, NPoints(w)) EXCEPT !.kind = "all"],
                  Block(1, Height(w), 1, Width(w)),
                  Hyper(Dim(0, 2, Height(w), 1), Dim(0, 1, 1, Width(w)))} : w \in MCWrites}

\* No selection, a slab, a column, every other row, scattered.
MCSubs == {[Block(0, 3, 0, 3) EXCEPT !.kind = "none"], Block(0, 2, 0, 3), Block(0, 3, 1, 1),
           Hyper(Dim(0, 2, 2, 1), Dim(0, 1, 1, 3)), Block(1, 2, 1, 2)}
MCBuffers == {[i \in 1..24 |-> (7 * i) % 10]}
Type(t, w) == [native |-> t, want |-> w]
MCTypes == {Type("llong", w) : w \in {"none", "same", "narrow", "opaque"}}
           \cup {Type(t, w) : t \in {"ullong", "vlstr", "vlseq"}, w \in {"none", "narrow"}}
NoPred == [op |-> "none", value |-> 0]
MCPreds == {NoPred, [op |-> "GE", value |-> 4], [op |-> "NE", value |-> 5]}
Chunk(r, c) == [r |-> r, c |-> c]
Pipeline(w, n) == [want |-> w, native |-> n]
MCChunks == {Pipeline(NoChunk, NoChunk), Pipeline(Chunk(1, 2), NoChunk),
             Pipeline(Chunk(2, 1), Chunk(1, 3)), Pipeline(Chunk(1, 3), Chunk(1, 3))}
=============================================================================
