------------------------ MODULE StreamCaptureProofs ------------------------
(* Proofs about StreamCapture, for every value of its constants.           *)
EXTENDS StreamCapture, ProofFacts

-----------------------------------------------------------------------------
(* Deferred requests: the inductive invariant. CellsAccounted says whether  *)
(* a cell is referenced; only the exact count of its references is kept by  *)
(* every step. CalledBackOnce needs to know where a callback is that was    *)
(* not called yet: in its cell's queue, or in the list end_step works off.  *)

Status == {-1, 0, 1}
Cell == [status : Status, refs : Nat, queue : Seq(Reqs)]
Holders(c) == {q \in Reqs : request[q].state = "held" /\ request[q].cell = c}
FileRef(c) == IF c = current_completion THEN 1 ELSE 0
Queued(s, q) == \E i \in DOMAIN s : s[i] = q
Distinct(s) == \A i, j \in DOMAIN s : s[i] = s[j] => i = j

CellTypes ==
    /\ cells \in Seq(Cell)
    /\ current_completion \in 0 .. Len(cells)
    /\ request \in [Reqs -> [state : RequestStates, cell : 0 .. Len(cells)]]
    /\ \A q \in Reqs : request[q].state # "none" => request[q].cell # 0
    /\ verdict \in Seq(Status) /\ Len(verdict) = Len(cells)
CallTypes ==
    /\ told \in [Reqs -> Seq(Status)]
    /\ notify_list \in Seq(Reqs)
    /\ outcome \in Status
    /\ step_state \in {"NOT_IN_STEP", "IN_STEP", "COMMITTING", "closed", "crashed"}

\* When a step has a cell, and what the cell says of it.
StatusInv ==
    /\ current_completion # 0 => step_state \in {"IN_STEP", "COMMITTING", "crashed"}
    /\ notify_list # <<>> => step_state = "COMMITTING" /\ current_completion # 0
    /\ \A c \in DOMAIN cells : verdict[c] = cells[c].status
    /\ step_state = "IN_STEP" /\ current_completion # 0 =>
          cells[current_completion].status = 0
    /\ step_state = "COMMITTING" =>
          /\ outcome # 0
          /\ current_completion # 0 => cells[current_completion].status = outcome

\* A cell counts the file and the requests that hold it.
RefsInv ==
    \A c \in DOMAIN cells :
        /\ IsFiniteSet(Holders(c))
        /\ cells[c].refs = Cardinality(Holders(c)) + FileRef(c)

\* A queued callback belongs to the cell, is there once and was not called.
QueueInv ==
    /\ \A c \in DOMAIN cells :
          /\ Distinct(cells[c].queue)
          /\ \A q \in Reqs : Queued(cells[c].queue, q) =>
                /\ request[q].state = "notified" /\ request[q].cell = c
                /\ told[q] = <<>> /\ cells[c].status = 0
    /\ Distinct(notify_list)
    /\ \A q \in Reqs : Queued(notify_list, q) =>
          /\ request[q].state = "notified" /\ request[q].cell = current_completion
          /\ told[q] = <<>>

\* A callback was called with its cell's status, or is still to be called.
ToldInv ==
    \A q \in Reqs :
        /\ request[q].state # "notified" => told[q] = <<>>
        /\ request[q].state = "notified" =>
              LET c == request[q].cell
                  s == cells[c].status
              IN  /\ s = 0 => told[q] = <<>>
                  /\ s = 0 /\ c = current_completion => Queued(cells[c].queue, q)
                  /\ s # 0 => told[q] = <<s>> \/ (told[q] = <<>> /\ Queued(notify_list, q))

RInv == CellTypes /\ CallTypes /\ StatusInv /\ RefsInv /\ QueueInv /\ ToldInv

-----------------------------------------------------------------------------
(* What the operations on requests do.                                     *)

\* step_completion_decref changes one cell only.
LEMMA DecrefFact ==
    ASSUME NEW cs \in Seq(Cell), NEW c \in DOMAIN cs, cs[c].refs > 0
    PROVE  /\ Decref(cs, c) \in Seq(Cell) /\ Len(Decref(cs, c)) = Len(cs)
           /\ DOMAIN Decref(cs, c) = DOMAIN cs
           /\ \A k \in DOMAIN cs :
                 /\ Decref(cs, c)[k].status = cs[k].status
                 /\ Decref(cs, c)[k].refs = IF k = c THEN cs[k].refs - 1 ELSE cs[k].refs
                 /\ Decref(cs, c)[k].queue = IF k = c /\ cs[k].refs = 1 THEN <<>> ELSE cs[k].queue
<1> DEFINE e == [status |-> cs[c].status, refs |-> cs[c].refs - 1,
                 queue |-> IF cs[c].refs = 1 THEN <<>> ELSE cs[c].queue]
<1>1. DOMAIN cs = 1 .. Len(cs) /\ Len(cs) \in Nat
  BY LenProperties
<1>2. cs[c] \in Cell
  BY <1>1, ElementOfSeq
<1>3. Decref(cs, c) = [cs EXCEPT ![c] = e]
  <2> DEFINE a == cs[c].status
             b == cs[c].refs
             d == IF b = 1 THEN <<>> ELSE cs[c].queue
             c1 == [cs EXCEPT ![c].refs = b - 1]
  <2>1. cs[c] = [status |-> a, refs |-> b, queue |-> cs[c].queue]
    BY <1>2 DEF Cell
  <2>2. Decref(cs, c) = [c1 EXCEPT ![c].queue = d]
    BY DEF Decref
  <2>3. c1[c] = [status |-> a, refs |-> b - 1, queue |-> cs[c].queue]
    BY <2>1
  <2>4. [c1[c] EXCEPT !.queue = d] = [status |-> a, refs |-> b - 1, queue |-> d]
    <3> DEFINE r == c1[c]
               x == b - 1
               y == cs[c].queue
    <3>1. r = [status |-> a, refs |-> x, queue |-> y]
      BY <2>3
    <3> HIDE DEF r, a, x, y, d
    <3>2. [r EXCEPT !.queue = d] = [status |-> a, refs |-> x, queue |-> d]
      BY <3>1
    <3> QED
      BY <3>2 DEF r, x
  <2>5. e = [status |-> a, refs |-> b - 1, queue |-> d]
    OBVIOUS
  <2> HIDE DEF a, b, d, e
  <2>6. [c1 EXCEPT ![c].queue = d] = [cs EXCEPT ![c] = [c1[c] EXCEPT !.queue = d]]
    OBVIOUS
  <2> QED
    BY <2>2, <2>4, <2>5, <2>6
<1>4. e \in Cell
  BY <1>2 DEF Cell
<1>5. e.status = cs[c].status /\ e.refs = cs[c].refs - 1
      /\ e.queue = IF cs[c].refs = 1 THEN <<>> ELSE cs[c].queue
  OBVIOUS
<1> HIDE DEF e
<1>6. /\ [cs EXCEPT ![c] = e] \in Seq(Cell) /\ Len([cs EXCEPT ![c] = e]) = Len(cs)
      /\ \A k \in 1 .. Len(cs) : [cs EXCEPT ![c] = e][k] = IF k = c THEN e ELSE cs[k]
  BY <1>1, <1>4, ExceptSeq
<1>7. DOMAIN [cs EXCEPT ![c] = e] = DOMAIN cs
  OBVIOUS
<1> QED
  BY <1>1, <1>3, <1>5, <1>6, <1>7

\* A cell's entry and its requests, typed.
LEMMA CellEntry ==
    ASSUME CellTypes
    PROVE  /\ DOMAIN cells = 1 .. Len(cells) /\ Len(cells) \in Nat
           /\ DOMAIN verdict = 1 .. Len(cells)
           /\ \A c \in DOMAIN cells :
                 /\ cells[c] \in Cell /\ cells[c].status \in Status
                 /\ cells[c].refs \in Nat /\ cells[c].queue \in Seq(Reqs)
           /\ \A q \in Reqs : /\ request[q].state \in RequestStates
                              /\ request[q].cell \in 0 .. Len(cells)
                              /\ request[q].state # "none" => request[q].cell \in DOMAIN cells
           /\ current_completion # 0 => current_completion \in DOMAIN cells
           /\ current_completion \in Nat
<1>1. DOMAIN cells = 1 .. Len(cells) /\ Len(cells) \in Nat /\ DOMAIN verdict = 1 .. Len(cells)
  BY LenProperties DEF CellTypes
<1>2. \A c \in DOMAIN cells : cells[c] \in Cell
  BY <1>1, ElementOfSeq DEF CellTypes
<1>3. \A q \in Reqs : /\ request[q].state \in RequestStates
                      /\ request[q].cell \in 0 .. Len(cells)
                      /\ request[q].state # "none" => request[q].cell # 0
  BY DEF CellTypes
<1>4. current_completion \in 0 .. Len(cells)
  BY DEF CellTypes
<1> QED
  BY <1>1, <1>2, <1>3, <1>4 DEF Cell

\* A held request keeps its cell, and the file keeps the step's.
LEMMA CellReferenced ==
    ASSUME CellTypes, RefsInv
    PROVE  /\ \A q \in Reqs : request[q].state = "held" => cells[request[q].cell].refs > 0
           /\ current_completion # 0 => cells[current_completion].refs > 0
<1>1. \A c \in DOMAIN cells : /\ cells[c].refs \in Nat /\ Cardinality(Holders(c)) \in Nat
                              /\ cells[c].refs = Cardinality(Holders(c)) + FileRef(c)
                              /\ IsFiniteSet(Holders(c))
  BY CellEntry, FS_CardinalityType DEF RefsInv
<1>2. ASSUME NEW q \in Reqs, request[q].state = "held" PROVE cells[request[q].cell].refs > 0
  <2> DEFINE c == request[q].cell
  <2>1. c \in DOMAIN cells /\ q \in Holders(c)
    BY <1>2, CellEntry DEF Holders
  <2>2. Cardinality(Holders(c)) # 0
    BY <1>1, <2>1, FS_EmptySet
  <2> QED
    BY <1>1, <2>1, <2>2 DEF FileRef
<1>3. current_completion # 0 => cells[current_completion].refs > 0
  BY <1>1, CellEntry DEF FileRef
<1> QED
  BY <1>2, <1>3

\* Releasing a request takes one reference from its cell. The queue goes only
\* with the last one, which is never the file's.
LEMMA ReleaseFact ==
    ASSUME CellTypes, RefsInv, NEW q \in Reqs, request[q].state = "held",
           NEW cs \in Seq(Cell), Len(cs) = Len(cells),
           \A k \in DOMAIN cells : cs[k].status = cells[k].status /\ cs[k].refs = cells[k].refs,
           NEW st \in {"notified", "freed"}, Release(q, cs, st),
           UNCHANGED <<current_completion, verdict>>
    PROVE  /\ CellTypes' /\ RefsInv'
           /\ DOMAIN cells' = DOMAIN cells
           /\ \A k \in DOMAIN cells :
                 /\ cells'[k].status = cells[k].status
                 /\ \/ cells'[k].queue = cs[k].queue
                    \/ cells'[k].queue = <<>> /\ k # current_completion
           /\ request[q].cell \in DOMAIN cells
           /\ request'[q].state = st /\ request'[q].cell = request[q].cell
           /\ \A r \in Reqs : r # q => request'[r] = request[r]
<1> DEFINE c == request[q].cell
<1>1. /\ DOMAIN cells = 1 .. Len(cells) /\ Len(cells) \in Nat /\ DOMAIN cs = DOMAIN cells
      /\ c \in DOMAIN cells /\ cells[c].refs > 0
  BY CellEntry, CellReferenced, LenProperties
<1>2. /\ cells' = Decref(cs, c)
      /\ request' = [request EXCEPT ![q].state = st]
  BY DEF Release
<1>3. /\ cells' \in Seq(Cell) /\ Len(cells') = Len(cells) /\ DOMAIN cells' = DOMAIN cells
      /\ \A k \in DOMAIN cells :
                 /\ cells'[k].status = cells[k].status
                 /\ cells'[k].refs = IF k = c THEN cells[k].refs - 1 ELSE cells[k].refs
                 /\ cells'[k].queue = IF k = c /\ cells[k].refs = 1 THEN <<>> ELSE cs[k].queue
  BY <1>1, <1>2, DecrefFact
<1>4. /\ request'[q].state = st /\ request'[q].cell = c
      /\ \A r \in Reqs : r # q => request'[r] = request[r]
      /\ request' \in [Reqs -> [state : RequestStates, cell : 0 .. Len(cells)]]
  BY <1>2 DEF CellTypes, RequestStates
<1>5. CellTypes'
  <2>1. \A r \in Reqs : request'[r].state # "none" => request'[r].cell # 0
    BY <1>1, <1>4 DEF CellTypes
  <2> QED
    BY <1>3, <1>4, <2>1 DEF CellTypes
<1>6. \A k \in DOMAIN cells : Holders(k)' = IF k = c THEN Holders(k) \ {q} ELSE Holders(k)
  BY <1>4 DEF Holders
<1>7. q \in Holders(c)
  BY DEF Holders
<1>8. /\ IsFiniteSet(Holders(c)) /\ Cardinality(Holders(c)) \in Nat
      /\ IsFiniteSet(Holders(c) \ {q})
      /\ Cardinality(Holders(c) \ {q}) = Cardinality(Holders(c)) - 1
      /\ Cardinality(Holders(c) \ {q}) \in Nat
  <2>1. IsFiniteSet(Holders(c))
    BY <1>1 DEF RefsInv
  <2>2. /\ IsFiniteSet(Holders(c) \ {q})
        /\ Cardinality(Holders(c) \ {q}) = Cardinality(Holders(c)) - 1
    BY <1>7, <2>1, FS_RemoveElement
  <2> QED
    BY <2>1, <2>2, FS_CardinalityType
<1>9. RefsInv'
  <2> SUFFICES ASSUME NEW k \in DOMAIN cells
               PROVE  IsFiniteSet(Holders(k)') /\ cells'[k].refs = Cardinality(Holders(k)') + FileRef(k)
    BY <1>3 DEF RefsInv, FileRef
  <2>1. cells[k].refs = Cardinality(Holders(k)) + FileRef(k) /\ IsFiniteSet(Holders(k))
    BY DEF RefsInv
  <2>2. FileRef(k) \in Nat
    BY DEF FileRef
  <2>3. CASE k = c
    <3>1. Holders(k)' = Holders(c) \ {q} /\ cells'[k].refs = cells[c].refs - 1
      BY <1>3, <1>6, <2>3
    <3> QED
      BY <1>8, <2>1, <2>2, <2>3, <3>1
  <2>4. CASE k # c
    BY <1>3, <1>6, <2>1, <2>4
  <2> QED
    BY <2>3, <2>4
<1>10. ASSUME c = current_completion PROVE cells[c].refs # 1
  <2>1. cells[c].refs = Cardinality(Holders(c)) + 1
    BY <1>1, <1>10 DEF RefsInv, FileRef
  <2> QED
    BY <1>8, <2>1
<1> QED
  BY <1>1, <1>3, <1>4, <1>5, <1>9, <1>10

-----------------------------------------------------------------------------
(* Every operation keeps the invariant.                                    *)

\* request_free, and request_cancel.
LEMMA FreeStep == ASSUME RInv, NEW q \in Reqs, RequestFree(q) PROVE RInv'
<1> USE DEF RInv
<1>1. /\ request[q].state = "held" /\ Release(q, cells, "freed")
      /\ UNCHANGED <<current_completion, verdict, told, notify_list, outcome, step_state>>
  BY DEF RequestFree, Held, resolveVars, historyVars
<1>2. cells \in Seq(Cell)
  BY DEF CellTypes
<1>3. /\ CellTypes' /\ RefsInv'
      /\ DOMAIN cells' = DOMAIN cells
      /\ \A k \in DOMAIN cells :
            /\ cells'[k].status = cells[k].status
            /\ \/ cells'[k].queue = cells[k].queue
               \/ cells'[k].queue = <<>> /\ k # current_completion
      /\ request'[q].state = "freed"
      /\ \A r \in Reqs : r # q => request'[r] = request[r]
  BY <1>1, <1>2, ReleaseFact
<1>4. CallTypes'
  BY <1>1 DEF CallTypes
<1>5. StatusInv'
  <2>1. current_completion # 0 => current_completion \in DOMAIN cells
    BY CellEntry
  <2> QED
    BY <1>1, <1>3, <2>1 DEF StatusInv
<1>6. \A k \in DOMAIN cells : \A r \in Reqs :
         Queued(cells'[k].queue, r) => Queued(cells[k].queue, r)
  BY <1>3 DEF Queued
<1>7. QueueInv'
  <2>1. \A k \in DOMAIN cells : Distinct(cells'[k].queue)
    BY <1>3 DEF QueueInv, Distinct
  <2> QED
    BY <1>1, <1>3, <1>6, <2>1 DEF QueueInv
<1>8. ToldInv'
  <2> SUFFICES ASSUME NEW r \in Reqs
               PROVE  /\ request'[r].state # "notified" => told[r] = <<>>
                      /\ request'[r].state = "notified" =>
                            LET c == request'[r].cell
                                s == cells'[c].status
                            IN  /\ s = 0 => told[r] = <<>>
                                /\ s = 0 /\ c = current_completion => Queued(cells'[c].queue, r)
                                /\ s # 0 => told[r] = <<s>> \/ (told[r] = <<>> /\ Queued(notify_list, r))
    BY <1>1 DEF ToldInv
  <2>1. CASE r = q
    BY <1>1, <1>3, <2>1 DEF ToldInv
  <2>2. CASE r # q
    <3>1. request'[r] = request[r]
      BY <1>3, <2>2
    <3>2. request[r].state = "notified" => request[r].cell \in DOMAIN cells
      BY CellEntry
    <3> QED
      BY <1>3, <3>1, <3>2 DEF ToldInv
  <2> QED
    BY <2>1, <2>2
<1> QED
  BY <1>3, <1>4, <1>5, <1>7, <1>8

\* The callback joins the front of a queue that does not hold it.
LEMMA PushFront ==
    ASSUME NEW s \in Seq(Reqs), NEW q \in Reqs, Distinct(s), ~Queued(s, q)
    PROVE  /\ <<q>> \o s \in Seq(Reqs)
           /\ Distinct(<<q>> \o s)
           /\ \A r \in Reqs : Queued(<<q>> \o s, r) <=> (r = q \/ Queued(s, r))
<1> DEFINE t == <<q>> \o s
<1>1. <<q>> \in Seq(Reqs) /\ Len(<<q>>) = 1 /\ <<q>>[1] = q
  OBVIOUS
<1>2. Len(s) \in Nat /\ DOMAIN s = 1 .. Len(s)
  BY LenProperties
<1>3. t \in Seq(Reqs) /\ Len(t) = 1 + Len(s) /\ DOMAIN t = 1 .. 1 + Len(s)
  BY <1>1, ConcatProperties, LenProperties
<1>4. \A i \in 1 .. 1 + Len(s) : t[i] = IF i = 1 THEN q ELSE s[i - 1]
  <2> TAKE i \in 1 .. 1 + Len(s)
  <2>1. t[i] = IF i <= 1 THEN <<q>>[i] ELSE s[i - 1]
    BY <1>1, ConcatProperties
  <2> QED
    BY <1>1, <1>2, <2>1
<1> HIDE DEF t
<1>5. Distinct(t)
  <2> SUFFICES ASSUME NEW i \in 1 .. 1 + Len(s), NEW j \in 1 .. 1 + Len(s), t[i] = t[j]
               PROVE  i = j
    BY <1>3 DEF Distinct
  <2>1. \A n \in 1 .. 1 + Len(s) : n # 1 => n - 1 \in DOMAIN s /\ t[n] = s[n - 1] /\ t[n] # q
    BY <1>2, <1>4 DEF Queued
  <2>2. t[1] = q
    BY <1>2, <1>4
  <2>3. CASE i = 1 \/ j = 1
    BY <2>1, <2>2, <2>3
  <2>4. CASE i # 1 /\ j # 1
    <3>1. i - 1 = j - 1
      BY <2>1, <2>4 DEF Distinct
    <3> QED
      BY <1>2, <3>1
  <2> QED
    BY <2>3, <2>4
<1>6. ASSUME NEW r \in Reqs PROVE Queued(t, r) <=> (r = q \/ Queued(s, r))
  <2>1. ASSUME Queued(t, r) PROVE r = q \/ Queued(s, r)
    BY <1>2, <1>3, <1>4, <2>1 DEF Queued
  <2>2. ASSUME r = q PROVE Queued(t, r)
    <3>1. 1 \in DOMAIN t /\ t[1] = q
      BY <1>2, <1>3, <1>4
    <3> QED
      BY <2>2, <3>1 DEF Queued
  <2>3. ASSUME Queued(s, r) PROVE Queued(t, r)
    <3>1. PICK i \in 1 .. Len(s) : s[i] = r
      BY <1>2, <2>3 DEF Queued
    <3>2. i + 1 \in DOMAIN t /\ t[i + 1] = s[i]
      BY <1>2, <1>3, <1>4, <3>1
    <3> QED
      BY <3>1, <3>2 DEF Queued
  <2> QED
    BY <2>1, <2>2, <2>3
<1> QED
  BY <1>3, <1>5, <1>6 DEF t

\* request_notify before the step has ended: the callback is queued.
LEMMA NotifyPendingStep ==
    ASSUME RInv, NEW q \in Reqs, RequestNotify(q), cells[request[q].cell].status = 0
    PROVE  RInv'
<1> USE DEF RInv
<1> DEFINE c == request[q].cell
           cs == [cells EXCEPT ![c].queue = <<q>> \o @]
<1>1. /\ request[q].state = "held" /\ Release(q, cs, "notified")
      /\ UNCHANGED <<current_completion, verdict, told, notify_list, outcome, step_state>>
  BY DEF RequestNotify, Held, resolveVars
<1>e. /\ DOMAIN cells = 1 .. Len(cells) /\ c \in DOMAIN cells /\ cells[c] \in Cell
      /\ cells[c].queue \in Seq(Reqs) /\ cells \in Seq(Cell)
  BY <1>1, CellEntry DEF CellTypes
<1>q. ~Queued(cells[c].queue, q) /\ Distinct(cells[c].queue)
  BY <1>1, <1>e DEF QueueInv
<1>p. /\ <<q>> \o cells[c].queue \in Seq(Reqs)
      /\ Distinct(<<q>> \o cells[c].queue)
      /\ \A r \in Reqs : Queued(<<q>> \o cells[c].queue, r) <=> (r = q \/ Queued(cells[c].queue, r))
  BY <1>e, <1>q, PushFront
<1>2. /\ cs \in Seq(Cell) /\ Len(cs) = Len(cells)
      /\ \A k \in DOMAIN cells :
            /\ cs[k].status = cells[k].status /\ cs[k].refs = cells[k].refs
            /\ cs[k].queue = IF k = c THEN <<q>> \o cells[k].queue ELSE cells[k].queue
  <2> DEFINE t == <<q>> \o cells[c].queue
             e == [cells[c] EXCEPT !.queue = t]
  <2>1. cs = [cells EXCEPT ![c] = e]
    BY <1>e
  <2>2. t \in Seq(Reqs)
    BY <1>p
  <2> HIDE DEF t
  <2>3. e \in Cell /\ e.status = cells[c].status /\ e.refs = cells[c].refs /\ e.queue = t
    BY <1>e, <2>2 DEF Cell
  <2> HIDE DEF e, cs
  <2>4. /\ cs \in Seq(Cell) /\ Len(cs) = Len(cells)
        /\ \A k \in 1 .. Len(cells) : cs[k] = IF k = c THEN e ELSE cells[k]
    BY <1>e, <2>1, <2>3, ExceptSeq
  <2> QED
    BY <1>e, <2>3, <2>4 DEF t
<1> HIDE DEF cs
<1>3. /\ CellTypes' /\ RefsInv'
      /\ DOMAIN cells' = DOMAIN cells
      /\ \A k \in DOMAIN cells :
            /\ cells'[k].status = cells[k].status
            /\ \/ cells'[k].queue = cs[k].queue
               \/ cells'[k].queue = <<>> /\ k # current_completion
      /\ request'[q].state = "notified" /\ request'[q].cell = c
      /\ \A r \in Reqs : r # q => request'[r] = request[r]
  BY <1>1, <1>2, ReleaseFact
<1>4. CallTypes'
  BY <1>1 DEF CallTypes
<1>5. StatusInv'
  <2>1. current_completion # 0 => current_completion \in DOMAIN cells
    BY CellEntry
  <2> QED
    BY <1>1, <1>3, <2>1 DEF StatusInv
<1>6. \A k \in DOMAIN cells : \A r \in Reqs :
         Queued(cells'[k].queue, r) => Queued(cells[k].queue, r) \/ (k = c /\ r = q)
  <2> TAKE k \in DOMAIN cells
  <2> TAKE r \in Reqs
  <2>1. CASE cells'[k].queue = <<>>
    BY <2>1 DEF Queued
  <2>2. CASE cells'[k].queue = cs[k].queue
    BY <1>2, <1>p, <2>2
  <2> QED
    BY <1>3, <2>1, <2>2
<1>7. QueueInv'
  <2>1. \A k \in DOMAIN cells : Distinct(cells'[k].queue)
    <3> TAKE k \in DOMAIN cells
    <3>1. CASE cells'[k].queue = <<>>
      BY <3>1 DEF Distinct
    <3>2. CASE cells'[k].queue = cs[k].queue
      BY <1>2, <1>p, <3>2 DEF QueueInv
    <3> QED
      BY <1>3, <3>1, <3>2
  <2>2. told[q] = <<>>
    BY <1>1 DEF ToldInv
  <2>3. ASSUME NEW k \in DOMAIN cells, NEW r \in Reqs, Queued(cells'[k].queue, r)
        PROVE  /\ request'[r].state = "notified" /\ request'[r].cell = k
               /\ told[r] = <<>> /\ cells'[k].status = 0
    <3>1. CASE r = q
      <4>1. k = c
        BY <1>1, <1>6, <2>3, <3>1 DEF QueueInv
      <4> QED
        BY <1>3, <2>2, <3>1, <4>1
    <3>2. CASE r # q
      BY <1>3, <1>6, <2>3, <3>2 DEF QueueInv
    <3> QED
      BY <3>1, <3>2
  <2>4. ASSUME NEW r \in Reqs, Queued(notify_list, r)
        PROVE  /\ request'[r].state = "notified" /\ request'[r].cell = current_completion
               /\ told[r] = <<>>
    BY <1>1, <1>3, <2>4 DEF QueueInv
  <2>5. Distinct(notify_list)
    BY DEF QueueInv
  <2> QED
    BY <1>1, <1>3, <2>1, <2>3, <2>4, <2>5 DEF QueueInv
<1>8. ToldInv'
  <2> SUFFICES ASSUME NEW r \in Reqs
               PROVE  /\ request'[r].state # "notified" => told[r] = <<>>
                      /\ request'[r].state = "notified" =>
                            LET k == request'[r].cell
                                s == cells'[k].status
                            IN  /\ s = 0 => told[r] = <<>>
                                /\ s = 0 /\ k = current_completion => Queued(cells'[k].queue, r)
                                /\ s # 0 => told[r] = <<s>> \/ (told[r] = <<>> /\ Queued(notify_list, r))
    BY <1>1 DEF ToldInv
  <2>1. CASE r = q
    <3>1. told[r] = <<>> /\ cells'[c].status = 0 /\ request'[r].cell = c
      BY <1>1, <1>3, <1>e, <2>1 DEF ToldInv
    <3>2. c = current_completion => Queued(cells'[c].queue, r)
      BY <1>2, <1>3, <1>e, <1>p, <2>1
    <3> QED
      BY <3>1, <3>2
  <2>2. CASE r # q
    <3>1. request'[r] = request[r]
      BY <1>3, <2>2
    <3>2. request[r].state = "notified" => request[r].cell \in DOMAIN cells
      BY CellEntry
    <3>3. \A k \in DOMAIN cells : k = current_completion /\ Queued(cells[k].queue, r) =>
             Queued(cells'[k].queue, r)
      BY <1>2, <1>3, <1>p
    <3> QED
      BY <1>3, <3>1, <3>2, <3>3 DEF ToldInv
  <2> QED
    BY <2>1, <2>2
<1> QED
  BY <1>3, <1>4, <1>5, <1>7, <1>8

\* request_notify after the step has ended: the callback is called at once.
LEMMA NotifyDoneStep ==
    ASSUME RInv, NEW q \in Reqs, RequestNotify(q), cells[request[q].cell].status # 0
    PROVE  RInv'
<1> USE DEF RInv
<1> DEFINE c == request[q].cell
           s0 == cells[c].status
<1>1. /\ request[q].state = "held" /\ Release(q, cells, "notified")
      /\ told' = [told EXCEPT ![q] = Append(@, s0)]
      /\ UNCHANGED <<current_completion, verdict, notify_list, outcome, step_state>>
  BY DEF RequestNotify, Held, resolveVars
<1>e. /\ c \in DOMAIN cells /\ s0 \in Status /\ cells \in Seq(Cell)
      /\ told \in [Reqs -> Seq(Status)]
  BY <1>1, CellEntry DEF CellTypes, CallTypes
<1>t. told'[q] = <<s0>> /\ \A r \in Reqs : r # q => told'[r] = told[r]
  <2>1. told[q] = <<>>
    BY <1>1 DEF ToldInv
  <2>2. told'[q] = Append(told[q], s0) /\ \A r \in Reqs : r # q => told'[r] = told[r]
    BY <1>1, <1>e
  <2> QED
    BY <2>1, <2>2
<1>3. /\ CellTypes' /\ RefsInv'
      /\ DOMAIN cells' = DOMAIN cells
      /\ \A k \in DOMAIN cells :
            /\ cells'[k].status = cells[k].status
            /\ \/ cells'[k].queue = cells[k].queue
               \/ cells'[k].queue = <<>> /\ k # current_completion
      /\ request'[q].state = "notified" /\ request'[q].cell = c
      /\ \A r \in Reqs : r # q => request'[r] = request[r]
  BY <1>1, <1>e, ReleaseFact
<1>4. CallTypes'
  <2>1. Append(told[q], s0) \in Seq(Status)
    <3>1. told[q] \in Seq(Status)
      BY <1>e
    <3> HIDE DEF s0
    <3> QED
      BY <1>e, <3>1, AppendProperties
  <2>2. told' \in [Reqs -> Seq(Status)]
    BY <1>1, <1>e, <2>1
  <2> QED
    BY <1>1, <2>2 DEF CallTypes
<1>5. StatusInv'
  <2>1. current_completion # 0 => current_completion \in DOMAIN cells
    BY CellEntry
  <2> QED
    BY <1>1, <1>3, <2>1 DEF StatusInv
<1>6. \A k \in DOMAIN cells : \A r \in Reqs :
         Queued(cells'[k].queue, r) => Queued(cells[k].queue, r) /\ r # q
  BY <1>1, <1>3 DEF Queued, QueueInv
<1>7. QueueInv'
  <2>1. \A k \in DOMAIN cells : Distinct(cells'[k].queue)
    BY <1>3 DEF QueueInv, Distinct
  <2>2. \A r \in Reqs : Queued(notify_list, r) => r # q
    BY <1>1 DEF QueueInv
  <2> QED
    BY <1>1, <1>t, <1>3, <1>6, <2>1, <2>2 DEF QueueInv
<1>8. ToldInv'
  <2> SUFFICES ASSUME NEW r \in Reqs
               PROVE  /\ request'[r].state # "notified" => told'[r] = <<>>
                      /\ request'[r].state = "notified" =>
                            LET k == request'[r].cell
                                s == cells'[k].status
                            IN  /\ s = 0 => told'[r] = <<>>
                                /\ s = 0 /\ k = current_completion => Queued(cells'[k].queue, r)
                                /\ s # 0 => told'[r] = <<s>> \/ (told'[r] = <<>> /\ Queued(notify_list, r))
    BY <1>1 DEF ToldInv
  <2>1. CASE r = q
    BY <1>3, <1>e, <1>t, <2>1
  <2>2. CASE r # q
    <3>1. request'[r] = request[r] /\ told'[r] = told[r]
      BY <1>3, <1>t, <2>2
    <3>2. request[r].state = "notified" => request[r].cell \in DOMAIN cells
      BY CellEntry
    <3> QED
      BY <1>3, <3>1, <3>2 DEF ToldInv
  <2> QED
    BY <2>1, <2>2
<1> QED
  BY <1>3, <1>4, <1>5, <1>7, <1>8

\* A cell gains a reference, or is made with the file's and the request's.
LEMMA MakeFact ==
    ASSUME CellTypes, NEW q \in Reqs, q # None, MakeRequest(q)
    PROVE  LET fresh == current_completion = 0
               c == IF fresh THEN Len(cells) + 1 ELSE current_completion
           IN  /\ cells' \in Seq(Cell)
               /\ Len(cells') = IF fresh THEN Len(cells) + 1 ELSE Len(cells)
               /\ c \in DOMAIN cells' /\ c # 0 /\ (fresh => c \notin DOMAIN cells)
               /\ \A k \in DOMAIN cells' : k # c => k \in DOMAIN cells /\ cells'[k] = cells[k]
               /\ ~fresh => c \in DOMAIN cells
               /\ cells'[c].status = IF fresh THEN 0 ELSE cells[c].status
               /\ cells'[c].refs = IF fresh THEN 2 ELSE cells[c].refs + 1
               /\ cells'[c].queue = IF fresh THEN <<>> ELSE cells[c].queue
               /\ current_completion' = c
               /\ request' = [request EXCEPT ![q] = [state |-> "held", cell |-> c]]
               /\ verdict' = IF fresh THEN Append(verdict, 0) ELSE verdict
<1> DEFINE fresh == current_completion = 0
           cs == IF fresh THEN Append(cells, NewCell) ELSE cells
           c == IF fresh THEN Len(cells) + 1 ELSE current_completion
<1>e. /\ DOMAIN cells = 1 .. Len(cells) /\ Len(cells) \in Nat /\ cells \in Seq(Cell)
      /\ current_completion # 0 => current_completion \in DOMAIN cells
  BY CellEntry DEF CellTypes
<1>n. NewCell \in Cell /\ NewCell.status = 0 /\ NewCell.refs = 1 /\ NewCell.queue = <<>>
  BY DEF NewCell, Cell, Status
<1>1. /\ cs \in Seq(Cell) /\ Len(cs) = IF fresh THEN Len(cells) + 1 ELSE Len(cells)
      /\ c \in 1 .. Len(cs) /\ DOMAIN cs = 1 .. Len(cs)
      /\ cs[c] = IF fresh THEN NewCell ELSE cells[c]
      /\ \A k \in 1 .. Len(cs) : k # c => k \in DOMAIN cells /\ cs[k] = cells[k]
  <2> HIDE DEF NewCell
  <2>1. CASE fresh
    <3>1. /\ Append(cells, NewCell) \in Seq(Cell)
          /\ Len(Append(cells, NewCell)) = Len(cells) + 1
          /\ \A i \in 1.. Len(cells) : Append(cells, NewCell)[i] = cells[i]
          /\ Append(cells, NewCell)[Len(cells)+1] = NewCell
      BY <1>e, <1>n, AppendProperties
    <3>2. DOMAIN Append(cells, NewCell) = 1 .. Len(cells) + 1
      BY <3>1, LenProperties
    <3> QED
      BY <1>e, <2>1, <3>1, <3>2
  <2>2. CASE ~fresh
    BY <1>e, <2>2
  <2> QED
    BY <2>1, <2>2
<1>2. cs[c] \in Cell
  BY <1>1, ElementOfSeq
<1>3. /\ cells' = [cs EXCEPT ![c].refs = @ + 1] /\ current_completion' = c
      /\ request' = [request EXCEPT ![q] = [state |-> "held", cell |-> c]]
      /\ verdict' = IF fresh THEN Append(verdict, 0) ELSE verdict
  <2>1. c = IF fresh THEN Len(cs) ELSE current_completion
    BY <1>1
  <2> QED
    BY <2>1 DEF MakeRequest
<1> HIDE DEF cs
<1> DEFINE e == [cs[c] EXCEPT !.refs = @ + 1]
<1>4. e \in Cell /\ e.status = cs[c].status /\ e.refs = cs[c].refs + 1 /\ e.queue = cs[c].queue
  BY <1>2 DEF Cell
<1>5. cells' = [cs EXCEPT ![c] = e]
  BY <1>1, <1>3
<1> HIDE DEF e
<1>6. /\ cells' \in Seq(Cell) /\ Len(cells') = Len(cs)
      /\ \A k \in 1 .. Len(cs) : cells'[k] = IF k = c THEN e ELSE cs[k]
      /\ DOMAIN cells' = 1 .. Len(cs)
  BY <1>1, <1>4, <1>5, ExceptSeq
<1>7. /\ e.status = IF fresh THEN 0 ELSE cells[c].status
      /\ e.refs = IF fresh THEN 2 ELSE cells[c].refs + 1
      /\ e.queue = IF fresh THEN <<>> ELSE cells[c].queue
  BY <1>1, <1>4, <1>n
<1>8. c \in DOMAIN cells' /\ c # 0 /\ (fresh => c \notin DOMAIN cells) /\ (~fresh => c \in DOMAIN cells)
  BY <1>e, <1>1, <1>6
<1>9. \A k \in DOMAIN cells' : k # c => k \in DOMAIN cells /\ cells'[k] = cells[k]
  BY <1>1, <1>6
<1>10. cells'[c] = e
  BY <1>1, <1>6
<1>11. Len(cells') = IF fresh THEN Len(cells) + 1 ELSE Len(cells)
  BY <1>1, <1>6
<1>12. cells' \in Seq(Cell)
  BY <1>6
<1> HIDE DEF c, fresh
<1>13. /\ cells'[c].status = IF fresh THEN 0 ELSE cells[c].status
       /\ cells'[c].refs = IF fresh THEN 2 ELSE cells[c].refs + 1
       /\ cells'[c].queue = IF fresh THEN <<>> ELSE cells[c].queue
  BY <1>7, <1>10
<1> QED
  BY <1>3, <1>8, <1>9, <1>11, <1>12, <1>13 DEF c, fresh

\* make_deferred_request.
LEMMA MakeStep ==
    ASSUME RInv, step_state = "IN_STEP", NEW q \in Reqs, q # None, request[q].state = "none",
           MakeRequest(q), UNCHANGED <<told, notify_list, outcome, step_state>>
    PROVE  RInv'
<1> USE DEF RInv
<1> DEFINE fresh == current_completion = 0
           c == IF fresh THEN Len(cells) + 1 ELSE current_completion
<1>m. /\ cells' \in Seq(Cell)
      /\ Len(cells') = IF fresh THEN Len(cells) + 1 ELSE Len(cells)
      /\ c \in DOMAIN cells' /\ c # 0 /\ (fresh => c \notin DOMAIN cells)
      /\ \A k \in DOMAIN cells' : k # c => k \in DOMAIN cells /\ cells'[k] = cells[k]
      /\ ~fresh => c \in DOMAIN cells
      /\ cells'[c].status = IF fresh THEN 0 ELSE cells[c].status
      /\ cells'[c].refs = IF fresh THEN 2 ELSE cells[c].refs + 1
      /\ cells'[c].queue = IF fresh THEN <<>> ELSE cells[c].queue
      /\ current_completion' = c
      /\ request' = [request EXCEPT ![q] = [state |-> "held", cell |-> c]]
      /\ verdict' = IF fresh THEN Append(verdict, 0) ELSE verdict
  BY MakeFact
<1>e. /\ DOMAIN cells = 1 .. Len(cells) /\ Len(cells) \in Nat /\ DOMAIN verdict = DOMAIN cells
      /\ \A r \in Reqs : request[r].state # "none" => request[r].cell \in DOMAIN cells
      /\ \A k \in DOMAIN cells : cells[k].refs \in Nat
      /\ verdict \in Seq(Status) /\ Len(verdict) = Len(cells)
      /\ request \in [Reqs -> [state : RequestStates, cell : 0 .. Len(cells)]]
  BY CellEntry DEF CellTypes
<1>d. DOMAIN cells' = 1 .. Len(cells') /\ Len(cells') \in Nat /\ DOMAIN cells \subseteq DOMAIN cells'
  BY <1>m, <1>e, LenProperties
<1>s. ~fresh => cells[c].status = 0
  BY DEF StatusInv
<1>n. notify_list = <<>>
  BY DEF StatusInv
<1>x. fresh => current_completion = 0
  OBVIOUS
<1>y. ~fresh => current_completion = c
  OBVIOUS
<1>z. c \in 0 .. Len(cells') /\ Len(cells) <= Len(cells')
  BY <1>d, <1>e, <1>m
<1> HIDE DEF c, fresh
<1>r. /\ request'[q].state = "held" /\ request'[q].cell = c
      /\ \A r \in Reqs : r # q => request'[r] = request[r]
  BY <1>m, <1>e
<1>v. /\ verdict' \in Seq(Status) /\ Len(verdict') = Len(cells')
      /\ \A k \in DOMAIN cells' : k # c => verdict'[k] = verdict[k]
      /\ verdict'[c] = cells'[c].status
  <2>1. CASE fresh
    <3>1. verdict' = Append(verdict, 0) /\ 0 \in Status /\ c = Len(cells) + 1
      BY <1>m, <2>1 DEF Status, c, fresh
    <3>2. /\ Append(verdict, 0) \in Seq(Status) /\ Len(Append(verdict, 0)) = Len(verdict) + 1
          /\ \A i \in 1 .. Len(verdict) : Append(verdict, 0)[i] = verdict[i]
          /\ Append(verdict, 0)[Len(verdict) + 1] = 0
      BY <1>e, <3>1, AppendProperties
    <3> QED
      BY <1>d, <1>e, <1>m, <2>1, <3>1, <3>2
  <2>2. CASE ~fresh
    BY <1>e, <1>m, <2>2 DEF StatusInv
  <2> QED
    BY <2>1, <2>2
<1>1. CellTypes'
  <2>1. request' \in [Reqs -> [state : RequestStates, cell : 0 .. Len(cells')]]
    <3>1. [state |-> "held", cell |-> c] \in [state : RequestStates, cell : 0 .. Len(cells')]
      BY <1>z DEF RequestStates
    <3>2. request \in [Reqs -> [state : RequestStates, cell : 0 .. Len(cells')]]
      BY <1>e, <1>d, <1>z
    <3> QED
      BY <1>m, <3>1, <3>2
  <2>2. \A r \in Reqs : request'[r].state # "none" => request'[r].cell # 0
    BY <1>m, <1>r DEF CellTypes
  <2> QED
    BY <1>m, <1>v, <1>z, <2>1, <2>2 DEF CellTypes
<1>2. CallTypes'
  BY DEF CallTypes
<1>3. StatusInv'
  <2>1. \A k \in DOMAIN cells' : verdict'[k] = cells'[k].status
    BY <1>m, <1>v DEF StatusInv
  <2>2. cells'[c].status = 0
    BY <1>m, <1>s
  <2> QED
    BY <1>m, <1>n, <2>1, <2>2 DEF StatusInv
<1>4. RefsInv'
  <2> SUFFICES ASSUME NEW k \in DOMAIN cells'
               PROVE  /\ IsFiniteSet(Holders(k)')
                      /\ cells'[k].refs = Cardinality(Holders(k)') + (IF k = c THEN 1 ELSE 0)
    BY <1>m DEF RefsInv, FileRef
  <2>1. Holders(k)' = IF k = c THEN Holders(k) \cup {q} ELSE Holders(k)
    BY <1>r DEF Holders
  <2>2. q \notin Holders(k)
    BY DEF Holders
  <2>3. CASE k = c /\ fresh
    <3>1. Holders(k) = {}
      BY <1>e, <1>m, <2>3 DEF Holders
    <3>2. IsFiniteSet(Holders(k)) /\ Cardinality(Holders(k)) = 0
      BY <3>1, FS_EmptySet
    <3>3. IsFiniteSet(Holders(k)') /\ Cardinality(Holders(k)') = 0 + 1
      BY <2>1, <2>2, <2>3, <3>2, FS_AddElement
    <3> QED
      BY <1>m, <2>3, <3>3
  <2>4. CASE k = c /\ ~fresh
    <3>1. /\ k \in DOMAIN cells /\ IsFiniteSet(Holders(k))
          /\ cells[k].refs = Cardinality(Holders(k)) + 1 /\ Cardinality(Holders(k)) \in Nat
      BY <1>m, <1>y, <2>4, FS_CardinalityType DEF RefsInv, FileRef
    <3>2. IsFiniteSet(Holders(k)') /\ Cardinality(Holders(k)') = Cardinality(Holders(k)) + 1
      BY <2>1, <2>2, <2>4, <3>1, FS_AddElement
    <3> QED
      BY <1>m, <2>4, <3>1, <3>2
  <2>5. CASE k # c
    <3>1. k \in DOMAIN cells /\ cells'[k] = cells[k] /\ k # 0
      BY <1>m, <1>e, <2>5
    <3>2. k # current_completion
      BY <1>x, <1>y, <2>5, <3>1
    <3> QED
      BY <2>1, <2>5, <3>1, <3>2 DEF RefsInv, FileRef
  <2> QED
    BY <2>3, <2>4, <2>5
<1>5. \A k \in DOMAIN cells' : \A r \in Reqs :
         Queued(cells'[k].queue, r) =>
            /\ k \in DOMAIN cells /\ Queued(cells[k].queue, r) /\ cells'[k].status = cells[k].status
            /\ r # q
  <2> SUFFICES ASSUME NEW k \in DOMAIN cells', NEW r \in Reqs, Queued(cells'[k].queue, r)
               PROVE  /\ k \in DOMAIN cells /\ Queued(cells[k].queue, r)
                      /\ cells'[k].status = cells[k].status /\ r # q
    OBVIOUS
  <2>1. ~(k = c /\ fresh)
    BY <1>m DEF Queued
  <2>2. k \in DOMAIN cells /\ Queued(cells[k].queue, r) /\ cells'[k].status = cells[k].status
    BY <1>m, <2>1
  <2> QED
    BY <2>2 DEF QueueInv
<1>6. QueueInv'
  <2>1. \A k \in DOMAIN cells' : Distinct(cells'[k].queue)
    <3> TAKE k \in DOMAIN cells'
    <3>1. CASE k = c /\ fresh
      BY <1>m, <3>1 DEF Distinct
    <3>2. CASE ~(k = c /\ fresh)
      BY <1>m, <3>2 DEF QueueInv
    <3> QED
      BY <3>1, <3>2
  <2>2. \A r \in Reqs : ~Queued(notify_list, r)
    BY <1>n DEF Queued
  <2> QED
    BY <1>5, <1>r, <1>n, <2>1, <2>2 DEF QueueInv, Distinct
<1>7. ToldInv'
  <2> SUFFICES ASSUME NEW r \in Reqs
               PROVE  /\ request'[r].state # "notified" => told[r] = <<>>
                      /\ request'[r].state = "notified" =>
                            LET k == request'[r].cell
                                s == cells'[k].status
                            IN  /\ s = 0 => told[r] = <<>>
                                /\ s = 0 /\ k = c => Queued(cells'[k].queue, r)
                                /\ s # 0 => told[r] = <<s>> \/ (told[r] = <<>> /\ Queued(notify_list, r))
    BY <1>m DEF ToldInv
  <2>1. CASE r = q
    BY <1>r, <2>1 DEF ToldInv
  <2>2. CASE r # q
    <3>1. request'[r] = request[r]
      BY <1>r, <2>2
    <3>2. request[r].state = "notified" => request[r].cell \in DOMAIN cells
      BY <1>e
    <3>3. \A k \in DOMAIN cells : cells'[k].status = cells[k].status /\ cells'[k].queue = cells[k].queue
      BY <1>d, <1>m
    <3>4. \A k \in DOMAIN cells : k = c => k = current_completion
      BY <1>m, <1>y
    <3> QED
      BY <3>1, <3>2, <3>3, <3>4 DEF ToldInv
  <2> QED
    BY <2>1, <2>2
<1> QED
  BY <1>1, <1>2, <1>3, <1>4, <1>6, <1>7

\* end_step has an outcome: the cell takes it, and its queue is taken over.
LEMMA ResolvedStep ==
    ASSUME RInv, step_state = "IN_STEP", step_state' = "COMMITTING",
           NEW ret \in {-1, 1}, Resolved(ret), UNCHANGED <<current_completion, request, told>>
    PROVE  RInv'
<1> USE DEF RInv
<1> DEFINE c == current_completion
<1>n. notify_list = <<>>
  BY DEF StatusInv
<1>o. outcome' = ret /\ ret \in Status
  BY DEF Resolved, Status
<1>t. \A r \in Reqs : ~Queued(notify_list, r)
  BY <1>n DEF Queued
<1>1. CASE c = 0
  <2>1. UNCHANGED <<cells, notify_list, verdict>>
    BY <1>1 DEF Resolved
  <2>a. CellTypes' /\ CallTypes'
    BY <1>o, <2>1 DEF CellTypes, CallTypes
  <2>b. RefsInv'
    BY <2>1 DEF RefsInv, Holders, FileRef
  <2>2. QueueInv'
    BY <2>1 DEF QueueInv
  <2>3. StatusInv'
    BY <1>1, <1>n, <1>o, <2>1 DEF StatusInv
  <2>4. ToldInv'
    BY <2>1 DEF ToldInv
  <2> QED
    BY <2>a, <2>b, <2>2, <2>3, <2>4
<1>2. CASE c # 0
  <2>e. /\ DOMAIN cells = 1 .. Len(cells) /\ c \in DOMAIN cells /\ cells[c] \in Cell
        /\ cells \in Seq(Cell) /\ DOMAIN verdict = DOMAIN cells /\ verdict \in Seq(Status)
        /\ \A r \in Reqs : request[r].state # "none" => request[r].cell \in DOMAIN cells
        /\ cells[c].queue \in Seq(Reqs)
    BY <1>2, CellEntry DEF CellTypes
  <2>1. /\ cells' = [cells EXCEPT ![c].status = ret, ![c].queue = <<>>]
        /\ notify_list' = cells[c].queue
        /\ verdict' = [verdict EXCEPT ![c] = ret]
    BY <1>2 DEF Resolved
  <2>2. /\ cells' \in Seq(Cell) /\ Len(cells') = Len(cells) /\ DOMAIN cells' = DOMAIN cells
        /\ cells'[c].status = ret /\ cells'[c].queue = <<>> /\ cells'[c].refs = cells[c].refs
        /\ \A k \in DOMAIN cells : k # c => cells'[k] = cells[k]
    <3> DEFINE e == [status |-> ret, refs |-> cells[c].refs, queue |-> <<>>]
    <3>1. e \in Cell /\ e.status = ret /\ e.queue = <<>> /\ e.refs = cells[c].refs
      BY <2>e, <1>o DEF Cell
    <3>2. [cells[c] EXCEPT !.status = ret, !.queue = <<>>] = e
      <4> DEFINE a == cells[c].status
                 b == cells[c].refs
                 d == cells[c].queue
                 r == cells[c]
      <4>1. r = [status |-> a, refs |-> b, queue |-> d]
        BY <2>e DEF Cell
      <4> HIDE DEF r, a, b, d
      <4> DEFINE r1 == [r EXCEPT !.status = ret]
      <4>2. r1 = [status |-> ret, refs |-> b, queue |-> d]
        BY <4>1
      <4>3. [r EXCEPT !.status = ret, !.queue = <<>>] = [r1 EXCEPT !.queue = <<>>]
        OBVIOUS
      <4> HIDE DEF r1
      <4>4. [r1 EXCEPT !.queue = <<>>] = [status |-> ret, refs |-> b, queue |-> <<>>]
        BY <4>2
      <4> QED
        BY <4>3, <4>4 DEF r, b
    <3>3. cells' = [cells EXCEPT ![c] = [cells[c] EXCEPT !.status = ret, !.queue = <<>>]]
      BY <2>1, <2>e
    <3>4. cells' = [cells EXCEPT ![c] = e]
      BY <3>2, <3>3
    <3> HIDE DEF e
    <3>5. /\ cells' \in Seq(Cell) /\ Len(cells') = Len(cells)
          /\ \A k \in 1 .. Len(cells) : cells'[k] = IF k = c THEN e ELSE cells[k]
          /\ DOMAIN cells' = DOMAIN cells
      BY <2>e, <3>1, <3>4, ExceptSeq
    <3> QED
      BY <2>e, <3>1, <3>5
  <2>3. /\ verdict' \in Seq(Status) /\ Len(verdict') = Len(verdict) /\ verdict'[c] = ret
        /\ \A k \in DOMAIN cells : k # c => verdict'[k] = verdict[k]
    <3>1. c \in 1 .. Len(verdict)
      BY <2>e, LenProperties
    <3> QED
      BY <1>o, <2>1, <2>e, <3>1, ExceptSeq
  <2>4. CellTypes' /\ CallTypes'
    BY <1>o, <2>1, <2>2, <2>3, <2>e DEF CellTypes, CallTypes
  <2>5. StatusInv'
    <3>1. \A k \in DOMAIN cells' : verdict'[k] = cells'[k].status
      BY <2>2, <2>3 DEF StatusInv
    <3>2. ret # 0
      OBVIOUS
    <3> QED
      BY <1>2, <1>o, <2>2, <3>1, <3>2 DEF StatusInv
  <2>6. RefsInv'
    <3> SUFFICES ASSUME NEW k \in DOMAIN cells
                 PROVE  IsFiniteSet(Holders(k)) /\ cells'[k].refs = Cardinality(Holders(k)) + FileRef(k)
      BY <2>2 DEF RefsInv, FileRef, Holders
    <3> QED
      BY <2>2 DEF RefsInv
  <2>7. QueueInv'
    <3>1. \A r \in Reqs : ~Queued(<<>>, r)
      BY DEF Queued
    <3>2. \A k \in DOMAIN cells : Distinct(cells'[k].queue)
      BY <2>2 DEF QueueInv, Distinct
    <3>3. \A k \in DOMAIN cells : \A r \in Reqs : Queued(cells'[k].queue, r) => k # c
      BY <2>2, <3>1
    <3>4. /\ Distinct(notify_list')
          /\ \A r \in Reqs : Queued(notify_list', r) =>
                request[r].state = "notified" /\ request[r].cell = c /\ told[r] = <<>>
      BY <2>1, <2>e DEF QueueInv
    <3> QED
      BY <2>2, <3>2, <3>3, <3>4 DEF QueueInv
  <2>8. ToldInv'
    <3> SUFFICES ASSUME NEW r \in Reqs, request[r].state = "notified"
                 PROVE  LET k == request[r].cell
                            s == cells'[k].status
                        IN  /\ s = 0 => told[r] = <<>>
                            /\ s = 0 /\ k = c => Queued(cells'[k].queue, r)
                            /\ s # 0 => told[r] = <<s>> \/ (told[r] = <<>> /\ Queued(notify_list', r))
      BY DEF ToldInv
    <3>1. CASE request[r].cell = c
      <4>1. cells[c].status = 0
        BY <1>2 DEF StatusInv
      <4>2. told[r] = <<>> /\ Queued(cells[c].queue, r)
        BY <3>1, <4>1 DEF ToldInv
      <4> QED
        BY <2>1, <2>2, <3>1, <4>2
    <3>2. CASE request[r].cell # c
      <4>1. cells'[request[r].cell] = cells[request[r].cell]
        BY <2>2, <2>e, <3>2
      <4> QED
        BY <1>t, <3>2, <4>1 DEF ToldInv
    <3> QED
      BY <3>1, <3>2
  <2> QED
    BY <2>4, <2>5, <2>6, <2>7, <2>8
<1> QED
  BY <1>1, <1>2

\* end_step calls one of the callbacks it took over.
LEMMA InvokeStep == ASSUME RInv, InvokeNotify PROVE RInv'
<1> USE DEF RInv
<1> DEFINE h == Head(notify_list)
<1>1. /\ step_state = "COMMITTING" /\ notify_list # <<>>
      /\ told' = [told EXCEPT ![h] = Append(@, outcome)]
      /\ notify_list' = Tail(notify_list)
      /\ UNCHANGED <<step_state, cells, current_completion, request, outcome, verdict>>
  BY DEF InvokeNotify, requestVars
<1>e. /\ notify_list \in Seq(Reqs) /\ outcome \in Status /\ told \in [Reqs -> Seq(Status)]
      /\ Len(notify_list) \in Nat /\ DOMAIN notify_list = 1 .. Len(notify_list)
  BY LenProperties DEF CallTypes
<1>2. /\ h \in Reqs /\ Tail(notify_list) \in Seq(Reqs) /\ Len(notify_list) > 0
      /\ Len(Tail(notify_list)) = Len(notify_list) - 1
      /\ \A i \in 1 .. Len(Tail(notify_list)) : Tail(notify_list)[i] = notify_list[i + 1]
      /\ h = notify_list[1]
  BY <1>1, <1>e, HeadTailProperties
<1> HIDE DEF h
<1>3. DOMAIN notify_list' = 1 .. Len(notify_list) - 1
  BY <1>1, <1>2, LenProperties
<1>4. \A r \in Reqs : Queued(notify_list', r) <=> (Queued(notify_list, r) /\ r # h)
  <2> TAKE r \in Reqs
  <2>1. ASSUME Queued(notify_list', r) PROVE Queued(notify_list, r) /\ r # h
    <3>1. PICK i \in 1 .. Len(notify_list) - 1 : notify_list[i + 1] = r
      BY <1>1, <1>2, <1>3, <2>1 DEF Queued
    <3>2. i + 1 \in DOMAIN notify_list /\ 1 \in DOMAIN notify_list /\ i + 1 # 1
      BY <1>e, <1>2, <3>1
    <3>3. notify_list[i + 1] # notify_list[1]
      BY <3>2 DEF QueueInv, Distinct
    <3> QED
      BY <1>2, <3>1, <3>2, <3>3 DEF Queued
  <2>2. ASSUME Queued(notify_list, r), r # h PROVE Queued(notify_list', r)
    <3>1. PICK i \in 1 .. Len(notify_list) : notify_list[i] = r
      BY <1>e, <2>2 DEF Queued
    <3>2. i # 1
      BY <1>2, <2>2, <3>1
    <3>3. i - 1 \in 1 .. Len(notify_list) - 1 /\ (i - 1) + 1 = i
      BY <1>e, <3>1, <3>2
    <3>4. notify_list'[i - 1] = r
      BY <1>1, <1>2, <3>1, <3>3
    <3> QED
      BY <1>3, <3>3, <3>4 DEF Queued
  <2> QED
    BY <2>1, <2>2
<1>5. Distinct(notify_list')
  <2> SUFFICES ASSUME NEW i \in 1 .. Len(notify_list) - 1, NEW j \in 1 .. Len(notify_list) - 1,
                      notify_list'[i] = notify_list'[j]
               PROVE  i = j
    BY <1>3 DEF Distinct
  <2>1. i + 1 \in DOMAIN notify_list /\ j + 1 \in DOMAIN notify_list
    BY <1>e
  <2>2. notify_list[i + 1] = notify_list[j + 1]
    BY <1>1, <1>2
  <2>3. i + 1 = j + 1
    BY <2>1, <2>2 DEF QueueInv, Distinct
  <2> QED
    BY <2>3
<1>h. /\ Queued(notify_list, h) /\ request[h].state = "notified"
      /\ request[h].cell = current_completion /\ told[h] = <<>>
  <2>1. Queued(notify_list, h)
    BY <1>e, <1>2 DEF Queued
  <2> QED
    BY <1>2, <2>1 DEF QueueInv
<1>6. told'[h] = <<outcome>> /\ \A r \in Reqs : r # h => told'[r] = told[r]
  <2>1. told'[h] = Append(told[h], outcome) /\ \A r \in Reqs : r # h => told'[r] = told[r]
    BY <1>1, <1>2, <1>e
  <2> QED
    BY <1>h, <2>1
<1>7. /\ current_completion # 0 /\ cells[current_completion].status = outcome /\ outcome # 0
      /\ current_completion \in DOMAIN cells
  BY <1>1, CellEntry DEF StatusInv
<1>8. CellTypes' /\ RefsInv'
  BY <1>1 DEF CellTypes, RefsInv, Holders, FileRef
<1>9. CallTypes'
  <2>1. Append(told[h], outcome) \in Seq(Status)
    BY <1>e, <1>2, AppendProperties
  <2>2. told' \in [Reqs -> Seq(Status)]
    BY <1>1, <1>e, <2>1
  <2> QED
    BY <1>1, <1>2, <2>2 DEF CallTypes
<1>10. StatusInv'
  BY <1>1, <1>7 DEF StatusInv
<1>11. QueueInv'
  <2>1. \A k \in DOMAIN cells : ~Queued(cells[k].queue, h)
    BY <1>2, <1>h, <1>7 DEF QueueInv
  <2> QED
    BY <1>1, <1>4, <1>5, <1>6, <2>1 DEF QueueInv
<1>12. ToldInv'
  <2> SUFFICES ASSUME NEW r \in Reqs
               PROVE  /\ request[r].state # "notified" => told'[r] = <<>>
                      /\ request[r].state = "notified" =>
                            LET k == request[r].cell
                                s == cells[k].status
                            IN  /\ s = 0 => told'[r] = <<>>
                                /\ s = 0 /\ k = current_completion => Queued(cells[k].queue, r)
                                /\ s # 0 => told'[r] = <<s>> \/ (told'[r] = <<>> /\ Queued(notify_list', r))
    BY <1>1 DEF ToldInv
  <2>1. CASE r = h
    BY <1>6, <1>7, <1>h, <2>1
  <2>2. CASE r # h
    BY <1>4, <1>6, <2>2 DEF ToldInv
  <2> QED
    BY <2>1, <2>2
<1> QED
  BY <1>8, <1>9, <1>10, <1>11, <1>12

\* The file drops its reference to the step's cell, at the end of end_step
\* or when the file is closed with the step open.
LEMMA DropStepCell ==
    ASSUME RInv, notify_list = <<>>, current_completion' = 0,
           cells' = IF current_completion = 0 THEN cells ELSE Decref(cells, current_completion),
           UNCHANGED <<request, verdict, told, notify_list>>, outcome' \in Status,
           step_state' \in {"NOT_IN_STEP", "closed"}
    PROVE  RInv'
<1> USE DEF RInv
<1> DEFINE c == current_completion
<1>e. /\ DOMAIN cells = 1 .. Len(cells) /\ cells \in Seq(Cell) /\ (c # 0 => c \in DOMAIN cells)
      /\ \A r \in Reqs : request[r].state # "none" => request[r].cell \in DOMAIN cells
      /\ \A k \in DOMAIN cells : cells[k].refs \in Nat
      /\ c # 0 => cells[c].refs > 0
  BY CellEntry, CellReferenced DEF CellTypes
<1>1. /\ cells' \in Seq(Cell) /\ Len(cells') = Len(cells) /\ DOMAIN cells' = DOMAIN cells
      /\ \A k \in DOMAIN cells :
            /\ cells'[k].status = cells[k].status
            /\ cells'[k].refs = cells[k].refs - FileRef(k)
            /\ cells'[k].queue = cells[k].queue \/ cells'[k].queue = <<>>
  <2>1. CASE c = 0
    <3>1. \A k \in DOMAIN cells : FileRef(k) = 0
      BY <1>e, <2>1 DEF FileRef
    <3> QED
      BY <1>e, <2>1, <3>1
  <2>2. CASE c # 0
    BY <1>e, <2>2, DecrefFact DEF FileRef
  <2> QED
    BY <2>1, <2>2
<1>2. CellTypes' /\ CallTypes'
  <2>1. 0 \in 0 .. Len(cells)
    BY <1>e, LenProperties
  <2> QED
    BY <1>1, <2>1 DEF CellTypes, CallTypes
<1>3. StatusInv'
  BY <1>1 DEF StatusInv
<1>4. RefsInv'
  <2> SUFFICES ASSUME NEW k \in DOMAIN cells
               PROVE  IsFiniteSet(Holders(k)) /\ cells'[k].refs = Cardinality(Holders(k)) + 0
    <3>1. \A k \in DOMAIN cells : FileRef(k)' = 0
      BY <1>e DEF FileRef
    <3>2. \A k : Holders(k)' = Holders(k)
      BY DEF Holders
    <3> QED
      BY <1>1, <3>1, <3>2 DEF RefsInv
  <2>1. IsFiniteSet(Holders(k)) /\ cells[k].refs = Cardinality(Holders(k)) + FileRef(k)
    BY DEF RefsInv
  <2>2. Cardinality(Holders(k)) \in Nat /\ FileRef(k) \in Nat
    BY <2>1, FS_CardinalityType DEF FileRef
  <2> QED
    BY <1>1, <2>1, <2>2
<1>5. QueueInv'
  <2>1. \A k \in DOMAIN cells : /\ Distinct(cells'[k].queue)
                                /\ \A r \in Reqs : Queued(cells'[k].queue, r) => Queued(cells[k].queue, r)
    BY <1>1 DEF QueueInv, Distinct, Queued
  <2>2. \A r \in Reqs : ~Queued(notify_list, r)
    BY DEF Queued
  <2> QED
    BY <1>1, <2>1, <2>2 DEF QueueInv
<1>6. ToldInv'
  <2>1. \A r \in Reqs : request[r].state = "notified" => request[r].cell \in DOMAIN cells
    BY <1>e
  <2>2. \A k \in DOMAIN cells : k # 0
    BY <1>e
  <2>3. \A r \in Reqs : ~Queued(notify_list, r)
    BY DEF Queued
  <2> QED
    BY <1>1, <2>1, <2>2, <2>3 DEF ToldInv
<1> QED
  BY <1>2, <1>3, <1>4, <1>5, <1>6

\* Every step keeps the invariant.
LEMMA RequestsStep == RInv /\ [Next]_vars => RInv'
<1> SUFFICES ASSUME RInv, [Next]_vars PROVE RInv'
  OBVIOUS
<1>1. ASSUME NEW q \in Reqs, RequestNotify(q) PROVE RInv'
  BY <1>1, NotifyPendingStep, NotifyDoneStep
<1>2. ASSUME NEW q \in Reqs, RequestFree(q) PROVE RInv'
  BY <1>2, FreeStep
<1>3. ASSUME NEW q \in Reqs \cup {None},
             \/ \E d \in Dsets : DatasetWrite(d, q)
             \/ \E a \in Attrs : AttrWrite(a, q) \/ (AttrWriteStale(a, q) /\ UNCHANGED step_state)
      PROVE  RInv'
  <2>1. /\ step_state = "IN_STEP" /\ q \in FreshReqs /\ MakeRequest(q)
        /\ UNCHANGED <<told, notify_list, outcome, step_state>>
    BY <1>3 DEF DatasetWrite, AttrWrite, AttrWriteStale, resolveVars
  <2>2. CASE q = None
    <3>1. UNCHANGED <<cells, current_completion, request, verdict>>
      BY <2>1, <2>2 DEF MakeRequest, requestVars
    <3>2. CellTypes' /\ CallTypes' /\ StatusInv'
      BY <2>1, <3>1 DEF RInv, CellTypes, CallTypes, StatusInv
    <3>3. RefsInv'
      BY <3>1 DEF RInv, RefsInv, Holders, FileRef
    <3>4. QueueInv' /\ ToldInv'
      BY <2>1, <3>1 DEF RInv, QueueInv, ToldInv
    <3> QED
      BY <3>2, <3>3, <3>4 DEF RInv
  <2>3. CASE q # None
    <3>1. q \in Reqs /\ request[q].state = "none"
      BY <2>1, <2>3 DEF FreshReqs
    <3> QED
      BY <2>1, <2>3, <3>1, MakeStep
  <2> QED
    BY <2>2, <2>3
<1>4. CASE EndStep
  BY <1>4, ResolvedStep DEF EndStep
<1>5. ASSUME NEW k \in 0 .. MaxEntries, EndStepFails(k) PROVE RInv'
  BY <1>5, ResolvedStep DEF EndStepFails
<1>6. CASE InvokeNotify
  BY <1>6, InvokeStep
<1>7. CASE EndStepReturns
  <2>1. 0 \in Status
    BY DEF Status
  <2> QED
    BY <1>7, <2>1, DropStepCell DEF EndStepReturns, historyVars
<1>8. CASE FileClose
  <2>1. notify_list = <<>> /\ outcome \in Status
    BY <1>8 DEF FileClose, RInv, StatusInv, CallTypes
  <2> QED
    BY <1>8, <2>1, DropStepCell DEF FileClose, historyVars, resolveVars
<1>9. CASE \/ BeginStep \/ Done \/ UNCHANGED vars
           \/ \E a \in Attrs, q \in Reqs \cup {None} : AttrWriteStale(a, q) /\ step_state' = "crashed"
           \/ \E a \in Attrs : AttrCreate(a) \/ AttrClose(a)
           \/ \E a \in GroupAttrs : AttrCreateLive(a) \/ AttrDelete(a)
           \/ \E l \in Links, d \in Dsets, t \in {"h", "s"} : LinkCreate(l, d, t)
  <2>1. /\ UNCHANGED <<cells, current_completion, request, verdict, told, notify_list, outcome>>
        /\ \/ UNCHANGED step_state
           \/ step_state = "NOT_IN_STEP" /\ step_state' = "IN_STEP"
           \/ step_state = "IN_STEP" /\ step_state' = "crashed"
    BY <1>9 DEF AttrWriteStale, BeginStep, Done, AttrCreate, AttrClose, AttrCreateLive, AttrDelete, LinkCreate,
       vars, requestVars, resolveVars, historyVars
  <2>2. CellTypes' /\ QueueInv' /\ ToldInv'
    BY <2>1 DEF RInv, CellTypes, QueueInv, ToldInv
  <2>4. RefsInv'
    BY <2>1 DEF RInv, RefsInv, Holders, FileRef
  <2>3. CallTypes' /\ StatusInv'
    BY <2>1 DEF RInv, CallTypes, StatusInv
  <2> QED
    BY <2>2, <2>3, <2>4 DEF RInv
<1>10. \A a \in Attrs, q \in Reqs \cup {None} :
          AttrWriteStale(a, q) => UNCHANGED step_state \/ step_state' = "crashed"
  BY DEF AttrWriteStale
<1> QED
  BY <1>1, <1>2, <1>3, <1>4, <1>5, <1>6, <1>7, <1>8, <1>9, <1>10 DEF Next

\* The invariant holds of every run.
LEMMA RequestsInductive == Spec => []RInv
<1>1. Init => RInv
  <2> SUFFICES ASSUME Init PROVE RInv
    OBVIOUS
  <2>1. cells = <<>> /\ DOMAIN cells = {} /\ Len(cells) = 0 /\ cells \in Seq(Cell)
        /\ verdict = <<>> /\ verdict \in Seq(Status) /\ notify_list \in Seq(Reqs)
        /\ DOMAIN notify_list = {} /\ Len(verdict) = 0
    BY DEF Init
  <2>2. \A q \in Reqs : request[q].state = "none" /\ told[q] = <<>>
    BY DEF Init
  <2>3. CellTypes /\ CallTypes
    BY <2>1 DEF Init, CellTypes, CallTypes, RequestStates, Status
  <2> QED
    BY <2>1, <2>2, <2>3 DEF Init, RInv, StatusInv, RefsInv, QueueInv, ToldInv, Distinct, Queued
<1> QED
  BY <1>1, RequestsStep, PTL DEF Spec

\* A completion cell lives exactly as long as the file or a held request
\* refers to it.
THEOREM CellsAreAccounted == Spec => []CellsAccounted
<1>1. RInv => CellsAccounted
  <2> SUFFICES ASSUME RInv, NEW c \in DOMAIN cells
               PROVE  cells[c].refs > 0 <=>
                        \/ c = current_completion
                        \/ \E q \in Reqs : request[q].state = "held" /\ request[q].cell = c
    BY DEF CellsAccounted
  <2>1. IsFiniteSet(Holders(c)) /\ cells[c].refs = Cardinality(Holders(c)) + FileRef(c)
    BY DEF RInv, RefsInv
  <2>2. Cardinality(Holders(c)) \in Nat /\ (Cardinality(Holders(c)) = 0 <=> Holders(c) = {})
    BY <2>1, FS_CardinalityType, FS_EmptySet
  <2>3. Holders(c) # {} <=> \E q \in Reqs : request[q].state = "held" /\ request[q].cell = c
    BY DEF Holders
  <2> QED
    BY <2>1, <2>2, <2>3 DEF FileRef
<1> QED
  BY <1>1, RequestsInductive, PTL

\* A callback is called once, with how its step ended, whenever it was given
\* to request_notify.
THEOREM CallbacksOnce == Spec => []CalledBackOnce
<1>1. RInv => CalledBackOnce
  <2> SUFFICES ASSUME RInv, NEW q \in Reqs, request[q].state = "notified"
               PROVE  LET c == request[q].cell IN
                      /\ told[q] \in {<<>>, <<verdict[c]>>}
                      /\ verdict[c] # 0 /\ step_state # "COMMITTING" => told[q] # <<>>
                      /\ verdict[c] = 0 => told[q] = <<>>
    BY DEF CalledBackOnce
  <2> DEFINE c == request[q].cell
  <2>1. c \in DOMAIN cells /\ verdict[c] = cells[c].status
    BY CellEntry DEF RInv, StatusInv
  <2>2. step_state # "COMMITTING" => ~Queued(notify_list, q)
    BY DEF RInv, StatusInv, Queued
  <2>3. <<verdict[c]>> # <<>>
    OBVIOUS
  <2> QED
    BY <2>1, <2>2, <2>3 DEF RInv, ToldInv
<1> QED
  BY <1>1, RequestsInductive, PTL

-----------------------------------------------------------------------------
(* What end_step folds into the entries of the step.                       *)

\* No attribute has two entries: the replay refuses the second.
OnceEach(es) ==
    ~\E i, j \in DOMAIN es : /\ i < j /\ es[i].kind = "attr" /\ es[j].kind = "attr"
                             /\ es[i].path = es[j].path
LinkTarget == [target : Dsets, type : {"h", "s"}]

\* A sequence joined with a listing of n further elements.
LEMMA JoinFact ==
    ASSUME NEW S, NEW es \in Seq(S), NEW n \in Nat, NEW g \in [1 .. n -> S]
    PROVE  /\ es \o g \in Seq(S) /\ Len(es \o g) = Len(es) + n
           /\ Len(es) \in Nat /\ DOMAIN es = 1 .. Len(es)
           /\ DOMAIN (es \o g) = 1 .. Len(es) + n
           /\ \A i \in 1 .. Len(es) : (es \o g)[i] = es[i]
           /\ \A i \in 1 .. n : (es \o g)[Len(es) + i] = g[i]
<1>1. g \in Seq(S) /\ Len(g) = n
  BY SeqDef, LenProperties
<1>2. Len(es) \in Nat /\ DOMAIN es = 1 .. Len(es)
  BY LenProperties
<1>3. /\ es \o g \in Seq(S) /\ Len(es \o g) = Len(es) + n
      /\ \A i \in 1 .. Len(es) + n : (es \o g)[i] = IF i <= Len(es) THEN es[i] ELSE g[i - Len(es)]
  BY <1>1, ConcatProperties
<1>4. DOMAIN (es \o g) = 1 .. Len(es) + n
  BY <1>3, LenProperties
<1>5. ASSUME NEW i \in 1 .. n PROVE (es \o g)[Len(es) + i] = g[i]
  <2>1. Len(es) + i \in 1 .. Len(es) + n /\ ~(Len(es) + i <= Len(es)) /\ (Len(es) + i) - Len(es) = i
    BY <1>2
  <2> QED
    BY <1>3, <2>1
<1> QED
  BY <1>2, <1>3, <1>4, <1>5

\* Nth lists a finite set of positions, each once.
LEMMA NthLists ==
    ASSUME NEW S, S \subseteq Nat, IsFiniteSet(S)
    PROVE  /\ Cardinality(S) \in Nat
           /\ \A i \in 1 .. Cardinality(S) : Nth(S, i) \in S
           /\ \A i, j \in 1 .. Cardinality(S) : Nth(S, i) = Nth(S, j) => i = j
           /\ \A x \in S : \E i \in 1 .. Cardinality(S) : Nth(S, i) = x
<1> DEFINE c == Cardinality(S)
           Upto(x) == Cardinality({y \in S : y <= x})
<1>1. c \in Nat /\ \A i \in 1 .. c : \E x \in S : Upto(x) = i
  BY NumbersEnumerated
<1>2. \A x \in S : Upto(x) \in 1 .. c
  BY NumbersEnumerated
<1>3. \A x, y \in S : x < y => Upto(x) < Upto(y)
  BY NumbersEnumerated
<1>4. \A i : Nth(S, i) = CHOOSE x \in S : Upto(x) = i
  BY DEF Nth
<1> HIDE DEF c, Upto
<1>5. \A i \in 1 .. c : Nth(S, i) \in S /\ Upto(Nth(S, i)) = i
  BY <1>1, <1>4, Zenon
<1>6. ASSUME NEW x \in S PROVE \E i \in 1 .. c : Nth(S, i) = x
  <2> DEFINE i == Upto(x)
             y == Nth(S, i)
  <2>1. i \in 1 .. c /\ y \in S /\ Upto(y) = i
    BY <1>2, <1>5
  <2>2. x \in Nat /\ y \in Nat
    BY <2>1
  <2> HIDE DEF y
  <2>3. ~(x < y) /\ ~(y < x)
    <3>1. Upto(x) \in Nat /\ Upto(y) = Upto(x)
      BY <1>1, <2>1
    <3>2. x < y => Upto(x) < Upto(y)
      BY <1>3, <2>1
    <3>3. y < x => Upto(y) < Upto(x)
      BY <1>3, <2>1
    <3> QED
      BY <3>1, <3>2, <3>3
  <2> QED
    BY <2>1, <2>2, <2>3 DEF y
<1> QED
  BY <1>1, <1>5, <1>6 DEF c

\* Listing lists a finite set.
LEMMA ListingFact ==
    ASSUME NEW S, IsFiniteSet(S)
    PROVE  /\ Cardinality(S) \in Nat
           /\ Listing(S) \in [1 .. Cardinality(S) -> S]
           /\ \A x \in S : \E i \in 1 .. Cardinality(S) : Listing(S)[i] = x
<1>1. Cardinality(S) \in Nat /\ ExistsBijection(1 .. Cardinality(S), S)
  BY FS_CardinalityType
<1>2. \E f \in [1 .. Cardinality(S) -> S] : \A x \in S : \E i \in DOMAIN f : f[i] = x
  <2>1. PICK f : f \in Bijection(1 .. Cardinality(S), S)
    BY <1>1 DEF ExistsBijection
  <2> QED
    BY <2>1 DEF Bijection, Injection, Surjection
<1>3. /\ Listing(S) \in [1 .. Cardinality(S) -> S]
      /\ \A x \in S : \E i \in DOMAIN Listing(S) : Listing(S)[i] = x
  BY <1>2, Zenon DEF Listing
<1> QED
  BY <1>1, <1>3

\* fold_group_attrs keeps the step's entries, adds attributes only, each
\* once, and leaves out none that is noted and still in the live file.
LEMMA FoldGroupAttrsFact ==
    ASSUME NEW es \in Seq(Entry), group_attrs \in Seq(GroupAttrs)
    PROVE  LET fa == FoldGroupAttrs(es) IN
           /\ fa \in Seq(Entry) /\ Len(es) \in Nat /\ Len(fa) \in Nat /\ Len(es) <= Len(fa)
           /\ \A i \in 1 .. Len(es) : fa[i] = es[i]
           /\ \A i \in 1 .. Len(fa) : i > Len(es) => fa[i].kind = "attr"
           /\ \A i \in DOMAIN group_attrs :
                 group_attrs[i] \in live => Has(fa, "attr", group_attrs[i])
           /\ OnceEach(es) /\ Distinct(group_attrs) => OnceEach(fa)
<1> DEFINE fa == FoldGroupAttrs(es)
           W == Wanted(es)
           c == Cardinality(W)
           g == [i \in 1 .. c |-> AttrEntry(group_attrs[Nth(W, i)])]
<1>1. DOMAIN group_attrs = 1 .. Len(group_attrs) /\ Len(group_attrs) \in Nat
  BY LenProperties
<1>2. W \subseteq 1 .. Len(group_attrs) /\ W \subseteq Nat
  BY <1>1 DEF Wanted
<1>3. IsFiniteSet(W)
  <2>1. IsFiniteSet(1 .. Len(group_attrs))
    BY <1>1, FS_Interval
  <2> HIDE DEF W
  <2> QED
    BY <1>2, <2>1, FS_Subset
<1>4. /\ c \in Nat
      /\ \A i \in 1 .. c : Nth(W, i) \in W
      /\ \A i, j \in 1 .. c : Nth(W, i) = Nth(W, j) => i = j
      /\ \A x \in W : \E i \in 1 .. c : Nth(W, i) = x
  BY <1>2, <1>3, NthLists
<1>5. \A x \in W : group_attrs[x] \in GroupAttrs /\ group_attrs[x] \in live
                   /\ ~Has(es, "attr", group_attrs[x])
  BY <1>1, <1>2, ElementOfSeq DEF Wanted
<1>6. fa = es \o g
  BY DEF FoldGroupAttrs
<1>w. \A x \in DOMAIN group_attrs :
         x \in W <=> group_attrs[x] \in live /\ ~Has(es, "attr", group_attrs[x])
  BY DEF Wanted
<1> HIDE DEF W, c
<1>7. \A i \in 1 .. c : /\ g[i] = [kind |-> "attr", path |-> group_attrs[Nth(W, i)]]
                        /\ g[i].kind = "attr" /\ g[i].path = group_attrs[Nth(W, i)]
  BY DEF AttrEntry
<1>8. g \in [1 .. c -> Entry]
  <2>1. ASSUME NEW i \in 1 .. c PROVE g[i] \in Entry
    <3>1. group_attrs[Nth(W, i)] \in Attrs
      BY <1>4, <1>5 DEF Attrs
    <3>2. g[i] = [kind |-> "attr", path |-> group_attrs[Nth(W, i)]]
      BY <1>7
    <3> HIDE DEF g
    <3> QED
      BY <3>1, <3>2 DEF Entry
  <2>2. g = [i \in 1 .. c |-> g[i]]
    OBVIOUS
  <2> HIDE DEF g
  <2> QED
    BY <2>1, <2>2
<1> HIDE DEF g, fa
<1>9. /\ fa \in Seq(Entry) /\ Len(fa) = Len(es) + c
      /\ Len(es) \in Nat /\ DOMAIN es = 1 .. Len(es)
      /\ DOMAIN fa = 1 .. Len(es) + c
      /\ \A i \in 1 .. Len(es) : fa[i] = es[i]
      /\ \A i \in 1 .. c : fa[Len(es) + i] = g[i]
  BY <1>4, <1>6, <1>8, JoinFact
<1>10. \A i \in 1 .. Len(fa) : i > Len(es) => i - Len(es) \in 1 .. c /\ fa[i] = g[i - Len(es)]
  <2> SUFFICES ASSUME NEW i \in 1 .. Len(fa), i > Len(es)
               PROVE  i - Len(es) \in 1 .. c /\ fa[i] = g[i - Len(es)]
    OBVIOUS
  <2>1. i - Len(es) \in 1 .. c /\ Len(es) + (i - Len(es)) = i
    BY <1>4, <1>9
  <2> QED
    BY <1>9, <2>1
<1>11. ASSUME NEW x \in DOMAIN group_attrs, group_attrs[x] \in live
       PROVE  Has(fa, "attr", group_attrs[x])
  <2>1. CASE Has(es, "attr", group_attrs[x])
    <3>1. PICK i \in 1 .. Len(es) : es[i].kind = "attr" /\ es[i].path = group_attrs[x]
      BY <1>9, <2>1 DEF Has
    <3>2. i \in DOMAIN fa /\ fa[i] = es[i]
      BY <1>4, <1>9
    <3> QED
      BY <3>1, <3>2 DEF Has
  <2>2. CASE ~Has(es, "attr", group_attrs[x])
    <3>1. x \in W
      BY <1>11, <1>w, <2>2
    <3>2. PICK i \in 1 .. c : Nth(W, i) = x
      BY <1>4, <3>1
    <3>3. Len(es) + i \in DOMAIN fa /\ fa[Len(es) + i] = g[i]
      BY <1>4, <1>9
    <3>4. g[i].kind = "attr" /\ g[i].path = group_attrs[x]
      BY <1>7, <3>2
    <3> QED
      BY <3>3, <3>4 DEF Has
  <2> QED
    BY <2>1, <2>2
<1>12. ASSUME OnceEach(es), Distinct(group_attrs) PROVE OnceEach(fa)
  <2> SUFFICES ASSUME NEW i \in DOMAIN fa, NEW j \in DOMAIN fa, i < j,
                      fa[i].kind = "attr", fa[j].kind = "attr", fa[i].path = fa[j].path
               PROVE  FALSE
    BY DEF OnceEach
  <2>1. i \in 1 .. Len(fa) /\ j \in 1 .. Len(fa) /\ Len(fa) \in Nat
    BY <1>4, <1>9
  <2>2. CASE j <= Len(es)
    <3>1. i \in DOMAIN es /\ j \in DOMAIN es /\ fa[i] = es[i] /\ fa[j] = es[j]
      BY <1>9, <2>1, <2>2
    <3> QED
      BY <1>12, <3>1 DEF OnceEach
  <2>3. CASE j > Len(es) /\ i <= Len(es)
    <3>1. i \in DOMAIN es /\ fa[i] = es[i]
      BY <1>9, <2>1, <2>3
    <3>2. j - Len(es) \in 1 .. c /\ fa[j] = g[j - Len(es)]
      BY <1>10, <2>1, <2>3
    <3>3. fa[j].path = group_attrs[Nth(W, j - Len(es))] /\ Nth(W, j - Len(es)) \in W
      BY <1>4, <1>7, <3>2
    <3>4. ~Has(es, "attr", fa[j].path)
      BY <1>5, <3>3
    <3> QED
      BY <3>1, <3>4 DEF Has
  <2>4. CASE i > Len(es)
    <3> DEFINE a == i - Len(es)
               b == j - Len(es)
    <3>1. j > Len(es)
      BY <1>9, <2>1, <2>4
    <3>2. a \in 1 .. c /\ b \in 1 .. c /\ fa[i] = g[a] /\ fa[j] = g[b]
      BY <1>10, <2>1, <2>4, <3>1
    <3>3. a # b
      BY <1>9, <2>1
    <3>4. group_attrs[Nth(W, a)] = group_attrs[Nth(W, b)]
      BY <1>7, <3>2
    <3>5. Nth(W, a) \in DOMAIN group_attrs /\ Nth(W, b) \in DOMAIN group_attrs
      BY <1>1, <1>2, <1>4, <3>2
    <3>6. Nth(W, a) = Nth(W, b)
      BY <1>12, <3>4, <3>5 DEF Distinct
    <3> QED
      BY <1>4, <3>2, <3>3, <3>6
  <2> QED
    BY <1>9, <2>1, <2>2, <2>3, <2>4
<1>13. \A i \in 1 .. Len(fa) : i > Len(es) => fa[i].kind = "attr"
  BY <1>7, <1>10
<1>14. Len(fa) \in Nat /\ Len(es) <= Len(fa)
  BY <1>4, <1>9
<1> QED
  BY <1>9, <1>11, <1>12, <1>13, <1>14 DEF fa

\* fold_links keeps the step's entries, adds links only, to datasets that the
\* step writes, and leaves out none of those to repeat.
LEMMA FoldLinksFact ==
    ASSUME NEW es \in Seq(Entry), links \in [Links -> LinkTarget \cup {None}]
    PROVE  LET fl == FoldLinks(es) IN
           /\ fl \in Seq(Entry) /\ Len(es) \in Nat /\ Len(fl) \in Nat /\ Len(es) <= Len(fl)
           /\ \A i \in 1 .. Len(es) : fl[i] = es[i]
           /\ \A i \in 1 .. Len(fl) : i > Len(es) => fl[i].kind = "link"
           /\ \A l \in Again(es) : \E i \in 1 .. Len(fl) : fl[i] = LinkEntry(l)
<1> DEFINE fl == FoldLinks(es)
           A == Again(es)
           c == Cardinality(A)
           g == [i \in 1 .. c |-> LinkEntry(Listing(A)[i])]
<1>1. A \subseteq Links /\ IsFiniteSet(Links)
  BY CaptureAssumption DEF Again
<1>2. IsFiniteSet(A)
  BY <1>1, FS_Subset
<1>3. /\ c \in Nat
      /\ Listing(A) \in [1 .. c -> A]
      /\ \A x \in A : \E i \in 1 .. c : Listing(A)[i] = x
  BY <1>2, ListingFact
<1>4. fl = es \o g
  BY DEF FoldLinks
<1>5. \A l \in A : links[l] \in LinkTarget
  BY <1>1 DEF Again
<1> HIDE DEF A, c
<1>6. \A l \in A : LinkEntry(l) \in Entry /\ LinkEntry(l).kind = "link"
  BY <1>1, <1>5 DEF LinkEntry, LinkTarget, Entry
<1>7. \A i \in 1 .. c : g[i] = LinkEntry(Listing(A)[i]) /\ Listing(A)[i] \in A
  BY <1>3
<1>8. g \in [1 .. c -> Entry]
  <2>1. \A i \in 1 .. c : g[i] \in Entry
    BY <1>6, <1>7
  <2>2. g = [i \in 1 .. c |-> g[i]]
    OBVIOUS
  <2> HIDE DEF g
  <2> QED
    BY <2>1, <2>2
<1> HIDE DEF g, fl
<1>9. /\ fl \in Seq(Entry) /\ Len(fl) = Len(es) + c
      /\ Len(es) \in Nat
      /\ \A i \in 1 .. Len(es) : fl[i] = es[i]
      /\ \A i \in 1 .. c : fl[Len(es) + i] = g[i]
  BY <1>3, <1>4, <1>8, JoinFact
<1>10. \A i \in 1 .. Len(fl) : i > Len(es) => fl[i].kind = "link"
  <2> SUFFICES ASSUME NEW i \in 1 .. Len(fl), i > Len(es) PROVE fl[i].kind = "link"
    OBVIOUS
  <2>1. i - Len(es) \in 1 .. c /\ Len(es) + (i - Len(es)) = i
    BY <1>3, <1>9
  <2>2. fl[i] = g[i - Len(es)]
    BY <1>9, <2>1
  <2> QED
    BY <1>6, <1>7, <2>1, <2>2
<1>11. ASSUME NEW l \in A PROVE \E i \in 1 .. Len(fl) : fl[i] = LinkEntry(l)
  <2>1. PICK i \in 1 .. c : Listing(A)[i] = l
    BY <1>3
  <2>2. Len(es) + i \in 1 .. Len(fl)
    BY <1>3, <1>9
  <2>3. fl[Len(es) + i] = g[i] /\ g[i] = LinkEntry(l)
    BY <1>7, <1>9, <2>1
  <2> QED
    BY <2>2, <2>3
<1>12. Len(fl) \in Nat /\ Len(es) <= Len(fl)
  BY <1>3, <1>9
<1> QED
  BY <1>9, <1>10, <1>11, <1>12 DEF fl, A

-----------------------------------------------------------------------------
(* Entries, links and the stream: the part of the inductive invariant that  *)
(* holds of every run.                                                      *)

CaptureTypes ==
    /\ pending \in Seq(Entry)
    /\ group_attrs \in Seq(GroupAttrs)
    /\ live \subseteq GroupAttrs
    /\ attr_handle \in [Attrs -> {"closed", "placeholder", "live"}]
StreamTypes ==
    /\ physical_step \in Steps
    /\ links \in [Links -> LinkTarget \cup {None}]
    /\ stream \in [Steps -> Content]

\* Only committed steps have contents; end_step counts the step after it has
\* called back.
AheadInv ==
    /\ step_state \in {"IN_STEP", "COMMITTING"} => physical_step < MaxSteps
    /\ \A n \in Steps :
          \/ n > physical_step
          \/ n = physical_step /\ ~(step_state = "COMMITTING" /\ outcome = 1)
          => stream[n] = Empty

\* No attribute is noted twice.
OnceInv == Distinct(group_attrs)

GInv == CaptureTypes /\ StreamTypes /\ AheadInv /\ OnceInv /\ GroupAttrsArrive

\* What end_step replays: the entries of the step, and what the two folds add.
LEMMA FoldedFact ==
    ASSUME CaptureTypes, StreamTypes
    PROVE  /\ Folded \in Seq(Entry) /\ DOMAIN Folded = 1 .. Len(Folded)
           /\ DOMAIN pending = 1 .. Len(pending)
           /\ Len(pending) \in Nat /\ Len(Folded) \in Nat /\ Len(pending) <= Len(Folded)
           /\ \A i \in 1 .. Len(pending) : Folded[i] = pending[i]
           /\ \A d : Has(Folded, "create", d) <=> Has(pending, "create", d)
           /\ \A i \in DOMAIN group_attrs :
                 group_attrs[i] \in live => Has(Folded, "attr", group_attrs[i])
           /\ OnceInv /\ OnceEach(pending) => OnceEach(Folded)
           /\ \A l \in Links : links[l] # None /\ Has(pending, "create", links[l].target) =>
                 \/ Has(pending, "link", l)
                 \/ \E i \in 1 .. Len(Folded) : Folded[i] = LinkEntry(l)
<1> DEFINE fa == FoldGroupAttrs(pending)
           fl == FoldLinks(fa)
<1>1. /\ fa \in Seq(Entry) /\ Len(pending) \in Nat /\ Len(fa) \in Nat /\ Len(pending) <= Len(fa)
      /\ \A i \in 1 .. Len(pending) : fa[i] = pending[i]
      /\ \A i \in 1 .. Len(fa) : i > Len(pending) => fa[i].kind = "attr"
      /\ \A i \in DOMAIN group_attrs :
            group_attrs[i] \in live => Has(fa, "attr", group_attrs[i])
      /\ OnceEach(pending) /\ Distinct(group_attrs) => OnceEach(fa)
  BY FoldGroupAttrsFact DEF CaptureTypes
<1> HIDE DEF fa
<1>2. /\ fl \in Seq(Entry) /\ Len(fl) \in Nat /\ Len(fa) <= Len(fl)
      /\ \A i \in 1 .. Len(fa) : fl[i] = fa[i]
      /\ \A i \in 1 .. Len(fl) : i > Len(fa) => fl[i].kind = "link"
      /\ \A l \in Again(fa) : \E i \in 1 .. Len(fl) : fl[i] = LinkEntry(l)
  BY <1>1, FoldLinksFact DEF StreamTypes
<1>3. Folded = fl
  BY DEF Folded, fa
<1> HIDE DEF fl
<1>4. /\ DOMAIN pending = 1 .. Len(pending) /\ DOMAIN fa = 1 .. Len(fa)
      /\ DOMAIN fl = 1 .. Len(fl)
  BY <1>1, <1>2, LenProperties DEF CaptureTypes
<1>5. \A i \in 1 .. Len(pending) : fl[i] = pending[i]
  BY <1>1, <1>2
<1>6. ASSUME NEW k \in {"create", "link"}, NEW p PROVE Has(fa, k, p) <=> Has(pending, k, p)
  <2>1. ASSUME NEW i \in 1 .. Len(fa), fa[i].kind = k PROVE i \in 1 .. Len(pending) /\ fa[i] = pending[i]
    BY <1>1, <2>1
  <2>2. \A i \in 1 .. Len(pending) : i \in 1 .. Len(fa) /\ fa[i] = pending[i]
    BY <1>1
  <2> QED
    BY <1>4, <2>1, <2>2 DEF Has
<1>7. ASSUME NEW k \in {"create", "attr"}, NEW p PROVE Has(fl, k, p) <=> Has(fa, k, p)
  <2>1. ASSUME NEW i \in 1 .. Len(fl), fl[i].kind = k PROVE i \in 1 .. Len(fa) /\ fl[i] = fa[i]
    BY <1>1, <1>2, <2>1
  <2>2. \A i \in 1 .. Len(fa) : i \in 1 .. Len(fl) /\ fl[i] = fa[i]
    BY <1>1, <1>2
  <2> QED
    BY <1>4, <2>1, <2>2 DEF Has
<1>8. ASSUME OnceEach(fa) PROVE OnceEach(fl)
  <2> SUFFICES ASSUME NEW i \in 1 .. Len(fl), NEW j \in 1 .. Len(fl), i < j,
                      fl[i].kind = "attr", fl[j].kind = "attr", fl[i].path = fl[j].path
               PROVE  FALSE
    BY <1>4 DEF OnceEach
  <2>1. i \in 1 .. Len(fa) /\ j \in 1 .. Len(fa) /\ fl[i] = fa[i] /\ fl[j] = fa[j]
    BY <1>1, <1>2
  <2> QED
    BY <1>4, <1>8, <2>1 DEF OnceEach
<1>9. ASSUME NEW l \in Links, links[l] # None, Has(pending, "create", links[l].target),
             ~Has(pending, "link", l)
      PROVE  \E i \in 1 .. Len(fl) : fl[i] = LinkEntry(l)
  <2>1. l \in Again(fa)
    BY <1>6, <1>9 DEF Again
  <2> QED
    BY <1>2, <2>1
<1>10. Len(pending) <= Len(fl)
  BY <1>1, <1>2
<1>11. \A d : Has(fl, "create", d) <=> Has(pending, "create", d)
  BY <1>6, <1>7
<1>12. \A i \in DOMAIN group_attrs :
          group_attrs[i] \in live => Has(fl, "attr", group_attrs[i])
  BY <1>1, <1>7
<1>13. OnceInv /\ OnceEach(pending) => OnceEach(fl)
  BY <1>1, <1>8 DEF OnceInv
<1> QED
  BY <1>1, <1>2, <1>3, <1>4, <1>5, <1>9, <1>10, <1>11, <1>12, <1>13

\* path_index_resolve finds the newest of the steps that wrote the dataset.
LEMMA ResolveFact ==
    ASSUME NEW s, NEW d, NEW n \in -1 .. MaxSteps
    PROVE  /\ Resolve(s, d, n) \in {NoStep} \cup 0 .. n
           /\ \A k \in 0 .. n : d \in s[k].made =>
                 /\ Resolve(s, d, n) # NoStep
                 /\ k <= Resolve(s, d, n)
           /\ Resolve(s, d, n) # NoStep => d \in s[Resolve(s, d, n)].made
<1> DEFINE at == {k \in 0 .. n : d \in s[k].made}
<1>1. Resolve(s, d, n) = IF at = {} THEN NoStep ELSE Max(at)
  BY DEF Resolve
<1>2. MaxSteps \in Nat
  BY CaptureAssumption
<1>3. CASE at = {}
  BY <1>1, <1>3
<1>4. CASE at # {}
  <2>1. n \in Nat /\ at \subseteq 0 .. n
    BY <1>2, <1>4
  <2> HIDE DEF at
  <2>2. Max(at) \in at /\ \A y \in at : y <= Max(at)
    BY <1>4, <2>1, MaxBounded
  <2>a. Max(at) \in 0 .. n
    BY <2>1, <2>2
  <2>b. Max(at) # NoStep
    BY <2>1, <2>a DEF NoStep
  <2>3. Resolve(s, d, n) = Max(at) /\ Max(at) # NoStep
    BY <1>1, <1>4, <2>b
  <2> QED
    BY <2>2, <2>3 DEF at
<1> QED
  BY <1>3, <1>4

\* The link that a step makes under a name is the first that can be made; one
\* that could be made means that some is.
LEMMA MadeFact ==
    ASSUME NEW es \in Seq(Entry), NEW l, NEW n, NEW k \in 0 .. Len(es)
    PROVE  /\ MadeBy(es, l, n, k) # {} =>
                 /\ Min(MadeBy(es, l, n, k)) \in 1 .. k
                 /\ LinkMade(es, Min(MadeBy(es, l, n, k)), n)
                 /\ es[Min(MadeBy(es, l, n, k))].path = l
           /\ \A i \in 1 .. k : /\ es[i].kind = "link" /\ es[i].path = l
                                /\ es[i].type = "s" \/ LinkStep(es, i, n) # NoStep
                                => MadeBy(es, l, n, k) # {}
<1> DEFINE M == MadeBy(es, l, n, k)
<1>0. Len(es) \in Nat /\ k \in Nat
  BY LenProperties
<1>1. M = {i \in 1 .. k : LinkMade(es, i, n) /\ es[i].path = l}
  BY DEF MadeBy
<1>2. ASSUME M # {} PROVE Min(M) \in M
  <2>1. M \subseteq Nat
    BY <1>0, <1>1
  <2> HIDE DEF M
  <2> QED
    BY <1>2, <2>1, MinNat
<1>3. ASSUME NEW i \in 1 .. k, es[i].kind = "link", es[i].path = l,
             es[i].type = "s" \/ LinkStep(es, i, n) # NoStep
      PROVE  M # {}
  <2> DEFINE able(j) == es[j].type = "s" \/ LinkStep(es, j, n) # NoStep
             S == {j \in 1 .. k : es[j].kind = "link" /\ es[j].path = l /\ able(j)}
             m == Min(S)
  <2>1. S \subseteq Nat /\ i \in S
    BY <1>0, <1>3
  <2> HIDE DEF S
  <2>2. m \in S /\ \A y \in S : m <= y
    BY <2>1, MinNat
  <2> HIDE DEF m
  <2>3. m \in 1 .. k /\ es[m].kind = "link" /\ es[m].path = l /\ able(m)
    BY <2>2 DEF S
  <2>4. ASSUME NEW j \in 1 .. m - 1, es[j].kind = "link", es[j].path = es[m].path, able(j)
        PROVE  FALSE
    <3>1. j \in 1 .. k /\ ~(m <= j)
      BY <1>0, <2>3
    <3>2. j \in S
      BY <2>3, <2>4, <3>1 DEF S
    <3> QED
      BY <2>2, <3>1, <3>2
  <2>5. LinkMade(es, m, n)
    BY <2>3, <2>4 DEF LinkMade
  <2> QED
    BY <1>1, <2>3, <2>5
<1> HIDE DEF M
<1>4. M # {} => /\ Min(M) \in 1 .. k /\ LinkMade(es, Min(M), n) /\ es[Min(M)].path = l
  BY <1>1, <1>2
<1> QED
  BY <1>3, <1>4 DEF M

\* A link entry names a dataset and a kind of link.
LEMMA LinkEntryTypes ==
    ASSUME NEW es \in Seq(Entry), NEW i \in DOMAIN es, es[i].kind = "link"
    PROVE  es[i].path \in Links /\ es[i].target \in Dsets /\ es[i].type \in {"h", "s"}
<1>1. es[i] \in Entry
  BY ElementOfSeq, LenProperties
<1> QED
  BY <1>1 DEF Entry

\* A link leads to the step itself when the step writes the target, and
\* otherwise to the newest that did.
LEMMA LinkStepFact ==
    ASSUME NEW es \in Seq(Entry), NEW i \in DOMAIN es, NEW n \in Steps
    PROVE  /\ LinkStep(es, i, n) = IF Has(es, "create", es[i].target) THEN n
                                   ELSE Resolve(stream, es[i].target, n - 1)
           /\ LinkStep(es, i, n) \in {NoStep} \cup Steps
<1>0. MaxSteps \in Nat /\ n \in 0 .. MaxSteps /\ n - 1 \in -1 .. MaxSteps
  BY CaptureAssumption DEF Steps
<1>1. es[i].target \in Seen(es, i) <=> Has(es, "create", es[i].target)
  BY DEF Seen, Has
<1>2. LinkStep(es, i, n) = IF Has(es, "create", es[i].target) THEN n
                           ELSE Resolve(stream, es[i].target, n - 1)
  BY <1>1 DEF LinkStep
<1>3. Resolve(stream, es[i].target, n - 1) \in {NoStep} \cup 0 .. n - 1
  BY <1>0, ResolveFact
<1>4. 0 .. n - 1 \subseteq Steps
  BY <1>0 DEF Steps
<1> QED
  BY <1>2, <1>3, <1>4

\* links_note keeps the type of what it notes.
LEMMA LinksNotedType ==
    ASSUME StreamTypes, NEW es \in Seq(Entry), NEW n, NEW k \in 0 .. Len(es)
    PROVE  LinksNoted(es, n, k) \in [Links -> LinkTarget \cup {None}]
<1> DEFINE v(l) == IF MadeBy(es, l, n, k) = {} THEN links[l]
                   ELSE [target |-> es[Min(MadeBy(es, l, n, k))].target,
                         type |-> es[Min(MadeBy(es, l, n, k))].type]
<1>1. LinksNoted(es, n, k) = [l \in Links |-> v(l)]
  BY DEF LinksNoted
<1>2. ASSUME NEW l \in Links PROVE v(l) \in LinkTarget \cup {None}
  <2>1. CASE MadeBy(es, l, n, k) = {}
    BY <2>1 DEF StreamTypes
  <2>2. CASE MadeBy(es, l, n, k) # {}
    <3> DEFINE m == Min(MadeBy(es, l, n, k))
    <3>1. m \in 1 .. k /\ es[m].kind = "link"
      BY <2>2, MadeFact DEF LinkMade
    <3>2. m \in DOMAIN es
      BY <3>1, LenProperties
    <3>3. es[m].target \in Dsets /\ es[m].type \in {"h", "s"}
      BY <3>1, <3>2, LinkEntryTypes
    <3>4. v(l) = [target |-> es[m].target, type |-> es[m].type]
      BY <2>2
    <3> HIDE DEF m
    <3> QED
      BY <3>3, <3>4 DEF LinkTarget
  <2> QED
    BY <2>1, <2>2
<1> HIDE DEF v
<1> QED
  BY <1>1, <1>2

\* What a replay leaves in the stream.
LEMMA ReplayedType ==
    ASSUME NEW es \in Seq(Entry), NEW n \in Steps
    PROVE  Replayed(es, n) \in Content
<1> DEFINE m(l) == Min(MadeBy(es, l, n, Len(es)))
           ln(l) == IF MadeBy(es, l, n, Len(es)) = {} THEN None
                    ELSE [target |-> es[m(l)].target, step |-> LinkStep(es, m(l), n)]
           al(d) == IF Aliased(es, d, n) THEN Resolve(stream, d, n - 1) ELSE NoStep
           Lt == [target : Dsets, step : {NoStep} \cup Steps]
<1>0. /\ MaxSteps \in Nat /\ n \in 0 .. MaxSteps /\ n - 1 \in -1 .. MaxSteps
      /\ Len(es) \in 0 .. Len(es) /\ DOMAIN es = 1 .. Len(es)
  BY CaptureAssumption, LenProperties DEF Steps
<1>1. Replayed(es, n) = [made |-> {d \in Dsets : Has(es, "create", d)},
                         attr |-> {a \in Attrs : Has(es, "attr", a)},
                         link |-> [l \in Links |-> ln(l)],
                         alias |-> [d \in Dsets |-> al(d)]]
  BY DEF Replayed
<1>2. ASSUME NEW l \in Links PROVE ln(l) \in Lt \cup {None}
  <2>1. CASE MadeBy(es, l, n, Len(es)) = {}
    BY <2>1
  <2>2. CASE MadeBy(es, l, n, Len(es)) # {}
    <3>1. m(l) \in 1 .. Len(es) /\ es[m(l)].kind = "link"
      BY <1>0, <2>2, MadeFact DEF LinkMade
    <3>2. es[m(l)].target \in Dsets /\ LinkStep(es, m(l), n) \in {NoStep} \cup Steps
      BY <1>0, <3>1, LinkEntryTypes, LinkStepFact
    <3>3. ln(l) = [target |-> es[m(l)].target, step |-> LinkStep(es, m(l), n)]
      BY <2>2
    <3> HIDE DEF m
    <3> QED
      BY <3>2, <3>3
  <2> QED
    BY <2>1, <2>2
<1>3. ASSUME NEW d \in Dsets PROVE al(d) \in Steps \cup {NoStep}
  <2>1. Resolve(stream, d, n - 1) \in {NoStep} \cup 0 .. n - 1
    BY <1>0, ResolveFact
  <2>2. 0 .. n - 1 \subseteq Steps
    BY <1>0 DEF Steps
  <2> QED
    BY <2>1, <2>2
<1> HIDE DEF ln, al, Lt
<1>4. /\ [l \in Links |-> ln(l)] \in [Links -> Lt \cup {None}]
      /\ [d \in Dsets |-> al(d)] \in [Dsets -> Steps \cup {NoStep}]
  BY <1>2, <1>3
<1>5. Content = [made : SUBSET Dsets, attr : SUBSET Attrs, link : [Links -> Lt \cup {None}],
                 alias : [Dsets -> Steps \cup {NoStep}]]
  BY DEF Content, Lt
<1> QED
  BY <1>1, <1>4, <1>5

-----------------------------------------------------------------------------
(* Every operation keeps that part.                                        *)

\* A step that gets an entry, or none.
LEMMA EntryStep ==
    ASSUME GInv, NEW e \in Entry,
           pending' = Append(pending, e) \/ pending' = pending,
           attr_handle' \in [Attrs -> {"closed", "placeholder", "live"}],
           UNCHANGED <<step_state, live, group_attrs, streamVars, outcome, forgotten>>
    PROVE  GInv'
<1> USE DEF GInv
<1>1. pending' \in Seq(Entry)
  BY AppendProperties DEF CaptureTypes
<1>2. CaptureTypes' /\ OnceInv'
  BY <1>1 DEF CaptureTypes, OnceInv
<1>3. StreamTypes' /\ AheadInv' /\ GroupAttrsArrive'
  BY DEF StreamTypes, AheadInv, GroupAttrsArrive, streamVars
<1> QED
  BY <1>2, <1>3

\* A group attribute is noted once.
LEMMA NoteStep ==
    ASSUME GInv, NEW a \in GroupAttrs, AttrCreateLive(a)
    PROVE  GInv'
<1> USE DEF GInv
<1>1. /\ live' = live \cup {a} /\ group_attrs' = NoteGroupAttr(a)
      /\ UNCHANGED <<step_state, pending, attr_handle, physical_step, links, stream, outcome,
                     forgotten>>
  BY DEF AttrCreateLive, streamVars, resolveVars, historyVars
<1>2. /\ group_attrs' \in Seq(GroupAttrs) /\ Distinct(group_attrs')
      /\ \E i \in DOMAIN group_attrs' : group_attrs'[i] = a
      /\ \A i \in DOMAIN group_attrs : i \in DOMAIN group_attrs' /\ group_attrs'[i] = group_attrs[i]
  <2>1. CASE \E i \in DOMAIN group_attrs : group_attrs[i] = a
    BY <1>1, <2>1 DEF NoteGroupAttr, CaptureTypes, OnceInv
  <2>2. CASE ~\E i \in DOMAIN group_attrs : group_attrs[i] = a
    <3> DEFINE s == group_attrs
               t == Append(s, a)
    <3>0. s \in Seq(GroupAttrs) /\ Distinct(s)
      BY DEF CaptureTypes, OnceInv
    <3>1. /\ Len(s) \in Nat /\ DOMAIN s = 1 .. Len(s)
          /\ t \in Seq(GroupAttrs) /\ DOMAIN t = 1 .. Len(s) + 1
          /\ \A i \in 1 .. Len(s) : t[i] = s[i]
          /\ t[Len(s) + 1] = a
      BY <3>0, AppendProperties, LenProperties
    <3>2. group_attrs' = t
      BY <1>1, <2>2 DEF NoteGroupAttr
    <3>3. \A i \in 1 .. Len(s) : s[i] # a
      BY <2>2, <3>1
    <3> HIDE DEF s, t
    <3>4. Distinct(t)
      <4> SUFFICES ASSUME NEW i \in 1 .. Len(s) + 1, NEW j \in 1 .. Len(s) + 1, t[i] = t[j]
                   PROVE  i = j
        BY <3>1 DEF Distinct
      <4>1. CASE i \in 1 .. Len(s) /\ j \in 1 .. Len(s)
        BY <3>0, <3>1, <4>1 DEF Distinct
      <4>2. CASE i = Len(s) + 1 \/ j = Len(s) + 1
        BY <3>1, <3>3, <4>2
      <4> QED
        BY <3>1, <4>1, <4>2
    <3>5. Len(s) + 1 \in DOMAIN t
      BY <3>1
    <3>6. \A i \in DOMAIN s : i \in DOMAIN t /\ t[i] = s[i]
      BY <3>1
    <3> QED
      BY <3>1, <3>2, <3>4, <3>5, <3>6 DEF s
  <2> QED
    BY <2>1, <2>2
<1>3. CaptureTypes' /\ OnceInv'
  BY <1>1, <1>2 DEF CaptureTypes, OnceInv
<1>4. StreamTypes' /\ AheadInv'
  BY <1>1 DEF StreamTypes, AheadInv
<1>5. GroupAttrsArrive'
  BY <1>1, <1>2 DEF GroupAttrsArrive
<1> QED
  BY <1>3, <1>4, <1>5

\* A replay leaves each handle as it is, or wires it.
LEMMA WiredType ==
    ASSUME CaptureTypes, NEW k PROVE Wired(k) \in [Attrs -> {"closed", "placeholder", "live"}]
BY DEF Wired, CaptureTypes

\* end_step commits: what was noted is in the stream.
LEMMA CommitStep == ASSUME GInv, EndStep PROVE GInv'
<1> USE DEF GInv
<1> DEFINE n == physical_step
<1>1. /\ step_state = "IN_STEP" /\ step_state' = "COMMITTING" /\ outcome' = 1
      /\ stream' = [stream EXCEPT ![n] = Replayed(Folded, n)]
      /\ links' = LinksNoted(Folded, n, Len(Folded))
      /\ pending' = <<>> /\ group_attrs' = <<>>
      /\ attr_handle' = Wired(Len(pending))
      /\ UNCHANGED <<physical_step, live, forgotten>>
  BY DEF EndStep, Resolved
<1>2. /\ Folded \in Seq(Entry) /\ Len(Folded) \in 0 .. Len(Folded)
      /\ \A i \in DOMAIN group_attrs :
                 group_attrs[i] \in live => Has(Folded, "attr", group_attrs[i])
  BY FoldedFact, LenProperties
<1>3. n \in Steps /\ n \in 0 .. MaxSteps /\ MaxSteps \in Nat /\ n < MaxSteps
      /\ stream \in [Steps -> Content] /\ stream[n] = Empty
  BY <1>1, CaptureAssumption DEF StreamTypes, Steps, AheadInv
<1>4. Replayed(Folded, n) \in Content /\ links' \in [Links -> LinkTarget \cup {None}]
  BY <1>1, <1>2, <1>3, ReplayedType, LinksNotedType
<1>5. \A k \in Steps : stream'[k] = IF k = n THEN Replayed(Folded, n) ELSE stream[k]
  BY <1>1, <1>3
<1>6. StreamTypes'
  <2>1. stream' \in [Steps -> Content]
    BY <1>1, <1>3, <1>4
  <2> QED
    BY <1>1, <1>3, <1>4, <2>1 DEF StreamTypes
<1>7. AheadInv'
  BY <1>1, <1>3, <1>5 DEF AheadInv
<1>8. CaptureTypes' /\ OnceInv'
  <2>1. attr_handle' \in [Attrs -> {"closed", "placeholder", "live"}]
    BY <1>1, WiredType
  <2>2. pending' \in Seq(Entry) /\ group_attrs' \in Seq(GroupAttrs) /\ DOMAIN pending' = {}
        /\ DOMAIN group_attrs' = {}
    BY <1>1
  <2> QED
    BY <1>1, <2>1, <2>2 DEF CaptureTypes, OnceInv, Distinct
<1>9. GroupAttrsArrive'
  <2> SUFFICES ASSUME NEW a \in live
               PROVE  (\E k \in Steps : a \in stream'[k].attr) \/ a \in forgotten
    BY <1>1 DEF GroupAttrsArrive
  <2>1. CASE \E i \in DOMAIN group_attrs : group_attrs[i] = a
    <3>1. Has(Folded, "attr", a) /\ a \in Attrs
      BY <1>2, <2>1 DEF CaptureTypes, Attrs
    <3>2. a \in Replayed(Folded, n).attr
      BY <3>1 DEF Replayed
    <3> QED
      BY <1>3, <1>5, <3>2
  <2>2. ASSUME NEW k \in Steps, a \in stream[k].attr
        PROVE  a \in stream'[k].attr
    <3>1. k # n
      BY <1>3, <2>2 DEF Empty
    <3> QED
      BY <1>5, <2>2, <3>1
  <2> QED
    BY <1>1, <2>1, <2>2 DEF GroupAttrsArrive
<1> QED
  BY <1>6, <1>7, <1>8, <1>9

\* end_step fails: what was noted is forgotten, and nothing else.
LEMMA FailStep ==
    ASSUME GInv, NEW k \in 0 .. MaxEntries, EndStepFails(k) PROVE GInv'
<1> USE DEF GInv
<1>1. /\ step_state = "IN_STEP" /\ step_state' = "COMMITTING" /\ outcome' = -1
      /\ links' = LinksNoted(Folded, physical_step, k)
      /\ pending' = <<>> /\ group_attrs' = <<>>
      /\ forgotten' = forgotten \cup
           {a \in GroupAttrs : \E i \in DOMAIN group_attrs : group_attrs[i] = a}
      /\ attr_handle' = Wired(k)
      /\ UNCHANGED <<physical_step, live, stream>>
  BY DEF EndStepFails, Resolved
<1>2. Folded \in Seq(Entry) /\ k \in 0 .. Len(Folded)
  BY FoldedFact, CaptureAssumption DEF EndStepFails
<1>3. StreamTypes'
  BY <1>1, <1>2, LinksNotedType DEF StreamTypes
<1>4. AheadInv'
  BY <1>1 DEF AheadInv
<1>5. CaptureTypes' /\ OnceInv'
  <2>1. pending' \in Seq(Entry) /\ group_attrs' \in Seq(GroupAttrs) /\ DOMAIN pending' = {}
        /\ DOMAIN group_attrs' = {}
    BY <1>1
  <2> QED
    BY <1>1, <2>1, WiredType DEF CaptureTypes, OnceInv, Distinct
<1>6. GroupAttrsArrive'
  BY <1>1 DEF GroupAttrsArrive, CaptureTypes
<1> QED
  BY <1>3, <1>4, <1>5, <1>6

\* Every step keeps the invariant.
LEMMA CaptureStep == GInv /\ [Next]_vars => GInv'
<1> SUFFICES ASSUME GInv, [Next]_vars PROVE GInv'
  OBVIOUS
<1> DEFINE H == [Attrs -> {"closed", "placeholder", "live"}]
<1>0. attr_handle \in H
  BY DEF GInv, CaptureTypes
<1>1. CASE EndStep
  BY <1>1, CommitStep
<1>2. ASSUME NEW k \in 0 .. MaxEntries, EndStepFails(k) PROVE GInv'
  BY <1>2, FailStep
<1>3. ASSUME NEW d \in Dsets, NEW q \in Reqs \cup {None}, DatasetWrite(d, q) PROVE GInv'
  <2> DEFINE e == [kind |-> "create", path |-> d]
  <2>1. e \in Entry /\ e.kind # "attr"
    BY DEF Entry
  <2>2. /\ pending' = Append(pending, e) \/ pending' = pending
        /\ UNCHANGED <<step_state, live, group_attrs, streamVars, outcome, forgotten, attr_handle>>
    BY <1>3 DEF DatasetWrite, resolveVars
  <2> HIDE DEF e
  <2> QED
    BY <1>0, <2>1, <2>2, EntryStep
<1>4. ASSUME NEW a \in Attrs, AttrCreate(a) PROVE GInv'
  <2>1. AttrEntry(a) \in Entry /\ AttrEntry(a).path = a
    BY DEF AttrEntry, Entry
  <2>2. /\ pending' = Append(pending, AttrEntry(a))
        /\ attr_handle' = [attr_handle EXCEPT ![a] = "placeholder"]
        /\ UNCHANGED <<step_state, live, group_attrs, streamVars, outcome, forgotten>>
    BY <1>4 DEF AttrCreate, resolveVars, historyVars
  <2>3. attr_handle' \in H
    BY <1>0, <2>2
  <2> QED
    BY <2>1, <2>2, <2>3, EntryStep
<1>5. ASSUME NEW a \in Attrs, NEW q \in Reqs \cup {None}, AttrWrite(a, q) PROVE GInv'
  <2>1. AttrEntry(a) \in Entry /\ AttrEntry(a).path = a
    BY DEF AttrEntry, Entry
  <2>2. /\ pending' = IF Has(pending, "attr", a) THEN pending ELSE Append(pending, AttrEntry(a))
        /\ UNCHANGED <<step_state, live, group_attrs, streamVars, outcome, forgotten, attr_handle>>
    BY <1>5 DEF AttrWrite, WithAttr, resolveVars
  <2>3. CASE Has(pending, "attr", a)
    <3>1. pending' = pending
      BY <2>2, <2>3
    <3>2. GInv'
      <4>1. CaptureTypes' /\ OnceInv'
        BY <2>2, <3>1 DEF GInv, CaptureTypes, OnceInv
      <4> QED
        BY <2>2, <4>1 DEF GInv, StreamTypes, AheadInv, GroupAttrsArrive, streamVars
    <3> QED
      BY <3>2
  <2>4. CASE ~Has(pending, "attr", a)
    BY <1>0, <2>1, <2>2, <2>4, EntryStep
  <2> QED
    BY <2>3, <2>4
<1>6. ASSUME NEW l \in Links, NEW d \in Dsets, NEW t \in {"h", "s"}, LinkCreate(l, d, t) PROVE GInv'
  <2> DEFINE e == [kind |-> "link", path |-> l, target |-> d, type |-> t]
  <2>1. e \in Entry /\ e.kind # "attr"
    BY DEF Entry
  <2>2. /\ pending' = Append(pending, e)
        /\ UNCHANGED <<step_state, live, group_attrs, streamVars, outcome, forgotten, attr_handle>>
    BY <1>6 DEF LinkCreate, resolveVars, historyVars
  <2> HIDE DEF e
  <2> QED
    BY <1>0, <2>1, <2>2, EntryStep
<1>7. ASSUME NEW a \in GroupAttrs, AttrCreateLive(a) PROVE GInv'
  BY <1>7, NoteStep
<1>8. CASE BeginStep \/ EndStepReturns
  <2>1. /\ UNCHANGED <<captureVars, links, stream, forgotten>>
        /\ \/ /\ step_state = "NOT_IN_STEP" /\ physical_step < MaxSteps
              /\ step_state' = "IN_STEP" /\ UNCHANGED <<physical_step, outcome>>
           \/ /\ step_state = "COMMITTING" /\ step_state' = "NOT_IN_STEP"
              /\ physical_step' = IF outcome = 1 THEN physical_step + 1 ELSE physical_step
    BY <1>8 DEF BeginStep, EndStepReturns, streamVars, resolveVars, historyVars
  <2>2. physical_step \in 0 .. MaxSteps /\ MaxSteps \in Nat
    BY CaptureAssumption DEF GInv, StreamTypes, Steps
  <2>3. CaptureTypes' /\ OnceInv'
    BY <2>1 DEF GInv, CaptureTypes, OnceInv, captureVars
  <2>4. physical_step' \in Steps /\ AheadInv'
    BY <2>1, <2>2 DEF GInv, AheadInv, Steps
  <2>5. StreamTypes'
    BY <2>1, <2>4 DEF GInv, StreamTypes
  <2>6. GroupAttrsArrive'
    BY <2>1 DEF GInv, GroupAttrsArrive, captureVars
  <2> QED
    BY <2>3, <2>4, <2>5, <2>6 DEF GInv
<1>9. CASE FileClose
  <2>1. /\ step_state \in {"NOT_IN_STEP", "IN_STEP"} /\ step_state' = "closed"
        /\ pending' = <<>> /\ group_attrs' = <<>>
        /\ UNCHANGED <<attr_handle, live, physical_step, links, stream>>
    BY <1>9 DEF FileClose, streamVars
  <2>2. pending' \in Seq(Entry) /\ group_attrs' \in Seq(GroupAttrs) /\ DOMAIN pending' = {}
        /\ DOMAIN group_attrs' = {}
    BY <2>1
  <2>3. CaptureTypes' /\ OnceInv'
    BY <2>1, <2>2 DEF GInv, CaptureTypes, OnceInv, Distinct
  <2>4. StreamTypes' /\ AheadInv' /\ GroupAttrsArrive'
    BY <2>1 DEF GInv, StreamTypes, AheadInv, GroupAttrsArrive
  <2> QED
    BY <2>3, <2>4 DEF GInv
<1>10. CASE \/ InvokeNotify \/ Done \/ UNCHANGED vars
            \/ \E a \in Attrs : AttrClose(a)
            \/ \E a \in GroupAttrs : AttrDelete(a)
            \/ \E q \in Reqs : RequestNotify(q) \/ RequestFree(q)
  <2>1. /\ UNCHANGED <<step_state, pending, group_attrs, physical_step, links, stream, outcome,
                       forgotten>>
        /\ live' \subseteq live
        /\ attr_handle' \in H
    <3>1. CASE \E a \in Attrs : AttrClose(a)
      BY <1>0, <3>1 DEF AttrClose, streamVars, resolveVars, historyVars
    <3>2. CASE ~\E a \in Attrs : AttrClose(a)
      BY <1>0, <1>10, <3>2 DEF InvokeNotify, Done, AttrDelete, RequestNotify, RequestFree,
         vars, captureVars, streamVars, resolveVars, historyVars
    <3> QED
      BY <3>1, <3>2
  <2>2. CaptureTypes' /\ OnceInv'
    BY <2>1 DEF GInv, CaptureTypes, OnceInv
  <2>3. StreamTypes' /\ AheadInv' /\ GroupAttrsArrive'
    BY <2>1 DEF GInv, StreamTypes, AheadInv, GroupAttrsArrive
  <2> QED
    BY <2>2, <2>3 DEF GInv
<1>11. ASSUME NEW a \in Attrs, NEW q \in Reqs \cup {None}, AttrWriteStale(a, q) PROVE GInv'
  <2>1. /\ UNCHANGED <<captureVars, physical_step, links, stream, outcome, forgotten>>
        /\ step_state = "IN_STEP" /\ step_state' \in {"IN_STEP", "crashed"}
    BY <1>11 DEF AttrWriteStale, streamVars, resolveVars
  <2>2. CaptureTypes' /\ OnceInv'
    BY <2>1 DEF GInv, CaptureTypes, OnceInv, captureVars
  <2>3. StreamTypes' /\ AheadInv' /\ GroupAttrsArrive'
    BY <2>1 DEF GInv, StreamTypes, AheadInv, GroupAttrsArrive, captureVars
  <2> QED
    BY <2>2, <2>3 DEF GInv
<1> QED
  BY <1>1, <1>2, <1>3, <1>4, <1>5, <1>6, <1>7, <1>8, <1>9, <1>10, <1>11 DEF Next

\* The invariant holds of every run.
LEMMA CaptureInductive == Spec => []GInv
<1>1. Init => GInv
  <2> SUFFICES ASSUME Init PROVE GInv
    OBVIOUS
  <2>1. pending \in Seq(Entry) /\ group_attrs \in Seq(GroupAttrs) /\ DOMAIN pending = {}
        /\ DOMAIN group_attrs = {}
    BY DEF Init
  <2>2. CaptureTypes /\ OnceInv
    BY <2>1 DEF Init, CaptureTypes, OnceInv, Distinct
  <2>3. Empty \in Content
    BY DEF Empty, Content
  <2>4. StreamTypes
    BY <2>3, CaptureAssumption DEF Init, StreamTypes, Steps
  <2> QED
    BY <2>2, <2>4 DEF Init, GInv, AheadInv, GroupAttrsArrive
<1> QED
  BY <1>1, CaptureStep, PTL DEF Spec

\* A group attribute created outside a step reaches the next committed step,
\* unless the step that folds it in fails.
THEOREM GroupAttributesArrive == Spec => []GroupAttrsArrive
<1>1. GInv => GroupAttrsArrive
  BY DEF GInv
<1> QED
  BY <1>1, CaptureInductive, PTL

\* The folds add no second entry of an attribute to a step: a replay that
\* meets one fails by the application's own second H5Acreate.
THEOREM FoldsRepeatNothing == Spec => [](Repeats(pending) = {} => Repeats(Folded) = {})
<1>1. ASSUME NEW es \in Seq(Entry) PROVE Repeats(es) = {} <=> OnceEach(es)
  <2>1. DOMAIN es = 1 .. Len(es) /\ Len(es) \in Nat
    BY LenProperties
  <2> QED
    BY <2>1 DEF Repeats, OnceEach
<1>2. GInv => (Repeats(pending) = {} => Repeats(Folded) = {})
  <2> SUFFICES ASSUME GInv, Repeats(pending) = {} PROVE Repeats(Folded) = {}
    OBVIOUS
  <2>1. pending \in Seq(Entry) /\ Folded \in Seq(Entry)
    BY FoldedFact DEF GInv, CaptureTypes
  <2>2. OnceEach(pending)
    BY <1>1, <2>1
  <2>3. OnceEach(Folded)
    BY <2>2, FoldedFact DEF GInv
  <2> QED
    BY <1>1, <2>1, <2>3
<1> QED
  BY <1>2, CaptureInductive, PTL

-----------------------------------------------------------------------------
(* Links follow their targets.                                             *)

\* What LinkFollows needs. A hard link to nothing is in its step and yet is
\* not made, so that the fold leaves it out and nothing makes it.
SoundLinks == "dangling" \notin Faults

LinkedAt(s, l, n) == {k \in 0 .. n : s[k].link[l] # None}
WroteAt(s, d, n) == {k \in 0 .. n : d \in s[k].made}
Follows(s, l, n) ==
    LinkedAt(s, l, n) # {} =>
        LET e == s[Max(LinkedAt(s, l, n))].link[l]
        IN  e.step = Resolve(s, e.target, n)

\* A hard link of the open step has a target to be made to.
HardInv ==
    \A i \in DOMAIN pending : pending[i].kind = "link" /\ pending[i].type = "h" =>
        \/ Has(pending, "create", pending[i].target)
        \/ \E n \in Steps : pending[i].target \in stream[n].made

\* The links the file knows are those of the stream, with their last target,
\* but for those that a failed step noted.
KnownInv ==
    \A l \in Links \ misnoted :
        LET at == LinkedAt(stream, l, MaxSteps)
        IN  /\ at = {} => links[l] = None
            /\ at # {} => /\ links[l] # None
                          /\ links[l].target = stream[Max(at)].link[l].target

FollowInv == \A l \in Links \ misnoted, n \in Steps : Follows(stream, l, n)
LInv == HardInv /\ KnownInv /\ FollowInv

\* The stream t is s with contents for /step/<n>, which s lacks from n on.
Adds(s, t, n) ==
    /\ \A k \in Steps : k # n => t[k] = s[k]
    /\ \A k \in Steps : k >= n => s[k] = Empty

\* What is looked up as of an earlier step, or does not concern what the step
\* added, is found as before; what it added is found as of every later step.
LookedUp(s, t, n, m) ==
    /\ \A l \in Links : m < n \/ t[n].link[l] = None => LinkedAt(t, l, m) = LinkedAt(s, l, m)
    /\ \A d \in Dsets : m < n \/ d \notin t[n].made => Resolve(t, d, m) = Resolve(s, d, m)
    /\ \A l \in Links : n <= m /\ t[n].link[l] # None =>
          LinkedAt(t, l, m) # {} /\ Max(LinkedAt(t, l, m)) = n
    /\ \A d \in Dsets : n <= m /\ d \in t[n].made => Resolve(t, d, m) = n
    /\ \A d \in Dsets : n <= m => Resolve(s, d, m) = Resolve(s, d, n - 1)
    /\ \A l \in Links : LinkedAt(s, l, m) # {} =>
          Max(LinkedAt(s, l, m)) \in 0 .. m /\ Max(LinkedAt(s, l, m)) < n

\* How lookups see a step that is added.
LEMMA LookupFact ==
    ASSUME NEW s, NEW t, NEW n \in Steps, NEW m \in Steps, Adds(s, t, n)
    PROVE  LookedUp(s, t, n, m)
<1> USE DEF Adds
<1>1. MaxSteps \in Nat /\ n \in 0 .. MaxSteps /\ m \in 0 .. MaxSteps /\ n \in Nat /\ m \in Nat
  BY CaptureAssumption DEF Steps
<1>2. \A k \in 0 .. m : k \in Steps /\ k \in Nat
  BY <1>1 DEF Steps
<1>3. \A k \in Steps : /\ k >= n => /\ \A l \in Links : s[k].link[l] = None
                                    /\ s[k].made = {}
  BY DEF Empty
<1>r. \A u, d, k : Resolve(u, d, k) = IF WroteAt(u, d, k) = {} THEN NoStep ELSE Max(WroteAt(u, d, k))
  BY DEF Resolve, WroteAt
<1>4. ASSUME NEW l \in Links, m < n \/ t[n].link[l] = None
      PROVE  LinkedAt(t, l, m) = LinkedAt(s, l, m)
  <2>1. ASSUME NEW k \in 0 .. m PROVE t[k].link[l] # None <=> s[k].link[l] # None
    <3>1. CASE k = n
      <4>1. t[n].link[l] = None
        BY <1>1, <1>4, <3>1
      <4> QED
        BY <1>1, <1>3, <3>1, <4>1
    <3>2. CASE k # n
      BY <1>2, <3>2
    <3> QED
      BY <3>1, <3>2
  <2> QED
    BY <2>1 DEF LinkedAt
<1>5. ASSUME NEW d \in Dsets, m < n \/ d \notin t[n].made
      PROVE  Resolve(t, d, m) = Resolve(s, d, m)
  <2>1. ASSUME NEW k \in 0 .. m PROVE d \in t[k].made <=> d \in s[k].made
    <3>1. CASE k = n
      <4>1. d \notin t[n].made
        BY <1>1, <1>5, <3>1
      <4> QED
        BY <1>1, <1>3, <3>1, <4>1
    <3>2. CASE k # n
      BY <1>2, <3>2
    <3> QED
      BY <3>1, <3>2
  <2>2. WroteAt(t, d, m) = WroteAt(s, d, m)
    BY <2>1 DEF WroteAt
  <2> QED
    BY <1>r, <2>2
<1>6. ASSUME NEW l \in Links, n <= m, t[n].link[l] # None
      PROVE  LinkedAt(t, l, m) # {} /\ Max(LinkedAt(t, l, m)) = n
  <2>1. n \in LinkedAt(t, l, m)
    BY <1>1, <1>6 DEF LinkedAt
  <2>2. ASSUME NEW k \in LinkedAt(t, l, m) PROVE k \in 0 .. n
    <3>1. k \in 0 .. m /\ t[k].link[l] # None
      BY DEF LinkedAt
    <3>2. k > n => t[k] = s[k] /\ s[k].link[l] = None
      BY <1>1, <1>2, <1>3, <3>1
    <3> QED
      BY <1>1, <3>1, <3>2
  <2>3. LinkedAt(t, l, m) \subseteq 0 .. n
    BY <2>2
  <2> QED
    BY <1>1, <2>1, <2>3, MaxIsBound
<1>7. ASSUME NEW d \in Dsets, n <= m, d \in t[n].made PROVE Resolve(t, d, m) = n
  <2>1. n \in WroteAt(t, d, m)
    BY <1>1, <1>7 DEF WroteAt
  <2>2. ASSUME NEW k \in WroteAt(t, d, m) PROVE k \in 0 .. n
    <3>1. k \in 0 .. m /\ d \in t[k].made
      BY DEF WroteAt
    <3>2. k > n => t[k] = s[k] /\ s[k].made = {}
      BY <1>1, <1>2, <1>3, <3>1
    <3> QED
      BY <1>1, <3>1, <3>2
  <2>3. WroteAt(t, d, m) \subseteq 0 .. n
    BY <2>2
  <2>4. Max(WroteAt(t, d, m)) = n
    BY <1>1, <2>1, <2>3, MaxIsBound
  <2> QED
    BY <1>r, <2>1, <2>4
<1>8. ASSUME NEW d \in Dsets, n <= m PROVE Resolve(s, d, m) = Resolve(s, d, n - 1)
  <2>1. ASSUME NEW k \in 0 .. m, d \in s[k].made PROVE k \in 0 .. n - 1
    BY <1>1, <1>2, <1>3, <2>1
  <2>2. 0 .. n - 1 \subseteq 0 .. m
    BY <1>1, <1>8
  <2>3. WroteAt(s, d, m) = WroteAt(s, d, n - 1)
    BY <2>1, <2>2 DEF WroteAt
  <2> QED
    BY <1>r, <2>3
<1>9. ASSUME NEW l \in Links, LinkedAt(s, l, m) # {}
      PROVE  Max(LinkedAt(s, l, m)) \in 0 .. m /\ Max(LinkedAt(s, l, m)) < n
  <2>1. LinkedAt(s, l, m) \subseteq 0 .. m
    BY DEF LinkedAt
  <2>2. Max(LinkedAt(s, l, m)) \in LinkedAt(s, l, m)
    BY <1>1, <1>9, <2>1, MaxBounded
  <2> DEFINE x == Max(LinkedAt(s, l, m))
  <2>3. x \in 0 .. m /\ s[x].link[l] # None
    BY <2>2 DEF LinkedAt
  <2> HIDE DEF x
  <2>4. x < n
    BY <1>1, <1>2, <1>3, <2>3
  <2> QED
    BY <2>3, <2>4 DEF x
<1> HIDE DEF Adds
<1> QED
  BY <1>4, <1>5, <1>6, <1>7, <1>8, <1>9 DEF LookedUp

\* end_step makes a link whenever it writes the target of one that is known:
\* the step's own, or the one that fold_links repeats.
LEMMA RelinkedFact ==
    ASSUME GInv, HardInv, step_state = "IN_STEP", NEW l \in Links, links[l] # None,
           Has(Folded, "create", links[l].target)
    PROVE  MadeBy(Folded, l, physical_step, Len(Folded)) # {}
<1> USE DEF GInv
<1> DEFINE n == physical_step
           es == Folded
<1>1. /\ es \in Seq(Entry) /\ DOMAIN es = 1 .. Len(es) /\ DOMAIN pending = 1 .. Len(pending)
      /\ Len(pending) \in Nat /\ Len(es) \in Nat /\ Len(pending) <= Len(es)
      /\ \A i \in 1 .. Len(pending) : es[i] = pending[i]
      /\ \A d : Has(es, "create", d) <=> Has(pending, "create", d)
      /\ \/ Has(pending, "link", l)
         \/ \E i \in 1 .. Len(es) : es[i] = LinkEntry(l)
  BY FoldedFact
<1>2. /\ n \in Steps /\ MaxSteps \in Nat /\ n \in 0 .. MaxSteps
      /\ \A k \in Steps : k >= n => stream[k] = Empty
  BY CaptureAssumption DEF StreamTypes, AheadInv, Steps
<1> HIDE DEF es, n
<1>3. n # NoStep
  BY <1>2 DEF NoStep
<1>4. CASE Has(pending, "link", l)
  <2>1. PICK i \in 1 .. Len(pending) : pending[i].kind = "link" /\ pending[i].path = l
    BY <1>1, <1>4 DEF Has
  <2>2. i \in 1 .. Len(es) /\ es[i] = pending[i] /\ es[i].type \in {"h", "s"} /\ i \in DOMAIN pending
        /\ i \in DOMAIN es
    <3>1. i \in 1 .. Len(es) /\ es[i] = pending[i]
      BY <1>1, <2>1
    <3> QED
      BY <1>1, <2>1, <3>1, LinkEntryTypes
  <2>3. CASE es[i].type = "h" /\ ~Has(es, "create", es[i].target)
    <3>1. PICK k \in Steps : es[i].target \in stream[k].made
      BY <1>1, <2>1, <2>2, <2>3 DEF HardInv
    <3>2. k < n
      BY <1>2, <3>1 DEF Empty, Steps
    <3>3. k \in 0 .. n - 1 /\ n - 1 \in -1 .. MaxSteps
      BY <1>2, <3>2 DEF Steps
    <3>4. Resolve(stream, es[i].target, n - 1) # NoStep
      BY <3>1, <3>3, ResolveFact
    <3>5. LinkStep(es, i, n) # NoStep
      BY <1>1, <1>2, <2>2, <2>3, <3>4, LinkStepFact
    <3> QED
      BY <1>1, <2>1, <2>2, <3>5, MadeFact DEF es, n
  <2>4. CASE es[i].type = "h" /\ Has(es, "create", es[i].target)
    <3>1. LinkStep(es, i, n) = n
      BY <1>1, <1>2, <2>2, <2>4, LinkStepFact
    <3> QED
      BY <1>1, <1>3, <2>1, <2>2, <3>1, MadeFact DEF es, n
  <2>5. CASE es[i].type = "s"
    BY <1>1, <2>1, <2>2, <2>5, MadeFact DEF es, n
  <2> QED
    BY <2>2, <2>3, <2>4, <2>5
<1>5. CASE \E i \in 1 .. Len(es) : es[i] = LinkEntry(l)
  <2>1. PICK i \in 1 .. Len(es) : es[i] = LinkEntry(l)
    BY <1>5
  <2>2. es[i].kind = "link" /\ es[i].path = l /\ es[i].target = links[l].target
    BY <2>1 DEF LinkEntry
  <2>3. LinkStep(es, i, n) = n
    BY <1>1, <1>2, <2>2, LinkStepFact DEF es
  <2> QED
    BY <1>1, <1>3, <2>2, <2>3, MadeFact DEF es, n
<1> QED
  BY <1>1, <1>4, <1>5

\* A committed step keeps every link on the current copy of its target.
LEMMA CommitFollows == ASSUME GInv, LInv, EndStep PROVE LInv'
<1> USE DEF GInv, LInv
<1> DEFINE n == physical_step
           es == Folded
           t == stream'
           M(l) == MadeBy(es, l, n, Len(es))
<1>1. /\ step_state = "IN_STEP" /\ pending' = <<>>
      /\ stream' = [stream EXCEPT ![n] = Replayed(es, n)]
      /\ links' = LinksNoted(es, n, Len(es))
      /\ misnoted' = misnoted
  BY DEF EndStep
<1>2. /\ n \in Steps /\ MaxSteps \in Nat /\ n \in 0 .. MaxSteps /\ stream \in [Steps -> Content]
      /\ \A k \in Steps : k >= n => stream[k] = Empty
      /\ MaxSteps \in Steps
  BY <1>1, CaptureAssumption DEF StreamTypes, AheadInv, Steps
<1>3. es \in Seq(Entry) /\ DOMAIN es = 1 .. Len(es) /\ Len(es) \in 0 .. Len(es)
  BY FoldedFact
<1>4. t[n] = Replayed(es, n) /\ \A k \in Steps : k # n => t[k] = stream[k]
  BY <1>1, <1>2
<1>5. t[n].made = {d \in Dsets : Has(es, "create", d)}
  BY <1>4 DEF Replayed
<1>6. \A l \in Links : t[n].link[l] = IF M(l) = {} THEN None
                       ELSE [target |-> es[Min(M(l))].target, step |-> LinkStep(es, Min(M(l)), n)]
  BY <1>4 DEF Replayed
<1>7. \A l \in Links : links'[l] = IF M(l) = {} THEN links[l]
                       ELSE [target |-> es[Min(M(l))].target, type |-> es[Min(M(l))].type]
  BY <1>1 DEF LinksNoted
<1>8. ASSUME NEW l \in Links, M(l) # {}
      PROVE  /\ Min(M(l)) \in DOMAIN es /\ es[Min(M(l))].target \in Dsets
             /\ t[n].link[l] # None
             /\ t[n].link[l].target = es[Min(M(l))].target
             /\ t[n].link[l].step = LinkStep(es, Min(M(l)), n)
             /\ links'[l] # None /\ links'[l].target = es[Min(M(l))].target
  <2> DEFINE i == Min(M(l))
  <2>1. i \in DOMAIN es /\ es[i].kind = "link"
    BY <1>3, <1>8, MadeFact DEF LinkMade
  <2>2. es[i].target \in Dsets /\ es[i].type \in {"h", "s"}
    BY <1>3, <2>1, LinkEntryTypes
  <2>3. LinkStep(es, i, n) \in {NoStep} \cup Steps
    BY <1>2, <1>3, <2>1, LinkStepFact
  <2>4. LinkStep(es, i, n) \in Int
    BY <1>2, <2>3 DEF NoStep, Steps
  <2>5. /\ t[n].link[l] = [target |-> es[i].target, step |-> LinkStep(es, i, n)]
        /\ links'[l] = [target |-> es[i].target, type |-> es[i].type]
    BY <1>6, <1>7, <1>8
  <2> HIDE DEF i
  <2>6. /\ [target |-> es[i].target, step |-> LinkStep(es, i, n)] \in [target : Dsets, step : Int]
        /\ [target |-> es[i].target, type |-> es[i].type] \in [target : Dsets, type : {"h", "s"}]
    BY <2>2, <2>4
  <2>7. t[n].link[l] # None /\ links'[l] # None
    BY <2>5, <2>6, CaptureAssumption
  <2> QED
    BY <2>1, <2>2, <2>5, <2>7 DEF i
<1> HIDE DEF es, n, t, M
<1>9. ASSUME NEW m \in Steps
      PROVE  /\ \A l \in Links : m < n \/ t[n].link[l] = None =>
                   LinkedAt(t, l, m) = LinkedAt(stream, l, m)
             /\ \A d \in Dsets : m < n \/ d \notin t[n].made => Resolve(t, d, m) = Resolve(stream, d, m)
             /\ \A l \in Links : n <= m /\ t[n].link[l] # None =>
                   LinkedAt(t, l, m) # {} /\ Max(LinkedAt(t, l, m)) = n
             /\ \A d \in Dsets : n <= m /\ d \in t[n].made => Resolve(t, d, m) = n
             /\ \A d \in Dsets : n <= m => Resolve(stream, d, m) = Resolve(stream, d, n - 1)
             /\ \A l \in Links : LinkedAt(stream, l, m) # {} =>
                   Max(LinkedAt(stream, l, m)) \in 0 .. m /\ Max(LinkedAt(stream, l, m)) < n
  <2>1. Adds(stream, t, n)
    BY <1>2, <1>4 DEF Adds
  <2>2. LookedUp(stream, t, n, m)
    BY <1>2, <2>1, LookupFact
  <2> QED
    BY <2>2 DEF LookedUp
<1>10. ASSUME NEW l \in Links, NEW m \in Steps, LinkedAt(stream, l, m) # {}
       PROVE  /\ t[Max(LinkedAt(stream, l, m))] = stream[Max(LinkedAt(stream, l, m))]
              /\ stream[Max(LinkedAt(stream, l, m))].link[l].target \in Dsets
  <2> DEFINE x == Max(LinkedAt(stream, l, m))
  <2>1. x \in 0 .. m /\ x < n
    BY <1>9, <1>10
  <2>2. x \in Steps /\ x # n
    BY <1>2, <2>1 DEF Steps
  <2>3. stream[x].link[l] # None
    <3>1. LinkedAt(stream, l, m) \subseteq 0 .. m /\ m \in Nat
      BY DEF LinkedAt, Steps
    <3>2. x \in LinkedAt(stream, l, m)
      BY <1>10, <3>1, MaxBounded
    <3> HIDE DEF x
    <3> QED
      BY <3>2 DEF LinkedAt
  <2> HIDE DEF x
  <2>4. stream[x] \in Content
    BY <1>2, <2>2
  <2>5. stream[x].link[l] \in [target : Dsets, step : {NoStep} \cup Steps]
    BY <2>3, <2>4 DEF Content
  <2>6. stream[x].link[l].target \in Dsets
    BY <2>5
  <2> QED
    BY <1>4, <2>2, <2>6 DEF x
<1>11. HardInv'
  <2>1. DOMAIN pending' = {}
    BY <1>1
  <2> QED
    BY <2>1 DEF HardInv
<1>12. KnownInv'
  <2> SUFFICES ASSUME NEW l \in Links \ misnoted
               PROVE  /\ LinkedAt(t, l, MaxSteps) = {} => links'[l] = None
                      /\ LinkedAt(t, l, MaxSteps) # {} =>
                            /\ links'[l] # None
                            /\ links'[l].target = t[Max(LinkedAt(t, l, MaxSteps))].link[l].target
    BY <1>1 DEF KnownInv, t
  <2>1. CASE M(l) = {}
    <3>1. t[n].link[l] = None /\ links'[l] = links[l]
      BY <1>6, <1>7, <2>1
    <3>2. LinkedAt(t, l, MaxSteps) = LinkedAt(stream, l, MaxSteps)
      BY <1>2, <1>9, <3>1
    <3>3. LinkedAt(stream, l, MaxSteps) # {} =>
             t[Max(LinkedAt(stream, l, MaxSteps))] = stream[Max(LinkedAt(stream, l, MaxSteps))]
      BY <1>2, <1>10
    <3> QED
      BY <3>1, <3>2, <3>3 DEF KnownInv
  <2>2. CASE M(l) # {}
    <3>1. LinkedAt(t, l, MaxSteps) # {} /\ Max(LinkedAt(t, l, MaxSteps)) = n
      BY <1>2, <1>8, <1>9, <2>2
    <3> QED
      BY <1>8, <2>2, <3>1
  <2> QED
    BY <2>1, <2>2
<1>13. FollowInv'
  <2> SUFFICES ASSUME NEW l \in Links \ misnoted, NEW m \in Steps PROVE Follows(t, l, m)
    BY <1>1 DEF FollowInv, t, Follows, LinkedAt, Resolve
  <2>0. Follows(stream, l, m) /\ m \in 0 .. MaxSteps
    BY DEF FollowInv, Steps
  <2>1. CASE m < n
    <3> DEFINE x == Max(LinkedAt(stream, l, m))
               e == stream[x].link[l]
    <3>1. LinkedAt(t, l, m) = LinkedAt(stream, l, m)
      BY <1>9, <2>1
    <3>2. ASSUME LinkedAt(t, l, m) # {}
          PROVE  t[x].link[l].step = Resolve(t, t[x].link[l].target, m)
      <4>1. t[x] = stream[x] /\ e.target \in Dsets
        BY <1>10, <3>1, <3>2
      <4>2. e.step = Resolve(stream, e.target, m)
        BY <2>0, <3>1, <3>2 DEF Follows
      <4>3. Resolve(t, e.target, m) = Resolve(stream, e.target, m)
        BY <1>9, <2>1, <4>1
      <4> QED
        BY <4>1, <4>2, <4>3
    <3> QED
      BY <3>1, <3>2 DEF Follows
  <2>2. CASE n <= m /\ M(l) # {}
    <3> DEFINE d == es[Min(M(l))].target
    <3>1. /\ Max(LinkedAt(t, l, m)) = n /\ d \in Dsets /\ t[n].link[l].target = d
          /\ t[n].link[l].step = LinkStep(es, Min(M(l)), n)
      BY <1>8, <1>9, <2>2
    <3>2. LinkStep(es, Min(M(l)), n) = IF Has(es, "create", d) THEN n ELSE Resolve(stream, d, n - 1)
      BY <1>2, <1>3, <1>8, <2>2, LinkStepFact
    <3>3. Has(es, "create", d) <=> d \in t[n].made
      BY <1>5, <3>1
    <3>4. Resolve(t, d, m) = IF d \in t[n].made THEN n ELSE Resolve(stream, d, n - 1)
      BY <1>9, <2>2, <3>1
    <3> QED
      BY <3>1, <3>2, <3>3, <3>4 DEF Follows
  <2>3. CASE n <= m /\ M(l) = {}
    <3> DEFINE x == Max(LinkedAt(stream, l, m))
               e == stream[x].link[l]
    <3>1. LinkedAt(t, l, m) = LinkedAt(stream, l, m)
      BY <1>6, <1>9, <2>3
    <3>2. ASSUME LinkedAt(t, l, m) # {}
          PROVE  t[x].link[l].step = Resolve(t, t[x].link[l].target, m)
      <4>1. t[x] = stream[x] /\ e.target \in Dsets
        BY <1>10, <3>1, <3>2
      <4>2. e.step = Resolve(stream, e.target, m)
        BY <2>0, <3>1, <3>2 DEF Follows
      <4>3. LinkedAt(stream, l, m) = LinkedAt(stream, l, MaxSteps)
        <5>1. ASSUME NEW k \in LinkedAt(stream, l, MaxSteps) PROVE k \in 0 .. m
          <6>1. k \in Steps /\ stream[k].link[l] # None
            BY DEF LinkedAt, Steps
          <6>2. ~(k >= n)
            BY <1>2, <6>1 DEF Empty
          <6> QED
            BY <1>2, <2>0, <2>3, <6>1, <6>2 DEF Steps
        <5>2. 0 .. m \subseteq 0 .. MaxSteps
          BY <1>2, <2>0
        <5> QED
          BY <5>1, <5>2 DEF LinkedAt
      <4>4. links[l] # None /\ links[l].target = e.target
        BY <3>1, <3>2, <4>3 DEF KnownInv
      <4>5. ~Has(es, "create", e.target)
        BY <1>1, <2>3, <4>4, RelinkedFact DEF es, n, M
      <4>6. e.target \notin t[n].made
        BY <1>5, <4>5
      <4>7. Resolve(t, e.target, m) = Resolve(stream, e.target, m)
        BY <1>9, <4>1, <4>6
      <4> QED
        BY <4>1, <4>2, <4>7
    <3> QED
      BY <3>1, <3>2 DEF Follows
  <2>4. m < n \/ n <= m
    BY <1>2, <2>0
  <2> QED
    BY <2>1, <2>2, <2>3, <2>4
<1> QED
  BY <1>11, <1>12, <1>13


\* An entry that is no hard link to nothing joins the step.
LEMMA HardAppend ==
    ASSUME CaptureTypes, HardInv, NEW e \in Entry,
           pending' = Append(pending, e) \/ pending' = pending, UNCHANGED stream,
           e.kind = "link" /\ e.type = "h" =>
              \/ Has(pending, "create", e.target)
              \/ \E n \in Steps : e.target \in stream[n].made
    PROVE  HardInv'
<1> DEFINE c == Len(pending)
<1>1. CASE pending' = pending
  BY <1>1 DEF HardInv, Has
<1>2. CASE pending' = Append(pending, e)
  <2>1. /\ c \in Nat /\ DOMAIN pending = 1 .. c /\ DOMAIN pending' = 1 .. c + 1
        /\ \A i \in 1 .. c : pending'[i] = pending[i]
        /\ pending'[c + 1] = e
    BY <1>2, AppendProperties, LenProperties DEF CaptureTypes
  <2> HIDE DEF c
  <2> SUFFICES ASSUME NEW i \in 1 .. c + 1, pending'[i].kind = "link", pending'[i].type = "h"
               PROVE  \/ Has(pending', "create", pending'[i].target)
                      \/ \E n \in Steps : pending'[i].target \in stream[n].made
    BY <2>1 DEF HardInv
  <2>2. \/ Has(pending, "create", pending'[i].target)
        \/ \E n \in Steps : pending'[i].target \in stream[n].made
    <3>1. CASE i \in 1 .. c
      BY <2>1, <3>1 DEF HardInv
    <3>2. CASE i = c + 1
      BY <2>1, <3>2
    <3> QED
      BY <2>1, <3>1, <3>2
  <2> DEFINE d == pending'[i].target
  <2>3. Has(pending, "create", d) => Has(pending', "create", d)
    <3> SUFFICES ASSUME Has(pending, "create", d) PROVE Has(pending', "create", d)
      OBVIOUS
    <3>1. PICK j \in 1 .. c : pending[j].kind = "create" /\ pending[j].path = d
      BY <2>1 DEF Has
    <3>2. j \in DOMAIN pending' /\ pending'[j] = pending[j]
      BY <2>1
    <3> QED
      BY <3>1, <3>2 DEF Has
  <2> QED
    BY <2>2, <2>3
<1> QED
  BY <1>1, <1>2

\* Steps that leave links and the stream alone.
LEMMA SameLinks ==
    ASSUME KnownInv, FollowInv, UNCHANGED <<links, stream, misnoted>> PROVE KnownInv' /\ FollowInv'
<1>1. KnownInv'
  BY DEF KnownInv
<1>2. FollowInv'
  BY DEF FollowInv
<1> QED
  BY <1>1, <1>2

\* An end_step that fails spoils what the file knows of the links it noted,
\* and of no others.
LEMMA FailFollows ==
    ASSUME GInv, LInv, NEW k \in 0 .. MaxEntries, EndStepFails(k) PROVE LInv'
<1> USE DEF GInv, LInv
<1> DEFINE M(l) == MadeBy(Folded, l, physical_step, k)
<1>1. /\ pending' = <<>> /\ links' = LinksNoted(Folded, physical_step, k) /\ UNCHANGED stream
      /\ misnoted' = misnoted \cup {l \in Links : M(l) # {}}
  BY DEF EndStepFails
<1>2. \A l \in Links \ misnoted' : l \in Links \ misnoted /\ links'[l] = links[l]
  <2> SUFFICES ASSUME NEW l \in Links \ misnoted'
               PROVE  l \in Links \ misnoted /\ links'[l] = links[l]
    OBVIOUS
  <2>1. l \in Links /\ l \notin misnoted /\ M(l) = {}
    BY <1>1
  <2> QED
    BY <1>1, <2>1 DEF LinksNoted
<1>3. HardInv'
  <2>1. DOMAIN pending' = {}
    BY <1>1
  <2> QED
    BY <2>1 DEF HardInv
<1>4. KnownInv'
  BY <1>1, <1>2 DEF KnownInv
<1>5. FollowInv'
  BY <1>1, <1>2 DEF FollowInv
<1> QED
  BY <1>3, <1>4, <1>5

\* Every step keeps links on their targets.
LEMMA LinksStep == SoundLinks /\ GInv /\ LInv /\ [Next]_vars => LInv'
<1> SUFFICES ASSUME SoundLinks, GInv, LInv, [Next]_vars PROVE LInv'
  OBVIOUS
<1>0. CaptureTypes /\ HardInv
  BY DEF GInv, LInv
<1>k. ASSUME UNCHANGED <<links, stream, misnoted>> PROVE KnownInv' /\ FollowInv'
  BY <1>k, SameLinks DEF LInv
<1>1. CASE EndStep
  BY <1>1, CommitFollows
<1>2. ASSUME NEW k \in 0 .. MaxEntries, EndStepFails(k) PROVE LInv'
  BY <1>2, FailFollows
<1>3. ASSUME NEW d \in Dsets, NEW q \in Reqs \cup {None}, DatasetWrite(d, q) PROVE LInv'
  <2> DEFINE e == [kind |-> "create", path |-> d]
  <2>1. e \in Entry /\ e.kind # "link"
    BY DEF Entry
  <2>2. /\ pending' = Append(pending, e) \/ pending' = pending
        /\ UNCHANGED <<links, stream, misnoted>>
    BY <1>3 DEF DatasetWrite, streamVars
  <2> HIDE DEF e
  <2> QED
    BY <1>0, <1>k, <2>1, <2>2, HardAppend DEF LInv
<1>4. ASSUME NEW a \in Attrs, AttrCreate(a) \/ \E q \in Reqs \cup {None} : AttrWrite(a, q) PROVE LInv'
  <2>1. AttrEntry(a) \in Entry /\ AttrEntry(a).kind # "link"
    BY DEF AttrEntry, Entry
  <2>2. /\ pending' = Append(pending, AttrEntry(a)) \/ pending' = pending
        /\ UNCHANGED <<links, stream, misnoted>>
    BY <1>4 DEF AttrCreate, AttrWrite, WithAttr, streamVars, historyVars
  <2> QED
    BY <1>0, <1>k, <2>1, <2>2, HardAppend DEF LInv
<1>5. ASSUME NEW l \in Links, NEW d \in Dsets, NEW t \in {"h", "s"}, LinkCreate(l, d, t) PROVE LInv'
  <2> DEFINE e == [kind |-> "link", path |-> l, target |-> d, type |-> t]
  <2>1. e \in Entry /\ e.target = d /\ e.type = t
    BY DEF Entry
  <2>2. /\ pending' = Append(pending, e)
        /\ t = "s" \/ Has(pending, "create", d) \/ \E n \in Steps : d \in stream[n].made
        /\ UNCHANGED <<links, stream, misnoted>>
    BY <1>5 DEF LinkCreate, streamVars, historyVars, SoundLinks
  <2> HIDE DEF e
  <2> QED
    BY <1>0, <1>k, <2>1, <2>2, HardAppend DEF LInv
<1>6. CASE FileClose
  <2>1. pending' = <<>> /\ UNCHANGED <<links, stream, misnoted>>
    BY <1>6 DEF FileClose, streamVars, historyVars
  <2>2. DOMAIN pending' = {}
    BY <2>1
  <2> QED
    BY <1>k, <2>1, <2>2 DEF LInv, HardInv
<1>7. CASE \/ BeginStep \/ EndStepReturns \/ InvokeNotify \/ Done \/ UNCHANGED vars
           \/ \E a \in Attrs : AttrClose(a)
           \/ \E a \in Attrs, q \in Reqs \cup {None} : AttrWriteStale(a, q)
           \/ \E a \in GroupAttrs : AttrCreateLive(a) \/ AttrDelete(a)
           \/ \E q \in Reqs : RequestNotify(q) \/ RequestFree(q)
  <2>1. UNCHANGED <<pending, links, stream, misnoted>>
    BY <1>7 DEF BeginStep, EndStepReturns, InvokeNotify, Done, AttrClose, AttrCreateLive, AttrDelete,
       AttrWriteStale, RequestNotify, RequestFree, vars, captureVars, streamVars, historyVars
  <2>2. HardInv'
    BY <1>0, <2>1 DEF HardInv, Has
  <2> QED
    BY <1>k, <2>1, <2>2 DEF LInv
<1> QED
  BY <1>1, <1>2, <1>3, <1>4, <1>5, <1>6, <1>7 DEF Next

\* Where no hard link is made to nothing, a link leads, as of every committed
\* step, to the copy of its target that is current at that step, whichever
\* replays fail and wherever they do, if none of these had noted the link.
THEOREM LinksFollowTargets == ASSUME SoundLinks PROVE Spec => []LinkFollows
<1>1. Init => LInv
  <2> SUFFICES ASSUME Init PROVE LInv
    OBVIOUS
  <2>1. DOMAIN pending = {}
    BY DEF Init
  <2>2. ASSUME NEW l \in Links, NEW n \in Steps PROVE LinkedAt(stream, l, n) = {}
    <3>1. 0 .. n \subseteq Steps
      BY CaptureAssumption DEF Steps
    <3>2. \A k \in Steps : stream[k].link[l] = None
      BY DEF Init, Empty
    <3> QED
      BY <3>1, <3>2 DEF LinkedAt
  <2>3. MaxSteps \in Steps
    BY CaptureAssumption DEF Steps
  <2>4. HardInv /\ FollowInv
    BY <2>1, <2>2 DEF HardInv, FollowInv, Follows
  <2>5. KnownInv
    BY <2>2, <2>3 DEF KnownInv, Init
  <2> QED
    BY <2>4, <2>5 DEF LInv
<1>2. LInv /\ GInv => LinkFollows
  <2> SUFFICES ASSUME LInv, GInv, NEW n \in 0 .. physical_step - 1, NEW l \in Links \ misnoted
               PROVE  LET at == {k \in 0 .. n : stream[k].link[l] # None}
                          e  == stream[Max(at)].link[l]
                      IN  at # {} => e.step = Resolve(stream, e.target, n)
    BY DEF LinkFollows
  <2>1. n \in Steps
    BY CaptureAssumption DEF GInv, StreamTypes, Steps
  <2> QED
    BY <2>1 DEF LInv, FollowInv, Follows, LinkedAt
<1>3. GInv /\ LInv /\ [Next]_vars => LInv'
  BY LinksStep
<1> QED
  BY <1>1, <1>2, <1>3, CaptureInductive, PTL DEF Spec


\* Every variable has its type in every reachable state.
THEOREM TypeCorrect == Spec => []TypeOK
<1>1. GInv /\ RInv => TypeOK
  <2> SUFFICES ASSUME GInv, RInv PROVE TypeOK
    OBVIOUS
  <2>1. \A c \in DOMAIN cells : /\ cells[c].status \in {-1, 0, 1}
                                /\ cells[c].refs \in Nat
                                /\ cells[c].queue \in Seq(Reqs)
    BY CellEntry DEF RInv, Status
  <2> QED
    BY <2>1 DEF GInv, RInv, CaptureTypes, StreamTypes, CellTypes, CallTypes, LinkTarget, TypeOK
<1> QED
  BY <1>1, CaptureInductive, RequestsInductive, PTL
=============================================================================
