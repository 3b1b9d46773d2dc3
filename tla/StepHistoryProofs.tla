------------------------- MODULE StepHistoryProofs -------------------------
(* Proofs about StepHistory, for every value of its constants.             *)
EXTENDS StepHistory, ProofFacts

-----------------------------------------------------------------------------
(* The inductive invariant. To show that the reader sees what plain HDF5   *)
(* would, it has to say how the dataset of the open step differs from the  *)
(* newest copy: which elements were written since, and down to which       *)
(* extent (low) it was cut.                                                *)

Copy == Copies \cup {Nowhere}
CopyStep == [ids : SUBSET LogicalIds, ext : Extents \cup {Nowhere}, writes : Seq(Span),
             data : Copy, attr : BOOLEAN]
Entry == [ids : SUBSET LogicalIds, data : Copy, attr : 0 .. MaxSteps \cup {Nowhere},
          exact : BOOLEAN]

\* Element i is in a write entry of the open step.
Covered(i) == \E j \in DOMAIN writes : Covers(writes[j], i)

OpenTypes ==
    /\ in_step \in BOOLEAN /\ logical_ids \subseteq LogicalIds
    /\ attr_entry \in BOOLEAN /\ late \in BOOLEAN
    /\ obj \in {"none", "placeholder", "live"}
    /\ pending_resize_space \in Extents \cup {Nowhere}
    /\ under \in Extents \cup {Nowhere} /\ create \in Extents \cup {Nowhere}
    /\ writes \in Seq(Span)
    /\ low \in Extents
    /\ obj = "none" => plain = Nowhere /\ create = Nowhere
    /\ obj = "placeholder" => create # Nowhere /\ in_step
    /\ obj = "live" => under # Nowhere
    /\ obj # "live" => pending_resize_space = Nowhere
    /\ obj # "none" => plain \in [1 .. View -> 0 .. MaxSteps] /\ low <= View
    /\ create = Nowhere => writes = <<>>
    /\ create # Nowhere => in_step
FileTypes ==
    /\ steps \in Seq(CopyStep) /\ log \in Seq(Entry)
    /\ Len(log) = Len(steps) /\ Len(steps) <= MaxSteps
    /\ in_step => Len(steps) < MaxSteps
    /\ \A k \in DOMAIN steps : log[k].ids = steps[k].ids

\* Step m (from 1) holds the newest copy, or attribute, of the first k.
NewestData(m, k) ==
    /\ m \in 1 .. k /\ steps[m].data # Nowhere
    /\ \A n \in m + 1 .. k : steps[n].data = Nowhere
NewestAttr(m, k) ==
    /\ m \in 1 .. k /\ steps[m].attr
    /\ \A n \in m + 1 .. k : ~steps[n].attr

\* A dataset made in the open step: no copy is older. One made before has a
\* copy.
FirstInv ==
    /\ obj # "live" => \A k \in DOMAIN steps : steps[k].data = Nowhere
    /\ obj = "live" => \E k \in DOMAIN steps : steps[k].data # Nowhere
    /\ obj = "placeholder" =>
          /\ \A j \in DOMAIN writes : writes[j].hi <= create
          /\ \A i \in 1 .. create :
                plain[i] = IF Covered(i) THEN physical_step + 1 ELSE Fill

\* A dataset of an earlier step, written in the open one.
WrittenInv ==
    obj = "live" /\ create # Nowhere =>
        /\ writes # <<>> /\ low <= create
        /\ ~late => /\ View = create
                    /\ \A i \in 1 .. create : Covered(i) => plain[i] = physical_step + 1
        /\ \A j \in DOMAIN writes :
              \/ writes[j].lo = 1 /\ writes[j].hi = create
              \/ /\ writes[j].lo <= writes[j].hi
                 /\ HeadWrites \/ \A m \in DOMAIN steps :
                        NewestData(m, Len(steps)) => writes[j].lo > Len(steps[m].data)

\* What the open step has neither written nor cut is as in the newest copy.
KeptInv ==
    \A m \in DOMAIN steps : NewestData(m, Len(steps)) /\ log[Len(steps)].exact =>
        \A i \in 1 .. Len(steps[m].data) :
            i <= low /\ ~Covered(i) => plain[i] = steps[m].data[i]

\* The log and the copies: exactness is lost for good, an exact entry is the
\* newest copy, and an attribute is that of the newest step that has it.
LogInv ==
    /\ \A j, k \in DOMAIN steps : j <= k /\ log[k].exact => log[j].exact
    /\ \A k, m \in DOMAIN steps :
          /\ NewestData(m, k) /\ log[k].exact => log[k].data = steps[m].data
          /\ NewestAttr(m, k) => log[k].attr = m - 1

\* The reader's index names steps it has counted, the last one for each id.
IsIndex(r) ==
    /\ r = [index_built |-> r.index_built, n_steps_total |-> r.n_steps_total,
            map |-> r.map, current_step |-> r.current_step]
    /\ r.index_built \in BOOLEAN
    /\ r.n_steps_total \in 0 .. Len(steps)
    /\ r.current_step # Nowhere =>
          r.index_built /\ r.current_step \in 0 .. r.n_steps_total - 1
    /\ r.index_built =>
          /\ DOMAIN r.map \subseteq LogicalIds
          /\ \A id \in DOMAIN r.map :
                /\ r.map[id] \in 0 .. r.n_steps_total - 1
                /\ id \in steps[r.map[id] + 1].ids
                /\ \A k \in r.map[id] + 1 .. r.n_steps_total - 1 :
                      id \notin steps[k + 1].ids
IndexInv == IsIndex(rd)

HInv == OpenTypes /\ FileTypes /\ FirstInv /\ WrittenInv /\ KeptInv /\ LogInv /\ IndexInv

-----------------------------------------------------------------------------
(* Facts about the operators of the model.                                 *)

\* An open dataset shows an extent.
LEMMA ViewType ==
    ASSUME OpenTypes, obj # "none"
    PROVE  View \in Extents /\ View \in Nat /\ View <= MaxDim
           /\ DOMAIN plain = 1 .. View /\ Len(plain) = View
           /\ plain # Nowhere /\ plain \in Copies /\ CreateIndex \in Extents
<1>1. View \in Extents
  BY HistoryAssumption DEF OpenTypes, View
<1>2. View \in Nat /\ View <= MaxDim
  BY <1>1, HistoryAssumption DEF Extents
<1>3. plain \in [1 .. View -> 0 .. MaxSteps]
  BY DEF OpenTypes
<1>4. DOMAIN plain = 1 .. View /\ Len(plain) = View
  <2>1. plain \in Seq(0 .. MaxSteps)
    BY <1>2, <1>3, SeqDef
  <2> QED
    BY <1>2, <1>3, <2>1, LenProperties
<1>5. plain \in Copies
  BY <1>1, <1>3 DEF Copies
<1>6. plain # Nowhere
  BY <1>5, HistoryAssumption
<1>7. CreateIndex \in Extents
  BY <1>1 DEF CreateIndex, OpenTypes
<1> QED
  BY <1>1, <1>2, <1>4, <1>5, <1>6, <1>7

\* The entries of the file and of the log are typed.
LEMMA EntryTypes ==
    ASSUME FileTypes
    PROVE  /\ DOMAIN steps = 1 .. Len(steps) /\ DOMAIN log = 1 .. Len(steps)
           /\ Len(steps) \in Nat /\ physical_step = Len(steps)
           /\ \A k \in 1 .. Len(steps) :
                 /\ steps[k] \in CopyStep /\ log[k] \in Entry
                 /\ steps[k].data \in Copy /\ steps[k].attr \in BOOLEAN
                 /\ steps[k].ids \subseteq LogicalIds
                 /\ log[k].exact \in BOOLEAN
<1>1. DOMAIN steps = 1 .. Len(steps) /\ DOMAIN log = 1 .. Len(steps) /\ Len(steps) \in Nat
  BY LenProperties DEF FileTypes
<1>2. \A k \in 1 .. Len(steps) : steps[k] \in CopyStep /\ log[k] \in Entry
  BY <1>1, ElementOfSeq DEF FileTypes
<1>3. \A k \in 1 .. Len(steps) :
         /\ steps[k].data \in Copy /\ steps[k].attr \in BOOLEAN
         /\ steps[k].ids \subseteq LogicalIds /\ log[k].exact \in BOOLEAN
  BY <1>2 DEF CopyStep, Entry
<1> QED
  BY <1>1, <1>2, <1>3 DEF physical_step

\* A copy is a sequence.
LEMMA CopyLength ==
    ASSUME NEW c \in Copies
    PROVE  /\ c \in Seq(0 .. MaxSteps) /\ Len(c) \in Extents /\ DOMAIN c = 1 .. Len(c)
           /\ Len(c) \in Nat /\ c \in [1 .. Len(c) -> 0 .. MaxSteps] /\ c # Nowhere
<1>1. PICK n \in Extents : c \in [1 .. n -> 0 .. MaxSteps]
  BY DEF Copies
<1>2. n \in Nat
  BY <1>1, HistoryAssumption DEF Extents
<1>3. c \in Seq(0 .. MaxSteps)
  BY <1>1, <1>2, SeqDef
<1>4. Len(c) = n
  BY <1>1, <1>2, <1>3, LenProperties
<1>5. c # Nowhere
  BY HistoryAssumption
<1> QED
  BY <1>1, <1>2, <1>3, <1>4, <1>5

\* path_index_resolve returns the newest of the steps up to k, if any.
LEMMA ResolveFact ==
    ASSUME NEW b \in Nat, NEW S, S \subseteq 0 .. b, NEW k \in Int
    PROVE  /\ Resolve(S, k) = Nowhere => \A s \in S : s > k
           /\ Resolve(S, k) # Nowhere =>
                 /\ Resolve(S, k) \in S /\ Resolve(S, k) <= k
                 /\ \A s \in S : s <= k => s <= Resolve(S, k)
<1> DEFINE U == {s \in S : s <= k}
<1>1. CASE U = {}
  <2>1. Resolve(S, k) = Nowhere
    BY <1>1 DEF Resolve
  <2> QED
    BY <1>1, <2>1
<1>2. CASE U # {}
  <2>1. Resolve(S, k) = Max(U)
    BY <1>2 DEF Resolve
  <2>2. U \subseteq 0 .. b
    OBVIOUS
  <2>3. Max(U) \in U /\ \A y \in U : y <= Max(U)
    <3> HIDE DEF U
    <3> QED
      BY <1>2, <2>2, MaxBounded
  <2>4. Max(U) # Nowhere
    BY <2>2, <2>3, HistoryAssumption
  <2> QED
    BY <2>1, <2>3, <2>4
<1> QED
  BY <1>1, <1>2

\* The copy and the attribute that a reader at step c (from 0) resolves to.
LEMMA ResolveData ==
    ASSUME FileTypes, NEW n \in 0 .. Len(steps), NEW c \in 0 .. n - 1,
           Resolve(DataSteps(n), c) # Nowhere
    PROVE  /\ Resolve(DataSteps(n), c) \in 0 .. c
           /\ NewestData(Resolve(DataSteps(n), c) + 1, c + 1)
<1> DEFINE S == DataSteps(n)
           at == Resolve(S, c)
<1>1. n \in Nat /\ c \in Int /\ S \subseteq 0 .. n
  BY EntryTypes DEF DataSteps
<1>2. S = {k \in 0 .. n - 1 : steps[k + 1].data # Nowhere}
  BY DEF DataSteps
<1> HIDE DEF S
<1>3. at \in S /\ at <= c /\ \A s \in S : s <= c => s <= at
  BY <1>1, ResolveFact DEF S
<1> HIDE DEF at
<1>4. \A m \in at + 2 .. c + 1 : steps[m].data = Nowhere
  <2> TAKE m \in at + 2 .. c + 1
  <2>1. m - 1 \in 0 .. n - 1 /\ m - 1 <= c /\ m - 1 > at /\ (m - 1) + 1 = m
    BY <1>1, <1>2, <1>3
  <2>2. m - 1 \notin S
    <3> SUFFICES ASSUME m - 1 \in S PROVE FALSE
      OBVIOUS
    <3>1. m - 1 <= at /\ at \in Int
      BY <1>1, <1>3, <2>1
    <3> QED
      BY <2>1, <3>1
  <2> QED
    BY <1>2, <2>1, <2>2
<1>5. at \in 0 .. c /\ at + 1 \in 1 .. c + 1 /\ steps[at + 1].data # Nowhere /\ (at + 1) + 1 = at + 2
  BY <1>1, <1>2, <1>3
<1> QED
  BY <1>4, <1>5 DEF NewestData, at, S
\* The same for the attribute.
LEMMA ResolveAttr ==
    ASSUME FileTypes, NEW n \in 0 .. Len(steps), NEW c \in 0 .. n - 1,
           Resolve(AttrSteps(n), c) # Nowhere
    PROVE  /\ Resolve(AttrSteps(n), c) \in 0 .. c
           /\ NewestAttr(Resolve(AttrSteps(n), c) + 1, c + 1)
<1> DEFINE S == AttrSteps(n)
           at == Resolve(S, c)
<1>1. n \in Nat /\ c \in Int /\ S \subseteq 0 .. n
  BY EntryTypes DEF AttrSteps
<1>2. S = {k \in 0 .. n - 1 : steps[k + 1].attr}
  BY DEF AttrSteps
<1> HIDE DEF S
<1>3. at \in S /\ at <= c /\ \A s \in S : s <= c => s <= at
  BY <1>1, ResolveFact DEF S
<1> HIDE DEF at
<1>4. \A m \in at + 2 .. c + 1 : ~steps[m].attr
  <2> TAKE m \in at + 2 .. c + 1
  <2>1. m - 1 \in 0 .. n - 1 /\ m - 1 <= c /\ m - 1 > at /\ (m - 1) + 1 = m
    BY <1>1, <1>2, <1>3
  <2>2. m - 1 \notin S
    <3> SUFFICES ASSUME m - 1 \in S PROVE FALSE
      OBVIOUS
    <3>1. m - 1 <= at /\ at \in Int
      BY <1>1, <1>3, <2>1
    <3> QED
      BY <2>1, <3>1
  <2> QED
    BY <1>2, <2>1, <2>2
<1>5. at \in 0 .. c /\ at + 1 \in 1 .. c + 1 /\ steps[at + 1].attr /\ (at + 1) + 1 = at + 2
  BY <1>1, <1>2, <1>3
<1> QED
  BY <1>4, <1>5 DEF NewestAttr, at, S

\* The newest copy of the file, which a write and carry_forward_resized look
\* for: there is none, or it is the only one that NewestData allows.
LEMMA NewestFact ==
    ASSUME FileTypes
    PROVE  /\ Newest = Nowhere => \A k \in DOMAIN steps : steps[k].data = Nowhere
           /\ Newest # Nowhere => /\ Newest + 1 \in DOMAIN steps
                                  /\ NewestData(Newest + 1, Len(steps))
                                  /\ OldExtent = Len(steps[Newest + 1].data)
           /\ Resolve(DataSteps(physical_step), physical_step - 1) = Newest
<1> DEFINE n == Len(steps)
           S == DataSteps(n)
<1>1. n \in Nat /\ DOMAIN steps = 1 .. n /\ physical_step = n
  BY EntryTypes
<1>2. S = {k \in 0 .. n - 1 : steps[k + 1].data # Nowhere}
  BY DEF DataSteps
<1>3. Newest = Resolve(S, n)
  BY <1>1 DEF Newest
<1> HIDE DEF n, S
<1>4. S \subseteq 0 .. n /\ \A s \in S : s <= n - 1 /\ s <= n
  BY <1>1, <1>2
<1>5. {s \in S : s <= n} = {s \in S : s <= n - 1}
  BY <1>4
<1>6. Resolve(S, n - 1) = Newest
  BY <1>3, <1>5 DEF Resolve
<1>7. CASE Newest = Nowhere
  <2>1. S = {}
    <3>1. n \in Int /\ S \subseteq 0 .. n /\ Resolve(S, n) = Nowhere
      BY <1>1, <1>3, <1>4, <1>7
    <3>2. \A s \in S : s > n
      BY <1>1, <3>1, ResolveFact
    <3> QED
      BY <1>1, <1>4, <3>2
  <2>2. ASSUME NEW k \in 1 .. n PROVE steps[k].data = Nowhere
    <3>1. k - 1 \in 0 .. n - 1 /\ (k - 1) + 1 = k
      BY <1>1
    <3> QED
      BY <1>2, <2>1, <3>1
  <2> QED
    BY <1>1, <1>6, <1>7, <2>2 DEF n, S
<1>8. CASE Newest # Nowhere
  <2>1. Newest \in S
    <3>1. n \in Int
      BY <1>1
    <3> QED
      BY <1>1, <1>3, <1>4, <1>8, <3>1, ResolveFact
  <2>2. n \in 0 .. n /\ n - 1 \in 0 .. n - 1
    BY <1>1, <1>2, <2>1
  <2>3. NewestData(Newest + 1, n - 1 + 1)
    BY <1>6, <1>8, <2>2, ResolveData DEF n, S
  <2>4. NewestData(Newest + 1, n) /\ Newest + 1 \in 1 .. n
    BY <1>1, <2>1, <1>2, <2>3
  <2> QED
    BY <1>1, <1>6, <1>8, <2>4 DEF n, S, OldExtent
<1> QED
  BY <1>7, <1>8
\* One step is the newest with data.
LEMMA NewestUnique ==
    ASSUME NEW k \in Nat, NEW m, NEW n, NewestData(m, k), NewestData(n, k)
    PROVE  m = n
<1>1. m \in 1 .. k /\ n \in 1 .. k
  BY DEF NewestData
<1>2. ~(m < n)
  <2> SUFFICES ASSUME m < n PROVE FALSE
    OBVIOUS
  <2>1. n \in m + 1 .. k
    BY <1>1
  <2> QED
    BY <2>1 DEF NewestData
<1>3. ~(n < m)
  <2> SUFFICES ASSUME n < m PROVE FALSE
    OBVIOUS
  <2>1. m \in n + 1 .. k
    BY <1>1
  <2> QED
    BY <2>1 DEF NewestData
<1> QED
  BY <1>1, <1>2, <1>3

\* carry_forward_resized counts at least the elements that were written.
LEMMA TotalBound ==
    ASSUME OpenTypes, NEW n \in Extents, \A i \in 1 .. n : Covered(i)
    PROVE  WrittenTotal \in Nat /\ n <= WrittenTotal
<1> DEFINE P == {e \in (DOMAIN writes) \X (1 .. MaxDim) : Covers(writes[e[1]], e[2])}
<1>1. n \in Nat /\ n <= MaxDim /\ MaxDim \in Nat
  BY HistoryAssumption DEF Extents
<1>2. IsFiniteSet(P)
  <2>1. writes \in Seq(Span)
    BY DEF OpenTypes
  <2>2. DOMAIN writes = 1 .. Len(writes) /\ Len(writes) \in Nat
    BY <2>1, LenProperties
  <2>3. IsFiniteSet(1 .. Len(writes)) /\ IsFiniteSet(1 .. MaxDim)
    BY <1>1, <2>2, FS_Interval
  <2>4. IsFiniteSet((1 .. Len(writes)) \X (1 .. MaxDim))
    BY <2>3, FS_Product
  <2>5. P \subseteq (1 .. Len(writes)) \X (1 .. MaxDim)
    BY <2>2
  <2> HIDE DEF P
  <2> QED
    BY <2>4, <2>5, FS_Subset
<1>3. \A i \in 1 .. n : \E e \in P : e[2] = i
  <2> TAKE i \in 1 .. n
  <2>1. PICK j \in DOMAIN writes : Covers(writes[j], i)
    BY DEF Covered
  <2>2. <<j, i>> \in P
    BY <1>1, <2>1
  <2> QED
    BY <2>2
<1>4. WrittenTotal = Cardinality(P)
  BY DEF WrittenTotal
<1> HIDE DEF P
<1> DEFINE Q == {e[2] : e \in P}
<1>5. IsFiniteSet(Q) /\ Cardinality(Q) <= Cardinality(P)
  <2> DEFINE f == [e \in P |-> e[2]]
  <2>1. f \in Surjection(P, Q)
    BY DEF Surjection
  <2> HIDE DEF f
  <2> QED
    BY <1>2, <2>1, FS_Surjection
<1>6. 1 .. n \subseteq Q
  BY <1>3
<1>7. Cardinality(1 .. n) = n
  BY <1>1, FS_Interval
<1> HIDE DEF Q
<1>8. Cardinality(1 .. n) <= Cardinality(Q)
  BY <1>5, <1>6, FS_Subset
<1>9. Cardinality(P) \in Nat /\ Cardinality(Q) \in Nat
  BY <1>2, <1>5, FS_CardinalityType
<1> QED
  BY <1>1, <1>4, <1>5, <1>7, <1>8, <1>9
\* A set of ids is listed in ascending order, each one once.
LEMMA AscendingFact ==
    ASSUME NEW S, S \subseteq LogicalIds
    PROVE  /\ IsFiniteSet(S) /\ Cardinality(S) \in Nat
           /\ Cardinality(S) <= Cardinality(LogicalIds)
           /\ Ascending(S) \in [1 .. Cardinality(S) -> S]
           /\ \A i, j \in 1 .. Cardinality(S) : i < j => Ascending(S)[i] < Ascending(S)[j]
<1> DEFINE c == Cardinality(S)
           Upto(x) == {y \in S : y <= x}
<1>1. IsFiniteSet(S) /\ c \in Nat /\ c <= Cardinality(LogicalIds)
  BY HistoryAssumption, FS_Subset, FS_CardinalityType
<1>2. S \subseteq Nat
  BY HistoryAssumption
<1>3. /\ \A x \in S : Cardinality(Upto(x)) \in 1 .. c
      /\ \A x, y \in S : x < y => Cardinality(Upto(x)) < Cardinality(Upto(y))
      /\ \A i \in 1 .. c : \E x \in S : Cardinality(Upto(x)) = i
  BY <1>1, <1>2, NumbersEnumerated, Zenon
<1> HIDE DEF Upto
<1>4. ASSUME NEW i \in 1 .. c
      PROVE  Ascending(S)[i] \in S /\ Cardinality(Upto(Ascending(S)[i])) = i
  <2>1. Ascending(S)[i] = CHOOSE x \in S : Cardinality(Upto(x)) = i
    BY DEF Ascending, Upto
  <2> HIDE DEF c
  <2> QED
    BY <1>3, <2>1
<1>5. Ascending(S) \in [1 .. c -> S]
  <2>1. Ascending(S) = [i \in 1 .. c |-> Ascending(S)[i]]
    BY DEF Ascending
  <2> HIDE DEF c
  <2> QED
    BY <1>4, <2>1
<1>6. ASSUME NEW i \in 1 .. c, NEW j \in 1 .. c, i < j
      PROVE  Ascending(S)[i] < Ascending(S)[j]
  <2> DEFINE x == Ascending(S)[i]
             y == Ascending(S)[j]
  <2>1. x \in S /\ y \in S /\ Cardinality(Upto(x)) = i /\ Cardinality(Upto(y)) = j
    BY <1>4
  <2>2. x \in Nat /\ y \in Nat
    BY <1>2, <2>1
  <2> HIDE DEF x, y, c
  <2>3. i \in Int /\ j \in Int
    BY <1>1
  <2>4. x # y
    BY <1>6, <2>1, <2>3
  <2>5. ~(y < x)
    BY <1>3, <1>6, <2>1, <2>3
  <2> QED
    BY <2>2, <2>4, <2>5 DEF x, y
<1> QED
  BY <1>1, <1>5, <1>6

-----------------------------------------------------------------------------
(* What the actions do.                                                    *)

\* A write of either kind.
WriteCase(w, all) ==
    /\ w \in Span /\ obj # "none"
    /\ WriteSpan(w, all)
    /\ all => w.lo = 1 /\ w.hi = CreateIndex
    /\ ~all => w.lo <= w.hi /\ w.hi <= View /\ (HeadWrites \/ w.lo > OldExtent)

\* A step is an action of the writer, or leaves the writer's state alone.
LEMMA NextCases ==
    ASSUME OpenTypes, [Next]_vars
    PROVE  \/ \E ids \in SUBSET LogicalIds : BeginStep(ids)
           \/ \E n \in FirstExtents : DatasetCreate(n)
           \/ \E n \in Extents \ {0} : SetExtentPlaceholder(n)
           \/ \E n \in Extents \ {0} : SetExtentLive(n)
           \/ \E w, all : all \in BOOLEAN /\ WriteCase(w, all)
           \/ AttrWrite
           \/ EndStep
           \/ UNCHANGED writerVars
<1>1. CASE DatasetWrite
  <2>1. PICK w \in Span : /\ w.lo <= w.hi /\ w.hi <= View /\ (HeadWrites \/ w.lo > OldExtent)
                          /\ WriteSpan(w, FALSE) /\ obj # "none"
    BY <1>1 DEF DatasetWrite
  <2>2. WriteCase(w, FALSE)
    BY <2>1 DEF WriteCase
  <2> QED
    BY <2>2
<1>2. CASE DatasetWriteAll
  <2> DEFINE w == [lo |-> 1, hi |-> CreateIndex]
  <2>1. obj # "none" /\ WriteSpan(w, TRUE)
    BY <1>2 DEF DatasetWriteAll
  <2>2. w \in Span
    BY <2>1, ViewType, HistoryAssumption DEF Span, Extents
  <2>3. w.lo = 1 /\ w.hi = CreateIndex
    OBVIOUS
  <2> HIDE DEF w
  <2>4. WriteCase(w, TRUE)
    BY <2>1, <2>2, <2>3 DEF WriteCase
  <2> QED
    BY <2>4
<1>3. CASE \/ ReaderBeginStep
           \/ \E id \in LogicalIds : BeginLogicalStep(id)
           \/ \E cap \in 1 .. Cardinality(LogicalIds) : GetLogicalSteps(cap)
           \/ ReaderOpenDataset \/ ReaderOpenAttr \/ ReaderReopen
  BY <1>3 DEF ReaderBeginStep, BeginLogicalStep, GetLogicalSteps, ReaderOpenDataset,
              ReaderOpenAttr, ReaderReopen
<1>4. CASE UNCHANGED vars
  BY <1>4 DEF vars
<1> QED
  BY <1>1, <1>2, <1>3, <1>4 DEF Next

\* A write entry covers what the step has written, and more.
LEMMA CoveredWrite ==
    ASSUME OpenTypes, NEW w, NEW all, WriteCase(w, all), NEW i
    PROVE  Covered(i)' <=> Covered(i) \/ Covers(w, i)
<1>1. writes' = Append(writes, w) /\ writes \in Seq(Span) /\ w \in Span
  BY DEF WriteCase, WriteSpan, OpenTypes
<1>2. /\ DOMAIN writes = 1 .. Len(writes) /\ Len(writes) \in Nat
      /\ DOMAIN writes' = 1 .. Len(writes) + 1
      /\ \A j \in 1 .. Len(writes) : writes'[j] = writes[j]
      /\ writes'[Len(writes) + 1] = w
  BY <1>1, AppendProperties, LenProperties
<1> QED
  BY <1>2 DEF Covered, Covers

\* After a resize the common part is as before, the rest is the fill value.
LEMMA ResizeFact ==
    ASSUME NEW m \in Nat, NEW n \in Nat, NEW c \in [1 .. m -> 0 .. MaxSteps], Len(c) = m
    PROVE  /\ Resized(c, n) \in [1 .. n -> 0 .. MaxSteps]
           /\ \A i \in 1 .. n : Resized(c, n)[i] = IF i <= m THEN c[i] ELSE Fill
  BY HistoryAssumption DEF Resized, Fill

\* The copy that end_step stores is a copy.
LEMMA CarriedType ==
    ASSUME OpenTypes, FileTypes, create # Nowhere, in_step
    PROVE  /\ Replayed \in Copies /\ Len(Replayed) = create
           /\ CarryForward(Replayed) \in Copies /\ Len(CarryForward(Replayed)) = create
           /\ \A i \in 1 .. create :
                 Replayed[i] = IF Covered(i) THEN physical_step + 1 ELSE Fill
           /\ CarryForward(Replayed) =
                 IF Newest # Nowhere /\ CarryForwardGate(OldExtent, create, WrittenTotal)
                 THEN [i \in 1 .. create |-> IF i <= OldExtent THEN steps[Newest + 1].data[i]
                                             ELSE Replayed[i]]
                 ELSE Replayed
<1> USE HistoryAssumption
<1>1. create \in Extents /\ create \in Nat
  BY DEF OpenTypes, Extents
<1>2. physical_step + 1 \in 0 .. MaxSteps /\ Fill \in 0 .. MaxSteps
  BY EntryTypes DEF FileTypes, Fill
<1>3. Replayed \in [1 .. create -> 0 .. MaxSteps]
  BY <1>2 DEF Replayed
<1>4. Replayed \in Copies
  BY <1>1, <1>3 DEF Copies
<1>5. Len(Replayed) = create /\ DOMAIN Replayed = 1 .. create
  BY <1>1, <1>3, <1>4, CopyLength
<1>6. \A i \in 1 .. create : Replayed[i] = IF Covered(i) THEN physical_step + 1 ELSE Fill
  BY DEF Replayed, Covered
<1> DEFINE carried == [i \in 1 .. create |-> IF i <= OldExtent THEN steps[Newest + 1].data[i]
                                             ELSE Replayed[i]]
<1>7. CarryForward(Replayed) =
         IF Newest # Nowhere /\ CarryForwardGate(OldExtent, create, WrittenTotal)
         THEN carried ELSE Replayed
  <2> DEFINE prev == Resolve(DataSteps(physical_step), physical_step - 1)
  <2>1. prev = Newest
    BY NewestFact
  <2>2. Newest # Nowhere => OldExtent = Len(steps[Newest + 1].data)
    BY NewestFact
  <2>3. CarryForward(Replayed) =
           IF prev # Nowhere /\ CarryForwardGate(Len(steps[prev + 1].data), Len(Replayed), WrittenTotal)
           THEN [i \in DOMAIN Replayed |-> IF i <= Len(steps[prev + 1].data)
                                           THEN steps[prev + 1].data[i] ELSE Replayed[i]]
           ELSE Replayed
    BY DEF CarryForward
  <2> HIDE DEF prev
  <2> QED
    BY <1>5, <2>1, <2>2, <2>3
<1>8. CASE Newest # Nowhere
  <2>1. steps[Newest + 1].data \in Copies
    BY <1>8, NewestFact, EntryTypes DEF Copy, NewestData
  <2>2. OldExtent = Len(steps[Newest + 1].data)
    BY <1>8, NewestFact
  <2>3. OldExtent \in Nat /\ steps[Newest + 1].data \in [1 .. OldExtent -> 0 .. MaxSteps]
    BY <2>1, <2>2, CopyLength
  <2>4. carried \in [1 .. create -> 0 .. MaxSteps]
    BY <1>1, <1>3, <2>3
  <2>5. carried \in Copies
    BY <1>1, <2>4 DEF Copies
  <2> HIDE DEF carried
  <2>6. Len(carried) = create
    BY <1>1, <2>4, <2>5, CopyLength
  <2>7. CarryForward(Replayed) \in Copies /\ Len(CarryForward(Replayed)) = create
    BY <1>4, <1>5, <1>7, <2>5, <2>6
  <2> QED
    BY <1>4, <1>5, <1>6, <1>7, <2>7 DEF carried
<1>9. CASE Newest = Nowhere
  BY <1>4, <1>5, <1>6, <1>7, <1>9
<1> QED
  BY <1>8, <1>9


\* The step and the log entry that end_step adds.
NewData == IF create = Nowhere THEN Nowhere ELSE CarryForward(Replayed)
EndFact ==
    LET k == Len(steps) + 1 IN
    /\ steps' \in Seq(CopyStep) /\ Len(steps') = k
    /\ log' \in Seq(Entry) /\ Len(log') = k
    /\ \A i \in 1 .. Len(steps) : steps'[i] = steps[i] /\ log'[i] = log[i]
    /\ steps'[k].ids = logical_ids /\ steps'[k].data = NewData
    /\ steps'[k].attr = attr_entry /\ steps'[k].writes = writes
    /\ log'[k].ids = logical_ids /\ log'[k].data = plain
    /\ attr_entry => log'[k].attr = k - 1
    /\ ~attr_entry /\ k # 1 => log'[k].attr = log[k - 1].attr
    /\ log'[k].exact <=> (k = 1 \/ log[k - 1].exact) /\ Ordinary
\* EndStep does this.
LEMMA EndEffect ==
    ASSUME OpenTypes, FileTypes, EndStep
    PROVE  EndFact
<1> DEFINE k == Len(steps) + 1
           last == IF log = <<>> THEN [exact |-> TRUE, attr |-> Nowhere] ELSE log[Len(log)]
           e == [ids |-> logical_ids, ext |-> create, writes |-> writes,
                 data |-> NewData, attr |-> attr_entry]
           f == [ids |-> logical_ids, data |-> plain,
                 attr |-> IF attr_entry THEN physical_step ELSE last.attr,
                 exact |-> last.exact /\ Ordinary]
<1>1. steps' = Append(steps, e) /\ log' = Append(log, f)
  BY DEF EndStep, NewData
<1>2. Len(steps) \in Nat /\ Len(log) = Len(steps) /\ physical_step = Len(steps)
      /\ in_step /\ Len(steps) < MaxSteps
  BY EntryTypes DEF EndStep, FileTypes
<1>3. log = <<>> <=> Len(steps) = 0
  BY <1>2, EmptySeq DEF FileTypes
<1>4. NewData \in Copy
  BY <1>2, CarriedType DEF NewData, Copy
<1>5. e \in CopyStep
  BY <1>4 DEF CopyStep, OpenTypes
<1>6. plain \in Copy
  BY ViewType DEF Copy, OpenTypes
<1>7. last.attr \in 0 .. MaxSteps \cup {Nowhere} /\ last.exact \in BOOLEAN
  <2>1. CASE log = <<>>
    BY <2>1
  <2>2. CASE log # <<>>
    <3>1. Len(steps) \in 1 .. Len(steps)
      BY <1>2, <1>3, <2>2
    <3>2. log[Len(log)] \in Entry
      BY <1>2, <3>1, EntryTypes
    <3> QED
      BY <2>2, <3>2 DEF Entry
  <2> QED
    BY <2>1, <2>2
<1>8. /\ last.exact <=> k = 1 \/ log[k - 1].exact
      /\ k # 1 => last.attr = log[k - 1].attr
  BY <1>2, <1>3
<1> HIDE DEF last
<1>9. f \in Entry
  <2>1. physical_step \in 0 .. MaxSteps
    BY <1>2, HistoryAssumption
  <2>2. (IF attr_entry THEN physical_step ELSE last.attr) \in 0 .. MaxSteps \cup {Nowhere}
    BY <1>7, <2>1
  <2>3. (last.exact /\ Ordinary) \in BOOLEAN
    OBVIOUS
  <2> QED
    BY <1>6, <2>2, <2>3 DEF Entry, OpenTypes
<1>10. /\ e.ids = logical_ids /\ e.data = NewData /\ e.attr = attr_entry /\ e.writes = writes
       /\ f.ids = logical_ids /\ f.data = plain
       /\ attr_entry => f.attr = k - 1
       /\ ~attr_entry => f.attr = last.attr
  BY <1>2
<1>14. f.exact <=> last.exact /\ Ordinary
  BY Zenon
<1> HIDE DEF e, f
<1>11. /\ steps' \in Seq(CopyStep) /\ Len(steps') = k /\ steps'[k] = e
       /\ \A i \in 1 .. Len(steps) : steps'[i] = steps[i]
  BY <1>1, <1>5, AppendProperties DEF FileTypes
<1>12. /\ log' \in Seq(Entry) /\ Len(log') = k /\ log'[k] = f
       /\ \A i \in 1 .. Len(steps) : log'[i] = log[i]
  BY <1>1, <1>2, <1>9, AppendProperties DEF FileTypes
<1>13. k - 1 = Len(steps)
  BY <1>2
<1> QED
  BY <1>8, <1>10, <1>11, <1>12, <1>13, <1>14 DEF EndFact

\* What earlier steps resolve to does not change when a step is added.
LEMMA NewestStable ==
    ASSUME FileTypes, EndFact, NEW j \in 0 .. Len(steps), NEW m
    PROVE  /\ NewestData(m, j)' <=> NewestData(m, j)
           /\ NewestAttr(m, j)' <=> NewestAttr(m, j)
<1>1. Len(steps) \in Nat
  BY EntryTypes
<1>2. \A i \in 1 .. j : steps'[i] = steps[i]
  BY <1>1 DEF EndFact
<1> QED
  BY <1>1, <1>2 DEF NewestData, NewestAttr

\* The newest copy after a step is added: its own, or the one before.
LEMMA NewestAfter ==
    ASSUME OpenTypes, FileTypes, EndFact, in_step, NEW m,
           NEW n \in Nat, n = Len(steps), NEW k \in Nat, k = n + 1
    PROVE  /\ NewestData(m, k)' <=>
                 IF create # Nowhere THEN m = k ELSE NewestData(m, n)
           /\ NewestAttr(m, k)' <=>
                 IF attr_entry THEN m = k ELSE NewestAttr(m, n)
<1>1. n \in Nat /\ k \in Nat /\ k = n + 1
  OBVIOUS
<1>2. steps'[k].data = NewData /\ steps'[k].attr = attr_entry
  BY DEF EndFact
<1>3. create # Nowhere <=> NewData # Nowhere
  BY CarriedType, CopyLength DEF NewData
<1>4. \A i \in 1 .. n : steps'[i] = steps[i]
  BY DEF EndFact
<1>5. attr_entry \in BOOLEAN
  BY DEF OpenTypes
<1>7. NewestData(m, k)' <=> IF create # Nowhere THEN m = k ELSE NewestData(m, n)
  <2>1. CASE create # Nowhere
    <3>1. m = k => NewestData(m, k)'
      <4> SUFFICES ASSUME m = k PROVE NewestData(m, k)'
        OBVIOUS
      <4>1. m \in 1 .. k /\ \A i \in m + 1 .. k : FALSE
        BY <1>1
      <4> QED
        BY <1>2, <1>3, <2>1, <4>1 DEF NewestData
    <3>2. NewestData(m, k)' => m = k
      <4> SUFFICES ASSUME NewestData(m, k)', m # k PROVE FALSE
        OBVIOUS
      <4>1. m \in 1 .. k /\ k \in m + 1 .. k
        BY <1>1 DEF NewestData
      <4> QED
        BY <1>2, <1>3, <2>1, <4>1 DEF NewestData
    <3> QED
      BY <2>1, <3>1, <3>2
  <2>2. CASE create = Nowhere
    <3>1. NewestData(m, n) => NewestData(m, k)'
      BY <1>1, <1>2, <1>3, <1>4, <2>2 DEF NewestData
    <3>2. NewestData(m, k)' => NewestData(m, n)
      BY <1>1, <1>2, <1>3, <1>4, <2>2 DEF NewestData
    <3> QED
      BY <2>2, <3>1, <3>2
  <2> QED
    BY <2>1, <2>2
<1>8. NewestAttr(m, k)' <=> IF attr_entry THEN m = k ELSE NewestAttr(m, n)
  <2>1. CASE attr_entry
    <3>1. m = k => NewestAttr(m, k)'
      <4> SUFFICES ASSUME m = k PROVE NewestAttr(m, k)'
        OBVIOUS
      <4>1. m \in 1 .. k /\ \A i \in m + 1 .. k : FALSE
        BY <1>1
      <4> QED
        BY <1>2, <2>1, <4>1 DEF NewestAttr
    <3>2. NewestAttr(m, k)' => m = k
      <4> SUFFICES ASSUME NewestAttr(m, k)', m # k PROVE FALSE
        OBVIOUS
      <4>1. m \in 1 .. k /\ k \in m + 1 .. k
        BY <1>1 DEF NewestAttr
      <4> QED
        BY <1>2, <2>1, <4>1 DEF NewestAttr
    <3> QED
      BY <2>1, <3>1, <3>2
  <2>2. CASE ~attr_entry
    <3>1. NewestAttr(m, n) => NewestAttr(m, k)'
      BY <1>1, <1>2, <1>4, <2>2 DEF NewestAttr
    <3>2. NewestAttr(m, k)' => NewestAttr(m, n)
      BY <1>1, <1>2, <1>4, <2>2 DEF NewestAttr
    <3> QED
      BY <2>2, <3>1, <3>2
  <2> QED
    BY <2>1, <2>2
<1> QED
  BY <1>7, <1>8


-----------------------------------------------------------------------------
(* Every step keeps the invariant.                                         *)

\* The types of the open step.
LEMMA OpenTypesStep ==
    ASSUME OpenTypes, FileTypes, [Next]_vars
    PROVE  OpenTypes'
<1> USE HistoryAssumption
<1>1. ASSUME NEW ids \in SUBSET LogicalIds, BeginStep(ids) PROVE OpenTypes'
  BY <1>1 DEF BeginStep, captureVars, historyVars, OpenTypes, View
<1>2. ASSUME NEW n \in FirstExtents, DatasetCreate(n) PROVE OpenTypes'
  <2>1. n \in Extents /\ n \in Nat /\ n # Nowhere
    BY DEF Extents
  <2>2. /\ in_step /\ obj' = "placeholder" /\ create' = n /\ low' = n
        /\ plain' = [i \in 1 .. n |-> Fill]
        /\ UNCHANGED <<in_step, logical_ids, under, pending_resize_space, writes,
                       attr_entry, late>>
    BY <1>2 DEF DatasetCreate
  <2>3. View' = n /\ pending_resize_space = Nowhere
    BY <1>2, <2>2 DEF View, OpenTypes, DatasetCreate
  <2>4. plain' \in [1 .. n -> 0 .. MaxSteps]
    BY <2>2 DEF Fill
  <2> QED
    BY <2>1, <2>2, <2>3, <2>4 DEF OpenTypes
<1>3. ASSUME NEW n \in Extents \ {0}, SetExtentPlaceholder(n) PROVE OpenTypes'
  <2>1. /\ in_step /\ obj = "placeholder" /\ create' = n
        /\ plain' = Resized(plain, n) /\ low' = IF n < low THEN n ELSE low
        /\ UNCHANGED <<in_step, logical_ids, obj, under, pending_resize_space, writes,
                       attr_entry, late>>
    BY <1>3 DEF SetExtentPlaceholder, ResizePlain
  <2>2. View' = n /\ n \in Nat /\ n # Nowhere /\ low \in Nat
    BY <2>1 DEF View, Extents, OpenTypes
  <2>3. plain' \in [1 .. n -> 0 .. MaxSteps]
    BY <2>1, <2>2, ViewType, ResizeFact DEF OpenTypes
  <2> QED
    BY <2>1, <2>2, <2>3 DEF OpenTypes
<1>4. ASSUME NEW n \in Extents \ {0}, SetExtentLive(n) PROVE OpenTypes'
  <2>1. /\ in_step /\ obj = "live" /\ pending_resize_space' = n
        /\ plain' = Resized(plain, n) /\ low' = IF n < low THEN n ELSE low
        /\ late' = (late \/ create # Nowhere)
        /\ UNCHANGED <<in_step, logical_ids, obj, under, create, writes, attr_entry>>
    BY <1>4 DEF SetExtentLive, ResizePlain
  <2>2. View' = n /\ n \in Nat /\ n # Nowhere /\ low \in Nat
    BY <2>1 DEF View, Extents, OpenTypes
  <2>3. plain' \in [1 .. n -> 0 .. MaxSteps]
    BY <2>1, <2>2, ViewType, ResizeFact DEF OpenTypes
  <2> QED
    BY <2>1, <2>2, <2>3 DEF OpenTypes
<1>5. ASSUME NEW w, NEW all \in BOOLEAN, WriteCase(w, all) PROVE OpenTypes'
  <2>1. /\ in_step /\ obj # "none" /\ w \in Span
        /\ writes' = Append(writes, w) /\ create' = CreateIndex
        /\ plain' = [i \in DOMAIN plain |->
                       IF all \/ Covers(w, i) THEN physical_step + 1 ELSE plain[i]]
        /\ UNCHANGED <<in_step, logical_ids, obj, under, pending_resize_space,
                       attr_entry, low, late>>
    BY <1>5 DEF WriteCase, WriteSpan
  <2>2. CreateIndex \in Extents /\ CreateIndex # Nowhere /\ DOMAIN plain = 1 .. View
    BY <2>1, ViewType DEF Extents
  <2>3. View' = View
    BY <2>1 DEF View, CreateIndex, OpenTypes
  <2>4. physical_step + 1 \in 0 .. MaxSteps
    BY <2>1, EntryTypes DEF FileTypes
  <2>5. plain' \in [1 .. View -> 0 .. MaxSteps]
    BY <2>1, <2>2, <2>4 DEF OpenTypes
  <2>6. writes' \in Seq(Span)
    BY <2>1, AppendProperties DEF OpenTypes
  <2> QED
    BY <2>1, <2>2, <2>3, <2>5, <2>6 DEF OpenTypes
<1>6. CASE AttrWrite
  BY <1>6 DEF AttrWrite, historyVars, OpenTypes, View
<1>7. CASE EndStep
  <2>1. /\ in_step /\ in_step' = FALSE
        /\ obj' = IF obj = "placeholder" THEN "live" ELSE obj
        /\ under' = IF obj = "placeholder" THEN create ELSE under
        /\ create' = Nowhere /\ writes' = <<>> /\ attr_entry' = FALSE /\ late' = FALSE
        /\ low' = IF create = Nowhere THEN low ELSE Len(plain)
        /\ logical_ids' = {}
        /\ UNCHANGED <<pending_resize_space, plain>>
    BY <1>7 DEF EndStep
  <2>2. View' = View \/ obj = "none"
    BY <2>1 DEF View, OpenTypes
  <2>3. obj # "none" => low' \in Extents /\ low' <= View
    BY <2>1, ViewType DEF OpenTypes
  <2>4. obj = "none" => low' = low
    BY <2>1 DEF OpenTypes
  <2>5. writes' \in Seq(Span)
    BY <2>1
  <2> QED
    BY <2>1, <2>2, <2>3, <2>4, <2>5 DEF OpenTypes
<1>8. CASE UNCHANGED writerVars
  BY <1>8 DEF writerVars, captureVars, historyVars, OpenTypes, View
<1> QED
  BY <1>1, <1>2, <1>3, <1>4, <1>5, <1>6, <1>7, <1>8, NextCases

\* Everything that leaves the file and the log alone.
LEMMA FileKept ==
    ASSUME OpenTypes, [Next]_vars, ~EndStep
    PROVE  UNCHANGED <<steps, log>>
<1> QED
  BY NextCases DEF BeginStep, DatasetCreate, SetExtentPlaceholder, SetExtentLive, WriteCase,
     WriteSpan, AttrWrite, writerVars

\* The types of what is in the file are kept.
LEMMA FileTypesStep ==
    ASSUME OpenTypes, FileTypes, [Next]_vars
    PROVE  FileTypes'
<1>1. CASE EndStep
  <2>1. EndFact
    BY <1>1, EndEffect
  <2>2. in_step /\ ~in_step' /\ Len(steps) \in Nat /\ DOMAIN steps = 1 .. Len(steps)
    BY <1>1, EntryTypes DEF EndStep
  <2>3. DOMAIN steps' = 1 .. Len(steps) + 1
    BY <2>1, <2>2, LenProperties DEF EndFact
  <2>4. \A k \in DOMAIN steps' : log'[k].ids = steps'[k].ids
    BY <2>1, <2>2, <2>3 DEF EndFact, FileTypes
  <2> QED
    BY <2>1, <2>2, <2>4, HistoryAssumption DEF EndFact, FileTypes
<1>2. CASE ~EndStep
  <2>1. UNCHANGED <<steps, log>>
    BY <1>2, FileKept
  <2>2. in_step' => in_step \/ Len(steps) < MaxSteps
    BY <1>2, NextCases DEF BeginStep, DatasetCreate, SetExtentPlaceholder, SetExtentLive,
       WriteCase, WriteSpan, AttrWrite, writerVars, physical_step
  <2> QED
    BY <2>1, <2>2 DEF FileTypes
<1> QED
  BY <1>1, <1>2


\* What a write changes, in one place.
WriteFact(w, all) ==
    /\ in_step /\ in_step' /\ w \in Span /\ create' = CreateIndex /\ create' \in Extents
    /\ create' # Nowhere /\ View' = View
    /\ \A i \in 1 .. View :
          plain'[i] = IF all \/ Covers(w, i) THEN physical_step + 1 ELSE plain[i]
    /\ writes' # <<>>
    /\ \A j \in DOMAIN writes' : writes'[j] = w \/ (j \in DOMAIN writes /\ writes'[j] = writes[j])
    /\ UNCHANGED <<obj, under, pending_resize_space, low, late, steps, log>>
\* A write does this.
LEMMA WriteEffect ==
    ASSUME OpenTypes, FileTypes, NEW w, NEW all \in BOOLEAN, WriteCase(w, all)
    PROVE  WriteFact(w, all)
<1>1. /\ in_step /\ obj # "none" /\ w \in Span
      /\ writes' = Append(writes, w) /\ create' = CreateIndex
      /\ plain' = [i \in DOMAIN plain |->
                     IF all \/ Covers(w, i) THEN physical_step + 1 ELSE plain[i]]
      /\ UNCHANGED <<in_step, obj, under, pending_resize_space, low, late, steps, log>>
  BY DEF WriteCase, WriteSpan
<1>2. CreateIndex \in Extents /\ CreateIndex # Nowhere /\ DOMAIN plain = 1 .. View
  BY <1>1, ViewType, HistoryAssumption DEF Extents
<1>3. View' = View
  BY <1>1 DEF View, CreateIndex, OpenTypes
<1>4. /\ DOMAIN writes = 1 .. Len(writes) /\ Len(writes) \in Nat
      /\ DOMAIN writes' = 1 .. Len(writes) + 1
      /\ \A j \in 1 .. Len(writes) : writes'[j] = writes[j]
      /\ writes'[Len(writes) + 1] = w
  BY <1>1, AppendProperties, LenProperties DEF OpenTypes
<1>5. writes' # <<>>
  BY <1>4
<1>6. \A i \in 1 .. View :
         plain'[i] = IF all \/ Covers(w, i) THEN physical_step + 1 ELSE plain[i]
  BY <1>1, <1>2
<1>7. \A j \in DOMAIN writes' : writes'[j] = w \/ (j \in DOMAIN writes /\ writes'[j] = writes[j])
  BY <1>4
<1> QED
  BY <1>1, <1>2, <1>3, <1>5, <1>6, <1>7 DEF WriteFact

\* A dataset made in the open step.
LEMMA FirstInvStep ==
    ASSUME OpenTypes, FileTypes, FirstInv, [Next]_vars
    PROVE  FirstInv'
<1> USE HistoryAssumption
<1>1. ASSUME NEW ids \in SUBSET LogicalIds, BeginStep(ids) PROVE FirstInv'
  BY <1>1 DEF BeginStep, captureVars, historyVars, FirstInv, Covered, physical_step
<1>2. ASSUME NEW n \in FirstExtents, DatasetCreate(n) PROVE FirstInv'
  <2>1. /\ obj = "none" /\ obj' = "placeholder" /\ create' = n
        /\ plain' = [i \in 1 .. n |-> Fill]
        /\ UNCHANGED <<writes, steps>>
    BY <1>2 DEF DatasetCreate
  <2>2. writes = <<>>
    BY <2>1 DEF OpenTypes
  <2>3. \A i : ~Covered(i)'
    BY <2>1, <2>2 DEF Covered
  <2> QED
    BY <2>1, <2>2, <2>3 DEF FirstInv
<1>3. ASSUME NEW n \in Extents \ {0}, SetExtentPlaceholder(n) PROVE FirstInv'
  <2>1. /\ obj = "placeholder" /\ create' = n /\ n > create /\ plain' = Resized(plain, n)
        /\ UNCHANGED <<obj, writes, steps>>
    BY <1>3 DEF SetExtentPlaceholder, ResizePlain
  <2>2. n \in Nat /\ create \in Nat /\ View = create
    BY <2>1, ViewType DEF Extents, View
  <2>3. plain \in [1 .. create -> 0 .. MaxSteps] /\ Len(plain) = create
    BY <2>1, <2>2, ViewType DEF OpenTypes
  <2>4. \A i \in 1 .. n : plain'[i] = IF i <= create THEN plain[i] ELSE Fill
    BY <2>1, <2>2, <2>3, ResizeFact, SMTT(30)
  <2>5. \A j \in DOMAIN writes : writes[j].hi <= create /\ writes[j].hi \in Nat
    <3>1. \A j \in DOMAIN writes : writes[j] \in Span
      BY ElementOfSeq, LenProperties DEF OpenTypes
    <3> QED
      BY <2>1, <3>1 DEF FirstInv, Span
  <2>6. \A j \in DOMAIN writes : writes[j].hi <= n
    BY <2>1, <2>2, <2>5
  <2>7. \A i : Covered(i)' <=> Covered(i)
    BY <2>1 DEF Covered
  <2>8. \A i \in 1 .. n : Covered(i) => i <= create
    BY <2>2, <2>5 DEF Covered, Covers
  <2>9. \A i \in 1 .. n : plain'[i] = IF Covered(i) THEN physical_step + 1 ELSE Fill
    BY <2>1, <2>2, <2>4, <2>8 DEF FirstInv
  <2> QED
    BY <2>1, <2>6, <2>7, <2>9 DEF FirstInv, physical_step
<1>4. ASSUME NEW n \in Extents \ {0}, SetExtentLive(n) PROVE FirstInv'
  BY <1>4 DEF SetExtentLive, FirstInv
<1>5. ASSUME NEW w, NEW all \in BOOLEAN, WriteCase(w, all) PROVE FirstInv'
  <2>1. WriteFact(w, all)
    BY <1>5, WriteEffect
  <2>2. CASE obj = "placeholder"
    <3>1. create' = create /\ View = create /\ create \in Nat
      BY <2>1, <2>2, ViewType DEF WriteFact, CreateIndex, View, OpenTypes, Extents
    <3>2. w.hi <= create
      <4>1. CASE all
        BY <1>5, <2>2, <3>1, <4>1 DEF WriteCase, CreateIndex, WriteFact
      <4>2. CASE ~all
        BY <1>5, <3>1, <4>2 DEF WriteCase
      <4> QED
        BY <4>1, <4>2
    <3>3. \A j \in DOMAIN writes' : writes'[j].hi <= create
      BY <2>1, <2>2, <3>2 DEF WriteFact, FirstInv
    <3>4. \A i \in 1 .. create : all => Covers(w, i)
      BY <1>5, <2>2, <3>1 DEF WriteCase, Covers, CreateIndex, OpenTypes
    <3>5. \A i \in 1 .. create :
             plain'[i] = IF Covered(i) \/ Covers(w, i) THEN physical_step + 1 ELSE Fill
      BY <2>1, <2>2, <3>1, <3>4 DEF WriteFact, FirstInv
    <3>6. \A i : Covered(i)' <=> Covered(i) \/ Covers(w, i)
      BY <1>5, CoveredWrite
    <3>7. \A i \in 1 .. create : plain'[i] = IF Covered(i)' THEN physical_step + 1 ELSE Fill
      BY <3>5, <3>6
    <3>8. UNCHANGED <<obj, steps>>
      BY <2>1 DEF WriteFact
    <3> QED
      BY <2>2, <3>1, <3>3, <3>7, <3>8 DEF FirstInv, physical_step
  <2>3. CASE obj # "placeholder"
    BY <2>1, <2>3 DEF WriteFact, FirstInv
  <2> QED
    BY <2>2, <2>3
<1>6. CASE AttrWrite
  BY <1>6 DEF AttrWrite, historyVars, FirstInv, Covered, physical_step
<1>7. CASE EndStep
  <2>1. EndFact
    BY <1>7, EndEffect
  <2>2. obj' # "placeholder" /\ (obj' # "live" => obj = "none")
    BY <1>7 DEF EndStep, OpenTypes
  <2>3. Len(steps) \in Nat /\ DOMAIN steps = 1 .. Len(steps)
    BY EntryTypes
  <2>4. DOMAIN steps' = 1 .. Len(steps) + 1
    BY <2>1, <2>3, LenProperties DEF EndFact
  <2>5. obj = "none" => NewData = Nowhere
    BY DEF NewData, OpenTypes
  <2>6. obj = "none" => \A k \in DOMAIN steps' : steps'[k].data = Nowhere
    BY <2>1, <2>3, <2>4, <2>5 DEF EndFact, FirstInv
  <2>7. CASE obj = "live"
    <3>1. PICK k \in 1 .. Len(steps) : steps[k].data # Nowhere
      BY <2>3, <2>7 DEF FirstInv
    <3>2. k \in DOMAIN steps' /\ steps'[k].data # Nowhere
      BY <2>1, <2>3, <2>4, <3>1 DEF EndFact
    <3> QED
      BY <1>7, <2>7, <3>2 DEF FirstInv, EndStep
  <2>8. CASE obj = "placeholder"
    <3>1. NewData # Nowhere
      BY <1>7, <2>8, CarriedType, CopyLength DEF NewData, OpenTypes, EndStep
    <3>2. \E k \in DOMAIN steps' : steps'[k].data # Nowhere
      BY <2>1, <2>3, <2>4, <3>1 DEF EndFact
    <3> QED
      BY <1>7, <2>8, <3>2 DEF FirstInv, EndStep
  <2>9. CASE obj = "none"
    BY <1>7, <2>6, <2>9 DEF FirstInv, EndStep
  <2> QED
    BY <2>7, <2>8, <2>9 DEF OpenTypes
<1>8. CASE UNCHANGED writerVars
  BY <1>8 DEF writerVars, captureVars, historyVars, FirstInv, Covered, physical_step
<1> QED
  BY <1>1, <1>2, <1>3, <1>4, <1>5, <1>6, <1>7, <1>8, NextCases


\* A dataset of an earlier step, written in the open one.
LEMMA WrittenInvStep ==
    ASSUME OpenTypes, FileTypes, WrittenInv, [Next]_vars
    PROVE  WrittenInv'
<1> USE HistoryAssumption
<1>1. ASSUME NEW ids \in SUBSET LogicalIds, BeginStep(ids) PROVE WrittenInv'
  BY <1>1 DEF BeginStep, captureVars, historyVars, WrittenInv, Covered, physical_step, View,
     NewestData
<1>2. ASSUME NEW n \in FirstExtents, DatasetCreate(n) PROVE WrittenInv'
  BY <1>2 DEF DatasetCreate, WrittenInv
<1>3. ASSUME NEW n \in Extents \ {0}, SetExtentPlaceholder(n) PROVE WrittenInv'
  BY <1>3 DEF SetExtentPlaceholder, WrittenInv
<1>4. ASSUME NEW n \in Extents \ {0}, SetExtentLive(n) PROVE WrittenInv'
  <2>1. /\ late' = (late \/ create # Nowhere) /\ low' = IF n < low THEN n ELSE low
        /\ UNCHANGED <<obj, create, writes, steps>>
    BY <1>4 DEF SetExtentLive, ResizePlain
  <2>2. low' <= low /\ low \in Nat /\ low' \in Nat /\ n \in Nat
    BY <2>1 DEF OpenTypes, Extents
  <2>3. create # Nowhere => create \in Nat
    BY DEF OpenTypes, Extents
  <2>4. \A m : NewestData(m, Len(steps))' <=> NewestData(m, Len(steps))
    BY <2>1 DEF NewestData
  <2> SUFFICES ASSUME obj = "live", create # Nowhere PROVE WrittenInv'
    BY <2>1 DEF WrittenInv
  <2>5. low' <= create' /\ writes' # <<>>
    BY <2>1, <2>2, <2>3 DEF WrittenInv
  <2>8. late'
    BY <2>1
  <2>6. \A j \in DOMAIN writes' :
           \/ writes'[j].lo = 1 /\ writes'[j].hi = create'
           \/ /\ writes'[j].lo <= writes'[j].hi
              /\ HeadWrites \/ \A m \in DOMAIN steps :
                     NewestData(m, Len(steps)) => writes'[j].lo > Len(steps[m].data)
    BY <2>1 DEF WrittenInv
  <2>7. steps' = steps
    BY <2>1
  <2> QED
    BY <2>4, <2>5, <2>6, <2>7, <2>8 DEF WrittenInv
<1>5. ASSUME NEW w, NEW all \in BOOLEAN, WriteCase(w, all) PROVE WrittenInv'
  <2>1. WriteFact(w, all)
    BY <1>5, WriteEffect
  <2> SUFFICES ASSUME obj = "live" PROVE WrittenInv'
    BY <2>1 DEF WriteFact, WrittenInv
  <2>2. /\ View \in Nat /\ low \in Nat /\ low <= View /\ create' \in Nat
        /\ create' = IF create # Nowhere THEN create ELSE View
    BY <2>1, ViewType DEF WriteFact, CreateIndex, OpenTypes, Extents
  <2>3. create = Nowhere => writes = <<>> /\ \A i : ~Covered(i)
    BY DEF OpenTypes, Covered
  <2>4. low' <= create'
    BY <2>1, <2>2 DEF WrittenInv, WriteFact
  <2>5. ASSUME ~late' PROVE /\ View' = create'
                            /\ \A i \in 1 .. create' : Covered(i)' => plain'[i] = (physical_step + 1)'
    <3>1. ~late /\ View' = View /\ physical_step' = physical_step
      BY <2>1, <2>5 DEF WriteFact, physical_step
    <3>2. View = create'
      BY <2>2, <3>1 DEF WrittenInv
    <3>3. \A i \in 1 .. create' : Covered(i) => plain[i] = physical_step + 1
      BY <2>2, <2>3, <3>1 DEF WrittenInv
    <3>4. \A i \in 1 .. create' :
             plain'[i] = IF all \/ Covers(w, i) THEN physical_step + 1 ELSE plain[i]
      BY <2>1, <3>2 DEF WriteFact
    <3>5. \A i : Covered(i)' <=> Covered(i) \/ Covers(w, i)
      BY <1>5, CoveredWrite
    <3> QED
      BY <3>1, <3>2, <3>3, <3>4, <3>5
  <2>6. \A m : NewestData(m, Len(steps))' <=> NewestData(m, Len(steps))
    BY <2>1 DEF NewestData, WriteFact
  <2>7. w.lo > OldExtent =>
           \A m \in DOMAIN steps : NewestData(m, Len(steps)) => w.lo > Len(steps[m].data)
    <3> SUFFICES ASSUME w.lo > OldExtent, NEW m \in DOMAIN steps, NewestData(m, Len(steps))
                 PROVE  w.lo > Len(steps[m].data)
      OBVIOUS
    <3>1. Newest # Nowhere
      BY NewestFact DEF NewestData
    <3>2. m = Newest + 1
      BY <3>1, NewestFact, NewestUnique, EntryTypes
    <3> QED
      BY <3>1, <3>2, NewestFact
  <2>8. \/ w.lo = 1 /\ w.hi = create'
        \/ /\ w.lo <= w.hi
           /\ HeadWrites \/ \A m \in DOMAIN steps :
                  NewestData(m, Len(steps)) => w.lo > Len(steps[m].data)
    BY <1>5, <2>1, <2>7 DEF WriteCase, WriteFact
  <2>9. \A j \in DOMAIN writes' :
           \/ writes'[j].lo = 1 /\ writes'[j].hi = create'
           \/ /\ writes'[j].lo <= writes'[j].hi
              /\ HeadWrites \/ \A m \in DOMAIN steps :
                     NewestData(m, Len(steps)) => writes'[j].lo > Len(steps[m].data)
    <3> TAKE j \in DOMAIN writes'
    <3>1. CASE writes'[j] = w
      BY <2>8, <3>1
    <3>2. CASE j \in DOMAIN writes /\ writes'[j] = writes[j]
      <4>1. create # Nowhere /\ create' = create
        BY <2>2, <2>3, <3>2
      <4> QED
        BY <3>2, <4>1 DEF WrittenInv
    <3> QED
      BY <2>1, <3>1, <3>2 DEF WriteFact
  <2>10. steps' = steps /\ writes' # <<>>
    BY <2>1 DEF WriteFact
  <2> QED
    BY <2>4, <2>5, <2>6, <2>9, <2>10 DEF WrittenInv
<1>6. CASE AttrWrite
  BY <1>6 DEF AttrWrite, historyVars, WrittenInv, Covered, physical_step, View, NewestData
<1>7. CASE EndStep
  BY <1>7 DEF EndStep, WrittenInv
<1>8. CASE UNCHANGED writerVars
  BY <1>8 DEF writerVars, captureVars, historyVars, WrittenInv, Covered, physical_step, View,
     NewestData
<1> QED
  BY <1>1, <1>2, <1>3, <1>4, <1>5, <1>6, <1>7, <1>8, NextCases

\* A step that rewrote the dataset or appended to it, after steps that all
\* did, stores what plain HDF5 holds.
LEMMA ExactCopy ==
    ASSUME OpenTypes, FileTypes, FirstInv, WrittenInv, KeptInv,
           in_step, create # Nowhere, Ordinary, Len(steps) = 0 \/ log[Len(steps)].exact
    PROVE  CarryForward(Replayed) = plain
<1> USE HistoryAssumption
<1> DEFINE cf == CarryForward(Replayed)
           ps == physical_step + 1
<1>1. create \in Nat /\ create <= MaxDim /\ create \in Extents /\ obj # "none"
  BY DEF OpenTypes, Extents
<1>2. /\ cf \in Copies /\ Len(cf) = create
      /\ \A i \in 1 .. create : Replayed[i] = IF Covered(i) THEN ps ELSE Fill
      /\ cf = IF Newest # Nowhere /\ CarryForwardGate(OldExtent, create, WrittenTotal)
              THEN [i \in 1 .. create |-> IF i <= OldExtent THEN steps[Newest + 1].data[i]
                                          ELSE Replayed[i]]
              ELSE Replayed
  BY CarriedType
<1>3. cf \in [1 .. create -> 0 .. MaxSteps]
  BY <1>2, CopyLength
<1>4. plain \in [1 .. View -> 0 .. MaxSteps]
  BY <1>1 DEF OpenTypes
<1>5. SUFFICES View = create /\ \A i \in 1 .. create : cf[i] = plain[i]
  <2> HIDE DEF cf
  <2>1. View = create => plain \in [1 .. create -> 0 .. MaxSteps]
    BY <1>4
  <2>2. cf = [i \in 1 .. create |-> cf[i]]
    BY <1>3
  <2>3. plain = [i \in 1 .. create |-> plain[i]]
    BY <1>5, <2>1
  <2>4. [i \in 1 .. create |-> cf[i]] = [i \in 1 .. create |-> plain[i]]
    BY <1>5
  <2>5. cf = plain
    BY <2>2, <2>3, <2>4
  <2> QED
    BY <2>5 DEF cf
<1> HIDE DEF cf
<1>6. CASE obj = "placeholder"
  <2>1. Newest = Nowhere
    BY <1>6, NewestFact DEF FirstInv, NewestData
  <2>2. View = create /\ cf = Replayed
    BY <1>2, <1>6, <2>1 DEF View
  <2> QED
    BY <1>2, <1>6, <2>2 DEF FirstInv
<1>7. CASE obj = "live"
  <2>1. Newest # Nowhere
    BY <1>7, NewestFact DEF FirstInv
  <2>2. ~late /\ (Written = 1 .. create
                  \/ (/\ Written = OldExtent + 1 .. create /\ low >= OldExtent
                      /\ WrittenTotal = create - OldExtent))
    BY <2>1 DEF Ordinary
  <2>3. View = create /\ \A i \in 1 .. create : Covered(i) => plain[i] = ps
    BY <1>7, <2>2 DEF WrittenInv
  <2>4. steps[Newest + 1].data \in Copies /\ OldExtent = Len(steps[Newest + 1].data)
        /\ OldExtent \in Nat
    <3>1. steps[Newest + 1].data \in Copies
      BY <2>1, NewestFact, EntryTypes DEF Copy, NewestData
    <3> QED
      BY <2>1, <3>1, NewestFact, CopyLength
  <2>5. \A i \in 1 .. MaxDim : i \in Written <=> Covered(i)
    BY DEF Written, Covered
  <2>6. CASE Written = 1 .. create
    <3>1. \A i \in 1 .. create : Covered(i)
      BY <1>1, <2>5, <2>6
    <3>2. WrittenTotal \in Nat /\ create <= WrittenTotal
      BY <1>1, <3>1, TotalBound
    <3>3. CarryForwardGate(OldExtent, create, WrittenTotal) => OldExtent = 0
      BY <1>1, <2>4, <3>2 DEF CarryForwardGate
    <3>4. \A i \in 1 .. create : cf[i] = Replayed[i]
      BY <1>1, <1>2, <3>3
    <3> QED
      BY <1>2, <2>3, <3>1, <3>4
  <2>7. CASE /\ Written = OldExtent + 1 .. create /\ low >= OldExtent
             /\ WrittenTotal = create - OldExtent
    <3>1. \A i \in 1 .. create : Covered(i) <=> i > OldExtent
      BY <1>1, <2>4, <2>5, <2>7
    <3>2. CASE create > OldExtent
      <4>1. CarryForwardGate(OldExtent, create, WrittenTotal)
        BY <2>7, <3>2 DEF CarryForwardGate
      <4>2. \A i \in 1 .. create : cf[i] = IF i <= OldExtent THEN steps[Newest + 1].data[i]
                                           ELSE Replayed[i]
        BY <1>2, <2>1, <4>1
      <4>3. \A i \in 1 .. OldExtent : plain[i] = steps[Newest + 1].data[i]
        <5>1. /\ Newest + 1 \in DOMAIN steps /\ NewestData(Newest + 1, Len(steps))
              /\ Len(steps) # 0
          BY <2>1, NewestFact, EntryTypes
        <5>2. low \in Nat
          BY DEF OpenTypes, Extents
        <5> QED
          BY <1>1, <2>4, <2>7, <3>1, <3>2, <5>1, <5>2 DEF KeptInv
      <4> QED
        BY <1>1, <1>2, <2>3, <2>4, <3>1, <4>2, <4>3
    <3>3. CASE create <= OldExtent
      <4>1. create = 0
        <5> SUFFICES ASSUME create # 0 PROVE FALSE
          OBVIOUS
        <5>1. writes # <<>>
          BY <1>7 DEF WrittenInv
        <5>2. writes \in Seq(Span) /\ DOMAIN writes = 1 .. Len(writes) /\ Len(writes) \in Nat
          BY LenProperties DEF OpenTypes
        <5>3. 1 \in DOMAIN writes /\ writes[1] \in Span
          <6>1. Len(writes) # 0
            BY <5>1, <5>2, EmptySeq
          <6> QED
            BY <5>2, <6>1, ElementOfSeq
        <5>4. writes[1].lo <= writes[1].hi /\ writes[1].lo \in 1 .. MaxDim
          BY <1>1, <1>7, <5>3 DEF WrittenInv, Span
        <5>5. Covers(writes[1], writes[1].lo)
          BY <5>4, <5>3 DEF Covers, Span
        <5>6. writes[1].lo \in Written
          BY <2>5, <5>3, <5>4, <5>5 DEF Covered
        <5> QED
          BY <1>1, <2>4, <2>7, <3>3, <5>4, <5>6
      <4> QED
        BY <2>3, <4>1
    <3> QED
      BY <1>1, <2>4, <3>2, <3>3
  <2> QED
    BY <2>2, <2>6, <2>7
<1> QED
  BY <1>1, <1>6, <1>7 DEF OpenTypes


\* What the open step has not touched.
LEMMA KeptInvStep ==
    ASSUME OpenTypes, FileTypes, FirstInv, WrittenInv, KeptInv, FirstInv', [Next]_vars
    PROVE  KeptInv'
<1> USE HistoryAssumption
<1>0. obj' # "live" => KeptInv'
  BY DEF FirstInv, KeptInv, NewestData
<1>1. ASSUME NEW ids \in SUBSET LogicalIds, BeginStep(ids) PROVE KeptInv'
  BY <1>1 DEF BeginStep, captureVars, historyVars, KeptInv, Covered, NewestData
<1>2. ASSUME NEW n \in FirstExtents, DatasetCreate(n) PROVE KeptInv'
  BY <1>0, <1>2 DEF DatasetCreate
<1>3. ASSUME NEW n \in Extents \ {0}, SetExtentPlaceholder(n) PROVE KeptInv'
  BY <1>0, <1>3 DEF SetExtentPlaceholder
<1>4. ASSUME NEW n \in Extents \ {0}, SetExtentLive(n) PROVE KeptInv'
  <2>1. /\ obj = "live" /\ plain' = Resized(plain, n) /\ low' = IF n < low THEN n ELSE low
        /\ UNCHANGED <<writes, steps, log>>
    BY <1>4 DEF SetExtentLive, ResizePlain
  <2>2. /\ n \in Nat /\ View \in Nat /\ low \in Nat /\ low' \in Nat /\ low <= View
        /\ low' <= n /\ low' <= low
    BY <2>1, ViewType DEF OpenTypes, Extents
  <2>3. \A i \in 1 .. n : plain'[i] = IF i <= View THEN plain[i] ELSE Fill
    <3>1. plain \in [1 .. View -> 0 .. MaxSteps] /\ Len(plain) = View
      BY <2>1, ViewType DEF OpenTypes
    <3> QED
      BY <2>1, <2>2, <3>1, ResizeFact
  <2> SUFFICES ASSUME NEW m \in DOMAIN steps, NewestData(m, Len(steps)), log[Len(steps)].exact,
                      NEW i \in 1 .. Len(steps[m].data), i <= low', ~Covered(i)
               PROVE  plain'[i] = steps[m].data[i]
    BY <2>1, SMTT(30) DEF KeptInv, NewestData, Covered
  <2>4. Len(steps[m].data) \in Nat /\ i \in Nat /\ i >= 1
    BY EntryTypes, CopyLength DEF NewestData, Copy
  <2>5. i \in 1 .. n /\ i <= View /\ i <= low
    BY <2>2, <2>4
  <2>6. plain[i] = steps[m].data[i]
    BY <2>5 DEF KeptInv
  <2> QED
    BY <2>3, <2>5, <2>6
<1>5. ASSUME NEW w, NEW all \in BOOLEAN, WriteCase(w, all) PROVE KeptInv'
  <2>1. WriteFact(w, all)
    BY <1>5, WriteEffect
  <2> SUFFICES ASSUME obj = "live" PROVE KeptInv'
    BY <1>0, <2>1 DEF WriteFact
  <2>2. /\ View \in Nat /\ low \in Nat /\ low <= View /\ create' \in Nat
        /\ create' = IF create # Nowhere THEN create ELSE View
    BY <2>1, ViewType DEF WriteFact, CreateIndex, OpenTypes, Extents
  <2>3. low <= create'
    BY <2>2 DEF WrittenInv
  <2> SUFFICES ASSUME NEW m \in DOMAIN steps, NewestData(m, Len(steps)), log[Len(steps)].exact,
                      NEW i \in 1 .. Len(steps[m].data), i <= low, ~Covered(i)'
               PROVE  plain'[i] = steps[m].data[i]
    BY <2>1, ZenonT(30) DEF KeptInv, NewestData, WriteFact
  <2>4. Len(steps[m].data) \in Nat /\ i \in Nat /\ i >= 1
    BY EntryTypes, CopyLength DEF NewestData, Copy
  <2>5. ~Covered(i) /\ ~Covers(w, i)
    BY <1>5, CoveredWrite
  <2>6. ~all
    BY <1>5, <2>1, <2>2, <2>3, <2>4, <2>5 DEF WriteCase, WriteFact, Covers
  <2>7. plain[i] = steps[m].data[i]
    BY <2>5 DEF KeptInv
  <2> QED
    BY <2>1, <2>2, <2>4, <2>5, <2>6, <2>7 DEF WriteFact
<1>6. CASE AttrWrite
  BY <1>6 DEF AttrWrite, historyVars, KeptInv, Covered, NewestData
<1>7. CASE EndStep
  <2>0. PICK n \in Nat : n = Len(steps)
    BY EntryTypes
  <2>9. PICK k \in Nat : k = n + 1
    BY <2>0
  <2>1. EndFact
    BY <1>7, EndEffect
  <2>2. k = n + 1 /\ n = Len(steps) /\ in_step /\ DOMAIN steps = 1 .. n
    BY <1>7, <2>0, <2>9, EntryTypes DEF EndStep
  <2>3. /\ Len(steps') = k /\ DOMAIN steps' = 1 .. k /\ steps'[k].data = NewData
        /\ plain' = plain /\ low' = IF create = Nowhere THEN low ELSE Len(plain)
        /\ \A i \in 1 .. n : steps'[i] = steps[i]
    BY <1>7, <2>1, <2>2, LenProperties DEF EndFact, EndStep
  <2>4. log'[k].exact <=> (k = 1 \/ log[n].exact) /\ Ordinary
    BY <2>1, <2>2 DEF EndFact
  <2> SUFFICES ASSUME NEW m \in 1 .. k, NewestData(m, Len(steps))', log'[k].exact,
                      NEW i \in 1 .. Len(steps'[m].data), i <= low'
               PROVE  plain[i] = steps'[m].data[i]
    BY <2>3 DEF KeptInv
  <2>5. NewestData(m, k)'
    BY <2>3
  <2>6. IF create # Nowhere THEN m = k ELSE NewestData(m, n)
    BY <2>0, <2>1, <2>2, <2>5, <2>9, NewestAfter, Zenon
  <2>7. CASE create # Nowhere
    <3>1. NewData = plain
      BY <2>2, <2>4, <2>7, ExactCopy DEF NewData
    <3> QED
      BY <2>3, <2>6, <2>7, <3>1
  <2>8. CASE create = Nowhere
    <3>1. m \in 1 .. n /\ steps'[m] = steps[m] /\ log[n].exact /\ n # 0
      BY <2>2, <2>3, <2>4, <2>6, <2>8 DEF NewestData
    <3>2. ~Covered(i)
      BY <2>8 DEF Covered, OpenTypes
    <3> QED
      BY <2>2, <2>3, <2>6, <2>8, <3>1, <3>2 DEF KeptInv
  <2> QED
    BY <2>7, <2>8
<1>8. CASE UNCHANGED writerVars
  BY <1>8 DEF writerVars, captureVars, historyVars, KeptInv, Covered, NewestData
<1> QED
  BY <1>1, <1>2, <1>3, <1>4, <1>5, <1>6, <1>7, <1>8, NextCases

\* The log and the copies.
LEMMA LogInvStep ==
    ASSUME OpenTypes, FileTypes, FirstInv, WrittenInv, KeptInv, LogInv, [Next]_vars
    PROVE  LogInv'
<1>1. CASE EndStep
  <2>0. PICK n \in Nat : n = Len(steps)
    BY EntryTypes
  <2>11. PICK k \in Nat : k = n + 1
    BY <2>0
  <2>1. EndFact
    BY <1>1, EndEffect
  <2>2. k = n + 1 /\ n = Len(steps) /\ in_step /\ DOMAIN steps = 1 .. n
    BY <1>1, <2>0, <2>11, EntryTypes DEF EndStep
  <2>3. /\ Len(steps') = k /\ DOMAIN steps' = 1 .. k /\ steps'[k].data = NewData
        /\ log'[k].data = plain
        /\ attr_entry => log'[k].attr = k - 1
        /\ ~attr_entry /\ k # 1 => log'[k].attr = log[n].attr
        /\ \A i \in 1 .. n : steps'[i] = steps[i] /\ log'[i] = log[i]
    BY <2>1, <2>2, LenProperties DEF EndFact
  <2>4. log'[k].exact <=> (k = 1 \/ log[n].exact) /\ Ordinary
    BY <2>1, <2>2 DEF EndFact
  <2>5. k = n + 1 /\ n = Len(steps)
    BY <2>2
  <2>6. ASSUME NEW i \in 1 .. k, NEW j \in 1 .. k, i <= j, log'[j].exact
        PROVE  log'[i].exact
    <3>1. CASE j = k /\ i # k
      <4>1. i \in 1 .. n /\ n \in 1 .. n /\ k # 1 /\ i <= n
        BY <2>2, <2>5, <3>1
      <4>2. log[n].exact
        BY <2>4, <2>6, <3>1, <4>1
      <4>3. log[i].exact
        BY <2>2, <4>1, <4>2 DEF LogInv
      <4> QED
        BY <2>3, <4>1, <4>3
    <3>2. CASE j # k
      <4>1. i \in 1 .. n /\ j \in 1 .. n
        BY <2>2, <2>5, <2>6, <3>2
      <4> QED
        BY <2>2, <2>3, <2>6, <4>1 DEF LogInv
    <3> QED
      BY <2>6, <3>1, <3>2
  <2>7. ASSUME NEW j \in 1 .. n, NEW m
        PROVE  /\ NewestData(m, j)' /\ log'[j].exact => log'[j].data = steps'[m].data
               /\ NewestAttr(m, j)' => log'[j].attr = m - 1
    <3>1. j \in 0 .. Len(steps)
      BY <2>2, <2>5
    <3>2. (NewestData(m, j)' <=> NewestData(m, j)) /\ (NewestAttr(m, j)' <=> NewestAttr(m, j))
      BY <2>1, <3>1, NewestStable
    <3>3. NewestData(m, j) \/ NewestAttr(m, j) => m \in 1 .. n
      BY <2>2 DEF NewestData, NewestAttr
    <3> QED
      BY <2>2, <2>3, <3>2, <3>3 DEF LogInv
  <2>8. ASSUME NEW m, NewestData(m, k)', log'[k].exact PROVE log'[k].data = steps'[m].data
    <3>1. IF create # Nowhere THEN m = k ELSE NewestData(m, n)
      BY <2>1, <2>2, <2>5, <2>8, NewestAfter
    <3>2. CASE create # Nowhere
      <4>1. NewData = plain
        BY <2>2, <2>4, <2>5, <2>8, <3>2, ExactCopy DEF NewData
      <4> QED
        BY <2>3, <3>1, <3>2, <4>1
    <3>3. CASE create = Nowhere
      <4>1. m \in 1 .. n /\ n \in 1 .. n /\ k # 1 /\ log[n].exact /\ Ordinary
        BY <2>2, <2>4, <2>5, <2>8, <3>1, <3>3 DEF NewestData
      <4>2. log[n].data = steps[m].data
        BY <2>2, <3>1, <3>3, <4>1 DEF LogInv
      <4>3. Len(log) = n /\ log # <<>>
        BY <2>2, <2>5, <4>1 DEF FileTypes
      <4>4. plain = log[n].data
        BY <3>3, <4>1, <4>3 DEF Ordinary
      <4> QED
        BY <2>3, <4>1, <4>2, <4>4
    <3> QED
      BY <3>2, <3>3
  <2>9. ASSUME NEW m, NewestAttr(m, k)' PROVE log'[k].attr = m - 1
    <3>1. IF attr_entry THEN m = k ELSE NewestAttr(m, n)
      BY <2>1, <2>2, <2>5, <2>9, NewestAfter
    <3>2. CASE attr_entry
      BY <2>3, <3>1, <3>2
    <3>3. CASE ~attr_entry
      <4>1. m \in 1 .. n /\ n \in 1 .. n /\ k # 1
        BY <2>2, <2>5, <3>1, <3>3 DEF NewestAttr
      <4>2. log[n].attr = m - 1
        BY <2>2, <3>1, <3>3, <4>1 DEF LogInv
      <4> QED
        BY <2>3, <3>3, <4>1, <4>2
    <3> QED
      BY <3>2, <3>3
  <2>10. ASSUME NEW j \in 1 .. k, NEW m \in 1 .. k
         PROVE  /\ NewestData(m, j)' /\ log'[j].exact => log'[j].data = steps'[m].data
                /\ NewestAttr(m, j)' => log'[j].attr = m - 1
    <3>1. CASE j = k
      BY <2>8, <2>9, <3>1
    <3>2. CASE j # k
      <4>1. j \in 1 .. n
        BY <2>2, <2>5, <3>2
      <4> QED
        BY <2>7, <4>1
    <3> QED
      BY <3>1, <3>2
  <2> QED
    BY <2>3, <2>6, <2>10 DEF LogInv
<1>2. CASE ~EndStep
  <2>1. UNCHANGED <<steps, log>>
    BY <1>2, FileKept
  <2> QED
    BY <2>1 DEF LogInv, NewestData, NewestAttr
<1> QED
  BY <1>1, <1>2


\* The logical map of the first n steps keeps the last step of each id.
LEMMA LogicalMapFact ==
    ASSUME FileTypes, NEW n \in 0 .. Len(steps)
    PROVE  /\ DOMAIN LogicalMap(n) \subseteq LogicalIds
           /\ \A id \in DOMAIN LogicalMap(n) :
                 /\ LogicalMap(n)[id] \in 0 .. n - 1
                 /\ id \in steps[LogicalMap(n)[id] + 1].ids
                 /\ \A k \in LogicalMap(n)[id] + 1 .. n - 1 : id \notin steps[k + 1].ids
<1> DEFINE ids == UNION {steps[k].ids : k \in 1 .. n}
           At(id) == {k \in 0 .. n - 1 : id \in steps[k + 1].ids}
<1>1. n \in Nat /\ n <= Len(steps) /\ Len(steps) \in Nat
  BY EntryTypes
<1>2. LogicalMap(n) = [id \in ids |-> Max(At(id))]
  BY DEF LogicalMap
<1>3. ids \subseteq LogicalIds
  <2>1. \A k \in 1 .. n : steps[k].ids \subseteq LogicalIds
    BY <1>1, EntryTypes
  <2> QED
    BY <2>1
<1>4. ASSUME NEW id \in ids
      PROVE  /\ Max(At(id)) \in 0 .. n - 1 /\ id \in steps[Max(At(id)) + 1].ids
             /\ \A k \in Max(At(id)) + 1 .. n - 1 : id \notin steps[k + 1].ids
  <2>1. PICK j \in 1 .. n : id \in steps[j].ids
    OBVIOUS
  <2>2. j - 1 \in At(id)
    <3>1. j - 1 \in 0 .. n - 1 /\ (j - 1) + 1 = j
      BY <1>1
    <3> QED
      BY <2>1, <3>1
  <2>3. At(id) \subseteq 0 .. n /\ At(id) # {}
    <3>1. At(id) \subseteq 0 .. n
      BY <1>1
    <3>2. At(id) # {}
      BY <2>2
    <3> QED
      BY <3>1, <3>2
  <2>4. Max(At(id)) \in At(id) /\ \A y \in At(id) : y <= Max(At(id))
    <3> HIDE DEF At
    <3> QED
      BY <1>1, <2>3, MaxBounded
  <2> DEFINE x == Max(At(id))
  <2>5. x \in At(id) /\ \A y \in At(id) : y <= x
    BY <2>4
  <2> HIDE DEF x
  <2>6. x \in 0 .. n - 1 /\ id \in steps[x + 1].ids
    BY <2>5
  <2>7. \A k \in x + 1 .. n - 1 : id \notin steps[k + 1].ids
    <3> SUFFICES ASSUME NEW k \in x + 1 .. n - 1, id \in steps[k + 1].ids PROVE FALSE
      OBVIOUS
    <3>1. k \in At(id)
      BY <1>1, <2>6
    <3>2. k <= x
      BY <2>5, <3>1
    <3> QED
      BY <1>1, <2>6, <3>2
  <2> QED
    BY <2>6, <2>7 DEF x
<1> HIDE DEF At, ids
<1> QED
  BY <1>2, <1>3, <1>4

\* The index the reader works with, built if it is not there yet.
LEMMA IndexedFact ==
    ASSUME FileTypes, IndexInv
    PROVE  /\ IsIndex(Indexed) /\ Indexed.index_built
           /\ Indexed.current_step = rd.current_step
           /\ Indexed.n_steps_total = IF rd.index_built THEN rd.n_steps_total ELSE Len(steps)
<1>1. CASE rd.index_built
  <2>1. Indexed = rd
    BY <1>1 DEF Indexed
  <2> QED
    BY <1>1, <2>1 DEF IndexInv
<1>2. CASE ~rd.index_built
  <2> DEFINE x == [index_built |-> TRUE, n_steps_total |-> Len(steps),
                   map |-> LogicalMap(Len(steps)), current_step |-> rd.current_step]
  <2>1. /\ rd = [index_built |-> rd.index_built, n_steps_total |-> rd.n_steps_total,
                 map |-> rd.map, current_step |-> rd.current_step]
        /\ rd.current_step = Nowhere
    BY <1>2 DEF IndexInv, IsIndex
  <2>2. Indexed = [rd EXCEPT !.index_built = TRUE, !.n_steps_total = Len(steps),
                             !.map = LogicalMap(Len(steps))]
    BY <1>2, EntryTypes DEF Indexed
  <2>3. Indexed = x
    BY <2>1, <2>2
  <2>4. Len(steps) \in 0 .. Len(steps)
    BY EntryTypes
  <2>5. /\ DOMAIN x.map \subseteq LogicalIds
        /\ \A id \in DOMAIN x.map :
              /\ x.map[id] \in 0 .. x.n_steps_total - 1
              /\ id \in steps[x.map[id] + 1].ids
              /\ \A k \in x.map[id] + 1 .. x.n_steps_total - 1 : id \notin steps[k + 1].ids
    BY <2>4, LogicalMapFact
  <2>6. /\ x = [index_built |-> x.index_built, n_steps_total |-> x.n_steps_total,
                map |-> x.map, current_step |-> x.current_step]
        /\ x.n_steps_total = Len(steps)
        /\ x.current_step = Nowhere
    BY <2>1
  <2>7. x.index_built /\ x.index_built \in BOOLEAN
    BY Zenon
  <2> HIDE DEF x
  <2>8. IsIndex(x)
    BY <2>4, <2>5, <2>6, <2>7 DEF IsIndex
  <2> QED
    BY <1>2, <2>1, <2>3, <2>6, <2>7, <2>8
<1>3. rd.index_built \in BOOLEAN
  BY DEF IndexInv, IsIndex
<1> QED
  BY <1>1, <1>2

\* What a move of the cursor leaves: the next step, or the cursor where it
\* was.
LEMMA AdvanceFact ==
    ASSUME FileTypes, IndexInv, NEW next \in Nat, ReaderAdvance(next)
    PROVE  /\ IsIndex(rd') /\ rd'.index_built
           /\ rd'.n_steps_total = Indexed.n_steps_total
           /\ rd'.current_step = IF next < Indexed.n_steps_total THEN next ELSE rd.current_step
<1> DEFINE x == Indexed
<1>1. /\ IsIndex(x) /\ x.index_built /\ x.current_step = rd.current_step
  BY IndexedFact
<1>2. rd' = IF next < x.n_steps_total THEN [x EXCEPT !.current_step = next] ELSE x
  BY DEF ReaderAdvance
<1> HIDE DEF x
<1>3. CASE next < x.n_steps_total
  <2> DEFINE y == [index_built |-> x.index_built, n_steps_total |-> x.n_steps_total,
                   map |-> x.map, current_step |-> next]
  <2>1. rd' = y
    BY <1>1, <1>2, <1>3 DEF IsIndex
  <2>2. /\ y.n_steps_total = x.n_steps_total /\ y.map = x.map /\ y.current_step = next
        /\ y = [index_built |-> y.index_built, n_steps_total |-> y.n_steps_total,
                map |-> y.map, current_step |-> y.current_step]
    OBVIOUS
  <2>3. y.index_built = x.index_built
    OBVIOUS
  <2> HIDE DEF y
  <2>4. x.n_steps_total \in Nat /\ next \in 0 .. x.n_steps_total - 1
    BY <1>1, <1>3, EntryTypes DEF IsIndex
  <2>5. y.index_built \in BOOLEAN /\ y.index_built
    BY <1>1, <2>3 DEF IsIndex
  <2>6. IsIndex(y)
    BY <1>1, <2>2, <2>4, <2>5 DEF IsIndex
  <2> QED
    BY <1>3, <2>1, <2>2, <2>5, <2>6 DEF x
<1>4. CASE ~(next < x.n_steps_total)
  BY <1>1, <1>2, <1>4 DEF x
<1> QED
  BY <1>3, <1>4

\* A step added to the file changes no index.
LEMMA IndexStable ==
    ASSUME FileTypes, IndexInv, rd' = rd, EndFact \/ UNCHANGED steps
    PROVE  IndexInv'
<1>1. Len(steps) \in Nat
  BY EntryTypes
<1>2. CASE EndFact
  <2>1. Len(steps') = Len(steps) + 1 /\ \A i \in 1 .. Len(steps) : steps'[i] = steps[i]
    BY <1>2 DEF EndFact
  <2>2. rd.n_steps_total \in 0 .. Len(steps) /\ rd.n_steps_total \in 0 .. Len(steps')
    BY <1>1, <2>1 DEF IndexInv, IsIndex
  <2>3. \A k \in 0 .. rd.n_steps_total - 1 : steps'[k + 1] = steps[k + 1]
    BY <1>1, <2>1, <2>2
  <2>4. ASSUME rd.index_built, NEW id \in DOMAIN rd.map
        PROVE  /\ rd.map[id] \in 0 .. rd.n_steps_total - 1
               /\ id \in steps'[rd.map[id] + 1].ids
               /\ \A k \in rd.map[id] + 1 .. rd.n_steps_total - 1 : id \notin steps'[k + 1].ids
    BY <2>2, <2>3, <2>4 DEF IndexInv, IsIndex
  <2>5. IsIndex(rd)'
    BY <2>2, <2>4 DEF IndexInv, IsIndex
  <2> QED
    BY <2>5 DEF IndexInv
<1>3. CASE UNCHANGED steps
  BY <1>3 DEF IndexInv, IsIndex
<1> QED
  BY <1>2, <1>3


\* A step of the writer that is not end_step.
LEMMA WriterFrame ==
    ASSUME [Next]_vars, ~EndStep,
           ~ReaderBeginStep, \A id \in LogicalIds : ~BeginLogicalStep(id),
           \A cap \in 1 .. Cardinality(LogicalIds) : ~GetLogicalSteps(cap),
           ~ReaderOpenDataset, ~ReaderOpenAttr, ~ReaderReopen
    PROVE  UNCHANGED <<steps, log, rd, got>>
<1> QED
  BY DEF Next, vars, writerVars, readerVars, BeginStep, DatasetCreate, SetExtentPlaceholder,
     SetExtentLive, DatasetWrite, DatasetWriteAll, WriteSpan, AttrWrite

\* The reader's index.
LEMMA IndexInvStep ==
    ASSUME OpenTypes, FileTypes, IndexInv, [Next]_vars
    PROVE  IndexInv'
<1> USE HistoryAssumption
<1>0. ASSUME IsIndex(rd'), UNCHANGED writerVars PROVE IndexInv'
  BY <1>0 DEF IndexInv, IsIndex, writerVars
<1>1. CASE EndStep
  <2>1. EndFact /\ rd' = rd
    BY <1>1, EndEffect DEF EndStep, readerVars
  <2> QED
    BY <2>1, IndexStable
<1>2. CASE ReaderBeginStep
  <2> DEFINE next == IF rd.current_step = Nowhere THEN 0 ELSE rd.current_step + 1
  <2>1. next \in Nat
    BY EntryTypes DEF IndexInv, IsIndex
  <2>2. ReaderAdvance(next) /\ UNCHANGED writerVars
    BY <1>2 DEF ReaderBeginStep
  <2> HIDE DEF next
  <2> QED
    BY <1>0, <2>1, <2>2, AdvanceFact
<1>3. ASSUME NEW id \in LogicalIds, BeginLogicalStep(id) PROVE IndexInv'
  <2>1. UNCHANGED writerVars
    BY <1>3 DEF BeginLogicalStep
  <2>2. CASE id \in DOMAIN Indexed.map
    <3>1. Indexed.map[id] \in Nat /\ ReaderAdvance(Indexed.map[id])
      BY <1>3, <2>2, IndexedFact DEF IsIndex, BeginLogicalStep
    <3> QED
      BY <1>0, <2>1, <3>1, AdvanceFact
  <2>3. CASE id \notin DOMAIN Indexed.map
    BY <1>0, <1>3, <2>1, <2>3, IndexedFact DEF BeginLogicalStep
  <2> QED
    BY <2>2, <2>3
<1>4. ASSUME NEW cap \in 1 .. Cardinality(LogicalIds), GetLogicalSteps(cap) PROVE IndexInv'
  BY <1>0, <1>4, IndexedFact DEF GetLogicalSteps
<1>5. CASE ReaderOpenDataset \/ ReaderOpenAttr
  <2>1. rd' = rd /\ steps' = steps
    BY <1>5 DEF ReaderOpenDataset, ReaderOpenAttr, writerVars
  <2> QED
    BY <2>1, IndexStable
<1>6. CASE ReaderReopen
  <2>1. rd' = Closed /\ UNCHANGED writerVars
    BY <1>6 DEF ReaderReopen
  <2>2. ~Closed.index_built /\ Closed.index_built \in BOOLEAN
    BY Zenon DEF Closed
  <2>3. Closed.n_steps_total = 0 /\ Closed.current_step = Nowhere
        /\ Closed = [index_built |-> Closed.index_built, n_steps_total |-> Closed.n_steps_total,
                     map |-> Closed.map, current_step |-> Closed.current_step]
    BY DEF Closed
  <2>4. IsIndex(Closed)
    BY <2>2, <2>3, EntryTypes DEF IsIndex
  <2> QED
    BY <1>0, <2>1, <2>4
<1>7. CASE UNCHANGED <<steps, rd>>
  BY <1>7, IndexStable
<1> QED
  BY <1>1, <1>2, <1>3, <1>4, <1>5, <1>6, <1>7, WriterFrame

\* The invariant holds at the start.
LEMMA InitInv == ASSUME Init PROVE HInv
<1> USE HistoryAssumption
<1>1. steps = <<>> /\ log = <<>> /\ writes = <<>> /\ Len(steps) = 0 /\ DOMAIN steps = {}
  BY DEF Init
<1>2. OpenTypes
  <2>1. in_step \in BOOLEAN /\ attr_entry \in BOOLEAN /\ late \in BOOLEAN /\ ~in_step
    BY Zenon DEF Init
  <2>2. /\ logical_ids \subseteq LogicalIds /\ obj = "none" /\ low \in Extents
        /\ pending_resize_space = Nowhere /\ under = Nowhere /\ create = Nowhere
        /\ plain = Nowhere /\ writes = <<>>
    BY DEF Init, Extents
  <2>3. writes \in Seq(Span)
    BY <1>1
  <2> QED
    BY <2>1, <2>2, <2>3 DEF OpenTypes
<1>3. FileTypes
  <2>1. steps \in Seq(CopyStep) /\ log \in Seq(Entry) /\ Len(log) = Len(steps)
    BY <1>1
  <2> QED
    BY <1>1, <2>1 DEF Init, FileTypes
<1>4. FirstInv /\ WrittenInv /\ KeptInv /\ LogInv
  BY <1>1 DEF Init, FirstInv, WrittenInv, KeptInv, LogInv
<1>5. IndexInv
  <2>1. rd = Closed
    BY DEF Init
  <2>2. ~Closed.index_built /\ Closed.index_built \in BOOLEAN
    BY Zenon DEF Closed
  <2>3. Closed.n_steps_total = 0 /\ Closed.current_step = Nowhere
        /\ Closed = [index_built |-> Closed.index_built, n_steps_total |-> Closed.n_steps_total,
                     map |-> Closed.map, current_step |-> Closed.current_step]
    BY DEF Closed
  <2>4. IsIndex(Closed)
    BY <1>1, <2>2, <2>3 DEF IsIndex
  <2> QED
    BY <2>1, <2>4 DEF IndexInv
<1> QED
  BY <1>2, <1>3, <1>4, <1>5 DEF HInv

\* And every step keeps it.
LEMMA Inductive == ASSUME HInv, [Next]_vars PROVE HInv'
<1>1. FirstInv'
  BY FirstInvStep DEF HInv
<1> QED
  BY <1>1, OpenTypesStep, FileTypesStep, WrittenInvStep, KeptInvStep, LogInvStep, IndexInvStep
     DEF HInv

\* The invariant holds throughout.
LEMMA InvHolds == Spec => []HInv
  BY InitInv, Inductive, PTL DEF Spec
-----------------------------------------------------------------------------
(* The theorems.                                                           *)

\* An element that is written and lies in the copy before makes the step's
\* writes too many for carry_forward_resized to fill its copy.
LEMMA WritesWinStep ==
    ASSUME ~HeadWrites, HInv, WritesWin, [Next]_vars
    PROVE  WritesWin'
<1> USE HistoryAssumption
<1> USE DEF HInv
<1>1. CASE EndStep
  <2>1. PICK n \in Nat : n = Len(steps)
    BY EntryTypes
  <2>2. EndFact /\ in_step /\ DOMAIN steps = 1 .. n /\ physical_step = n
    BY <1>1, <2>1, EndEffect, EntryTypes DEF EndStep
  <2>3. /\ DOMAIN steps' = 1 .. n + 1 /\ \A i \in 1 .. n : steps'[i] = steps[i]
        /\ steps'[n + 1].data = NewData /\ steps'[n + 1].writes = writes
    BY <2>1, <2>2, LenProperties DEF EndFact
  <2>4. ASSUME create # Nowhere, NEW i \in 1 .. create, Covered(i)
        PROVE  CarryForward(Replayed)[i] = n + 1
    <3>1. create \in Nat /\ create \in Extents /\ create <= MaxDim /\ obj # "none"
      BY <2>4 DEF OpenTypes, Extents
    <3>2. Replayed[i] = n + 1
      BY <2>2, <2>4, CarriedType
    <3>3. CASE Newest # Nowhere /\ CarryForwardGate(OldExtent, create, WrittenTotal)
      <4>1. /\ Newest + 1 \in DOMAIN steps /\ NewestData(Newest + 1, Len(steps))
            /\ OldExtent = Len(steps[Newest + 1].data)
        BY <3>3, NewestFact
      <4>2. steps[Newest + 1].data \in Copies
        BY <2>1, <2>2, <4>1, EntryTypes DEF Copy, NewestData
      <4>3. OldExtent \in Nat
        BY <4>1, <4>2, CopyLength
      <4>4. obj = "live"
        BY <4>1 DEF FirstInv, NewestData
      <4>5. CarryForward(Replayed) =
               [h \in 1 .. create |-> IF h <= OldExtent THEN steps[Newest + 1].data[h]
                                      ELSE Replayed[h]]
        BY <2>2, <2>4, <3>3, CarriedType
      <4>6. ~(i <= OldExtent)
        <5> SUFFICES ASSUME i <= OldExtent PROVE FALSE
          OBVIOUS
        <5>1. PICK j \in DOMAIN writes : Covers(writes[j], i)
          BY <2>4 DEF Covered
        <5>2. \/ writes[j].lo = 1 /\ writes[j].hi = create
              \/ writes[j].lo > OldExtent
          BY <2>4, <4>1, <4>4 DEF WrittenInv
        <5>3. writes[j].lo \in Nat
          <6>1. writes[j] \in Span
            BY ElementOfSeq, LenProperties DEF OpenTypes
          <6> QED
            BY <6>1 DEF Span
        <5>4. CASE writes[j].lo = 1 /\ writes[j].hi = create
          <6>1. \A h \in 1 .. create : Covered(h)
            BY <3>1, <5>4 DEF Covered, Covers
          <6>2. WrittenTotal \in Nat /\ create <= WrittenTotal
            BY <3>1, <6>1, TotalBound
          <6> QED
            BY <3>1, <3>3, <4>3, <6>2 DEF CarryForwardGate
        <5>5. CASE writes[j].lo > OldExtent
          BY <3>1, <4>3, <5>1, <5>3, <5>5 DEF Covers
        <5> QED
          BY <5>2, <5>4, <5>5
      <4> QED
        BY <3>2, <4>5, <4>6
    <3>4. CASE ~(Newest # Nowhere /\ CarryForwardGate(OldExtent, create, WrittenTotal))
      <4>1. CarryForward(Replayed) = Replayed
        BY <2>2, <2>4, <3>4, CarriedType
      <4> QED
        BY <3>2, <4>1
    <3> QED
      BY <3>3, <3>4
  <2>5. ASSUME NEW k \in 1 .. n + 1, steps'[k].data # Nowhere, NEW i \in DOMAIN steps'[k].data,
               NEW j \in DOMAIN steps'[k].writes, Covers(steps'[k].writes[j], i)
        PROVE  steps'[k].data[i] = k
    <3>1. CASE k = n + 1
      <4>1. create # Nowhere /\ NewData = CarryForward(Replayed)
        BY <2>3, <2>5, <3>1 DEF NewData
      <4>2. DOMAIN CarryForward(Replayed) = 1 .. create
        BY <2>2, <4>1, CarriedType, CopyLength
      <4>3. i \in 1 .. create /\ Covered(i)
        BY <2>3, <2>5, <3>1, <4>1, <4>2 DEF Covered
      <4> QED
        BY <2>3, <2>4, <3>1, <4>1, <4>3
    <3>2. CASE k # n + 1
      <4>1. k \in 1 .. n /\ steps'[k] = steps[k]
        BY <2>1, <2>3, <3>2
      <4> QED
        BY <2>2, <2>5, <4>1 DEF WritesWin
    <3> QED
      BY <3>1, <3>2
  <2> QED
    BY <2>3, <2>5 DEF WritesWin
<1>2. CASE ~EndStep
  <2>1. UNCHANGED steps
    BY <1>2, FileKept
  <2> QED
    BY <2>1 DEF WritesWin
<1> QED
  BY <1>1, <1>2

\* carry_forward_resized replaces no value of the step: an application whose
\* steps rewrite a dataset as a whole or write past its newest copy never
\* loses what it wrote. (Where a step rewrites a part of the old data, it can:
\* the run carry_overwrites.)
THEOREM OwnWritesWin ==
    ASSUME ~HeadWrites
    PROVE  Spec => []WritesWin
<1>1. Init => WritesWin
  BY DEF Init, WritesWin
<1>2. HInv /\ WritesWin /\ [Next]_vars => WritesWin'
  BY WritesWinStep
<1> QED
  BY <1>1, <1>2, InvHolds, PTL DEF Spec


\* The prefix that the reader's first look fixes.
Known == IF rd.index_built THEN rd.n_steps_total ELSE Nowhere
\* The first look is a Look of the log; a later one changes nothing.
LEMMA LookFact ==
    ASSUME HInv, rd'.index_built, rd'.n_steps_total = Indexed.n_steps_total, log' = log
    PROVE  Log!Look /\ Known' = Indexed.n_steps_total /\ Indexed.n_steps_total \in 0 .. Len(steps)
<1>1. /\ Indexed.n_steps_total = IF rd.index_built THEN rd.n_steps_total ELSE Len(steps)
      /\ Indexed.n_steps_total \in 0 .. Len(steps)
  BY IndexedFact DEF HInv, IsIndex
<1>2. rd.index_built => rd.n_steps_total # Nowhere
  BY HistoryAssumption DEF HInv, IndexInv, IsIndex
<1>3. Known' = Indexed.n_steps_total
  BY DEF Known
<1>4. Len(log) = Len(steps)
  BY DEF HInv, FileTypes
<1>5. Known' = IF Known = Nowhere THEN Len(log) ELSE Known
  BY <1>1, <1>2, <1>3, <1>4 DEF Known
<1> QED
  BY <1>1, <1>3, <1>5 DEF Log!Look, Known

\* end_step adds an entry to the log.
LEMMA EndRefines == ASSUME HInv, EndStep PROVE Log!Commit
<1>1. PICK n \in Nat : n = Len(steps)
  BY EntryTypes DEF HInv
<1>2. EndFact /\ DOMAIN steps = 1 .. n /\ Len(log) = n /\ log \in Seq(Entry)
  BY <1>1, EndEffect, EntryTypes DEF HInv, FileTypes
<1>3. /\ log' \in Seq(Entry) /\ Len(log') = n + 1
      /\ \A i \in 1 .. n : log'[i] = log[i]
      /\ log'[n + 1].exact => n = 0 \/ log[n].exact
  BY <1>1, <1>2 DEF EndFact
<1>4. SubSeq(log', 1, n) = log
  <2>1. n \in 1 - 1 .. Len(log') /\ 1 \in 1 .. Len(log') + 1
    BY <1>1, <1>3
  <2>2. /\ SubSeq(log', 1, n) \in Seq(Entry) /\ Len(SubSeq(log', 1, n)) = n
        /\ \A i \in 1 .. n : SubSeq(log', 1, n)[i] = log'[i]
    BY <1>1, <1>3, <2>1, SubSeqProperties
  <2> QED
    BY <1>2, <1>3, <2>2, SeqEqual
<1>5. log'[n + 1].exact => \A i \in DOMAIN log : log[i].exact
  <2> SUFFICES ASSUME log'[n + 1].exact, NEW i \in 1 .. n PROVE log[i].exact
    BY <1>1, EntryTypes DEF HInv
  <2>1. n \in 1 .. n /\ i <= n /\ log[n].exact
    BY <1>1, <1>3
  <2> QED
    BY <1>2, <2>1 DEF HInv, LogInv
<1>6. UNCHANGED <<rd, got>>
  BY DEF EndStep, readerVars
<1> QED
  BY <1>2, <1>3, <1>4, <1>5, <1>6 DEF Log!Commit

\* begin_step moves to the next entry, or finds none.
LEMMA BeginRefines == ASSUME HInv, ReaderBeginStep PROVE Log!Next1 \/ Log!NotFound
<1> DEFINE next == IF rd.current_step = Nowhere THEN 0 ELSE rd.current_step + 1
<1>1. next \in Nat
  BY EntryTypes, HistoryAssumption DEF HInv, IndexInv, IsIndex
<1>2. ReaderAdvance(next) /\ got' = Nowhere /\ log' = log
  BY DEF ReaderBeginStep, writerVars
<1>3. next = IF rd.current_step = Nowhere THEN 0 ELSE rd.current_step + 1
  OBVIOUS
<1> HIDE DEF next
<1>4. /\ rd'.index_built /\ rd'.n_steps_total = Indexed.n_steps_total
      /\ rd'.current_step = IF next < Indexed.n_steps_total THEN next ELSE rd.current_step
  BY <1>1, <1>2, AdvanceFact DEF HInv
<1>5. Log!Look /\ Known' = Indexed.n_steps_total
  BY <1>2, <1>4, LookFact
<1>6. CASE next < Indexed.n_steps_total
  <2>1. rd'.current_step = next /\ rd'.current_step < Known'
    BY <1>4, <1>5, <1>6
  <2>2. Log!Next1
    BY <1>2, <1>3, <1>5, <2>1 DEF Log!Next1, Known
  <2> QED
    BY <2>2
<1>7. CASE ~(next < Indexed.n_steps_total)
  BY <1>2, <1>4, <1>5, <1>7 DEF Log!NotFound
<1> QED
  BY <1>6, <1>7

\* begin_logical_step moves to the last entry with the id, or finds none.
LEMMA LogicalRefines ==
    ASSUME HInv, NEW id \in LogicalIds, BeginLogicalStep(id)
    PROVE  Log!Seek \/ Log!NotFound
<1> DEFINE x == Indexed
<1>1. /\ IsIndex(x) /\ x.index_built /\ x.current_step = rd.current_step
  BY IndexedFact DEF HInv
<1>2. got' = Nowhere /\ log' = log
  BY DEF BeginLogicalStep, writerVars
<1>3. CASE id \in DOMAIN x.map
  <2> DEFINE at == x.map[id]
  <2>1. at \in Nat /\ at \in 0 .. x.n_steps_total - 1 /\ id \in steps[at + 1].ids
        /\ \A k \in at + 1 .. x.n_steps_total - 1 : id \notin steps[k + 1].ids
    BY <1>1, <1>3 DEF IsIndex
  <2>2. ReaderAdvance(at)
    BY <1>3 DEF BeginLogicalStep
  <2> HIDE DEF at, x
  <2>3. /\ rd'.index_built /\ rd'.n_steps_total = x.n_steps_total
        /\ rd'.current_step = IF at < x.n_steps_total THEN at ELSE rd.current_step
    BY <2>1, <2>2, AdvanceFact DEF HInv, x
  <2>4. Log!Look /\ Known' = x.n_steps_total /\ x.n_steps_total \in 0 .. Len(steps)
    BY <1>2, <2>3, LookFact DEF x
  <2>5. rd'.current_step = at
    BY <2>1, <2>3, <2>4
  <2>6. \A k \in 0 .. x.n_steps_total - 1 : log[k + 1].ids = steps[k + 1].ids
    <3> TAKE k \in 0 .. x.n_steps_total - 1
    <3>1. k + 1 \in DOMAIN steps
      BY <2>4, EntryTypes DEF HInv
    <3> QED
      BY <3>1 DEF HInv, FileTypes
  <2>7. id \in log[at + 1].ids
    BY <2>1, <2>6
  <2>8. \A k \in at + 1 .. x.n_steps_total - 1 : id \notin log[k + 1].ids
    BY <2>1, <2>4, <2>6
  <2>9. Log!Seek
    BY <1>2, <2>1, <2>4, <2>5, <2>7, <2>8 DEF Log!Seek, Known
  <2> QED
    BY <2>9
<1>4. CASE id \notin DOMAIN x.map
  <2>1. rd' = x
    BY <1>4 DEF BeginLogicalStep
  <2>2. Log!Look
    BY <1>1, <1>2, <2>1, LookFact
  <2> QED
    BY <1>1, <1>2, <2>1, <2>2 DEF Log!NotFound
<1> QED
  BY <1>3, <1>4


\* get_logical_steps lists ids of the prefix in ascending order.
LEMMA ListRefines ==
    ASSUME HInv, NEW cap \in 1 .. Cardinality(LogicalIds), GetLogicalSteps(cap)
    PROVE  Log!List
<1> DEFINE x == Indexed
           S == DOMAIN x.map
           ids == Ascending(S)
           c == IF cap < Len(ids) THEN cap ELSE Len(ids)
           v == SubSeq(ids, 1, c)
<1>1. /\ IsIndex(x) /\ x.index_built /\ x.current_step = rd.current_step
  BY IndexedFact DEF HInv
<1>2. rd' = x /\ log' = log /\ got' = [what |-> "ids", val |-> v]
  BY DEF GetLogicalSteps, writerVars
<1>3. Log!Look /\ Known' = x.n_steps_total /\ x.n_steps_total \in 0 .. Len(steps)
  BY <1>1, <1>2, LookFact
<1> HIDE DEF x
<1>4. S \subseteq LogicalIds
  BY <1>1 DEF IsIndex
<1>5. Cardinality(LogicalIds) \in Nat
  BY HistoryAssumption, FS_CardinalityType
<1> HIDE DEF S
<1>6. /\ Cardinality(S) \in Nat /\ Cardinality(S) <= Cardinality(LogicalIds)
      /\ ids \in [1 .. Cardinality(S) -> S]
      /\ \A i, j \in 1 .. Cardinality(S) : i < j => ids[i] < ids[j]
  BY <1>4, AscendingFact
<1> HIDE DEF ids
<1>7. ids \in Seq(S) /\ Len(ids) = Cardinality(S)
  <2>1. ids \in Seq(S)
    BY <1>6, SeqDef
  <2> QED
    BY <1>6, <2>1, LenProperties
<1>8. c \in 0 .. Len(ids) /\ c \in Nat /\ c \in 0 .. Cardinality(LogicalIds)
  BY <1>5, <1>6, <1>7
<1> HIDE DEF c
<1>9. /\ v \in Seq(S) /\ Len(v) = c
      /\ \A i \in 1 .. c : v[i] = ids[i]
  <2>1. c \in 1 - 1 .. Len(ids) /\ 1 \in 1 .. Len(ids) + 1
    BY <1>6, <1>7, <1>8
  <2> QED
    BY <1>7, <1>8, <2>1, SubSeqProperties
<1> HIDE DEF v
<1>10. DOMAIN v = 1 .. c /\ \A i \in 1 .. c : v[i] \in S /\ i \in 1 .. Cardinality(S)
  BY <1>6, <1>7, <1>8, <1>9, LenProperties
<1>11. v \in IdLists
  <2>1. v \in [1 .. c -> LogicalIds]
    <3>1. v = [i \in 1 .. c |-> v[i]]
      BY <1>9, <1>10, LenProperties
    <3> QED
      BY <1>4, <1>10, <3>1
  <2> QED
    BY <1>8, <2>1 DEF IdLists
<1>12. got' # Nowhere /\ got'.what = "ids" /\ got'.val = v
  <2>1. got' \in Results
    BY <1>2, <1>11 DEF Results
  <2> QED
    BY <1>2, <2>1, HistoryAssumption
<1>13. \A i, j \in DOMAIN v : i < j => v[i] < v[j]
  BY <1>6, <1>9, <1>10
<1>14. ASSUME NEW i \in DOMAIN v
       PROVE  \E k \in 1 .. x.n_steps_total : v[i] \in log[k].ids
  <2>1. v[i] \in S
    BY <1>10
  <2> DEFINE k == x.map[v[i]] + 1
  <2>2. k \in 1 .. x.n_steps_total /\ v[i] \in steps[k].ids
    BY <1>1, <1>3, <2>1, EntryTypes DEF IsIndex, S, HInv
  <2> HIDE DEF k
  <2>3. k \in DOMAIN steps
    BY <1>3, <2>2, EntryTypes DEF HInv
  <2>4. log[k].ids = steps[k].ids
    BY <2>3 DEF HInv, FileTypes
  <2> QED
    BY <2>2, <2>4
<1> QED
  BY <1>1, <1>2, <1>3, <1>12, <1>13, <1>14 DEF Log!List, Known

\* Opening the dataset shows the state of the cursor's entry.
LEMMA ReadRefines == ASSUME HInv, ReaderOpenDataset PROVE Log!Read
<1> USE DEF HInv
<1>1. rd.current_step # Nowhere /\ UNCHANGED <<log, rd>>
  BY DEF ReaderOpenDataset, writerVars
<1>2. PICK n \in 0 .. Len(steps) : n = rd.n_steps_total
  BY DEF IndexInv, IsIndex
<1>3. PICK c \in 0 .. n - 1 : c = rd.current_step
  BY <1>1, <1>2 DEF IndexInv, IsIndex
<1>4. PICK at : at = Resolve(DataSteps(n), c)
  OBVIOUS
<1>5. at # Nowhere /\ got' = [what |-> "data", val |-> steps[at + 1].data]
  BY <1>2, <1>3, <1>4 DEF ReaderOpenDataset
<1>6. at \in 0 .. c /\ NewestData(at + 1, c + 1)
  BY <1>2, <1>3, <1>4, <1>5, ResolveData
<1>7. c + 1 \in DOMAIN steps /\ at + 1 \in DOMAIN steps
  BY <1>2, <1>3, <1>6, EntryTypes
<1>8. log[c + 1].exact => log[c + 1].data = steps[at + 1].data
  BY <1>6, <1>7 DEF LogInv
<1>9. got' # Nowhere /\ got'.what = "data" /\ got'.val = steps[at + 1].data
  <2>1. steps[at + 1].data \in Copies
    BY <1>6, <1>7, EntryTypes DEF NewestData, Copy
  <2>2. got' \in Results
    BY <1>5, <2>1 DEF Results
  <2> QED
    BY <1>5, <2>2, HistoryAssumption
<1> QED
  BY <1>1, <1>3, <1>8, <1>9 DEF Log!Read

\* And opening the attribute, the value it had there.
LEMMA AttrRefines == ASSUME HInv, ReaderOpenAttr PROVE Log!ReadAttr
<1> USE DEF HInv
<1>1. rd.current_step # Nowhere /\ UNCHANGED <<log, rd>>
  BY DEF ReaderOpenAttr, writerVars
<1>2. PICK n \in 0 .. Len(steps) : n = rd.n_steps_total
  BY DEF IndexInv, IsIndex
<1>3. PICK c \in 0 .. n - 1 : c = rd.current_step
  BY <1>1, <1>2 DEF IndexInv, IsIndex
<1>4. PICK at : at = Resolve(AttrSteps(n), c)
  OBVIOUS
<1>5. at # Nowhere /\ got' = [what |-> "attr", val |-> at]
  BY <1>2, <1>3, <1>4 DEF ReaderOpenAttr
<1>6. at \in 0 .. c /\ NewestAttr(at + 1, c + 1)
  BY <1>2, <1>3, <1>4, <1>5, ResolveAttr
<1>7. c + 1 \in DOMAIN steps /\ at + 1 \in DOMAIN steps /\ (at + 1) - 1 = at
  BY <1>2, <1>3, <1>6, EntryTypes
<1>8. log[c + 1].attr = at
  BY <1>6, <1>7 DEF LogInv
<1> QED
  BY <1>1, <1>3, <1>5, <1>8 DEF Log!ReadAttr

\* Every step of the stream is a step of the log, or none.
LEMMA StepRefines == ASSUME HInv, [Next]_vars PROVE [Log!Next]_Log!vars
<1>1. CASE EndStep
  BY <1>1, EndRefines DEF Log!Next
<1>2. CASE ReaderBeginStep
  BY <1>2, BeginRefines DEF Log!Next
<1>3. ASSUME NEW id \in LogicalIds, BeginLogicalStep(id) PROVE Log!Next
  BY <1>3, LogicalRefines DEF Log!Next
<1>4. ASSUME NEW cap \in 1 .. Cardinality(LogicalIds), GetLogicalSteps(cap) PROVE Log!Next
  BY <1>4, ListRefines DEF Log!Next
<1>5. CASE ReaderOpenDataset
  BY <1>5, ReadRefines DEF Log!Next
<1>6. CASE ReaderOpenAttr
  BY <1>6, AttrRefines DEF Log!Next
<1>7. CASE ReaderReopen
  <2>1. rd' = Closed /\ got' = Nowhere /\ log' = log
    BY <1>7 DEF ReaderReopen, writerVars
  <2>2. ~Closed.index_built
    BY Zenon DEF Closed
  <2>3. Closed.current_step = Nowhere
    BY DEF Closed
  <2>4. Log!Reopen
    BY <2>1, <2>2, <2>3 DEF Log!Reopen
  <2> QED
    BY <2>4 DEF Log!Next
<1>8. CASE UNCHANGED <<steps, log, rd, got>>
  BY <1>8 DEF Log!vars
<1> QED
  BY <1>1, <1>2, <1>3, <1>4, <1>5, <1>6, <1>7, <1>8, WriterFrame

\* The stream implements the log of states: with its copies per step, the
\* carry-forward of appends, the path index, the logical map and the cursor,
\* a reader of reader_begin_step, begin_logical_step, H5Dopen and H5Aopen
\* sees what StepLog promises.
THEOREM StreamImplementsLog == Spec => ReadsAsLog
<1>1. Init => Log!Init
  <2> SUFFICES ASSUME Init PROVE Log!Init
    OBVIOUS
  <2>1. rd = Closed /\ got = Nowhere /\ log = <<>>
    BY DEF Init
  <2>2. ~Closed.index_built
    BY Zenon DEF Closed
  <2>3. Closed.current_step = Nowhere
    BY DEF Closed
  <2> QED
    BY <2>1, <2>2, <2>3 DEF Log!Init
<1>2. HInv /\ [Next]_vars => [Log!Next]_Log!vars
  BY StepRefines
<1> QED
  BY <1>1, <1>2, InvHolds, PTL DEF Spec, ReadsAsLog, Log!Spec
=============================================================================
