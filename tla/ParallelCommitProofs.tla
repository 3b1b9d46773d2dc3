------------------------ MODULE ParallelCommitProofs ------------------------
(* Proofs about ParallelCommit, for every value of its constants.          *)
EXTENDS ParallelCommit, ProofFacts

-----------------------------------------------------------------------------
(* The inductive invariant. The ranks are in one collective because        *)
(* everything that decides the next one is common to them (Lockstep). A    *)
(* write reaches the file once because it is always in one of the places   *)
(* that lead there (Located), and the places are ordered (Ordered).        *)

NamedWrite == [rank : Ranks, k : Nat, path : Paths]
ManifestType == UNION {[S -> Entry] : S \in SUBSET Nat}

RankTypes ==
    /\ pc \in [Ranks -> Collectives \cup Locals]
    /\ in_call \in [Ranks -> BOOLEAN]
    /\ physical_step \in [Ranks -> Nat] /\ polls \in [Ranks -> Nat]
    /\ group_size \in Nat \ {0}
    /\ \A r \in Ranks : in_call[r] => pc[r] \in Collectives

\* A pair of ranks is at the same place of the same step, or one of them has
\* not yet called end_step, or has not yet finished its writes.
Lockstep ==
    \A r, s \in Ranks :
        /\ polls[r] = polls[s]
        /\ \/ /\ physical_step[r] = physical_step[s]
              /\ pc[r] = pc[s] \/ {pc[r], pc[s]} \subseteq {"in_step", "end"}
           \/ /\ physical_step[r] + 1 = physical_step[s]
              /\ pc[r] = "write" /\ pc[s] = "final"
           \/ /\ physical_step[s] + 1 = physical_step[r]
              /\ pc[s] = "write" /\ pc[r] = "final"

WriteTypes ==
    /\ pending \in [Ranks -> Seq(Entry)]
    /\ \A r \in Ranks : \A k \in Writes(r) : \E j \in DOMAIN pending[r] :
          pending[r][j].kind = "create" /\ pending[r][j].path = pending[r][k].path
    /\ todo \in [Ranks -> Seq(NamedWrite)] /\ jobs \in [Ranks -> Seq(NamedWrite)]
    /\ applied \in Seq(NamedWrite)
    /\ sent \in [Ranks -> Nat] /\ recv_from \in [Ranks -> Nat]
    /\ DOMAIN chan = Ranks /\ DOMAIN bufs = Ranks /\ DOMAIN verdict = Ranks

\* Nothing of a step is left over when a rank is not writing, and nothing is
\* there before it does.
Quiet ==
    \A r \in Ranks :
        /\ pc[r] # "write" => todo[r] = <<>> /\ jobs[r] = <<>> /\ chan[r] = <<>>
        /\ pc[r] \notin {"write", "final", "begin", "closed"} =>
              applied = <<>> /\ sent[r] = 0 /\ recv_from[r] = r + 1 /\ verdict[r] = "none"
        /\ pc[r] = "write" => verdict[r] = "none"

\* What a concentrator and a member have of each other.
GroupInv ==
    \A r \in Ranks :
        /\ recv_from[r] >= r + 1
        /\ recv_from[r] = N + 1 => Concentrator(r) = r /\ jobs[r] = <<>>
        /\ group_size > 1 /\ recv_from[r] # N + 1 =>
              /\ todo[r] = <<>>
              /\ \A i \in DOMAIN applied : Concentrator(applied[i].rank) # r
        /\ group_size = 1 => jobs[r] = <<>>
        /\ Member(r) => todo[r] = <<>> /\ jobs[r] = <<>>
        /\ chan[r] # <<>> => /\ Member(r) /\ sent[r] \in 1 .. Len(MessagesOf(r))
                             /\ chan[r] = <<MessagesOf(r)[sent[r]]>>

\* Every entry on the way is a write of a rank of the group.
IsWrite(w) == w.k \in Writes(w.rank) /\ w.path = pending[w.rank][w.k].path
NamedInv ==
    /\ \A i \in DOMAIN applied : IsWrite(applied[i])
    /\ \A r \in Ranks :
          /\ \A i \in DOMAIN todo[r] : IsWrite(todo[r][i]) /\ Concentrator(todo[r][i].rank) = r
          /\ \A i \in DOMAIN jobs[r] : IsWrite(jobs[r][i]) /\ Concentrator(jobs[r][i].rank) = r

\* Jobs are gathered in order, from the members up to the current one, and
\* are messages that were received.
Less(v, w) == v.rank < w.rank \/ (v.rank = w.rank /\ v.k < w.k)
Handed(s, i) == i + 1 <= sent[s] /\ (chan[s] # <<>> => i + 1 < sent[s])
JobsInv ==
    \A r \in Ranks :
        /\ \A i, j \in DOMAIN jobs[r] : i < j => Less(jobs[r][i], jobs[r][j])
        /\ \A j \in DOMAIN jobs[r] : LET w == jobs[r][j] IN
              /\ w.rank <= recv_from[r]
              /\ w.rank # r => \E i \in 1 .. Cardinality(Writes(w.rank)) :
                                  w = WriteSeq(w.rank)[i] /\ Handed(w.rank, i)

\* Writes of a group to one path are issued in order.
Ordered ==
    \A r \in Ranks :
        /\ \A i, j \in DOMAIN todo[r] :
              i < j /\ todo[r][i].path = todo[r][j].path => Less(todo[r][i], todo[r][j])
        /\ \A i \in DOMAIN applied, j \in DOMAIN todo[r] :
              /\ Concentrator(applied[i].rank) = r
              /\ applied[i].path = todo[r][j].path
              => Less(applied[i], todo[r][j])

\* A write of the step is in the file or on its way there, and its dataset is.
InWrite(r) == pc[r] = "write" \/ (pc[r] = "final" /\ verdict[r] = "committed")
Place(w, r) == \/ \E i \in DOMAIN applied : applied[i] = w
               \/ \E i \in DOMAIN todo[r] : todo[r][i] = w
               \/ \E i \in DOMAIN jobs[r] : jobs[r][i] = w
Located ==
    \A r \in Ranks : InWrite(r) =>
        /\ \A i \in 1 .. Cardinality(Writes(r)) :
              Place(WriteSeq(r)[i], Concentrator(r)) \/ (Member(r) /\ ~Handed(r, i))
        /\ pc[r] = "final" /\ Member(r) => sent[r] = Len(MessagesOf(r))
        /\ \A k \in Writes(r) : pending[r][k].path \in made

\* What the ranks exchanged is what they have pending.
BufsInv ==
    \A r \in Ranks : pc[r] = "create" =>
        bufs[r] = [s \in Ranks |-> AggManifest(s)]

CInv == /\ RankTypes /\ Lockstep /\ WriteTypes /\ Quiet /\ GroupInv /\ NamedInv
        /\ JobsInv /\ Ordered /\ Located /\ BufsInv /\ OrderKept

-----------------------------------------------------------------------------
(* Facts about the operators of the model.                                 *)

\* Groups of ranks.
LEMMA GroupFact ==
    ASSUME NEW g \in Nat \ {0}, NEW r \in Nat
    PROVE  /\ (r \div g) * g \in Nat /\ (r \div g) * g <= r /\ r < (r \div g) * g + g
           /\ r % g = 0 <=> (r \div g) * g = r
           /\ g = 1 => (r \div g) * g = r
           /\ \A c \in Nat : (c \div g) * g = c /\ c <= r /\ r < c + g => (r \div g) * g = c
<1> DEFINE q == r \div g
<1>1. q \in Nat /\ r % g \in Nat /\ r % g < g /\ r = g * q + (r % g)
  OBVIOUS
<1>2. g * q = q * g /\ q * g \in Nat
  BY <1>1
<1>3. g = 1 => q * g = r
  BY <1>1
<1>4. ASSUME NEW c \in Nat, (c \div g) * g = c, c <= r, r < c + g PROVE q * g = c
  <2> DEFINE p == c \div g
  <2>1. p \in Nat /\ p * g = c
    BY <1>4
  <2> HIDE DEF p, q
  <2>2. q * g <= r /\ r < q * g + g
    BY <1>1, <1>2
  <2>3. ~(p + 1 <= q)
    <3> SUFFICES ASSUME p + 1 <= q PROVE FALSE
      OBVIOUS
    <3>1. (p + 1) * g <= q * g
      BY <1>1, <2>1
    <3>2. (p + 1) * g = p * g + g
      BY <2>1
    <3> QED
      BY <1>2, <1>4, <2>1, <2>2, <3>1, <3>2
  <2>4. ~(q + 1 <= p)
    <3> SUFFICES ASSUME q + 1 <= p PROVE FALSE
      OBVIOUS
    <3>1. (q + 1) * g <= p * g
      BY <1>1, <2>1
    <3>2. (q + 1) * g = q * g + g
      BY <1>1
    <3> QED
      BY <1>2, <1>4, <2>1, <2>2, <3>1, <3>2
  <2>5. p = q
    BY <1>1, <2>1, <2>3, <2>4
  <2> QED
    BY <2>1, <2>5
<1> HIDE DEF q
<1>5. q * g <= r /\ r < q * g + g /\ (r % g = 0 <=> q * g = r)
  BY <1>1, <1>2
<1> QED
  BY <1>2, <1>3, <1>4, <1>5 DEF q

\* Ranks are natural numbers.
LEMMA RankFact ==
    /\ N \in Nat /\ N >= 1 /\ 0 \in Ranks
    /\ \A r \in Ranks : r \in Nat /\ r + 1 <= N
    /\ \A r \in Nat : r < N => r \in Ranks
  BY ParallelAssumption DEF Ranks

\* A rank's concentrator is a rank.
LEMMA ConcentratorFact ==
    ASSUME RankTypes, NEW r \in Ranks
    PROVE  /\ Concentrator(r) \in Ranks /\ Concentrator(r) <= r
           /\ r % group_size = 0 <=> Concentrator(r) = r
           /\ group_size = 1 => Concentrator(r) = r
           /\ \A c \in Ranks : Concentrator(c) = c /\ c <= r /\ r < c + group_size
                                  => Concentrator(r) = c
<1>1. group_size \in Nat \ {0}
  BY DEF RankTypes
<1>2. r \in Nat /\ r < N /\ N \in Nat
  BY RankFact
<1>3. /\ Concentrator(r) \in Nat /\ Concentrator(r) <= r
      /\ r % group_size = 0 <=> Concentrator(r) = r
      /\ group_size = 1 => Concentrator(r) = r
  BY <1>1, <1>2, GroupFact DEF Concentrator
<1>4. \A c \in Ranks : Concentrator(c) = c /\ c <= r /\ r < c + group_size
                          => Concentrator(r) = c
  <2> TAKE c \in Ranks
  <2>1. c \in Nat
    BY RankFact
  <2> QED
    BY <1>1, <1>2, <2>1, GroupFact DEF Concentrator
<1>5. Concentrator(r) \in Ranks
  BY <1>2, <1>3, RankFact
<1> QED
  BY <1>3, <1>4, <1>5

\* The writes of a rank, in their order.
LEMMA WriteSeqFact ==
    ASSUME WriteTypes, NEW r \in Ranks
    PROVE  /\ Cardinality(Writes(r)) \in Nat
           /\ WriteSeq(r) \in Seq(NamedWrite)
           /\ DOMAIN WriteSeq(r) = 1 .. Cardinality(Writes(r))
           /\ Len(WriteSeq(r)) = Cardinality(Writes(r))
           /\ \A i \in 1 .. Cardinality(Writes(r)) :
                 IsWrite(WriteSeq(r)[i]) /\ WriteSeq(r)[i].rank = r
           /\ \A i, j \in 1 .. Cardinality(Writes(r)) :
                 i < j => WriteSeq(r)[i].k < WriteSeq(r)[j].k
           /\ \A k \in Writes(r) : \E i \in 1 .. Cardinality(Writes(r)) :
                 WriteSeq(r)[i].k = k
<1> DEFINE S == Writes(r)
           c == Cardinality(S)
           Upto(x) == {y \in S : y <= x}
<1>1. pending[r] \in Seq(Entry) /\ DOMAIN pending[r] = 1 .. Len(pending[r])
      /\ Len(pending[r]) \in Nat
  BY LenProperties DEF WriteTypes
<1>2. S \subseteq 1 .. Len(pending[r])
  BY <1>1 DEF Writes
<1> HIDE DEF S
<1>3. S \subseteq Nat /\ IsFiniteSet(S)
  <2>1. IsFiniteSet(1 .. Len(pending[r]))
    BY <1>1, FS_Interval
  <2>2. IsFiniteSet(S)
    BY <1>2, <2>1, FS_Subset
  <2> QED
    BY <1>1, <1>2, <2>2
<1>4. /\ c \in Nat
      /\ \A x, y \in S : x < y => Cardinality(Upto(x)) < Cardinality(Upto(y))
      /\ \A x \in S : Cardinality(Upto(x)) \in 1 .. c
      /\ \A i \in 1 .. c : \E x \in S : Cardinality(Upto(x)) = i
  BY <1>3, NumbersEnumerated, Zenon
<1>5. \A i : Nth(S, i) = CHOOSE x \in S : Cardinality(Upto(x)) = i
  BY DEF Nth
<1> HIDE DEF Upto, c
<1>6. \A i \in 1 .. c : Nth(S, i) \in S /\ Cardinality(Upto(Nth(S, i))) = i
  BY <1>4, <1>5
<1>7. WriteSeq(r) = [i \in 1 .. c |-> [rank |-> r, k |-> Nth(S, i), path |-> pending[r][Nth(S, i)].path]]
  BY DEF WriteSeq, S, c
<1>8. \A k \in S : k \in Nat /\ pending[r][k] \in Entry /\ pending[r][k].path \in Paths
  <2> TAKE k \in S
  <2>1. pending[r][k] \in Entry
    BY <1>1, <1>2, ElementOfSeq
  <2> QED
    BY <1>3, <2>1 DEF Entry
<1>9. \A i \in 1 .. c : [rank |-> r, k |-> Nth(S, i), path |-> pending[r][Nth(S, i)].path] \in NamedWrite
  BY <1>6, <1>8 DEF NamedWrite
<1>10. WriteSeq(r) \in [1 .. c -> NamedWrite]
  BY <1>7, <1>9
<1>11. WriteSeq(r) \in Seq(NamedWrite) /\ Len(WriteSeq(r)) = c /\ DOMAIN WriteSeq(r) = 1 .. c
  <2>1. WriteSeq(r) \in Seq(NamedWrite)
    BY <1>4, <1>10, SeqDef
  <2> QED
    BY <1>4, <1>10, <2>1, LenProperties
<1>12. \A i \in 1 .. c : /\ WriteSeq(r)[i].rank = r /\ WriteSeq(r)[i].k = Nth(S, i)
                         /\ WriteSeq(r)[i].path = pending[r][Nth(S, i)].path
  BY <1>7
<1>13. \A i \in 1 .. c : IsWrite(WriteSeq(r)[i])
  BY <1>6, <1>12 DEF IsWrite, S
<1>14. ASSUME NEW i \in 1 .. c, NEW j \in 1 .. c, i < j PROVE Nth(S, i) < Nth(S, j)
  <2> DEFINE x == Nth(S, i)
             y == Nth(S, j)
  <2>1. x \in S /\ y \in S /\ Cardinality(Upto(x)) = i /\ Cardinality(Upto(y)) = j
    BY <1>6
  <2>2. x \in Nat /\ y \in Nat /\ i \in Int /\ j \in Int
    <3>1. i \in Int /\ j \in Int
      BY <1>4
    <3>2. x \in Nat /\ y \in Nat
      BY <1>3, <2>1
    <3> QED
      BY <3>1, <3>2
  <2> HIDE DEF x, y
  <2>3. x # y /\ ~(y < x)
    BY <1>4, <1>14, <2>1, <2>2
  <2> QED
    BY <2>2, <2>3 DEF x, y
<1>15. ASSUME NEW k \in S PROVE \E i \in 1 .. c : WriteSeq(r)[i].k = k
  <2> DEFINE i == Cardinality(Upto(k))
  <2>1. i \in 1 .. c /\ Nth(S, i) \in S /\ Cardinality(Upto(Nth(S, i))) = i
    BY <1>4, <1>6
  <2> DEFINE x == Nth(S, i)
  <2>2. x \in S /\ Cardinality(Upto(x)) = Cardinality(Upto(k)) /\ Cardinality(Upto(k)) \in Nat
    BY <1>4, <2>1
  <2>3. x \in Nat /\ k \in Nat
    BY <1>3, <2>2
  <2> HIDE DEF x
  <2>4. x = k
    BY <1>4, <2>2, <2>3
  <2> HIDE DEF i
  <2> QED
    BY <1>12, <2>1, <2>4 DEF x
<1> QED
  BY <1>4, <1>11, <1>12, <1>13, <1>14, <1>15 DEF S, c

\* The messages of a member: the count, then its writes.
LEMMA MessagesFact ==
    ASSUME WriteTypes, NEW r \in Ranks
    PROVE  /\ Len(MessagesOf(r)) = Cardinality(Writes(r)) + 1
           /\ \A i \in 1 .. Cardinality(Writes(r)) : MessagesOf(r)[i + 1] = WriteSeq(r)[i]
<1> DEFINE a == <<Cardinality(Writes(r))>>
           b == WriteSeq(r)
           T == Nat \cup NamedWrite
<1>1. b \in Seq(NamedWrite) /\ Len(b) = Cardinality(Writes(r)) /\ Cardinality(Writes(r)) \in Nat
      /\ DOMAIN b = 1 .. Len(b)
  BY WriteSeqFact
<1>2. a \in Seq(T) /\ Len(a) = 1
  BY <1>1
<1>3. b \in Seq(T)
  BY <1>1, ElementOfSeq, SeqDef
<1> HIDE DEF a, b
<1>4. /\ Len(a \o b) = Len(a) + Len(b)
      /\ \A i \in 1 .. Len(a) + Len(b) : (a \o b)[i] = IF i <= Len(a) THEN a[i] ELSE b[i - Len(a)]
  BY <1>2, <1>3, ConcatProperties
<1>5. MessagesOf(r) = a \o b
  BY DEF MessagesOf, a, b
<1>6. \A i \in 1 .. Len(b) : MessagesOf(r)[i + 1] = b[i]
  <2> TAKE i \in 1 .. Len(b)
  <2>1. i + 1 \in 1 .. Len(a) + Len(b) /\ ~(i + 1 <= Len(a)) /\ (i + 1) - Len(a) = i
    BY <1>1, <1>2
  <2> QED
    BY <1>4, <1>5, <2>1
<1>7. Len(MessagesOf(r)) = Len(b) + 1
  BY <1>1, <1>2, <1>4, <1>5
<1>8. Len(b) = Cardinality(Writes(r)) /\ b = WriteSeq(r)
  BY <1>1 DEF b
<1> QED
  BY <1>6, <1>7, <1>8


\* The jobs path by path: the same jobs, and those of one path in the order
\* in which they were gathered.
Rearranged(T, js) ==
    /\ T \in Seq(NamedWrite) /\ DOMAIN T = DOMAIN js
    /\ \A n \in DOMAIN js : \E a \in DOMAIN js : T[n] = js[a]
    /\ \A a \in DOMAIN js : \E n \in DOMAIN js : T[n] = js[a]
    /\ \A m, n \in DOMAIN js : m < n /\ T[m].path = T[n].path =>
          \E a, b \in DOMAIN js : a < b /\ T[m] = js[a] /\ T[n] = js[b]
\* ByPath rearranges the jobs in this way.
LEMMA ByPathFact ==
    ASSUME NEW js \in Seq(NamedWrite)
    PROVE  Rearranged(ByPath(js), js)
<1> DEFINE D == DOMAIN js
           f == [i \in D |-> FirstOfPath(js, i)]
           U == [i \in D |-> UpToJob(js, i)]
           at == [n \in D |-> CHOOSE i \in D : Cardinality(UpToJob(js, i)) = n]
<1>1. D = 1 .. Len(js) /\ Len(js) \in Nat /\ IsFiniteSet(D) /\ Cardinality(D) = Len(js)
  <2>1. D = 1 .. Len(js) /\ Len(js) \in Nat
    BY LenProperties
  <2> HIDE DEF D
  <2>2. IsFiniteSet(1 .. Len(js)) /\ Cardinality(1 .. Len(js)) = Len(js)
    <3> DEFINE n == Len(js)
    <3>1. n \in Nat
      BY <2>1
    <3> HIDE DEF n
    <3>2. /\ IsFiniteSet(1 .. n)
          /\ Cardinality(1 .. n) = IF 1 > n THEN 0 ELSE n - 1 + 1
      BY <3>1, FS_Interval
    <3>3. Cardinality(1 .. n) = n
      BY <3>1, <3>2
    <3> QED
      BY <3>2, <3>3 DEF n
  <2> QED
    BY <2>1, <2>2
<1>2. \A i \in D : f[i] \in Nat
  <2> TAKE i \in D
  <2> DEFINE S == {j \in D : js[j].path = js[i].path}
  <2>1. S \subseteq Nat /\ S # {}
    BY <1>1
  <2> HIDE DEF S
  <2>2. Min(S) \in S
    BY <2>1, MinNat
  <2>3. f[i] = Min(S)
    BY DEF FirstOfPath, S
  <2> QED
    BY <2>1, <2>2, <2>3
<1>3. \A i, j \in D : js[i].path = js[j].path => f[i] = f[j]
  <2> SUFFICES ASSUME NEW i \in D, NEW j \in D, js[i].path = js[j].path PROVE f[i] = f[j]
    OBVIOUS
  <2> QED
    BY DEF FirstOfPath
<1>4. \A i \in D : U[i] = UpToJob(js, i) /\ f[i] = FirstOfPath(js, i)
  OBVIOUS
<1>5. ByPath(js) = [n \in D |-> js[at[n]]]
  BY DEF ByPath
<1> HIDE DEF f
<1>6. \A i \in D : i \in Nat
  BY <1>1
<1> HIDE DEF D
<1>7. U \in [D -> SUBSET D] /\ \A i, j \in D : j \in U[i] <=> f[j] < f[i] \/ (f[j] = f[i] /\ j <= i)
  <2>1. \A i, j : j \in UpToJob(js, i) <=>
           /\ j \in D
           /\ \/ FirstOfPath(js, j) < FirstOfPath(js, i)
              \/ FirstOfPath(js, j) = FirstOfPath(js, i) /\ j <= i
    BY DEF UpToJob, D
  <2>2. U \in [D -> SUBSET D]
    BY <2>1
  <2> QED
    BY <1>4, <2>1, <2>2
<1> HIDE DEF U
<1>8. Orders(D, U)
  <2>1. \A i \in D : i \in U[i]
    BY <1>2, <1>6, <1>7
  <2>2. \A i, j \in D : i \in U[j] \/ j \in U[i]
    BY <1>2, <1>6, <1>7
  <2>3. \A i, j \in D : i \in U[j] /\ j \in U[i] => i = j
    BY <1>2, <1>6, <1>7
  <2>4. \A i, j \in D : i \in U[j] => U[i] \subseteq U[j]
    <3> SUFFICES ASSUME NEW i \in D, NEW j \in D, i \in U[j], NEW h \in U[i] PROVE h \in U[j]
      OBVIOUS
    <3>1. h \in D
      BY <1>7
    <3>2. f[h] \in Nat /\ f[i] \in Nat /\ f[j] \in Nat /\ h \in Nat /\ i \in Nat /\ j \in Nat
      BY <1>2, <1>6, <3>1
    <3>3. (f[h] < f[i] \/ (f[h] = f[i] /\ h <= i)) /\ (f[i] < f[j] \/ (f[i] = f[j] /\ i <= j))
      BY <1>7, <3>1
    <3>4. f[h] < f[j] \/ (f[h] = f[j] /\ h <= j)
      BY <3>2, <3>3
    <3> QED
      BY <1>7, <3>1, <3>4
  <2> QED
    BY <1>7, <2>1, <2>2, <2>3, <2>4 DEF Orders
<1>9. Numbered(D, U)
  BY <1>1, <1>8, Enumeration
<1>10. \A n \in D : at[n] \in D /\ Cardinality(U[at[n]]) = n
  <2> TAKE n \in D
  <2>1. n \in 1 .. Cardinality(D)
    BY <1>1
  <2>2. \E i \in D : Cardinality(U[i]) = n
    BY <1>9, <2>1 DEF Numbered
  <2>3. \E i \in D : Cardinality(UpToJob(js, i)) = n
    BY <1>4, <2>2
  <2>4. at[n] \in D /\ Cardinality(UpToJob(js, at[n])) = n
    BY <2>3
  <2> QED
    BY <1>4, <2>4
<1>11. \A a \in D : Cardinality(U[a]) \in D
  BY <1>1, <1>9 DEF Numbered
<1>12. \A a, b \in D : Cardinality(U[a]) = Cardinality(U[b]) => a = b
  <2> SUFFICES ASSUME NEW a \in D, NEW b \in D, Cardinality(U[a]) = Cardinality(U[b]), a # b
               PROVE  FALSE
    OBVIOUS
  <2>1. a \in U[b] \/ b \in U[a]
    BY <1>8 DEF Orders
  <2>2. Cardinality(U[a]) < Cardinality(U[b]) \/ Cardinality(U[b]) < Cardinality(U[a])
    BY <1>9, <2>1 DEF Numbered
  <2>3. Cardinality(U[a]) \in Nat
    BY <1>6, <1>11
  <2> QED
    BY <2>2, <2>3
<1> HIDE DEF at
<1>13. ASSUME NEW a \in D PROVE \E n \in D : ByPath(js)[n] = js[a]
  <2>1. Cardinality(U[a]) \in D /\ at[Cardinality(U[a])] = a
    BY <1>10, <1>11, <1>12
  <2> QED
    BY <1>5, <2>1
<1>14. ASSUME NEW m \in D, NEW n \in D, m < n, ByPath(js)[m].path = ByPath(js)[n].path
       PROVE  \E a, b \in D : a < b /\ ByPath(js)[m] = js[a] /\ ByPath(js)[n] = js[b]
  <2>1. at[m] \in D /\ at[n] \in D /\ ByPath(js)[m] = js[at[m]] /\ ByPath(js)[n] = js[at[n]]
    BY <1>5, <1>10
  <2>2. f[at[m]] = f[at[n]]
    BY <1>3, <1>14, <2>1
  <2>3. Cardinality(U[at[m]]) = m /\ Cardinality(U[at[n]]) = n
    BY <1>10
  <2>4. at[m] # at[n]
    BY <1>6, <1>14, <2>3
  <2>5. ~(at[n] < at[m])
    <3> SUFFICES ASSUME at[n] < at[m] PROVE FALSE
      OBVIOUS
    <3>1. at[n] \in U[at[m]]
      BY <1>6, <1>7, <2>1, <2>2
    <3>2. n < m
      BY <1>9, <2>1, <2>3, <2>4, <3>1 DEF Numbered
    <3> QED
      BY <1>6, <1>14, <3>2
  <2>6. at[m] < at[n]
    BY <1>6, <2>1, <2>4, <2>5
  <2> QED
    BY <2>1, <2>6
<1>15. ByPath(js) \in Seq(NamedWrite) /\ DOMAIN ByPath(js) = D
  <2>1. \A n \in D : js[at[n]] \in NamedWrite
    BY <1>1, <1>10, ElementOfSeq
  <2>2. ByPath(js) \in [1 .. Len(js) -> NamedWrite]
    BY <1>1, <1>5, <2>1
  <2> QED
    BY <1>1, <2>2, SeqDef
<1>16. \A n \in D : \E a \in D : ByPath(js)[n] = js[a]
  BY <1>5, <1>10
<1> QED
  BY <1>13, <1>14, <1>15, <1>16 DEF D, Rearranged

\* The merge keeps a creation of every path that a rank creates.
LEMMA MergedFact ==
    ASSUME WriteTypes, NEW r \in Ranks, bufs[r] = [s \in Ranks |-> AggManifest(s)],
           NEW s \in Ranks, NEW k \in DOMAIN pending[s], pending[s][k].kind = "create"
    PROVE  \E e \in Merged(r) : e.kind = "create" /\ e.path = pending[s][k].path
<1> DEFINE entry(a) == bufs[r][a[1]][a[2]]
           p == pending[s][k].path
           M(t) == {j \in DOMAIN pending[t] : pending[t][j].kind = "create" /\ pending[t][j].path = p}
           R == {t \in Ranks : M(t) # {}}
<1>1. \A t \in Ranks : pending[t] \in Seq(Entry) /\ DOMAIN pending[t] = 1 .. Len(pending[t])
                       /\ Len(pending[t]) \in Nat
  BY LenProperties DEF WriteTypes
<1>2. R \subseteq Nat /\ s \in R
  BY RankFact
<1>3. PICK t \in R : \A u \in R : t <= u
  <2> HIDE DEF R
  <2>1. R # {}
    BY <1>2
  <2> QED
    BY <1>2, <2>1, NatMinimum
<1>4. t \in Ranks /\ M(t) # {} /\ M(t) \subseteq Nat
  BY <1>1, <1>3
<1>5. PICK j \in M(t) : \A i \in M(t) : j <= i
  <2> HIDE DEF M
  <2> QED
    BY <1>4, NatMinimum
<1>6. j \in DOMAIN pending[t] /\ pending[t][j].kind = "create" /\ pending[t][j].path = p
  BY <1>5
<1>7. \A u \in Ranks : /\ DOMAIN bufs[r][u] = {i \in DOMAIN pending[u] : pending[u][i].kind # "write"}
                       /\ \A i \in DOMAIN bufs[r][u] : bufs[r][u][i] = pending[u][i]
  BY DEF AggManifest
<1> DEFINE a == <<t, j>>
<1>8. a \in Gathered(r) /\ entry(a) = pending[t][j]
  <2>1. j \in DOMAIN bufs[r][t] /\ bufs[r][t][j] = pending[t][j]
    BY <1>4, <1>6, <1>7
  <2>2. a \in {t} \X DOMAIN bufs[r][t]
    BY <2>1
  <2>3. a \in Gathered(r)
    BY <1>4, <2>2 DEF Gathered
  <2>4. a[1] = t /\ a[2] = j
    OBVIOUS
  <2> HIDE DEF a
  <2> QED
    BY <2>1, <2>3, <2>4
<1>9. ASSUME NEW b \in Gathered(r), Earlier(b, a), SameKey(entry(a), entry(b)) PROVE FALSE
  <2>1. b[1] \in Ranks /\ b[2] \in DOMAIN bufs[r][b[1]]
    BY DEF Gathered
  <2>2. entry(b) = pending[b[1]][b[2]] /\ b[2] \in DOMAIN pending[b[1]]
    BY <1>7, <2>1
  <2>3. b[2] \in M(b[1])
    BY <1>6, <1>8, <1>9, <2>1, <2>2 DEF SameKey
  <2>4. b[1] \in R
    BY <2>1, <2>3
  <2>5. t <= b[1] /\ b[1] \in Nat /\ t \in Nat
    BY <1>2, <1>3, <2>4
  <2>6. b[1] = t /\ b[2] < j
    BY <1>9, <2>5 DEF Earlier
  <2>7. b[2] \in M(t)
    BY <2>3, <2>6
  <2> QED
    BY <1>4, <1>5, <2>6, <2>7
<1> HIDE DEF M, R
<1> DEFINE e == [kind |-> entry(a).kind, path |-> entry(a).path, rank |-> a[1]]
<1>10. e \in Merged(r)
  BY <1>8, <1>9 DEF Merged
<1> QED
  BY <1>6, <1>8, <1>10

-----------------------------------------------------------------------------
(* The ranks keep together.                                                *)

\* Ranks that are all in a collective are in the same one, for the same step.
LEMMA AllInOne ==
    ASSUME RankTypes, Lockstep, Complete, NEW r \in Ranks, NEW s \in Ranks
    PROVE  /\ pc[r] \in Collectives /\ pc[r] = pc[s]
           /\ physical_step[r] = physical_step[s] /\ polls[r] = polls[s]
<1>1. in_call[r] /\ in_call[s]
  BY DEF Complete
<1>2. pc[r] \in Collectives /\ pc[s] \in Collectives
  BY <1>1 DEF RankTypes
<1>3. pc[r] # "write" /\ pc[s] # "write" /\ pc[r] # "in_step" /\ pc[s] # "in_step"
  BY <1>2 DEF Collectives
<1>4. /\ polls[r] = polls[s] /\ physical_step[r] = physical_step[s]
      /\ pc[r] = pc[s] \/ {pc[r], pc[s]} \subseteq {"in_step", "end"}
  BY <1>3 DEF Lockstep
<1> QED
  BY <1>2, <1>3, <1>4

\* Where a rank goes follows from what is common to them.
LEMMA AfterFact ==
    ASSUME RankTypes, Lockstep, Complete, NEW r \in Ranks, NEW s \in Ranks
    PROVE  /\ After(r) = After(s) /\ After(r) \in Collectives \cup Locals
           /\ pc[r] \notin {"begin", "create", "discard", "final"} =>
                 After(r) \notin {"write", "final", "begin", "closed", "in_step"}
           /\ pc[r] = "begin" => After(r) = "in_step"
           /\ pc[r] = "create" => After(r) = "write"
           /\ pc[r] = "discard" => After(r) = "final"
           /\ pc[r] = "final" => After(r) \in {"begin", "closed"}
           /\ After(r) = "create" => pc[r] = "gather"
<1>1. /\ pc[r] \in Collectives /\ pc[r] = pc[s]
      /\ physical_step[r] = physical_step[s] /\ polls[r] = polls[s]
  BY AllInOne
<1>2. Pressure(r) = Pressure(s)
  BY <1>1 DEF Pressure
<1>3. After(r) = After(s)
  BY <1>1, <1>2 DEF After
<1> QED
  BY <1>1, <1>3 DEF After, Collectives, Locals

\* Nothing that the invariant speaks of changes.
IdleVars == <<pc, group_size, physical_step, polls, pending, bufs, made, verdict, chan,
              sent, recv_from, jobs, todo, applied>>

\* The kinds of steps.
LEMMA StepKinds ==
    ASSUME [Next]_vars
    PROVE  \/ Complete
           \/ \E r \in Ranks :
                \/ Call(r) \/ \E prog \in Programs : Capture(r, prog)
                \/ IssueWrite(r) \/ Send(r) \/ Recv(r) \/ Gather(r)
                \/ LocalDone(r) \/ SendDone(r) \/ ConcentratorDone(r)
           \/ UNCHANGED <<IdleVars, in_call>>
<1>1. CASE UNCHANGED vars
  BY <1>1 DEF vars, policyVars, commitVars, writeVars, IdleVars
<1>2. ASSUME NEW r \in Ranks, ReaderNext(r) PROVE UNCHANGED <<IdleVars, in_call>>
  BY <1>2 DEF ReaderNext, ReaderAck, ReaderLeave, policyVars, commitVars, writeVars, IdleVars
<1>3. ASSUME NEW r \in Ranks, RankNext(r)
      PROVE  \/ Call(r) \/ \E prog \in Programs : Capture(r, prog)
             \/ IssueWrite(r) \/ Send(r) \/ Recv(r) \/ Gather(r)
             \/ LocalDone(r) \/ SendDone(r) \/ ConcentratorDone(r)
  BY <1>3, Zenon DEF RankNext
<1> QED
  BY <1>1, <1>2, <1>3, Zenon DEF Next

\* The end of a rank's writes.
DoneStep(r) ==
    /\ pc[r] = "write" /\ Committed(r)
    /\ UNCHANGED <<in_call, group_size, pending, polls, bufs, made, writeVars>>
\* The three ways to end do this.
LEMMA DoneEffect ==
    ASSUME NEW r, LocalDone(r) \/ SendDone(r) \/ ConcentratorDone(r)
    PROVE  DoneStep(r)
<1>1. CASE LocalDone(r)
  BY <1>1 DEF LocalDone, DoneStep, policyVars
<1>2. CASE SendDone(r)
  BY <1>2 DEF SendDone, DoneStep, policyVars
<1>3. CASE ConcentratorDone(r)
  BY <1>3 DEF ConcentratorDone, DoneStep, policyVars
<1> QED
  BY <1>1, <1>2, <1>3

\* Everything of a rank's place in the protocol stays.
StayVars == <<pc, in_call, group_size, physical_step, polls>>
\* The steps of the writes leave it.
LEMMA StayEffect ==
    ASSUME NEW r, IssueWrite(r) \/ Send(r) \/ Recv(r) \/ Gather(r)
    PROVE  UNCHANGED StayVars /\ UNCHANGED <<pending, bufs, made, verdict>>
<1>1. CASE IssueWrite(r)
  BY <1>1 DEF IssueWrite, StayVars, policyVars, commitVars
<1>2. CASE Send(r)
  BY <1>2 DEF Send, StayVars, policyVars, commitVars
<1>3. CASE Recv(r)
  BY <1>3 DEF Recv, StayVars, policyVars, commitVars
<1>4. CASE Gather(r)
  BY <1>4 DEF Gather, StayVars, policyVars, commitVars
<1> QED
  BY <1>1, <1>2, <1>3, <1>4

\* A collective moves all ranks alike; what a rank does by itself leaves it
\* within the part of the step that has no collective.
LEMMA RanksStep ==
    ASSUME RankTypes, Lockstep, [Next]_vars
    PROVE  RankTypes' /\ Lockstep'
<1>1. CASE UNCHANGED <<IdleVars, in_call>>
  BY <1>1 DEF IdleVars, RankTypes, Lockstep
<1>2. ASSUME NEW r \in Ranks, Call(r) PROVE RankTypes' /\ Lockstep'
  <2>1. /\ pc[r] \in Collectives /\ in_call' = [in_call EXCEPT ![r] = TRUE]
        /\ UNCHANGED <<pc, group_size, physical_step, polls>>
    BY <1>2 DEF Call, policyVars
  <2> QED
    BY <2>1 DEF RankTypes, Lockstep
<1>3. ASSUME NEW r \in Ranks, NEW prog \in Programs, Capture(r, prog)
      PROVE  RankTypes' /\ Lockstep'
  <2>1. /\ pc[r] = "in_step" /\ pc' = [pc EXCEPT ![r] = "end"]
        /\ UNCHANGED <<in_call, group_size, physical_step, polls>>
    BY <1>3 DEF Capture, policyVars
  <2>2. RankTypes'
    BY <2>1 DEF RankTypes, Collectives, Locals
  <2>3. Lockstep'
    <3> SUFFICES ASSUME NEW s \in Ranks, NEW t \in Ranks PROVE Lockstep!(s, t)'
      BY DEF Lockstep
    <3>1. Lockstep!(s, t) /\ Lockstep!(r, t) /\ Lockstep!(r, s) /\ pc \in [Ranks -> Collectives \cup Locals]
      BY DEF Lockstep, RankTypes
    <3> QED
      BY <2>1, <3>1
  <2> QED
    BY <2>2, <2>3
<1>4. ASSUME NEW r \in Ranks, DoneStep(r) PROVE RankTypes' /\ Lockstep'
  <2>1. /\ pc[r] = "write" /\ pc' = [pc EXCEPT ![r] = "final"]
        /\ physical_step' = [physical_step EXCEPT ![r] = @ + 1]
        /\ UNCHANGED <<in_call, group_size, polls>>
    BY <1>4 DEF DoneStep, Committed
  <2>2. RankTypes'
    BY <2>1 DEF RankTypes, Collectives, Locals
  <2>3. Lockstep'
    <3> SUFFICES ASSUME NEW s \in Ranks, NEW t \in Ranks PROVE Lockstep!(s, t)'
      BY DEF Lockstep
    <3>1. /\ Lockstep!(s, t) /\ Lockstep!(r, t) /\ Lockstep!(r, s)
          /\ pc \in [Ranks -> Collectives \cup Locals] /\ physical_step \in [Ranks -> Nat]
      BY DEF Lockstep, RankTypes
    <3> QED
      BY <2>1, <3>1
  <2> QED
    BY <2>2, <2>3
<1>5. CASE Complete
  <2>1. /\ in_call' = [r \in Ranks |-> FALSE]
        /\ pc' = [r \in Ranks |-> After(r)]
        /\ polls' = [r \in Ranks |-> IF pc[r] = "block" /\ After(r) = "block" THEN polls[r] + 1 ELSE 0]
        /\ physical_step' = [r \in Ranks |->
              IF pc[r] = "discard" THEN physical_step[r] + 1 ELSE physical_step[r]]
        /\ group_size' = group_size
    BY <1>5 DEF Complete, policyVars
  <2>2. \A r, s \in Ranks : /\ pc[r] = pc[s] /\ physical_step[r] = physical_step[s]
                            /\ polls[r] = polls[s] /\ After(r) = After(s)
                            /\ After(r) \in Collectives \cup Locals
    BY <1>5, AllInOne, AfterFact
  <2>3. physical_step \in [Ranks -> Nat] /\ polls \in [Ranks -> Nat] /\ group_size \in Nat \ {0}
    BY DEF RankTypes
  <2>4. RankTypes'
    BY <2>1, <2>2, <2>3 DEF RankTypes
  <2>5. Lockstep'
    BY <2>1, <2>2 DEF Lockstep
  <2> QED
    BY <2>4, <2>5
<1>6. ASSUME NEW r \in Ranks, IssueWrite(r) \/ Send(r) \/ Recv(r) \/ Gather(r)
      PROVE  RankTypes' /\ Lockstep'
  BY <1>6, StayEffect DEF StayVars, RankTypes, Lockstep
<1> QED
  BY <1>1, <1>2, <1>3, <1>4, <1>5, <1>6, StepKinds, DoneEffect

-----------------------------------------------------------------------------
(* Steps before the writes, and after them.                                *)

\* What a rank has to write follows from what it has pending.
LEMMA SameWork ==
    ASSUME pending' = pending, group_size' = group_size
    PROVE  /\ \A r : Writes(r)' = Writes(r)
           /\ \A r : WriteSeq(r)' = WriteSeq(r)
           /\ \A r : MessagesOf(r)' = MessagesOf(r)
           /\ \A r : Concentrator(r)' = Concentrator(r) /\ (Member(r)' <=> Member(r))
           /\ \A w : IsWrite(w)' <=> IsWrite(w)
  BY DEF Writes, WriteSeq, MessagesOf, Concentrator, Member, IsWrite

\* Nothing of the step is under way, or done.
NothingYet ==
    /\ applied = <<>>
    /\ \A r \in Ranks :
          /\ todo[r] = <<>> /\ jobs[r] = <<>> /\ chan[r] = <<>>
          /\ sent[r] = 0 /\ recv_from[r] = r + 1 /\ ~InWrite(r)

\* Then what relates the places of a write holds.
LEMMA NothingYetFact ==
    NothingYet => GroupInv /\ NamedInv /\ JobsInv /\ Ordered /\ Located /\ OrderKept
<1> SUFFICES ASSUME NothingYet
             PROVE  GroupInv /\ NamedInv /\ JobsInv /\ Ordered /\ Located /\ OrderKept
  OBVIOUS
<1>1. DOMAIN <<>> = {}
  OBVIOUS
<1>2. DOMAIN applied = {} /\ applied = <<>>
  BY <1>1 DEF NothingYet
<1>3. \A r \in Ranks : /\ todo[r] = <<>> /\ jobs[r] = <<>> /\ chan[r] = <<>>
                       /\ DOMAIN todo[r] = {} /\ DOMAIN jobs[r] = {}
  BY <1>1 DEF NothingYet
<1>4. \A r \in Ranks : recv_from[r] = r + 1 /\ r \in Nat /\ r + 1 # N + 1
  BY RankFact DEF NothingYet
<1>5. GroupInv
  BY <1>2, <1>3, <1>4 DEF GroupInv
<1>6. NamedInv
  BY <1>2, <1>3 DEF NamedInv
<1>7. JobsInv
  BY <1>3 DEF JobsInv
<1>8. Ordered
  BY <1>2, <1>3 DEF Ordered
<1>9. Located
  BY DEF Located, NothingYet
<1>10. OrderKept
  BY <1>2 DEF OrderKept
<1> QED
  BY <1>5, <1>6, <1>7, <1>8, <1>9, <1>10

\* The first state.
LEMMA InitInv == Init => CInv
<1> SUFFICES ASSUME Init PROVE CInv
  OBVIOUS
<1>1. \A r \in Ranks : /\ pc[r] = "begin" /\ todo[r] = <<>> /\ jobs[r] = <<>>
                       /\ chan[r] = <<>> /\ sent[r] = 0 /\ recv_from[r] = r + 1
  BY DEF Init
<1>2. NothingYet
  BY <1>1 DEF Init, NothingYet, InWrite
<1>3. RankTypes
  BY ParallelAssumption DEF Init, RankTypes, Collectives
<1>4. Lockstep
  BY DEF Init, Lockstep
<1>5. WriteTypes
  <2>1. <<>> \in Seq(Entry) /\ <<>> \in Seq(NamedWrite) /\ DOMAIN <<>> = {}
    OBVIOUS
  <2>2. \A r \in Ranks : Writes(r) = {}
    BY <2>1 DEF Writes, Init
  <2>3. \A r \in Ranks : r + 1 \in Nat
    BY RankFact
  <2> QED
    BY <2>1, <2>2, <2>3 DEF Init, WriteTypes
<1>6. Quiet
  BY <1>1 DEF Quiet
<1>7. BufsInv
  BY <1>1 DEF BufsInv
<1> QED
  BY <1>2, <1>3, <1>4, <1>5, <1>6, <1>7, NothingYetFact DEF CInv

\* Steps that the invariant does not speak of.
LEMMA IdleStep ==
    ASSUME CInv, [Next]_vars, UNCHANGED IdleVars
    PROVE  CInv'
<1>1. /\ pending' = pending /\ group_size' = group_size /\ pc' = pc /\ bufs' = bufs
      /\ made' = made /\ verdict' = verdict /\ chan' = chan /\ sent' = sent
      /\ recv_from' = recv_from /\ jobs' = jobs /\ todo' = todo /\ applied' = applied
  BY DEF IdleVars
<1>2. RankTypes' /\ Lockstep'
  BY RanksStep DEF CInv
<1>3. WriteTypes'
  BY <1>1, SameWork DEF CInv, WriteTypes
<1>4. Quiet'
  BY <1>1 DEF CInv, Quiet
<1>5. GroupInv'
  BY <1>1, SameWork DEF CInv, GroupInv
<1>6. NamedInv'
  BY <1>1, SameWork DEF CInv, NamedInv
<1>7. JobsInv'
  BY <1>1, SameWork DEF CInv, JobsInv, Handed
<1>8. Ordered'
  BY <1>1, SameWork DEF CInv, Ordered
<1>9. Located'
  BY <1>1, SameWork DEF CInv, Located, InWrite, Place, Handed
<1>10. BufsInv'
  BY <1>1 DEF CInv, BufsInv, AggManifest
<1>11. OrderKept'
  BY <1>1, SameWork DEF CInv, OrderKept
<1> QED
  BY <1>2, <1>3, <1>4, <1>5, <1>6, <1>7, <1>8, <1>9, <1>10, <1>11 DEF CInv

\* The operations of a rank inside the step.
LEMMA CaptureStep ==
    ASSUME CInv, [Next]_vars, NEW r \in Ranks, NEW prog \in Programs, Capture(r, prog)
    PROVE  CInv'
<1>1. /\ pc[r] = "in_step" /\ pc' = [pc EXCEPT ![r] = "end"]
      /\ pending' = [pending EXCEPT ![r] = prog.entries]
      /\ bufs' = bufs /\ verdict' = verdict /\ chan' = chan /\ sent' = sent
      /\ recv_from' = recv_from /\ jobs' = jobs /\ todo' = todo /\ applied' = applied
  BY DEF Capture, policyVars, commitVars, writeVars
<1>2. RankTypes' /\ Lockstep'
  BY RanksStep DEF CInv
<1>3. RankTypes /\ Lockstep /\ WriteTypes /\ Quiet
  BY DEF CInv
<1>4. \A s \in Ranks : pc[s] \in {"in_step", "end"} /\ pc'[s] \in {"in_step", "end"}
  <2> TAKE s \in Ranks
  <2>1. pc[s] \in {"in_step", "end"}
    BY <1>1, <1>3 DEF Lockstep
  <2> QED
    BY <1>1, <1>3, <2>1 DEF RankTypes
<1>5. \A s \in Ranks :
        /\ todo[s] = <<>> /\ jobs[s] = <<>> /\ chan[s] = <<>>
        /\ applied = <<>> /\ sent[s] = 0 /\ recv_from[s] = s + 1 /\ verdict[s] = "none"
  BY <1>3, <1>4 DEF Quiet
<1>6. NothingYet'
  BY <1>1, <1>4, <1>5 DEF NothingYet, InWrite
<1>7. (NothingYet => GroupInv /\ NamedInv /\ JobsInv /\ Ordered /\ Located /\ OrderKept)'
  BY NothingYetFact, PTL
<1>8. WriteTypes'
  <2>1. prog \in Program /\ prog.entries \in Seq(Entry)
    BY ParallelAssumption DEF Program
  <2>2. \A k \in DOMAIN prog.entries : prog.entries[k].kind = "write" =>
           [kind |-> "create", path |-> prog.entries[k].path] \in Range(prog.entries)
    BY ParallelAssumption
  <2>3. \A k \in DOMAIN prog.entries : prog.entries[k].kind = "write" =>
           \E j \in DOMAIN prog.entries :
              /\ prog.entries[j].kind = "create"
              /\ prog.entries[j].path = prog.entries[k].path
    <3> SUFFICES ASSUME NEW k \in DOMAIN prog.entries, prog.entries[k].kind = "write"
                 PROVE  \E j \in DOMAIN prog.entries :
                          /\ prog.entries[j].kind = "create"
                          /\ prog.entries[j].path = prog.entries[k].path
      OBVIOUS
    <3>1. PICK j \in DOMAIN prog.entries :
             prog.entries[j] = [kind |-> "create", path |-> prog.entries[k].path]
      BY <2>2 DEF Range
    <3> QED
      BY <3>1
  <2>4. pending' \in [Ranks -> Seq(Entry)]
    BY <1>1, <1>3, <2>1 DEF WriteTypes
  <2>5. \A s \in Ranks : \A k \in Writes(s)' : \E j \in DOMAIN pending'[s] :
           pending'[s][j].kind = "create" /\ pending'[s][j].path = pending'[s][k].path
    <3> TAKE s \in Ranks
    <3>1. CASE s = r
      <4>1. pending'[s] = prog.entries
        BY <1>1, <1>3, <3>1 DEF WriteTypes
      <4>2. Writes(s)' = {k \in DOMAIN prog.entries : prog.entries[k].kind = "write"}
        BY <4>1 DEF Writes
      <4> QED
        BY <2>3, <4>1, <4>2
    <3>2. CASE s # r
      <4>1. pending'[s] = pending[s]
        BY <1>1, <1>3, <3>2 DEF WriteTypes
      <4>2. Writes(s)' = Writes(s)
        BY <4>1 DEF Writes
      <4> QED
        BY <1>3, <4>1, <4>2 DEF WriteTypes
    <3> QED
      BY <3>1, <3>2
  <2> QED
    BY <1>1, <1>3, <2>4, <2>5 DEF WriteTypes
<1>9. Quiet'
  BY <1>1, <1>4, <1>5 DEF Quiet
<1>10. BufsInv'
  BY <1>4 DEF BufsInv
<1> QED
  BY <1>2, <1>6, <1>7, <1>8, <1>9, <1>10 DEF CInv


\* The collective before the writes: every rank has its own to issue, or to
\* hand over, and their datasets exist.
LEMMA CreateStep ==
    ASSUME CInv, [Next]_vars, Complete, pc[0] = "create"
    PROVE  CInv'
<1>1. RankTypes /\ Lockstep /\ WriteTypes /\ Quiet /\ BufsInv /\ 0 \in Ranks
  BY RankFact DEF CInv
<1>2. RankTypes' /\ Lockstep'
  BY RanksStep DEF CInv
<1>3. \A r \in Ranks : pc[r] = "create" /\ After(r) = "write"
  BY <1>1, AllInOne, AfterFact
<1>4. \A r \in Ranks : /\ applied = <<>> /\ todo[r] = <<>> /\ jobs[r] = <<>> /\ chan[r] = <<>>
                       /\ sent[r] = 0 /\ recv_from[r] = r + 1 /\ verdict[r] = "none"
  BY <1>1, <1>3 DEF Quiet
<1>5. /\ pc' = [r \in Ranks |-> After(r)]
      /\ made' = {e.path : e \in {x \in Merged(0) : x.kind = "create"}}
      /\ todo' = [r \in Ranks |-> IF pc[r] = "create" /\ group_size = 1 THEN WriteSeq(r) ELSE todo[r]]
      /\ jobs' = [r \in Ranks |-> IF pc[r] = "create" /\ group_size > 1 /\ r % group_size = 0
                                    THEN WriteSeq(r) ELSE jobs[r]]
      /\ verdict' = [r \in Ranks |-> CASE pc[r] = "discard" -> "discarded"
                                       [] pc[r] = "begin" -> "none"
                                       [] OTHER -> verdict[r]]
      /\ pending' = [r \in Ranks |-> IF pc[r] = "begin" THEN <<>> ELSE pending[r]]
      /\ applied' = IF pc[0] = "begin" THEN <<>> ELSE applied
      /\ sent' = IF pc[0] = "begin" THEN [r \in Ranks |-> 0] ELSE sent
      /\ recv_from' = IF pc[0] = "begin" THEN [r \in Ranks |-> r + 1] ELSE recv_from
      /\ group_size' = group_size /\ chan' = chan /\ DOMAIN bufs' = Ranks
  BY DEF Complete, policyVars
<1>6. /\ applied' = <<>> /\ sent' = sent /\ recv_from' = recv_from /\ chan' = chan
      /\ group_size' = group_size /\ DOMAIN verdict' = Ranks
      /\ \A r \in Ranks : /\ pc'[r] = "write" /\ verdict'[r] = "none" /\ chan'[r] = <<>>
                          /\ sent'[r] = 0 /\ recv_from'[r] = r + 1
  <2>1. applied' = applied /\ sent' = sent /\ recv_from' = recv_from
    BY <1>5
  <2>2. \A r \in Ranks : pc'[r] = "write" /\ verdict'[r] = "none"
    BY <1>3, <1>4, <1>5
  <2> QED
    BY <1>1, <1>4, <1>5, <2>1, <2>2
<1>7. pending' = pending
  BY <1>1, <1>3, <1>5 DEF WriteTypes
<1>8. group_size \in Nat \ {0} /\ (group_size = 1 \/ group_size > 1)
  BY <1>1 DEF RankTypes
<1>9. \A r \in Ranks :
        /\ todo'[r] = IF group_size = 1 THEN WriteSeq(r) ELSE <<>>
        /\ jobs'[r] = IF group_size > 1 /\ Concentrator(r) = r THEN WriteSeq(r) ELSE <<>>
  <2> TAKE r \in Ranks
  <2>1. r % group_size = 0 <=> Concentrator(r) = r
    BY <1>1, ConcentratorFact
  <2> QED
    BY <1>3, <1>4, <1>5, <2>1
<1>10. /\ \A r : Writes(r)' = Writes(r)
       /\ \A r : WriteSeq(r)' = WriteSeq(r)
       /\ \A r : MessagesOf(r)' = MessagesOf(r)
       /\ \A r : Concentrator(r)' = Concentrator(r) /\ (Member(r)' <=> Member(r))
       /\ \A w : IsWrite(w)' <=> IsWrite(w)
  BY <1>6, <1>7, SameWork
<1>11. \A r \in Ranks : r \in Nat /\ r + 1 # N + 1 /\ (group_size = 1 => Concentrator(r) = r)
  BY <1>1, RankFact, ConcentratorFact
<1>12. DOMAIN <<>> = {} /\ <<>> \in Seq(NamedWrite)
  OBVIOUS
<1>13. \A r \in Ranks :
           /\ Cardinality(Writes(r)) \in Nat
           /\ WriteSeq(r) \in Seq(NamedWrite)
           /\ DOMAIN WriteSeq(r) = 1 .. Cardinality(Writes(r))
           /\ \A i \in 1 .. Cardinality(Writes(r)) :
                 IsWrite(WriteSeq(r)[i]) /\ WriteSeq(r)[i].rank = r
           /\ \A i, j \in 1 .. Cardinality(Writes(r)) :
                 i < j => WriteSeq(r)[i].k < WriteSeq(r)[j].k
  BY <1>1, WriteSeqFact
<1> HIDE DEF Writes, WriteSeq
<1>14. WriteTypes'
  <2>1. todo' \in [Ranks -> Seq(NamedWrite)] /\ jobs' \in [Ranks -> Seq(NamedWrite)]
    <3>1. DOMAIN todo' = Ranks /\ DOMAIN jobs' = Ranks /\ todo' = [r \in Ranks |-> todo'[r]]
          /\ jobs' = [r \in Ranks |-> jobs'[r]]
      BY <1>5
    <3>2. \A r \in Ranks : todo'[r] \in Seq(NamedWrite) /\ jobs'[r] \in Seq(NamedWrite)
      BY <1>9, <1>12, <1>13
    <3> QED
      BY <3>1, <3>2
  <2>2. DOMAIN chan' = Ranks /\ DOMAIN bufs' = Ranks
    BY <1>1, <1>5 DEF WriteTypes
  <2> QED
    BY <1>1, <1>6, <1>7, <1>10, <1>12, <2>1, <2>2 DEF WriteTypes
<1>15. Quiet'
  BY <1>6 DEF Quiet
<1>16. GroupInv'
  <2> SUFFICES ASSUME NEW r \in Ranks PROVE GroupInv!(r)'
    BY DEF GroupInv
  <2>1. Member(r)' => group_size > 1 /\ Concentrator(r) # r
    BY <1>10 DEF Member
  <2> QED
    BY <1>6, <1>8, <1>9, <1>11, <1>12, <2>1
<1>17. NamedInv'
  <2>1. \A r \in Ranks : \A i \in DOMAIN todo'[r] : IsWrite(todo'[r][i]) /\ Concentrator(todo'[r][i].rank) = r
    BY <1>9, <1>11, <1>12, <1>13
  <2>2. \A r \in Ranks : \A i \in DOMAIN jobs'[r] : IsWrite(jobs'[r][i]) /\ Concentrator(jobs'[r][i].rank) = r
    BY <1>9, <1>11, <1>12, <1>13
  <2> QED
    BY <1>6, <1>10, <1>12, <2>1, <2>2 DEF NamedInv
<1>18. \A r \in Ranks : \A i, j \in DOMAIN WriteSeq(r) :
          i < j => Less(WriteSeq(r)[i], WriteSeq(r)[j])
  BY <1>13 DEF Less
<1>19. JobsInv'
  <2> SUFFICES ASSUME NEW r \in Ranks PROVE JobsInv!(r)'
    BY DEF JobsInv
  <2>1. CASE jobs'[r] = <<>>
    BY <1>12, <2>1
  <2>2. CASE jobs'[r] = WriteSeq(r)
    <3>1. \A i, j \in DOMAIN jobs'[r] : i < j => Less(jobs'[r][i], jobs'[r][j])
      BY <1>18, <2>2
    <3>2. \A j \in DOMAIN jobs'[r] : jobs'[r][j].rank = r /\ r <= recv_from'[r]
      BY <1>6, <1>11, <1>13, <2>2
    <3> QED
      BY <3>1, <3>2 DEF Less
  <2> QED
    BY <1>9, <2>1, <2>2
<1>20. Ordered'
  <2> SUFFICES ASSUME NEW r \in Ranks PROVE Ordered!(r)'
    BY DEF Ordered
  <2>1. \A i, j \in DOMAIN todo'[r] : i < j => Less(todo'[r][i], todo'[r][j])
    BY <1>9, <1>12, <1>18
  <2>2. DOMAIN applied' = {}
    BY <1>6, <1>12
  <2> QED
    BY <2>1, <2>2 DEF Less
<1>21. Located'
  <2> SUFFICES ASSUME NEW r \in Ranks, InWrite(r)' PROVE Located!(r)!2'
    BY DEF Located
  <2>1. ASSUME NEW i \in 1 .. Cardinality(Writes(r))
        PROVE  Place(WriteSeq(r)[i], Concentrator(r))' \/ (Member(r) /\ ~Handed(r, i)')
    <3>1. i \in DOMAIN WriteSeq(r) /\ i \in Nat
      BY <1>13
    <3>2. CASE group_size = 1
      <4>1. Concentrator(r) = r /\ todo'[r] = WriteSeq(r)
        BY <1>9, <1>11, <3>2
      <4>2. \E j \in DOMAIN todo'[r] : todo'[r][j] = WriteSeq(r)[i]
        BY <3>1, <4>1
      <4> QED
        BY <1>10, <4>1, <4>2 DEF Place
    <3>3. CASE group_size > 1 /\ Concentrator(r) = r
      <4>1. jobs'[r] = WriteSeq(r)
        BY <1>9, <3>3
      <4>2. \E j \in DOMAIN jobs'[r] : jobs'[r][j] = WriteSeq(r)[i]
        BY <3>1, <4>1
      <4> QED
        BY <1>10, <3>3, <4>2 DEF Place
    <3>4. CASE group_size > 1 /\ Concentrator(r) # r
      BY <1>6, <3>1, <3>4 DEF Member, Handed
    <3> QED
      BY <1>8, <3>2, <3>3, <3>4
  <2>2. ASSUME NEW k \in Writes(r) PROVE pending[r][k].path \in made'
    <3>1. bufs[0] = [s \in Ranks |-> AggManifest(s)]
      BY <1>1, <1>3 DEF BufsInv
    <3>2. PICK j \in DOMAIN pending[r] :
             pending[r][j].kind = "create" /\ pending[r][j].path = pending[r][k].path
      BY <1>1 DEF WriteTypes
    <3>3. PICK e \in Merged(0) : e.kind = "create" /\ e.path = pending[r][j].path
      BY <1>1, <3>1, <3>2, MergedFact
    <3> QED
      BY <1>5, <3>2, <3>3
  <2> QED
    BY <1>6, <1>7, <1>10, <2>1, <2>2
<1>22. BufsInv'
  BY <1>6 DEF BufsInv
<1>23. OrderKept'
  BY <1>6, <1>12 DEF OrderKept
<1> QED
  BY <1>2, <1>14, <1>15, <1>16, <1>17, <1>19, <1>20, <1>21, <1>22, <1>23 DEF CInv


\* The other collectives: nothing is under way before them nor after them.
LEMMA CollectiveStep ==
    ASSUME CInv, [Next]_vars, Complete, pc[0] # "create"
    PROVE  CInv'
<1>1. RankTypes /\ Lockstep /\ WriteTypes /\ Quiet /\ BufsInv /\ 0 \in Ranks
  BY RankFact DEF CInv
<1>2. RankTypes' /\ Lockstep'
  BY RanksStep DEF CInv
<1>3. \A r \in Ranks : pc[r] = pc[0] /\ pc[r] \in Collectives /\ pc[r] # "write" /\ pc[r] # "closed"
  BY <1>1, AllInOne DEF Collectives
<1>4. /\ pc' = [r \in Ranks |-> After(r)]
      /\ bufs' = [r \in Ranks |-> IF pc[r] = "gather"
                                    THEN [s \in Ranks |-> AggManifest(s)]
                                    ELSE IF pc[r] = "create" THEN <<>> ELSE bufs[r]]
      /\ todo' = [r \in Ranks |-> IF pc[r] = "create" /\ group_size = 1 THEN WriteSeq(r) ELSE todo[r]]
      /\ jobs' = [r \in Ranks |-> IF pc[r] = "create" /\ group_size > 1 /\ r % group_size = 0
                                    THEN WriteSeq(r) ELSE jobs[r]]
      /\ verdict' = [r \in Ranks |-> CASE pc[r] = "discard" -> "discarded"
                                       [] pc[r] = "begin" -> "none"
                                       [] OTHER -> verdict[r]]
      /\ pending' = [r \in Ranks |-> IF pc[r] = "begin" THEN <<>> ELSE pending[r]]
      /\ applied' = IF pc[0] = "begin" THEN <<>> ELSE applied
      /\ sent' = IF pc[0] = "begin" THEN [r \in Ranks |-> 0] ELSE sent
      /\ recv_from' = IF pc[0] = "begin" THEN [r \in Ranks |-> r + 1] ELSE recv_from
      /\ group_size' = group_size /\ chan' = chan
  BY DEF Complete, policyVars
<1>5. todo' = todo /\ jobs' = jobs
  <2>1. todo = [r \in Ranks |-> todo[r]] /\ jobs = [r \in Ranks |-> jobs[r]]
    BY <1>1 DEF WriteTypes
  <2>2. \A r \in Ranks : pc[r] # "create"
    BY <1>3
  <2>3. \A r \in Ranks : todo'[r] = todo[r] /\ jobs'[r] = jobs[r]
    BY <1>4, <2>2
  <2> QED
    BY <1>4, <2>1, <2>3
<1>6. \A r \in Ranks : todo[r] = <<>> /\ jobs[r] = <<>> /\ chan[r] = <<>>
  BY <1>1, <1>3 DEF Quiet
<1>7. pc[0] # "begin" => pending' = pending /\ applied' = applied /\ sent' = sent
                         /\ recv_from' = recv_from
  <2>1. pending = [r \in Ranks |-> pending[r]]
    BY <1>1 DEF WriteTypes
  <2>2. ASSUME pc[0] # "begin" PROVE \A r \in Ranks : pending'[r] = pending[r]
    BY <1>3, <1>4, <2>2
  <2>3. DOMAIN pending' = Ranks /\ pending' = [r \in Ranks |-> pending'[r]]
    BY <1>4
  <2> QED
    BY <1>4, <2>1, <2>2, <2>3
<1>8. WriteTypes'
  <2>1. DOMAIN chan' = Ranks /\ DOMAIN bufs' = Ranks /\ DOMAIN verdict' = Ranks
    BY <1>1, <1>4 DEF WriteTypes
  <2>2. CASE pc[0] # "begin"
    <3>1. \A r : Writes(r)' = Writes(r)
      BY <1>4, <1>7, <2>2, SameWork
    <3> QED
      BY <1>1, <1>5, <1>7, <2>1, <2>2, <3>1 DEF WriteTypes
  <2>3. CASE pc[0] = "begin"
    <3>1. <<>> \in Seq(Entry) /\ <<>> \in Seq(NamedWrite) /\ DOMAIN <<>> = {}
      OBVIOUS
    <3>2. \A r \in Ranks : pending'[r] = <<>>
      BY <1>3, <1>4, <2>3
    <3>3. \A r \in Ranks : Writes(r)' = {}
      BY <3>1, <3>2 DEF Writes
    <3>4. pending' \in [Ranks -> Seq(Entry)]
      BY <1>4, <3>1, <3>2
    <3>5. \A r \in Ranks : r + 1 \in Nat
      BY RankFact
    <3>6. sent' \in [Ranks -> Nat] /\ recv_from' \in [Ranks -> Nat] /\ applied' \in Seq(NamedWrite)
      BY <1>4, <2>3, <3>1, <3>5
    <3>7. todo' \in [Ranks -> Seq(NamedWrite)] /\ jobs' \in [Ranks -> Seq(NamedWrite)]
      BY <1>1, <1>5 DEF WriteTypes
    <3> QED
      BY <2>1, <3>3, <3>4, <3>6, <3>7 DEF WriteTypes
  <2> QED
    BY <2>2, <2>3
<1>9. BufsInv'
  <2> SUFFICES ASSUME NEW r \in Ranks, pc'[r] = "create"
               PROVE  bufs'[r] = [s \in Ranks |-> AggManifest(s)']
    BY DEF BufsInv
  <2>1. pc[r] = "gather" /\ pc[0] # "begin"
    BY <1>1, <1>3, <1>4, AfterFact
  <2>2. \A s : AggManifest(s)' = AggManifest(s)
    BY <1>7, <2>1 DEF AggManifest
  <2> QED
    BY <1>4, <2>1, <2>2
<1>10. (NothingYet => GroupInv /\ NamedInv /\ JobsInv /\ Ordered /\ Located /\ OrderKept)'
  BY NothingYetFact, PTL
<1>11. CASE pc[0] = "final"
  <2>1. \A r \in Ranks : pc'[r] \in {"begin", "closed"}
    BY <1>1, <1>3, <1>4, <1>11, AfterFact
  <2>2. Quiet'
    BY <1>4, <1>5, <1>6, <2>1 DEF Quiet
  <2>3. Located'
    BY <2>1 DEF Located, InWrite
  <2>4. pending' = pending /\ applied' = applied /\ sent' = sent /\ recv_from' = recv_from
        /\ chan' = chan /\ group_size' = group_size
    BY <1>4, <1>7, <1>11
  <2>5. GroupInv'
    BY <1>5, <2>4, SameWork DEF CInv, GroupInv
  <2>6. NamedInv'
    BY <1>5, <2>4, SameWork DEF CInv, NamedInv
  <2>7. JobsInv'
    BY <1>5, <2>4, SameWork DEF CInv, JobsInv, Handed
  <2>8. Ordered'
    BY <1>5, <2>4, SameWork DEF CInv, Ordered
  <2>9. OrderKept'
    BY <2>4, SameWork DEF CInv, OrderKept
  <2> QED
    BY <1>2, <1>8, <1>9, <2>2, <2>3, <2>5, <2>6, <2>7, <2>8, <2>9 DEF CInv
<1>12. CASE pc[0] # "final"
  <2>1. applied' = <<>> /\ \A r \in Ranks : sent'[r] = 0 /\ recv_from'[r] = r + 1
    <3>1. CASE pc[0] = "begin"
      BY <1>4, <3>1
    <3>2. CASE pc[0] # "begin"
      <4>1. \A r \in Ranks : applied = <<>> /\ sent[r] = 0 /\ recv_from[r] = r + 1
        BY <1>1, <1>3, <1>12, <3>2 DEF Quiet
      <4> QED
        BY <1>1, <1>7, <3>2, <4>1
    <3> QED
      BY <3>1, <3>2
  <2>2. \A r \in Ranks : pc'[r] = After(r)
    BY <1>4
  <2>3. ASSUME NEW r \in Ranks
        PROVE  /\ verdict'[r] # "committed" /\ pc'[r] # "write"
               /\ pc'[r] \notin {"write", "final", "begin", "closed"} => verdict'[r] = "none"
    <3>1. CASE pc[r] = "begin"
      BY <1>1, <1>4, <3>1, AfterFact
    <3>2. CASE pc[r] = "discard"
      BY <1>1, <1>4, <3>2, AfterFact
    <3>3. CASE pc[r] \notin {"begin", "discard"}
      <4>1. verdict[r] = "none"
        BY <1>1, <1>3, <1>12, <3>3 DEF Quiet
      <4>2. verdict'[r] = "none"
        BY <1>4, <3>3, <4>1
      <4>3. pc'[r] \notin {"write", "final", "begin", "closed"}
        BY <1>1, <1>3, <1>12, <2>2, <3>3, AfterFact
      <4> QED
        BY <4>2, <4>3
    <3> QED
      BY <3>1, <3>2, <3>3
  <2>4. NothingYet'
    BY <1>4, <1>5, <1>6, <2>1, <2>3 DEF NothingYet, InWrite
  <2>5. Quiet'
    BY <1>4, <1>5, <1>6, <2>1, <2>3 DEF Quiet
  <2> QED
    BY <1>2, <1>8, <1>9, <1>10, <2>4, <2>5 DEF CInv
<1> QED
  BY <1>11, <1>12


-----------------------------------------------------------------------------
(* Steps of the writes.                                                    *)

\* A write that is named in a list.
LEMMA ElementFact ==
    ASSUME NEW q \in Seq(NamedWrite), NEW j \in DOMAIN q
    PROVE  /\ q[j] \in NamedWrite /\ q[j].rank \in Ranks /\ q[j].rank \in Nat
           /\ q[j].k \in Nat /\ q[j].path \in Paths /\ j \in Nat
<1>1. j \in 1 .. Len(q) /\ Len(q) \in Nat
  BY LenProperties
<1>2. q[j] \in NamedWrite
  BY <1>1, ElementOfSeq
<1>3. q[j].rank \in Ranks /\ q[j].k \in Nat /\ q[j].path \in Paths
  BY <1>2 DEF NamedWrite
<1> QED
  BY <1>1, <1>2, <1>3, RankFact

\* A rank that has nothing left to write goes to the last barrier.
LEMMA DoneKeeps ==
    ASSUME CInv, [Next]_vars, NEW r \in Ranks,
           LocalDone(r) \/ SendDone(r) \/ ConcentratorDone(r)
    PROVE  CInv'
<1>1. RankTypes /\ WriteTypes /\ Quiet /\ GroupInv /\ Located /\ BufsInv
  BY DEF CInv
<1>2. RankTypes' /\ Lockstep'
  BY RanksStep DEF CInv
<1>3. DoneStep(r)
  BY DoneEffect
<1>4. /\ pc[r] = "write" /\ pc' = [pc EXCEPT ![r] = "final"]
      /\ verdict' = [verdict EXCEPT ![r] = "committed"]
      /\ pending' = pending /\ group_size' = group_size /\ bufs' = bufs /\ made' = made
      /\ chan' = chan /\ sent' = sent /\ recv_from' = recv_from /\ jobs' = jobs
      /\ todo' = todo /\ applied' = applied
  BY <1>3 DEF DoneStep, Committed, writeVars
<1>5. GroupInv!(r)
  BY <1>1 DEF GroupInv
<1>6. group_size \in Nat \ {0} /\ (group_size = 1 \/ group_size > 1)
  BY <1>1 DEF RankTypes
<1>7. /\ todo[r] = <<>> /\ jobs[r] = <<>> /\ chan[r] = <<>>
      /\ Member(r) => sent[r] = Len(MessagesOf(r))
  <2>1. CASE LocalDone(r)
    <3>1. group_size = 1 /\ todo[r] = <<>> /\ ~Member(r)
      BY <2>1, <1>6 DEF LocalDone, Member
    <3> QED
      BY <1>5, <3>1
  <2>2. CASE SendDone(r)
    BY <1>5, <2>2 DEF SendDone
  <2>3. CASE ConcentratorDone(r)
    <3>1. recv_from[r] = N + 1 /\ todo[r] = <<>>
      BY <2>3 DEF ConcentratorDone
    <3>2. ~Member(r) /\ jobs[r] = <<>>
      BY <1>5, <3>1 DEF Member
    <3> QED
      BY <1>5, <3>1, <3>2
  <2> QED
    BY <2>1, <2>2, <2>3
<1>8. \A s \in Ranks : /\ pc'[s] = IF s = r THEN "final" ELSE pc[s]
                       /\ verdict'[s] = IF s = r THEN "committed" ELSE verdict[s]
  BY <1>1, <1>4 DEF RankTypes, WriteTypes
<1>9. WriteTypes'
  <2>1. DOMAIN verdict' = Ranks
    BY <1>1, <1>4 DEF WriteTypes
  <2> QED
    BY <1>1, <1>4, <2>1, SameWork DEF WriteTypes
<1>10. Quiet'
  BY <1>1, <1>4, <1>7, <1>8 DEF Quiet
<1>11. GroupInv'
  BY <1>1, <1>4, SameWork DEF GroupInv
<1>12. NamedInv'
  BY <1>4, SameWork DEF CInv, NamedInv
<1>13. JobsInv'
  BY <1>4, SameWork DEF CInv, JobsInv, Handed
<1>14. Ordered'
  BY <1>4, SameWork DEF CInv, Ordered
<1>15. Located'
  <2> SUFFICES ASSUME NEW s \in Ranks, InWrite(s)' PROVE Located!(s)!2'
    BY DEF Located
  <2>1. InWrite(s)
    BY <1>4, <1>8 DEF InWrite
  <2>2. Located!(s)!2
    BY <1>1, <2>1 DEF Located
  <2>3. pc'[s] = "final" /\ Member(s)' => sent'[s] = Len(MessagesOf(s))'
    BY <1>4, <1>7, <1>8, <2>2, SameWork
  <2>4. /\ \A w, q : Place(w, q)' <=> Place(w, q)
        /\ \A q, i : Handed(q, i)' <=> Handed(q, i)
    BY <1>4 DEF Place, Handed
  <2> QED
    BY <1>4, <2>2, <2>3, <2>4, SameWork
<1>16. BufsInv'
  <2>1. \A s : AggManifest(s)' = AggManifest(s)
    BY <1>4 DEF AggManifest
  <2>2. \A s \in Ranks : pc'[s] = "create" => pc[s] = "create"
    BY <1>8
  <2> QED
    BY <1>1, <1>4, <2>1, <2>2 DEF BufsInv
<1>17. OrderKept'
  BY <1>4, SameWork DEF CInv, OrderKept
<1> QED
  BY <1>2, <1>9, <1>10, <1>11, <1>12, <1>13, <1>14, <1>15, <1>16, <1>17 DEF CInv

\* A member's next message: nothing more has been handed over by it yet.
LEMMA SendStep ==
    ASSUME CInv, [Next]_vars, NEW r \in Ranks, Send(r)
    PROVE  CInv'
<1>1. RankTypes /\ WriteTypes /\ Quiet /\ GroupInv /\ JobsInv /\ Located /\ BufsInv
  BY DEF CInv
<1>2. RankTypes' /\ Lockstep'
  BY RanksStep DEF CInv
<1>3. /\ pc[r] = "write" /\ Member(r) /\ chan[r] = <<>> /\ sent[r] < Len(MessagesOf(r))
      /\ chan' = [chan EXCEPT ![r] = <<MessagesOf(r)[sent[r] + 1]>>]
      /\ sent' = [sent EXCEPT ![r] = @ + 1]
      /\ pc' = pc /\ pending' = pending /\ group_size' = group_size /\ bufs' = bufs
      /\ made' = made /\ verdict' = verdict /\ recv_from' = recv_from /\ jobs' = jobs
      /\ todo' = todo /\ applied' = applied
  BY DEF Send, policyVars, commitVars
<1>4. sent \in [Ranks -> Nat] /\ DOMAIN chan = Ranks /\ sent[r] \in Nat
  BY <1>1 DEF WriteTypes
<1>5. \A s \in Ranks : /\ sent'[s] = IF s = r THEN sent[r] + 1 ELSE sent[s]
                       /\ chan'[s] = IF s = r THEN <<MessagesOf(r)[sent[r] + 1]>> ELSE chan[s]
  BY <1>3, <1>4
<1>6. WriteTypes'
  <2>1. sent' \in [Ranks -> Nat] /\ DOMAIN chan' = Ranks
    BY <1>3, <1>4
  <2> QED
    BY <1>1, <1>3, <2>1, SameWork DEF WriteTypes
<1>7. Quiet'
  BY <1>1, <1>3, <1>5 DEF Quiet
<1>8. Len(MessagesOf(r)) \in Nat
  <2>1. Len(MessagesOf(r)) = Cardinality(Writes(r)) + 1 /\ Cardinality(Writes(r)) \in Nat
    BY <1>1, MessagesFact, WriteSeqFact
  <2> QED
    BY <2>1
<1>9. GroupInv'
  <2> SUFFICES ASSUME NEW s \in Ranks PROVE GroupInv!(s)'
    BY DEF GroupInv
  <2>1. GroupInv!(s)
    BY <1>1 DEF GroupInv
  <2>2. chan'[s] # <<>> => /\ Member(s) /\ sent'[s] \in 1 .. Len(MessagesOf(s))
                           /\ chan'[s] = <<MessagesOf(s)[sent'[s]]>>
    BY <1>3, <1>4, <1>5, <1>8, <2>1
  <2> QED
    BY <1>3, <2>1, <2>2, SameWork
<1>10. NamedInv'
  BY <1>3, SameWork DEF CInv, NamedInv
<1>11. \A s \in Ranks, i \in Nat : Handed(s, i)' <=> Handed(s, i)
  <2> TAKE s \in Ranks, i \in Nat
  <2>1. CASE s = r
    <3>1. chan'[r] # <<>> /\ chan[r] = <<>> /\ sent'[r] = sent[r] + 1
      BY <1>3, <1>5
    <3> QED
      BY <1>4, <2>1, <3>1 DEF Handed
  <2>2. CASE s # r
    BY <1>5, <2>2 DEF Handed
  <2> QED
    BY <2>1, <2>2
<1>12. \A s \in Ranks : Cardinality(Writes(s)) \in Nat
  BY <1>1, WriteSeqFact
<1>13. JobsInv'
  <2> SUFFICES ASSUME NEW s \in Ranks PROVE JobsInv!(s)'
    BY DEF JobsInv
  <2>1. JobsInv!(s)
    BY <1>1 DEF JobsInv
  <2>2. ASSUME NEW j \in DOMAIN jobs[s], jobs[s][j].rank # s
        PROVE  \E q \in Ranks : \E i \in 1 .. Cardinality(Writes(q)) :
                  jobs[s][j].rank = q /\ jobs[s][j] = WriteSeq(q)[i] /\ Handed(q, i)'
    <3>1. jobs[s] \in Seq(NamedWrite)
      BY <1>1 DEF WriteTypes
    <3>2. PICK q \in Ranks : q = jobs[s][j].rank
      BY <3>1, ElementFact
    <3>3. PICK i \in 1 .. Cardinality(Writes(q)) : jobs[s][j] = WriteSeq(q)[i] /\ Handed(q, i)
      BY <2>1, <2>2, <3>2
    <3>4. i \in Nat
      BY <1>12
    <3> QED
      BY <1>11, <3>2, <3>3, <3>4
  <2> QED
    BY <1>3, <2>1, <2>2, SameWork DEF Less, Handed
<1>14. Ordered'
  BY <1>3, SameWork DEF CInv, Ordered
<1>15. Located'
  <2> SUFFICES ASSUME NEW s \in Ranks, InWrite(s)' PROVE Located!(s)!2'
    BY DEF Located
  <2>1. InWrite(s) /\ Located!(s)!2
    BY <1>1, <1>3 DEF Located, InWrite
  <2>2. pc[s] = "final" => sent'[s] = sent[s]
    BY <1>3, <1>5
  <2>3. \A w, q : Place(w, q)' <=> Place(w, q)
    BY <1>3 DEF Place
  <2>4. \A i \in 1 .. Cardinality(Writes(s)) : Handed(s, i)' <=> Handed(s, i)
    BY <1>11, <1>12
  <2> QED
    BY <1>3, <2>1, <2>2, <2>3, <2>4, SameWork
<1>16. BufsInv'
  BY <1>1, <1>3, ZenonT(30) DEF BufsInv, AggManifest
<1>17. OrderKept'
  BY <1>3, SameWork DEF CInv, OrderKept
<1> QED
  BY <1>2, <1>6, <1>7, <1>9, <1>10, <1>13, <1>14, <1>15, <1>16, <1>17 DEF CInv


\* A write is issued: the first of those left, and none of its path that was
\* issued comes after it.
LEMMA IssueStep ==
    ASSUME CInv, [Next]_vars, NEW r \in Ranks, IssueWrite(r)
    PROVE  CInv'
<1>1. /\ RankTypes /\ Lockstep /\ WriteTypes /\ Quiet /\ GroupInv /\ NamedInv /\ JobsInv
      /\ Ordered /\ Located /\ BufsInv /\ OrderKept
  BY DEF CInv
<1>2. RankTypes' /\ Lockstep'
  BY RanksStep DEF CInv
<1>3. /\ pc[r] = "write" /\ todo[r] # <<>>
      /\ applied' = Append(applied, Head(todo[r]))
      /\ todo' = [todo EXCEPT ![r] = Tail(@)]
      /\ pc' = pc /\ pending' = pending /\ group_size' = group_size /\ bufs' = bufs
      /\ made' = made /\ verdict' = verdict /\ recv_from' = recv_from /\ jobs' = jobs
      /\ chan' = chan /\ sent' = sent
  BY DEF IssueWrite, policyVars, commitVars
<1>4. todo \in [Ranks -> Seq(NamedWrite)] /\ applied \in Seq(NamedWrite) /\ todo[r] \in Seq(NamedWrite)
  BY <1>1 DEF WriteTypes
<1>5. PICK h : h = todo[r][1]
  OBVIOUS
<1>6. /\ Len(todo[r]) \in Nat /\ Len(todo[r]) >= 1 /\ DOMAIN todo[r] = 1 .. Len(todo[r])
      /\ 1 \in DOMAIN todo[r] /\ h \in NamedWrite /\ h.rank \in Ranks
  <2>1. Len(todo[r]) \in Nat /\ Len(todo[r]) # 0 /\ DOMAIN todo[r] = 1 .. Len(todo[r])
    BY <1>3, <1>4, LenProperties, EmptySeq
  <2>2. 1 \in DOMAIN todo[r]
    BY <2>1
  <2> QED
    BY <1>4, <1>5, <2>1, <2>2, ElementFact
<1>7. /\ \A s \in Ranks : todo'[s] = IF s = r THEN Tail(todo[r]) ELSE todo[s]
      /\ Tail(todo[r]) \in Seq(NamedWrite)
      /\ DOMAIN Tail(todo[r]) = 1 .. (Len(todo[r]) - 1)
      /\ \A i \in DOMAIN Tail(todo[r]) : i + 1 \in DOMAIN todo[r] /\ Tail(todo[r])[i] = todo[r][i + 1]
  <2>1. \A s \in Ranks : todo'[s] = IF s = r THEN Tail(todo[r]) ELSE todo[s]
    BY <1>3, <1>4
  <2>2. /\ Tail(todo[r]) \in Seq(NamedWrite) /\ Len(Tail(todo[r])) = Len(todo[r]) - 1
        /\ \A i \in 1 .. Len(Tail(todo[r])) : Tail(todo[r])[i] = todo[r][i + 1]
    BY <1>3, <1>4, HeadTailProperties
  <2>3. DOMAIN Tail(todo[r]) = 1 .. (Len(todo[r]) - 1)
    BY <2>2, LenProperties
  <2>4. \A i \in 1 .. (Len(todo[r]) - 1) : i + 1 \in DOMAIN todo[r]
    BY <1>6
  <2> QED
    BY <2>1, <2>2, <2>3, <2>4
<1>8. PICK L \in Nat : L = Len(applied)
  BY <1>4, LenProperties
<1>9. /\ applied' \in Seq(NamedWrite) /\ DOMAIN applied' = 1 .. L + 1 /\ DOMAIN applied = 1 .. L
      /\ \A i \in 1 .. L : applied'[i] = applied[i]
      /\ applied'[L + 1] = h
  <2>1. Head(todo[r]) = h
    BY <1>5
  <2>2. /\ Append(applied, h) \in Seq(NamedWrite) /\ Len(Append(applied, h)) = Len(applied) + 1
        /\ \A i \in 1 .. Len(applied) : Append(applied, h)[i] = applied[i]
        /\ Append(applied, h)[Len(applied) + 1] = h
    BY <1>4, <1>6, AppendProperties
  <2>3. DOMAIN applied = 1 .. L /\ DOMAIN Append(applied, h) = 1 .. L + 1
    BY <1>4, <1>8, <2>2, LenProperties
  <2> QED
    BY <1>3, <1>8, <2>1, <2>2, <2>3
<1>10. /\ IsWrite(h) /\ Concentrator(h.rank) = r
  BY <1>1, <1>5, <1>6 DEF NamedInv
<1>11. WriteTypes'
  <2>1. todo' \in [Ranks -> Seq(NamedWrite)]
    BY <1>3, <1>4, <1>7
  <2> QED
    BY <1>1, <1>3, <1>9, <2>1, SameWork DEF WriteTypes
<1>12. Quiet'
  <2>1. \A s \in Ranks : pc[s] \in {"write", "final"}
    BY <1>1, <1>3 DEF Lockstep
  <2>2. \A s \in Ranks : pc[s] # "write" => todo'[s] = todo[s]
    BY <1>3, <1>7
  <2> QED
    BY <1>1, <1>3, <2>1, <2>2 DEF Quiet
<1>13. GroupInv'
  <2> SUFFICES ASSUME NEW s \in Ranks PROVE GroupInv!(s)'
    BY DEF GroupInv
  <2>1. GroupInv!(s)
    BY <1>1 DEF GroupInv
  <2>2. CASE s = r
    <3>1. ~Member(r) /\ ~(group_size > 1 /\ recv_from[r] # N + 1)
      BY <1>3, <2>1, <2>2
    <3> QED
      BY <1>3, <2>1, <2>2, <3>1, SameWork
  <2>3. CASE s # r
    <3>1. todo'[s] = todo[s]
      BY <1>7, <2>3
    <3>2. ASSUME group_size > 1 /\ recv_from[s] # N + 1, NEW i \in DOMAIN applied'
          PROVE  Concentrator(applied'[i].rank) # s
      <4>1. CASE i \in 1 .. L
        BY <1>9, <2>1, <3>2, <4>1
      <4>2. CASE i = L + 1
        BY <1>9, <1>10, <2>3, <4>2
      <4> QED
        BY <1>8, <1>9, <3>2, <4>1, <4>2
    <3> QED
      BY <1>3, <2>1, <3>1, <3>2, SameWork
  <2> QED
    BY <2>2, <2>3
<1>14. \A i \in DOMAIN applied' : (i \in DOMAIN applied /\ applied'[i] = applied[i])
                                  \/ (i = L + 1 /\ applied'[i] = h)
  BY <1>8, <1>9
<1>15. \A s \in Ranks : \A j \in DOMAIN todo'[s] :
          IF s = r THEN j + 1 \in DOMAIN todo[s] /\ todo'[s][j] = todo[s][j + 1]
                   ELSE j \in DOMAIN todo[s] /\ todo'[s][j] = todo[s][j]
  BY <1>7
<1>16. NamedInv'
  <2>1. \A i \in DOMAIN applied' : IsWrite(applied'[i])
    BY <1>1, <1>10, <1>14 DEF NamedInv
  <2>2. \A s \in Ranks : \A i \in DOMAIN todo'[s] : IsWrite(todo'[s][i]) /\ Concentrator(todo'[s][i].rank) = s
    BY <1>1, <1>15 DEF NamedInv
  <2>3. \A s \in Ranks : \A i \in DOMAIN jobs[s] : IsWrite(jobs[s][i]) /\ Concentrator(jobs[s][i].rank) = s
    BY <1>1 DEF NamedInv
  <2> QED
    BY <1>3, <2>1, <2>2, <2>3, SameWork DEF NamedInv
<1>17. JobsInv'
  BY <1>1, <1>3, SameWork DEF JobsInv, Handed
<1>18. Ordered'
  <2> SUFFICES ASSUME NEW s \in Ranks PROVE Ordered!(s)'
    BY DEF Ordered
  <2>1. Ordered!(s)
    BY <1>1 DEF Ordered
  <2>2. ASSUME NEW i \in DOMAIN todo'[s], NEW j \in DOMAIN todo'[s], i < j,
               todo'[s][i].path = todo'[s][j].path
        PROVE  Less(todo'[s][i], todo'[s][j])
    <3>1. CASE s = r
      <4>1. i \in Nat /\ j \in Nat
        <5>1. DOMAIN todo'[s] = 1 .. (Len(todo[r]) - 1)
          BY <1>7, <3>1
        <5>2. i \in 1 .. (Len(todo[r]) - 1) /\ j \in 1 .. (Len(todo[r]) - 1)
          BY <2>2, <5>1
        <5> QED
          BY <1>6, <5>2
      <4>2. i + 1 < j + 1 /\ i + 1 \in DOMAIN todo[s] /\ j + 1 \in DOMAIN todo[s]
            /\ todo'[s][i] = todo[s][i + 1] /\ todo'[s][j] = todo[s][j + 1]
        BY <1>15, <2>2, <3>1, <4>1
      <4> QED
        BY <2>1, <2>2, <4>2
    <3>2. CASE s # r
      BY <1>7, <2>1, <2>2, <3>2
    <3> QED
      BY <3>1, <3>2
  <2>3. ASSUME NEW i \in DOMAIN applied', NEW j \in DOMAIN todo'[s],
               Concentrator(applied'[i].rank) = s, applied'[i].path = todo'[s][j].path
        PROVE  Less(applied'[i], todo'[s][j])
    <3>1. CASE i \in DOMAIN applied /\ applied'[i] = applied[i]
      BY <1>15, <2>1, <2>3, <3>1
    <3>2. CASE i = L + 1 /\ applied'[i] = h
      <4>1. s = r
        BY <1>10, <2>3, <3>2
      <4>2. j + 1 \in DOMAIN todo[r] /\ todo'[s][j] = todo[r][j + 1] /\ j \in 1 .. (Len(todo[r]) - 1)
        BY <1>7, <1>15, <2>3, <4>1
      <4>3. 1 < j + 1
        BY <1>6, <4>2
      <4> QED
        BY <1>5, <1>6, <2>1, <2>3, <3>2, <4>1, <4>2, <4>3
    <3> QED
      BY <1>14, <2>3, <3>1, <3>2
  <2>4. Ordered!(s)!1'
    BY <2>2 DEF Less
  <2>5. Ordered!(s)!2'
    BY <1>3, <2>3 DEF Less, Concentrator
  <2> QED
    BY <2>4, <2>5
<1>19. \A w, q : q \in Ranks /\ Place(w, q) => Place(w, q)'
  <2> SUFFICES ASSUME NEW w, NEW q \in Ranks, Place(w, q) PROVE Place(w, q)'
    OBVIOUS
  <2>1. CASE \E i \in DOMAIN applied : applied[i] = w
    <3>1. PICK i \in DOMAIN applied : applied[i] = w
      BY <2>1
    <3>2. i \in DOMAIN applied' /\ applied'[i] = w
      BY <1>8, <1>9, <3>1
    <3> QED
      BY <3>2 DEF Place
  <2>2. CASE \E i \in DOMAIN todo[q] : todo[q][i] = w
    <3>1. PICK i \in DOMAIN todo[q] : todo[q][i] = w
      BY <2>2
    <3>2. CASE q # r
      BY <1>7, <3>1, <3>2 DEF Place
    <3>3. CASE q = r /\ i = 1
      <4>1. L + 1 \in DOMAIN applied' /\ applied'[L + 1] = w
        BY <1>5, <1>8, <1>9, <3>1, <3>3
      <4> QED
        BY <4>1 DEF Place
    <3>4. CASE q = r /\ i # 1
      <4>1. i \in Nat /\ i - 1 \in 1 .. (Len(todo[r]) - 1)
        BY <1>6, <3>1, <3>4
      <4>2. i - 1 \in DOMAIN todo'[q] /\ todo'[q][i - 1] = w
        <5>1. i - 1 \in DOMAIN Tail(todo[r]) /\ (i - 1) + 1 = i
          BY <1>7, <4>1
        <5>2. todo'[q] = Tail(todo[r]) /\ Tail(todo[r])[i - 1] = todo[r][(i - 1) + 1]
          BY <1>7, <3>4, <5>1
        <5> QED
          BY <3>1, <3>4, <5>1, <5>2
      <4> QED
        BY <4>2 DEF Place
    <3> QED
      BY <3>2, <3>3, <3>4
  <2>3. CASE \E i \in DOMAIN jobs[q] : jobs[q][i] = w
    BY <1>3, <2>3 DEF Place
  <2> QED
    BY <2>1, <2>2, <2>3 DEF Place
<1>20. Located'
  <2> SUFFICES ASSUME NEW s \in Ranks, InWrite(s)' PROVE Located!(s)!2'
    BY DEF Located
  <2>1. InWrite(s) /\ Located!(s)!2
    BY <1>1, <1>3 DEF Located, InWrite
  <2>2. \A i : Handed(s, i)' <=> Handed(s, i)
    BY <1>3 DEF Handed
  <2>3. Concentrator(s) \in Ranks
    BY <1>1, ConcentratorFact
  <2>4. PICK q \in Ranks : q = Concentrator(s)
    BY <2>3
  <2>5. \A i \in 1 .. Cardinality(Writes(s)) :
            Place(WriteSeq(s)[i], q) \/ (Member(s) /\ ~Handed(s, i))
    BY <2>1, <2>4
  <2>6. \A i \in 1 .. Cardinality(Writes(s)) :
            \E w : w = WriteSeq(s)[i] /\ (Place(w, q)' \/ (Member(s) /\ ~Handed(s, i)))
    BY <1>19, <2>5
  <2>7. Concentrator(s)' = q /\ WriteSeq(s)' = WriteSeq(s) /\ Writes(s)' = Writes(s)
    BY <1>3, <2>4, SameWork
  <2>8. \A i \in 1 .. Cardinality(Writes(s)) :
            Place(WriteSeq(s)[i], Concentrator(s))' \/ (Member(s) /\ ~Handed(s, i))
    BY <2>6, <2>7 DEF Place
  <2> QED
    BY <1>3, <2>1, <2>2, <2>7, <2>8, SameWork
<1>21. BufsInv'
  BY <1>1, <1>3 DEF BufsInv, AggManifest
<1>22. OrderKept'
  <2> SUFFICES ASSUME NEW i \in DOMAIN applied', NEW j \in DOMAIN applied', i < j,
                      applied'[i].path = applied'[j].path,
                      Concentrator(applied'[i].rank) = Concentrator(applied'[j].rank)
               PROVE  Less(applied'[i], applied'[j])
    BY <1>3, SameWork DEF OrderKept, Less
  <2>1. i \in Nat /\ j \in Nat /\ i # L + 1
    BY <1>8, <1>9
  <2>2. i \in DOMAIN applied /\ applied'[i] = applied[i]
    BY <1>14, <2>1
  <2>3. CASE j \in DOMAIN applied /\ applied'[j] = applied[j]
    BY <1>1, <2>2, <2>3 DEF OrderKept, Less
  <2>4. CASE j = L + 1 /\ applied'[j] = h
    <3>1. Concentrator(applied[i].rank) = r /\ applied[i].path = todo[r][1].path
      BY <1>5, <1>10, <2>2, <2>4
    <3> QED
      BY <1>1, <1>5, <1>6, <2>2, <2>4, <3>1 DEF Ordered
  <2> QED
    BY <1>14, <2>3, <2>4
<1> QED
  BY <1>2, <1>11, <1>12, <1>13, <1>16, <1>17, <1>18, <1>20, <1>21, <1>22 DEF CInv


\* The concentrator has all that its group writes, and issues it path by path.
LEMMA GatherStep ==
    ASSUME CInv, [Next]_vars, NEW c \in Ranks, Gather(c)
    PROVE  CInv'
<1>1. /\ RankTypes /\ Lockstep /\ WriteTypes /\ Quiet /\ GroupInv /\ NamedInv /\ JobsInv
      /\ Ordered /\ Located /\ BufsInv /\ OrderKept
  BY DEF CInv
<1>2. RankTypes' /\ Lockstep'
  BY RanksStep DEF CInv
<1>3. PICK T : T = ByPath(jobs[c])
  OBVIOUS
<1>4. /\ pc[c] = "write" /\ group_size > 1 /\ Concentrator(c) = c
      /\ recv_from[c] = GroupEnd(c)
      /\ recv_from' = [recv_from EXCEPT ![c] = N + 1]
      /\ todo' = [todo EXCEPT ![c] = T]
      /\ jobs' = [jobs EXCEPT ![c] = <<>>]
      /\ pc' = pc /\ pending' = pending /\ group_size' = group_size /\ bufs' = bufs
      /\ made' = made /\ verdict' = verdict /\ chan' = chan /\ sent' = sent
      /\ applied' = applied
  BY <1>3 DEF Gather, policyVars, commitVars
<1>5. /\ todo \in [Ranks -> Seq(NamedWrite)] /\ jobs \in [Ranks -> Seq(NamedWrite)]
      /\ recv_from \in [Ranks -> Nat] /\ jobs[c] \in Seq(NamedWrite)
  BY <1>1 DEF WriteTypes
<1>6. /\ T \in Seq(NamedWrite) /\ DOMAIN T = DOMAIN jobs[c]
      /\ \A n \in DOMAIN T : \E a \in DOMAIN jobs[c] : T[n] = jobs[c][a]
      /\ \A a \in DOMAIN jobs[c] : \E n \in DOMAIN T : T[n] = jobs[c][a]
      /\ \A m, n \in DOMAIN T : m < n /\ T[m].path = T[n].path =>
            \E a, b \in DOMAIN jobs[c] : a < b /\ T[m] = jobs[c][a] /\ T[n] = jobs[c][b]
  <2>1. Rearranged(T, jobs[c])
    BY <1>3, <1>5, ByPathFact
  <2> QED
    BY <2>1 DEF Rearranged
<1>7. \A s \in Ranks : /\ todo'[s] = IF s = c THEN T ELSE todo[s]
                       /\ jobs'[s] = IF s = c THEN <<>> ELSE jobs[s]
                       /\ recv_from'[s] = IF s = c THEN N + 1 ELSE recv_from[s]
  BY <1>4, <1>5
<1>8. N \in Nat /\ c \in Nat /\ c < N /\ recv_from[c] # N + 1
  BY <1>1, <1>4, RankFact DEF GroupEnd, RankTypes
<1>9. DOMAIN <<>> = {} /\ <<>> \in Seq(NamedWrite)
  OBVIOUS
<1>10. \A i \in DOMAIN applied : Concentrator(applied[i].rank) # c
  BY <1>1, <1>4, <1>8 DEF GroupInv
<1>11. WriteTypes'
  <2>1. /\ todo' \in [Ranks -> Seq(NamedWrite)] /\ jobs' \in [Ranks -> Seq(NamedWrite)]
        /\ recv_from' \in [Ranks -> Nat]
    BY <1>4, <1>5, <1>6, <1>8, <1>9
  <2> QED
    BY <1>1, <1>4, <2>1, SameWork DEF WriteTypes
<1>12. Quiet'
  BY <1>1, <1>4, <1>7 DEF Quiet
<1>13. GroupInv'
  <2> SUFFICES ASSUME NEW s \in Ranks PROVE GroupInv!(s)'
    BY DEF GroupInv
  <2>1. GroupInv!(s)
    BY <1>1 DEF GroupInv
  <2>2. CASE s = c
    <3>1. ~Member(c) /\ N + 1 >= c + 1
      BY <1>4, <1>8 DEF Member
    <3> QED
      BY <1>4, <1>7, <1>8, <2>1, <2>2, <3>1, SameWork
  <2>3. CASE s # c
    BY <1>4, <1>7, <2>1, <2>3, SameWork
  <2> QED
    BY <2>2, <2>3
<1>14. NamedInv'
  <2>1. \A i \in DOMAIN applied : IsWrite(applied[i])
    BY <1>1 DEF NamedInv
  <2>2. \A s \in Ranks : \A i \in DOMAIN todo'[s] : IsWrite(todo'[s][i]) /\ Concentrator(todo'[s][i].rank) = s
    <3>1. ASSUME NEW i \in DOMAIN T PROVE IsWrite(T[i]) /\ Concentrator(T[i].rank) = c
      <4>1. PICK a \in DOMAIN jobs[c] : T[i] = jobs[c][a]
        BY <1>6
      <4>2. IsWrite(jobs[c][a]) /\ Concentrator(jobs[c][a].rank) = c
        BY <1>1 DEF NamedInv
      <4> QED
        BY <4>1, <4>2
    <3>2. \A s \in Ranks : \A i \in DOMAIN todo[s] : IsWrite(todo[s][i]) /\ Concentrator(todo[s][i].rank) = s
      BY <1>1 DEF NamedInv
    <3> QED
      BY <1>7, <3>1, <3>2
  <2>3. \A s \in Ranks : \A i \in DOMAIN jobs'[s] : IsWrite(jobs'[s][i]) /\ Concentrator(jobs'[s][i].rank) = s
    BY <1>1, <1>7, <1>9 DEF NamedInv
  <2> QED
    BY <1>4, <2>1, <2>2, <2>3, SameWork DEF NamedInv
<1>15. JobsInv'
  <2> SUFFICES ASSUME NEW s \in Ranks PROVE JobsInv!(s)'
    BY DEF JobsInv
  <2>1. CASE s = c
    BY <1>7, <1>9, <2>1
  <2>2. CASE s # c
    <3>1. JobsInv!(s) /\ jobs'[s] = jobs[s] /\ recv_from'[s] = recv_from[s]
      BY <1>1, <1>7, <2>2 DEF JobsInv
    <3>2. \A q, i : Handed(q, i)' <=> Handed(q, i)
      BY <1>4 DEF Handed
    <3> QED
      BY <1>4, <3>1, <3>2, SameWork DEF Less, Handed
  <2> QED
    BY <2>1, <2>2
<1>16. Ordered'
  <2> SUFFICES ASSUME NEW s \in Ranks PROVE Ordered!(s)'
    BY DEF Ordered
  <2>1. Ordered!(s)
    BY <1>1 DEF Ordered
  <2>2. CASE s # c
    BY <1>4, <1>7, <2>1, <2>2 DEF Less, Concentrator
  <2>3. CASE s = c
    <3>1. \A a, b \in DOMAIN jobs[c] : a < b => Less(jobs[c][a], jobs[c][b])
      BY <1>1 DEF JobsInv
    <3>2. \A m, n \in DOMAIN T : m < n /\ T[m].path = T[n].path => Less(T[m], T[n])
      <4> SUFFICES ASSUME NEW m \in DOMAIN T, NEW n \in DOMAIN T, m < n, T[m].path = T[n].path
                   PROVE  Less(T[m], T[n])
        OBVIOUS
      <4>1. PICK a \in DOMAIN jobs[c], b \in DOMAIN jobs[c] :
               a < b /\ T[m] = jobs[c][a] /\ T[n] = jobs[c][b]
        BY <1>6, Zenon
      <4> QED
        BY <3>1, <4>1
    <3>3. Ordered!(s)!1'
      BY <1>7, <2>3, <3>2 DEF Less
    <3>4. Ordered!(s)!2'
      BY <1>4, <1>10, <2>3 DEF Concentrator
    <3> QED
      BY <3>3, <3>4
  <2> QED
    BY <2>2, <2>3
<1>17. \A w, q : q \in Ranks /\ Place(w, q) => Place(w, q)'
  <2> SUFFICES ASSUME NEW w, NEW q \in Ranks, Place(w, q) PROVE Place(w, q)'
    OBVIOUS
  <2>1. CASE q # c
    BY <1>4, <1>7, <2>1 DEF Place
  <2>2. CASE q = c
    <3>1. \A i \in DOMAIN todo[c] : FALSE
      BY <1>1, <1>4, <1>8, <1>9 DEF GroupInv
    <3> QED
      BY <1>4, <1>6, <1>7, <2>2, <3>1 DEF Place
  <2> QED
    BY <2>1, <2>2
<1>18. Located'
  <2> SUFFICES ASSUME NEW s \in Ranks, InWrite(s)' PROVE Located!(s)!2'
    BY DEF Located
  <2>1. InWrite(s) /\ Located!(s)!2
    BY <1>1, <1>4 DEF Located, InWrite
  <2>2. \A i : Handed(s, i)' <=> Handed(s, i)
    BY <1>4 DEF Handed
  <2>3. PICK q \in Ranks : q = Concentrator(s)
    BY <1>1, ConcentratorFact
  <2>4. \A i \in 1 .. Cardinality(Writes(s)) :
            Place(WriteSeq(s)[i], q) \/ (Member(s) /\ ~Handed(s, i))
    BY <2>1, <2>3
  <2>5. \A i \in 1 .. Cardinality(Writes(s)) :
            \E w : w = WriteSeq(s)[i] /\ (Place(w, q)' \/ (Member(s) /\ ~Handed(s, i)))
    BY <1>17, <2>4
  <2>6. Concentrator(s)' = q /\ WriteSeq(s)' = WriteSeq(s) /\ Writes(s)' = Writes(s)
    BY <1>4, <2>3, SameWork
  <2>7. \A i \in 1 .. Cardinality(Writes(s)) :
            Place(WriteSeq(s)[i], Concentrator(s))' \/ (Member(s) /\ ~Handed(s, i))
    BY <2>5, <2>6 DEF Place
  <2> QED
    BY <1>4, <2>1, <2>2, <2>6, <2>7, SameWork
<1>19. BufsInv'
  BY <1>1, <1>4, ZenonT(30) DEF BufsInv, AggManifest
<1>20. OrderKept'
  BY <1>1, <1>4, SameWork DEF OrderKept
<1> QED
  BY <1>2, <1>11, <1>12, <1>13, <1>14, <1>15, <1>16, <1>18, <1>19, <1>20 DEF CInv


\* The concentrator takes a message of the member it is at: its next write.
LEMMA RecvStep ==
    ASSUME CInv, [Next]_vars, NEW c \in Ranks, Recv(c)
    PROVE  CInv'
<1>1. /\ RankTypes /\ Lockstep /\ WriteTypes /\ Quiet /\ GroupInv /\ NamedInv /\ JobsInv
      /\ Ordered /\ Located /\ BufsInv /\ OrderKept
  BY DEF CInv
<1>2. RankTypes' /\ Lockstep'
  BY RanksStep DEF CInv
<1>3. PICK m : m = recv_from[c]
  OBVIOUS
<1>4. PICK w : w = chan[m][1]
  OBVIOUS
<1>5. /\ pc[c] = "write" /\ group_size > 1 /\ Concentrator(c) = c
      /\ m < GroupEnd(c) /\ m \in Ranks /\ chan[m] # <<>>
      /\ chan' = [chan EXCEPT ![m] = <<>>]
      /\ jobs' = [jobs EXCEPT ![c] = IF sent[m] = 1 THEN @ ELSE Append(@, w)]
      /\ \/ recv_from' = [recv_from EXCEPT ![c] = @ + 1]
         \/ recv_from' = [recv_from EXCEPT ![c] = @]
      /\ pc' = pc /\ pending' = pending /\ group_size' = group_size /\ bufs' = bufs
      /\ made' = made /\ verdict' = verdict /\ sent' = sent /\ todo' = todo
      /\ applied' = applied
  BY <1>3, <1>4 DEF Recv, JobListAppend, policyVars, commitVars
<1>6. /\ jobs \in [Ranks -> Seq(NamedWrite)] /\ DOMAIN chan = Ranks
      /\ recv_from \in [Ranks -> Nat] /\ sent \in [Ranks -> Nat] /\ jobs[c] \in Seq(NamedWrite)
  BY <1>1 DEF WriteTypes
<1>7. /\ N \in Nat /\ c \in Nat /\ m \in Nat /\ c + 1 <= m /\ m < N /\ m # c
      /\ group_size \in Nat /\ m < c + group_size
  <2>1. N \in Nat /\ c \in Nat /\ m \in Nat /\ m < N /\ group_size \in Nat
    BY <1>1, <1>5, RankFact DEF RankTypes
  <2>2. c + 1 <= m
    BY <1>1, <1>3, <2>1 DEF GroupInv
  <2>3. m < c + group_size
    BY <1>5, <2>1 DEF GroupEnd
  <2> QED
    BY <2>1, <2>2, <2>3
<1>8. Concentrator(m) = c /\ Member(m)
  <2>1. Concentrator(m) = c
    BY <1>1, <1>5, <1>7, ConcentratorFact
  <2> QED
    BY <1>5, <1>7, <2>1 DEF Member
<1>9. \A s \in Ranks :
        /\ chan'[s] = IF s = m THEN <<>> ELSE chan[s]
        /\ jobs'[s] = IF s = c /\ sent[m] # 1 THEN Append(jobs[c], w) ELSE jobs[s]
        /\ recv_from'[s] = recv_from[s] \/ (s = c /\ recv_from'[s] = recv_from[s] + 1)
  BY <1>5, <1>6
<1>10. /\ Cardinality(Writes(m)) \in Nat /\ Len(MessagesOf(m)) = Cardinality(Writes(m)) + 1
       /\ sent[m] \in 1 .. Len(MessagesOf(m)) /\ w = MessagesOf(m)[sent[m]]
  <2>1. Cardinality(Writes(m)) \in Nat /\ Len(MessagesOf(m)) = Cardinality(Writes(m)) + 1
    BY <1>1, <1>5, MessagesFact, WriteSeqFact
  <2>2. sent[m] \in 1 .. Len(MessagesOf(m)) /\ chan[m] = <<MessagesOf(m)[sent[m]]>>
    BY <1>1, <1>5 DEF GroupInv
  <2> QED
    BY <1>4, <2>1, <2>2
<1>11. PICK n \in Nat : n = sent[m]
  BY <1>5, <1>6
<1>12. n # 1 => /\ n - 1 \in 1 .. Cardinality(Writes(m)) /\ w = WriteSeq(m)[n - 1]
                /\ w \in NamedWrite /\ w.rank = m /\ IsWrite(w)
  <2> SUFFICES ASSUME n # 1
               PROVE  /\ n - 1 \in 1 .. Cardinality(Writes(m)) /\ w = WriteSeq(m)[n - 1]
                      /\ w \in NamedWrite /\ w.rank = m /\ IsWrite(w)
    OBVIOUS
  <2>1. n - 1 \in 1 .. Cardinality(Writes(m)) /\ (n - 1) + 1 = n
    BY <1>10, <1>11
  <2>2. w = WriteSeq(m)[n - 1]
    <3>1. MessagesOf(m)[(n - 1) + 1] = WriteSeq(m)[n - 1]
      BY <1>1, <1>5, <2>1, MessagesFact
    <3> QED
      BY <1>10, <1>11, <2>1, <3>1
  <2>3. IsWrite(WriteSeq(m)[n - 1]) /\ WriteSeq(m)[n - 1].rank = m
    BY <1>1, <1>5, <2>1, WriteSeqFact
  <2>4. WriteSeq(m)[n - 1] \in NamedWrite
    <3>1. WriteSeq(m) \in Seq(NamedWrite) /\ n - 1 \in DOMAIN WriteSeq(m)
      BY <1>1, <1>5, <2>1, WriteSeqFact
    <3> QED
      BY <3>1, ElementFact
  <2> QED
    BY <2>1, <2>2, <2>3, <2>4
<1>13. PICK L \in Nat : L = Len(jobs[c])
  BY <1>6, LenProperties
<1>14. DOMAIN jobs[c] = 1 .. L
  BY <1>6, <1>13, LenProperties
<1>15. n # 1 => /\ jobs'[c] \in Seq(NamedWrite) /\ DOMAIN jobs'[c] = 1 .. L + 1
                /\ \A i \in 1 .. L : jobs'[c][i] = jobs[c][i]
                /\ jobs'[c][L + 1] = w
  <2> SUFFICES ASSUME n # 1
               PROVE  /\ jobs'[c] \in Seq(NamedWrite) /\ DOMAIN jobs'[c] = 1 .. L + 1
                      /\ \A i \in 1 .. L : jobs'[c][i] = jobs[c][i]
                      /\ jobs'[c][L + 1] = w
    OBVIOUS
  <2>1. jobs'[c] = Append(jobs[c], w) /\ w \in NamedWrite
    BY <1>9, <1>11, <1>12
  <2>2. /\ Append(jobs[c], w) \in Seq(NamedWrite) /\ Len(Append(jobs[c], w)) = Len(jobs[c]) + 1
        /\ \A i \in 1 .. Len(jobs[c]) : Append(jobs[c], w)[i] = jobs[c][i]
        /\ Append(jobs[c], w)[Len(jobs[c]) + 1] = w
    BY <1>6, <2>1, AppendProperties
  <2>3. DOMAIN Append(jobs[c], w) = 1 .. L + 1
    BY <1>13, <2>2, LenProperties
  <2> QED
    BY <1>13, <2>1, <2>2, <2>3
<1>16. n = 1 => jobs'[c] = jobs[c]
  BY <1>9, <1>11
<1>17. \A s \in Ranks : s # c => jobs'[s] = jobs[s]
  BY <1>9
<1>18. \A i \in DOMAIN jobs'[c] : (i \in DOMAIN jobs[c] /\ jobs'[c][i] = jobs[c][i])
                                  \/ (n # 1 /\ i = L + 1 /\ jobs'[c][i] = w)
  BY <1>13, <1>14, <1>15, <1>16
<1>19. \A i \in DOMAIN jobs[c] : i \in DOMAIN jobs'[c] /\ jobs'[c][i] = jobs[c][i]
  BY <1>13, <1>14, <1>15, <1>16
<1>20. WriteTypes'
  <2>1. jobs' \in [Ranks -> Seq(NamedWrite)]
    <3>1. \A s \in Ranks : jobs'[s] \in Seq(NamedWrite)
      BY <1>6, <1>15, <1>16, <1>17
    <3>2. DOMAIN jobs' = Ranks /\ jobs' = [s \in Ranks |-> jobs'[s]]
      BY <1>5, <1>6
    <3> QED
      BY <3>1, <3>2
  <2>2. recv_from' \in [Ranks -> Nat] /\ DOMAIN chan' = Ranks
    BY <1>5, <1>6
  <2>3. UNCHANGED <<pending, group_size, todo, applied, sent, bufs, verdict>>
    BY <1>5
  <2>4. \A s \in Ranks : Writes(s)' = Writes(s)
    BY <2>3, SameWork
  <2> QED
    BY <1>1, <2>1, <2>2, <2>3, <2>4 DEF WriteTypes
<1>21. Quiet'
  <2>1. \A s \in Ranks : pc[s] \in {"write", "final"}
    BY <1>1, <1>5 DEF Lockstep
  <2>2. \A s \in Ranks : chan[s] = <<>> => chan'[s] = <<>>
    BY <1>9
  <2>3. \A s \in Ranks : pc[s] # "write" => jobs'[s] = jobs[s]
    BY <1>5, <1>17
  <2> QED
    BY <1>1, <1>5, <2>1, <2>2, <2>3 DEF Quiet
<1>22. GroupInv'
  <2> SUFFICES ASSUME NEW s \in Ranks PROVE GroupInv!(s)'
    BY DEF GroupInv
  <2>1. GroupInv!(s)
    BY <1>1 DEF GroupInv
  <2>2. CASE s = c
    <3>1. ~Member(c) /\ recv_from'[c] # N + 1 /\ recv_from[c] # N + 1 /\ recv_from'[c] >= c + 1
      BY <1>3, <1>5, <1>7, <1>9 DEF Member
    <3>2. chan'[c] = chan[c]
      BY <1>7, <1>9
    <3> QED
      BY <1>5, <2>1, <2>2, <3>1, <3>2, SameWork
  <2>3. CASE s # c
    <3>1. jobs'[s] = jobs[s] /\ recv_from'[s] = recv_from[s] /\ (chan'[s] = <<>> \/ chan'[s] = chan[s])
      BY <1>9, <1>17, <2>3
    <3> QED
      BY <1>5, <2>1, <3>1, SameWork
  <2> QED
    BY <2>2, <2>3
<1>23. NamedInv'
  <2>1. \A i \in DOMAIN applied : IsWrite(applied[i])
    BY <1>1 DEF NamedInv
  <2>2. \A s \in Ranks : \A i \in DOMAIN todo[s] : IsWrite(todo[s][i]) /\ Concentrator(todo[s][i].rank) = s
    BY <1>1 DEF NamedInv
  <2>3. \A s \in Ranks : \A i \in DOMAIN jobs[s] : IsWrite(jobs[s][i]) /\ Concentrator(jobs[s][i].rank) = s
    BY <1>1 DEF NamedInv
  <2>4. \A s \in Ranks : \A i \in DOMAIN jobs'[s] : IsWrite(jobs'[s][i]) /\ Concentrator(jobs'[s][i].rank) = s
    <3> SUFFICES ASSUME NEW s \in Ranks, NEW i \in DOMAIN jobs'[s]
                 PROVE  IsWrite(jobs'[s][i]) /\ Concentrator(jobs'[s][i].rank) = s
      OBVIOUS
    <3>1. CASE s # c
      BY <1>17, <2>3, <3>1
    <3>2. CASE s = c
      BY <1>8, <1>12, <1>18, <2>3, <3>2
    <3> QED
      BY <3>1, <3>2
  <2> QED
    BY <1>5, <2>1, <2>2, <2>4, SameWork DEF NamedInv
<1>24. \A q \in Ranks, i \in Nat :
          /\ Handed(q, i) => Handed(q, i)'
          /\ Handed(q, i)' /\ ~Handed(q, i) => q = m /\ i + 1 = n
          /\ Handed(m, i) => i + 1 < n
  <2> TAKE q \in Ranks, i \in Nat
  <2>1. CASE q # m
    BY <1>5, <1>9, <1>11, <2>1 DEF Handed
  <2>2. CASE q = m
    <3>1. chan'[m] = <<>> /\ chan[m] # <<>> /\ sent'[m] = n /\ sent[m] = n
      BY <1>5, <1>9, <1>11
    <3> QED
      BY <2>2, <3>1 DEF Handed
  <2> QED
    BY <2>1, <2>2
<1>25. ASSUME n # 1, NEW i \in DOMAIN jobs[c] PROVE Less(jobs[c][i], w)
  <2>1. /\ jobs[c][i].rank \in Nat /\ jobs[c][i].k \in Nat /\ jobs[c][i].rank <= m
        /\ jobs[c][i].rank # c => \E a \in 1 .. Cardinality(Writes(jobs[c][i].rank)) :
              jobs[c][i] = WriteSeq(jobs[c][i].rank)[a] /\ Handed(jobs[c][i].rank, a)
    BY <1>1, <1>3, <1>6, ElementFact DEF JobsInv
  <2>2. CASE jobs[c][i].rank < m
    BY <1>12, <1>25, <2>2 DEF Less
  <2>3. CASE jobs[c][i].rank = m
    <3>1. PICK a \in 1 .. Cardinality(Writes(m)) : jobs[c][i] = WriteSeq(m)[a] /\ Handed(m, a)
      BY <1>7, <2>1, <2>3
    <3>2. a \in Nat /\ a < n - 1
      BY <1>5, <1>10, <1>24, <3>1
    <3>3. WriteSeq(m)[a].k < WriteSeq(m)[n - 1].k
      BY <1>1, <1>5, <1>12, <1>25, <3>2, WriteSeqFact
    <3> QED
      BY <1>12, <1>25, <2>3, <3>1, <3>3 DEF Less
  <2> QED
    BY <1>7, <2>1, <2>2, <2>3
<1>26. JobsInv'
  <2> SUFFICES ASSUME NEW s \in Ranks PROVE JobsInv!(s)'
    BY DEF JobsInv
  <2>1. JobsInv!(s)
    BY <1>1 DEF JobsInv
  <2>2. \A i, j \in DOMAIN jobs'[s] : i < j => Less(jobs'[s][i], jobs'[s][j])
    <3>1. CASE s # c
      BY <1>17, <2>1, <3>1
    <3>2. CASE s = c
      <4> SUFFICES ASSUME NEW i \in DOMAIN jobs'[c], NEW j \in DOMAIN jobs'[c], i < j
                   PROVE  Less(jobs'[c][i], jobs'[c][j])
        BY <3>2
      <4>1. i # L + 1 \/ n = 1
        BY <1>13, <1>15
      <4>2. i \in DOMAIN jobs[c] /\ jobs'[c][i] = jobs[c][i]
        BY <1>18, <4>1
      <4>3. CASE j \in DOMAIN jobs[c] /\ jobs'[c][j] = jobs[c][j]
        BY <2>1, <3>2, <4>2, <4>3
      <4>4. CASE n # 1 /\ jobs'[c][j] = w
        BY <1>25, <4>2, <4>4
      <4> QED
        BY <1>18, <4>3, <4>4
    <3> QED
      BY <3>1, <3>2
  <2>3. ASSUME NEW j \in DOMAIN jobs'[s]
        PROVE  \E q \in Ranks :
                  /\ jobs'[s][j].rank = q /\ q <= recv_from'[s]
                  /\ q # s => \E i \in 1 .. Cardinality(Writes(q)) :
                                 jobs'[s][j] = WriteSeq(q)[i] /\ Handed(q, i)'
    <3>1. CASE j \in DOMAIN jobs[s] /\ jobs'[s][j] = jobs[s][j]
      <4>1. PICK q \in Ranks : q = jobs[s][j].rank
        BY <1>6, <3>1, ElementFact
      <4>2. q <= recv_from[s]
        BY <2>1, <3>1, <4>1
      <4>3. q <= recv_from'[s]
        <5>1. q \in Nat /\ recv_from[s] \in Nat
          BY <1>6, RankFact
        <5> QED
          BY <1>9, <4>2, <5>1
      <4>4. ASSUME q # s
            PROVE  \E i \in 1 .. Cardinality(Writes(q)) :
                      jobs'[s][j] = WriteSeq(q)[i] /\ Handed(q, i)'
        <5>1. PICK i \in 1 .. Cardinality(Writes(q)) : jobs[s][j] = WriteSeq(q)[i] /\ Handed(q, i)
          BY <2>1, <3>1, <4>1, <4>4
        <5>2. i \in Nat
          BY <1>1, WriteSeqFact
        <5> QED
          BY <1>24, <3>1, <5>1, <5>2
      <4> QED
        BY <3>1, <4>1, <4>3, <4>4
    <3>2. CASE s = c /\ n # 1 /\ jobs'[s][j] = w
      <4>1. w.rank = m /\ m <= recv_from'[s]
        BY <1>3, <1>7, <1>9, <1>12, <3>2
      <4>2. PICK a \in Nat : a = n - 1
        BY <1>10, <1>11
      <4>3. Handed(m, a)'
        <5>1. chan'[m] = <<>> /\ sent'[m] = n
          BY <1>5, <1>9, <1>11
        <5> QED
          BY <4>2, <5>1 DEF Handed
      <4>4. a \in 1 .. Cardinality(Writes(m)) /\ w = WriteSeq(m)[a]
        BY <1>12, <3>2, <4>2
      <4> QED
        BY <1>5, <3>2, <4>1, <4>3, <4>4
    <3> QED
      BY <1>17, <1>18, <2>3, <3>1, <3>2
  <2>4. JobsInv!(s)!1'
    BY <2>2 DEF Less
  <2>5. \A q : WriteSeq(q)' = WriteSeq(q) /\ Writes(q)' = Writes(q)
    BY <1>5, SameWork
  <2>6. JobsInv!(s)!2'
    BY <2>3, <2>5 DEF Handed
  <2> QED
    BY <2>4, <2>6
<1>27. Ordered'
  BY <1>1, <1>5 DEF Ordered, Less, Concentrator
<1>28. \A v, q : q \in Ranks /\ Place(v, q) => Place(v, q)'
  <2> SUFFICES ASSUME NEW v, NEW q \in Ranks, Place(v, q) PROVE Place(v, q)'
    OBVIOUS
  <2>1. \A i \in DOMAIN jobs[q] : i \in DOMAIN jobs'[q] /\ jobs'[q][i] = jobs[q][i]
    BY <1>17, <1>19
  <2> QED
    BY <1>5, <2>1 DEF Place
<1>29. n # 1 => Place(w, c)'
  <2>1. n # 1 => L + 1 \in DOMAIN jobs'[c] /\ jobs'[c][L + 1] = w
    BY <1>13, <1>15
  <2> QED
    BY <2>1 DEF Place
<1>30. Located'
  <2> SUFFICES ASSUME NEW s \in Ranks, InWrite(s)' PROVE Located!(s)!2'
    BY DEF Located
  <2>1. InWrite(s) /\ Located!(s)!2
    BY <1>1, <1>5 DEF Located, InWrite
  <2>2. PICK q \in Ranks : q = Concentrator(s)
    BY <1>1, ConcentratorFact
  <2>3. Concentrator(s)' = q /\ WriteSeq(s)' = WriteSeq(s) /\ Writes(s)' = Writes(s)
    BY <1>5, <2>2, SameWork
  <2>4. \A i \in 1 .. Cardinality(Writes(s)) :
            \E v : v = WriteSeq(s)[i] /\ (Place(v, q)' \/ (Member(s) /\ ~Handed(s, i)'))
    <3> SUFFICES ASSUME NEW i \in 1 .. Cardinality(Writes(s))
                 PROVE  \E v : v = WriteSeq(s)[i] /\ (Place(v, q)' \/ (Member(s) /\ ~Handed(s, i)'))
      OBVIOUS
    <3>1. PICK v : v = WriteSeq(s)[i]
      OBVIOUS
    <3>2. Place(v, q) \/ (Member(s) /\ ~Handed(s, i))
      BY <2>1, <2>2, <3>1
    <3>3. CASE Place(v, q)
      BY <1>28, <3>1, <3>3
    <3>4. CASE Member(s) /\ ~Handed(s, i) /\ ~Handed(s, i)'
      BY <3>1, <3>4
    <3>5. CASE ~Handed(s, i) /\ Handed(s, i)'
      <4>1. i \in Nat /\ i >= 1
        BY <1>1, WriteSeqFact
      <4>2. s = m /\ i + 1 = n
        BY <1>24, <3>5, <4>1
      <4>3. n # 1 /\ i = n - 1 /\ q = c
        BY <1>8, <2>2, <4>1, <4>2
      <4>4. v = w
        BY <1>12, <3>1, <4>2, <4>3
      <4> QED
        BY <1>29, <3>1, <4>3, <4>4
    <3> QED
      BY <3>2, <3>3, <3>4, <3>5
  <2>5. \A i \in 1 .. Cardinality(Writes(s)) :
            Place(WriteSeq(s)[i], Concentrator(s))' \/ (Member(s) /\ ~Handed(s, i)')
    BY <2>3, <2>4 DEF Place
  <2> QED
    BY <1>5, <2>1, <2>3, <2>5, SameWork
<1>31. BufsInv'
  <2>1. \A s : AggManifest(s)' = AggManifest(s)
    BY <1>5 DEF AggManifest
  <2>2. pc' = pc /\ bufs' = bufs
    BY <1>5
  <2> QED
    BY <1>1, <2>1, <2>2 DEF BufsInv
<1>32. OrderKept'
  BY <1>1, <1>5, SameWork DEF OrderKept
<1> QED
  BY <1>2, <1>20, <1>21, <1>22, <1>23, <1>26, <1>27, <1>30, <1>31, <1>32 DEF CInv

-----------------------------------------------------------------------------
(* The theorems.                                                           *)

\* Every step keeps the invariant.
LEMMA Inductive == CInv /\ [Next]_vars => CInv'
<1> SUFFICES ASSUME CInv, [Next]_vars PROVE CInv'
  OBVIOUS
<1>1. ASSUME NEW r \in Ranks, Call(r) PROVE CInv'
  <2>1. UNCHANGED IdleVars
    BY <1>1 DEF Call, IdleVars, policyVars, commitVars, writeVars
  <2> QED
    BY <2>1, IdleStep
<1>2. CASE Complete
  BY <1>2, CreateStep, CollectiveStep
<1>3. CASE UNCHANGED <<IdleVars, in_call>>
  BY <1>3, IdleStep
<1> QED
  BY <1>1, <1>2, <1>3, StepKinds, CaptureStep, IssueStep, SendStep, RecvStep, GatherStep,
     DoneKeeps, Zenon

\* The invariant holds throughout.
LEMMA InvHolds == Spec => []CInv
  BY InitInv, Inductive, PTL DEF Spec

\* Two ranks in a collective are in the same one, for the same step: the
\* decisions that lead to it are taken from values that are common to them.
THEOREM RanksAreAligned == Spec => []Aligned
<1>1. CInv => Aligned
  <2> SUFFICES ASSUME CInv, NEW r \in Ranks, NEW s \in Ranks, in_call[r], in_call[s]
               PROVE  pc[r] = pc[s] /\ physical_step[r] = physical_step[s]
    BY DEF Aligned
  <2>1. pc[r] \in Collectives /\ pc[s] \in Collectives
    BY DEF CInv, RankTypes
  <2>2. /\ pc[r] # "write" /\ pc[s] # "write" /\ pc[r] # "in_step" /\ pc[s] # "in_step"
    BY <2>1 DEF Collectives
  <2>3. Lockstep!(r, s)
    BY DEF CInv, Lockstep
  <2> QED
    BY <2>2, <2>3
<1> QED
  BY <1>1, InvHolds, PTL

\* Writes of one group to one path reach the file in the order of the ranks,
\* each rank's in the order in which they were made.
THEOREM OrderIsKept == Spec => []OrderKept
<1>1. CInv => OrderKept
  BY DEF CInv
<1> QED
  BY <1>1, InvHolds, PTL

\* When all ranks have committed, each write has reached the file once, and
\* its dataset exists, whatever the groups and the order of the messages.
THEOREM WritesArriveOnce == Spec => []WritesLand
<1>1. CInv => WritesLand
  <2> SUFFICES ASSUME CInv, \A r \in Ranks : pc[r] = "final" /\ verdict[r] = "committed",
                      NEW r \in Ranks, NEW k \in Writes(r)
               PROVE  /\ Cardinality({i \in DOMAIN applied :
                                        applied[i].rank = r /\ applied[i].k = k}) = 1
                      /\ pending[r][k].path \in made
    BY DEF WritesLand
  <2>1. RankTypes /\ WriteTypes /\ Quiet /\ NamedInv /\ Located /\ OrderKept
    BY DEF CInv
  <2> DEFINE at == {i \in DOMAIN applied : applied[i].rank = r /\ applied[i].k = k}
  <2>2. InWrite(r) /\ Located!(r)!2
    BY <2>1 DEF InWrite, Located
  <2>3. PICK j \in 1 .. Cardinality(Writes(r)) : WriteSeq(r)[j].k = k
    BY <2>1, WriteSeqFact
  <2>4. WriteSeq(r)[j].rank = r /\ Cardinality(Writes(r)) \in Nat
    BY <2>1, WriteSeqFact
  <2>5. PICK q \in Ranks : q = Concentrator(r)
    BY <2>1, ConcentratorFact
  <2>6. todo[q] = <<>> /\ jobs[q] = <<>> /\ chan[r] = <<>>
    BY <2>1 DEF Quiet
  <2>7. Member(r) => Handed(r, j)
    <3>1. Member(r) => sent[r] = Cardinality(Writes(r)) + 1
      BY <2>1, <2>2, MessagesFact
    <3> QED
      BY <2>4, <2>6, <3>1 DEF Handed
  <2>8. Place(WriteSeq(r)[j], q)
    BY <2>2, <2>5, <2>7
  <2>9. PICK i \in DOMAIN applied : applied[i] = WriteSeq(r)[j]
    BY <2>6, <2>8 DEF Place
  <2>10. i \in at
    BY <2>3, <2>4, <2>9
  <2>11. ASSUME NEW a \in at, NEW b \in at PROVE ~(a < b)
    <3>1. /\ a \in DOMAIN applied /\ b \in DOMAIN applied
          /\ applied[a].rank = r /\ applied[b].rank = r
          /\ applied[a].k = k /\ applied[b].k = k
      OBVIOUS
    <3>2. applied[a].path = pending[r][k].path /\ applied[b].path = pending[r][k].path
      BY <2>1, <3>1 DEF NamedInv, IsWrite
    <3>3. r \in Nat /\ k \in Nat
      <4>1. applied \in Seq(NamedWrite)
        BY <2>1 DEF WriteTypes
      <4> QED
        BY <3>1, <4>1, ElementFact, RankFact
    <3>4. ~(r < r) /\ ~(k < k)
      BY <3>3
    <3> QED
      BY <2>1, <3>1, <3>2, <3>4 DEF OrderKept
  <2>12. \A a \in at : a \in Nat
    <3>1. applied \in Seq(NamedWrite)
      BY <2>1 DEF WriteTypes
    <3> QED
      BY <3>1, ElementFact
  <2>13. \A a \in at : a = i
    BY <2>10, <2>11, <2>12
  <2> HIDE DEF at
  <2>14. at = {i}
    BY <2>10, <2>13
  <2>15. Cardinality(at) = 1
    BY <2>14, FS_Singleton
  <2> QED
    BY <2>2, <2>15 DEF at
<1> QED
  BY <1>1, InvHolds, PTL
=============================================================================
