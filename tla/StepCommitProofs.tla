-------------------------- MODULE StepCommitProofs --------------------------
(* Proofs about StepCommit, for every value of its constants.              *)
EXTENDS StepCommit, ProofFacts

-----------------------------------------------------------------------------
(* Facts about dictionaries and manifests.                                 *)

\* What a dictionary holds for a path is a type, or nothing.
LEMMA TypeSentType ==
    ASSUME NEW es \in Seq(Entry), NEW n \in Int, NEW p \in Paths,
           write_type_cache \in Cache
    PROVE  TypeSent(es, n, p) \in Types \cup {NoType}
<1> DEFINE S == {i \in WritesTo(es, p) : i <= n}
<1>1. CASE S = {}
  BY <1>1 DEF TypeSent, Cache
<1>2. CASE S # {}
  <2>1. S \subseteq 0 .. Len(es) /\ S \subseteq DOMAIN es /\ Len(es) \in Nat
    BY DEF WritesTo
  <2> HIDE DEF S
  <2>2. Max(S) \in DOMAIN es
    BY <1>2, <2>1, MaxBounded
  <2>3. es[Max(S)] \in Entry
    BY <2>2, ElementOfSeq
  <2>4. es[Max(S)].type \in Types
    BY <2>3 DEF Entry
  <2> QED
    BY <1>2, <2>4 DEF TypeSent, S
<1> QED
  BY <1>1, <1>2

\* The same of the replay's dictionary, which learns only from entries that
\* carry their type.
LEMMA TypeKnownType ==
    ASSUME NEW m \in Seq(Record), NEW n \in Int, NEW p \in Paths,
           replay_type_cache \in Cache
    PROVE  TypeKnown(m, n, p) \in Types \cup {NoType}
<1> DEFINE S == {i \in WritesTo(m, p) : i <= n /\ m[i].enc # NoType}
<1>1. CASE S = {}
  BY <1>1 DEF TypeKnown, Cache
<1>2. CASE S # {}
  <2>1. S \subseteq 0 .. Len(m) /\ S \subseteq DOMAIN m /\ Len(m) \in Nat
    BY DEF WritesTo
  <2> HIDE DEF S
  <2>2. Max(S) \in DOMAIN m
    BY <1>2, <2>1, MaxBounded
  <2>3. m[Max(S)] \in Record
    BY <2>2, ElementOfSeq
  <2>4. m[Max(S)].enc \in Types \cup {NoType}
    BY <2>3 DEF Record
  <2> QED
    BY <1>2, <2>4 DEF TypeKnown, S
<1> QED
  BY <1>1, <1>2

\* The manifest of captured entries is a manifest.
LEMMA ManifestType ==
    ASSUME NEW es \in Seq(Entry), write_type_cache \in Cache
    PROVE  /\ BuildManifest(es) \in Seq(Record)
           /\ CacheAfterBuild(es) \in Cache
<1> DEFINE enc(i) == IF /\ es[i].kind = "write"
                        /\ TypeSent(es, i - 1, es[i].path) = es[i].type
                     THEN NoType ELSE es[i].type
           rec(i) == [kind |-> es[i].kind, path |-> es[i].path,
                      type |-> es[i].type, enc |-> enc(i)]
<1>1. \A i \in 1 .. Len(es) : rec(i) \in Record
  <2> TAKE i \in 1 .. Len(es)
  <2>1. es[i] \in Entry
    BY ElementOfSeq
  <2>2. /\ es[i].kind \in EntryKinds /\ es[i].path \in Paths
        /\ es[i].type \in Types
    BY <2>1 DEF Entry
  <2>3. enc(i) \in Types \cup {NoType}
    BY <2>2
  <2> HIDE DEF enc
  <2> QED
    BY <2>2, <2>3 DEF Record
<1>2. BuildManifest(es) \in Seq(Record)
  <2>1. BuildManifest(es) = [i \in 1 .. Len(es) |-> rec(i)]
    BY LenProperties DEF BuildManifest
  <2> HIDE DEF rec
  <2>2. [i \in 1 .. Len(es) |-> rec(i)] \in Seq(Record)
    BY <1>1, LenProperties, IsASeq
  <2> QED
    BY <2>1, <2>2
<1>3. CacheAfterBuild(es) \in Cache
  BY TypeSentType DEF CacheAfterBuild, Cache
<1> QED
  BY <1>2, <1>3

\* A replay leaves a well-formed step group: what it wrote was decoded with a
\* type that the dictionary had.
LEMMA ReplayType ==
    ASSUME NEW m \in Seq(Record), NEW n \in Steps, NEW f \in ReplayEnds(m, n),
           NEW has \in BOOLEAN, file \in [Steps -> StepGroup],
           replay_type_cache \in Cache, path_index \in [Paths -> Seq(Steps)]
    PROVE  /\ Replayed(m, n, f, has) \in StepGroup
           /\ IndexAdd(m, n, f) \in [Paths -> Seq(Steps)]
           /\ CacheAfterReplay(m, f) \in Cache
<1>1. f \in 1 .. Len(m) + 1 /\ f \in Int
  BY DEF ReplayEnds
<1>2. {m[i].path : i \in {j \in 1 .. f - 1 : m[j].kind = "create"}} \subseteq Paths
  <2> SUFFICES ASSUME NEW i \in 1 .. f - 1
               PROVE  m[i].path \in Paths
    OBVIOUS
  <2>1. m[i] \in Record
    BY <1>1, ElementOfSeq
  <2> QED
    BY <2>1 DEF Record
<1>3. \A i \in 1 .. f - 1 : m[i].kind = "write" =>
         [path |-> m[i].path, wrote |-> m[i].type,
          as |-> TypeKnown(m, i, m[i].path)] \in Datum
  <2> SUFFICES ASSUME NEW i \in 1 .. f - 1, m[i].kind = "write"
               PROVE  [path |-> m[i].path, wrote |-> m[i].type,
                       as |-> TypeKnown(m, i, m[i].path)] \in Datum
    OBVIOUS
  <2>1. i \in DOMAIN m /\ i \in Int /\ m[i] \in Record
    BY <1>1
  <2>2. m[i].path \in Paths /\ m[i].type \in Types
    BY <2>1 DEF Record
  <2>3. ~CannotReplay(m, n, i)
    BY DEF ReplayEnds
  <2>4. TypeKnown(m, i, m[i].path) # NoType
    BY <2>3 DEF CannotReplay
  <2>5. TypeKnown(m, i, m[i].path) \in Types
    BY <2>1, <2>2, <2>4, TypeKnownType
  <2> QED
    BY <2>2, <2>5 DEF Datum
<1>4. {[path |-> m[i].path, wrote |-> m[i].type,
        as |-> TypeKnown(m, i, m[i].path)] :
          i \in {j \in 1 .. f - 1 : m[j].kind = "write"}} \subseteq Datum
  BY <1>3
<1>5. Replayed(m, n, f, has) \in StepGroup
  BY <1>2, <1>4 DEF Replayed, StepGroup, Persists
<1>6. \A p \in Paths : Cardinality({j \in Creates(m, p) : j <= f}) \in Nat
  <2> TAKE p \in Paths
  <2>1. {j \in Creates(m, p) : j <= f} \subseteq 1 .. Len(m)
    BY DEF Creates
  <2>2. IsFiniteSet(1 .. Len(m))
    BY FS_Interval
  <2> QED
    BY <2>1, <2>2, FS_Subset, FS_CardinalityType
<1>7. \A p \in Paths :
         path_index[p] \o [i \in 1 .. Cardinality({j \in Creates(m, p) : j <= f})
                             |-> n] \in Seq(Steps)
  <2> TAKE p \in Paths
  <2> DEFINE k == Cardinality({j \in Creates(m, p) : j <= f})
  <2>1. k \in Nat
    BY <1>6
  <2> HIDE DEF k
  <2>2. [i \in 1 .. k |-> n] \in Seq(Steps)
    BY <2>1, IsASeq
  <2>3. path_index[p] \o [i \in 1 .. k |-> n] \in Seq(Steps)
    BY <2>2, ConcatProperties
  <2> QED
    BY <2>3 DEF k
<1>8. IndexAdd(m, n, f) \in [Paths -> Seq(Steps)]
  BY <1>7 DEF IndexAdd
<1>9. CacheAfterReplay(m, f) \in Cache
  BY <1>1, TypeKnownType DEF CacheAfterReplay, Cache
<1> QED
  BY <1>5, <1>8, <1>9

\* path_index_drop_step returns a list of steps.
LEMMA DropStepType ==
    ASSUME NEW s \in Seq(Steps), NEW n \in Steps
    PROVE  DropStep(s, n) \in Seq(Steps)
<1> DEFINE S == {0} \cup {i \in DOMAIN s : s[i] # n}
<1>1. S \subseteq 0 .. Len(s) /\ S # {} /\ Len(s) \in Nat
  OBVIOUS
<1> HIDE DEF S
<1>2. Max(S) \in 0 .. Len(s)
  BY <1>1, MaxBounded
<1>3. SubSeq(s, 1, Max(S)) \in Seq(Steps)
  BY <1>2, SubSeqProperties
<1> QED
  BY <1>3 DEF DropStep, S

\* The captured payload is counted by a natural number.
LEMMA PendingBytesType ==
    ASSUME pending \in Seq(Entry)
    PROVE  PendingBytes \in Nat
<1>1. {i \in DOMAIN pending : pending[i].kind = "write"} \subseteq 1 .. Len(pending)
  OBVIOUS
<1>2. IsFiniteSet(1 .. Len(pending))
  BY FS_Interval
<1> QED
  BY <1>1, <1>2, FS_Subset, FS_CardinalityType DEF PendingBytes

-----------------------------------------------------------------------------
(* Types. TypeOK is not inductive alone: that physical_step stays within    *)
(* the bound needs StepBounded, that retain_floor does needs                *)
(* RetentionAccounts.                                                       *)

TypeInv == TypeOK /\ StepBounded /\ RetentionAccounts

\* A file just opened has every variable in its type and nothing retained.
LEMMA TypeInit == Init => TypeInv
<1> SUFFICES ASSUME Init PROVE TypeInv
  OBVIOUS
<1> USE ConstantsAssumption DEF Init
<1>1. TypeOK
  BY DEF TypeOK, Phases, Committing, Steps, Cache, Handle, Closed, StepGroup,
         NoGroup, NoAck, NoRetention
<1>2. StepBounded
  BY DEF StepBounded, Committing
<1>3. RetentionAccounts
  BY DEF RetentionAccounts
<1> QED
  BY <1>1, <1>2, <1>3 DEF TypeInv

\* Every step keeps the types.
LEMMA TypeStep == TypeInv /\ [Next]_vars => TypeInv'
<1> SUFFICES ASSUME TypeInv, [Next]_vars PROVE TypeInv'
  OBVIOUS
<1> USE ConstantsAssumption DEF TypeInv
<1> USE DEF captureVars, cacheVars, policyVars, retainVars, lagVars, viewVars
<1>s. MaxSteps \in Nat /\ physical_step \in Nat
  BY DEF TypeOK, Steps
<1>1. ASSUME NEW r \in Readers, NEW step \in Steps, ReaderAck(r, step)
      PROVE  TypeInv'
  <2>1. NewLag(r, step) \in Steps \cup {NoAck}
    BY DEF NewLag, TypeOK
  <2>2. lag_table' \in [Readers -> Steps \cup {NoAck}]
    BY <1>1, <2>1 DEF ReaderAck, TypeOK
  <2> QED
    BY <1>1, <2>2 DEF ReaderAck, TypeOK, StepBounded, RetentionAccounts
<1>2. ASSUME NEW r \in Readers, ReaderLeave(r) PROVE TypeInv'
  BY <1>2 DEF ReaderLeave, TypeOK, StepBounded, RetentionAccounts
<1>3. CASE BeginStep
  BY <1>3 DEF BeginStep, TypeOK, StepBounded, RetentionAccounts, Phases
<1>4. ASSUME NEW p \in Paths, NEW t \in Types, DatasetCreate(p, t)
      PROVE  TypeInv'
  <2>1. NewEntry("create", p, t, TRUE) \in Entry
    BY DEF NewEntry, Entry, EntryKinds
  <2>2. pending' \in Seq(Entry)
    BY <1>4, <2>1, AppendProperties DEF DatasetCreate, TypeOK
  <2>3. handle' \in [Paths -> Handle]
    BY <1>4 DEF DatasetCreate, TypeOK, Handle
  <2> QED
    BY <1>4, <2>2, <2>3 DEF DatasetCreate, TypeOK, StepBounded, RetentionAccounts
<1>5. ASSUME NEW p \in Paths, NEW t \in Types, DatasetWrite(p, t)
      PROVE  TypeInv'
  <2>1. /\ NewEntry("create", p, t, FALSE) \in Entry
        /\ NewEntry("write", p, t, FALSE) \in Entry
    BY DEF NewEntry, Entry, EntryKinds
  <2>2. WithCreate(p, t) \in Seq(Entry)
    BY <2>1, AppendProperties DEF WithCreate, TypeOK
  <2>3. pending' \in Seq(Entry)
    BY <1>5, <2>1, <2>2, AppendProperties DEF DatasetWrite
  <2> QED
    BY <1>5, <2>3 DEF DatasetWrite, TypeOK, StepBounded, RetentionAccounts
<1>6. ASSUME NEW p \in Paths, NEW t \in Types, DatasetWriteStale(p, t)
      PROVE  TypeInv'
  <2>1. NewEntry("write", p, t, FALSE) \in Entry
    BY DEF NewEntry, Entry, EntryKinds
  <2>2. pending' \in Seq(Entry)
    <3>1. pending \in Seq(Entry)
      BY DEF TypeOK
    <3>2. \/ pending' = pending
          \/ pending' = Append(pending, NewEntry("write", p, t, FALSE))
      BY <1>6 DEF DatasetWriteStale
    <3> QED
      <4> DEFINE e == NewEntry("write", p, t, FALSE)
      <4>1. e \in Entry
        BY <2>1
      <4> HIDE DEF e
      <4>2. Append(pending, e) \in Seq(Entry)
        BY <3>1, <4>1, AppendProperties
      <4> QED
        BY <3>1, <3>2, <4>2 DEF e
  <2>3. phase' \in {phase, "crashed"}
    BY <1>6 DEF DatasetWriteStale
  <2> QED
    BY <1>6, <2>2, <2>3 DEF DatasetWriteStale, TypeOK, StepBounded,
         RetentionAccounts, Phases, Committing
<1>7. ASSUME NEW p \in Paths, DatasetClose(p) PROVE TypeInv'
  <2>1. pending' \in Seq(Entry)
    <3>1. CASE pending' = pending
      BY <3>1 DEF TypeOK
    <3>2. CASE pending' # pending
      <4> DEFINE i == handle[p].index
      <4>1. i \in DOMAIN pending /\ pending' = [pending EXCEPT ![i].owner = FALSE]
        BY <1>7, <3>2 DEF DatasetClose, OwnsEntry
      <4>2. pending[i] \in Entry
        BY <4>1, ElementOfSeq DEF TypeOK
      <4>3. [pending[i] EXCEPT !.owner = FALSE] \in Entry
        BY <4>2 DEF Entry
      <4> DEFINE e == [pending[i] EXCEPT !.owner = FALSE]
      <4>4. pending \in Seq(Entry)
        BY DEF TypeOK
      <4>5. pending' = [pending EXCEPT ![i] = e] /\ e \in Entry
        BY <4>1, <4>3
      <4> HIDE DEF i, e
      <4>6. [pending EXCEPT ![i] = e] \in Seq(Entry)
        BY <4>1, <4>4, <4>5, ExceptSeq
      <4> QED
        BY <4>5, <4>6
    <3> QED
      BY <3>1, <3>2
  <2>2. handle' \in [Paths -> Handle]
    BY <1>7 DEF DatasetClose, TypeOK, Handle, Closed
  <2> QED
    BY <1>7, <2>1, <2>2 DEF DatasetClose, TypeOK, StepBounded, RetentionAccounts
<1>8. ASSUME NEW policy \in Policies, NEW reserve \in Reserves,
             SetQueuePolicy(policy, reserve)
      PROVE  TypeInv'
  BY <1>8 DEF SetQueuePolicy, TypeOK, StepBounded, RetentionAccounts
<1>9. ASSUME NEW bounds \in Retentions, SetRetention(bounds) PROVE TypeInv'
  <2>1. bounds # NoRetention
    BY DEF NoRetention
  <2>2. CASE physical_step > 0 /\ retain_bytes = <<>>
    <3>1. retain_bytes' = [i \in 1 .. physical_step |-> 0] /\ retain_floor' = 0
      BY <1>9, <2>2 DEF SetRetention
    <3>2. retain_bytes' \in Seq(Nat) /\ Len(retain_bytes') = physical_step
      BY <1>s, <3>1
    <3>3. retain_floor' \in Steps /\ retain_floor' + Len(retain_bytes') = physical_step
      BY <1>s, <3>1, <3>2 DEF Steps
    <3> QED
      BY <1>9, <2>1, <3>1, <3>2, <3>3 DEF SetRetention, TypeOK, StepBounded,
           RetentionAccounts
  <2>3. CASE ~(physical_step > 0 /\ retain_bytes = <<>>)
    <3>1. retain_bytes' = retain_bytes /\ retain_floor' = retain_floor
      BY <1>9, <2>3 DEF SetRetention
    <3>2. retain_floor + Len(retain_bytes) = physical_step
      BY <1>s, <2>3 DEF RetentionAccounts, TypeOK, Steps
    <3> QED
      BY <1>9, <2>1, <3>1, <3>2 DEF SetRetention, TypeOK, StepBounded,
           RetentionAccounts
  <2> QED
    BY <2>2, <2>3
<1>10. CASE FileClose
  BY <1>10 DEF FileClose, TypeOK, StepBounded, RetentionAccounts, Phases, Committing
<1>11. CASE EndStep
  BY <1>11 DEF EndStep, TypeOK, StepBounded, RetentionAccounts, Phases, Committing
<1>12. CASE StartDrain
  <2>1. LagView \subseteq Nat
    BY DEF LagView, Tracked, TypeOK, Steps
  <2>2. drain_to' \in Nat
    BY <1>12, <1>s, <2>1 DEF StartDrain, TypeOK
  <2> QED
    BY <1>12, <2>2 DEF StartDrain, TypeOK, StepBounded, RetentionAccounts,
         Phases, Committing
<1>13. CASE DrainOne
  <2> DEFINE e == Head(pending_spill)
  <2>1. e \in Spilled /\ Tail(pending_spill) \in Seq(Spilled)
    BY <1>13, HeadTailProperties DEF DrainOne, HeadDue, TypeOK
  <2>2. e.step \in Steps /\ e.manifest \in Seq(Record)
    BY <2>1 DEF Spilled
  <2>3. PICK f \in ReplayEnds(e.manifest, e.step), has \in ManifestFates :
           /\ file' = [file EXCEPT ![e.step] = Replayed(e.manifest, e.step, f, has)]
           /\ path_index' = IndexAdd(e.manifest, e.step, f)
           /\ replay_type_cache' = CacheAfterReplay(e.manifest, f)
           /\ pending_spill' = AfterDrain(pending_spill, f = Len(e.manifest) + 1)
           /\ phase' = IF f = Len(e.manifest) + 1 THEN "draining" ELSE "decide"
    BY <1>13 DEF DrainOne
  <2>4. has \in BOOLEAN
    BY DEF ManifestFates
  <2> HIDE DEF e
  <2>5. /\ Replayed(e.manifest, e.step, f, has) \in StepGroup
        /\ IndexAdd(e.manifest, e.step, f) \in [Paths -> Seq(Steps)]
        /\ CacheAfterReplay(e.manifest, f) \in Cache
    BY <2>2, <2>4, ReplayType DEF TypeOK
  <2>6. /\ file' \in [Steps -> StepGroup]
        /\ path_index' \in [Paths -> Seq(Steps)]
        /\ replay_type_cache' \in Cache
    BY <2>3, <2>5, <2>2 DEF TypeOK
  <2>7. pending_spill' \in Seq(Spilled)
    BY <2>1, <2>3 DEF AfterDrain, TypeOK
  <2>8. phase' \in {"draining", "decide"}
    BY <2>3
  <2> QED
    BY <1>13, <2>6, <2>7, <2>8 DEF DrainOne, TypeOK, StepBounded,
         RetentionAccounts, Phases, Committing
<1>14. CASE DrainStop
  BY <1>14 DEF DrainStop, TypeOK, StepBounded, RetentionAccounts, Phases, Committing
<1>15. CASE DecideReplay
  BY <1>15 DEF DecideReplay, TypeOK, StepBounded, RetentionAccounts, Phases,
       Committing, Tracked
<1>16. CASE DecideDiscard
  <2>1. file' \in [Steps -> StepGroup]
    BY <1>16 DEF DecideDiscard, EmptyGroup, TypeOK, StepGroup
  <2> QED
    BY <1>16, <2>1 DEF DecideDiscard, TypeOK, StepBounded, RetentionAccounts,
         Phases, Committing, Tracked
<1>26. CASE DecideDiscardFails
  BY <1>26 DEF DecideDiscardFails, TypeOK, StepBounded, RetentionAccounts, Phases,
       Committing, Tracked
<1>17. CASE DecideSpill
  <2>1. file' \in [Steps -> StepGroup]
    BY <1>17 DEF DecideSpill, EmptyGroup, TypeOK, StepGroup
  <2>2. BuildManifest(pending) \in Seq(Record) /\ write_type_cache' \in Cache
    BY <1>17, ManifestType DEF DecideSpill, TypeOK
  <2>3. SpillEntry \in Spilled
    BY <2>2 DEF SpillEntry, Spilled, TypeOK
  <2>4. pending_spill' \in Seq(Spilled)
    BY <1>17, <2>3, AppendProperties DEF DecideSpill, Enqueue, TypeOK
  <2> QED
    BY <1>17, <2>1, <2>2, <2>4 DEF DecideSpill, TypeOK, StepBounded,
         RetentionAccounts, Phases, Committing, Tracked
<1>18. CASE DecideSpillFails
  <2>1. file' \in [Steps -> StepGroup]
    <3>1. EmptyGroup(physical_step) \in [Steps -> StepGroup]
      BY DEF EmptyGroup, TypeOK, StepGroup
    <3>2. file' = file \/ file' = EmptyGroup(physical_step)
      BY <1>18 DEF DecideSpillFails
    <3> QED
      BY <3>1, <3>2 DEF TypeOK
  <2>2. write_type_cache' \in Cache
    BY <1>18, ManifestType DEF DecideSpillFails, TypeOK
  <2> QED
    BY <1>18, <2>1, <2>2 DEF DecideSpillFails, TypeOK, StepBounded,
         RetentionAccounts, Phases, Committing, Tracked
<1>19. CASE DecideBlock
  BY <1>19 DEF DecideBlock, TypeOK, StepBounded, RetentionAccounts, Phases,
       Committing, Tracked
<1>20. CASE BlockPoll
  <2>1. polls' \in 0 .. MaxPolls
    BY <1>20 DEF BlockPoll, PollCount, TypeOK
  <2> QED
    BY <1>20, <2>1 DEF BlockPoll, TypeOK, StepBounded, RetentionAccounts, Phases,
         Committing, Tracked
<1>21. CASE BlockTimeout
  BY <1>21 DEF BlockTimeout, TypeOK, StepBounded, RetentionAccounts, Phases,
       Committing
<1>22. CASE ReplayStep
  <2> DEFINE m == BuildManifest(pending)
  <2>1. m \in Seq(Record) /\ CacheAfterBuild(pending) \in Cache
    BY ManifestType DEF TypeOK
  <2>2. PICK f \in ReplayEnds(m, physical_step), has \in ManifestFates :
          /\ file' = [file EXCEPT ![physical_step] =
                        Replayed(m, physical_step, f, has)]
          /\ path_index' = IndexAdd(m, physical_step, f)
          /\ write_type_cache' = CacheAfterBuild(pending)
          /\ replay_type_cache' = CacheAfterReplay(m, f)
          /\ handle' = Wired(f)
          /\ phase' = IF f = Len(m) + 1 THEN "committed" ELSE "failed"
    BY <1>22 DEF ReplayStep
  <2>3. has \in BOOLEAN
    BY DEF ManifestFates
  <2> HIDE DEF m
  <2>4. /\ Replayed(m, physical_step, f, has) \in StepGroup
        /\ IndexAdd(m, physical_step, f) \in [Paths -> Seq(Steps)]
        /\ CacheAfterReplay(m, f) \in Cache
    BY <2>1, <2>3, ReplayType DEF TypeOK
  <2>5. /\ file' \in [Steps -> StepGroup]
        /\ path_index' \in [Paths -> Seq(Steps)]
        /\ replay_type_cache' \in Cache /\ write_type_cache' \in Cache
    BY <2>1, <2>2, <2>4 DEF TypeOK
  <2>6. handle' \in [Paths -> Handle]
    BY <2>2 DEF Wired, TypeOK, Handle
  <2>7. phase' \in {"committed", "failed"}
    BY <2>2
  <2> QED
    BY <1>22, <2>5, <2>6, <2>7 DEF ReplayStep, TypeOK, StepBounded,
         RetentionAccounts, Phases, Committing
<1>23. CASE CommitStep
  <2>1. physical_step' \in Steps
    BY <1>23, <1>s DEF CommitStep, StepBounded, Committing, Steps
  <2>2. CASE retention = NoRetention
    <3>1. UNCHANGED <<file, retainVars>>
      BY <1>23, <2>2 DEF CommitStep, ApplyRetention
    <3> QED
      BY <1>23, <2>1, <2>2, <3>1 DEF CommitStep, ViewReset, TypeOK, StepBounded,
           RetentionAccounts, Phases, Committing
  <2>3. CASE retention # NoRetention
    <3> DEFINE bytes == Append(retain_bytes, PendingBytes)
    <3>1. PendingBytes \in Nat
      BY PendingBytesType DEF TypeOK
    <3>2. bytes \in Seq(Nat) /\ Len(bytes) = Len(retain_bytes) + 1
      BY <3>1, AppendProperties DEF TypeOK
    <3>3. PICK k \in DropsFor(bytes) :
            /\ file' = Unlink(retain_floor .. retain_floor + k - 1)
            /\ retain_floor' = retain_floor + k
            /\ retain_bytes' = SubSeq(bytes, k + 1, Len(bytes))
            /\ UNCHANGED retention
      BY <1>23, <2>3 DEF CommitStep, ApplyRetention
    <3>4. k \in 0 .. Len(bytes) - 1
      BY DEF DropsFor
    <3> HIDE DEF bytes
    <3>5. retain_bytes' \in Seq(Nat) /\ Len(retain_bytes') = Len(bytes) - k
      BY <3>2, <3>3, <3>4, SubSeqProperties
    <3>6. retain_floor + Len(retain_bytes) = physical_step
      BY <2>3 DEF RetentionAccounts
    <3>n. Len(retain_bytes) \in Nat /\ retain_floor \in Nat
      BY <1>s DEF TypeOK, Steps
    <3>7. retain_floor' \in Steps
      BY <1>s, <3>2, <3>3, <3>4, <3>6, <3>n DEF TypeOK, Steps
    <3>8. /\ retain_floor' + Len(retain_bytes') = physical_step + 1
          /\ retain_bytes' # <<>>
      <4>1. retain_floor' + Len(retain_bytes') = physical_step + 1
        <5>1. \A a, b, c, d \in Int : a + b = c => (a + d) + ((b + 1) - d) = c + 1
          OBVIOUS
        <5>2. Len(retain_bytes') = (Len(retain_bytes) + 1) - k /\ k \in Int
          BY <3>2, <3>4, <3>5, <3>n
        <5>3. retain_floor' = retain_floor + k
          BY <3>3
        <5>4. (retain_floor + k) + ((Len(retain_bytes) + 1) - k) = physical_step + 1
          BY <1>s, <3>6, <3>n, <5>1, <5>2
        <5> QED
          BY <5>2, <5>3, <5>4
      <4>2. Len(retain_bytes') # 0
        BY <3>2, <3>4, <3>5, <3>n
      <4> QED
        BY <4>1, <4>2
    <3>9. file' \in [Steps -> StepGroup]
      BY <3>3 DEF Unlink, TypeOK, NoGroup, StepGroup
    <3>10. RetentionAccounts'
      BY <1>23, <2>3, <3>3, <3>8 DEF CommitStep, RetentionAccounts
    <3>11. TypeOK'
      <4>1. pending' \in Seq(Entry) /\ polls' \in 0 .. MaxPolls /\ drain_to' \in Nat
        BY <1>23 DEF CommitStep, ViewReset
      <4>2. phase' \in Phases /\ seen' \subseteq Readers
        BY <1>23 DEF CommitStep, ViewReset, Phases
      <4> QED
        BY <1>23, <2>1, <3>3, <3>5, <3>7, <3>9, <4>1, <4>2 DEF CommitStep, TypeOK
    <3>12. StepBounded'
      BY <1>23 DEF CommitStep, StepBounded, Committing
    <3> QED
      BY <3>10, <3>11, <3>12
  <2> QED
    BY <2>2, <2>3
<1>24. CASE AbortStep
  <2>1. file' \in [Steps -> StepGroup]
    BY <1>24 DEF AbortStep, Unlink, TypeOK, NoGroup, StepGroup
  <2>2. path_index' \in [Paths -> Seq(Steps)]
    BY <1>24, DropStepType DEF AbortStep, TypeOK
  <2>3. TypeOK'
    <3>1. pending' \in Seq(Entry) /\ polls' \in 0 .. MaxPolls /\ drain_to' \in Nat
      BY <1>24 DEF AbortStep, ViewReset
    <3>2. phase' \in Phases /\ seen' \subseteq Readers
      BY <1>24 DEF AbortStep, ViewReset, Phases
    <3> QED
      BY <1>24, <2>1, <2>2, <3>1, <3>2 DEF AbortStep, TypeOK
  <2>4. StepBounded' /\ RetentionAccounts'
    BY <1>24 DEF AbortStep, StepBounded, RetentionAccounts, Committing
  <2> QED
    BY <2>3, <2>4
<1>25. CASE UNCHANGED vars
  BY <1>25 DEF vars, TypeOK, StepBounded, RetentionAccounts
<1> QED
  BY <1>1, <1>2, <1>3, <1>4, <1>5, <1>6, <1>7, <1>8, <1>9, <1>10, <1>11, <1>12,
     <1>13, <1>14, <1>15, <1>16, <1>17, <1>18, <1>19, <1>20, <1>21, <1>22,
     <1>23, <1>24, <1>25, <1>26 DEF Next, Application, Commit, Progress, Stopped

\* Every variable keeps its type, for any number of steps, paths, readers,
\* types, policies and faults.
THEOREM TypeCorrect == Spec => []TypeOK
<1>1. TypeInv => TypeOK
  BY DEF TypeInv
<1> QED
  BY <1>1, TypeInit, TypeStep, PTL DEF Spec

\* Under retention the floor and the sizes always account for every committed
\* step: apply_retention prunes the oldest one left, never a gap or the step
\* just committed.
THEOREM RetentionIsExact == Spec => []RetentionAccounts
<1>1. TypeInv => RetentionAccounts
  BY DEF TypeInv
<1> QED
  BY <1>1, TypeInit, TypeStep, PTL DEF Spec

-----------------------------------------------------------------------------
(* No committed step is lost. StepChain and NoStepLost speak of steps below  *)
(* physical_step; CommittedIsKept says the same of the step about to join    *)
(* them, and SpillSorted that the drain only ever touches older ones.        *)

SafeInv == SpillSorted /\ StepChain /\ NoStepLost /\ CommittedIsKept

\* A file just opened has no committed step and an empty spill queue.
LEMMA SafeInit == Init => SafeInv
<1> SUFFICES ASSUME Init PROVE SafeInv
  OBVIOUS
<1>1. DOMAIN pending_spill = {} /\ SpilledSteps = {} /\ Retained = {}
  BY DEF Init, SpilledSteps, Retained
<1> QED
  BY <1>1 DEF Init, SafeInv, SpillSorted, StepChain, NoStepLost, CommittedIsKept

\* A step that leaves the file, the spill queue and the history alone, and
\* neither enters nor leaves the committed phase, keeps everything.
LEMMA QuietStep ==
    ASSUME SafeInv,
           UNCHANGED <<physical_step, file, pending_spill, retain_floor, dropped>>,
           phase' = "committed" <=> phase = "committed",
           FileOpen' => FileOpen
    PROVE  SafeInv'
<1>1. SpilledSteps' = SpilledSteps /\ Retained' = Retained
  BY DEF SpilledSteps, Retained
<1> QED
  BY <1>1 DEF SafeInv, SpillSorted, StepChain, NoStepLost, CommittedIsKept

\* Every step keeps the committed steps.
LEMMA SafeStep == TypeInv /\ SafeInv /\ [Next]_vars => SafeInv'
<1> SUFFICES ASSUME TypeInv, SafeInv, [Next]_vars PROVE SafeInv'
  OBVIOUS
<1> USE ConstantsAssumption
<1> USE DEF captureVars, cacheVars, policyVars, retainVars, lagVars, viewVars
<1>t. /\ MaxSteps \in Nat /\ physical_step \in Nat /\ physical_step \in Steps
      /\ retain_floor \in Nat
      /\ file \in [Steps -> StepGroup] /\ pending_spill \in Seq(Spilled)
  BY DEF TypeInv, TypeOK, Steps
<1>r. Retained \subseteq Steps /\ \A n \in Retained : n \in Nat /\ n < physical_step
  BY <1>t DEF Retained, Steps
<1>1. ASSUME NEW r \in Readers, NEW step \in Steps, ReaderAck(r, step)
      PROVE  SafeInv'
  BY <1>1, QuietStep DEF ReaderAck, FileOpen
<1>2. ASSUME NEW r \in Readers, ReaderLeave(r) PROVE SafeInv'
  BY <1>2, QuietStep DEF ReaderLeave, FileOpen
<1>3. CASE BeginStep
  BY <1>3, QuietStep DEF BeginStep, FileOpen
<1>4. ASSUME NEW p \in Paths, NEW t \in Types, DatasetCreate(p, t)
      PROVE  SafeInv'
  BY <1>4, QuietStep DEF DatasetCreate, FileOpen
<1>5. ASSUME NEW p \in Paths, NEW t \in Types, DatasetWrite(p, t)
      PROVE  SafeInv'
  BY <1>5, QuietStep DEF DatasetWrite, FileOpen
<1>6. ASSUME NEW p \in Paths, NEW t \in Types, DatasetWriteStale(p, t)
      PROVE  SafeInv'
  BY <1>6, QuietStep DEF DatasetWriteStale, FileOpen, Idle
<1>7. ASSUME NEW p \in Paths, DatasetClose(p) PROVE SafeInv'
  BY <1>7, QuietStep DEF DatasetClose, FileOpen
<1>8. ASSUME NEW policy \in Policies, NEW reserve \in Reserves,
             SetQueuePolicy(policy, reserve)
      PROVE  SafeInv'
  BY <1>8, QuietStep DEF SetQueuePolicy, FileOpen
<1>9. ASSUME NEW bounds \in Retentions, SetRetention(bounds) PROVE SafeInv'
  <2>1. retain_floor' = retain_floor
    BY <1>9 DEF SetRetention, TypeInv, RetentionAccounts
  <2> QED
    BY <1>9, <2>1, QuietStep DEF SetRetention, FileOpen
<1>10. CASE FileClose
  <2>1. /\ Retained' = Retained /\ file' = file /\ phase' = "closed"
        /\ SpilledSteps' = {} /\ DOMAIN pending_spill' = {}
    BY <1>10 DEF FileClose, Retained, SpilledSteps
  <2> QED
    BY <2>1 DEF SafeInv, SpillSorted, StepChain, NoStepLost, CommittedIsKept, FileOpen
<1>11. CASE EndStep
  BY <1>11, QuietStep DEF EndStep, FileOpen
<1>12. CASE StartDrain
  BY <1>12, QuietStep DEF StartDrain, FileOpen
<1>13. CASE DrainOne
  <2> DEFINE e == Head(pending_spill)
  <2>1. /\ pending_spill # <<>> /\ e \in Spilled /\ e = pending_spill[1]
        /\ 1 \in DOMAIN pending_spill
    BY <1>13, <1>t, HeadTailProperties DEF DrainOne, HeadDue
  <2>2. e.step \in Steps /\ e.step \in SpilledSteps
    BY <2>1 DEF Spilled, SpilledSteps
  <2>3. phase = "draining" /\ e.step < physical_step
    BY <1>13, <2>2 DEF DrainOne, SafeInv, SpillSorted
  <2>4. PICK f \in ReplayEnds(e.manifest, e.step), has \in ManifestFates :
           /\ file' = [file EXCEPT ![e.step] = Replayed(e.manifest, e.step, f, has)]
           /\ pending_spill' = AfterDrain(pending_spill, f = Len(e.manifest) + 1)
           /\ phase' = IF f = Len(e.manifest) + 1 THEN "draining" ELSE "decide"
    BY <1>13 DEF DrainOne
  <2> DEFINE done == f = Len(e.manifest) + 1
  <2>5. file[e.step].group => Replayed(e.manifest, e.step, f, has).group
    BY DEF Replayed
  <2>6. Replayed(e.manifest, e.step, f, has).full = done
    BY DEF Replayed
  <2> HIDE DEF e, done
  <2>7. /\ UNCHANGED <<physical_step, retain_floor, dropped>>
        /\ Retained' = Retained
    BY <1>13 DEF DrainOne, Retained
  <2>8. \A n \in Steps : n # e.step => file'[n] = file[n]
    BY <2>4, <1>t
  <2>9. /\ file[e.step].group => file'[e.step].group
        /\ done => file'[e.step].full
    BY <1>t, <2>2, <2>4, <2>5, <2>6
  <2>10. StepChain'
    BY <1>r, <2>7, <2>8, <2>9 DEF SafeInv, StepChain
  <2>11. CASE done
    <3>1. pending_spill' = Tail(pending_spill) /\ phase' = "draining"
      BY <2>4, <2>11 DEF AfterDrain, done
    <3>2. /\ Len(pending_spill) \in Nat
          /\ DOMAIN pending_spill' = 1 .. Len(pending_spill) - 1
          /\ \A i \in 1 .. Len(pending_spill) - 1 :
                pending_spill'[i] = pending_spill[i + 1]
      BY <1>t, <2>1, <3>1
    <3>3. \A i \in DOMAIN pending_spill' : i + 1 \in DOMAIN pending_spill
      BY <1>t, <3>2
    <3>4. SpilledSteps' \subseteq SpilledSteps
      BY <3>2, <3>3 DEF SpilledSteps
    <3>5. \A n \in SpilledSteps : n = e.step \/ n \in SpilledSteps'
      <4> SUFFICES ASSUME NEW i \in DOMAIN pending_spill
                   PROVE  \/ pending_spill[i].step = e.step
                          \/ pending_spill[i].step \in SpilledSteps'
        BY DEF SpilledSteps
      <4>1. CASE i = 1
        BY <2>1, <4>1
      <4>2. CASE i # 1
        <5>1. i - 1 \in DOMAIN pending_spill' /\ pending_spill'[i - 1] = pending_spill[i]
          BY <1>t, <3>2, <4>2
        <5> QED
          BY <5>1 DEF SpilledSteps
      <4> QED
        BY <4>1, <4>2
    <3>6. SpillSorted'
      <4>1. ASSUME NEW i \in DOMAIN pending_spill', NEW j \in DOMAIN pending_spill',
                   i < j
            PROVE  pending_spill'[i].step < pending_spill'[j].step
        <5>1. i + 1 < j + 1 /\ i \in 1 .. Len(pending_spill) - 1
                /\ j \in 1 .. Len(pending_spill) - 1
          BY <3>2, <4>1
        <5>2. pending_spill[i + 1].step < pending_spill[j + 1].step
          BY <3>3, <5>1 DEF SafeInv, SpillSorted
        <5> QED
          BY <3>2, <5>1, <5>2
      <4>2. \A n \in SpilledSteps' : n < physical_step' /\ n <= physical_step'
        BY <2>3, <2>7, <3>4 DEF SafeInv, SpillSorted
      <4> QED
        BY <4>1, <4>2 DEF SpillSorted
    <3>7. NoStepLost'
      BY <1>r, <2>3, <2>7, <2>8, <2>9, <2>11, <3>5 DEF SafeInv, NoStepLost, FileOpen
    <3> QED
      BY <2>10, <3>1, <3>6, <3>7 DEF SafeInv, CommittedIsKept
  <2>12. CASE ~done
    <3>1. pending_spill' = pending_spill /\ phase' = "decide"
      BY <2>4, <2>12 DEF AfterDrain, done
    <3>2. SpilledSteps' = SpilledSteps
      BY <3>1 DEF SpilledSteps
    <3>3. SpillSorted'
      BY <2>3, <2>7, <3>1, <3>2 DEF SafeInv, SpillSorted
    <3>4. NoStepLost'
      BY <1>r, <2>2, <2>3, <2>7, <2>8, <3>2 DEF SafeInv, NoStepLost, FileOpen
    <3> QED
      BY <2>10, <3>1, <3>3, <3>4 DEF SafeInv, CommittedIsKept
  <2> QED
    BY <2>11, <2>12
<1>14. CASE DrainStop
  BY <1>14, QuietStep DEF DrainStop, FileOpen
<1>15. CASE DecideReplay
  BY <1>15, QuietStep DEF DecideReplay, FileOpen
<1>16. CASE DecideDiscard
  <2>1. /\ SpilledSteps' = SpilledSteps /\ Retained' = Retained
        /\ physical_step' = physical_step /\ phase' = "committed"
        /\ phase = "decide" /\ pending_spill' = pending_spill
        /\ dropped' = dropped \cup {physical_step}
    BY <1>16 DEF DecideDiscard, SpilledSteps, Retained
  <2>2. /\ \A n \in Steps : n # physical_step => file'[n] = file[n]
        /\ file'[physical_step].group
    BY <1>16, <1>t DEF DecideDiscard, EmptyGroup, StepGroup
  <2>3. SpillSorted'
    BY <2>1 DEF SafeInv, SpillSorted
  <2>4. StepChain' /\ NoStepLost'
    BY <1>r, <2>1, <2>2 DEF SafeInv, StepChain, NoStepLost, FileOpen
  <2>5. CommittedIsKept'
    BY <2>1, <2>2 DEF CommittedIsKept
  <2> QED
    BY <2>3, <2>4, <2>5 DEF SafeInv
<1>26. CASE DecideDiscardFails
  BY <1>26, QuietStep DEF DecideDiscardFails, FileOpen
<1>17. CASE DecideSpill
  <2>1. /\ Retained' = Retained /\ phase = "decide" /\ phase' = "committed"
        /\ physical_step' = physical_step /\ dropped' = dropped
        /\ pending_spill' = Append(pending_spill, SpillEntry)
        /\ SpillEntry.step = physical_step
    BY <1>17 DEF DecideSpill, Retained, Enqueue, SpillEntry
  <2>2. /\ \A n \in Steps : n # physical_step => file'[n] = file[n]
        /\ file'[physical_step].group
    BY <1>17, <1>t DEF DecideSpill, EmptyGroup, StepGroup
  <2> DEFINE k == Len(pending_spill)
  <2>3. /\ k \in Nat /\ DOMAIN pending_spill = 1 .. k
        /\ DOMAIN pending_spill' = 1 .. k + 1
        /\ \A i \in 1 .. k : pending_spill'[i] = pending_spill[i]
        /\ pending_spill'[k + 1].step = physical_step
    BY <1>t, <2>1, AppendProperties
  <2> HIDE DEF k
  <2>4. SpilledSteps' = SpilledSteps \cup {physical_step}
    BY <2>3 DEF SpilledSteps
  <2>5. \A n \in SpilledSteps : n < physical_step
    BY <2>1 DEF SafeInv, SpillSorted
  <2>6. SpillSorted'
    <3>1. ASSUME NEW i \in DOMAIN pending_spill', NEW j \in DOMAIN pending_spill',
                 i < j
          PROVE  pending_spill'[i].step < pending_spill'[j].step
      <4>1. i \in 1 .. k /\ pending_spill'[i].step = pending_spill[i].step
        BY <2>3, <3>1
      <4>2. CASE j = k + 1
        <5>1. pending_spill[i].step \in SpilledSteps
          BY <2>3, <4>1 DEF SpilledSteps
        <5> QED
          BY <2>3, <2>5, <4>1, <4>2, <5>1
      <4>3. CASE j # k + 1
        <5>1. j \in 1 .. k
          BY <2>3, <4>3
        <5> QED
          BY <2>3, <3>1, <4>1, <5>1 DEF SafeInv, SpillSorted
      <4> QED
        BY <4>2, <4>3
    <3>2. \A n \in SpilledSteps' : n <= physical_step'
      BY <1>t, <2>1, <2>4 DEF SafeInv, SpillSorted
    <3> QED
      BY <2>1, <3>1, <3>2 DEF SpillSorted
  <2>7. StepChain' /\ NoStepLost'
    BY <1>r, <2>1, <2>2, <2>4 DEF SafeInv, StepChain, NoStepLost, FileOpen
  <2>8. CommittedIsKept'
    BY <2>1, <2>2, <2>4 DEF CommittedIsKept
  <2> QED
    BY <2>6, <2>7, <2>8 DEF SafeInv
<1>18. CASE DecideSpillFails
  <2>1. /\ SpilledSteps' = SpilledSteps /\ Retained' = Retained
        /\ physical_step' = physical_step /\ phase' = "block"
        /\ phase = "decide" /\ pending_spill' = pending_spill
        /\ dropped' = dropped
    BY <1>18 DEF DecideSpillFails, SpilledSteps, Retained
  <2>2. \A n \in Steps : n # physical_step => file'[n] = file[n]
    BY <1>18, <1>t DEF DecideSpillFails, EmptyGroup
  <2>3. SpillSorted' /\ CommittedIsKept'
    BY <2>1 DEF SafeInv, SpillSorted, CommittedIsKept
  <2>4. StepChain' /\ NoStepLost'
    BY <1>r, <2>1, <2>2 DEF SafeInv, StepChain, NoStepLost, FileOpen
  <2> QED
    BY <2>3, <2>4 DEF SafeInv
<1>19. CASE DecideBlock
  BY <1>19, QuietStep DEF DecideBlock, FileOpen
<1>20. CASE BlockPoll
  BY <1>20, QuietStep DEF BlockPoll, FileOpen
<1>21. CASE BlockTimeout
  BY <1>21, QuietStep DEF BlockTimeout, FileOpen
<1>22. CASE ReplayStep
  <2> DEFINE m == BuildManifest(pending)
  <2>1. PICK f \in ReplayEnds(m, physical_step), has \in ManifestFates :
          /\ file' = [file EXCEPT ![physical_step] =
                        Replayed(m, physical_step, f, has)]
          /\ phase' = IF f = Len(m) + 1 THEN "committed" ELSE "failed"
    BY <1>22 DEF ReplayStep
  <2> DEFINE g == Replayed(m, physical_step, f, has)
  <2>2. f = Len(m) + 1 => g.group /\ g.full
    BY DEF Replayed, Persists
  <2> HIDE DEF m, g
  <2>3. /\ SpilledSteps' = SpilledSteps /\ Retained' = Retained
        /\ physical_step' = physical_step /\ phase = "replay"
        /\ pending_spill' = pending_spill /\ dropped' = dropped
    BY <1>22 DEF ReplayStep, SpilledSteps, Retained
  <2>4. /\ \A n \in Steps : n # physical_step => file'[n] = file[n]
        /\ file'[physical_step] = g
    BY <1>t, <2>1 DEF g
  <2>5. SpillSorted'
    BY <2>3 DEF SafeInv, SpillSorted
  <2>6. StepChain' /\ NoStepLost'
    BY <1>r, <2>3, <2>4 DEF SafeInv, StepChain, NoStepLost, FileOpen
  <2>7. CommittedIsKept'
    BY <2>1, <2>2, <2>3, <2>4 DEF CommittedIsKept
  <2> QED
    BY <2>5, <2>6, <2>7 DEF SafeInv
<1>23. CASE CommitStep
  <2>1. /\ phase = "committed" /\ phase' = "NOT_IN_STEP"
        /\ physical_step' = physical_step + 1
        /\ SpilledSteps' = SpilledSteps /\ pending_spill' = pending_spill
        /\ dropped' = dropped
    BY <1>23 DEF CommitStep, SpilledSteps
  <2>2. \E k \in Nat :
           /\ retain_floor' = retain_floor + k
           /\ \A n \in Steps : n >= retain_floor' => file'[n] = file[n]
    <3>1. CASE retention = NoRetention
      <4>1. file' = file /\ retain_floor' = retain_floor + 0 /\ 0 \in Nat
        BY <1>23, <1>t, <3>1 DEF CommitStep, ApplyRetention
      <4> QED
        BY <4>1
    <3>2. CASE retention # NoRetention
      <4> DEFINE bytes == Append(retain_bytes, PendingBytes)
      <4>1. PICK k \in DropsFor(bytes) :
              /\ file' = Unlink(retain_floor .. retain_floor + k - 1)
              /\ retain_floor' = retain_floor + k
        BY <1>23, <3>2 DEF CommitStep, ApplyRetention
      <4>2. k \in Nat
        BY DEF DropsFor
      <4>3. \A n \in Steps : n >= retain_floor + k =>
               n \notin retain_floor .. retain_floor + k - 1
        BY <1>t, <4>2 DEF Steps
      <4> QED
        BY <4>1, <4>2, <4>3 DEF Unlink
    <3> QED
      BY <3>1, <3>2
  <2>3. PICK k \in Nat :
           /\ retain_floor' = retain_floor + k
           /\ \A n \in Steps : n >= retain_floor' => file'[n] = file[n]
    BY <2>2
  <2>4. \A n \in Retained' : n \in Retained \/ n = physical_step
    BY <1>t, <2>1, <2>3 DEF Retained
  <2>5. \A n \in Retained' : n \in Steps /\ file'[n] = file[n]
    BY <1>r, <1>t, <2>3, <2>4 DEF Retained
  <2>6. SpillSorted'
    <3>1. \A n \in SpilledSteps : n \in Int
      <4> SUFFICES ASSUME NEW i \in DOMAIN pending_spill
                   PROVE  pending_spill[i].step \in Int
        BY DEF SpilledSteps
      <4>1. pending_spill[i] \in Spilled
        BY <1>t, ElementOfSeq
      <4> QED
        BY <1>t, <4>1 DEF Spilled, Steps
    <3>2. \A n \in SpilledSteps : n <= physical_step
      BY DEF SafeInv, SpillSorted
    <3>3. \A n \in SpilledSteps' : n <= physical_step' /\ n < physical_step'
      BY <1>t, <2>1, <3>1, <3>2
    <3> QED
      BY <2>1, <3>3 DEF SafeInv, SpillSorted
  <2>7. StepChain' /\ NoStepLost'
    BY <2>1, <2>4, <2>5 DEF SafeInv, StepChain, NoStepLost, CommittedIsKept, FileOpen
  <2> QED
    BY <2>1, <2>6, <2>7 DEF SafeInv, CommittedIsKept
<1>24. CASE AbortStep
  <2>1. /\ SpilledSteps' = SpilledSteps /\ Retained' = Retained
        /\ physical_step' = physical_step /\ phase' = "NOT_IN_STEP"
        /\ phase = "failed" /\ pending_spill' = pending_spill
        /\ dropped' = dropped
    BY <1>24 DEF AbortStep, SpilledSteps, Retained
  <2>2. \A n \in Steps : n # physical_step => file'[n] = file[n]
    BY <1>24 DEF AbortStep, Unlink
  <2>3. SpillSorted' /\ CommittedIsKept'
    BY <2>1 DEF SafeInv, SpillSorted, CommittedIsKept
  <2>4. StepChain' /\ NoStepLost'
    BY <1>r, <2>1, <2>2 DEF SafeInv, StepChain, NoStepLost, FileOpen
  <2> QED
    BY <2>3, <2>4 DEF SafeInv
<1>25. CASE UNCHANGED vars
  BY <1>25, QuietStep DEF vars, FileOpen
<1> QED
  BY <1>1, <1>2, <1>3, <1>4, <1>5, <1>6, <1>7, <1>8, <1>9, <1>10, <1>11, <1>12,
     <1>13, <1>14, <1>15, <1>16, <1>17, <1>18, <1>19, <1>20, <1>21, <1>22,
     <1>23, <1>24, <1>25, <1>26 DEF Next, Application, Commit, Progress, Stopped

\* The two halves of the inductive invariant together.
LEMMA Inductive == Spec => [](TypeInv /\ SafeInv)
<1>1. Init => TypeInv /\ SafeInv
  BY TypeInit, SafeInit
<1>2. TypeInv /\ SafeInv /\ [Next]_vars => (TypeInv /\ SafeInv)'
  BY TypeStep, SafeStep
<1> QED
  BY <1>1, <1>2, PTL DEF Spec

\* Every committed step that retention has not pruned has its group, however
\* it was committed: later step numbers never dangle behind a gap.
THEOREM StepsAreContiguous == Spec => []StepChain
<1>1. SafeInv => StepChain
  BY DEF SafeInv
<1> QED
  BY <1>1, Inductive, PTL

\* While the file is open no committed step is lost between the file, BAKE
\* and the steps Discard dropped, whichever call failed on the way.
THEOREM NothingIsLost == Spec => []NoStepLost
<1>1. SafeInv => NoStepLost
  BY DEF SafeInv
<1> QED
  BY <1>1, Inductive, PTL

\* The spill queue stays in commit order, below the step being captured.
THEOREM SpillQueueIsSorted == Spec => []SpillSorted
<1>1. SafeInv => SpillSorted
  BY DEF SafeInv
<1> QED
  BY <1>1, Inductive, PTL

-----------------------------------------------------------------------------
(* A committed step is final. A step is in the file in full only once it is  *)
(* committed, and never while it still waits in BAKE, so the drain and the   *)
(* replay of a later step touch only steps that are not.                     *)

FullInv ==
    /\ \A n \in Steps : file[n].full =>
          n < physical_step \/ (n = physical_step /\ phase = "committed")
    /\ \A n \in SpilledSteps : ~file[n].full

\* The actions that change the file.
FileActions ==
    \/ DrainOne \/ DecideDiscard \/ DecideSpill \/ DecideSpillFails
    \/ ReplayStep \/ CommitStep \/ AbortStep

\* Any other step leaves the file alone, and the queue too unless it is closed.
LEMMA FileKept ==
    ASSUME [Next]_vars, ~FileActions
    PROVE  /\ UNCHANGED <<file, physical_step>>
           /\ UNCHANGED pending_spill \/ pending_spill' = <<>>
           /\ phase' = "committed" <=> phase = "committed"
BY DEF FileActions, Next, Application, EndStep, Commit, Progress, Stopped, vars, BeginStep,
       DatasetCreate, DatasetWrite, DatasetWriteStale, DatasetClose, SetQueuePolicy, SetRetention,
       FileClose, StartDrain, DrainStop, DecideReplay, DecideDiscardFails, DecideBlock, BlockPoll,
       BlockTimeout, ReaderAck, ReaderLeave, Idle

\* What one drained entry does: its step is older than the one being
\* committed, and it leaves the queue exactly when the step is full.
LEMMA DrainEffect ==
    ASSUME TypeInv, SafeInv, DrainOne
    PROVE  \E n \in SpilledSteps, done \in BOOLEAN :
             /\ n \in Steps /\ n < physical_step /\ UNCHANGED physical_step
             /\ phase = "draining" /\ phase' # "committed"
             /\ file'[n].full = done
             /\ \A k \in Steps : k # n => file'[k] = file[k]
             /\ IF done THEN SpilledSteps' \subseteq SpilledSteps \ {n}
                        ELSE SpilledSteps' = SpilledSteps
<1> DEFINE e == Head(pending_spill)
<1>t. file \in [Steps -> StepGroup] /\ pending_spill \in Seq(Spilled)
  BY DEF TypeInv, TypeOK
<1>1. pending_spill # <<>> /\ e \in Spilled /\ e = pending_spill[1] /\ 1 \in DOMAIN pending_spill
  BY <1>t, HeadTailProperties DEF DrainOne, HeadDue
<1>2. e.step \in Steps /\ e.step \in SpilledSteps
  BY <1>1 DEF Spilled, SpilledSteps
<1>3. phase = "draining" /\ e.step < physical_step /\ UNCHANGED physical_step
  BY <1>2 DEF DrainOne, SafeInv, SpillSorted
<1>4. PICK f \in ReplayEnds(e.manifest, e.step), has \in ManifestFates :
         /\ file' = [file EXCEPT ![e.step] = Replayed(e.manifest, e.step, f, has)]
         /\ pending_spill' = AfterDrain(pending_spill, f = Len(e.manifest) + 1)
         /\ phase' = IF f = Len(e.manifest) + 1 THEN "draining" ELSE "decide"
  BY DEF DrainOne
<1> DEFINE done == f = Len(e.manifest) + 1
<1>5. Replayed(e.manifest, e.step, f, has).full = done
  BY DEF Replayed
<1> HIDE DEF e
<1>6. file'[e.step].full = done /\ \A k \in Steps : k # e.step => file'[k] = file[k]
  BY <1>t, <1>2, <1>4, <1>5
<1>7. done => SpilledSteps' \subseteq SpilledSteps \ {e.step}
  <2> SUFFICES ASSUME done, NEW i \in DOMAIN pending_spill'
               PROVE  pending_spill'[i].step \in SpilledSteps /\ pending_spill'[i].step # e.step
    BY DEF SpilledSteps
  <2>1. pending_spill' = Tail(pending_spill)
    BY <1>4 DEF AfterDrain
  <2>2. i + 1 \in DOMAIN pending_spill /\ pending_spill'[i] = pending_spill[i + 1] /\ 1 < i + 1
    BY <1>t, <1>1, <2>1
  <2>3. pending_spill[1].step < pending_spill[i + 1].step
    BY <1>1, <2>2 DEF SafeInv, SpillSorted
  <2>4. e.step \in Int
    BY <1>2, ConstantsAssumption DEF Steps
  <2> QED
    BY <1>1, <2>2, <2>3, <2>4 DEF SpilledSteps
<1>8. ~done => SpilledSteps' = SpilledSteps
  BY <1>4 DEF AfterDrain, SpilledSteps
<1>9. done \in BOOLEAN /\ phase' # "committed"
  BY <1>4
<1> QED
  BY <1>2, <1>3, <1>6, <1>7, <1>8, <1>9

\* Retention only ever empties steps below the new floor.
LEMMA CommitEffect ==
    ASSUME TypeInv, CommitStep
    PROVE  /\ physical_step' = physical_step + 1 /\ phase = "committed" /\ phase' = "NOT_IN_STEP"
           /\ UNCHANGED pending_spill
           /\ \A n \in Steps : file'[n] = file[n] \/ (n < retain_floor' /\ file'[n] = NoGroup)
<1>1. retain_floor \in Nat
  BY ConstantsAssumption DEF TypeInv, TypeOK, Steps
<1>2. CASE retention = NoRetention
  BY <1>2 DEF CommitStep, ApplyRetention
<1>3. CASE retention # NoRetention
  <2> DEFINE bytes == Append(retain_bytes, PendingBytes)
  <2>1. PICK k \in DropsFor(bytes) :
          /\ file' = Unlink(retain_floor .. retain_floor + k - 1)
          /\ retain_floor' = retain_floor + k
    BY <1>3 DEF CommitStep, ApplyRetention
  <2>2. k \in Nat
    BY DEF DropsFor
  <2>3. \A n \in retain_floor .. retain_floor + k - 1 : n < retain_floor + k
    BY <1>1, <2>2
  <2> QED
    BY <2>1, <2>3 DEF CommitStep, Unlink
<1> QED
  BY <1>2, <1>3

\* A step whose group is made without its data is not full by that.
LEMMA EmptyGroupEffect ==
    ASSUME TypeInv, file' = EmptyGroup(physical_step)
    PROVE  /\ \A n \in Steps : n # physical_step => file'[n] = file[n]
           /\ file'[physical_step].full = file[physical_step].full
BY DEF TypeInv, TypeOK, EmptyGroup, StepGroup

\* FullInv is kept by every step.
LEMMA FullStep == TypeInv /\ SafeInv /\ FullInv /\ [Next]_vars => FullInv'
<1> SUFFICES ASSUME TypeInv, SafeInv, FullInv, [Next]_vars PROVE FullInv'
  OBVIOUS
<1>t. /\ physical_step \in Nat /\ physical_step \in Steps /\ Steps \subseteq Nat
      /\ file \in [Steps -> StepGroup] /\ pending_spill \in Seq(Spilled)
  BY ConstantsAssumption DEF TypeInv, TypeOK, Steps
<1>s. SpilledSteps \subseteq Steps
  <2> SUFFICES ASSUME NEW i \in DOMAIN pending_spill PROVE pending_spill[i].step \in Steps
    BY DEF SpilledSteps
  <2>1. pending_spill[i] \in Spilled
    BY <1>t, ElementOfSeq
  <2> QED
    BY <2>1 DEF Spilled
<1>1. CASE DrainOne
  BY <1>1, <1>s, <1>t, DrainEffect DEF FullInv
<1>2. CASE DecideDiscard
  <2>1. UNCHANGED <<physical_step, pending_spill>> /\ phase = "decide" /\ phase' = "committed"
        /\ file' = EmptyGroup(physical_step) /\ SpilledSteps' = SpilledSteps
    BY <1>2 DEF DecideDiscard, SpilledSteps
  <2> QED
    BY <1>s, <1>t, <2>1, EmptyGroupEffect DEF FullInv
<1>3. CASE DecideSpill
  <2>1. UNCHANGED <<physical_step>> /\ phase = "decide" /\ phase' = "committed"
        /\ file' = EmptyGroup(physical_step)
        /\ pending_spill' = Append(pending_spill, SpillEntry) /\ SpillEntry.step = physical_step
    BY <1>3 DEF DecideSpill, Enqueue, SpillEntry
  <2>2. SpilledSteps' \subseteq SpilledSteps \cup {physical_step}
    <3> DEFINE k == Len(pending_spill)
    <3>1. /\ k \in Nat /\ DOMAIN pending_spill = 1 .. k
          /\ DOMAIN pending_spill' = 1 .. k + 1
          /\ \A i \in 1 .. k : pending_spill'[i] = pending_spill[i]
          /\ pending_spill'[k + 1].step = physical_step
      BY <1>t, <2>1, AppendProperties
    <3> QED
      BY <3>1 DEF SpilledSteps
  <2>3. ~file[physical_step].full
    BY <1>t, <2>1 DEF FullInv
  <2>4. ~file'[physical_step].full /\ \A n \in Steps : n # physical_step => file'[n] = file[n]
    BY <2>1, <2>3, EmptyGroupEffect
  <2> QED
    BY <1>s, <1>t, <2>1, <2>2, <2>4 DEF FullInv
<1>4. CASE DecideSpillFails
  <2>1. UNCHANGED <<physical_step, pending_spill>> /\ phase = "decide" /\ phase' = "block"
        /\ (file' = EmptyGroup(physical_step) \/ file' = file) /\ SpilledSteps' = SpilledSteps
    BY <1>4 DEF DecideSpillFails, SpilledSteps
  <2> QED
    BY <1>s, <1>t, <2>1, EmptyGroupEffect DEF FullInv
<1>5. CASE ReplayStep
  <2> DEFINE m == BuildManifest(pending)
  <2>1. PICK f \in ReplayEnds(m, physical_step), has \in ManifestFates :
          /\ file' = [file EXCEPT ![physical_step] = Replayed(m, physical_step, f, has)]
          /\ phase' = IF f = Len(m) + 1 THEN "committed" ELSE "failed"
    BY <1>5 DEF ReplayStep
  <2>2. Replayed(m, physical_step, f, has).full = (f = Len(m) + 1)
    BY DEF Replayed
  <2>3. SpilledSteps' = SpilledSteps /\ phase = "replay" /\ UNCHANGED physical_step
    BY <1>5 DEF ReplayStep, SpilledSteps
  <2> HIDE DEF m
  <2>4. /\ \A n \in Steps : n # physical_step => file'[n] = file[n]
        /\ file'[physical_step].full => phase' = "committed"
    BY <1>t, <2>1, <2>2
  <2>5. \A n \in SpilledSteps : n # physical_step
    BY <2>3, <1>t, <1>s DEF SafeInv, SpillSorted
  <2> QED
    BY <1>s, <1>t, <2>3, <2>4, <2>5 DEF FullInv
<1>6. CASE CommitStep
  <2>1. SpilledSteps' = SpilledSteps
    BY <1>6, CommitEffect DEF SpilledSteps
  <2>2. ~NoGroup.full
    BY DEF NoGroup
  <2>3. \A n \in Steps : file'[n].full => file[n].full
    BY <1>6, <2>2, CommitEffect
  <2>4. \A n \in Steps : n <= physical_step => n < physical_step'
    BY <1>6, <1>t, CommitEffect
  <2> QED
    BY <1>s, <1>t, <2>1, <2>3, <2>4 DEF FullInv
<1>7. CASE AbortStep
  <2>1. SpilledSteps' = SpilledSteps /\ UNCHANGED physical_step /\ phase = "failed"
        /\ file' = Unlink({physical_step}) /\ ~NoGroup.full
    BY <1>7 DEF AbortStep, SpilledSteps, NoGroup
  <2>2. \A n \in Steps : file'[n].full => file[n].full
    BY <2>1 DEF Unlink
  <2> QED
    BY <1>s, <1>t, <2>1, <2>2 DEF FullInv
<1>8. CASE ~FileActions
  <2>1. SpilledSteps' \subseteq SpilledSteps
    BY <1>8, FileKept DEF SpilledSteps
  <2> QED
    BY <1>8, <2>1, FileKept DEF FullInv
<1> QED
  BY <1>1, <1>2, <1>3, <1>4, <1>5, <1>6, <1>7, <1>8 DEF FileActions

\* FullInv is an invariant, with the rest of the inductive invariant.
LEMMA FullInductive == Spec => [](TypeInv /\ SafeInv /\ FullInv)
<1>1. Init => FullInv
  BY DEF Init, FullInv, SpilledSteps, NoGroup
<1>2. TypeInv /\ SafeInv /\ FullInv /\ [Next]_vars => FullInv'
  BY FullStep
<1> QED
  BY <1>1, <1>2, Inductive, PTL DEF Spec

\* A step that is in the file in full is final: neither a later commit nor the
\* drain of the backlog changes it, except that retention may remove it.
THEOREM CommittedIsFinal == Spec => CommittedStays
<1> DEFINE Final == \A n \in Steps :
          (n < physical_step /\ file[n].full) =>
              file'[n] = file[n] \/ (n < retain_floor' /\ file'[n] = NoGroup)
<1>1. TypeInv /\ SafeInv /\ FullInv /\ [Next]_vars => Final
  <2> SUFFICES ASSUME TypeInv, SafeInv, FullInv, [Next]_vars,
                      NEW n \in Steps, n < physical_step, file[n].full
               PROVE  file'[n] = file[n] \/ (n < retain_floor' /\ file'[n] = NoGroup)
    OBVIOUS
  <2>t. n # physical_step /\ file \in [Steps -> StepGroup]
    BY ConstantsAssumption DEF TypeInv, TypeOK, Steps
  <2>1. CASE DrainOne
    BY <2>1, DrainEffect DEF FullInv
  <2>2. CASE DecideDiscard \/ DecideSpill \/ DecideSpillFails
    <3>1. file' = EmptyGroup(physical_step) \/ file' = file
      BY <2>2 DEF DecideDiscard, DecideSpill, DecideSpillFails
    <3> QED
      BY <2>t, <3>1, EmptyGroupEffect
  <2>3. CASE ReplayStep
    BY <2>3, <2>t DEF ReplayStep
  <2>4. CASE CommitStep
    BY <2>4, CommitEffect
  <2>5. CASE AbortStep
    BY <2>5, <2>t DEF AbortStep, Unlink
  <2>6. CASE ~FileActions
    BY <2>6, FileKept
  <2> QED
    BY <2>1, <2>2, <2>3, <2>4, <2>5, <2>6 DEF FileActions
<1>2. TypeInv /\ SafeInv /\ FullInv /\ [Next]_vars => [Final]_vars
  BY <1>1
<1> HIDE DEF Final
<1>3. Spec => [][Final]_vars
  BY <1>2, FullInductive, PTL DEF Spec
<1> QED
  BY <1>3 DEF CommittedStays, Final

-----------------------------------------------------------------------------
(* Placeholder handles. A step that commits leaves none behind: the replay   *)
(* reached every entry, and no policy acts on a step with an open one.       *)

HandleInv ==
    phase = "committed" => \A p \in Paths : ~(handle[p].state = "placeholder" /\ OwnsEntry(p))

\* A handle keeps its entry while the entry stays where it is.
LEMMA OwnsKept ==
    ASSUME NEW p \in Paths, OwnsEntry(p), handle'[p] = handle[p],
           handle[p].index \in DOMAIN pending',
           pending'[handle[p].index] = pending[handle[p].index]
    PROVE  OwnsEntry(p)'
BY DEF OwnsEntry, Creates

\* A handle that owns an entry makes the step one that may not wait.
LEMMA OwnerIsOpen ==
    ASSUME NEW p \in Paths, OwnsEntry(p)
    PROVE  OpenPlaceholder
BY DEF OwnsEntry, OpenPlaceholder

\* Every step keeps HandleInv.
LEMMA HandleStep == TypeInv /\ HandleInv /\ [Next]_vars => HandleInv'
<1> SUFFICES ASSUME TypeInv, HandleInv, [Next]_vars, phase' = "committed"
             PROVE  \A p \in Paths : ~(handle[p].state = "placeholder" /\ OwnsEntry(p))'
  BY DEF HandleInv
<1>1. CASE ReplayStep
  <2> DEFINE m == BuildManifest(pending)
  <2>1. PICK f \in ReplayEnds(m, physical_step) :
          /\ handle' = Wired(f)
          /\ phase' = IF f = Len(m) + 1 THEN "committed" ELSE "failed"
    BY <1>1 DEF ReplayStep
  <2>2. f = Len(m) + 1
    BY <2>1
  <2>3. pending \in Seq(Entry)
    BY DEF TypeInv, TypeOK
  <2>4. Len(m) = Len(pending)
    <3>1. m \in Seq(Record) /\ DOMAIN m = DOMAIN pending
      BY <2>3, ManifestType DEF BuildManifest, TypeInv, TypeOK
    <3> QED
      BY <2>3, <3>1
  <2> HIDE DEF m
  <2> TAKE p \in Paths
  <2>5. pending' = pending
    BY <1>1 DEF ReplayStep
  <2>6. CASE handle[p].state = "placeholder" /\ OwnsEntry(p)
    <3>1. handle[p].index < f
      BY <2>2, <2>3, <2>4, <2>6 DEF OwnsEntry
    <3>2. handle'[p].state = "live"
      BY <2>1, <2>6, <3>1 DEF Wired
    <3> QED
      BY <3>2
  <2>7. CASE ~(handle[p].state = "placeholder" /\ OwnsEntry(p))
    <3>1. handle'[p] = handle[p]
      BY <2>1, <2>7 DEF Wired
    <3> QED
      BY <2>5, <2>7, <3>1 DEF OwnsEntry, Creates
  <2> QED
    BY <2>6, <2>7
<1>2. CASE DecideDiscard \/ DecideSpill
  <2>1. ~OpenPlaceholder /\ UNCHANGED <<pending, handle>>
    BY <1>2 DEF DecideDiscard, DecideSpill, PolicyActs, captureVars
  <2> QED
    BY <2>1, OwnerIsOpen DEF OwnsEntry, Creates
<1>3. CASE ~ReplayStep /\ ~DecideDiscard /\ ~DecideSpill
  <2>1. phase = "committed" /\ UNCHANGED <<pending, handle>>
    BY <1>3 DEF Next, Application, EndStep, Commit, Progress, Stopped, vars, captureVars, BeginStep,
       DatasetCreate, DatasetWrite, DatasetWriteStale, DatasetClose, SetQueuePolicy, SetRetention,
       FileClose, StartDrain, DrainOne, DrainStop, DecideReplay, DecideDiscardFails, DecideBlock,
       DecideSpillFails, BlockPoll, BlockTimeout, CommitStep, AbortStep, ReaderAck, ReaderLeave, Idle
  <2> QED
    BY <2>1 DEF HandleInv, OwnsEntry, Creates
<1> QED
  BY <1>1, <1>2, <1>3

\* A placeholder keeps the entry it owns unless its step fails or the file
\* is closed under it.
LEMMA OwnerKept ==
    ASSUME TypeInv, HandleInv, [Next]_vars, NEW p \in Paths,
           handle[p].state = "placeholder", OwnsEntry(p),
           handle'[p].state = "placeholder", phase # "failed", FileOpen'
    PROVE  OwnsEntry(p)'
<1>t. pending \in Seq(Entry) /\ handle \in [Paths -> Handle]
  BY DEF TypeInv, TypeOK
<1>i. handle[p].index \in DOMAIN pending /\ handle[p].index \in 1 .. Len(pending)
  BY <1>t DEF OwnsEntry
<1>a. \A es \in Seq(Entry), e \in Entry : handle[p].index \in DOMAIN es =>
        /\ Append(es, e) \in Seq(Entry) /\ handle[p].index \in DOMAIN Append(es, e)
        /\ Append(es, e)[handle[p].index] = es[handle[p].index]
  BY AppendProperties
<1>e. \A kind \in EntryKinds, q \in Paths, t \in Types, o \in BOOLEAN : NewEntry(kind, q, t, o) \in Entry
  BY DEF NewEntry, Entry
<1>k. "create" \in EntryKinds /\ "write" \in EntryKinds
  BY DEF EntryKinds
<1>f. \A q \in Paths, t \in Types :
        /\ NewEntry("create", q, t, TRUE) \in Entry /\ NewEntry("create", q, t, FALSE) \in Entry
        /\ NewEntry("write", q, t, FALSE) \in Entry
  BY <1>e, <1>k
<1>u. UNCHANGED <<pending, handle>> => OwnsEntry(p)'
  BY DEF OwnsEntry, Creates
<1>1. ASSUME NEW q \in Paths, NEW t \in Types, DatasetCreate(q, t) PROVE OwnsEntry(p)'
  <2>1. q # p /\ handle'[p] = handle[p] /\ pending' = Append(pending, NewEntry("create", q, t, TRUE))
    BY <1>1, <1>t DEF DatasetCreate
  <2> QED
    BY <2>1, <1>a, <1>f, <1>i, <1>t, OwnsKept
<1>2. ASSUME NEW q \in Paths, NEW t \in Types, DatasetWrite(q, t) PROVE OwnsEntry(p)'
  <2> DEFINE es == WithCreate(q, t)
  <2>1. es \in Seq(Entry) /\ handle[p].index \in DOMAIN es
        /\ es[handle[p].index] = pending[handle[p].index]
    <3> DEFINE e == NewEntry("create", q, t, FALSE)
    <3>1. es = pending \/ es = Append(pending, e)
      BY DEF WithCreate
    <3>2. e \in Entry
      BY <1>f
    <3> HIDE DEF e, es
    <3>3. CASE es = pending
      BY <3>3, <1>i, <1>t
    <3>4. CASE es = Append(pending, e)
      BY <3>2, <3>4, <1>a, <1>i, <1>t
    <3> QED
      BY <3>1, <3>3, <3>4
  <2>2. UNCHANGED handle /\ (pending' = es \/ pending' = Append(es, NewEntry("write", q, t, FALSE)))
    BY <1>2 DEF DatasetWrite
  <2> HIDE DEF es
  <2>3. handle[p].index \in DOMAIN pending' /\ pending'[handle[p].index] = pending[handle[p].index]
    <3> DEFINE e == NewEntry("write", q, t, FALSE)
    <3>1. e \in Entry /\ (pending' = es \/ pending' = Append(es, e))
      BY <1>f, <2>2
    <3> HIDE DEF e
    <3>2. CASE pending' = es
      BY <2>1, <3>2
    <3>3. CASE pending' = Append(es, e)
      BY <2>1, <3>1, <3>3, <1>a
    <3> QED
      BY <3>1, <3>2, <3>3
  <2> QED
    BY <2>2, <2>3, OwnsKept
<1>3. ASSUME NEW q \in Paths, NEW t \in Types, DatasetWriteStale(q, t) PROVE OwnsEntry(p)'
  <2>1. UNCHANGED handle /\ (UNCHANGED pending \/ pending' = Append(pending, NewEntry("write", q, t, FALSE)))
    BY <1>3 DEF DatasetWriteStale
  <2> QED
    BY <2>1, <1>a, <1>f, <1>i, <1>t, OwnsKept
<1>4. ASSUME NEW q \in Paths, DatasetClose(q) PROVE OwnsEntry(p)'
  <2>1. q # p /\ handle'[p] = handle[p]
    BY <1>4, <1>t DEF DatasetClose, Closed
  <2>2. CASE handle[q].state = "placeholder" /\ OwnsEntry(q)
    <3>1. handle[q].index # handle[p].index
      BY <2>1, <2>2 DEF OwnsEntry, Creates
    <3>2. pending' = [pending EXCEPT ![handle[q].index].owner = FALSE]
      BY <1>4, <2>2 DEF DatasetClose
    <3>3. handle[p].index \in DOMAIN pending' /\ pending'[handle[p].index] = pending[handle[p].index]
      BY <3>1, <3>2, <1>t, <1>i
    <3> QED
      BY <2>1, <3>3, OwnsKept
  <2>3. CASE ~(handle[q].state = "placeholder" /\ OwnsEntry(q))
    <3>1. pending' = pending
      BY <1>4, <2>3 DEF DatasetClose
    <3> QED
      BY <2>1, <3>1, <1>i, OwnsKept
  <2> QED
    BY <2>2, <2>3
<1>5. CASE ReplayStep
  <2>1. UNCHANGED pending /\ \E f \in ReplayEnds(BuildManifest(pending), physical_step) : handle' = Wired(f)
    BY <1>5 DEF ReplayStep
  <2>2. handle'[p] = handle[p]
    BY <2>1 DEF Wired
  <2> QED
    BY <2>1, <2>2, <1>i, OwnsKept
<1>6. CASE CommitStep
  BY <1>6 DEF CommitStep, HandleInv
<1>7. CASE /\ ~CommitStep /\ ~ReplayStep
           /\ ~(\E q \in Paths : DatasetClose(q))
           /\ ~(\E q \in Paths, t \in Types : DatasetCreate(q, t) \/ DatasetWrite(q, t) \/ DatasetWriteStale(q, t))
  <2>1. UNCHANGED <<pending, handle>>
    BY <1>7 DEF Next, Application, EndStep, Commit, Progress, Stopped, vars, captureVars, BeginStep,
       SetQueuePolicy, SetRetention, FileOpen,
       FileClose, StartDrain, DrainOne, DrainStop, DecideReplay, DecideDiscard, DecideDiscardFails,
       DecideBlock, DecideSpill, DecideSpillFails, BlockPoll, BlockTimeout, AbortStep, ReaderAck,
       ReaderLeave, Idle
  <2> QED
    BY <2>1, <1>u
<1> QED
  BY <1>1, <1>2, <1>3, <1>4, <1>5, <1>6, <1>7

\* While the file stays open, only the abort of a failed step takes from a
\* placeholder the entry that its H5Dcreate captured.
THEOREM PlaceholdersAreResolved == Spec => PlaceholdersResolve
<1> DEFINE Kept == \A p \in Paths :
         /\ handle[p].state = "placeholder" /\ OwnsEntry(p)
         /\ handle'[p].state = "placeholder" /\ ~OwnsEntry(p)'
         => phase = "failed" \/ ~FileOpen'
<1>1. TypeInv /\ HandleInv /\ [Next]_vars => Kept
  BY OwnerKept
<1>2. TypeInv /\ HandleInv /\ [Next]_vars => [Kept]_vars
  BY <1>1
<1>3. Init => HandleInv
  BY DEF Init, HandleInv
<1>4. TypeInv /\ HandleInv /\ [Next]_vars => HandleInv'
  BY HandleStep
<1> HIDE DEF Kept
<1>5. Spec => [](TypeInv /\ HandleInv)
  BY <1>3, <1>4, Inductive, PTL DEF Spec
<1>6. Spec => [][Kept]_vars
  BY <1>2, <1>5, PTL DEF Spec
<1> QED
  BY <1>6 DEF PlaceholdersResolve, Kept

-----------------------------------------------------------------------------
(* Lag.                                                                    *)

\* The lag view is the smallest acknowledgement, when any reader is tracked.
LEMMA LagViewMin ==
    ASSUME TypeInv, NEW r \in Tracked
    PROVE  \E m \in LagView : m \in Nat /\ m <= lag_table[r]
<1> DEFINE S == {lag_table[q] : q \in Tracked}
<1>1. lag_table \in [Readers -> Steps \cup {NoAck}] /\ present \subseteq Readers /\ Steps \subseteq Nat
  BY ConstantsAssumption DEF TypeInv, TypeOK, Steps
<1>2. \A q \in Tracked : lag_table[q] \in Nat
  BY <1>1 DEF Tracked
<1>3. S \subseteq Nat /\ lag_table[r] \in S
  BY <1>2
<1> HIDE DEF S
<1>4. PICK m \in S : \A y \in S : m <= y
  BY <1>3, NatMinimum
<1>5. m \in LagView
  BY <1>4 DEF S, LagView
<1> QED
  BY <1>3, <1>4, <1>5

\* The 64-bit sum may be too small, never too large.
LEMMA InWindowSound ==
    ASSUME NEW step \in Nat, NEW m \in Nat, reserve_slots \in Nat, InWindow(step, m)
    PROVE  step <= m + reserve_slots
<1>1. Word \in Nat \ {0}
  BY ConstantsAssumption
<1>2. \A a \in Nat : a % Word <= a
  BY <1>1
<1>3. step <= (m + reserve_slots) % Word
  BY DEF InWindow
<1>4. (m + reserve_slots) % Word <= m + reserve_slots
  BY <1>2
<1>5. (m + reserve_slots) % Word \in Nat
  BY <1>1
<1> QED
  BY <1>3, <1>4, <1>5

\* Without pressure, every tracked reader is within the window.
LEMMA NoPressure ==
    ASSUME TypeInv, ~Pressure, NEW r \in Tracked
    PROVE  physical_step <= lag_table[r] + reserve_slots
<1>1. /\ physical_step \in Nat /\ reserve_slots \in Nat /\ lag_table[r] \in Int
  BY ConstantsAssumption DEF TypeInv, TypeOK, Steps, Tracked, NoAck
<1>2. PICK m \in LagView : m \in Nat /\ m <= lag_table[r]
  BY LagViewMin
<1>3. physical_step <= m + reserve_slots
  BY <1>1, <1>2, InWindowSound DEF Pressure
<1> QED
  BY <1>1, <1>2, <1>3

\* BlockHonoured is kept: acknowledgements only grow, readers only leave, and
\* neither the policy nor the step's entries change inside end_step.
LEMMA BlockStep == TypeInv /\ BlockHonoured /\ [Next]_vars => BlockHonoured'
<1> SUFFICES ASSUME TypeInv, BlockHonoured, [Next]_vars, phase' = "replay", queue_policy' = "Block",
                    ~OpenPlaceholder', polls' < MaxPolls, NEW r \in seen' \cap present'
             PROVE  physical_step' <= lag_table'[r] + reserve_slots'
  BY DEF BlockHonoured
<1>t. /\ physical_step \in Nat /\ reserve_slots \in Nat /\ seen \subseteq Readers
      /\ lag_table \in [Readers -> Int] /\ present \subseteq Readers
  BY ConstantsAssumption DEF TypeInv, TypeOK, Steps, NoAck
<1>1. CASE DecideReplay
  <2>1. ~Pressure /\ UNCHANGED <<physical_step, lag_table, reserve_slots, present>> /\ seen' = Tracked
    BY <1>1 DEF DecideReplay, PolicyActs, OpenPlaceholder, captureVars, lagVars, policyVars
  <2> QED
    BY <2>1, NoPressure
<1>2. CASE BlockPoll
  <2>1. ~Pressure /\ UNCHANGED <<physical_step, lag_table, reserve_slots, present>> /\ seen' = Tracked
    BY <1>2 DEF BlockPoll, lagVars, policyVars
  <2> QED
    BY <2>1, NoPressure
<1>3. CASE ~DecideReplay /\ ~BlockPoll
  <2>0. ~EndStep /\ ~BlockTimeout
    <3>1. MaxPolls \in Nat
      BY ConstantsAssumption
    <3>2. ~EndStep
      BY DEF EndStep, policyVars
    <3>3. ~BlockTimeout
      BY <3>1 DEF BlockTimeout, viewVars
    <3> QED
      BY <3>2, <3>3
  <2>1. /\ phase = "replay" /\ UNCHANGED <<physical_step, queue_policy, reserve_slots, pending, polls, seen>>
        /\ present' \subseteq present
        /\ UNCHANGED lag_table \/ \E q \in Readers, step \in Steps : ReaderAck(q, step)
    BY <1>3, <2>0 DEF Next, Application, Commit, Progress, Stopped, vars, captureVars, BeginStep,
       DatasetCreate, DatasetWrite, DatasetWriteStale, DatasetClose, SetQueuePolicy, SetRetention,
       FileClose, StartDrain, DrainOne, DrainStop, DecideDiscard, DecideDiscardFails, DecideBlock,
       DecideSpill, DecideSpillFails, ReplayStep, CommitStep, AbortStep, ReaderAck,
       ReaderLeave, Idle, lagVars, policyVars, viewVars
  <2>2. physical_step <= lag_table[r] + reserve_slots
    BY <2>1 DEF BlockHonoured, OpenPlaceholder
  <2>3. lag_table[r] <= lag_table'[r] /\ lag_table'[r] \in Int /\ lag_table[r] \in Int
    <3>1. CASE UNCHANGED lag_table
      BY <1>t, <3>1, <2>1
    <3>2. ASSUME NEW q \in Readers, NEW step \in Steps, ReaderAck(q, step)
          PROVE  lag_table[r] <= lag_table'[r] /\ lag_table'[r] \in Int /\ lag_table[r] \in Int
      <4>1. step \in Int /\ r \in Readers
        BY <1>t, <2>1, ConstantsAssumption DEF Steps
      <4>2. lag_table' = [lag_table EXCEPT ![q] = NewLag(q, step)]
        BY <3>2 DEF ReaderAck
      <4> QED
        BY <1>t, <4>1, <4>2 DEF NewLag
    <3> QED
      BY <3>1, <3>2, <2>1
  <2> QED
    BY <1>t, <2>1, <2>2, <2>3
<1> QED
  BY <1>1, <1>2, <1>3

\* Under Block a step is replayed only once every reader that the last look
\* tracked is within the window, unless patience ran out or a handle is open,
\* for any number of readers and in 64-bit arithmetic.
THEOREM BlockWaits == Spec => []BlockHonoured
<1>1. Init => BlockHonoured
  BY DEF Init, BlockHonoured
<1>2. TypeInv /\ BlockHonoured /\ [Next]_vars => BlockHonoured'
  BY BlockStep
<1> QED
  BY <1>1, <1>2, Inductive, PTL DEF Spec

\* What a lag view and a policy call can hold, in a word wide enough for the
\* sum that InWindow takes.
WideWord == \A k \in Reserves \cup {0} : MaxSteps + k < Word

\* The reserve in force is one that the application asked for, or none.
LEMMA ReserveKnown == Spec => [](reserve_slots \in Reserves \cup {0})
<1>1. Init => reserve_slots \in Reserves \cup {0}
  BY DEF Init
<1>2. reserve_slots \in Reserves \cup {0} /\ [Next]_vars => (reserve_slots \in Reserves \cup {0})'
  BY DEF Next, Application, EndStep, Commit, Progress, Stopped, vars, policyVars, BeginStep,
       DatasetCreate, DatasetWrite, DatasetWriteStale, DatasetClose, SetQueuePolicy, SetRetention,
       FileClose, StartDrain, DrainOne, DrainStop, DecideReplay, DecideDiscard, DecideDiscardFails,
       DecideBlock, DecideSpill, DecideSpillFails, BlockPoll, BlockTimeout, ReplayStep, CommitStep,
       AbortStep, ReaderAck, ReaderLeave
<1> QED
  BY <1>1, <1>2, PTL DEF Spec

\* Discard drops a step only while some tracked reader is more than
\* reserve_slots behind it, as long as the reserve is not so large that the
\* 64-bit sum wraps.
THEOREM DiscardDropsLaggards == ASSUME WideWord PROVE Spec => DropsOnlyLaggards
<1> DEFINE Lags == dropped' # dropped => \E r \in Tracked : physical_step > lag_table[r] + reserve_slots
<1>1. ASSUME TypeInv, reserve_slots \in Reserves \cup {0}, [Next]_vars, dropped' # dropped
      PROVE  \E r \in Tracked : physical_step > lag_table[r] + reserve_slots
  <2>1. DecideDiscard
    BY <1>1 DEF Next, Application, EndStep, Commit, Progress, Stopped, vars, BeginStep,
       DatasetCreate, DatasetWrite, DatasetWriteStale, DatasetClose, SetQueuePolicy, SetRetention,
       FileClose, StartDrain, DrainOne, DrainStop, DecideReplay, DecideDiscardFails,
       DecideBlock, DecideSpill, DecideSpillFails, BlockPoll, BlockTimeout, ReplayStep, CommitStep,
       AbortStep, ReaderAck, ReaderLeave
  <2>2. PICK m \in LagView : ~InWindow(physical_step, m)
    BY <2>1 DEF DecideDiscard, PolicyActs, Pressure
  <2>3. PICK r \in Tracked : m = lag_table[r]
    BY <2>2 DEF LagView
  <2>4. m \in Nat /\ m <= MaxSteps /\ MaxSteps \in Nat /\ physical_step \in Nat /\ Word \in Nat
        /\ reserve_slots \in Nat
    BY <1>1, <2>3, ConstantsAssumption DEF TypeInv, TypeOK, Steps, Tracked
  <2>5. m + reserve_slots < Word /\ m + reserve_slots \in Nat
    BY <1>1, <2>4 DEF WideWord
  <2>6. (m + reserve_slots) % Word = m + reserve_slots
    BY <2>4, <2>5
  <2>7. physical_step > m + reserve_slots
    BY <2>2, <2>4, <2>5, <2>6 DEF InWindow
  <2> QED
    BY <2>3, <2>7
<1>2. TypeInv /\ reserve_slots \in Reserves \cup {0} /\ [Next]_vars => [Lags]_vars
  BY <1>1
<1> HIDE DEF Lags
<1>3. Spec => [][Lags]_vars
  BY <1>2, Inductive, ReserveKnown, PTL DEF Spec
<1> QED
  BY <1>3 DEF DropsOnlyLaggards, Lags

-----------------------------------------------------------------------------
(* Without BAKE. A step is then replayed, dropped or failed when it ends, so *)
(* the file holds exactly the retained steps and the index grows in order.   *)

NoSpill == ~HaveBake \/ "Spill" \notin Policies

\* Nothing is ever spilled, and a group exists only from the floor up.
GroupInv ==
    /\ pending_spill = <<>>
    /\ \A n \in Steps : file[n].group => retain_floor <= n /\ n <= physical_step

\* The queue is empty, so nothing is drained, and no step can be spilled.
LEMMA NeverSpills ==
    ASSUME NoSpill, TypeInv, GroupInv
    PROVE  ~DrainOne /\ ~DecideSpill /\ ~DecideSpillFails
BY DEF NoSpill, TypeInv, TypeOK, GroupInv, DrainOne, HeadDue, DecideSpill, DecideSpillFails

\* Retention in full: what a commit empties, and what the floor becomes.
LEMMA RetentionEffect ==
    ASSUME TypeInv, CommitStep, retention # NoRetention
    PROVE  \E k \in Nat :
             /\ retain_floor' = retain_floor + k /\ k <= Len(retain_bytes)
             /\ retention' = retention
             /\ retention[1] > 0 => Len(retain_bytes) + 1 - k <= retention[1]
             /\ \A n \in Steps : file'[n] = IF retain_floor <= n /\ n < retain_floor + k
                                            THEN NoGroup ELSE file[n]
<1> DEFINE bytes == Append(retain_bytes, PendingBytes)
<1>t. retain_floor \in Nat /\ retain_bytes \in Seq(Nat) /\ pending \in Seq(Entry) /\ Steps \subseteq Int
      /\ Len(retain_bytes) \in Nat
  BY ConstantsAssumption DEF TypeInv, TypeOK, Steps
<1>r. retention \in Nat \X Nat
  BY ConstantsAssumption DEF TypeInv, TypeOK
<1>0. Len(bytes) = Len(retain_bytes) + 1
  BY <1>t, PendingBytesType
<1>1. PICK k \in DropsFor(bytes) :
          /\ file' = Unlink(retain_floor .. retain_floor + k - 1)
          /\ retain_floor' = retain_floor + k
          /\ retention' = retention
  BY DEF CommitStep, ApplyRetention
<1> HIDE DEF bytes
<1>2. k \in 0 .. Len(bytes) - 1 /\ Fits(bytes, k)
  BY DEF DropsFor
<1>3. k \in Nat /\ k <= Len(retain_bytes)
  BY <1>0, <1>2, <1>t
<1>4. retention[1] > 0 => Len(retain_bytes) + 1 - k <= retention[1]
  <2>1. retention[1] \in Nat
    BY <1>r
  <2>2. k = Len(bytes) - 1 \/ retention[1] = 0 \/ Len(bytes) - k <= retention[1]
    BY <1>2 DEF Fits
  <2> QED
    BY <2>1, <2>2, <1>0, <1>3, <1>t
<1>5. \A n \in Steps : file'[n] = IF retain_floor <= n /\ n < retain_floor + k THEN NoGroup ELSE file[n]
  BY <1>1, <1>3, <1>t DEF Unlink
<1> QED
  BY <1>1, <1>3, <1>4, <1>5

\* Every step keeps GroupInv.
LEMMA GroupStep == ASSUME NoSpill PROVE TypeInv /\ GroupInv /\ [Next]_vars => GroupInv'
<1> SUFFICES ASSUME TypeInv, GroupInv, [Next]_vars PROVE GroupInv'
  OBVIOUS
<1>t. /\ physical_step \in Nat /\ physical_step \in Steps /\ Steps \subseteq Nat
      /\ file \in [Steps -> StepGroup] /\ retain_floor \in Nat /\ retain_floor <= physical_step
  <2>1. retain_bytes \in Seq(Nat)
    BY DEF TypeInv, TypeOK
  <2>2. Len(retain_bytes) \in Nat
    BY <2>1
  <2>3. physical_step \in Nat /\ physical_step \in Steps /\ Steps \subseteq Nat
        /\ file \in [Steps -> StepGroup] /\ retain_floor \in Nat
    BY ConstantsAssumption DEF TypeInv, TypeOK, Steps
  <2>4. retain_floor <= physical_step
    BY <2>2, <2>3 DEF TypeInv, RetentionAccounts
  <2> QED
    BY <2>3, <2>4
<1>1. CASE DecideDiscard
  <2>1. UNCHANGED <<physical_step, pending_spill, retain_floor>>
        /\ \A n \in Steps : n # physical_step => file'[n] = file[n]
    BY <1>1, EmptyGroupEffect DEF DecideDiscard, retainVars
  <2> QED
    BY <2>1, <1>t DEF GroupInv
<1>2. CASE ReplayStep
  <2>1. UNCHANGED <<physical_step, pending_spill, retain_floor>>
        /\ \A n \in Steps : n # physical_step => file'[n] = file[n]
    BY <1>2, <1>t DEF ReplayStep, retainVars
  <2> QED
    BY <2>1, <1>t DEF GroupInv
<1>3. CASE CommitStep
  <2>1. physical_step' = physical_step + 1 /\ UNCHANGED pending_spill
    BY <1>3 DEF CommitStep
  <2>2. CASE retention = NoRetention
    BY <1>3, <1>t, <2>1, <2>2 DEF CommitStep, ApplyRetention, GroupInv, retainVars
  <2>3. CASE retention # NoRetention
    <3>1. PICK k \in Nat :
             /\ retain_floor' = retain_floor + k
             /\ \A n \in Steps : file'[n] = IF retain_floor <= n /\ n < retain_floor + k
                                            THEN NoGroup ELSE file[n]
      BY <1>3, <2>3, RetentionEffect
    <3>2. ~NoGroup.group
      BY DEF NoGroup
    <3> QED
      BY <1>t, <2>1, <3>1, <3>2 DEF GroupInv
  <2> QED
    BY <2>2, <2>3
<1>4. CASE AbortStep
  <2>1. UNCHANGED <<physical_step, pending_spill, retain_floor>> /\ ~NoGroup.group
        /\ \A n \in Steps : file'[n] = file[n] \/ file'[n] = NoGroup
    BY <1>4 DEF AbortStep, Unlink, retainVars, NoGroup
  <2> QED
    BY <2>1 DEF GroupInv
<1>5. CASE ~FileActions
  <2>1. UNCHANGED retain_floor
    BY <1>5 DEF FileActions, Next, Application, EndStep, Commit, Progress, Stopped, vars, BeginStep,
       DatasetCreate, DatasetWrite, DatasetWriteStale, DatasetClose, SetQueuePolicy, SetRetention,
       FileClose, StartDrain, DrainStop, DecideReplay, DecideDiscardFails, DecideBlock, BlockPoll,
       BlockTimeout, ReaderAck, ReaderLeave, retainVars, TypeInv, RetentionAccounts
  <2> QED
    BY <1>5, <2>1, FileKept DEF GroupInv
<1> QED
  BY <1>1, <1>2, <1>3, <1>4, <1>5, NeverSpills DEF FileActions

\* GroupInv is an invariant of a writer that cannot spill.
LEMMA GroupInductive == ASSUME NoSpill PROVE Spec => [](TypeInv /\ GroupInv)
<1>1. Init => GroupInv
  BY DEF Init, GroupInv, NoGroup
<1>2. TypeInv /\ GroupInv /\ [Next]_vars => GroupInv'
  BY GroupStep
<1> QED
  BY <1>1, <1>2, Inductive, PTL DEF Spec

\* Without BAKE, the file holds at most max_steps steps after every commit.
THEOREM RetentionHolds == ASSUME NoSpill PROVE Spec => RetentionBound
<1> DEFINE There == {n \in Steps : file'[n].group}
<1>1. ASSUME TypeInv, GroupInv, [Next]_vars, phase = "committed", phase' = "NOT_IN_STEP",
             retention # NoRetention, retention[1] > 0
      PROVE  Cardinality(There) <= retention[1]
  <2>t. /\ physical_step \in Nat /\ Steps \subseteq Nat /\ retain_floor \in Nat
        /\ retain_bytes \in Seq(Nat) /\ retention \in Nat \X Nat
    BY <1>1, ConstantsAssumption DEF TypeInv, TypeOK, Steps
  <2>l. Len(retain_bytes) \in Nat /\ retention[1] \in Nat
    BY <2>t
  <2>1. CommitStep
    BY <1>1 DEF Next, Application, EndStep, Commit, Progress, Stopped, vars, BeginStep,
       DatasetCreate, DatasetWrite, DatasetWriteStale, DatasetClose, SetQueuePolicy, SetRetention,
       FileClose, StartDrain, DrainOne, DrainStop, DecideReplay, DecideDiscard, DecideDiscardFails,
       DecideBlock, DecideSpill, DecideSpillFails, BlockPoll, BlockTimeout, ReplayStep,
       AbortStep, ReaderAck, ReaderLeave, Idle
  <2>2. PICK k \in Nat :
             /\ k <= Len(retain_bytes)
             /\ Len(retain_bytes) + 1 - k <= retention[1]
             /\ \A n \in Steps : file'[n] = IF retain_floor <= n /\ n < retain_floor + k
                                            THEN NoGroup ELSE file[n]
    BY <1>1, <2>1, RetentionEffect
  <2>3. retain_floor + Len(retain_bytes) = physical_step
    BY <1>1 DEF TypeInv, RetentionAccounts
  <2>4. There \subseteq retain_floor + k .. physical_step
    <3>1. ~NoGroup.group
      BY DEF NoGroup
    <3>2. ASSUME NEW n \in Steps, file'[n].group PROVE n \in retain_floor + k .. physical_step
      <4>1. n \in Nat /\ retain_floor + k \in Nat
        BY <2>t
      <4>2. ~(retain_floor <= n /\ n < retain_floor + k)
        BY <2>2, <3>1, <3>2
      <4>3. file[n].group
        BY <2>2, <4>2, <3>2
      <4>4. retain_floor <= n /\ n <= physical_step
        BY <1>1, <4>3, <2>t DEF GroupInv
      <4> QED
        BY <4>1, <4>2, <4>4, <2>t
    <3> QED
      BY <3>2
  <2> HIDE DEF There
  <2>5. IsFiniteSet(retain_floor + k .. physical_step)
        /\ Cardinality(retain_floor + k .. physical_step) = physical_step - (retain_floor + k) + 1
    <3>1. retain_floor + k \in Int /\ physical_step \in Int /\ retain_floor + k <= physical_step
      BY <2>t, <2>l, <2>2, <2>3
    <3> QED
      BY <3>1, FS_Interval
  <2>6. Cardinality(There) <= physical_step - (retain_floor + k) + 1
    BY <2>4, <2>5, FS_Subset
  <2>7. Cardinality(There) \in Nat
    BY <2>4, <2>5, FS_Subset, FS_CardinalityType
  <2> QED
    BY <2>t, <2>l, <2>2, <2>3, <2>6, <2>7
<1>2. TypeInv /\ GroupInv /\ [Next]_vars =>
        [(phase = "committed" /\ phase' = "NOT_IN_STEP"
            /\ retention # NoRetention /\ retention[1] > 0) =>
               Cardinality({n \in Steps : file'[n].group}) <= retention[1]]_vars
  BY <1>1
<1> QED
  BY <1>2, GroupInductive, PTL DEF Spec, RetentionBound


-----------------------------------------------------------------------------
(* The path index, for a writer that does not spill. The lists are sorted   *)
(* because steps are numbered in commit order, which is what lets the abort *)
(* undo a failed step by stripping the end of each list.                    *)

\* What the list s of a path says of step n, and what order it is in.
Indexed(s, n) == \E i \in DOMAIN s : s[i] = n
Ordered(s)    == \A i, j \in DOMAIN s : i < j => s[i] <= s[j]

\* The steps a list names are numbers.
LEMMA StepsEntry ==
    ASSUME NEW s \in Seq(Steps), NEW i \in DOMAIN s PROVE s[i] \in Steps /\ s[i] \in Int
<1>1. i \in 1 .. Len(s)
  BY LenProperties
<1>2. s[i] \in Steps
  BY <1>1, ElementOfSeq
<1> QED
  BY <1>2, ConstantsAssumption DEF Steps

\* path_index_drop_step takes the newest step out of a sorted list, whole,
\* and nothing else.
LEMMA DropStepFact ==
    ASSUME NEW s \in Seq(Steps), NEW n \in Steps, Ordered(s),
           \A i \in DOMAIN s : s[i] <= n
    PROVE  /\ Ordered(DropStep(s, n))
           /\ \A i \in DOMAIN DropStep(s, n) : DropStep(s, n)[i] < n
           /\ \A v \in Steps : v < n => (Indexed(DropStep(s, n), v) <=> Indexed(s, v))
<1> DEFINE S == {0} \cup {i \in DOMAIN s : s[i] # n}
           k == Max(S)
           d == SubSeq(s, 1, k)
<1>n. Steps \subseteq Int /\ n \in Int
  BY ConstantsAssumption DEF Steps
<1>1. S \subseteq 0 .. Len(s) /\ S # {} /\ Len(s) \in Nat /\ DOMAIN s = 1 .. Len(s)
  BY LenProperties
<1> HIDE DEF S
<1>2. k \in S /\ \A y \in S : y <= k
  BY <1>1, MaxBounded
<1>3. k \in 0 .. Len(s)
  BY <1>1, <1>2
<1> HIDE DEF k
<1>4. DOMAIN d = 1 .. k /\ \A i \in 1 .. k : i \in DOMAIN s /\ d[i] = s[i]
  BY <1>1, <1>3, SubSeqProperties
<1>5. DropStep(s, n) = d
  BY DEF DropStep, S, k
<1> HIDE DEF d
<1>6. \A i \in DOMAIN s : s[i] \in Int
  BY <1>n, <1>1, ElementOfSeq
<1>7. Ordered(d)
  BY <1>4 DEF Ordered
<1>8. \A i \in DOMAIN d : d[i] < n
  <2> SUFFICES ASSUME NEW i \in 1 .. k PROVE s[i] < n
    BY <1>4
  <2>1. k \in DOMAIN s /\ s[k] # n
    BY <1>2, <1>3 DEF S
  <2>2. s[k] \in Int /\ s[i] \in Int /\ s[k] <= n
    BY <1>4, <1>6, <2>1
  <2>3. s[i] <= s[k]
    <3>1. CASE i = k
      BY <2>2, <3>1
    <3>2. CASE i # k
      BY <1>3, <1>4, <2>1, <3>2 DEF Ordered
    <3> QED
      BY <3>1, <3>2
  <2> QED
    BY <1>n, <2>1, <2>2, <2>3
<1>9. ASSUME NEW v \in Steps, v < n PROVE Indexed(d, v) <=> Indexed(s, v)
  <2>1. ASSUME NEW i \in DOMAIN s, s[i] = v PROVE i \in DOMAIN d
    <3>1. i \in S
      BY <1>n, <1>9, <2>1 DEF S
    <3> QED
      BY <1>1, <1>2, <1>3, <1>4, <3>1
  <2> QED
    BY <1>4, <2>1 DEF Indexed
<1> QED
  BY <1>5, <1>7, <1>8, <1>9

\* path_index_add of a step newer than the whole list keeps it sorted.
LEMMA PadFact ==
    ASSUME NEW s \in Seq(Steps), NEW n \in Steps, NEW k \in Nat, Ordered(s),
           \A i \in DOMAIN s : s[i] < n
    PROVE  LET r == s \o [i \in 1 .. k |-> n] IN
           /\ Ordered(r)
           /\ \A i \in DOMAIN r : r[i] <= n
           /\ \A v \in Steps : Indexed(r, v) <=> (Indexed(s, v) \/ (v = n /\ k > 0))
<1> DEFINE t == [i \in 1 .. k |-> n]
           r == s \o t
<1>n. Steps \subseteq Int /\ n \in Int
  BY ConstantsAssumption DEF Steps
<1>1. t \in Seq(Steps) /\ Len(t) = k /\ \A i \in 1 .. k : t[i] = n
  BY IsASeq
<1> HIDE DEF t
<1>2. Len(s) \in Nat /\ DOMAIN s = 1 .. Len(s)
  BY LenProperties
<1>3. /\ DOMAIN r = 1 .. Len(s) + k
      /\ \A i \in 1 .. Len(s) + k : r[i] = IF i <= Len(s) THEN s[i] ELSE n
  <2>1. r \in Seq(Steps) /\ Len(r) = Len(s) + k
    BY <1>1, ConcatProperties
  <2>2. DOMAIN r = 1 .. Len(s) + k
    BY <2>1, LenProperties
  <2>3. ASSUME NEW i \in 1 .. Len(s) + k PROVE r[i] = IF i <= Len(s) THEN s[i] ELSE n
    <3>1. r[i] = IF i <= Len(s) THEN s[i] ELSE t[i - Len(s)]
      BY <1>1, <1>2, ConcatProperties
    <3>2. CASE i <= Len(s)
      BY <3>1, <3>2
    <3>3. CASE ~(i <= Len(s))
      <4>1. i - Len(s) \in 1 .. k
        BY <1>2, <3>3
      <4> QED
        BY <1>1, <3>1, <3>3, <4>1
    <3> QED
      BY <3>2, <3>3
  <2> QED
    BY <2>2, <2>3
<1> HIDE DEF r
<1>4. \A i \in 1 .. Len(s) : s[i] \in Int /\ s[i] < n
  BY <1>n, <1>2, ElementOfSeq
<1>5. Ordered(r)
  BY <1>n, <1>2, <1>3, <1>4 DEF Ordered
<1>6. \A i \in DOMAIN r : r[i] <= n
  BY <1>n, <1>2, <1>3, <1>4
<1>7. ASSUME NEW v \in Steps PROVE Indexed(r, v) <=> (Indexed(s, v) \/ (v = n /\ k > 0))
  <2>1. ASSUME Indexed(r, v) PROVE Indexed(s, v) \/ (v = n /\ k > 0)
    BY <1>2, <1>3, <2>1 DEF Indexed
  <2>2. ASSUME Indexed(s, v) PROVE Indexed(r, v)
    BY <1>2, <1>3, <2>2 DEF Indexed
  <2>3. ASSUME v = n, k > 0 PROVE Indexed(r, v)
    <3>1. Len(s) + 1 \in 1 .. Len(s) + k /\ ~(Len(s) + 1 <= Len(s))
      BY <1>2, <2>3
    <3> QED
      BY <1>3, <2>3, <3>1 DEF Indexed
  <2> QED
    BY <2>1, <2>2, <2>3
<1> QED
  BY <1>5, <1>6, <1>7 DEF r, t

\* The index's lists are sorted, name only steps that were reached, and tell
\* the truth of every retained step but the one being aborted.
IndexInv ==
    /\ \A p \in Paths : Ordered(path_index[p])
    /\ \A p \in Paths : \A i \in DOMAIN path_index[p] :
          /\ path_index[p][i] <= physical_step
          /\ phase \notin {"committed", "failed"} => path_index[p][i] < physical_step
    /\ \A n \in Steps : file[n].made # {} =>
          n < physical_step \/ (n = physical_step /\ phase \in {"committed", "failed"})
    /\ \A p \in Paths : \A n \in Steps :
          /\ retain_floor <= n
          /\ n < physical_step \/ (n = physical_step /\ phase = "committed")
          => (Indexed(path_index[p], n) <=> p \in file[n].made)

\* A replay indexes a path as often as it reaches a create of it.
LEMMA CreateCount ==
    ASSUME NEW m \in Seq(Record), NEW f \in 1 .. Len(m) + 1, NEW p \in Paths
    PROVE  LET k == Cardinality({j \in Creates(m, p) : j <= f}) IN
           /\ k \in Nat
           /\ f = Len(m) + 1 => (k > 0 <=> Creates(m, p) # {})
<1> DEFINE C == {j \in Creates(m, p) : j <= f}
<1>1. C \subseteq 1 .. Len(m) /\ Len(m) \in Nat
  BY DEF Creates
<1>2. f = Len(m) + 1 => C = Creates(m, p)
  BY <1>1 DEF Creates
<1>3. IsFiniteSet(C)
  <2>1. IsFiniteSet(1 .. Len(m))
    BY <1>1, FS_Interval
  <2> QED
    BY <1>1, <2>1, FS_Subset
<1> HIDE DEF C
<1>4. Cardinality(C) \in Nat /\ (Cardinality(C) = 0 <=> C = {})
  BY <1>3, FS_CardinalityType, FS_EmptySet
<1> QED
  BY <1>2, <1>4 DEF C

\* A replay into a step nothing was made in yet: the index and the file
\* agree on the step when all of it was replayed.
LEMMA ReplayIndexes ==
    ASSUME TypeInv, IndexInv, ReplayStep
    PROVE  /\ \A p \in Paths :
                /\ Ordered(path_index'[p])
                /\ \A i \in DOMAIN path_index'[p] : path_index'[p][i] <= physical_step
                /\ \A n \in Steps : n < physical_step =>
                      (Indexed(path_index'[p], n) <=> Indexed(path_index[p], n))
                /\ phase' = "committed" =>
                      (Indexed(path_index'[p], physical_step)
                         <=> p \in file'[physical_step].made)
           /\ \A n \in Steps : n # physical_step => file'[n] = file[n]
           /\ phase' \in {"committed", "failed"}
           /\ UNCHANGED <<physical_step, retain_floor>>
<1> DEFINE m == BuildManifest(pending)
           ps == physical_step
<1>t. /\ pending \in Seq(Entry) /\ write_type_cache \in Cache /\ ps \in Steps
      /\ Steps \subseteq Int /\ path_index \in [Paths -> Seq(Steps)]
      /\ file \in [Steps -> StepGroup]
  BY ConstantsAssumption DEF TypeInv, TypeOK, Steps
<1>p. phase = "replay"
  BY DEF ReplayStep
<1>1. m \in Seq(Record)
  BY <1>t, ManifestType
<1>2. PICK f \in ReplayEnds(m, ps), has \in ManifestFates :
         /\ file' = [file EXCEPT ![ps] = Replayed(m, ps, f, has)]
         /\ path_index' = IndexAdd(m, ps, f)
         /\ phase' = IF f = Len(m) + 1 THEN "committed" ELSE "failed"
  BY DEF ReplayStep
<1> HIDE DEF m
<1>3. f \in 1 .. Len(m) + 1 /\ Len(m) \in Nat /\ DOMAIN m = 1 .. Len(m)
  BY <1>1, LenProperties DEF ReplayEnds
<1>4. file[ps].made = {}
  BY <1>t, <1>p DEF IndexInv
<1>5. ASSUME NEW p \in Paths
      PROVE  /\ Ordered(path_index'[p])
             /\ \A i \in DOMAIN path_index'[p] : path_index'[p][i] <= ps
             /\ \A n \in Steps : n < ps =>
                   (Indexed(path_index'[p], n) <=> Indexed(path_index[p], n))
             /\ phase' = "committed" =>
                   (Indexed(path_index'[p], ps) <=> p \in file'[ps].made)
  <2> DEFINE k == Cardinality({j \in Creates(m, p) : j <= f})
             s == path_index[p]
             r == s \o [i \in 1 .. k |-> ps]
  <2>1. path_index'[p] = r
    BY <1>2 DEF IndexAdd
  <2>2. k \in Nat /\ (f = Len(m) + 1 => (k > 0 <=> Creates(m, p) # {}))
    BY <1>1, <1>3, CreateCount
  <2> HIDE DEF k
  <2>3. s \in Seq(Steps) /\ Ordered(s) /\ \A i \in DOMAIN s : s[i] < ps
    BY <1>t, <1>p DEF IndexInv
  <2> HIDE DEF s
  <2>4. /\ Ordered(r)
        /\ \A i \in DOMAIN r : r[i] <= ps
        /\ \A v \in Steps : Indexed(r, v) <=> (Indexed(s, v) \/ (v = ps /\ k > 0))
    BY <1>t, <2>2, <2>3, PadFact
  <2> HIDE DEF r
  <2>5. ~Indexed(s, ps)
    <3> SUFFICES ASSUME NEW i \in DOMAIN s, s[i] = ps PROVE FALSE
      BY DEF Indexed
    <3>1. s[i] < ps /\ ps \in Int
      BY <1>t, <2>3
    <3> QED
      BY <3>1
  <2>6. ASSUME phase' = "committed" PROVE Indexed(r, ps) <=> p \in file'[ps].made
    <3>1. f = Len(m) + 1
      BY <1>2, <2>6
    <3>2. file'[ps].made = {m[i].path : i \in {j \in 1 .. f - 1 : m[j].kind = "create"}}
      BY <1>t, <1>2, <1>4 DEF Replayed
    <3>3. p \in file'[ps].made <=> Creates(m, p) # {}
      BY <1>3, <3>1, <3>2 DEF Creates
    <3> QED
      BY <1>t, <2>2, <2>4, <2>5, <3>1, <3>3
  <2>7. \A n \in Steps : n < ps => (Indexed(r, n) <=> Indexed(s, n))
    BY <1>t, <2>4
  <2> QED
    BY <2>1, <2>4, <2>6, <2>7 DEF s
<1>6. \A n \in Steps : n # ps => file'[n] = file[n]
  BY <1>t, <1>2
<1>7. UNCHANGED <<physical_step, retain_floor>>
  BY DEF ReplayStep, retainVars
<1> QED
  BY <1>2, <1>5, <1>6, <1>7

\* Every step keeps the index truthful.
LEMMA IndexStep ==
    ASSUME NoSpill
    PROVE  TypeInv /\ GroupInv /\ IndexInv /\ [Next]_vars => IndexInv'
<1> SUFFICES ASSUME TypeInv, GroupInv, IndexInv, [Next]_vars PROVE IndexInv'
  OBVIOUS
<1>t. /\ physical_step \in Steps /\ Steps \subseteq Int /\ retain_floor \in Int
      /\ path_index \in [Paths -> Seq(Steps)] /\ file \in [Steps -> StepGroup]
  BY ConstantsAssumption DEF TypeInv, TypeOK, Steps
<1>i. \A p \in Paths : \A i \in DOMAIN path_index[p] : path_index[p][i] \in Int
  <2> TAKE p \in Paths
  <2>1. path_index[p] \in Seq(Steps)
    BY <1>t
  <2> QED
    BY <2>1, StepsEntry
<1>1. CASE ReplayStep
  <2>1. phase = "replay"
    BY <1>1 DEF ReplayStep
  <2>2. /\ \A p \in Paths :
                /\ Ordered(path_index'[p])
                /\ \A i \in DOMAIN path_index'[p] : path_index'[p][i] <= physical_step
                /\ \A n \in Steps : n < physical_step =>
                      (Indexed(path_index'[p], n) <=> Indexed(path_index[p], n))
                /\ phase' = "committed" =>
                      (Indexed(path_index'[p], physical_step)
                         <=> p \in file'[physical_step].made)
        /\ \A n \in Steps : n # physical_step => file'[n] = file[n]
        /\ phase' \in {"committed", "failed"}
        /\ physical_step' = physical_step /\ retain_floor' = retain_floor
    BY <1>1, ReplayIndexes
  <2>3. \A n \in Steps : file'[n].made # {} => n < physical_step \/ n = physical_step
    BY <2>1, <2>2 DEF IndexInv
  <2>4. \A n \in Steps : n < physical_step => n # physical_step
    BY <1>t
  <2>5. ASSUME NEW p \in Paths, NEW n \in Steps, retain_floor <= n,
               n < physical_step \/ (n = physical_step /\ phase' = "committed")
        PROVE  Indexed(path_index'[p], n) <=> p \in file'[n].made
    <3>1. CASE n < physical_step
      BY <2>2, <2>4, <2>5, <3>1 DEF IndexInv
    <3>2. CASE n = physical_step /\ phase' = "committed"
      BY <2>2, <3>2
    <3> QED
      BY <2>5, <3>1, <3>2
  <2> QED
    BY <2>2, <2>3, <2>5 DEF IndexInv
<1>2. CASE DecideDiscard
  <2>1. /\ UNCHANGED <<physical_step, retain_floor, path_index>>
        /\ phase = "decide" /\ phase' = "committed"
        /\ \A n \in Steps : file'[n].made = file[n].made
    BY <1>2, <1>t DEF DecideDiscard, EmptyGroup, retainVars, StepGroup
  <2>2. file[physical_step].made = {}
    BY <1>t, <2>1 DEF IndexInv
  <2>3. \A p \in Paths : ~Indexed(path_index[p], physical_step)
    BY <1>t, <1>i, <2>1 DEF IndexInv, Indexed
  <2> QED
    BY <1>t, <1>i, <2>1, <2>2, <2>3 DEF IndexInv
<1>3. CASE CommitStep
  <2>1. /\ physical_step' = physical_step + 1 /\ UNCHANGED path_index
        /\ phase = "committed" /\ phase' = "NOT_IN_STEP"
    BY <1>3 DEF CommitStep
  <2>2. PICK k \in Nat :
             /\ retain_floor' = retain_floor + k
             /\ \A n \in Steps : file'[n] = IF retain_floor <= n /\ n < retain_floor + k
                                            THEN NoGroup ELSE file[n]
    <3>1. CASE retention = NoRetention
      <4>1. retain_floor' = retain_floor + 0 /\ UNCHANGED file
        BY <1>3, <1>t, <3>1 DEF CommitStep, ApplyRetention, retainVars
      <4>2. \A n \in Steps : ~(retain_floor <= n /\ n < retain_floor + 0)
        BY <1>t
      <4> QED
        BY <4>1, <4>2
    <3>2. CASE retention # NoRetention
      BY <1>3, <3>2, RetentionEffect
    <3> QED
      BY <3>1, <3>2
  <2>3. NoGroup.made = {}
    BY DEF NoGroup
  <2>4. \A n \in Steps : retain_floor' <= n => retain_floor <= n /\ file'[n] = file[n]
    BY <1>t, <2>2
  <2>5. \A n \in Steps : file'[n].made # {} => file[n].made # {}
    BY <2>2, <2>3
  <2>6. \A p \in Paths : \A i \in DOMAIN path_index[p] : path_index[p][i] < physical_step + 1
    BY <1>t, <1>i DEF IndexInv
  <2>7. \A n \in Steps : n < physical_step + 1 => n < physical_step \/ n = physical_step
    BY <1>t
  <2>8. \A n \in Steps : file'[n].made # {} => n < physical_step'
    BY <1>t, <2>1, <2>5 DEF IndexInv
  <2> QED
    BY <1>t, <1>i, <2>1, <2>4, <2>6, <2>7, <2>8 DEF IndexInv
<1>4. CASE AbortStep
  <2>1. /\ UNCHANGED <<physical_step, retain_floor>> /\ phase = "failed"
        /\ phase' = "NOT_IN_STEP"
        /\ \A p \in Paths : path_index'[p] = DropStep(path_index[p], physical_step)
        /\ \A n \in Steps : file'[n] = IF n = physical_step THEN NoGroup ELSE file[n]
    BY <1>4 DEF AbortStep, Unlink, retainVars
  <2>2. \A p \in Paths :
           /\ Ordered(path_index'[p])
           /\ \A i \in DOMAIN path_index'[p] : path_index'[p][i] < physical_step
           /\ \A v \in Steps : v < physical_step =>
                 (Indexed(path_index'[p], v) <=> Indexed(path_index[p], v))
    <3> TAKE p \in Paths
    <3>1. path_index[p] \in Seq(Steps) /\ Ordered(path_index[p])
          /\ \A i \in DOMAIN path_index[p] : path_index[p][i] <= physical_step
      BY <1>t DEF IndexInv
    <3> QED
      BY <1>t, <2>1, <3>1, DropStepFact
  <2>3. NoGroup.made = {}
    BY DEF NoGroup
  <2>4. \A p \in Paths : \A i \in DOMAIN path_index'[p] : path_index'[p][i] <= physical_step
    <3> TAKE p \in Paths
    <3> TAKE i \in DOMAIN path_index'[p]
    <3>1. path_index'[p] \in Seq(Steps)
      BY TypeStep DEF TypeInv, TypeOK, Steps
    <3>2. path_index'[p][i] \in Int
      BY <3>1, StepsEntry
    <3> QED
      BY <1>t, <2>2, <3>2
  <2>5. \A n \in Steps : file'[n].made # {} => n < physical_step
    BY <2>1, <2>3 DEF IndexInv
  <2>6. ASSUME NEW p \in Paths, NEW n \in Steps, retain_floor <= n, n < physical_step
        PROVE  Indexed(path_index'[p], n) <=> p \in file'[n].made
    <3>1. n # physical_step
      BY <1>t, <2>6
    <3> QED
      BY <2>1, <2>2, <2>6, <3>1 DEF IndexInv
  <2> QED
    BY <2>1, <2>2, <2>4, <2>5, <2>6 DEF IndexInv
<1>5. CASE ~(ReplayStep \/ DecideDiscard \/ CommitStep \/ AbortStep)
  <2>1. UNCHANGED <<physical_step, path_index>>
        /\ (phase' = "committed" <=> phase = "committed")
        /\ (phase = "failed" => phase' = "failed")
    BY <1>5, NeverSpills DEF Next, Application, EndStep, Commit, Progress, Stopped, vars, BeginStep,
       DatasetCreate, DatasetWrite, DatasetWriteStale, DatasetClose, SetQueuePolicy, SetRetention,
       FileClose, StartDrain, DrainStop, DecideReplay, DecideDiscardFails, DecideBlock, BlockPoll,
       BlockTimeout, ReaderAck, ReaderLeave, Idle
  <2>2. UNCHANGED retain_floor
    BY <1>5, NeverSpills DEF Next, Application, EndStep, Commit, Progress, Stopped, vars, BeginStep,
       DatasetCreate, DatasetWrite, DatasetWriteStale, DatasetClose, SetQueuePolicy, SetRetention,
       FileClose, StartDrain, DrainStop, DecideReplay, DecideDiscardFails, DecideBlock, BlockPoll,
       BlockTimeout, ReaderAck, ReaderLeave, retainVars, TypeInv, RetentionAccounts
  <2>3. UNCHANGED file
    BY <1>5, NeverSpills, FileKept DEF FileActions
  <2> QED
    BY <2>1, <2>2, <2>3 DEF IndexInv
<1> QED
  BY <1>1, <1>2, <1>3, <1>4, <1>5

\* A writer that cannot spill keeps its index truthful.
LEMMA IndexInductive == ASSUME NoSpill PROVE Spec => [](TypeInv /\ GroupInv /\ IndexInv)
<1>1. Init => IndexInv
  <2> SUFFICES ASSUME Init PROVE IndexInv
    OBVIOUS
  <2>1. \A p \in Paths : path_index[p] = <<>> /\ DOMAIN path_index[p] = {}
    BY DEF Init
  <2>2. \A n \in Steps : file[n].made = {} /\ ~(n < physical_step)
    BY ConstantsAssumption DEF Init, NoGroup, Steps
  <2> QED
    BY <2>1, <2>2 DEF IndexInv, Ordered, Indexed, Init
<1>2. TypeInv /\ GroupInv /\ IndexInv /\ [Next]_vars => IndexInv'
  BY IndexStep
<1> QED
  BY <1>1, <1>2, GroupInductive, PTL DEF Spec

\* Without BAKE, the index and the file agree on every retained step, between
\* any two steps and whatever failed in between.
THEOREM IndexIsTruthful == ASSUME NoSpill PROVE Spec => []IndexTellsTruth
<1>1. TypeInv /\ IndexInv => IndexTellsTruth
  <2> SUFFICES ASSUME TypeInv, IndexInv, Idle, NEW p \in Paths, NEW n \in Steps,
                      n >= retain_floor
               PROVE  Indexed(path_index[p], n) <=> p \in file[n].made
    BY DEF IndexTellsTruth, Indexed
  <2>t. physical_step \in Int /\ Steps \subseteq Int /\ retain_floor \in Int
        /\ path_index[p] \in Seq(Steps)
    BY ConstantsAssumption DEF TypeInv, TypeOK, Steps
  <2>1. CASE n < physical_step
    BY <2>1, <2>t DEF IndexInv
  <2>2. CASE ~(n < physical_step)
    <3>1. file[n].made = {}
      BY <2>2 DEF IndexInv, Idle
    <3>2. \A i \in DOMAIN path_index[p] :
             path_index[p][i] \in Int /\ path_index[p][i] < physical_step
      BY <2>t, StepsEntry DEF IndexInv, Idle
    <3> QED
      BY <2>2, <2>t, <3>1, <3>2 DEF Indexed
  <2> QED
    BY <2>1, <2>2
<1> QED
  BY <1>1, IndexInductive, PTL

\* Without BAKE, and as long as no retention is set (a pruned step stays in
\* the index), path_index_resolve finds the newest version not above a step.
THEOREM ResolvesToLatest ==
    ASSUME NoSpill PROVE Spec => [](retention = NoRetention => ResolveLatest)
<1>1. TypeInv /\ IndexInv /\ IndexTellsTruth => (retention = NoRetention => ResolveLatest)
  <2> SUFFICES ASSUME TypeInv, IndexInv, IndexTellsTruth, retention = NoRetention, Idle,
                      NEW p \in Paths, NEW step \in Steps
               PROVE  LET have == {n \in Steps : n <= step /\ p \in file[n].made} IN
                      IF have = {} THEN Resolve(p, step) = {}
                                   ELSE Resolve(p, step) = {Max(have)}
    BY DEF ResolveLatest
  <2> DEFINE have == {n \in Steps : n <= step /\ p \in file[n].made}
             s == path_index[p]
             J == {j \in DOMAIN s : s[j] <= step}
  <2>t. Steps \subseteq Nat /\ step \in Nat /\ retain_floor = 0 /\ MaxSteps \in Nat
        /\ Steps = 0 .. MaxSteps
    BY ConstantsAssumption DEF TypeInv, RetentionAccounts, Steps
  <2>s. s \in Seq(Steps) /\ Ordered(s)
    BY DEF TypeInv, TypeOK, IndexInv
  <2>1. \A n \in Steps : n \in have <=> n <= step /\ Indexed(s, n)
    BY <2>t DEF IndexTellsTruth, Indexed
  <2>2. have \subseteq 0 .. MaxSteps
    BY <2>t
  <2>3. Resolve(p, step) = {s[i] : i \in {j \in J : \A k \in DOMAIN s : k > j => s[k] > step}}
    BY DEF Resolve
  <2> HIDE DEF have, s
  <2>4. \A i \in DOMAIN s : s[i] \in Steps /\ s[i] \in Int
    BY <2>s, StepsEntry
  <2>5. \A j \in J : s[j] \in have
    BY <2>1, <2>4 DEF Indexed
  <2>6. CASE have = {}
    BY <2>3, <2>5, <2>6 DEF have
  <2>7. CASE have # {}
    <3> DEFINE M == Max(have)
    <3>1. M \in have /\ \A y \in have : y <= M
      BY <2>t, <2>2, <2>7, MaxBounded
    <3> HIDE DEF M
    <3>2. PICK j \in DOMAIN s : s[j] = M
      BY <2>1, <2>2, <2>t, <3>1 DEF Indexed
    <3>3. M <= step /\ M \in Int
      BY <2>1, <2>2, <2>t, <3>1
    <3>4. DOMAIN s \subseteq 0 .. Len(s) /\ DOMAIN s \subseteq Int /\ Len(s) \in Nat
      BY <2>s, LenProperties
    <3>5. ASSUME NEW i \in J, \A k \in DOMAIN s : k > i => s[k] > step PROVE s[i] = M
      <4>1. s[i] <= M /\ s[i] \in Int
        BY <2>4, <2>5, <3>1
      <4>2. ~(j > i)
        BY <2>t, <3>2, <3>3, <3>5
      <4>3. M <= s[i]
        <5>1. CASE j = i
          BY <3>2, <3>3, <5>1
        <5>2. CASE j # i
          <6>1. j < i
            BY <3>4, <4>2, <5>2
          <6> QED
            BY <2>s, <3>2, <6>1 DEF Ordered
        <5> QED
          BY <5>1, <5>2
      <4> QED
        BY <3>3, <4>1, <4>3
    <3>6. \E i \in J : \A k \in DOMAIN s : k > i => s[k] > step
      <4>1. J \subseteq 0 .. Len(s) /\ j \in J
        BY <3>2, <3>3, <3>4
      <4>2. Max(J) \in J /\ \A y \in J : y <= Max(J)
        BY <3>4, <4>1, MaxBounded
      <4>3. ASSUME NEW k \in DOMAIN s, k > Max(J) PROVE s[k] > step
        <5>0. Max(J) \in Int /\ k \in Int
          BY <3>4, <4>1, <4>2
        <5> HIDE DEF J
        <5>1. k \notin J
          BY <4>2, <4>3, <5>0
        <5> USE DEF J
        <5> QED
          BY <2>t, <2>4, <5>1
      <4> QED
        BY <4>2, <4>3
    <3>7. Resolve(p, step) = {M}
      BY <2>3, <3>5, <3>6
    <3> QED
      BY <2>7, <3>7 DEF M, have
  <2> QED
    BY <2>6, <2>7
<1> QED
  BY <1>1, IndexInductive, IndexIsTruthful, PTL

-----------------------------------------------------------------------------
(* The type dictionaries. build_manifest omits a type that its dictionary   *)
(* holds already, so the replay decodes it with its own. While manifests    *)
(* are replayed in the order in which they are built, the two agree on      *)
(* every path, but for the paths that a failed step wrote: a step that      *)
(* stays clear of those is decoded rightly, and commits if it is            *)
(* well-formed.                                                             *)

\* One more entry encoded: what the write dictionary holds then.
LEMMA TypeSentNext ==
    ASSUME NEW es \in Seq(Entry), NEW n \in 1 .. Len(es), NEW p \in Paths
    PROVE  TypeSent(es, n, p) = IF n \in WritesTo(es, p) THEN es[n].type
                                ELSE TypeSent(es, n - 1, p)
<1> DEFINE S(k) == {i \in WritesTo(es, p) : i <= k}
<1>0. Len(es) \in Nat /\ n \in Nat /\ WritesTo(es, p) \subseteq 1 .. Len(es)
  BY LenProperties DEF WritesTo
<1>1. CASE n \in WritesTo(es, p)
  <2>1. S(n) \subseteq 0 .. n /\ n \in S(n)
    BY <1>0, <1>1
  <2>2. Max(S(n)) = n
    BY <1>0, <2>1, MaxIsBound
  <2> QED
    BY <1>1, <2>1, <2>2 DEF TypeSent
<1>2. CASE n \notin WritesTo(es, p)
  <2>1. S(n) = S(n - 1)
    BY <1>0, <1>2
  <2> QED
    BY <1>2, <2>1 DEF TypeSent
<1> QED
  BY <1>1, <1>2

\* One more entry replayed: what the replay dictionary holds then.
LEMMA TypeKnownNext ==
    ASSUME NEW m \in Seq(Record), NEW n \in 1 .. Len(m) + 1, NEW p \in Paths
    PROVE  TypeKnown(m, n, p) = IF n \in WritesTo(m, p) /\ m[n].enc # NoType THEN m[n].enc
                                ELSE TypeKnown(m, n - 1, p)
<1> DEFINE S(k) == {i \in WritesTo(m, p) : i <= k /\ m[i].enc # NoType}
<1>0. Len(m) \in Nat /\ n \in Nat /\ WritesTo(m, p) \subseteq 1 .. Len(m)
  BY LenProperties DEF WritesTo
<1>1. CASE n \in WritesTo(m, p) /\ m[n].enc # NoType
  <2>1. S(n) \subseteq 0 .. n /\ n \in S(n)
    BY <1>0, <1>1
  <2>2. Max(S(n)) = n
    BY <1>0, <2>1, MaxIsBound
  <2> QED
    BY <1>1, <2>1, <2>2 DEF TypeKnown
<1>2. CASE ~(n \in WritesTo(m, p) /\ m[n].enc # NoType)
  <2>1. S(n) = S(n - 1)
    BY <1>0, <1>2
  <2> QED
    BY <1>2, <2>1 DEF TypeKnown
<1> QED
  BY <1>1, <1>2

\* Two dictionaries that start out equal on a path are equal on it after every
\* entry: the first entry after which they differed would be one whose type was
\* omitted although the write dictionary did not hold it.
LEMMA DictionariesAgree ==
    ASSUME NEW es \in Seq(Entry), write_type_cache \in Cache,
           NEW p \in Paths, replay_type_cache[p] = write_type_cache[p]
    PROVE  \A n \in 0 .. Len(es) :
              TypeKnown(BuildManifest(es), n, p) = TypeSent(es, n, p)
<1> DEFINE m == BuildManifest(es)
           Bad == {n \in 0 .. Len(es) : TypeKnown(m, n, p) # TypeSent(es, n, p)}
<1>t. /\ m \in Seq(Record) /\ Len(es) \in Nat /\ DOMAIN es = 1 .. Len(es)
      /\ DOMAIN m = 1 .. Len(es) /\ Len(m) = Len(es)
  <2>1. m \in Seq(Record) /\ DOMAIN m = DOMAIN es
    BY ManifestType DEF BuildManifest
  <2> QED
    BY <2>1, LenProperties
<1>m. \A i \in 1 .. Len(es) :
         /\ m[i].kind = es[i].kind /\ m[i].path = es[i].path
         /\ m[i].enc = IF es[i].kind = "write" /\ TypeSent(es, i - 1, es[i].path) = es[i].type
                       THEN NoType ELSE es[i].type
  BY <1>t DEF BuildManifest
<1> HIDE DEF m
<1> SUFFICES ASSUME Bad # {} PROVE FALSE
  BY DEF m
<1>1. Bad \subseteq Nat
  BY <1>t
<1> HIDE DEF Bad
<1>2. PICK n \in Bad : \A y \in Bad : n <= y
  BY <1>1, NatMinimum
<1>3. n \in 0 .. Len(es) /\ TypeKnown(m, n, p) # TypeSent(es, n, p)
  BY <1>2 DEF Bad
<1>4. n # 0
  <2>1. {i \in WritesTo(es, p) : i <= 0} = {} /\
        {i \in WritesTo(m, p) : i <= 0 /\ m[i].enc # NoType} = {}
    BY <1>t DEF WritesTo
  <2>2. TypeKnown(m, 0, p) = TypeSent(es, 0, p)
    BY <2>1 DEF TypeKnown, TypeSent
  <2> QED
    BY <1>3, <2>2
<1>5. n \in 1 .. Len(es) /\ n - 1 \in 0 .. Len(es) /\ n \in 1 .. Len(m) + 1 /\ ~(n <= n - 1)
  BY <1>t, <1>3, <1>4
<1>6. TypeKnown(m, n - 1, p) = TypeSent(es, n - 1, p)
  BY <1>2, <1>5 DEF Bad
<1>7. n \in WritesTo(m, p) <=> n \in WritesTo(es, p)
  BY <1>t, <1>m, <1>5 DEF WritesTo
<1>8. TypeSent(es, n, p) = IF n \in WritesTo(es, p) THEN es[n].type ELSE TypeSent(es, n - 1, p)
  BY <1>5, TypeSentNext
<1>9. TypeKnown(m, n, p) = IF n \in WritesTo(m, p) /\ m[n].enc # NoType THEN m[n].enc
                           ELSE TypeKnown(m, n - 1, p)
  BY <1>t, <1>5, TypeKnownNext
<1>10. es[n].type # NoType
  <2>1. es[n] \in Entry
    BY <1>5, ElementOfSeq
  <2> QED
    BY <2>1, ConstantsAssumption DEF Entry
<1>11. CASE n \in WritesTo(es, p)
  <2>1. es[n].kind = "write" /\ es[n].path = p
    BY <1>11 DEF WritesTo
  <2>2. m[n].enc = IF TypeSent(es, n - 1, p) = es[n].type THEN NoType ELSE es[n].type
    BY <1>m, <1>5, <2>1
  <2> QED
    BY <1>3, <1>6, <1>7, <1>8, <1>9, <1>10, <1>11, <2>2
<1>12. CASE n \notin WritesTo(es, p)
  BY <1>3, <1>6, <1>7, <1>8, <1>9, <1>12
<1> QED
  BY <1>11, <1>12

\* The dictionaries agree but on the paths that a failed step wrote, or is
\* about to have written; what was decoded otherwise, and what failed although
\* it was well-formed, was on such a path.
TaintInv ==
    /\ \A p \in Paths : \/ p \in tainted
                        \/ phase = "failed" /\ WritesTo(pending, p) # {}
                        \/ write_type_cache[p] = replay_type_cache[p]
    /\ DecodedAsWritten
    /\ "storage" \notin Faults => FailureContained

\* A replay keeps the dictionaries equal on every path it does not taint, and
\* decodes the writes to it as they were captured.
LEMMA TaintReplay ==
    ASSUME NoSpill, TypeInv, IndexInv, TaintInv, ReplayStep
    PROVE  TaintInv'
<1> DEFINE es == pending
           m == BuildManifest(es)
           ps == physical_step
<1>t. /\ es \in Seq(Entry) /\ write_type_cache \in Cache /\ ps \in Steps
      /\ file \in [Steps -> StepGroup] /\ replay_type_cache \in Cache
  BY DEF TypeInv, TypeOK
<1>p. phase = "replay" /\ pending' = pending /\ tainted' = tainted /\ physical_step' = physical_step
  BY DEF ReplayStep
<1>q. \A p \in Paths \ tainted : replay_type_cache[p] = write_type_cache[p]
  BY <1>p DEF TaintInv
<1>1. PICK f \in ReplayEnds(m, ps), has \in ManifestFates :
         /\ file' = [file EXCEPT ![ps] = Replayed(m, ps, f, has)]
         /\ write_type_cache' = CacheAfterBuild(es)
         /\ replay_type_cache' = CacheAfterReplay(m, f)
         /\ phase' = IF f = Len(m) + 1 THEN "committed" ELSE "failed"
  BY DEF ReplayStep
<1>2. /\ m \in Seq(Record) /\ Len(es) \in Nat /\ DOMAIN es = 1 .. Len(es)
      /\ DOMAIN m = 1 .. Len(es) /\ Len(m) = Len(es)
  <2>1. m \in Seq(Record) /\ DOMAIN m = DOMAIN es
    BY <1>t, ManifestType DEF BuildManifest
  <2> QED
    BY <1>t, <2>1, LenProperties
<1>3. \A i \in 1 .. Len(es) :
         m[i].kind = es[i].kind /\ m[i].path = es[i].path /\ m[i].type = es[i].type
  BY <1>2 DEF BuildManifest
<1>4. \A p \in Paths \ tainted : \A n \in 0 .. Len(es) : TypeKnown(m, n, p) = TypeSent(es, n, p)
  BY <1>t, <1>q, DictionariesAgree
<1>r. f \in 1 .. Len(m) + 1 /\ (f <= Len(m) => CannotReplay(m, ps, f) \/ "storage" \in Faults)
  BY DEF ReplayEnds
<1> HIDE DEF m, es
<1>5. \A p \in Paths : Creates(m, p) = Creates(es, p) /\ Creates(es, p) \subseteq 1 .. Len(es)
  BY <1>2, <1>3 DEF Creates
<1>w. \A p \in Paths : WritesTo(m, p) = WritesTo(es, p) /\ WritesTo(es, p) \subseteq 1 .. Len(es)
  BY <1>2, <1>3 DEF WritesTo
<1>6. \A i \in 1 .. Len(es) : es[i].kind \in {"create", "write"} /\ es[i].path \in Paths
                              /\ es[i].type \in Types
  <2> TAKE i \in 1 .. Len(es)
  <2>1. es[i] \in Entry
    BY <1>t, ElementOfSeq
  <2> QED
    BY <2>1 DEF Entry, EntryKinds
<1>7. \A i \in 1 .. Len(es) : es[i].kind = "write" /\ es[i].path \notin tainted =>
         TypeKnown(m, i, es[i].path) = es[i].type
  <2> SUFFICES ASSUME NEW i \in 1 .. Len(es), es[i].kind = "write", es[i].path \notin tainted
               PROVE  TypeKnown(m, i, es[i].path) = es[i].type
    OBVIOUS
  <2>1. i \in WritesTo(es, es[i].path) /\ es[i].path \in Paths /\ i \in 0 .. Len(es)
    BY <1>2, <1>6 DEF WritesTo
  <2>2. TypeSent(es, i, es[i].path) = es[i].type
    BY <1>t, <2>1, TypeSentNext
  <2> QED
    BY <1>4, <2>1, <2>2
<1>8. ASSUME WellFormed(es), \A p \in tainted : WritesTo(es, p) = {}, NEW i \in 1 .. Len(es)
      PROVE  ~CannotReplay(m, ps, i)
  <2> DEFINE p == m[i].path
             before == {j \in Creates(m, p) : j < i}
  <2>1. p = es[i].path /\ p \in Paths /\ m[i].kind = es[i].kind
    BY <1>3, <1>6
  <2>2. CASE es[i].kind = "create"
    <3>1. file[ps].made = {}
      <4>1. ~(ps < ps)
        BY <1>t, ConstantsAssumption DEF Steps
      <4> QED
        BY <1>t, <1>p, <4>1 DEF IndexInv
    <3>2. i \in Creates(es, p)
      BY <1>2, <2>1, <2>2 DEF Creates
    <3>3. before = {}
      BY <1>2, <1>5, <1>8, <2>1, <3>2 DEF WellFormed
    <3> QED
      BY <2>1, <2>2, <3>1, <3>3 DEF CannotReplay
  <2>3. CASE es[i].kind = "write"
    <3>1. i \in WritesTo(es, p)
      BY <1>2, <2>1, <2>3 DEF WritesTo
    <3>2. before # {}
      BY <1>5, <1>8, <2>1, <3>1 DEF WellFormed
    <3>3. TypeKnown(m, i, p) = es[i].type /\ es[i].type \in Types
      BY <1>6, <1>7, <1>8, <2>1, <2>3, <3>1
    <3>4. TypeKnown(m, i, p) # NoType
      BY <3>3, ConstantsAssumption
    <3> QED
      BY <2>1, <2>3, <3>2, <3>4 DEF CannotReplay
  <2> QED
    BY <1>6, <2>2, <2>3
<1>9. ASSUME "storage" \notin Faults PROVE FailureContained'
  <2> SUFFICES ASSUME phase' = "failed", WellFormed(es), \A p \in tainted : WritesTo(es, p) = {}
               PROVE  FALSE
    BY <1>p DEF FailureContained, es
  <2>1. f <= Len(m)
    BY <1>1, <1>2, <1>r
  <2>2. CannotReplay(m, ps, f) /\ f \in 1 .. Len(es)
    BY <1>2, <1>9, <1>r, <2>1
  <2> QED
    BY <1>8, <2>2
<1>10. ASSUME NEW p \in Paths \ tainted, phase' # "failed" \/ WritesTo(es, p) = {}
       PROVE  write_type_cache'[p] = replay_type_cache'[p]
  <2>1. write_type_cache'[p] = TypeSent(es, Len(es), p) /\ replay_type_cache'[p] = TypeKnown(m, f, p)
    BY <1>1 DEF CacheAfterBuild, CacheAfterReplay
  <2>2. CASE WritesTo(es, p) = {}
    <3>1. /\ {i \in WritesTo(es, p) : i <= Len(es)} = {}
          /\ {i \in WritesTo(m, p) : i <= f /\ m[i].enc # NoType} = {}
      BY <1>w, <2>2
    <3> QED
      BY <1>q, <2>1, <3>1 DEF TypeSent, TypeKnown
  <2>3. CASE WritesTo(es, p) # {}
    <3>1. f = Len(m) + 1
      BY <1>1, <1>10, <2>3
    <3>2. f \notin WritesTo(m, p) /\ f - 1 = Len(es) /\ f - 1 \in 0 .. Len(es)
      BY <1>2, <1>w, <3>1
    <3>3. TypeKnown(m, f, p) = TypeKnown(m, f - 1, p)
      BY <1>2, <1>r, <3>2, TypeKnownNext
    <3> QED
      BY <1>4, <2>1, <3>2, <3>3
  <2> QED
    BY <2>2, <2>3
<1>11. \A d \in Replayed(m, ps, f, has).data : d.wrote = d.as \/ d.path \in tainted
  <2>1. Replayed(m, ps, f, has).data = file[ps].data \cup
          {[path |-> m[i].path, wrote |-> m[i].type, as |-> TypeKnown(m, i, m[i].path)] :
             i \in {j \in 1 .. f - 1 : m[j].kind = "write"}}
    BY DEF Replayed
  <2>2. \A i \in 1 .. f - 1 : m[i].kind = "write" =>
            m[i].type = TypeKnown(m, i, m[i].path) \/ m[i].path \in tainted
    BY <1>2, <1>3, <1>7, <1>r
  <2>3. \A d \in file[ps].data : d.wrote = d.as \/ d.path \in tainted
    BY <1>t DEF TaintInv, DecodedAsWritten
  <2> QED
    BY <2>1, <2>2, <2>3
<1>12. DecodedAsWritten'
  BY <1>1, <1>11, <1>p, <1>t DEF TaintInv, DecodedAsWritten
<1>13. \A p \in Paths : \/ p \in tainted'
                        \/ phase' = "failed" /\ WritesTo(pending', p) # {}
                        \/ write_type_cache'[p] = replay_type_cache'[p]
  BY <1>p, <1>10 DEF es
<1> QED
  BY <1>9, <1>12, <1>13 DEF TaintInv

\* Every step keeps TaintInv.
LEMMA TaintStep ==
    ASSUME NoSpill
    PROVE  TypeInv /\ GroupInv /\ IndexInv /\ TaintInv /\ [Next]_vars => TaintInv'
<1> SUFFICES ASSUME TypeInv, GroupInv, IndexInv, TaintInv, [Next]_vars PROVE TaintInv'
  OBVIOUS
<1>1. CASE ReplayStep
  BY <1>1, TaintReplay
<1>2. CASE ~ReplayStep
  <2>1. UNCHANGED cacheVars
    BY <1>2, NeverSpills DEF Next, Application, EndStep, Commit, Progress, Stopped, vars, BeginStep,
       DatasetCreate, DatasetWrite, DatasetWriteStale, DatasetClose, SetQueuePolicy, SetRetention,
       FileClose, StartDrain, DrainStop, DecideReplay, DecideDiscard, DecideDiscardFails, DecideBlock,
       BlockPoll, BlockTimeout, CommitStep, AbortStep, ReaderAck, ReaderLeave
  <2>2. CASE AbortStep
    <3>1. /\ phase = "failed" /\ phase' = "NOT_IN_STEP"
          /\ tainted' = tainted \cup {p \in Paths : WritesTo(pending, p) # {}}
      BY <2>2 DEF AbortStep
    <3>2. \A p \in Paths : p \in tainted' \/ write_type_cache'[p] = replay_type_cache'[p]
      BY <2>1, <3>1 DEF TaintInv, cacheVars
    <3>3. \A n \in Steps : file'[n] = file[n] \/ file'[n] = NoGroup
      BY <2>2 DEF AbortStep, Unlink
    <3>4. DecodedAsWritten'
      BY <3>1, <3>3 DEF TaintInv, DecodedAsWritten, NoGroup
    <3> QED
      BY <3>1, <3>2, <3>4 DEF TaintInv, FailureContained
  <2>3. CASE ~AbortStep
    <3>1. UNCHANGED tainted
      BY <1>2, <2>3, NeverSpills DEF Next, Application, EndStep, Commit, Progress, Stopped, vars, BeginStep,
         DatasetCreate, DatasetWrite, DatasetWriteStale, DatasetClose, SetQueuePolicy, SetRetention,
         FileClose, StartDrain, DrainStop, DecideReplay, DecideDiscard, DecideDiscardFails, DecideBlock,
         BlockPoll, BlockTimeout, CommitStep, ReaderAck, ReaderLeave
    <3>2. phase = "failed" => UNCHANGED <<phase, pending>>
      BY <1>2, <2>3, NeverSpills DEF Next, Application, EndStep, Commit, Progress, Stopped, vars, captureVars, Idle,
         BeginStep, DatasetCreate, DatasetWrite, DatasetWriteStale, DatasetClose, SetQueuePolicy, SetRetention,
         FileClose, StartDrain, DrainStop, DecideReplay, DecideDiscard, DecideDiscardFails, DecideBlock,
         BlockPoll, BlockTimeout, CommitStep, ReaderAck, ReaderLeave
    <3>3. phase' = "failed" => phase = "failed" \/ "storage" \in Faults
      BY <1>2, <2>3, NeverSpills DEF Next, Application, EndStep, Commit, Progress, Stopped, vars,
         BeginStep, DatasetCreate, DatasetWrite, DatasetWriteStale, DatasetClose, SetQueuePolicy, SetRetention,
         FileClose, StartDrain, DrainStop, DecideReplay, DecideDiscard, DecideDiscardFails, DecideBlock,
         BlockPoll, BlockTimeout, CommitStep, ReaderAck, ReaderLeave
    <3>4. \A p \in Paths : \/ p \in tainted'
                           \/ phase' = "failed" /\ WritesTo(pending', p) # {}
                           \/ write_type_cache'[p] = replay_type_cache'[p]
      BY <2>1, <3>1, <3>2 DEF TaintInv, cacheVars
    <3>5. "storage" \notin Faults => FailureContained'
      BY <3>1, <3>2, <3>3 DEF TaintInv, FailureContained
    <3>6. DecodedAsWritten'
      <4>t. file \in [Steps -> StepGroup] /\ NoGroup.data = {}
        BY DEF TypeInv, TypeOK, NoGroup
      <4>1. CASE DecideDiscard
        <5>1. \A n \in Steps : file'[n].data = file[n].data
          BY <4>t, <4>1 DEF DecideDiscard, EmptyGroup, StepGroup
        <5> QED
          BY <3>1, <5>1 DEF TaintInv, DecodedAsWritten
      <4>2. CASE CommitStep
        <5>1. \A n \in Steps : file'[n] = file[n] \/ file'[n] = NoGroup
          BY <4>2 DEF CommitStep, ApplyRetention, Unlink
        <5> QED
          BY <3>1, <4>t, <5>1 DEF TaintInv, DecodedAsWritten
      <4>3. CASE ~DecideDiscard /\ ~CommitStep
        <5>1. UNCHANGED file
          BY <1>2, <2>3, <4>3, NeverSpills, FileKept DEF FileActions
        <5> QED
          BY <3>1, <5>1 DEF TaintInv, DecodedAsWritten
      <4> QED
        BY <4>1, <4>2, <4>3
    <3> QED
      BY <3>4, <3>5, <3>6 DEF TaintInv
  <2> QED
    BY <2>2, <2>3
<1> QED
  BY <1>1, <1>2

\* TaintInv is an invariant of a writer that does not spill.
LEMMA TaintInductive == ASSUME NoSpill PROVE Spec => []TaintInv
<1>1. Init => TaintInv
  <2> SUFFICES ASSUME Init PROVE TaintInv
    OBVIOUS
  <2>1. phase = "NOT_IN_STEP" /\ write_type_cache = replay_type_cache
    BY DEF Init
  <2>2. \A n \in Steps : file[n].data = {}
    BY DEF Init, NoGroup
  <2> QED
    BY <2>1, <2>2 DEF TaintInv, DecodedAsWritten, FailureContained
<1>2. TypeInv /\ GroupInv /\ IndexInv /\ TaintInv /\ [Next]_vars => TaintInv'
  BY TaintStep
<1>3. Spec => [](TypeInv /\ GroupInv /\ IndexInv)
  BY IndexInductive
<1> QED
  BY <1>1, <1>2, <1>3, PTL DEF Spec

\* In a writer that does not spill, whatever reaches the file was decoded with
\* the type it was captured with, unless a failed step wrote the path before;
\* whatever fails, and whatever is dropped, aborted or written twice.
THEOREM DecodesAsWritten == ASSUME NoSpill PROVE Spec => []DecodedAsWritten
<1>1. TaintInv => DecodedAsWritten
  BY DEF TaintInv
<1> QED
  BY <1>1, TaintInductive, PTL

\* In a writer that does not spill, and whose storage does not fail, a
\* well-formed step that writes no path of a failed step commits.
THEOREM FailuresAreContained ==
    ASSUME NoSpill, "storage" \notin Faults PROVE Spec => []FailureContained
<1>1. TaintInv => FailureContained
  BY DEF TaintInv
<1> QED
  BY <1>1, TaintInductive, PTL
=============================================================================
