------------------------ MODULE ShardLifecycleProofs ------------------------
(***************************************************************************)
(* Proofs about ShardLifecycle, for any nodes, accounts, objects, blobs,   *)
(* placements and repairs: the types, that a placement follows the         *)
(* acknowledgement of its blob, and, when reads are fresh, that a          *)
(* collection keeps every settled shard.  The last rests on the reference  *)
(* counters of the index, whose invariant is that of IndexStateProofs.     *)
(***************************************************************************)
EXTENDS ShardLifecycle, FiniteSetTheorems, TLAPS

Tables == INSTANCE IndexStateProofs

UploadsTyped ==
    /\ upload \in [Writer \cup {Operator} -> Upload \cup {None}]
    /\ built \subseteq PutManifest
StaleTyped == stale \in [manifests : [Object -> Manifest \cup {None}], shard_refs : [Blob -> Nat]]
NodesTyped ==
    /\ store \in [Node -> SUBSET Blob]
    /\ gc \in [Node -> Cycle]
    /\ losses \in 0..MaxLosses
    /\ removed \in [Node -> SUBSET Blob]
SettledTyped == settled \in [Node -> SUBSET Blob]

\* TypeOK in the parts that actions leave alone together.
LEMMA Parts ==
    /\ TypeOK <=> Tables!TypeOK /\ UploadsTyped /\ StaleTyped /\ NodesTyped /\ SettledTyped
    /\ TypeOK' <=> Tables!TypeOK' /\ UploadsTyped' /\ StaleTyped' /\ NodesTyped' /\ SettledTyped'
  <1>1. Index!TypeOK <=> Tables!TypeOK
    BY DEF Index!TypeOK, Index!Object, Index!QuotaRow, Index!Event,
           Tables!TypeOK, Tables!Object, Tables!QuotaRow, Tables!Event
  <1>2. Index!TypeOK' <=> Tables!TypeOK'
    BY DEF Index!TypeOK, Index!Object, Index!QuotaRow, Index!Event,
           Tables!TypeOK, Tables!Object, Tables!QuotaRow, Tables!Event
  <1> QED
    BY <1>1, <1>2 DEF TypeOK, UploadsTyped, StaleTyped, NodesTyped, SettledTyped

-----------------------------------------------------------------------------
(* Steps on the tables are commands of IndexState.                         *)

\* The two instances count alike.
LEMMA SameSize ==
    ASSUME NEW S
    PROVE  /\ Index!Cardinality(S) = Tables!Cardinality(S)
           /\ Cardinality(S) = Tables!Cardinality(S)
           /\ IsFiniteSet(S) <=> Tables!IsFiniteSet(S)
  <1>1. Index!Cardinality(S) = Tables!Cardinality(S)
    BY Zenon DEF Index!Cardinality, Tables!Cardinality
  <1>2. Cardinality(S) = Tables!Cardinality(S)
    BY Zenon DEF Cardinality, Tables!Cardinality
  <1>3. IsFiniteSet(S) <=> Tables!IsFiniteSet(S)
    BY Zenon DEF IsFiniteSet, Tables!IsFiniteSet
  <1> QED
    BY <1>1, <1>2, <1>3, Zenon

LEMMA Assumptions ==
    Tables!ManifestAssumption /\ Tables!BytesAssumption /\ Tables!AbsentAssumption
  <1>1. \A m \in Manifest : IsFiniteSet(m.shards) <=> Tables!IsFiniteSet(m.shards)
    BY SameSize
  <1>2. Tables!ManifestAssumption
    BY <1>1, TablesAssumption, Zenon DEF Tables!ManifestAssumption
  <1>3. Tables!BytesAssumption /\ Tables!AbsentAssumption
    BY TablesAssumption DEF Tables!BytesAssumption, Tables!AbsentAssumption,
         Tables!QuotaRow, Tables!Event, Index!QuotaRow, Index!Event
  <1> QED
    BY <1>2, <1>3

LEMMA SameSwap ==
    ASSUME NEW old, NEW new
    PROVE  Index!SwapRefs(old, new) = Tables!SwapRefs(old, new)
  <1>1. \A m, h : Index!Copies(m, h) = Tables!Copies(m, h)
    BY SameSize, Zenon DEF Index!Copies, Tables!Copies, Index!ShardsOf, Tables!ShardsOf
  <1> QED
    BY <1>1, Zenon DEF Index!SwapRefs, Tables!SwapRefs, Index!Floor0, Tables!Floor0

LEMMA SameCommands ==
    ASSUME NEW caller, NEW o, NEW m
    PROVE  /\ Index!CommitManifest(caller, o, m) => Tables!CommitManifest(caller, o, m)
           /\ Index!RepairManifest(caller, o, m) => Tables!RepairManifest(caller, o, m)
           /\ Index!DeleteManifest(caller, o) => Tables!DeleteManifest(caller, o)
  <1>1. Index!CommitManifest(caller, o, m) => Tables!CommitManifest(caller, o, m)
    BY SameSwap, Zenon
       DEF Index!CommitManifest, Index!Fits, Index!Debited, Index!QuotaOf, Index!Released,
           Index!Floor0, Index!SizeOf, Index!operatorVars,
           Tables!CommitManifest, Tables!Fits, Tables!Debited, Tables!QuotaOf, Tables!Released,
           Tables!Floor0, Tables!SizeOf, Tables!operatorVars
  <1>2. Index!RepairManifest(caller, o, m) => Tables!RepairManifest(caller, o, m)
    BY SameSwap, Zenon
       DEF Index!RepairManifest, Index!Adjusted, Index!Fits, Index!Debited, Index!QuotaOf,
           Index!Released, Index!Floor0, Index!SizeOf, Index!operatorVars,
           Tables!RepairManifest, Tables!Adjusted, Tables!Fits, Tables!Debited, Tables!QuotaOf,
           Tables!Released, Tables!Floor0, Tables!SizeOf, Tables!operatorVars
  <1>3. Index!DeleteManifest(caller, o) => Tables!DeleteManifest(caller, o)
    BY SameSwap, Zenon
       DEF Index!DeleteManifest, Index!Released, Index!Floor0, Index!SizeOf, Index!operatorVars,
           Tables!DeleteManifest, Tables!Released, Tables!Floor0, Tables!SizeOf,
           Tables!operatorVars
  <1> QED
    BY <1>1, <1>2, <1>3

\* The blobs a manifest places on node n.
Carried(m, n) == {h \in Blob : \E s \in Tables!ShardsOf(m) : s.node_id = n /\ s.blob_hash = h}

LEMMA PlacedCarried ==
    ASSUME NEW n
    PROVE  /\ PlacedOn(n) = UNION {Carried(manifests[o], n) : o \in Object}
           /\ PlacedOn(n)' = UNION {Carried(manifests'[o], n) : o \in Object}
  BY DEF PlacedOn, Carried, Index!ShardsOf, Tables!ShardsOf

\* What a put, a delete or a repair does to the tables: a command that replaces one
\* object's manifest by new, or by nothing.
Swaps(o, new) ==
    /\ [Tables!NextAll]_(Tables!vars)
    /\ o \in Object
    /\ manifests' = [manifests EXCEPT ![o] = new]

LEMMA CommitPutSwaps ==
    ASSUME TypeOK, NEW w \in Writer, CommitPut(w)
    PROVE  Swaps(upload[w].object, upload[w].manifest)
  <1>1. upload[w] \in Upload /\ upload[w].object \in Object /\ upload[w].manifest \in Manifest
    BY DEF TypeOK, CommitPut, Upload
  <1>2. Tables!CommitManifest(w, upload[w].object, upload[w].manifest)
    BY SameCommands DEF CommitPut
  <1>3. w \in Account
    BY ShardAssumption
  <1>4. Tables!NextAll
    BY <1>1, <1>2, <1>3 DEF Tables!NextAll, Tables!Next, Tables!ObjectCommand, Tables!Object, Object
  <1> QED
    BY <1>1, <1>2, <1>4 DEF Swaps, Tables!CommitManifest

LEMMA DeleteSwaps ==
    ASSUME NEW w \in Writer, NEW o \in Object, Delete(w, o)
    PROVE  Swaps(o, None)
  <1>1. Tables!DeleteManifest(w, o)
    BY SameCommands DEF Delete
  <1>2. w \in Account
    BY ShardAssumption
  <1>3. Tables!NextAll
    BY <1>1, <1>2 DEF Tables!NextAll, Tables!Next, Tables!ObjectCommand, Tables!Object, Object
  <1> QED
    BY <1>1, <1>3 DEF Swaps, Tables!DeleteManifest

LEMMA CommitRepairSwaps ==
    ASSUME TypeOK, CommitRepair
    PROVE  Swaps(upload[Operator].object, upload[Operator].manifest)
  <1>1. /\ upload[Operator] \in Upload /\ upload[Operator].object \in Object
        /\ upload[Operator].manifest \in Manifest
    BY DEF TypeOK, CommitRepair, Upload
  <1>2. Tables!RepairManifest(Operator, upload[Operator].object, upload[Operator].manifest)
    BY SameCommands DEF CommitRepair
  <1>3. Operator \in Account
    BY ShardAssumption
  <1>4. Tables!NextAll
    BY <1>1, <1>2, <1>3 DEF Tables!NextAll, Tables!Next, Tables!ObjectCommand, Tables!Object, Object
  <1> QED
    BY <1>1, <1>2, <1>4 DEF Swaps, Tables!RepairManifest

\* Every step is one of those or leaves the tables alone.
LEMMA TablesStep ==
    ASSUME TypeOK, [Next]_vars
    PROVE  [Tables!NextAll]_(Tables!vars)
  <1>1. CASE UNCHANGED tables
    BY <1>1 DEF tables, Tables!vars, Tables!objectVars, Tables!operatorVars
  <1>2. ASSUME NEW w \in Writer, Put(w)
        PROVE  UNCHANGED tables \/ [Tables!NextAll]_(Tables!vars)
    BY <1>2, CommitPutSwaps, DeleteSwaps DEF Put, StartPut, Swaps
  <1>3. ASSUME Repair
        PROVE  UNCHANGED tables \/ [Tables!NextAll]_(Tables!vars)
    BY <1>3, CommitRepairSwaps DEF Repair, StartRepair, PlanRepair, Swaps
  <1>4. ASSUME NEW w, Pull(w) \/ Abandon(w)
        PROVE  UNCHANGED tables
    BY <1>4 DEF Pull, Abandon
  <1>5. ASSUME NEW n, NEW h, Gc(n) \/ Lose(n, h)
        PROVE  UNCHANGED tables
    BY <1>5 DEF Gc, GcList, GcQuery, GcAbort, GcSweep, Lose
  <1>6. CatchUp \/ UNCHANGED vars => UNCHANGED tables
    BY DEF CatchUp, vars
  <1> QED
    BY <1>1, <1>2, <1>3, <1>4, <1>5, <1>6 DEF Next

-----------------------------------------------------------------------------
(* Type correctness.                                                       *)

LEMMA InitTyped == Init => TypeOK
  <1> SUFFICES ASSUME Init
               PROVE  TypeOK
    OBVIOUS
  <1>1. Tables!TypeOK
    <2>1. Operator \in Account
      BY ShardAssumption
    <2>2. manifests \in [Tables!Object -> Manifest \cup {None}]
      BY DEF Init, Object, Tables!Object
    <2> QED
      BY <2>1, <2>2 DEF Init, Tables!TypeOK
  <1>2. UploadsTyped
    BY DEF Init, UploadsTyped
  <1>3. StaleTyped
    BY DEF Init, StaleTyped
  <1>4. NodesTyped
    BY ShardAssumption DEF Init, NodesTyped, Cycle, IdleCycle
  <1>5. SettledTyped
    BY DEF Init, SettledTyped
  <1> QED
    BY <1>1, <1>2, <1>3, <1>4, <1>5, Parts

\* The steps that change manifests.
LEMMA ManifestSteps ==
    ASSUME [Next]_vars
    PROVE  \/ UNCHANGED manifests \/ CommitRepair
           \/ \E w \in Writer : CommitPut(w) \/ \E o \in Object : Delete(w, o)
  <1>1. ASSUME NEW w, Put(w)
        PROVE  CommitPut(w) \/ (\E o \in Object : Delete(w, o)) \/ UNCHANGED manifests
    BY <1>1 DEF Put, StartPut, tables
  <1>2. Repair => CommitRepair \/ UNCHANGED manifests
    BY DEF Repair, StartRepair, PlanRepair, tables
  <1>3. ASSUME NEW w, Pull(w) \/ Abandon(w)
        PROVE  UNCHANGED manifests
    BY <1>3 DEF Pull, Abandon, tables
  <1>4. ASSUME NEW n, NEW h, Gc(n) \/ Lose(n, h)
        PROVE  UNCHANGED manifests
    BY <1>4 DEF Gc, GcList, GcQuery, GcAbort, GcSweep, Lose, tables
  <1>5. CatchUp \/ UNCHANGED vars => UNCHANGED manifests
    BY DEF CatchUp, vars, tables
  <1> QED
    BY <1>1, <1>2, <1>3, <1>4, <1>5 DEF Next

\* The theorems of IndexState hold of the tables here.
LEMMA TablesTyped ==
    ASSUME TypeOK, [Next]_vars
    PROVE  Tables!TypeOK'
  <1>1. Tables!TypeOK /\ [Tables!NextAll]_(Tables!vars)
    BY TablesStep, Parts
  <1> QED
    BY <1>1, Assumptions, Tables!StepTyped

\* What is placed is a set of blobs, and a step on the tables may only unsettle.
LEMMA StillSettledTyped ==
    ASSUME SettledTyped, StillSettled
    PROVE  SettledTyped'
  BY DEF SettledTyped, StillSettled

LEMMA PlannedTyped ==
    ASSUME NEW o \in Object, NEW base \in Manifest \cup {None}, NEW m \in Manifest
    PROVE  Planned(o, base, m) \in Upload
  <1>1. m.shards \in SUBSET UNION {n.shards : n \in Manifest}
    BY Zenon
  <1>2. 0 \in 0..Attempts-1
    BY ShardAssumption
  <1> QED
    BY <1>1, <1>2, Zenon DEF Planned, Upload

LEMMA RepliedTyped ==
    ASSUME UploadsTyped, NEW w \in Writer \cup {Operator}, upload[w] # None, Replied(w),
           UNCHANGED built
    PROVE  UploadsTyped'
  <1>1. upload[w] \in Upload
    BY DEF UploadsTyped
  <1>2. CASE upload' = [upload EXCEPT ![w] = None]
    BY <1>2 DEF UploadsTyped
  <1>3. CASE upload[w].sent + 1 < Attempts /\ upload' = [upload EXCEPT ![w].sent = @ + 1]
    <2>1. upload[w].sent + 1 \in 0..Attempts-1
      BY <1>1, <1>3, ShardAssumption DEF Upload
    <2>2. [upload[w] EXCEPT !.sent = @ + 1] \in Upload
      BY <1>1, <2>1 DEF Upload
    <2> QED
      BY <1>3, <2>2 DEF UploadsTyped
  <1> QED
    BY <1>2, <1>3 DEF Replied

LEMMA PutTyped ==
    ASSUME TypeOK, NEW w \in Writer, Put(w)
    PROVE  UploadsTyped' /\ StaleTyped' /\ NodesTyped' /\ SettledTyped'
  <1> USE Parts
  <1>1. ASSUME NEW o \in Object, NEW m \in PutManifest, StartPut(w, o, m)
        PROVE  UploadsTyped' /\ StaleTyped' /\ NodesTyped' /\ SettledTyped'
    <2>1. Planned(o, None, m) \in Upload
      BY PlannedTyped, ShardAssumption
    <2>2. UploadsTyped'
      BY <1>1, <2>1 DEF StartPut, UploadsTyped
    <2>3. StaleTyped' /\ NodesTyped' /\ SettledTyped'
      BY <1>1 DEF StartPut, StaleTyped, NodesTyped, SettledTyped
    <2> QED
      BY <2>2, <2>3
  <1>2. CASE CommitPut(w)
    <2>1. UploadsTyped'
      BY <1>2, RepliedTyped DEF CommitPut
    <2>2. StaleTyped' /\ NodesTyped' /\ SettledTyped'
      BY <1>2, StillSettledTyped DEF CommitPut, StaleTyped, NodesTyped
    <2> QED
      BY <2>1, <2>2
  <1>3. ASSUME NEW o \in Object, Delete(w, o)
        PROVE  UploadsTyped' /\ StaleTyped' /\ NodesTyped' /\ SettledTyped'
    BY <1>3, StillSettledTyped DEF Delete, UploadsTyped, StaleTyped, NodesTyped
  <1> QED
    BY <1>1, <1>2, <1>3 DEF Put

LEMMA PullTyped ==
    ASSUME TypeOK, NEW w \in Writer \cup {Operator}, Pull(w)
    PROVE  UploadsTyped' /\ StaleTyped' /\ NodesTyped' /\ SettledTyped'
  <1> USE Parts
  <1>1. upload[w] \in Upload
    BY DEF Pull, UploadsTyped
  <1> PICK s \in upload[w].left :
          /\ store' = [store EXCEPT ![s.node_id] = @ \cup {s.blob_hash}]
          /\ upload' = [upload EXCEPT ![w].left = @ \ {s}]
    BY DEF Pull
  <1>2. s.blob_hash \in Blob
    <2>1. s \in UNION {m.shards : m \in Manifest}
      BY <1>1 DEF Upload
    <2> QED
      BY <2>1, TablesAssumption
  <1>3. [upload[w] EXCEPT !.left = @ \ {s}] \in Upload
    BY <1>1 DEF Upload
  <1>4. UploadsTyped'
    BY <1>3 DEF Pull, UploadsTyped
  <1>5. NodesTyped'
    BY <1>2 DEF Pull, NodesTyped
  <1> QED
    BY <1>4, <1>5 DEF Pull, StaleTyped, SettledTyped

LEMMA AbandonTyped ==
    ASSUME TypeOK, NEW w \in Writer \cup {Operator}, Abandon(w)
    PROVE  UploadsTyped' /\ StaleTyped' /\ NodesTyped' /\ SettledTyped'
  BY Parts DEF Abandon, UploadsTyped, StaleTyped, NodesTyped, SettledTyped

\* The blobs a node holds or has held.
Held == [n \in Node |-> store[n] \cup removed[n]]

\* An upload that is not planned yet knows its base; of a planned one, every shard that is
\* not left to be pulled is held, or was, where it goes.
Sound(u, held) ==
    u # None =>
        IF u.manifest = None THEN u.base \in Manifest
        ELSE \A s \in u.manifest.shards \ u.left :
                s.node_id \in Node => s.blob_hash \in held[s.node_id]
UploadsSound == \A w \in Writer \cup {Operator} : Sound(upload[w], Held)

LEMMA RepairTyped ==
    ASSUME TypeOK, UploadsSound, Repair
    PROVE  UploadsTyped' /\ StaleTyped' /\ NodesTyped' /\ SettledTyped'
  <1> USE Parts
  <1>1. ASSUME NEW o \in Object, StartRepair(o)
        PROVE  UploadsTyped' /\ StaleTyped' /\ NodesTyped' /\ SettledTyped'
    <2> PICK m \in Read(o) :
            upload' = [upload EXCEPT ![Operator] =
                [object |-> o, base |-> m, manifest |-> None, left |-> {}, sent |-> 0]]
      BY <1>1 DEF StartRepair
    <2>1. m \in Manifest
      BY DEF Read, Tables!TypeOK, Tables!Object, Object, StaleTyped
    <2>2. 0 \in 0..Attempts-1
      BY ShardAssumption
    <2>3. [object |-> o, base |-> m, manifest |-> None, left |-> {}, sent |-> 0] \in Upload
      BY <2>1, <2>2 DEF Upload
    <2>4. UploadsTyped'
      BY <1>1, <2>3 DEF StartRepair, UploadsTyped
    <2> QED
      BY <1>1, <2>4 DEF StartRepair, StaleTyped, NodesTyped, SettledTyped
  <1>2. CASE PlanRepair
    <2> PICK m \in Repairs[upload[Operator].base] :
            upload' = [upload EXCEPT ![Operator] =
                Planned(upload[Operator].object, upload[Operator].base, m)]
      BY <1>2 DEF PlanRepair
    <2>1. upload[Operator] \in Upload
      BY <1>2 DEF PlanRepair, UploadsTyped
    <2>2. upload[Operator].object \in Object /\ upload[Operator].base \in Manifest \cup {None}
      BY <2>1 DEF Upload
    <2>3. m \in Manifest
      BY <1>2, ShardAssumption DEF UploadsSound, Sound, PlanRepair
    <2>4. UploadsTyped'
      BY <1>2, <2>2, <2>3, PlannedTyped DEF PlanRepair, UploadsTyped
    <2> QED
      BY <1>2, <2>4 DEF PlanRepair, StaleTyped, NodesTyped, SettledTyped
  <1>3. CASE CommitRepair
    <2>1. UploadsTyped'
      BY <1>3, RepliedTyped DEF CommitRepair
    <2>2. StaleTyped' /\ NodesTyped' /\ SettledTyped'
      BY <1>3, StillSettledTyped DEF CommitRepair, StaleTyped, NodesTyped
    <2> QED
      BY <2>1, <2>2
  <1> QED
    BY <1>1, <1>2, <1>3 DEF Repair

LEMMA GcTyped ==
    ASSUME TypeOK, NEW n \in Node, Gc(n)
    PROVE  UploadsTyped' /\ StaleTyped' /\ NodesTyped' /\ SettledTyped'
  <1> USE Parts
  <1>1. gc[n] \in Cycle /\ store[n] \in SUBSET Blob
    BY DEF NodesTyped
  <1>2. CASE GcList(n)
    <2>1. [phase |-> "listed", all |-> store[n], live |-> {}] \in Cycle
      BY <1>1 DEF Cycle
    <2>2. NodesTyped'
      BY <1>2, <2>1 DEF GcList, NodesTyped
    <2>3. SettledTyped'
      BY <1>1, <1>2 DEF GcList, SettledTyped
    <2> QED
      BY <1>2, <2>2, <2>3 DEF GcList, UploadsTyped, StaleTyped
  <1>3. CASE GcQuery(n)
    <2> PICK doomed : gc' = [gc EXCEPT ![n].phase = "queried", ![n].live = gc[n].all \ doomed]
      BY <1>3 DEF GcQuery
    <2>1. [gc[n] EXCEPT !.phase = "queried", !.live = gc[n].all \ doomed] \in Cycle
      BY <1>1 DEF Cycle
    <2>2. NodesTyped'
      BY <1>3, <2>1 DEF GcQuery, NodesTyped
    <2> QED
      BY <1>3, <2>2 DEF GcQuery, UploadsTyped, StaleTyped, SettledTyped
  <1>4. CASE GcAbort(n)
    BY <1>4 DEF GcAbort, UploadsTyped, StaleTyped, NodesTyped, SettledTyped, Cycle, IdleCycle
  <1>5. CASE GcSweep(n)
    <2>1. IdleCycle \in Cycle
      BY DEF Cycle, IdleCycle
    <2>2. NodesTyped'
      BY <1>1, <1>5, <2>1 DEF GcSweep, NodesTyped
    <2> QED
      BY <1>5, <2>2 DEF GcSweep, UploadsTyped, StaleTyped, SettledTyped
  <1> QED
    BY <1>2, <1>3, <1>4, <1>5 DEF Gc

LEMMA LoseTyped ==
    ASSUME TypeOK, NEW n \in Node, NEW h \in Blob, Lose(n, h)
    PROVE  UploadsTyped' /\ StaleTyped' /\ NodesTyped' /\ SettledTyped'
  <1> USE Parts
  <1>1. losses' \in 0..MaxLosses
    BY ShardAssumption DEF Lose, NodesTyped
  <1> QED
    BY <1>1 DEF Lose, UploadsTyped, StaleTyped, NodesTyped, SettledTyped

LEMMA CatchUpTyped ==
    ASSUME TypeOK, CatchUp
    PROVE  UploadsTyped' /\ StaleTyped' /\ NodesTyped' /\ SettledTyped'
  BY Parts DEF CatchUp, UploadsTyped, StaleTyped, NodesTyped, SettledTyped, Tables!TypeOK,
       Tables!Object, Object

LEMMA StepTyped == TypeOK /\ UploadsSound /\ [Next]_vars => TypeOK'
  <1> SUFFICES ASSUME TypeOK, UploadsSound, [Next]_vars
               PROVE  UploadsTyped' /\ StaleTyped' /\ NodesTyped' /\ SettledTyped'
    BY TablesTyped, Parts
  <1>1. CASE UNCHANGED vars
    BY <1>1, Parts DEF vars, UploadsTyped, StaleTyped, NodesTyped, SettledTyped
  <1>2. CASE Next
    BY <1>2, PutTyped, PullTyped, AbandonTyped, RepairTyped, GcTyped, LoseTyped, CatchUpTyped
       DEF Next
  <1> QED
    BY <1>1, <1>2

-----------------------------------------------------------------------------
(* Uploads.                                                                *)

\* What a node holds or held only grows.
LEMMA HeldGrows ==
    ASSUME TypeOK, [Next]_vars, NEW n \in Node
    PROVE  Held[n] \subseteq Held'[n]
  <1> SUFFICES store[n] \cup removed[n] \subseteq store'[n] \cup removed'[n]
    BY DEF Held
  <1> USE Parts
  <1>1. CASE UNCHANGED <<store, removed>>
    BY <1>1
  <1>2. ASSUME NEW w, Pull(w)
        PROVE  store[n] \cup removed[n] \subseteq store'[n] \cup removed'[n]
    BY <1>2 DEF Pull, NodesTyped
  <1>3. ASSUME NEW m, GcSweep(m)
        PROVE  store[n] \cup removed[n] \subseteq store'[n] \cup removed'[n]
    BY <1>3 DEF GcSweep, NodesTyped
  <1>4. ASSUME NEW m, NEW h, Lose(m, h)
        PROVE  store[n] \cup removed[n] \subseteq store'[n] \cup removed'[n]
    BY <1>4 DEF Lose, NodesTyped
  <1>5. ASSUME NEW w \in Writer, Put(w)
        PROVE  UNCHANGED <<store, removed>>
    BY <1>5 DEF Put, StartPut, CommitPut, Delete
  <1>6. ASSUME Repair
        PROVE  UNCHANGED <<store, removed>>
    BY <1>6 DEF Repair, StartRepair, PlanRepair, CommitRepair
  <1>7. ASSUME NEW m, GcList(m) \/ GcQuery(m) \/ GcAbort(m)
        PROVE  UNCHANGED <<store, removed>>
    BY <1>7 DEF GcList, GcQuery, GcAbort
  <1>8. (\E w : Abandon(w)) \/ CatchUp \/ UNCHANGED vars => UNCHANGED <<store, removed>>
    BY DEF Abandon, CatchUp, vars
  <1> QED
    BY <1>1, <1>2, <1>3, <1>4, <1>5, <1>6, <1>7, <1>8 DEF Next, Gc

LEMMA SoundGrows ==
    ASSUME NEW u, NEW held, NEW more, Sound(u, held), \A n \in Node : held[n] \subseteq more[n]
    PROVE  Sound(u, more)
  BY DEF Sound

\* All of the shards of a planned upload are left.
LEMMA PlannedSound ==
    ASSUME NEW o, NEW base, NEW m \in Manifest, NEW held
    PROVE  Sound(Planned(o, base, m), held)
  BY TablesAssumption DEF Planned, Sound

\* One upload changes, and what it becomes is sound.
LEMMA OneUpload ==
    ASSUME TypeOK, UploadsSound, [Next]_vars, NEW w \in Writer \cup {Operator}, NEW new,
           upload' = [upload EXCEPT ![w] = new], Sound(new, Held')
    PROVE  UploadsSound'
  <1> SUFFICES ASSUME NEW v \in Writer \cup {Operator}
               PROVE  Sound(upload'[v], Held')
    BY DEF UploadsSound
  <1>1. \A n \in Node : Held[n] \subseteq Held'[n]
    BY HeldGrows
  <1>2. upload'[v] = IF v = w THEN new ELSE upload[v]
    BY DEF TypeOK
  <1>3. Sound(upload[v], Held)
    BY DEF UploadsSound
  <1>4. Sound(upload[v], Held')
    BY <1>1, <1>3, SoundGrows
  <1> QED
    BY <1>2, <1>4

LEMMA NoneSound ==
    ASSUME NEW held
    PROVE  Sound(None, held)
  BY DEF Sound

LEMMA RepliedSound ==
    ASSUME TypeOK, UploadsSound, [Next]_vars, NEW w \in Writer \cup {Operator},
           upload[w] # None, Replied(w)
    PROVE  UploadsSound'
  <1>1. CASE upload' = [upload EXCEPT ![w] = None]
    BY <1>1, OneUpload, NoneSound
  <1>2. CASE upload' = [upload EXCEPT ![w].sent = @ + 1]
    <2> DEFINE new == [upload[w] EXCEPT !.sent = @ + 1]
    <2>1. upload[w] \in Upload
      BY DEF TypeOK
    <2>2. /\ new.manifest = upload[w].manifest /\ new.left = upload[w].left
          /\ new.base = upload[w].base
      BY <2>1 DEF Upload
    <2>3. Sound(upload[w], Held')
      BY HeldGrows, SoundGrows DEF UploadsSound
    <2>4. upload' = [upload EXCEPT ![w] = new]
      BY <1>2
    <2> HIDE DEF new
    <2>5. Sound(new, Held')
      BY <2>2, <2>3 DEF Sound
    <2> QED
      BY <2>4, <2>5, OneUpload
  <1> QED
    BY <1>1, <1>2 DEF Replied

LEMMA PullSound ==
    ASSUME TypeOK, UploadsSound, [Next]_vars, NEW w \in Writer \cup {Operator}, Pull(w)
    PROVE  UploadsSound'
  <1> PICK s \in upload[w].left :
          /\ store' = [store EXCEPT ![s.node_id] = @ \cup {s.blob_hash}]
          /\ upload' = [upload EXCEPT ![w].left = @ \ {s}]
    BY DEF Pull
  <1> DEFINE new == [upload[w] EXCEPT !.left = @ \ {s}]
  <1>1. upload[w] \in Upload /\ upload[w] # None
    BY DEF TypeOK, Pull
  <1>2. /\ new.manifest = upload[w].manifest /\ new.left = upload[w].left \ {s}
        /\ new.base = upload[w].base
    BY <1>1 DEF Upload
  <1>3. Sound(upload[w], Held')
    BY HeldGrows, SoundGrows DEF UploadsSound
  <1>4. s.node_id \in Node => s.blob_hash \in Held'[s.node_id]
    BY DEF TypeOK, Held
  <1>5. upload' = [upload EXCEPT ![w] = new]
    OBVIOUS
  <1> HIDE DEF new
  <1>6. Sound(new, Held')
    BY <1>1, <1>2, <1>3, <1>4 DEF Sound
  <1> QED
    BY <1>5, <1>6, OneUpload

LEMMA StepSound == TypeOK /\ UploadsSound /\ [Next]_vars => UploadsSound'
  <1> SUFFICES ASSUME TypeOK, UploadsSound, [Next]_vars
               PROVE  UploadsSound'
    OBVIOUS
  <1>1. CASE UNCHANGED upload
    BY <1>1, HeldGrows, SoundGrows DEF UploadsSound
  <1>2. ASSUME NEW w \in Writer, Put(w)
        PROVE  UploadsSound'
    <2>1. ASSUME NEW o \in Object, NEW m \in PutManifest, StartPut(w, o, m)
          PROVE  UploadsSound'
      BY <2>1, PlannedSound, OneUpload, ShardAssumption DEF StartPut
    <2>2. CASE CommitPut(w)
      BY <2>2, RepliedSound DEF CommitPut
    <2>3. ASSUME NEW o \in Object, Delete(w, o)
          PROVE  UploadsSound'
      BY <1>1, <2>3 DEF Delete
    <2> QED
      BY <1>2, <2>1, <2>2, <2>3 DEF Put
  <1>3. ASSUME NEW w \in Writer \cup {Operator}, Abandon(w)
        PROVE  UploadsSound'
    BY <1>3, NoneSound, OneUpload DEF Abandon
  <1>4. ASSUME NEW o \in Object, StartRepair(o)
        PROVE  UploadsSound'
    <2> PICK m \in Read(o) :
            upload' = [upload EXCEPT ![Operator] =
                [object |-> o, base |-> m, manifest |-> None, left |-> {}, sent |-> 0]]
      BY <1>4 DEF StartRepair
    <2> DEFINE new == [object |-> o, base |-> m, manifest |-> None, left |-> {}, sent |-> 0]
    <2>1. m \in Manifest
      BY Parts DEF Read, Tables!TypeOK, Tables!Object, Object, StaleTyped
    <2>2. Sound(new, Held')
      BY <2>1 DEF Sound
    <2> QED
      BY <2>2, OneUpload
  <1>5. CASE PlanRepair
    <2> PICK m \in Repairs[upload[Operator].base] :
            upload' = [upload EXCEPT ![Operator] =
                Planned(upload[Operator].object, upload[Operator].base, m)]
      BY <1>5 DEF PlanRepair
    <2>1. m \in Manifest
      BY <1>5, ShardAssumption DEF UploadsSound, Sound, PlanRepair
    <2> QED
      BY <2>1, PlannedSound, OneUpload
  <1>6. CASE CommitRepair
    BY <1>6, RepliedSound DEF CommitRepair
  <1>7. ASSUME NEW n, NEW h, Gc(n) \/ Lose(n, h)
        PROVE  UploadsSound'
    BY <1>1, <1>7 DEF Gc, GcList, GcQuery, GcAbort, GcSweep, Lose
  <1>8. CatchUp \/ UNCHANGED vars => UNCHANGED upload
    BY DEF CatchUp, vars
  <1> QED
    BY <1>1, <1>2, <1>3, <1>4, <1>5, <1>6, <1>7, <1>8, PullSound DEF Next, Repair

LEMMA InitSound == Init => UploadsSound
  BY DEF Init, UploadsSound, Sound

\* Every variable stays in its type, with any nodes, accounts, placements and repairs.
THEOREM TypeCorrect == Spec => []TypeOK
  <1>1. Init => TypeOK /\ UploadsSound
    BY InitTyped, InitSound
  <1>2. TypeOK /\ UploadsSound /\ [Next]_vars => (TypeOK /\ UploadsSound)'
    BY StepTyped, StepSound
  <1> QED
    BY <1>1, <1>2, PTL DEF Spec

-----------------------------------------------------------------------------
(* A placement follows the acknowledgement of its blob.                    *)

\* A swap places nothing new but the shards of the new manifest.
LEMMA SwapPlaces ==
    ASSUME TypeOK, NEW o, NEW new, Swaps(o, new), NEW n
    PROVE  PlacedOn(n)' \subseteq PlacedOn(n) \cup Carried(new, n)
  <1>1. \A p \in Object : manifests'[p] = manifests[p] \/ manifests'[p] = new
    BY Parts DEF Swaps, Tables!TypeOK, Tables!Object, Object
  <1> QED
    BY <1>1, PlacedCarried

LEMMA PlacedSame ==
    ASSUME UNCHANGED manifests, NEW n
    PROVE  PlacedOn(n)' = PlacedOn(n)
  BY DEF PlacedOn

\* A swap of o that places only held shards keeps the invariant.
LEMMA SwapAcked ==
    ASSUME TypeOK, AckedBeforeCommit, [Next]_vars, NEW o, NEW new, Swaps(o, new),
           \A n \in Node : Carried(new, n) \subseteq Held[n]
    PROVE  AckedBeforeCommit'
  <1> SUFFICES ASSUME NEW n \in Node
               PROVE  PlacedOn(n)' \subseteq Held'[n]
    BY DEF AckedBeforeCommit, Held
  <1>1. PlacedOn(n) \subseteq Held[n]
    BY DEF AckedBeforeCommit, Held
  <1> QED
    BY <1>1, SwapPlaces, HeldGrows

\* The shards of an upload with nothing left are held.
LEMMA DoneHeld ==
    ASSUME UploadsSound, NEW w \in Writer \cup {Operator}, NEW n \in Node,
           upload[w] # None, upload[w].manifest # None, upload[w].left = {}
    PROVE  Carried(upload[w].manifest, n) \subseteq Held[n]
  BY DEF UploadsSound, Sound, Carried, Tables!ShardsOf

LEMMA StepAcked ==
    TypeOK /\ UploadsSound /\ AckedBeforeCommit /\ [Next]_vars => AckedBeforeCommit'
  <1> SUFFICES ASSUME TypeOK, UploadsSound, AckedBeforeCommit, [Next]_vars
               PROVE  AckedBeforeCommit'
    OBVIOUS
  <1>1. CASE UNCHANGED manifests
    <2> SUFFICES ASSUME NEW n \in Node
                 PROVE  PlacedOn(n)' \subseteq Held'[n]
      BY DEF AckedBeforeCommit, Held
    <2>1. PlacedOn(n) \subseteq Held[n]
      BY DEF AckedBeforeCommit, Held
    <2> QED
      BY <1>1, <2>1, PlacedSame, HeldGrows
  <1>2. ASSUME NEW w \in Writer, CommitPut(w)
        PROVE  AckedBeforeCommit'
    <2>1. \A n \in Node : Carried(upload[w].manifest, n) \subseteq Held[n]
      BY <1>2, DoneHeld DEF CommitPut
    <2> QED
      BY <1>2, <2>1, CommitPutSwaps, SwapAcked
  <1>3. CASE CommitRepair
    <2>1. \A n \in Node : Carried(upload[Operator].manifest, n) \subseteq Held[n]
      BY <1>3, DoneHeld DEF CommitRepair
    <2> QED
      BY <1>3, <2>1, CommitRepairSwaps, SwapAcked
  <1>4. ASSUME NEW w \in Writer, NEW o \in Object, Delete(w, o)
        PROVE  AckedBeforeCommit'
    <2>1. \A n \in Node : Carried(None, n) = {}
      BY DEF Carried, Tables!ShardsOf
    <2> QED
      BY <1>4, <2>1, DeleteSwaps, SwapAcked
  <1>5. \/ UNCHANGED manifests \/ CommitRepair
        \/ \E w \in Writer : CommitPut(w) \/ \E o \in Object : Delete(w, o)
    BY ManifestSteps
  <1> QED
    BY <1>1, <1>2, <1>3, <1>4, <1>5

\* A stored manifest places a blob on a node only if that node acknowledged it, whatever
\* is retried, abandoned, repaired, lost and collected.
THEOREM PlacementsAreAcked == Spec => []AckedBeforeCommit
  <1>1. Init => TypeOK /\ UploadsSound /\ AckedBeforeCommit
    <2>1. Init => \A n \in Node : PlacedOn(n) = {}
      BY DEF Init, PlacedOn, Index!ShardsOf
    <2> QED
      BY <2>1, InitTyped, InitSound DEF AckedBeforeCommit
  <1>2. TypeOK /\ UploadsSound /\ AckedBeforeCommit /\ [Next]_vars
            => (TypeOK /\ UploadsSound /\ AckedBeforeCommit)'
    BY StepTyped, StepSound, StepAcked
  <1> QED
    BY <1>1, <1>2, PTL DEF Spec

-----------------------------------------------------------------------------
(* A collection keeps what is settled.                                     *)

\* What a cycle may delete later spares what is settled, and that is placed.
CyclesSpare ==
    \A n \in Node :
        /\ settled[n] \subseteq store[n] \cap PlacedOn(n)
        /\ gc[n].phase = "listed" => settled[n] \subseteq gc[n].all
        /\ gc[n].phase = "queried" => settled[n] \subseteq gc[n].live

\* A blob that is placed on a node is no candidate of that node.
LEMMA PlacedIsKept ==
    ASSUME TypeOK, Tables!RefsInv, NEW n \in Node, NEW hashes
    PROVE  PlacedOn(n) \cap Index!gc_candidates(n, hashes) = {}
  <1> SUFFICES ASSUME NEW o \in Object, NEW s \in Index!ShardsOf(manifests[o]),
                      s.node_id = n, s.blob_hash \in hashes, s.blob_hash \in Blob
               PROVE  s.blob_hash \in Index!Kept(n, hashes)
    BY DEF PlacedOn, Index!gc_candidates
  <1> DEFINE h == s.blob_hash
  <1>1. <<o, s>> \in Tables!Live(h)
    BY DEF Tables!Live, Tables!Tagged, Tables!Object, Object, Tables!ShardsOf, Index!ShardsOf
  <1>2. shard_refs[h] > 0
    <2>1. /\ Tables!IsFiniteSet(Tables!Live(h))
          /\ shard_refs[h] >= Tables!Cardinality(Tables!Live(h))
          /\ shard_refs[h] \in Nat
      BY Parts DEF Tables!RefsInv, Tables!TypeOK
    <2>2. IsFiniteSet(Tables!Live(h)) /\ shard_refs[h] >= Cardinality(Tables!Live(h))
      BY <2>1, SameSize, Zenon
    <2>3. Cardinality(Tables!Live(h)) \in Nat /\ Cardinality(Tables!Live(h)) # 0
      BY <1>1, <2>2, FS_EmptySet, FS_CardinalityType
    <2> QED
      BY <2>1, <2>2, <2>3
  <1> QED
    BY <1>2 DEF Index!Kept, Index!Object, Object

LEMMA InitSpares == Init => Tables!RefsInv /\ CyclesSpare
  <1> SUFFICES ASSUME Init
               PROVE  Tables!RefsInv /\ CyclesSpare
    OBVIOUS
  <1>1. ASSUME NEW h \in Blob
        PROVE  Tables!Live(h) = {}
    BY DEF Init, Tables!Live, Tables!Tagged, Tables!ShardsOf, Tables!Object, Object
  <1>2. ASSUME NEW h \in Blob
        PROVE  /\ Tables!IsFiniteSet(Tables!Live(h))
               /\ shard_refs[h] >= Tables!Cardinality(Tables!Live(h))
    <2>1. IsFiniteSet(Tables!Live(h)) /\ Cardinality(Tables!Live(h)) = 0
      BY <1>1, FS_EmptySet
    <2>2. Tables!IsFiniteSet(Tables!Live(h)) /\ Tables!Cardinality(Tables!Live(h)) = 0
      BY <2>1, SameSize, Zenon
    <2>3. shard_refs[h] = 0
      BY DEF Init
    <2> QED
      BY <2>2, <2>3
  <1>3. Tables!RefsInv
    BY <1>2 DEF Tables!RefsInv
  <1>4. CyclesSpare
    BY DEF Init, CyclesSpare, IdleCycle
  <1> QED
    BY <1>3, <1>4

LEMMA StepRefs ==
    ASSUME TypeOK, Tables!RefsInv, [Next]_vars
    PROVE  Tables!RefsInv'
  <1>1. Tables!TypeOK /\ [Tables!NextAll]_(Tables!vars)
    BY TablesStep, Parts
  <1> QED
    BY <1>1, Assumptions, Tables!RefsInvStep

\* Steps on the tables leave the cycles and stores alone, and unsettle what they move.
LEMMA SwapSpares ==
    ASSUME CyclesSpare, StillSettled, UNCHANGED <<store, gc>>
    PROVE  CyclesSpare'
  BY DEF CyclesSpare, StillSettled

LEMMA CycleSpares ==
    ASSUME TypeOK, Tables!RefsInv, FreshReads, CyclesSpare, NEW n \in Node, Gc(n)
    PROVE  CyclesSpare'
  <1>1. \A m \in Node : PlacedOn(m)' = PlacedOn(m)
    BY PlacedSame DEF Gc, GcList, GcQuery, GcAbort, GcSweep, tables
  <1>2. gc[n] \in Cycle
    BY DEF TypeOK
  <1>3. CASE GcList(n)
    BY <1>1, <1>3 DEF GcList, CyclesSpare, TypeOK
  <1>4. CASE GcQuery(n)
    <2> PICK doomed \in IF gc[n].all = {} THEN {{}} ELSE Answers(n, gc[n].all) :
            gc' = [gc EXCEPT ![n].phase = "queried", ![n].live = gc[n].all \ doomed]
      BY <1>4 DEF GcQuery
    <2>1. doomed = {} \/ doomed = Index!gc_candidates(n, gc[n].all)
      BY DEF Answers
    <2>2. PlacedOn(n) \cap doomed = {}
      BY <2>1, PlacedIsKept
    <2>3. settled[n] \subseteq gc[n].all \ doomed
      BY <1>4, <2>2 DEF GcQuery, CyclesSpare
    <2>4. gc'[n].phase = "queried" /\ gc'[n].live = gc[n].all \ doomed
      BY <1>2 DEF TypeOK, Cycle
    <2>5. \A m \in Node \ {n} : gc'[m] = gc[m]
      BY DEF TypeOK
    <2>6. UNCHANGED <<store, settled>>
      BY <1>4 DEF GcQuery
    <2> QED
      BY <1>1, <2>3, <2>4, <2>5, <2>6 DEF CyclesSpare
  <1>5. CASE GcAbort(n)
    BY <1>1, <1>5 DEF GcAbort, CyclesSpare, TypeOK, IdleCycle
  <1>6. CASE GcSweep(n)
    BY <1>1, <1>6 DEF GcSweep, CyclesSpare, TypeOK, IdleCycle
  <1> QED
    BY <1>3, <1>4, <1>5, <1>6 DEF Gc

LEMMA StepSpares ==
    TypeOK /\ Tables!RefsInv /\ FreshReads /\ CyclesSpare /\ [Next]_vars => CyclesSpare'
  <1> SUFFICES ASSUME TypeOK, Tables!RefsInv, FreshReads, CyclesSpare, [Next]_vars
               PROVE  CyclesSpare'
    OBVIOUS
  <1>1. CASE UNCHANGED <<manifests, store, gc, settled>>
    BY <1>1, PlacedSame DEF CyclesSpare
  <1>2. ASSUME NEW w \in Writer, Put(w)
        PROVE  CyclesSpare'
    <2>1. ASSUME NEW o, NEW m, StartPut(w, o, m)
          PROVE  CyclesSpare'
      BY <1>1, <2>1 DEF StartPut, tables
    <2>2. ASSUME NEW o, CommitPut(w) \/ Delete(w, o)
          PROVE  CyclesSpare'
      BY <2>2, SwapSpares DEF CommitPut, Delete
    <2> QED
      BY <1>2, <2>1, <2>2 DEF Put
  <1>3. CASE Repair
    <2>1. ASSUME NEW o, StartRepair(o) \/ PlanRepair
          PROVE  CyclesSpare'
      BY <1>1, <2>1 DEF StartRepair, PlanRepair, tables
    <2>2. CASE CommitRepair
      BY <2>2, SwapSpares DEF CommitRepair
    <2> QED
      BY <1>3, <2>1, <2>2 DEF Repair
  <1>4. ASSUME NEW w, Pull(w)
        PROVE  CyclesSpare'
    <2>1. \A n \in Node : PlacedOn(n)' = PlacedOn(n)
      BY <1>4, PlacedSame DEF Pull, tables
    <2>2. \A n \in Node : store[n] \subseteq store'[n]
      BY <1>4 DEF Pull, TypeOK
    <2>3. UNCHANGED <<gc, settled>>
      BY <1>4 DEF Pull
    <2> QED
      BY <2>1, <2>2, <2>3 DEF CyclesSpare
  <1>5. ASSUME NEW n \in Node, NEW h \in Blob, Lose(n, h)
        PROVE  CyclesSpare'
    <2>1. \A m \in Node : PlacedOn(m)' = PlacedOn(m)
      BY <1>5, PlacedSame DEF Lose, tables
    <2> QED
      BY <1>5, <2>1 DEF Lose, TypeOK, CyclesSpare
  <1>6. (\E w : Abandon(w)) \/ CatchUp \/ UNCHANGED vars
            => UNCHANGED <<manifests, store, gc, settled>>
    BY DEF Abandon, CatchUp, vars, tables
  <1> QED
    BY <1>1, <1>2, <1>3, <1>4, <1>5, <1>6, CycleSpares DEF Next

\* If reads are fresh, no collection deletes a shard that the node held and that was
\* placed there from the moment the cycle listed the store.
THEOREM SettledAreKept == FreshReads => (Spec => []SettledShardsKept)
  <1> SUFFICES ASSUME FreshReads
               PROVE  Spec => []SettledShardsKept
    OBVIOUS
  <1> DEFINE IInv == TypeOK /\ UploadsSound /\ Tables!RefsInv /\ CyclesSpare
  <1>1. Init => IInv
    BY InitTyped, InitSound, InitSpares
  <1>2. IInv /\ [Next]_vars => IInv'
    BY StepTyped, StepSound, StepRefs, StepSpares
  <1>3. IInv => SettledShardsKept
    BY DEF CyclesSpare, SettledShardsKept
  <1> QED
    BY <1>1, <1>2, <1>3, PTL DEF Spec
=============================================================================
