-------------------------- MODULE IndexQuotaProofs --------------------------
(***************************************************************************)
(* Proofs about the quota tables of IndexState: nobody exceeds a total,    *)
(* every object has somebody to bill, totals are what was granted, and     *)
(* used_bytes is the size of what an account stores.                       *)
(***************************************************************************)
EXTENDS IndexStateProofs

-----------------------------------------------------------------------------
(* Within the total.                                                       *)

\* Releasing bytes keeps a row within its total, and so does crediting it.
LEMMA RowStaysWithin ==
    ASSUME NEW row \in QuotaRow, row.used_bytes <= row.total_bytes, NEW n \in Nat
    PROVE  /\ Released(row, n).used_bytes <= Released(row, n).total_bytes
           /\ Credited(row, n).used_bytes <= Credited(row, n).total_bytes
BY AbsentAssumption DEF Released, Credited, QuotaRow, Floor0

\* A debit that fits leaves a row within its total.
LEMMA DebitStaysWithin ==
    ASSUME TypeOK, NEW a \in Account, NEW n \in Nat, Fits(a, n)
    PROVE  /\ Debited(a, n) \in QuotaRow
           /\ Debited(a, n).used_bytes <= Debited(a, n).total_bytes
<1>1. QuotaOf(a) \in QuotaRow /\ Debited(a, n) \in QuotaRow
  BY QuotaTypes
<1> QED  BY <1>1 DEF Debited, Fits, QuotaRow

\* The row a repair leaves is within its total if the row it found was.
LEMMA AdjustedStaysWithin ==
    ASSUME TypeOK, UsedWithinTotal, NEW a \in Account, NEW delta \in Int,
           delta > 0 => Fits(a, delta), Adjusted(a, delta) # None
    PROVE  Adjusted(a, delta).used_bytes <= Adjusted(a, delta).total_bytes
<1>1. CASE delta > 0
  BY <1>1, DebitStaysWithin DEF Adjusted
<1>2. CASE ~(delta > 0)
  <2>1. -delta \in Nat /\ quota[a] # None /\ quota[a] \in QuotaRow
    BY <1>2 DEF Adjusted, Released, TypeOK
  <2> QED  BY <1>2, <2>1, RowStaysWithin DEF Adjusted, UsedWithinTotal
<1> QED  BY <1>1, <1>2

\* No command lets an account with a row exceed its total.
LEMMA WithinStep ==
    ASSUME TypeOK, UsedWithinTotal, [NextAll]_vars
    PROVE  UsedWithinTotal'
<1>1. CASE UNCHANGED quota
  BY <1>1 DEF UsedWithinTotal
<1>2. ASSUME NEW caller \in Account, NEW o \in Object, NEW m \in Manifest,
             CommitManifest(caller, o, m)
      PROVE  UsedWithinTotal'
  <2>1. m.ciphertext_size \in Nat /\ SizeOf(manifests[o]) \in Nat
    BY ManifestAssumption, SizeOfNat DEF TypeOK
  <2>2. LET row == Released(Debited(caller, m.ciphertext_size), SizeOf(manifests[o])) IN
          row.used_bytes <= row.total_bytes
    BY <1>2, <2>1, DebitStaysWithin, RowStaysWithin DEF CommitManifest
  <2> QED  BY <1>2, <2>2 DEF CommitManifest, UsedWithinTotal, TypeOK
<1>3. ASSUME NEW caller \in Account, NEW o \in Object, DeleteManifest(caller, o)
      PROVE  UsedWithinTotal'
  <2>1. SizeOf(manifests[o]) \in Nat
    BY SizeOfNat DEF TypeOK
  <2>2. CASE quota[caller] = None
    BY <1>3, <2>2 DEF DeleteManifest, UsedWithinTotal, Released, TypeOK
  <2>3. CASE quota[caller] # None
    <3>1. LET row == Released(quota[caller], SizeOf(manifests[o])) IN
            row.used_bytes <= row.total_bytes
      BY <2>1, <2>3, RowStaysWithin DEF UsedWithinTotal, TypeOK
    <3> QED  BY <1>3, <3>1 DEF DeleteManifest, UsedWithinTotal, TypeOK
  <2> QED  BY <2>2, <2>3
<1>4. ASSUME NEW caller \in Account, NEW o \in Object, NEW m \in Manifest,
             RepairManifest(caller, o, m)
      PROVE  UsedWithinTotal'
  <2> DEFINE account == buckets[o[1]]
             delta == m.ciphertext_size - SizeOf(manifests[o])
  <2>1. delta \in Int /\ account \in Account \cup {None}
    BY ManifestAssumption, SizeOfNat DEF TypeOK, Object
  <2>2. /\ account # None => (delta > 0 => Fits(account, delta))
        /\ quota' = IF account = None THEN quota
                    ELSE [quota EXCEPT ![account] = Adjusted(account, delta)]
    BY <1>4 DEF RepairManifest
  <2> HIDE DEF account, delta
  <2>3. CASE account = None
    BY <1>1, <2>2, <2>3
  <2>4. CASE account # None
    <3>1. Adjusted(account, delta) # None =>
            Adjusted(account, delta).used_bytes <= Adjusted(account, delta).total_bytes
      BY <2>1, <2>2, <2>4, AdjustedStaysWithin
    <3> QED  BY <2>1, <2>2, <2>4, <3>1 DEF UsedWithinTotal, TypeOK
  <2> QED  BY <2>3, <2>4
<1>5. ASSUME NEW a \in Account, NEW bytes \in Credit, NEW r \in Ref,
             ContributionGrant(a, bytes, r)
      PROVE  UsedWithinTotal'
  <2>1. Credited(quota[a], bytes).used_bytes <= Credited(quota[a], bytes).total_bytes
    <3>1. CASE quota[a] = None
      BY <3>1, BytesAssumption DEF Credited
    <3>2. CASE quota[a] # None
      BY <3>2, BytesAssumption, RowStaysWithin DEF UsedWithinTotal, TypeOK
    <3> QED  BY <3>1, <3>2
  <2> QED  BY <1>5, <2>1 DEF ContributionGrant, UsedWithinTotal, TypeOK
<1>6. CASE \/ UNCHANGED vars
           \/ \E caller \in Account :
                \/ \E b \in Bucket : CreateBucket(caller, b) \/ DeleteBucket(caller, b)
                \/ SetRepairOperator(caller) \/ SetPaymentOperator(caller)
                \/ \E total \in Default : SetDefaultQuota(caller, total)
  BY <1>1, <1>6 DEF vars, CreateBucket, DeleteBucket, SetRepairOperator,
                    SetPaymentOperator, SetDefaultQuota
<1> QED  BY <1>2, <1>3, <1>4, <1>5, <1>6
            DEF NextAll, Next, ObjectCommand, QuotaCommand, AllocateQuota

\* However debits, releases and credits interleave, no account is over its total.
THEOREM NobodyExceedsTotal == SpecAll => []UsedWithinTotal
<1>1. Init => UsedWithinTotal
  BY DEF Init, UsedWithinTotal
<1>2. TypeOK /\ UsedWithinTotal /\ [NextAll]_vars => UsedWithinTotal'
  BY WithinStep
<1> QED  BY <1>1, <1>2, TypeCorrect, PTL DEF SpecAll

-----------------------------------------------------------------------------
(* Somebody to bill.                                                       *)

\* A row, once there, stays, and so does a bucket that no DeleteBucket removes.
LEMMA BilledStep ==
    ASSUME TypeOK, ObjectsAreBilled, [NextAll]_vars
    PROVE  ObjectsAreBilled'
<1>1. ASSUME NEW caller \in Account, NEW o \in Object, NEW m \in Manifest,
             CommitManifest(caller, o, m)
      PROVE  ObjectsAreBilled'
  <2>1. /\ o[1] \in Bucket /\ \A p \in Object : p[1] \in Bucket
        /\ buckets[o[1]] \in {None, caller}
        /\ buckets' = [buckets EXCEPT ![o[1]] = IF @ = None THEN caller ELSE @]
        /\ manifests' = [manifests EXCEPT ![o] = m]
    BY <1>1 DEF CommitManifest, Object
  <2>2. caller # None /\ buckets'[o[1]] = caller
    BY <2>1, AbsentAssumption DEF TypeOK
  <2>3. quota'[caller] # None /\ \A a \in Account \ {caller} : quota'[a] = quota[a]
    <3>1. m.ciphertext_size \in Nat /\ SizeOf(manifests[o]) \in Nat
      BY ManifestAssumption, SizeOfNat DEF TypeOK
    <3>2. Released(Debited(caller, m.ciphertext_size), SizeOf(manifests[o])) \in QuotaRow
      BY <3>1, QuotaTypes
    <3> QED  BY <1>1, <3>2, AbsentAssumption DEF CommitManifest, TypeOK
  <2> SUFFICES ASSUME NEW p \in Object, manifests'[p] # None
               PROVE  buckets'[p[1]] # None /\ quota'[buckets'[p[1]]] # None
    BY DEF ObjectsAreBilled
  <2>4. CASE p[1] = o[1]
    BY <2>2, <2>3, <2>4
  <2>5. CASE p[1] # o[1]
    <3>1. manifests[p] # None /\ buckets'[p[1]] = buckets[p[1]]
      BY <2>1, <2>5 DEF TypeOK
    <3> QED  BY <2>1, <2>3, <3>1 DEF ObjectsAreBilled, TypeOK
  <2> QED  BY <2>4, <2>5
<1>2. ASSUME \A o \in Object : manifests'[o] # None => manifests[o] # None,
             \A o \in Object : manifests'[o] # None => buckets'[o[1]] = buckets[o[1]],
             \A a \in Account : quota[a] # None => quota'[a] # None
      PROVE  ObjectsAreBilled'
  BY <1>2 DEF ObjectsAreBilled, TypeOK, Object
<1>3. ASSUME NEW caller \in Account, NEW o \in Object, DeleteManifest(caller, o)
      PROVE  ObjectsAreBilled'
  <2>1. \A a \in Account : quota[a] # None => quota'[a] # None
    <3>1. SizeOf(manifests[o]) \in Nat
      BY SizeOfNat DEF TypeOK
    <3>2. quota[caller] # None => Released(quota[caller], SizeOf(manifests[o])) \in QuotaRow
      BY <3>1, QuotaTypes DEF TypeOK
    <3> QED  BY <1>3, <3>2, AbsentAssumption DEF DeleteManifest, TypeOK
  <2> QED  BY <1>2, <1>3, <2>1 DEF DeleteManifest, TypeOK
<1>4. ASSUME NEW caller \in Account, NEW o \in Object, NEW m \in Manifest,
             RepairManifest(caller, o, m)
      PROVE  ObjectsAreBilled'
  <2> DEFINE account == buckets[o[1]]
             delta == m.ciphertext_size - SizeOf(manifests[o])
  <2>1. /\ account \in Account /\ delta \in Int /\ quota[account] \in QuotaRow
        /\ manifests[o] # None
    BY <1>4, ManifestAssumption, SizeOfNat
       DEF TypeOK, Object, RepairManifest, ObjectsAreBilled
  <2>2. quota' = [quota EXCEPT ![account] = Adjusted(account, delta)]
    BY <1>4, <2>1, AbsentAssumption DEF RepairManifest
  <2> HIDE DEF account, delta
  <2>3. Adjusted(account, delta) \in QuotaRow
    <3>1. CASE delta > 0
      BY <2>1, <3>1, QuotaTypes DEF Adjusted
    <3>2. CASE ~(delta > 0)
      <4>1. -delta \in Nat
        BY <2>1, <3>2
      <4> QED  BY <2>1, <3>2, <4>1, QuotaTypes DEF Adjusted
    <3> QED  BY <3>1, <3>2
  <2>4. \A a \in Account : quota[a] # None => quota'[a] # None
    BY <2>1, <2>2, <2>3, AbsentAssumption DEF TypeOK
  <2> QED  BY <1>2, <1>4, <2>1, <2>4 DEF RepairManifest, TypeOK
<1>5. ASSUME NEW a \in Account, NEW bytes \in Credit, NEW r \in Ref,
             ContributionGrant(a, bytes, r)
      PROVE  ObjectsAreBilled'
  <2>1. Credited(quota[a], bytes) # None
    <3>1. quota[a] \in QuotaRow \cup {None} /\ bytes \in Nat
      BY BytesAssumption DEF TypeOK
    <3>2. Credited(quota[a], bytes) \in QuotaRow
      BY <3>1, QuotaTypes
    <3> QED  BY <3>2, AbsentAssumption
  <2> QED  BY <1>2, <1>5, <2>1 DEF ContributionGrant, TypeOK, objectVars
<1>6. ASSUME NEW caller \in Account, NEW b \in Bucket,
             CreateBucket(caller, b) \/ DeleteBucket(caller, b)
      PROVE  ObjectsAreBilled'
  <2>1. \A o \in Object : manifests'[o] # None => o[1] # b
    <3>1. CASE CreateBucket(caller, b)
      BY <3>1 DEF CreateBucket, ObjectsAreBilled
    <3>2. CASE DeleteBucket(caller, b)
      BY <3>2 DEF DeleteBucket
    <3> QED  BY <1>6, <3>1, <3>2
  <2>2. /\ \A o \in Object : manifests'[o] # None => manifests[o] # None
        /\ quota' = quota
    BY <1>6 DEF CreateBucket, DeleteBucket
  <2>3. \A o \in Object : manifests'[o] # None => buckets'[o[1]] = buckets[o[1]]
    BY <1>6, <2>1 DEF CreateBucket, DeleteBucket, TypeOK, Object
  <2> QED  BY <1>2, <2>2, <2>3
<1>7. CASE \/ UNCHANGED vars
           \/ \E caller \in Account :
                \/ SetRepairOperator(caller) \/ SetPaymentOperator(caller)
                \/ \E total \in Default : SetDefaultQuota(caller, total)
  BY <1>2, <1>7 DEF vars, objectVars, SetRepairOperator, SetPaymentOperator, SetDefaultQuota
<1> QED  BY <1>1, <1>3, <1>4, <1>5, <1>6, <1>7
            DEF NextAll, Next, ObjectCommand, QuotaCommand, AllocateQuota

\* Every stored object is in an owned bucket whose owner has a quota row.
THEOREM EveryObjectIsBilled == SpecAll => []ObjectsAreBilled
<1>1. Init => ObjectsAreBilled
  BY DEF Init, ObjectsAreBilled
<1>2. TypeOK /\ ObjectsAreBilled /\ [NextAll]_vars => ObjectsAreBilled'
  BY BilledStep
<1> QED  BY <1>1, <1>2, TypeCorrect, PTL DEF SpecAll

-----------------------------------------------------------------------------
(* Totals are what was granted.                                            *)

\* The strengthening of TotalIsGranted: the bytes granted to an account can be counted.
GrantInv == TotalIsGranted /\ \A a \in Account : IsFiniteSet(Granted(a))

\* A row keeps its total, or is opened with the default.
KeepsTotal(a) ==
    IF quota[a] = None
    THEN quota'[a] # None => quota'[a].total_bytes = default_quota
    ELSE quota'[a] # None /\ quota'[a].total_bytes = quota[a].total_bytes

\* A step that changes neither a total nor the credits keeps totals accounted for.
LEMMA KeepsTotalKeepsGrant ==
    ASSUME TypeOK, GrantInv, UNCHANGED quota_events, \A a \in Account : KeepsTotal(a)
    PROVE  GrantInv'
<1>1. \A a \in Account : Granted(a)' = Granted(a)
  BY DEF Granted, Tagged, CreditedUnder
<1>2. ASSUME NEW a \in Account
      PROVE  IF quota'[a] = None THEN Granted(a) = {}
             ELSE \E base \in Default \cup {0} :
                     quota'[a].total_bytes = base + Cardinality(Granted(a))
  <2>1. CASE quota[a] = None
    <3>1. Granted(a) = {} /\ Cardinality(Granted(a)) = 0
      BY <2>1, FS_EmptySet DEF GrantInv, TotalIsGranted
    <3>2. default_quota \in Default \cup {0} /\ default_quota \in Nat
      BY BytesAssumption DEF TypeOK
    <3>3. default_quota = default_quota + Cardinality(Granted(a))
      BY <3>1, <3>2
    <3> QED  BY <2>1, <3>1, <3>2, <3>3 DEF KeepsTotal
  <2>2. CASE quota[a] # None
    BY <2>2 DEF KeepsTotal, GrantInv, TotalIsGranted
  <2> QED  BY <2>1, <2>2
<1> QED  BY <1>1, <1>2 DEF GrantInv, TotalIsGranted

\* A credit adds its bytes to what its account was granted.
LEMMA CreditCounts ==
    ASSUME TypeOK, GrantInv, NEW a \in Account, NEW bytes \in Credit, NEW r \in Ref,
           ContributionGrant(a, bytes, r)
    PROVE  /\ IsFiniteSet(Granted(a)')
           /\ Cardinality(Granted(a)') = Cardinality(Granted(a)) + bytes
           /\ Cardinality(Granted(a)) \in Nat
           /\ \A x \in Account \ {a} : Granted(x)' = Granted(x)
<1> DEFINE part(x) == [q \in Ref |-> IF CreditedUnder(q, x)
                                     THEN 1..quota_events[q].bytes ELSE {}]
           part1(x) == [q \in Ref |-> IF CreditedUnder(q, x)'
                                      THEN 1..quota_events'[q].bytes ELSE {}]
<1>1. \A x \in Account : Granted(x) = Tagged(part(x)) /\ Granted(x)' = Tagged(part1(x))
  BY DEF Granted, Tagged
<1>2. /\ quota_events[r] = None
      /\ quota_events' = [quota_events EXCEPT ![r] = [account_id |-> a, bytes |-> bytes]]
      /\ quota' = [quota EXCEPT ![a] = Credited(@, bytes)]
      /\ [account_id |-> a, bytes |-> bytes] # None
      /\ bytes \in Nat
  BY AbsentAssumption, BytesAssumption DEF ContributionGrant, Event
<1>3. ASSUME NEW x \in Account \ {a} PROVE Granted(x)' = Granted(x)
  BY <1>2 DEF Granted, Tagged, CreditedUnder, TypeOK
<1>4. /\ IsFiniteSet(Granted(a)')
      /\ Cardinality(Granted(a)') = Cardinality(Granted(a)) + bytes
      /\ Cardinality(Granted(a)) \in Nat
  <2> DEFINE f == part(a)
             g == part1(a)
  <2>1. f[r] = {} /\ g[r] = 1..bytes
    BY <1>2 DEF CreditedUnder, TypeOK
  <2>2. \A q \in Ref \ {r} : g[q] = f[q]
    BY <1>2 DEF CreditedUnder, TypeOK
  <2>3. /\ IsFiniteSet(f[r]) /\ Cardinality(f[r]) = 0
        /\ IsFiniteSet(g[r]) /\ Cardinality(g[r]) = bytes
    <3>1. IsFiniteSet(1..bytes) /\ Cardinality(1..bytes) = bytes
      BY <1>2, FS_Interval
    <3> QED  BY <2>1, <3>1, FS_EmptySet
  <2>4. f = [q \in Ref |-> f[q]] /\ g = [q \in Ref |-> g[q]]
    OBVIOUS
  <2>5. IsFiniteSet(Tagged(f))
    BY <1>1 DEF GrantInv
  <2> HIDE DEF f, g
  <2>6. /\ IsFiniteSet(Tagged(g))
        /\ Cardinality(Tagged(g)) =
             Cardinality(Tagged(f)) - Cardinality(f[r]) + Cardinality(g[r])
        /\ Cardinality(Tagged(f)) \in Nat
    BY <2>2, <2>3, <2>4, <2>5, TaggedExcept
  <2>7. Cardinality(Tagged(g)) = Cardinality(Tagged(f)) + bytes
    BY <1>2, <2>3, <2>6
  <2> QED  BY <1>1, <2>6, <2>7 DEF f, g
<1> QED  BY <1>3, <1>4

\* A credit adds the same bytes to the total and to what was granted.
LEMMA CreditKeepsGrant ==
    ASSUME TypeOK, GrantInv, NEW a \in Account, NEW bytes \in Credit, NEW r \in Ref,
           ContributionGrant(a, bytes, r)
    PROVE  GrantInv'
<1>2. /\ quota' = [quota EXCEPT ![a] = Credited(@, bytes)]
      /\ bytes \in Nat
  BY BytesAssumption DEF ContributionGrant
<1>3. \A x \in Account \ {a} : Granted(x)' = Granted(x)
  BY CreditCounts
<1>4. /\ IsFiniteSet(Granted(a)')
      /\ Cardinality(Granted(a)') = Cardinality(Granted(a)) + bytes
      /\ Cardinality(Granted(a)) \in Nat
  BY CreditCounts
<1>5. ASSUME NEW x \in Account
      PROVE  IF quota'[x] = None THEN Granted(x)' = {}
             ELSE \E base \in Default \cup {0} :
                     quota'[x].total_bytes = base + Cardinality(Granted(x)')
  <2>1. CASE x # a
    BY <1>2, <1>3, <2>1 DEF GrantInv, TotalIsGranted, TypeOK
  <2>2. CASE x = a
    <3>1. /\ quota[a] \in QuotaRow \cup {None}
          /\ quota'[a] = Credited(quota[a], bytes)
          /\ quota'[a] \in QuotaRow /\ quota'[a] # None
      BY <1>2, QuotaTypes, AbsentAssumption DEF TypeOK
    <3>2. CASE quota[a] = None
      <4>1. Cardinality(Granted(a)) = 0
        BY <3>2, FS_EmptySet DEF GrantInv, TotalIsGranted
      <4>2. quota'[a].total_bytes = 0 + Cardinality(Granted(a)')
        BY <1>2, <1>4, <3>1, <3>2, <4>1 DEF Credited
      <4> QED  BY <2>2, <3>1, <4>2
    <3>3. CASE quota[a] # None
      <4>1. PICK base \in Default \cup {0} :
              quota[a].total_bytes = base + Cardinality(Granted(a))
        BY <3>3 DEF GrantInv, TotalIsGranted
      <4>2. quota'[a].total_bytes = quota[a].total_bytes + bytes /\ base \in Nat
        BY <3>1, <3>3, BytesAssumption DEF Credited, QuotaRow
      <4>3. quota'[a].total_bytes = base + Cardinality(Granted(a)')
        BY <1>2, <1>4, <4>1, <4>2
      <4> QED  BY <2>2, <3>1, <4>3
    <3> QED  BY <3>2, <3>3
  <2> QED  BY <2>1, <2>2
<1>6. \A x \in Account : IsFiniteSet(Granted(x)')
  BY <1>3, <1>4 DEF GrantInv
<1> QED  BY <1>5, <1>6 DEF GrantInv, TotalIsGranted

\* Puts, deletes and repairs keep every account's total, or open a row with the default.
LEMMA CommitKeepsTotals ==
    ASSUME TypeOK, NEW caller \in Account, NEW o \in Object, NEW m \in Manifest,
           CommitManifest(caller, o, m)
    PROVE  /\ \A a \in Account : KeepsTotal(a)
           /\ quota'[caller] # None /\ \A a \in Account \ {caller} : quota'[a] = quota[a]
<1> DEFINE row == Debited(caller, m.ciphertext_size)
<1>1. m.ciphertext_size \in Nat /\ SizeOf(manifests[o]) \in Nat
  BY ManifestAssumption, SizeOfNat DEF TypeOK
<1>2. /\ row \in QuotaRow /\ row # None
      /\ Released(row, SizeOf(manifests[o])) \in QuotaRow
      /\ QuotaOf(caller) \in QuotaRow
  BY <1>1, QuotaTypes, AbsentAssumption
<1>3. Released(row, SizeOf(manifests[o])).total_bytes = QuotaOf(caller).total_bytes
  BY <1>2 DEF Released, Debited, QuotaRow
<1> QED  BY <1>2, <1>3, AbsentAssumption DEF KeepsTotal, CommitManifest, QuotaOf, TypeOK

LEMMA DeleteKeepsTotals ==
    ASSUME TypeOK, NEW caller \in Account, NEW o \in Object, DeleteManifest(caller, o)
    PROVE  /\ \A a \in Account : KeepsTotal(a)
           /\ \A a \in Account : quota[a] = None => quota'[a] = None
<1>1. SizeOf(manifests[o]) \in Nat
  BY SizeOfNat DEF TypeOK
<1>2. KeepsTotal(caller) /\ (quota[caller] = None => quota'[caller] = None)
  <2>1. CASE quota[caller] = None
    BY <2>1 DEF KeepsTotal, DeleteManifest, Released, TypeOK
  <2>2. CASE quota[caller] # None
    <3>1. quota[caller] \in QuotaRow /\ Released(quota[caller], SizeOf(manifests[o])) \in QuotaRow
      BY <1>1, <2>2, QuotaTypes DEF TypeOK
    <3> QED  BY <2>2, <3>1, AbsentAssumption
                DEF KeepsTotal, DeleteManifest, Released, QuotaRow, TypeOK
  <2> QED  BY <2>1, <2>2
<1>3. \A a \in Account \ {caller} : KeepsTotal(a) /\ quota'[a] = quota[a]
  BY DEF KeepsTotal, DeleteManifest, TypeOK
<1> QED  BY <1>2, <1>3

LEMMA RepairKeepsTotals ==
    ASSUME TypeOK, NEW caller \in Account, NEW o \in Object, NEW m \in Manifest,
           RepairManifest(caller, o, m)
    PROVE  /\ \A a \in Account : KeepsTotal(a)
           /\ \A a \in Account \ {buckets[o[1]]} : quota'[a] = quota[a]
<1> DEFINE account == buckets[o[1]]
           delta == m.ciphertext_size - SizeOf(manifests[o])
<1>1. delta \in Int /\ account \in Account \cup {None}
  BY ManifestAssumption, SizeOfNat DEF TypeOK, Object
<1>2. quota' = IF account = None THEN quota
               ELSE [quota EXCEPT ![account] = Adjusted(account, delta)]
  BY DEF RepairManifest
<1> HIDE DEF account, delta
<1>3. \A a \in Account \ {account} : KeepsTotal(a) /\ quota'[a] = quota[a]
  BY <1>1, <1>2 DEF KeepsTotal, TypeOK
<1>4. ASSUME account \in Account PROVE KeepsTotal(account)
  <2>1. account # None /\ quota'[account] = Adjusted(account, delta)
    BY <1>2, <1>4, AbsentAssumption DEF TypeOK
  <2>2. CASE delta > 0
    <3>1. Debited(account, delta) \in QuotaRow /\ QuotaOf(account) \in QuotaRow
      BY <1>1, <1>4, <2>2, QuotaTypes
    <3> QED  BY <1>4, <2>1, <2>2, <3>1, AbsentAssumption
                DEF KeepsTotal, Adjusted, Debited, QuotaOf, QuotaRow, TypeOK
  <2>3. CASE ~(delta > 0)
    <3>1. -delta \in Nat /\ quota[account] \in QuotaRow \cup {None}
      BY <1>1, <1>4, <2>3 DEF TypeOK
    <3>2. quota[account] # None => Released(quota[account], -delta) \in QuotaRow
      BY <1>4, <3>1, QuotaTypes
    <3> QED  BY <2>1, <2>3, <3>1, <3>2, AbsentAssumption
                DEF KeepsTotal, Adjusted, Released, QuotaRow
  <2> QED  BY <1>1, <2>2, <2>3
<1> QED  BY <1>3, <1>4 DEF account

\* Every command keeps totals accounted for.
LEMMA GrantStep ==
    ASSUME TypeOK, GrantInv, [NextAll]_vars
    PROVE  GrantInv'
<1>1. CASE \E caller \in Account, o \in Object, m \in Manifest :
              CommitManifest(caller, o, m) \/ RepairManifest(caller, o, m)
  <2>1. \A a \in Account : KeepsTotal(a)
    BY <1>1, CommitKeepsTotals, RepairKeepsTotals
  <2>2. UNCHANGED quota_events
    BY <1>1 DEF CommitManifest, RepairManifest
  <2> QED  BY <2>1, <2>2, KeepsTotalKeepsGrant
<1>2. ASSUME NEW caller \in Account, NEW o \in Object, DeleteManifest(caller, o)
      PROVE  GrantInv'
  <2>1. \A a \in Account : KeepsTotal(a)
    BY <1>2, DeleteKeepsTotals
  <2> QED  BY <1>2, <2>1, KeepsTotalKeepsGrant DEF DeleteManifest
<1>3. CASE \E a \in Account, bytes \in Credit, r \in Ref : ContributionGrant(a, bytes, r)
  BY <1>3, CreditKeepsGrant
<1>4. CASE \/ UNCHANGED vars
           \/ \E caller \in Account :
                \/ \E b \in Bucket : CreateBucket(caller, b) \/ DeleteBucket(caller, b)
                \/ SetRepairOperator(caller) \/ SetPaymentOperator(caller)
                \/ \E total \in Default : SetDefaultQuota(caller, total)
  <2>1. UNCHANGED <<quota, quota_events>>
    BY <1>4 DEF vars, CreateBucket, DeleteBucket, SetRepairOperator,
                SetPaymentOperator, SetDefaultQuota
  <2>2. \A a \in Account : KeepsTotal(a)
    BY <2>1 DEF KeepsTotal
  <2> QED  BY <2>1, <2>2, KeepsTotalKeepsGrant
<1> QED  BY <1>1, <1>2, <1>3, <1>4
            DEF NextAll, Next, ObjectCommand, QuotaCommand, AllocateQuota

LEMMA GrantInvariant == SpecAll => []GrantInv
<1>1. Init => GrantInv
  <2> SUFFICES ASSUME Init PROVE \A a \in Account : Granted(a) = {} /\ quota[a] = None
    BY FS_EmptySet DEF GrantInv, TotalIsGranted
  <2> QED  BY DEF Init, Granted, Tagged, CreditedUnder
<1>2. TypeOK /\ GrantInv /\ [NextAll]_vars => GrantInv'
  BY GrantStep
<1> QED  BY <1>1, <1>2, TypeCorrect, PTL DEF SpecAll

\* An account's total is the credits it was given, each once, plus at most one default.
THEOREM TotalsAreGranted == SpecAll => []TotalIsGranted
<1>1. GrantInv => TotalIsGranted
  BY DEF GrantInv
<1> QED  BY <1>1, GrantInvariant, PTL

-----------------------------------------------------------------------------
(* used_bytes is what is stored.                                           *)

\* The strengthening of UsedExact: the stored bytes of an account can be counted.
UsedInv == UsedExact /\ \A a \in Account : IsFiniteSet(Stored(a))

\* The bytes an account stores under each object, whose tagged union is Stored.
StoredUnder(a) == [p \in Object |-> IF buckets[p[1]] = a
                                    THEN 1..SizeOf(manifests[p]) ELSE {}]

\* One object's manifest is replaced in a bucket that is, or becomes, account's.
SwapStored(o, new, account) ==
    /\ buckets[o[1]] \in {None, account}
    /\ buckets' = [buckets EXCEPT ![o[1]] = account]
    /\ manifests' = [manifests EXCEPT ![o] = new]

\* Then account stores the difference more, and every other account what it did.
LEMMA SwapStoredCounts ==
    ASSUME TypeOK, ObjectsAreBilled, UsedInv,
           NEW o \in Object, NEW new \in Manifest \cup {None}, NEW account \in Account,
           SwapStored(o, new, account)
    PROVE  /\ IsFiniteSet(Stored(account)')
           /\ Cardinality(Stored(account)') =
                Cardinality(Stored(account)) - SizeOf(manifests[o]) + SizeOf(new)
           /\ SizeOf(manifests[o]) <= Cardinality(Stored(account))
           /\ Cardinality(Stored(account)) \in Nat
           /\ \A a \in Account \ {account} : Stored(a)' = Stored(a)
<1>1. /\ account # None /\ o[1] \in Bucket /\ \A p \in Object : p[1] \in Bucket
      /\ manifests'[o] = new /\ buckets'[o[1]] = account
      /\ \A p \in Object \ {o} : manifests'[p] = manifests[p]
      /\ \A b \in Bucket \ {o[1]} : buckets'[b] = buckets[b]
      /\ buckets[o[1]] # account => buckets[o[1]] = None
  BY AbsentAssumption DEF SwapStored, TypeOK, Object
<1>2. ASSUME NEW p \in Object, p[1] = o[1], buckets[o[1]] # account
      PROVE  manifests[p] = None
  BY <1>1, <1>2 DEF ObjectsAreBilled
<1>3. SizeOf(manifests[o]) \in Nat /\ SizeOf(new) \in Nat
  BY SizeOfNat DEF TypeOK
<1>4. 1..SizeOf(None) = {}
  BY DEF SizeOf
<1>5. ASSUME NEW a \in Account
      PROVE  /\ Stored(a) = Tagged(StoredUnder(a))
             /\ Stored(a)' = Tagged(StoredUnder(a)')
  BY DEF Stored, StoredUnder, Tagged
<1>6. ASSUME NEW a \in Account, NEW p \in Object, p # o \/ a # account
      PROVE  StoredUnder(a)'[p] = StoredUnder(a)[p]
  <2>1. CASE p[1] # o[1]
    BY <1>1, <2>1 DEF StoredUnder
  <2>2. CASE p[1] = o[1] /\ a = account
    <3>1. CASE buckets[o[1]] = account
      BY <1>1, <1>6, <2>2, <3>1 DEF StoredUnder
    <3>2. CASE buckets[o[1]] # account
      BY <1>1, <1>2, <1>4, <1>6, <2>2, <3>2 DEF StoredUnder
    <3> QED  BY <3>1, <3>2
  <2>3. CASE p[1] = o[1] /\ a # account
    BY <1>1, <2>3, AbsentAssumption DEF StoredUnder
  <2> QED  BY <2>1, <2>2, <2>3
<1> DEFINE f == StoredUnder(account)
           g == StoredUnder(account)'
<1>7. f[o] = 1..SizeOf(manifests[o]) /\ g[o] = 1..SizeOf(new)
  BY <1>1, <1>2, <1>4 DEF StoredUnder
<1>8. /\ IsFiniteSet(f[o]) /\ Cardinality(f[o]) = SizeOf(manifests[o])
      /\ IsFiniteSet(g[o]) /\ Cardinality(g[o]) = SizeOf(new)
  <2>1. \A n \in Nat : IsFiniteSet(1..n) /\ Cardinality(1..n) = n
    BY FS_Interval
  <2> HIDE DEF f, g
  <2> QED  BY <1>3, <1>7, <2>1
<1>9. f = [p \in Object |-> f[p]] /\ g = [p \in Object |-> g[p]]
  BY DEF StoredUnder
<1>10. IsFiniteSet(Tagged(f)) /\ \A p \in Object \ {o} : g[p] = f[p]
  BY <1>5, <1>6 DEF UsedInv
<1>11. /\ IsFiniteSet(Tagged(g))
       /\ Cardinality(Tagged(g)) =
            Cardinality(Tagged(f)) - Cardinality(f[o]) + Cardinality(g[o])
       /\ Cardinality(f[o]) <= Cardinality(Tagged(f))
       /\ Cardinality(Tagged(f)) \in Nat
  <2> HIDE DEF f, g
  <2> QED  BY <1>8, <1>9, <1>10, TaggedExcept
<1>12. ASSUME NEW a \in Account \ {account} PROVE Stored(a)' = Stored(a)
  <2>1. StoredUnder(a)' = StoredUnder(a)
    <3>1. /\ StoredUnder(a) = [p \in Object |-> StoredUnder(a)[p]]
          /\ StoredUnder(a)' = [p \in Object |-> StoredUnder(a)'[p]]
      BY DEF StoredUnder
    <3> QED  BY <1>6, <3>1
  <2> QED  BY <1>5, <2>1
<1> QED  BY <1>5, <1>8, <1>11, <1>12

\* A swap keeps UsedExact when the account's used_bytes moves by the same difference.
LEMMA SwapKeepsUsed ==
    ASSUME TypeOK, ObjectsAreBilled, UsedInv,
           NEW o \in Object, NEW new \in Manifest \cup {None}, NEW account \in Account,
           SwapStored(o, new, account),
           QuotaOf(account)'.used_bytes =
             QuotaOf(account).used_bytes - SizeOf(manifests[o]) + SizeOf(new),
           \A a \in Account \ {account} : QuotaOf(a)'.used_bytes = QuotaOf(a).used_bytes
    PROVE  UsedInv'
<1>1. /\ IsFiniteSet(Stored(account)')
      /\ Cardinality(Stored(account)') =
           Cardinality(Stored(account)) - SizeOf(manifests[o]) + SizeOf(new)
      /\ \A a \in Account \ {account} : Stored(a)' = Stored(a)
  BY SwapStoredCounts
<1>2. QuotaOf(account).used_bytes = Cardinality(Stored(account))
  BY DEF UsedInv, UsedExact
<1>3. QuotaOf(account)'.used_bytes = Cardinality(Stored(account)')
  BY <1>1, <1>2, Zenon
<1> QED  BY <1>1, <1>3 DEF UsedInv, UsedExact

\* The bytes a put, a delete or a repair bills: what the row showed before, less the
\* old size, plus the new one (MAX(..., 0) never bites: the old size is stored).
LEMMA UsedCommit ==
    ASSUME TypeOK, ObjectsAreBilled, UsedInv,
           NEW caller \in Account, NEW o \in Object, NEW m \in Manifest,
           CommitManifest(caller, o, m)
    PROVE  UsedInv'
<1> DEFINE old == manifests[o]
           row == Debited(caller, m.ciphertext_size)
<1>1. /\ m.ciphertext_size \in Nat /\ SizeOf(old) \in Nat
      /\ SizeOf(m) = m.ciphertext_size
  BY ManifestAssumption, AbsentAssumption, SizeOfNat DEF TypeOK, SizeOf
<1>2. SwapStored(o, m, caller)
  BY AbsentAssumption DEF SwapStored, CommitManifest, TypeOK, Object
<1>3. SizeOf(old) <= Cardinality(Stored(caller))
  BY <1>2, SwapStoredCounts
<1>4. QuotaOf(caller).used_bytes = Cardinality(Stored(caller)) /\ QuotaOf(caller) \in QuotaRow
  BY QuotaTypes DEF UsedInv, UsedExact
<1>5. row \in QuotaRow /\ row # None /\ Released(row, SizeOf(old)) \in QuotaRow
  BY <1>1, QuotaTypes, AbsentAssumption
<1>6. quota' = [quota EXCEPT ![caller] = Released(row, SizeOf(old))] /\ UNCHANGED default_quota
  BY DEF CommitManifest, operatorVars
<1>7. QuotaOf(caller)' = Released(row, SizeOf(old))
  BY <1>5, <1>6, AbsentAssumption DEF QuotaOf, TypeOK
<1>8. row.used_bytes = QuotaOf(caller).used_bytes + m.ciphertext_size
  BY <1>4 DEF Debited, QuotaRow
<1>9. Released(row, SizeOf(old)).used_bytes = Floor0(row.used_bytes - SizeOf(old))
  BY <1>5 DEF Released, QuotaRow
<1>10. QuotaOf(caller)'.used_bytes =
         QuotaOf(caller).used_bytes - SizeOf(old) + SizeOf(m)
  <2>1. QuotaOf(caller).used_bytes \in Nat /\ SizeOf(old) <= QuotaOf(caller).used_bytes
    BY <1>3, <1>4 DEF QuotaRow
  <2>2. QuotaOf(caller)'.used_bytes = Floor0(row.used_bytes - SizeOf(old))
    BY <1>7, <1>9
  <2> QED  BY <1>1, <1>8, <2>1, <2>2 DEF Floor0
<1>11. \A a \in Account \ {caller} : QuotaOf(a)'.used_bytes = QuotaOf(a).used_bytes
  BY <1>6 DEF QuotaOf, TypeOK
<1> QED  BY <1>2, <1>10, <1>11, SwapKeepsUsed

\* A delete keeps used_bytes exact.
LEMMA UsedDelete ==
    ASSUME TypeOK, ObjectsAreBilled, UsedInv,
           NEW caller \in Account, NEW o \in Object,
           DeleteManifest(caller, o)
    PROVE  UsedInv'
<1> DEFINE old == manifests[o]
           row == quota[caller]
<1>1. SizeOf(old) \in Nat /\ SizeOf(None) = 0
  BY SizeOfNat DEF TypeOK, SizeOf
<1>2. SwapStored(o, None, caller)
  BY DEF SwapStored, DeleteManifest, TypeOK, Object
<1>3. SizeOf(old) <= Cardinality(Stored(caller))
  BY <1>2, SwapStoredCounts
<1>4. row # None /\ row \in QuotaRow
  BY DEF DeleteManifest, ObjectsAreBilled, TypeOK
<1>5. QuotaOf(caller) = row /\ row.used_bytes = Cardinality(Stored(caller))
  BY <1>4 DEF UsedInv, UsedExact, QuotaOf
<1>6. Released(row, SizeOf(old)) \in QuotaRow
  BY <1>1, <1>4, QuotaTypes
<1>7. quota' = [quota EXCEPT ![caller] = Released(row, SizeOf(old))] /\ UNCHANGED default_quota
  BY DEF DeleteManifest, operatorVars
<1>8. QuotaOf(caller)' = Released(row, SizeOf(old))
  BY <1>6, <1>7, AbsentAssumption DEF QuotaOf, TypeOK
<1>9. Released(row, SizeOf(old)).used_bytes = Floor0(row.used_bytes - SizeOf(old))
  BY <1>4 DEF Released, QuotaRow
<1>10. QuotaOf(caller)'.used_bytes =
         QuotaOf(caller).used_bytes - SizeOf(old) + SizeOf(None)
  <2>1. row.used_bytes \in Nat /\ SizeOf(old) <= row.used_bytes
    BY <1>3, <1>4, <1>5 DEF QuotaRow
  <2>2. QuotaOf(caller)'.used_bytes = Floor0(row.used_bytes - SizeOf(old))
    BY <1>8, <1>9
  <2> QED  BY <1>1, <1>5, <2>1, <2>2 DEF Floor0
<1>11. \A a \in Account \ {caller} : QuotaOf(a)'.used_bytes = QuotaOf(a).used_bytes
  BY <1>7 DEF QuotaOf, TypeOK
<1> QED  BY <1>2, <1>10, <1>11, SwapKeepsUsed

\* A repair, billed to the owner, keeps used_bytes exact.
LEMMA UsedRepair ==
    ASSUME TypeOK, ObjectsAreBilled, UsedInv,
           NEW caller \in Account, NEW o \in Object, NEW m \in Manifest,
           RepairManifest(caller, o, m)
    PROVE  UsedInv'
<1>0. PICK account \in Account : account = buckets[o[1]]
  BY DEF RepairManifest, ObjectsAreBilled, TypeOK, Object
<1> DEFINE old == manifests[o]
           delta == m.ciphertext_size - SizeOf(old)
           row == quota[account]
<1>1. /\ m.ciphertext_size \in Nat /\ SizeOf(old) \in Nat
      /\ SizeOf(m) = m.ciphertext_size /\ delta \in Int
  BY ManifestAssumption, AbsentAssumption, SizeOfNat DEF TypeOK, SizeOf
<1>2. account # None /\ row # None /\ row \in QuotaRow
  BY <1>0 DEF RepairManifest, ObjectsAreBilled, TypeOK
<1>3. SwapStored(o, m, account)
  BY <1>0 DEF SwapStored, RepairManifest, TypeOK, Object
<1>4. SizeOf(old) <= Cardinality(Stored(account))
  BY <1>3, SwapStoredCounts
<1>5. QuotaOf(account) = row /\ row.used_bytes = Cardinality(Stored(account))
  BY <1>2 DEF UsedInv, UsedExact, QuotaOf
<1>6. quota' = [quota EXCEPT ![account] = Adjusted(account, delta)] /\ UNCHANGED default_quota
  BY <1>0, <1>2 DEF RepairManifest, operatorVars
<1>7. /\ Adjusted(account, delta) \in QuotaRow
      /\ Adjusted(account, delta).used_bytes = row.used_bytes - SizeOf(old) + SizeOf(m)
  <2>1. row.used_bytes \in Nat /\ SizeOf(old) <= row.used_bytes
    BY <1>2, <1>4, <1>5 DEF QuotaRow
  <2>2. CASE delta > 0
    <3>1. Adjusted(account, delta) = Debited(account, delta) /\ Debited(account, delta) \in QuotaRow
      BY <1>1, <1>2, <2>2, QuotaTypes DEF Adjusted
    <3>2. Debited(account, delta).used_bytes = row.used_bytes + delta
      BY <1>2, <1>5 DEF Debited, QuotaRow
    <3> QED  BY <1>1, <2>1, <3>1, <3>2
  <2>3. CASE ~(delta > 0)
    <3>1. -delta \in Nat /\ -delta <= SizeOf(old)
      BY <1>1, <2>3
    <3>2. /\ Adjusted(account, delta) = Released(row, -delta)
          /\ Released(row, -delta) \in QuotaRow
      BY <1>2, <2>3, <3>1, QuotaTypes DEF Adjusted
    <3>3. Released(row, -delta).used_bytes = Floor0(row.used_bytes - (-delta))
      BY <1>2 DEF Released, QuotaRow
    <3>4. Floor0(row.used_bytes - (-delta)) = row.used_bytes + delta
      BY <1>1, <2>1, <3>1 DEF Floor0
    <3> QED  BY <1>1, <2>1, <3>2, <3>3, <3>4
  <2> QED  BY <2>2, <2>3
<1>8. QuotaOf(account)'.used_bytes =
        QuotaOf(account).used_bytes - SizeOf(old) + SizeOf(m)
  <2> HIDE DEF delta
  <2>1. QuotaOf(account)' = Adjusted(account, delta)
    BY <1>6, <1>7, AbsentAssumption DEF QuotaOf, TypeOK
  <2> QED  BY <1>5, <1>7, <2>1
<1>9. \A a \in Account \ {account} : QuotaOf(a)'.used_bytes = QuotaOf(a).used_bytes
  BY <1>6 DEF QuotaOf, TypeOK
<1> QED  BY <1>3, <1>8, <1>9, SwapKeepsUsed

\* Every command some route proposes keeps used_bytes exact.
LEMMA UsedStep ==
    ASSUME TypeOK, ObjectsAreBilled, UsedInv, [Next]_vars
    PROVE  UsedInv'
<1>1. ASSUME \A a \in Account : Stored(a)' = Stored(a),
             \A a \in Account : QuotaOf(a)'.used_bytes = QuotaOf(a).used_bytes
      PROVE  UsedInv'
  BY <1>1 DEF UsedInv, UsedExact
<1>2. ASSUME UNCHANGED <<buckets, manifests>>,
             \A a \in Account : QuotaOf(a)'.used_bytes = QuotaOf(a).used_bytes
      PROVE  UsedInv'
  BY <1>1, <1>2 DEF Stored, Tagged
<1>3. ASSUME NEW caller \in Account, NEW b \in Bucket, CreateBucket(caller, b)
      PROVE  UsedInv'
  <2>1. \A o \in Object : o[1] = b => SizeOf(manifests[o]) = 0
    BY <1>3 DEF CreateBucket, ObjectsAreBilled, SizeOf
  <2>2. \A a \in Account, o \in Object :
          (IF buckets'[o[1]] = a THEN 1..SizeOf(manifests[o]) ELSE {})
            = IF buckets[o[1]] = a THEN 1..SizeOf(manifests[o]) ELSE {}
    BY <1>3, <2>1 DEF CreateBucket, TypeOK, Object
  <2>3. \A a \in Account : Stored(a)' = Stored(a)
    BY <1>3, <2>2 DEF CreateBucket, Stored, Tagged
  <2> QED  BY <1>1, <1>3, <2>3 DEF CreateBucket, QuotaOf, operatorVars
<1>4. ASSUME NEW a \in Account, NEW bytes \in Credit, NEW r \in Ref,
             ContributionGrant(a, bytes, r)
      PROVE  UsedInv'
  <2>1. /\ quota[a] \in QuotaRow \cup {None} /\ bytes \in Nat
        /\ Credited(quota[a], bytes) \in QuotaRow
    BY BytesAssumption, QuotaTypes DEF TypeOK
  <2>2. Credited(quota[a], bytes).used_bytes = QuotaOf(a).used_bytes
    BY <2>1 DEF Credited, QuotaOf, QuotaRow
  <2>3. /\ quota' = [quota EXCEPT ![a] = Credited(quota[a], bytes)]
        /\ UNCHANGED <<default_quota, buckets, manifests>>
    BY <1>4 DEF ContributionGrant, objectVars, operatorVars
  <2>4. \A x \in Account : QuotaOf(x)'.used_bytes = QuotaOf(x).used_bytes
    <3>1. QuotaOf(a)'.used_bytes = QuotaOf(a).used_bytes
      BY <2>1, <2>2, <2>3, AbsentAssumption DEF QuotaOf, TypeOK
    <3>2. \A x \in Account \ {a} : QuotaOf(x)' = QuotaOf(x)
      BY <2>3 DEF QuotaOf, TypeOK
    <3> QED  BY <3>1, <3>2
  <2> QED  BY <1>2, <2>3, <2>4
<1>5. CASE \E caller \in Account :
              \/ SetRepairOperator(caller) \/ SetPaymentOperator(caller)
              \/ \E total \in Default : SetDefaultQuota(caller, total)
  BY <1>2, <1>5 DEF SetRepairOperator, SetPaymentOperator, SetDefaultQuota,
                    objectVars, QuotaOf
<1>6. CASE UNCHANGED vars
  BY <1>2, <1>6 DEF vars, objectVars, operatorVars, QuotaOf
<1> QED  BY <1>3, <1>4, <1>5, <1>6, UsedCommit, UsedDelete, UsedRepair
            DEF Next, ObjectCommand, QuotaCommand, AllocateQuota

\* What an account is billed for is what its buckets hold, whoever put, deleted or
\* repaired it: used_bytes never drifts from the manifests.
THEOREM UsedIsExact == Spec => []UsedExact
<1>1. Init => UsedInv
  <2> SUFFICES ASSUME Init, NEW a \in Account
               PROVE  Stored(a) = {} /\ QuotaOf(a).used_bytes = 0
    BY FS_EmptySet DEF UsedInv, UsedExact
  <2>1. Stored(a) = {}
    BY AbsentAssumption DEF Init, Stored, Tagged, SizeOf, Object
  <2> QED  BY <2>1 DEF Init, QuotaOf
<1>2. TypeOK /\ ObjectsAreBilled /\ UsedInv /\ [Next]_vars => UsedInv'
  BY UsedStep
<1>3. UsedInv => UsedExact
  BY DEF UsedInv
<1> QED  BY <1>1, <1>2, <1>3, SpecImpliesSpecAll, TypeCorrect, EveryObjectIsBilled, PTL
            DEF Spec

\* No step takes a bucket or a role from its holder (DeleteBucket aside).
THEOREM HoldersAreKept == Spec => HoldersKeepRoles
<1> DEFINE Keeps == /\ \A b \in Bucket : buckets[b] # None => buckets'[b] = buckets[b]
                    /\ repair_operator # None => repair_operator' = repair_operator
                    /\ payment_operator # None => payment_operator' = payment_operator
<1>1. TypeOK /\ [Next]_vars => [Keeps]_vars
  <2> SUFFICES ASSUME TypeOK, Next PROVE Keeps
    OBVIOUS
  <2>1. CASE \E caller \in Account : ObjectCommand(caller)
    BY <2>1 DEF ObjectCommand, CreateBucket, DeleteManifest, CommitManifest,
                RepairManifest, operatorVars, TypeOK
  <2>2. CASE \E caller \in Account : QuotaCommand(caller)
    BY <2>2 DEF QuotaCommand, SetRepairOperator, SetPaymentOperator, SetDefaultQuota,
                AllocateQuota, ContributionGrant, objectVars, operatorVars
  <2>3. CASE \E a \in Account, bytes \in Credit, r \in Ref : ContributionGrant(a, bytes, r)
    BY <2>3 DEF ContributionGrant, objectVars, operatorVars
  <2> QED  BY <2>1, <2>2, <2>3 DEF Next
<1> QED  BY <1>1, SpecImpliesSpecAll, TypeCorrect, PTL DEF Spec, HoldersKeepRoles

-----------------------------------------------------------------------------
(* The tables implement an index without counters (ObjectLedger).          *)

Opened == {a \in Account : quota[a] # None}
Base == [a \in Account |-> IF quota[a] = None THEN 0
                           ELSE quota[a].total_bytes - Cardinality(Granted(a))]

\* The ledger measures what the tables count.
LEMMA LedgerMeasures ==
    ASSUME TypeOK, UsedExact, GrantInv, NEW a \in Account, NEW bytes
    PROVE  /\ Ledger!Total(a) = QuotaOf(a).total_bytes
           /\ Fits(a, bytes) => Ledger!HasRoom(a, bytes)
<1>1. Ledger!Usage(a) = Cardinality(Stored(a))
  <2>1. Stored(a) = UNION {{o} \X (1..Ledger!Size(manifests[o])) :
                              o \in {p \in Ledger!Object : buckets[p[1]] = a}}
    BY DEF Ledger!Size, Ledger!Object, Stored, Tagged, SizeOf, Object
  <2> QED  BY <2>1 DEF Ledger!Usage, Ledger!Cardinality, Cardinality
<1>2. Ledger!Given(a) = Cardinality(Granted(a))
  <2>1. Granted(a) = UNION {{r} \X (1..quota_events[r].bytes) :
                               r \in {q \in Ref : CreditedUnder(q, a)}}
    BY DEF Granted, Tagged
  <2> QED  BY <2>1 DEF Ledger!Given, Ledger!Cardinality, Cardinality, CreditedUnder
<1>3. Cardinality(Granted(a)) \in Nat
  BY FS_CardinalityType DEF GrantInv
<1>4. Ledger!Total(a) = QuotaOf(a).total_bytes
  <2>1. CASE quota[a] = None
    BY <2>1 DEF Ledger!Total, QuotaOf
  <2>2. CASE quota[a] # None
    <3>1. quota[a] \in QuotaRow
      BY <2>2 DEF TypeOK
    <3> QED  BY <1>2, <1>3, <2>2, <3>1 DEF Ledger!Total, QuotaOf, QuotaRow
  <2> QED  BY <2>1, <2>2
<1> QED  BY <1>1, <1>4 DEF Ledger!HasRoom, Fits, UsedExact

LEMMA SameBase ==
    ASSUME UNCHANGED quota_events, \A a \in Account : KeepsTotal(a),
           \A a \in Account : quota[a] = None => quota'[a] = None
    PROVE  Opened' = Opened /\ Base' = Base
<1>1. \A a \in Account : Granted(a)' = Granted(a)
  BY DEF Granted, Tagged, CreditedUnder
<1> QED  BY <1>1 DEF Opened, Base, KeepsTotal

LEMMA LedgerPut ==
    ASSUME TypeOK, UsedExact, GrantInv, NEW caller \in Account, NEW o \in Object,
           NEW m \in Manifest, CommitManifest(caller, o, m)
    PROVE  Ledger!Put(caller, o, m)
<1>1. Ledger!HasRoom(caller, m.ciphertext_size)
  BY LedgerMeasures DEF CommitManifest
<1>2. /\ \A a \in Account : KeepsTotal(a)
      /\ quota'[caller] # None /\ \A a \in Account \ {caller} : quota'[a] = quota[a]
  BY CommitKeepsTotals
<1>3. \A a \in Account : Granted(a)' = Granted(a)
  BY DEF CommitManifest, Granted, Tagged, CreditedUnder
<1>4. Opened' = Opened \cup {caller}
  BY <1>2 DEF Opened
<1>5. Base' = IF caller \in Opened THEN Base ELSE [Base EXCEPT ![caller] = default_quota]
  <2>1. \A a \in Account \ {caller} : Base'[a] = Base[a]
    BY <1>2, <1>3 DEF Base
  <2>2. CASE quota[caller] # None
    BY <1>2, <1>3, <2>1, <2>2 DEF Base, Opened, KeepsTotal
  <2>3. CASE quota[caller] = None
    <3>1. Cardinality(Granted(caller)) = 0 /\ default_quota \in Nat
      BY <2>3, FS_EmptySet, BytesAssumption DEF GrantInv, TotalIsGranted, TypeOK
    <3>2. Base'[caller] = default_quota
      BY <1>2, <1>3, <2>3, <3>1 DEF Base, KeepsTotal
    <3> QED  BY <2>1, <2>3, <3>2 DEF Base, Opened
  <2> QED  BY <2>2, <2>3
<1>6. buckets' = [buckets EXCEPT ![o[1]] = caller]
  BY DEF CommitManifest, TypeOK, Object
<1> QED  BY <1>1, <1>4, <1>5, <1>6
            DEF Ledger!Put, Ledger!Open, Ledger!roles, Opened, Base, CommitManifest, operatorVars

LEMMA LedgerDelete ==
    ASSUME TypeOK, NEW caller \in Account, NEW o \in Object, DeleteManifest(caller, o)
    PROVE  Ledger!Delete(caller, o)
<1>1. Opened' = Opened /\ Base' = Base
  BY DeleteKeepsTotals, SameBase DEF DeleteManifest
<1> QED  BY <1>1 DEF Ledger!Delete, Ledger!roles, Opened, Base, DeleteManifest, operatorVars

LEMMA LedgerRepair ==
    ASSUME TypeOK, UsedExact, GrantInv, ObjectsAreBilled,
           NEW caller \in Account, NEW o \in Object, NEW m \in Manifest,
           RepairManifest(caller, o, m)
    PROVE  Ledger!Repair(caller, o, m)
<1> DEFINE account == buckets[o[1]]
           delta == m.ciphertext_size - SizeOf(manifests[o])
<1>1. account \in Account /\ account # None /\ quota[account] # None
  BY DEF RepairManifest, ObjectsAreBilled, TypeOK, Object
<1>2. delta > 0 => Ledger!HasRoom(account, delta)
  BY <1>1, LedgerMeasures DEF RepairManifest
<1>3. Opened' = Opened /\ Base' = Base
  BY <1>1, RepairKeepsTotals, SameBase DEF RepairManifest
<1>4. delta = m.ciphertext_size - Ledger!Size(manifests[o])
  BY DEF Ledger!Size, SizeOf
<1> QED  BY <1>2, <1>3, <1>4
            DEF Ledger!Repair, Ledger!roles, Opened, Base, RepairManifest, operatorVars

LEMMA LedgerGrant ==
    ASSUME TypeOK, GrantInv, NEW a \in Account, NEW bytes \in Credit, NEW r \in Ref,
           ContributionGrant(a, bytes, r)
    PROVE  Ledger!Grant(a, bytes, r)
<1>1. /\ Cardinality(Granted(a)') = Cardinality(Granted(a)) + bytes
      /\ Cardinality(Granted(a)) \in Nat
      /\ \A x \in Account \ {a} : Granted(x)' = Granted(x)
  BY CreditCounts
<1>2. /\ quota[a] \in QuotaRow \cup {None} /\ quota'[a] = Credited(quota[a], bytes)
      /\ quota'[a] # None /\ bytes \in Nat
      /\ \A x \in Account \ {a} : quota'[x] = quota[x]
  BY BytesAssumption, QuotaTypes, AbsentAssumption DEF ContributionGrant, TypeOK
<1>3. Opened' = Opened \cup {a}
  BY <1>2 DEF Opened
<1>4. Base' = Base
  <2>1. \A x \in Account \ {a} : Base'[x] = Base[x]
    BY <1>1, <1>2 DEF Base
  <2>2. Base'[a] = Base[a]
    <3>1. CASE quota[a] = None
      <4>1. Cardinality(Granted(a)) = 0
        BY <3>1, FS_EmptySet DEF GrantInv, TotalIsGranted
      <4>2. quota'[a].total_bytes = bytes
        BY <1>2, <3>1 DEF Credited
      <4> QED  BY <1>1, <1>2, <3>1, <4>1, <4>2 DEF Base
    <3>2. CASE quota[a] # None
      <4>1. /\ quota'[a].total_bytes = quota[a].total_bytes + bytes
            /\ quota[a].total_bytes \in Nat
        BY <1>2, <3>2 DEF Credited, QuotaRow
      <4> QED  BY <1>1, <1>2, <3>2, <4>1 DEF Base
    <3> QED  BY <3>1, <3>2
  <2> QED  BY <2>1, <2>2 DEF Base
<1> QED  BY <1>3, <1>4
            DEF Ledger!Grant, Ledger!roles, Opened, Base, ContributionGrant, objectVars, operatorVars

\* The counters of the tables, used_bytes and total_bytes, refuse what an index that
\* measured objects and credits each time would refuse (apply_command, try_debit, release).
THEOREM CountersImplementLedger == Spec => KeepsLedger
<1>1. Init => Ledger!Init
  BY DEF Init, Ledger!Init, Ledger!Object, Object
<1>2. ASSUME TypeOK, UsedExact, GrantInv, ObjectsAreBilled, [Next]_vars
      PROVE  [Ledger!Next]_(Ledger!vars)
  <2>1. CASE \E caller \in Account, o \in Object, m \in Manifest :
                CommitManifest(caller, o, m) \/ RepairManifest(caller, o, m)
    <3>1. \E caller \in Account, o \in Object, m \in Manifest :
             Ledger!Put(caller, o, m) \/ Ledger!Repair(caller, o, m)
      BY <1>2, <2>1, LedgerPut, LedgerRepair
    <3> QED  BY <3>1 DEF Ledger!Next, Ledger!Object, Object
  <2>2. CASE \E caller \in Account, o \in Object : DeleteManifest(caller, o)
    <3>1. \E caller \in Account, o \in Object : Ledger!Delete(caller, o)
      BY <1>2, <2>2, LedgerDelete
    <3> QED  BY <3>1 DEF Ledger!Next, Ledger!Object, Object
  <2>3. CASE \E a \in Account, bytes \in Credit, r \in Ref : ContributionGrant(a, bytes, r)
    <3>1. \E a \in Account, bytes \in Credit, r \in Ref : Ledger!Grant(a, bytes, r)
      BY <1>2, <2>3, LedgerGrant
    <3> QED  BY <3>1 DEF Ledger!Next
  <2>4. CASE \/ UNCHANGED vars
             \/ \E caller \in Account :
                   \/ \E b \in Bucket : CreateBucket(caller, b)
                   \/ SetRepairOperator(caller) \/ SetPaymentOperator(caller)
                   \/ \E total \in Default : SetDefaultQuota(caller, total)
    <3>1. UNCHANGED <<manifests, quota, quota_events>>
      BY <2>4 DEF vars, objectVars, CreateBucket, SetRepairOperator, SetPaymentOperator,
                  SetDefaultQuota
    <3>2. Opened' = Opened /\ Base' = Base
      <4>1. \A a \in Account : KeepsTotal(a)
        BY <3>1 DEF KeepsTotal
      <4> QED  BY <3>1, <4>1, SameBase
    <3>3. CASE UNCHANGED vars
      BY <3>2, <3>3 DEF vars, objectVars, operatorVars, Ledger!vars, Ledger!roles, Opened, Base
    <3>4. ASSUME NEW caller \in Account, NEW b \in Bucket, CreateBucket(caller, b)
          PROVE  Ledger!Create(caller, b)
      BY <3>2, <3>4 DEF CreateBucket, operatorVars, Ledger!Create, Ledger!roles, Opened, Base
    <3>5. ASSUME NEW caller \in Account, SetRepairOperator(caller)
          PROVE  Ledger!ClaimRepair(caller)
      BY <3>2, <3>5 DEF SetRepairOperator, objectVars, Ledger!ClaimRepair, Opened, Base
    <3>6. ASSUME NEW caller \in Account, SetPaymentOperator(caller)
          PROVE  Ledger!ClaimPayment(caller)
      BY <3>2, <3>6 DEF SetPaymentOperator, objectVars, Ledger!ClaimPayment, Opened, Base
    <3>7. ASSUME NEW caller \in Account, NEW total \in Default, SetDefaultQuota(caller, total)
          PROVE  Ledger!SetDefault(caller, total)
      BY <3>2, <3>7 DEF SetDefaultQuota, objectVars, Ledger!SetDefault, Opened, Base
    <3> QED  BY <2>4, <3>3, <3>4, <3>5, <3>6, <3>7 DEF Ledger!Next
  <2> QED  BY <1>2, <2>1, <2>2, <2>3, <2>4
              DEF Next, ObjectCommand, QuotaCommand, AllocateQuota
<1> QED  BY <1>1, <1>2, SpecImpliesSpecAll, TypeCorrect, EveryObjectIsBilled, UsedIsExact,
            GrantInvariant, PTL DEF Spec, KeepsLedger, Ledger!Spec
=============================================================================
