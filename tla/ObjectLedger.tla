---------------------------- MODULE ObjectLedger ----------------------------
(***************************************************************************)
(* What the tables of the index promise: an index without counters.  What  *)
(* an account uses is measured on the objects in its buckets and what it   *)
(* may use on the credits it got, each time somebody asks.  IndexState     *)
(* keeps both as running totals and must accept no command that this index *)
(* would refuse.                                                           *)
(***************************************************************************)
EXTENDS Integers, FiniteSets

CONSTANTS Account, Bucket, Key, Manifest, Ref, Credit, Default, None

Object == Bucket \X Key

VARIABLES owner,    \* owner[b]: the account that has bucket b, None if it is free
          object,   \* object[o]: the manifest stored under o or None
          credit,   \* credit[r]: the credit given under r or None
          opened,   \* accounts that have put an object or got a credit
          base,     \* base[a]: the default total that a keeps, fixed when a opens
          repair_operator, payment_operator, default_quota

roles == <<repair_operator, payment_operator, default_quota>>
vars == <<owner, object, credit, opened, base, roles>>

Init ==
    /\ owner = [b \in Bucket |-> None] /\ object = [o \in Object |-> None]
    /\ credit = [r \in Ref |-> None]
    /\ opened = {} /\ base = [a \in Account |-> 0]
    /\ repair_operator = None /\ payment_operator = None /\ default_quota = 0

-----------------------------------------------------------------------------
Size(m) == IF m = None THEN 0 ELSE m.ciphertext_size

Usage(a) ==
    Cardinality(UNION {{o} \X (1..Size(object[o])) : o \in {p \in Object : owner[p[1]] = a}})

Given(a) ==
    Cardinality(UNION {{r} \X (1..credit[r].bytes) :
                          r \in {q \in Ref : credit[q] # None /\ credit[q].account_id = a}})

Total(a) == IF a \in opened THEN base[a] + Given(a) ELSE default_quota

HasRoom(a, bytes) == Usage(a) + bytes <= Total(a)

\* The default of the moment becomes the base of an account that puts for the first time.
Open(a) ==
    /\ opened' = opened \cup {a}
    /\ base' = IF a \in opened THEN base ELSE [base EXCEPT ![a] = default_quota]

-----------------------------------------------------------------------------
\* A put has to fit beside what it replaces.
Put(caller, o, m) ==
    /\ owner[o[1]] \in {None, caller} /\ HasRoom(caller, m.ciphertext_size)
    /\ owner' = [owner EXCEPT ![o[1]] = caller]
    /\ object' = [object EXCEPT ![o] = m]
    /\ Open(caller)
    /\ UNCHANGED <<credit, roles>>

Create(caller, b) ==
    /\ owner[b] = None
    /\ owner' = [owner EXCEPT ![b] = caller]
    /\ UNCHANGED <<object, credit, opened, base, roles>>

Delete(caller, o) ==
    /\ owner[o[1]] = caller /\ object[o] # None
    /\ object' = [object EXCEPT ![o] = None]
    /\ UNCHANGED <<owner, credit, opened, base, roles>>

\* A repair has to fit into what it replaces and the room of the object's owner.
Repair(caller, o, m) ==
    LET growth == m.ciphertext_size - Size(object[o]) IN
    /\ caller = repair_operator
    /\ object[o] # None /\ object[o].object_hash = m.object_hash
    /\ growth > 0 => HasRoom(owner[o[1]], growth)
    /\ object' = [object EXCEPT ![o] = m]
    /\ UNCHANGED <<owner, credit, opened, base, roles>>

\* A credit counts once.  Whether the first one replaces the default an account has or tops
\* it up is left open: the repository says both.
Grant(a, bytes, r) ==
    /\ credit[r] = None
    /\ credit' = [credit EXCEPT ![r] = [account_id |-> a, bytes |-> bytes]]
    /\ opened' = opened \cup {a}
    /\ \/ UNCHANGED base
       \/ a \notin opened /\ base' = [base EXCEPT ![a] = default_quota]
    /\ UNCHANGED <<owner, object, roles>>

ClaimRepair(caller) ==
    /\ repair_operator = None /\ repair_operator' = caller
    /\ UNCHANGED <<owner, object, credit, opened, base, payment_operator, default_quota>>

ClaimPayment(caller) ==
    /\ payment_operator = None /\ payment_operator' = caller
    /\ UNCHANGED <<owner, object, credit, opened, base, repair_operator, default_quota>>

SetDefault(caller, total) ==
    /\ caller = payment_operator /\ default_quota' = total
    /\ UNCHANGED <<owner, object, credit, opened, base, repair_operator, payment_operator>>

Next ==
    \/ \E caller \in Account :
          \/ \E o \in Object, m \in Manifest : Put(caller, o, m) \/ Repair(caller, o, m)
          \/ \E o \in Object : Delete(caller, o)
          \/ \E b \in Bucket : Create(caller, b)
          \/ ClaimRepair(caller) \/ ClaimPayment(caller)
          \/ \E total \in Default : SetDefault(caller, total)
    \/ \E a \in Account, bytes \in Credit, r \in Ref : Grant(a, bytes, r)

Spec == Init /\ [][Next]_vars
=============================================================================
