------------------------------ MODULE LeaderReads ------------------------------
(***************************************************************************)
(* Reads of the replicated tables: index_get (remote.rs) finds a server    *)
(* that takes itself for the leader and asks it, up to three times; the    *)
(* handler (api.rs) passes the lease barrier, which waits for the apply of *)
(* what is committed, and then reads its own tables, in one or two looks,  *)
(* with nothing held in between.  Raft (openraft) is external: it commits  *)
(* writes, elects leaders and grants leases.                               *)
(***************************************************************************)
EXTENDS Integers

CONSTANTS Server, Client, None,
          Attempts,     \* requests of one index_get (3 in the code)
          MaxWrites,    \* bound: writes committed
          MaxElections  \* bound: elections and restarts of servers

ASSUME ReadsAssumption ==
    /\ None \notin Server /\ None \notin Int
    /\ Attempts \in Nat \ {0} /\ MaxWrites \in Nat /\ MaxElections \in Nat

VARIABLES committed, \* writes committed by Raft
          applied,   \* applied[s]: writes in the tables of s, which are on its disk
          leader,    \* who was elected last, or None
          claims,    \* servers whose metrics name themselves as the leader
          lease,     \* servers that hold a leader lease
          request,   \* request[c]: the read c is in the middle of
          elections,
          told,      \* history: the newest version told to anybody
          since,     \* history: told when c began its read, or None
          result     \* what the last read of c returned, or None

raft == <<committed, leader, claims, lease, elections>>
history == <<told, since, result>>
vars == <<raft, applied, request, history>>

Idle == [phase |-> "idle", server |-> None, need |-> 0, tries |-> 0]
Request == [phase : {"idle", "find", "barrier", "wait", "owner", "rows", "broken"},
            server : Server \cup {None}, need : 0..MaxWrites, tries : 0..Attempts-1]

Init ==
    /\ committed = 0
    /\ applied = [s \in Server |-> 0]
    /\ leader = None /\ claims = {} /\ lease = {}
    /\ request = [c \in Client |-> Idle]
    /\ elections = 0
    /\ told = 0
    /\ since = [c \in Client |-> None]
    /\ result = [c \in Client |-> None]

-----------------------------------------------------------------------------
(* Raft, as far as reads see it.                                           *)

Commit ==
    /\ leader # None /\ committed < MaxWrites
    /\ committed' = committed + 1
    /\ UNCHANGED <<leader, claims, lease, elections, applied, request, history>>

Apply(s) ==
    /\ applied[s] < committed
    /\ applied' = [applied EXCEPT ![s] = @ + 1]
    /\ UNCHANGED <<raft, request, history>>

\* Callers of writes are answered after the leader has applied them.
Answer(s) ==
    /\ s = leader /\ told < applied[s]
    /\ told' = applied[s]
    /\ UNCHANGED <<raft, applied, request, since, result>>

\* While a lease lasts, the others elect nobody.  Who was deposed still claims to lead.
Elect(s) ==
    /\ elections < MaxElections /\ lease = {}
    /\ elections' = elections + 1
    /\ leader' = s
    /\ claims' = claims \cup {s}
    /\ UNCHANGED <<committed, lease, applied, request, history>>

GainLease(s) ==
    /\ s = leader /\ s \notin lease
    /\ lease' = {s}
    /\ UNCHANGED <<committed, leader, claims, elections, applied, request, history>>

LoseLease(s) ==
    /\ s \in lease
    /\ lease' = {}
    /\ UNCHANGED <<committed, leader, claims, elections, applied, request, history>>

StepDown(s) ==
    /\ s \in claims /\ s # leader
    /\ claims' = claims \ {s}
    /\ UNCHANGED <<committed, leader, lease, elections, applied, request, history>>

\* A restart keeps the tables and breaks the connections of the requests being served.
Restart(s) ==
    /\ elections < MaxElections
    /\ elections' = elections + 1
    /\ leader' = IF s = leader THEN None ELSE leader
    /\ claims' = claims \ {s} /\ lease' = lease \ {s}
    /\ request' = [c \in Client |-> IF request[c].server = s
                                    THEN [request[c] EXCEPT !.phase = "broken"] ELSE request[c]]
    /\ UNCHANGED <<committed, applied, history>>

-----------------------------------------------------------------------------
(* The client: find_leader and index_get.                                  *)

Begin(c) ==
    /\ request[c].phase = "idle"
    /\ request' = [request EXCEPT ![c] = [Idle EXCEPT !.phase = "find"]]
    /\ since' = [since EXCEPT ![c] = told]
    /\ result' = [result EXCEPT ![c] = None]
    /\ UNCHANGED <<raft, applied, told>>

\* The first server whose metrics name itself.
Find(c, s) ==
    /\ request[c].phase = "find" /\ s \in claims
    /\ request' = [request EXCEPT ![c].phase = "barrier", ![c].server = s]
    /\ UNCHANGED <<raft, applied, history>>

\* No server claims to lead: the read fails at once.
FindNobody(c) ==
    /\ request[c].phase = "find" /\ claims = {}
    /\ request' = [request EXCEPT ![c] = Idle]
    /\ since' = [since EXCEPT ![c] = None]
    /\ UNCHANGED <<raft, applied, told, result>>

\* Faulty variants: one attempt too many; attempts are not counted.
AgainOnceMore(r) ==
    IF r.tries < Attempts THEN [Idle EXCEPT !.phase = "find", !.tries = r.tries + 1]
    ELSE Idle
AgainForever(r) == [Idle EXCEPT !.phase = "find", !.tries = r.tries]

Again(r) ==
    IF r.tries + 1 < Attempts THEN [Idle EXCEPT !.phase = "find", !.tries = r.tries + 1]
    ELSE Idle

\* A 503 or a transport error ends an attempt; after the last one, the read.
Retry(c) ==
    /\ request[c].phase \notin {"idle", "find"}
    /\ request' = [request EXCEPT ![c] = Again(@)]
    /\ since' = [since EXCEPT ![c] = IF Again(request[c]) = Idle THEN None ELSE @]
    /\ UNCHANGED <<raft, applied, told, result>>

-----------------------------------------------------------------------------
(* The handler.                                                            *)

\* Faulty variant: no barrier, what is applied already is enough.
BarrierOpen(c) ==
    /\ request[c].phase = "barrier"
    /\ request' = [request EXCEPT ![c].phase = "wait", ![c].need = applied[request[c].server]]
    /\ UNCHANGED <<raft, applied, history>>

\* ensure_linearizable(LeaseRead): with the lease, the leader's commit index is that of
\* the cluster (no lease is a 503, see Retry),
Barrier(c) ==
    /\ request[c].phase = "barrier" /\ request[c].server \in lease
    /\ request' = [request EXCEPT ![c].phase = "wait", ![c].need = committed]
    /\ UNCHANGED <<raft, applied, history>>

\* and the barrier lets the handler pass once its tables have got there.
Pass(c) ==
    /\ request[c].phase = "wait"
    /\ applied[request[c].server] >= request[c].need
    /\ \E phase \in {"owner", "rows"} : request' = [request EXCEPT ![c].phase = phase]
    /\ UNCHANGED <<raft, applied, history>>

\* The answer is what the tables of the server hold now.
Reply(c) ==
    LET version == applied[request[c].server] IN
    /\ request' = [request EXCEPT ![c] = Idle]
    /\ result' = [result EXCEPT ![c] = version]
    /\ told' = IF version > told THEN version ELSE told
    /\ since' = [since EXCEPT ![c] = None]
    /\ UNCHANGED <<raft, applied>>

\* bucket_owner: 403 at once, or a second look at the tables.
ReadOwner(c) ==
    /\ request[c].phase = "owner"
    /\ \/ Reply(c)
       \/ /\ request' = [request EXCEPT ![c].phase = "rows"]
          /\ UNCHANGED <<raft, applied, history>>

\* read_manifest, list_objects, account_quota, list_buckets.
ReadRows(c) ==
    /\ request[c].phase = "rows"
    /\ Reply(c)

-----------------------------------------------------------------------------
Raft(s) ==
    Apply(s) \/ Answer(s) \/ Elect(s) \/ GainLease(s) \/ LoseLease(s) \/ StepDown(s)
        \/ Restart(s)

Read(c) ==
    \/ Begin(c) \/ FindNobody(c) \/ Retry(c) \/ Barrier(c) \/ Pass(c)
    \/ ReadOwner(c) \/ ReadRows(c)
    \/ \E s \in Server : Find(c, s)

Next == Commit \/ (\E s \in Server : Raft(s)) \/ (\E c \in Client : Read(c))

Spec == Init /\ [][Next]_vars

\* The state machine task of every server runs, and so do find_leader and the handlers.
\* Nothing is assumed of elections and leases.
Fairness ==
    /\ \A s \in Server : WF_vars(Apply(s))
    /\ \A c \in Client :
        /\ WF_vars(FindNobody(c) \/ \E s \in Server : Find(c, s))
        /\ WF_vars(Retry(c) \/ Barrier(c))
        /\ WF_vars(Pass(c)) /\ WF_vars(ReadOwner(c)) /\ WF_vars(ReadRows(c))

FairSpec == Spec /\ Fairness

-----------------------------------------------------------------------------
(* Properties.                                                             *)

TypeOK ==
    /\ committed \in 0..MaxWrites
    /\ applied \in [Server -> 0..MaxWrites]
    /\ leader \in Server \cup {None}
    /\ claims \subseteq Server /\ lease \subseteq Server
    /\ request \in [Client -> Request]
    /\ elections \in 0..MaxElections
    /\ told \in 0..MaxWrites
    /\ since \in [Client -> 0..MaxWrites \cup {None}]
    /\ result \in [Client -> 0..MaxWrites \cup {None}]

\* A read returns a version at least as new as all that anybody was told before it
\* began, although the server may be deposed between the barrier and the rows and its
\* own tables lag ("a leader cut off from its peers keeps serving stale metadata").
Promise == INSTANCE FreshReads WITH version <- committed
ReadsAreFresh == Promise!Spec

\* Every read ends, with an answer or an error, however leaders and leases come and go.
ReadsEnd == \A c \in Client : request[c].phase # "idle" ~> request[c].phase = "idle"
=============================================================================
