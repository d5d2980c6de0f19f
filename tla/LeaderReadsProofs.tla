--------------------------- MODULE LeaderReadsProofs ---------------------------
(***************************************************************************)
(* Proofs about LeaderReads, for every number of servers, clients, writes, *)
(* elections and attempts.                                                 *)
(***************************************************************************)
EXTENDS LeaderReads, TLAPS

\* What makes a reply fresh: nobody was told more than is committed, and a request that
\* passed the barrier is at a server whose tables have what its client must see.
Fresh ==
    /\ told <= committed
    /\ \A s \in Server : applied[s] <= committed
    /\ \A c \in Client :
        /\ since[c] = None <=> request[c].phase = "idle"
        /\ request[c].phase \in {"idle", "find"} => request[c].server = None
        /\ since[c] # None => since[c] <= told
        /\ request[c].phase \in {"barrier", "wait", "owner", "rows"} =>
               request[c].server \in Server
        /\ request[c].phase = "wait" => since[c] <= request[c].need
        /\ request[c].phase \in {"owner", "rows"} =>
               since[c] <= applied[request[c].server]

IInv == TypeOK /\ Fresh

LEMMA InitFresh == Init => IInv
<1>1. Init => TypeOK
  BY ReadsAssumption DEF Init, TypeOK, Request, Idle
<1>2. Init => Fresh
  BY ReadsAssumption DEF Init, Fresh, Idle
<1> QED BY <1>1, <1>2 DEF IInv

\* The steps of Raft: versions grow, and only an answer tells anybody.
LEMMA RaftFresh ==
    ASSUME IInv, Commit \/ \E s \in Server : Raft(s)
    PROVE  IInv'
<1> USE ReadsAssumption DEF history
<1> USE DEF raft
<1>1. CASE Commit
  BY <1>1 DEF IInv, TypeOK, Fresh, Commit, Request
<1>2. ASSUME NEW s \in Server, Apply(s) PROVE IInv'
  BY <1>2 DEF IInv, TypeOK, Fresh, Apply, Request
<1>3. ASSUME NEW s \in Server, Answer(s) PROVE IInv'
  BY <1>3 DEF IInv, TypeOK, Fresh, Answer, Request
<1>4. ASSUME NEW s \in Server, Elect(s) PROVE IInv'
  BY <1>4 DEF IInv, TypeOK, Fresh, Elect, Request
<1>5. ASSUME NEW s \in Server, GainLease(s) PROVE IInv'
  BY <1>5 DEF IInv, TypeOK, Fresh, GainLease, Request
<1>6. ASSUME NEW s \in Server, LoseLease(s) PROVE IInv'
  BY <1>6 DEF IInv, TypeOK, Fresh, LoseLease, Request
<1>7. ASSUME NEW s \in Server, StepDown(s) PROVE IInv'
  BY <1>7 DEF IInv, TypeOK, Fresh, StepDown, Request
<1>8. ASSUME NEW s \in Server, Restart(s) PROVE IInv'
  <2>1. \A c \in Client :
            /\ request'[c] = request[c] \/ request'[c] = [request[c] EXCEPT !.phase = "broken"]
            /\ request'[c] \in Request
            /\ request[c].phase = "idle" => request'[c] = request[c]
    BY <1>8 DEF IInv, TypeOK, Fresh, Restart, Request
  <2>2. request' \in [Client -> Request] BY <2>1, <1>8 DEF Restart
  <2>3. \A c \in Client : request'[c].phase = request[c].phase \/ request'[c].phase = "broken"
    BY <2>1 DEF IInv, TypeOK, Request
  <2>4. TypeOK' BY <2>2, <1>8 DEF IInv, TypeOK, Restart
  <2>5. Fresh' BY <2>1, <2>3, <1>8 DEF IInv, TypeOK, Fresh, Restart, Request
  <2> QED BY <2>4, <2>5 DEF IInv
<1> QED BY <1>1, <1>2, <1>3, <1>4, <1>5, <1>6, <1>7, <1>8 DEF Raft

LEMMA AgainTyped ==
    ASSUME NEW r \in Request
    PROVE  /\ Again(r) \in Request
           /\ Again(r) = Idle \/ Again(r).phase = "find"
           /\ Idle.phase = "idle" /\ Idle \in Request
           /\ Again(r).server = None
<1> USE ReadsAssumption
<1>1. Idle.phase = "idle" /\ Idle.server = None /\ Idle \in Request BY DEF Idle, Request
<1>2. CASE r.tries + 1 < Attempts
  <2>1. Again(r) = [Idle EXCEPT !.phase = "find", !.tries = r.tries + 1]
    BY <1>2 DEF Again
  <2>2. r.tries + 1 \in 0..Attempts-1 BY <1>2 DEF Request
  <2> QED BY <1>1, <2>1, <2>2 DEF Idle, Request
<1>3. CASE ~(r.tries + 1 < Attempts) BY <1>1, <1>3 DEF Again
<1> QED BY <1>1, <1>2, <1>3

\* The steps of the reads.
LEMMA ReadFresh ==
    ASSUME IInv, NEW c \in Client, Read(c)
    PROVE  IInv'
<1> USE ReadsAssumption DEF history, raft
<1>1. CASE Begin(c)
  BY <1>1 DEF IInv, TypeOK, Fresh, Begin, Request, Idle
<1>2. CASE FindNobody(c)
  BY <1>2 DEF IInv, TypeOK, Fresh, FindNobody, Request, Idle
<1>3. CASE Retry(c)
  <2>1. request[c] \in Request BY DEF IInv, TypeOK
  <2> QED BY <2>1, <1>3, AgainTyped DEF IInv, TypeOK, Fresh, Retry
<1>4. CASE Barrier(c)
  <2>1. since[c] <= committed
    BY <1>4 DEF IInv, TypeOK, Fresh, Barrier, Request
  <2>2. [request[c] EXCEPT !.phase = "wait", !.need = committed] \in Request
    BY <1>4 DEF IInv, TypeOK, Request
  <2>4. request' = [request EXCEPT ![c] = [request[c] EXCEPT !.phase = "wait", !.need = committed]]
    BY <1>4 DEF IInv, TypeOK, Barrier, Request
  <2>5. TypeOK' BY <2>2, <2>4, <1>4 DEF IInv, TypeOK, Barrier
  <2>3. Fresh' BY <2>1, <1>4 DEF IInv, TypeOK, Fresh, Barrier, Request
  <2> QED BY <2>5, <2>3 DEF IInv
<1>5. CASE Pass(c)
  BY <1>5 DEF IInv, TypeOK, Fresh, Pass, Request
<1>6. ASSUME Reply(c), request[c].phase \in {"owner", "rows"} PROVE IInv'
  BY <1>6 DEF IInv, TypeOK, Fresh, Reply, Request, Idle
<1>7. CASE ReadOwner(c)
  <2>1. CASE Reply(c) BY <2>1, <1>6, <1>7 DEF ReadOwner
  <2>2. CASE ~Reply(c)
    BY <2>2, <1>7 DEF IInv, TypeOK, Fresh, ReadOwner, Request
  <2> QED BY <2>1, <2>2
<1>8. CASE ReadRows(c)
  BY <1>6, <1>8 DEF ReadRows
<1>9. ASSUME NEW s \in Server, Find(c, s) PROVE IInv'
  BY <1>9 DEF IInv, TypeOK, Fresh, Find, Request
<1> QED BY <1>1, <1>2, <1>3, <1>4, <1>5, <1>7, <1>8, <1>9 DEF Read

LEMMA StepFresh == IInv /\ [Next]_vars => IInv'
<1> SUFFICES ASSUME IInv, [Next]_vars PROVE IInv'
  OBVIOUS
<1>1. CASE UNCHANGED vars
  BY <1>1 DEF IInv, TypeOK, Fresh, vars, raft, history
<1>2. CASE Next
  BY <1>2, RaftFresh, ReadFresh DEF Next
<1> QED BY <1>1, <1>2

\* Every reachable state has well-formed requests, histories and Raft state.
THEOREM TypeCorrect == Spec => []TypeOK
<1>1. Spec => []IInv
  BY InitFresh, StepFresh, PTL DEF Spec
<1> QED BY <1>1, PTL DEF IInv

-----------------------------------------------------------------------------
(* The reads implement FreshReads.                                         *)

LEMMA InitRefines == Init => Promise!Init
  BY DEF Init, Promise!Init

LEMMA RaftRefines ==
    ASSUME IInv, Commit \/ \E s \in Server : Raft(s)
    PROVE  [Promise!Next]_(Promise!vars)
<1> USE ReadsAssumption DEF history, raft, Promise!vars
<1>1. CASE Commit
  <2>1. Promise!Write BY <1>1 DEF Commit, Promise!Write
  <2> QED BY <2>1 DEF Promise!Next
<1>2. ASSUME NEW s \in Server, Answer(s) PROVE [Promise!Next]_(Promise!vars)
  <2>1. Promise!Answer BY <1>2 DEF Answer, Promise!Answer, IInv, TypeOK, Fresh
  <2> QED BY <2>1 DEF Promise!Next
<1>3. ASSUME NEW s \in Server, Apply(s) \/ Elect(s) \/ GainLease(s) \/ LoseLease(s)
                                   \/ StepDown(s) \/ Restart(s)
      PROVE UNCHANGED (Promise!vars)
  BY <1>3 DEF Apply, Elect, GainLease, LoseLease, StepDown, Restart
<1> QED BY <1>1, <1>2, <1>3 DEF Raft

LEMMA ReadRefines ==
    ASSUME IInv, NEW c \in Client, Read(c)
    PROVE  [Promise!Next]_(Promise!vars)
<1> USE ReadsAssumption DEF history, raft, Promise!vars
<1> DEFINE Step == [Promise!Next]_(Promise!vars)
<1>1. CASE Begin(c)
  <2>1. Promise!Begin(c) BY <1>1 DEF Begin, Promise!Begin, IInv, TypeOK, Fresh
  <2> QED BY <2>1 DEF Promise!Next
<1>2. CASE FindNobody(c)
  <2>1. Promise!Fail(c) BY <1>2 DEF FindNobody, Promise!Fail, IInv, TypeOK, Fresh
  <2> QED BY <2>1 DEF Promise!Next
<1>3. CASE Retry(c)
  <2>1. CASE Again(request[c]) = Idle
    <3>1. Promise!Fail(c) BY <2>1, <1>3 DEF Retry, Promise!Fail, IInv, TypeOK, Fresh
    <3> QED BY <3>1 DEF Promise!Next
  <2>2. CASE Again(request[c]) # Idle
    <3>1. since' = since BY <2>2, <1>3 DEF Retry, IInv, TypeOK
    <3> QED BY <3>1, <1>3 DEF Retry
  <2> QED BY <2>1, <2>2
<1>4. ASSUME Reply(c), request[c].phase \in {"owner", "rows"} PROVE Step
  <2> DEFINE v == applied[request[c].server]
  <2>1. v \in since[c]..committed /\ since[c] # None
    BY <1>4 DEF IInv, TypeOK, Fresh
  <2>2. Promise!Return(c) BY <2>1, <1>4 DEF Reply, Promise!Return
  <2> QED BY <2>2 DEF Promise!Next
<1>5. CASE ReadOwner(c)
  <2>1. CASE Reply(c) BY <2>1, <1>4, <1>5 DEF ReadOwner
  <2>2. CASE ~Reply(c) BY <2>2, <1>5 DEF ReadOwner
  <2> QED BY <2>1, <2>2
<1>6. CASE ReadRows(c) BY <1>4, <1>6 DEF ReadRows
<1>7. CASE Barrier(c) \/ Pass(c) \/ \E s \in Server : Find(c, s)
  BY <1>7 DEF Barrier, Pass, Find
<1> QED BY <1>1, <1>2, <1>3, <1>5, <1>6, <1>7 DEF Read

\* Every read returns at least what anybody had been told when it began: the lease
\* barrier and the look at the tables after it implement FreshReads.
THEOREM ReadsAreFreshAlways == Spec => ReadsAreFresh
<1>1. IInv /\ [Next]_vars => [Promise!Next]_(Promise!vars)
  <2> SUFFICES ASSUME IInv, [Next]_vars PROVE [Promise!Next]_(Promise!vars)
    OBVIOUS
  <2>1. CASE UNCHANGED vars BY <2>1 DEF vars, raft, history, Promise!vars
  <2>2. CASE Next BY <2>2, RaftRefines, ReadRefines DEF Next
  <2> QED BY <2>1, <2>2
<1> QED BY <1>1, InitFresh, StepFresh, InitRefines, PTL
        DEF Spec, ReadsAreFresh, Promise!Spec
=============================================================================
