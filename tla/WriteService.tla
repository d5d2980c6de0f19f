---------------------------- MODULE WriteService ----------------------------
(***************************************************************************)
(* What the write path promises to its clients, without its queue, its     *)
(* flush loop and its notifications: a request that was asked is applied   *)
(* once or never, and it is answered once, by the log or by an error that  *)
(* leaves open whether it will be applied.                                 *)
(***************************************************************************)
EXTENDS Integers, Sequences, Functions

CONSTANTS Client, Repeatable, Attempts, None

VARIABLES asked,    \* asked[c]: how often c has asked
          answer,   \* answer[c]: what c was answered to its last request, or None
          pending,  \* the requests that may still be applied
          log       \* the requests applied so far, in order

vars == <<asked, answer, pending, log>>

Own(c) == <<c, asked[c]>>

Init ==
    /\ asked = [c \in Client |-> 0] /\ answer = [c \in Client |-> None]
    /\ pending = {} /\ log = <<>>

-----------------------------------------------------------------------------
\* A request is asked again after an error only, never after an answer of the log.
Ask(c) ==
    /\ asked[c] < Attempts
    /\ asked[c] # 0 => answer[c] # None /\ answer[c].result = "raft batch error"
    /\ asked' = [asked EXCEPT ![c] = @ + 1]
    /\ answer' = [answer EXCEPT ![c] = None]
    /\ pending' = pending \cup {<<c, asked[c] + 1>>}
    /\ UNCHANGED log

\* What a request of the log did: the second delete finds no object.
Effect(history, r) ==
    IF \/ r[1] \in Repeatable
       \/ \A i, j \in DOMAIN history : history[i] = r /\ j < i => history[j][1] # r[1]
    THEN "ok" ELSE "rejected"

\* A client whose request is in batch is answered, unless it was before, and nobody else.
Answers(batch, result) ==
    answer' = [c \in Client |->
                 IF Own(c) \in batch /\ answer[c] = None
                 THEN [request |-> Own(c), result |-> result[Own(c)]] ELSE answer[c]]

\* Some of the pending requests go to the end of the log, each once: at their answer, or
\* after their clients got an error.
Serve ==
    LET batch == SubSeq(log', Len(log) + 1, Len(log')) IN
    /\ log' = log \o batch
    /\ IsInjective(batch) /\ Range(batch) \subseteq pending
    /\ pending' = pending \ Range(batch)
    /\ Answers(Range(batch), [r \in Range(batch) |-> Effect(log', r)])
    /\ UNCHANGED asked

\* Requests are answered with an error and lost, or still pending.
Refuse(batch) ==
    /\ Answers(batch, [r \in batch |-> "raft batch error"])
    /\ pending' \in {pending, pending \ batch}
    /\ UNCHANGED <<asked, log>>

Next ==
    \/ \E c \in Client : Ask(c)
    \/ Serve
    \/ \E batch \in SUBSET pending : Refuse(batch)

Spec == Init /\ [][Next]_vars
=============================================================================
