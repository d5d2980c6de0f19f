----------------------------- MODULE WritePath -----------------------------
(***************************************************************************)
(* The path of a write: a client posts it and posts it again after some    *)
(* errors (remote.rs index_send), the HTTP handler enqueues it, and the    *)
(* flush loop turns what is queued into one Batch command of the Raft log  *)
(* and hands the responses back (api.rs BatchCollector).  Raft is external: *)
(* a failed client_write does not tell whether the entry will be applied.  *)
(***************************************************************************)
EXTENDS Integers, Sequences, SequencesExt

CONSTANTS Client,      \* clients, each with one write
          Repeatable,  \* those whose write, applied twice, answers ok twice (a put)
          MaxEntries,  \* ARKEL_BATCH_SIZE: a queue this long is flushed at once
          Attempts,    \* posts index_send makes at most (3 in the code)
          None

ASSUME WriteAssumption ==
    Repeatable \subseteq Client /\ MaxEntries \in Nat \ {0} /\ Attempts \in Nat \ {0}

VARIABLES client,   \* client[c]: [phase, post]: where c is, and how often it has posted
          answer,   \* answer[c]: what its oneshot channel holds, or None
          entries,  \* the queue, under its mutex
          permit,   \* Notify holds at most one permit
          flusher,  \* [phase, batch]: where the flush loop is
          log,      \* the requests applied so far, in order
          limbo     \* batches whose client_write failed and that may still be applied

clientVars == <<client, answer>>
vars == <<clientVars, entries, permit, flusher, log, limbo>>

Request == Client \X (1..Attempts)
Result == {"ok", "rejected", "raft batch error"}
Answer == [request : Request, result : Result]

ASSUME NoneAssumption == None \notin Answer

Init ==
    /\ client = [c \in Client |-> [phase |-> "ready", post |-> 0]]
    /\ answer = [c \in Client |-> None]
    /\ entries = <<>>
    /\ permit = FALSE
    /\ flusher = [phase |-> "take", batch |-> <<>>]
    /\ log = <<>>
    /\ limbo = {}

Become(c, phase) == client' = [client EXCEPT ![c].phase = phase]

-----------------------------------------------------------------------------
(* The client and the handler that serves it.                              *)

\* enqueue, under the lock: push, and notify when the queue is full.
Post(c) ==
    /\ client[c].phase = "ready"
    /\ client' = [client EXCEPT ![c] = [phase |-> "pushed", post |-> @.post + 1]]
    /\ answer' = [answer EXCEPT ![c] = None]
    /\ entries' = Append(entries, <<c, client[c].post + 1>>)
    /\ permit' = (permit \/ Len(entries') >= MaxEntries)
    /\ UNCHANGED <<flusher, log, limbo>>

\* enqueue, after the lock: notify in any case, and await the answer.
Notify(c) ==
    /\ client[c].phase = "pushed"
    /\ permit' = TRUE
    /\ Become(c, "waiting")
    /\ UNCHANGED <<answer, entries, flusher, log, limbo>>

\* Faulty variant: one post too many.
ReceiveOnceMore(c) ==
    /\ client[c].phase = "waiting"
    /\ answer[c] # None
    /\ Become(c, IF answer[c].result # "raft batch error" THEN "done"
                 ELSE IF client[c].post <= Attempts THEN "ready" ELSE "failed")
    /\ UNCHANGED <<answer, entries, permit, flusher, log, limbo>>

\* index_send: only a batch error (or a follower's ForwardToLeader) is posted again.
Receive(c) ==
    /\ client[c].phase = "waiting"
    /\ answer[c] # None
    /\ Become(c, IF answer[c].result # "raft batch error" THEN "done"
                 ELSE IF client[c].post < Attempts THEN "ready" ELSE "failed")
    /\ UNCHANGED <<answer, entries, permit, flusher, log, limbo>>

\* Faulty variant: a client that gives up posts again before it has an answer.
GiveUpAndPost(c) ==
    /\ client[c].phase = "waiting"
    /\ Become(c, IF client[c].post < Attempts THEN "ready" ELSE "gone")
    /\ UNCHANGED <<answer, entries, permit, flusher, log, limbo>>

\* The client is gone: its command stays in the queue.
GiveUp(c) ==
    /\ client[c].phase = "waiting"
    /\ Become(c, "gone")
    /\ UNCHANGED <<answer, entries, permit, flusher, log, limbo>>

-----------------------------------------------------------------------------
(* take_batch.                                                             *)

\* Faulty variant: the queue is copied, not taken.
TakeCopy ==
    /\ flusher' = [phase |-> "write", batch |-> entries]
    /\ UNCHANGED entries

\* The whole queue is taken, however long.
TakeAll ==
    /\ flusher' = [phase |-> "write", batch |-> entries]
    /\ entries' = <<>>

TakeBatch ==
    /\ flusher.phase = "take"
    /\ IF entries # <<>> THEN TakeAll
       ELSE flusher' = [flusher EXCEPT !.phase = "wait"] /\ UNCHANGED entries
    /\ UNCHANGED <<clientVars, permit, log, limbo>>

Notified ==
    /\ flusher.phase = "wait"
    /\ permit
    /\ permit' = FALSE
    /\ flusher' = [flusher EXCEPT !.phase = "woken"]
    /\ UNCHANGED <<clientVars, entries, log, limbo>>

\* A notification takes the queue only when it is full.
Recheck ==
    /\ flusher.phase = "woken"
    /\ IF Len(entries) >= MaxEntries THEN TakeAll
       ELSE flusher' = [flusher EXCEPT !.phase = "wait"] /\ UNCHANGED entries
    /\ UNCHANGED <<clientVars, permit, log, limbo>>

\* Faulty variant: a deadline that finds too few entries waits again.
DeadlineWhenFull ==
    /\ flusher.phase = "wait"
    /\ IF Len(entries) >= MaxEntries THEN TakeAll ELSE UNCHANGED <<flusher, entries>>
    /\ UNCHANGED <<clientVars, permit, log, limbo>>

\* max_delay is over: what is there is taken; an empty batch starts again.
Deadline ==
    /\ flusher.phase = "wait"
    /\ IF entries # <<>> THEN TakeAll
       ELSE flusher' = [flusher EXCEPT !.phase = "take"] /\ UNCHANGED entries
    /\ UNCHANGED <<clientVars, permit, log, limbo>>

-----------------------------------------------------------------------------
(* client_write and the answers.                                           *)

\* The responses apply_command gives to the requests of batch, in order: a command that
\* is not repeatable answers with a rejection when it was applied before (a delete finds
\* no object, a role is taken).
AppliedBefore(c, before) == \E i \in DOMAIN before : before[i][1] = c
Responses(batch) ==
    [i \in DOMAIN batch |->
        [request |-> batch[i],
         result |-> IF batch[i][1] \in Repeatable
                       \/ ~AppliedBefore(batch[i][1], log \o SubSeq(batch, 1, i - 1))
                    THEN "ok" ELSE "rejected"]]

\* Faulty variant: rejections are left out of the list of responses.
AnswerOks(batch, responses) ==
    LET oks == SelectSeq(responses, LAMBDA a : a.result # "rejected") IN
    answer' = [c \in Client |->
        IF \E i \in DOMAIN oks : batch[i] = <<c, client[c].post>>
        THEN oks[CHOOSE i \in DOMAIN oks : batch[i] = <<c, client[c].post>>]
        ELSE answer[c]]

\* The i-th sender gets the i-th response; a sender whose client is gone is ignored.
AnswerAll(batch, responses) ==
    answer' = [c \in Client |->
        IF Contains(batch, <<c, client[c].post>>)
        THEN responses[CHOOSE i \in DOMAIN batch : batch[i] = <<c, client[c].post>>]
        ELSE answer[c]]

Failure(batch) == [i \in DOMAIN batch |->
                     [request |-> batch[i], result |-> "raft batch error"]]

NextBatch == flusher' = [phase |-> "take", batch |-> <<>>]

Applied ==
    /\ flusher.phase = "write"
    /\ log' = log \o flusher.batch
    /\ AnswerAll(flusher.batch, Responses(flusher.batch))
    /\ NextBatch
    /\ UNCHANGED <<client, entries, permit, limbo>>

\* Faulty variant: a failed write is answered like one without responses.
FailedOk ==
    /\ flusher.phase = "write"
    /\ AnswerAll(flusher.batch, [i \in DOMAIN flusher.batch |->
                                   [request |-> flusher.batch[i], result |-> "ok"]])
    /\ NextBatch
    /\ UNCHANGED <<client, entries, permit, log, limbo>>

\* Not the leader, leadership lost, or Raft stopped: the entry was never proposed, or
\* its fate is open.
Failed ==
    /\ flusher.phase = "write"
    /\ AnswerAll(flusher.batch, Failure(flusher.batch))
    /\ \/ UNCHANGED limbo
       \/ limbo' = limbo \cup {flusher.batch}
    /\ NextBatch
    /\ UNCHANGED <<client, entries, permit, log>>

\* A batch in doubt is committed after all, or lost for good.
Settle(batch) ==
    /\ limbo' = limbo \ {batch}
    /\ log' \in {log, log \o batch}
    /\ UNCHANGED <<clientVars, entries, permit, flusher>>

-----------------------------------------------------------------------------
TakesBatch == TakeBatch \/ Recheck \/ Deadline
Writes == Applied \/ Failed
Hears(c) == Notify(c) \/ Receive(c)

Next ==
    \/ \E c \in Client : Post(c) \/ Hears(c) \/ GiveUp(c)
    \/ TakesBatch \/ Notified
    \/ Writes
    \/ \E batch \in limbo : Settle(batch)

Spec == Init /\ [][Next]_vars

\* The flush loop is one task that always runs, its timer fires, client_write returns,
\* and a handler that was woken runs.  Nothing is assumed of clients that give up.
Fairness ==
    /\ WF_vars(TakesBatch)
    /\ WF_vars(Writes)
    /\ \A c \in Client : WF_vars(Hears(c))

FairSpec == Spec /\ Fairness

-----------------------------------------------------------------------------
(* Properties.                                                             *)

TypeOK ==
    /\ client \in [Client -> [phase : {"ready", "pushed", "waiting", "done", "failed", "gone"},
                              post : 0..Attempts]]
    /\ answer \in [Client -> Answer \cup {None}]
    /\ entries \in Seq(Request)
    /\ permit \in BOOLEAN
    /\ flusher \in [phase : {"take", "wait", "woken", "write"}, batch : Seq(Request)]
    /\ log \in Seq(Request)
    /\ \A batch \in limbo : batch \in Seq(Request)

\* A handler never gets the response of another request of its batch, although requests
\* and senders are split into two lists and joined again by position.
AnswersOwnRequest ==
    \A c \in Client : answer[c] # None => answer[c].request = <<c, client[c].post>>

\* One post is applied at most once: whatever is pushed while a batch is taken, written
\* or in doubt, no request is in two places.
AppliedOncePerPost == IsInjective(log)

\* A client that was answered by the state machine has its command in the log: neither a
\* failed write nor an error that comes late is ever reported as applied.
AnsweredIsApplied ==
    \A c \in Client :
        answer[c] # None /\ answer[c].result # "raft batch error"
        => Contains(log, answer[c].request)

\* A write that was posted is answered, or its client gives up: no notification is lost
\* in a way that leaves it in the queue, and no batch too small for max_entries stays.
PostsAreAnswered ==
    \A c \in Client : client[c].phase = "pushed" ~> client[c].phase \in {"ready", "done", "failed", "gone"}

\* The queue, the flush loop and the batches in doubt implement a service without them: a
\* post is applied once or never, is lost only after an error, is answered once, by what
\* its place in the log says or by an error, and is repeated only after an error.
Pending == Range(entries) \cup Range(flusher.batch) \cup UNION {Range(b) : b \in limbo}

Service == INSTANCE WriteService
             WITH asked <- [c \in Client |-> client[c].post], pending <- Pending

KeepsService == Service!Spec
=============================================================================
