---------------------------- MODULE WritePathProofs ----------------------------
(***************************************************************************)
(* WritePath for any number of clients, any size of the batches and any    *)
(* number of attempts.                                                     *)
(***************************************************************************)
EXTENDS WritePath, SequenceTheorems, TLAPS

USE WriteAssumption DEF Request

-----------------------------------------------------------------------------
(* Lists of requests.                                                      *)

\* No request is in both.
Apart(a, b) == \A i \in DOMAIN a : \A j \in DOMAIN b : a[i] # b[j]

LEMMA AppendIsInjective ==
    ASSUME NEW s \in Seq(Request), NEW r \in Request, IsInjective(s),
           \A i \in DOMAIN s : s[i] # r
    PROVE  Append(s, r) \in Seq(Request) /\ IsInjective(Append(s, r))
  BY DEF IsInjective

LEMMA AppendIsApart ==
    ASSUME NEW s \in Seq(Request), NEW r \in Request, NEW other \in Seq(Request),
           Apart(s, other), \A i \in DOMAIN other : other[i] # r
    PROVE  Apart(Append(s, r), other)
  BY DEF Apart

LEMMA DomainOfList ==
    ASSUME NEW s \in Seq(Request)
    PROVE  DOMAIN s = 1..Len(s)
  OBVIOUS

\* The elements of two lists joined.
LEMMA ConcatElements ==
    ASSUME NEW a \in Seq(Request), NEW b \in Seq(Request)
    PROVE  /\ a \o b \in Seq(Request)
           /\ \A i \in DOMAIN (a \o b) :
                 \/ i \in DOMAIN a /\ (a \o b)[i] = a[i]
                 \/ i - Len(a) \in DOMAIN b /\ (a \o b)[i] = b[i - Len(a)]
           /\ \A i \in DOMAIN a : i \in DOMAIN (a \o b) /\ (a \o b)[i] = a[i]
           /\ \A i \in DOMAIN b : i + Len(a) \in DOMAIN (a \o b)
                                  /\ (a \o b)[i + Len(a)] = b[i]
<1>1. /\ a \o b \in Seq(Request) /\ Len(a) \in Nat /\ Len(b) \in Nat
      /\ DOMAIN a = 1..Len(a) /\ DOMAIN b = 1..Len(b)
      /\ DOMAIN (a \o b) = 1..(Len(a) + Len(b))
  OBVIOUS
<1>2. \A i \in 1..Len(a) : (a \o b)[i] = a[i]
  OBVIOUS
<1>3. \A i \in 1..Len(b) : (a \o b)[i + Len(a)] = b[i]
  OBVIOUS
<1> DEFINE c == a \o b
<1> HIDE DEF c
<1>4. ASSUME NEW i \in DOMAIN c
      PROVE  \/ i \in DOMAIN a /\ c[i] = a[i]
             \/ i - Len(a) \in DOMAIN b /\ c[i] = b[i - Len(a)]
  <2>1. i \in 1..(Len(a) + Len(b))
    BY <1>1 DEF c
  <2>2. CASE i <= Len(a)
    BY <1>1, <1>2, <2>1, <2>2 DEF c
  <2>3. CASE ~(i <= Len(a))
    <3>1. i - Len(a) \in 1..Len(b) /\ (i - Len(a)) + Len(a) = i
      BY <1>1, <2>1, <2>3
    <3>2. c[(i - Len(a)) + Len(a)] = b[i - Len(a)]
      BY <1>3, <3>1 DEF c
    <3> QED
      BY <1>1, <3>1, <3>2
  <2> QED
    BY <2>2, <2>3
<1>5. \A i \in 1..Len(a) : i \in 1..(Len(a) + Len(b))
  BY <1>1
<1>6. \A i \in 1..Len(b) : i + Len(a) \in 1..(Len(a) + Len(b))
  BY <1>1
<1> QED
  BY <1>1, <1>2, <1>3, <1>4, <1>5, <1>6, Zenon DEF c

LEMMA ConcatIsInjective ==
    ASSUME NEW a \in Seq(Request), NEW b \in Seq(Request),
           IsInjective(a), IsInjective(b), Apart(a, b)
    PROVE  IsInjective(a \o b)
<1> DEFINE c == a \o b
<1>1. /\ DOMAIN a \subseteq Int /\ DOMAIN c \subseteq Int /\ Len(a) \in Int
  OBVIOUS
<1>2. \A i \in DOMAIN c : \/ i \in DOMAIN a /\ c[i] = a[i]
                          \/ i - Len(a) \in DOMAIN b /\ c[i] = b[i - Len(a)]
  BY ConcatElements
<1> HIDE DEF c
<1>3. ASSUME NEW i \in DOMAIN c, NEW j \in DOMAIN c, c[i] = c[j]
      PROVE  i = j
  <2>1. CASE i \in DOMAIN a /\ c[i] = a[i] /\ j \in DOMAIN a /\ c[j] = a[j]
    BY <1>3, <2>1 DEF IsInjective
  <2>2. CASE /\ i - Len(a) \in DOMAIN b /\ c[i] = b[i - Len(a)]
             /\ j - Len(a) \in DOMAIN b /\ c[j] = b[j - Len(a)]
    <3>1. i - Len(a) = j - Len(a)
      BY <1>3, <2>2 DEF IsInjective
    <3> QED
      BY <1>1, <3>1
  <2> QED
    BY <1>2, <1>3, <2>1, <2>2 DEF Apart
<1>4. IsInjective(c)
  BY <1>3 DEF IsInjective
<1> QED
  BY <1>4 DEF c

LEMMA ConcatIsApart ==
    ASSUME NEW a \in Seq(Request), NEW b \in Seq(Request), NEW other \in Seq(Request),
           Apart(a, other), Apart(b, other)
    PROVE  Apart(a \o b, other)
  BY ConcatElements DEF Apart

-----------------------------------------------------------------------------
(* The inductive invariant.                                                *)

\* The requests of a list were posted, and none is in it twice.
Posted(s) ==
    /\ IsInjective(s)
    /\ \A i \in DOMAIN s : s[i][2] <= client[s[i][1]].post

\* No request is in two of: the queue, the batch at hand, the batches in doubt, the log.
Places ==
    /\ Posted(entries) /\ Posted(flusher.batch) /\ Posted(log)
    /\ Apart(entries, flusher.batch) /\ Apart(entries, log) /\ Apart(flusher.batch, log)
    /\ \A b \in limbo : /\ Posted(b)
                        /\ Apart(b, entries) /\ Apart(b, flusher.batch) /\ Apart(b, log)
                        /\ \A other \in limbo : other # b => Apart(b, other)

\* Attempts are counted before a client gets ready to post again.
Ready == \A c \in Client : client[c].phase = "ready" => client[c].post < Attempts

Answers == AnswersOwnRequest /\ AnsweredIsApplied

IInv == TypeOK /\ Ready /\ Places /\ Answers

LEMMA ApartSymmetric ==
    ASSUME NEW a, NEW b, Apart(a, b)
    PROVE  Apart(b, a)
  BY DEF Apart

LEMMA InitHolds == Init => IInv
<1> SUFFICES ASSUME Init
             PROVE  IInv
  OBVIOUS
<1>1. TypeOK
  <2>1. /\ client \in [Client -> [phase : {"ready", "pushed", "waiting", "done", "failed", "gone"},
                                 post : 0..Attempts]]
        /\ answer \in [Client -> Answer \cup {None}]
    BY DEF Init
  <2>2. flusher \in [phase : {"take", "wait", "woken", "write"}, batch : Seq(Request)]
    BY DEF Init
  <2> QED
    BY <2>1, <2>2 DEF Init, TypeOK
<1>2. Places
  BY DEF Init, Places, Posted, Apart, IsInjective
<1>3. Ready /\ Answers
  BY DEF Init, Ready, Answers, AnswersOwnRequest, AnsweredIsApplied
<1> QED
  BY <1>1, <1>2, <1>3 DEF IInv

\* A new post is in none of the lists.
LEMMA PostHolds ==
    ASSUME IInv, NEW c \in Client, Post(c)
    PROVE  IInv'
<1> DEFINE r == <<c, client[c].post + 1>>
<1>1. TypeOK /\ Ready /\ Places /\ Answers
  BY DEF IInv
<1>2. /\ client[c].phase = "ready" /\ client[c].post \in Nat /\ client[c].post < Attempts
      /\ client' = [client EXCEPT ![c] = [phase |-> "pushed", post |-> client[c].post + 1]]
      /\ answer' = [answer EXCEPT ![c] = None]
      /\ entries' = Append(entries, r)
      /\ permit' = (permit \/ Len(entries') >= MaxEntries)
      /\ UNCHANGED <<flusher, log, limbo>>
  BY <1>1 DEF Post, TypeOK, Ready
<1>3. /\ entries \in Seq(Request) /\ log \in Seq(Request) /\ flusher.batch \in Seq(Request)
      /\ \A b \in limbo : b \in Seq(Request)
  BY <1>1 DEF TypeOK
<1>4. r \in Request
  BY <1>2
<1>5. ASSUME NEW s \in Seq(Request), Posted(s)
      PROVE  \A i \in DOMAIN s : s[i] # r
  BY <1>2, <1>5 DEF Posted
<1>6. ASSUME NEW s \in Seq(Request), Posted(s), s' = s
      PROVE  Posted(s)'
  <2>1. ASSUME NEW i \in DOMAIN s
        PROVE  s[i][2] <= client'[s[i][1]].post
    <3>1. s[i][1] \in Client /\ s[i][2] \in Nat /\ s[i][2] <= client[s[i][1]].post
      BY <1>6 DEF Posted
    <3>2. client[s[i][1]].post \in Nat
      BY <1>1, <3>1 DEF TypeOK
    <3> QED
      BY <1>1, <1>2, <3>1, <3>2 DEF TypeOK
  <2> QED
    BY <1>6, <2>1 DEF Posted
<1>7. Posted(entries)'
  <2>1. IsInjective(entries')
    BY <1>1, <1>2, <1>3, <1>4, <1>5, AppendIsInjective DEF Places, Posted
  <2>2. ASSUME NEW i \in DOMAIN entries'
        PROVE  entries'[i][2] <= client'[entries'[i][1]].post
    <3>1. entries'[i] = r \/ (i \in DOMAIN entries /\ entries'[i] = entries[i])
      BY <1>2, <1>3, <1>4
    <3>2. r[2] <= client'[r[1]].post
      BY <1>1, <1>2 DEF TypeOK
    <3>3. ASSUME i \in DOMAIN entries
          PROVE  entries[i][2] <= client'[entries[i][1]].post
      <4>1. entries[i][1] \in Client /\ entries[i][2] \in Nat
            /\ entries[i][2] <= client[entries[i][1]].post
        BY <1>1, <1>3, <3>3 DEF Places, Posted
      <4>2. client[entries[i][1]].post \in Nat
        BY <1>1, <4>1 DEF TypeOK
      <4> QED
        BY <1>1, <1>2, <4>1, <4>2 DEF TypeOK
    <3> QED
      BY <3>1, <3>2, <3>3
  <2> QED
    BY <2>1, <2>2 DEF Posted
<1>8. ASSUME NEW s \in Seq(Request), Posted(s), Apart(entries, s)
      PROVE  Apart(entries', s)
  BY <1>2, <1>3, <1>4, <1>5, <1>8, AppendIsApart
<1>9. Places'
  <2>1. Posted(flusher.batch)' /\ Posted(log)' /\ \A b \in limbo : Posted(b)'
    BY <1>1, <1>2, <1>3, <1>6 DEF Places
  <2>2. Apart(entries', flusher.batch) /\ Apart(entries', log)
    BY <1>1, <1>3, <1>8 DEF Places
  <2>3. \A b \in limbo : Apart(b, entries')
    BY <1>1, <1>3, <1>8, ApartSymmetric DEF Places
  <2> QED
    BY <1>1, <1>2, <1>7, <2>1, <2>2, <2>3 DEF Places
<1>10. TypeOK'
  <2>1. entries' \in Seq(Request) /\ permit' \in BOOLEAN
    BY <1>1, <1>2, <1>3, <1>4 DEF TypeOK
  <2> QED
    BY <1>1, <1>2, <2>1 DEF TypeOK
<1>11. Ready' /\ Answers'
  BY <1>1, <1>2 DEF TypeOK, Ready, Answers, AnswersOwnRequest, AnsweredIsApplied
<1> QED
  BY <1>9, <1>10, <1>11 DEF IInv

\* A step that moves a client on, without a post.
LEMMA PhaseHolds ==
    ASSUME IInv, NEW c \in Client,
           NEW phase \in {"ready", "pushed", "waiting", "done", "failed", "gone"},
           phase = "ready" => client[c].post < Attempts,
           Become(c, phase), permit' \in BOOLEAN,
           UNCHANGED <<answer, entries, flusher, log, limbo>>
    PROVE  IInv'
<1>1. TypeOK /\ Ready /\ Places /\ Answers
  BY DEF IInv
<1>2. /\ client' = [client EXCEPT ![c] = [client[c] EXCEPT !.phase = phase]]
      /\ UNCHANGED <<answer, entries, flusher, log, limbo>>
  BY DEF Become
<1>3. client[c] \in [phase : {"ready", "pushed", "waiting", "done", "failed", "gone"},
                     post : 0..Attempts]
  BY <1>1 DEF TypeOK
<1>4. [client[c] EXCEPT !.phase = phase] = [phase |-> phase, post |-> client[c].post]
  BY <1>3
<1>5. TypeOK'
  BY <1>1, <1>2, <1>3, <1>4 DEF TypeOK
<1>6. \A d \in Client : client'[d].post = client[d].post
  BY <1>1, <1>2, <1>4 DEF TypeOK
<1>7. ASSUME NEW s \in Seq(Request), Posted(s), s' = s
      PROVE  Posted(s)'
  <2>1. \A i \in DOMAIN s : s[i][1] \in Client
    OBVIOUS
  <2> QED
    BY <1>6, <1>7, <2>1 DEF Posted
<1>8. Places'
  <2>1. /\ entries \in Seq(Request) /\ log \in Seq(Request) /\ flusher.batch \in Seq(Request)
        /\ \A b \in limbo : b \in Seq(Request)
    BY <1>1 DEF TypeOK
  <2>2. /\ Posted(entries)' /\ Posted(flusher.batch)' /\ Posted(log)'
        /\ \A b \in limbo : Posted(b)'
    BY <1>1, <1>2, <1>7, <2>1 DEF Places
  <2> QED
    BY <1>1, <1>2, <2>2 DEF Places
<1>9. Ready'
  BY <1>1, <1>2, <1>4, <1>6 DEF Ready, TypeOK
<1>10. Answers'
  BY <1>1, <1>2, <1>6 DEF Answers, AnswersOwnRequest, AnsweredIsApplied
<1> QED
  BY <1>5, <1>8, <1>9, <1>10 DEF IInv

LEMMA ClientHolds ==
    ASSUME IInv, NEW c \in Client, Hears(c) \/ GiveUp(c)
    PROVE  IInv'
<1>1. permit \in BOOLEAN /\ client[c].post \in Nat
  BY DEF IInv, TypeOK
<1>2. CASE Notify(c)
  BY <1>1, <1>2, PhaseHolds DEF Notify
<1>3. CASE GiveUp(c)
  BY <1>1, <1>3, PhaseHolds DEF GiveUp
<1>4. CASE Receive(c)
  <2> DEFINE phase == IF answer[c].result # "raft batch error" THEN "done"
                      ELSE IF client[c].post < Attempts THEN "ready" ELSE "failed"
  <2>1. phase \in {"ready", "done", "failed"}
        /\ (phase = "ready" => client[c].post < Attempts)
    OBVIOUS
  <2>2. Become(c, phase) /\ UNCHANGED <<answer, entries, permit, flusher, log, limbo>>
    BY <1>4 DEF Receive
  <2> HIDE DEF phase
  <2> QED
    BY <1>1, <2>1, <2>2, PhaseHolds
<1> QED
  BY <1>2, <1>3, <1>4 DEF Hears

\* A step of the flush loop that takes the queue, or only changes its phase.
LEMMA FlusherHolds ==
    ASSUME IInv, UNCHANGED <<clientVars, log, limbo>>, permit' \in BOOLEAN,
           NEW phase \in {"take", "wait", "woken", "write"},
           \/ TakeAll
           \/ flusher' = [flusher EXCEPT !.phase = phase] /\ UNCHANGED entries
    PROVE  IInv'
<1>1. TypeOK /\ Ready /\ Places /\ Answers
  BY DEF IInv
<1>2. UNCHANGED <<client, answer, log, limbo>>
  BY DEF clientVars
<1>3. Ready' /\ Answers'
  BY <1>1, <1>2 DEF Ready, Answers, AnswersOwnRequest, AnsweredIsApplied
<1>4. CASE TakeAll
  <2>1. /\ flusher' = [phase |-> "write", batch |-> entries] /\ entries' = <<>>
        /\ flusher'.batch = entries /\ entries \in Seq(Request)
    BY <1>1, <1>4 DEF TakeAll, TypeOK
  <2>2. TypeOK'
    BY <1>1, <1>2, <2>1 DEF TypeOK
  <2>3. \A s : Apart(s, <<>>) /\ Apart(<<>>, s)
    BY DEF Apart
  <2>4. Posted(entries)' /\ Posted(flusher.batch)' /\ Posted(log)' /\ \A b \in limbo : Posted(b)'
    BY <1>1, <1>2, <2>1 DEF Places, Posted, IsInjective
  <2>5. Apart(entries, log) /\ \A b \in limbo : Apart(b, entries)
    BY <1>1 DEF Places
  <2>6. Places'
    BY <1>1, <1>2, <2>1, <2>3, <2>4, <2>5 DEF Places
  <2> QED
    BY <1>3, <2>2, <2>6 DEF IInv
<1>5. CASE flusher' = [flusher EXCEPT !.phase = phase] /\ UNCHANGED entries
  <2>1. flusher'.batch = flusher.batch
        /\ flusher' \in [phase : {"take", "wait", "woken", "write"}, batch : Seq(Request)]
    BY <1>1, <1>5 DEF TypeOK
  <2>2. TypeOK'
    BY <1>1, <1>2, <1>5, <2>1 DEF TypeOK
  <2>3. Places'
    BY <1>1, <1>2, <1>5, <2>1 DEF Places, Posted
  <2> QED
    BY <1>3, <2>2, <2>3 DEF IInv
<1> QED
  BY <1>4, <1>5

LEMMA TakesHold ==
    ASSUME IInv, TakesBatch \/ Notified
    PROVE  IInv'
<1>1. permit \in BOOLEAN
  BY DEF IInv, TypeOK
<1>2. CASE TakeBatch
  BY <1>1, <1>2, FlusherHolds DEF TakeBatch
<1>3. CASE Recheck
  BY <1>1, <1>3, FlusherHolds DEF Recheck
<1>4. CASE Deadline
  BY <1>1, <1>4, FlusherHolds DEF Deadline
<1>5. CASE Notified
  BY <1>5, FlusherHolds DEF Notified, clientVars
<1> QED
  BY <1>2, <1>3, <1>4, <1>5 DEF TakesBatch

-----------------------------------------------------------------------------
(* Answers.                                                                *)

\* Responses that name the request of their position are answers of that request.
LEMMA AnswersHold ==
    ASSUME TypeOK, Answers, NEW batch \in Seq(Request), NEW responses,
           AnswerAll(batch, responses), UNCHANGED client,
           \A i \in DOMAIN batch : responses[i] \in Answer /\ responses[i].request = batch[i],
           \A i \in 1..Len(log) : i \in 1..Len(log') /\ log'[i] = log[i],
           \A i \in DOMAIN batch :
               \/ responses[i].result = "raft batch error"
               \/ \E j \in 1..Len(log') : log'[j] = batch[i]
    PROVE  Answers' /\ answer' \in [Client -> Answer \cup {None}]
<1>1. ASSUME NEW c \in Client
      PROVE  /\ answer'[c] \in Answer \cup {None}
             /\ answer'[c] # None => answer'[c].request = <<c, client[c].post>>
             /\ answer'[c] # None /\ answer'[c].result # "raft batch error"
                    => Contains(log', answer'[c].request)
  <2>1. CASE answer'[c] = answer[c]
    <3>1. answer[c] # None /\ answer[c].result # "raft batch error"
            => Contains(log, answer[c].request)
      BY DEF Answers, AnsweredIsApplied
    <3>2. answer[c] # None => answer[c].request = <<c, client[c].post>>
      BY DEF Answers, AnswersOwnRequest
    <3>3. answer[c] \in Answer \cup {None}
      BY DEF TypeOK
    <3> QED
      BY <2>1, <3>1, <3>2, <3>3 DEF Contains
  <2>2. CASE \E i \in DOMAIN batch : /\ batch[i] = <<c, client[c].post>>
                                     /\ answer'[c] = responses[i]
    BY <2>2 DEF Contains
  <2>3. \/ answer'[c] = answer[c]
        \/ \E i \in DOMAIN batch : /\ batch[i] = <<c, client[c].post>>
                                   /\ answer'[c] = responses[i]
    <3> DEFINE Own(i) == batch[i] = <<c, client[c].post>>
               own == CHOOSE i \in DOMAIN batch : Own(i)
    <3>1. answer'[c] = IF Contains(batch, <<c, client[c].post>>)
                       THEN responses[own] ELSE answer[c]
      BY DEF AnswerAll
    <3>2. Contains(batch, <<c, client[c].post>>) => \E i \in DOMAIN batch : Own(i)
      <4>1. DOMAIN batch = 1..Len(batch)
        BY DomainOfList, Zenon
      <4> QED
        BY <4>1, Zenon DEF Contains
    <3>3. (\E i \in DOMAIN batch : Own(i)) => own \in DOMAIN batch /\ Own(own)
      BY Zenon
    <3> QED
      BY <3>1, <3>2, <3>3
  <2> QED
    BY <2>1, <2>2, <2>3
<1>2. answer' \in [Client -> Answer \cup {None}]
  BY <1>1 DEF AnswerAll
<1>3. Answers'
  BY <1>1 DEF Answers, AnswersOwnRequest, AnsweredIsApplied
<1> QED
  BY <1>2, <1>3

\* The batch at hand goes to the end of the log.
LEMMA AppliedHolds ==
    ASSUME IInv, Applied
    PROVE  IInv'
<1> DEFINE batch == flusher.batch
<1>1. TypeOK /\ Ready /\ Places /\ Answers
  BY DEF IInv
<1>2. /\ log' = log \o batch /\ flusher' = [phase |-> "take", batch |-> <<>>]
      /\ AnswerAll(batch, Responses(batch))
      /\ UNCHANGED <<client, entries, permit, limbo>>
  BY DEF Applied, NextBatch
<1>3. /\ batch \in Seq(Request) /\ log \in Seq(Request) /\ entries \in Seq(Request)
      /\ \A b \in limbo : b \in Seq(Request)
  BY <1>1 DEF TypeOK
<1> HIDE DEF batch
<1>4. \A i \in DOMAIN batch : /\ Responses(batch)[i] \in Answer
                              /\ Responses(batch)[i].request = batch[i]
  BY <1>3 DEF Responses, Answer, Result
<1>5. /\ log' \in Seq(Request)
      /\ \A i \in 1..Len(log) : i \in 1..Len(log') /\ log'[i] = log[i]
      /\ \A i \in DOMAIN batch : \E j \in 1..Len(log') : log'[j] = batch[i]
  <2>1. DOMAIN log = 1..Len(log) /\ log' \in Seq(Request) /\ DOMAIN log' = 1..Len(log')
    BY <1>2, <1>3, ConcatElements
  <2>2. \A i \in 1..Len(log) : i \in 1..Len(log') /\ log'[i] = log[i]
    BY <1>2, <1>3, <2>1, ConcatElements
  <2>3. \A i \in DOMAIN batch : i + Len(log) \in 1..Len(log') /\ log'[i + Len(log)] = batch[i]
    BY <1>2, <1>3, <2>1, ConcatElements
  <2> QED
    BY <2>1, <2>2, <2>3
<1>6. Answers' /\ answer' \in [Client -> Answer \cup {None}]
  BY <1>1, <1>2, <1>3, <1>4, <1>5, AnswersHold
<1>7. TypeOK' /\ Ready'
  <2>1. flusher' \in [phase : {"take", "wait", "woken", "write"}, batch : Seq(Request)]
    BY <1>2
  <2> QED
    BY <1>1, <1>2, <1>5, <1>6, <2>1 DEF TypeOK, Ready
<1>8. Posted(log)'
  <2>1. IsInjective(log')
    BY <1>1, <1>2, <1>3, ConcatIsInjective, ApartSymmetric DEF Places, Posted, batch
  <2>2. \A i \in DOMAIN log' : log'[i][2] <= client[log'[i][1]].post
    BY <1>1, <1>2, <1>3, ConcatElements DEF Places, Posted, batch
  <2> QED
    BY <1>2, <2>1, <2>2 DEF Posted
<1>9. ASSUME NEW s \in Seq(Request), Apart(s, log), Apart(s, batch)
      PROVE  Apart(s, log')
  BY <1>2, <1>3, <1>9, ConcatIsApart, ApartSymmetric
<1>10. Places'
  <2>1. Apart(entries, log') /\ \A b \in limbo : Apart(b, log')
    BY <1>1, <1>3, <1>9 DEF Places, batch
  <2>2. flusher'.batch = <<>>
    BY <1>2
  <2>3. \A s : Apart(s, <<>>) /\ Apart(<<>>, s)
    BY DEF Apart
  <2>4. Posted(<<>>)' /\ Posted(entries)' /\ \A b \in limbo : Posted(b)'
    BY <1>1, <1>2 DEF Places, Posted, IsInjective
  <2> QED
    BY <1>1, <1>2, <1>8, <2>1, <2>2, <2>3, <2>4 DEF Places
<1> QED
  BY <1>6, <1>7, <1>10 DEF IInv

\* The batch at hand is lost, or in doubt from now on.
LEMMA FailedHolds ==
    ASSUME IInv, Failed
    PROVE  IInv'
<1> DEFINE batch == flusher.batch
<1>1. TypeOK /\ Ready /\ Places /\ Answers
  BY DEF IInv
<1>2. /\ flusher' = [phase |-> "take", batch |-> <<>>]
      /\ AnswerAll(batch, Failure(batch))
      /\ limbo' = limbo \/ limbo' = limbo \cup {batch}
      /\ UNCHANGED <<client, entries, permit, log>>
  BY DEF Failed, NextBatch
<1>3. /\ batch \in Seq(Request) /\ log \in Seq(Request) /\ entries \in Seq(Request)
      /\ \A b \in limbo : b \in Seq(Request)
  BY <1>1 DEF TypeOK
<1>4. /\ Posted(batch) /\ Apart(batch, entries) /\ Apart(batch, log)
      /\ \A b \in limbo : Apart(b, batch) /\ Apart(batch, b)
  BY <1>1, ApartSymmetric DEF Places
<1> HIDE DEF batch
<1>5. \A i \in DOMAIN batch : /\ Failure(batch)[i] \in Answer
                              /\ Failure(batch)[i].request = batch[i]
                              /\ Failure(batch)[i].result = "raft batch error"
  <2>1. \A i \in DOMAIN batch : batch[i] \in Request
    BY <1>3
  <2>2. "raft batch error" \in Result
    BY DEF Result
  <2> HIDE DEF Request
  <2> QED
    BY <2>1, <2>2 DEF Failure, Answer
<1>6. Answers' /\ answer' \in [Client -> Answer \cup {None}]
  BY <1>1, <1>2, <1>3, <1>5, AnswersHold
<1>7. TypeOK' /\ Ready'
  <2>1. flusher' \in [phase : {"take", "wait", "woken", "write"}, batch : Seq(Request)]
    BY <1>2
  <2>2. \A b \in limbo' : b \in Seq(Request)
    BY <1>2, <1>3
  <2> QED
    BY <1>1, <1>2, <1>6, <2>1, <2>2 DEF TypeOK, Ready
<1>8. Places'
  <2>1. flusher'.batch = <<>>
    BY <1>2
  <2>2. \A s : Apart(s, <<>>) /\ Apart(<<>>, s)
    BY DEF Apart
  <2>3. Posted(<<>>)' /\ Posted(entries)' /\ Posted(log)' /\ \A b \in limbo' : Posted(b)'
    BY <1>1, <1>2, <1>4 DEF Places, Posted, IsInjective
  <2>4. \A b \in limbo' : /\ Apart(b, entries) /\ Apart(b, log)
                          /\ \A other \in limbo' : other # b => Apart(b, other)
    BY <1>1, <1>2, <1>4 DEF Places
  <2> QED
    BY <1>1, <1>2, <2>1, <2>2, <2>3, <2>4 DEF Places
<1> QED
  BY <1>6, <1>7, <1>8 DEF IInv

\* A batch in doubt goes to the end of the log, or is gone.
LEMMA SettleHolds ==
    ASSUME IInv, NEW batch \in limbo, Settle(batch)
    PROVE  IInv'
<1>1. TypeOK /\ Ready /\ Places /\ Answers
  BY DEF IInv
<1>2. /\ limbo' = limbo \ {batch} /\ (log' = log \/ log' = log \o batch)
      /\ UNCHANGED <<client, answer, entries, permit, flusher>>
  BY DEF Settle, clientVars
<1>3. /\ batch \in Seq(Request) /\ log \in Seq(Request) /\ entries \in Seq(Request)
      /\ flusher.batch \in Seq(Request) /\ \A b \in limbo : b \in Seq(Request)
  BY <1>1 DEF TypeOK
<1>4. /\ Posted(batch) /\ Apart(batch, log) /\ Apart(batch, entries)
      /\ Apart(batch, flusher.batch) /\ \A b \in limbo' : Apart(b, batch)
      /\ Apart(entries, batch) /\ Apart(flusher.batch, batch) /\ Apart(log, batch)
  BY <1>1, <1>2, ApartSymmetric DEF Places
<1>5. log' \in Seq(Request) /\ \A i \in 1..Len(log) : i \in 1..Len(log') /\ log'[i] = log[i]
  <2>1. CASE log' = log
    BY <1>3, <2>1
  <2>2. CASE log' = log \o batch
    <3>1. log' \in Seq(Request) /\ DOMAIN log = 1..Len(log) /\ DOMAIN log' = 1..Len(log')
      BY <1>3, <2>2, ConcatElements
    <3> QED
      BY <1>3, <2>2, <3>1, ConcatElements
  <2> QED
    BY <1>2, <2>1, <2>2
<1>6. TypeOK' /\ Ready'
  BY <1>1, <1>2, <1>5 DEF TypeOK, Ready
<1>7. Answers'
  BY <1>1, <1>2, <1>5 DEF Answers, AnswersOwnRequest, AnsweredIsApplied, Contains
<1>8. Posted(log')
  <2>1. IsInjective(log')
    BY <1>1, <1>2, <1>3, <1>4, ConcatIsInjective DEF Places, Posted
  <2>2. CASE log' = log
    BY <1>1, <2>2 DEF Places
  <2>3. CASE log' = log \o batch
    <3>1. /\ \A i \in DOMAIN log : log[i][2] <= client[log[i][1]].post
          /\ \A i \in DOMAIN batch : batch[i][2] <= client[batch[i][1]].post
      BY <1>1, <1>4 DEF Places, Posted
    <3>2. \A i \in DOMAIN log' :
             \/ i \in DOMAIN log /\ log'[i] = log[i]
             \/ i - Len(log) \in DOMAIN batch /\ log'[i] = batch[i - Len(log)]
      BY <1>3, <2>3, ConcatElements
    <3>3. \A i \in DOMAIN log' : log'[i][2] <= client[log'[i][1]].post
      BY <3>1, <3>2
    <3> QED
      BY <2>1, <3>3 DEF Posted
  <2> QED
    BY <1>2, <2>2, <2>3
<1>9. ASSUME NEW s \in Seq(Request), Apart(s, log), Apart(s, batch)
      PROVE  Apart(s, log')
  BY <1>2, <1>3, <1>9, ConcatIsApart, ApartSymmetric
<1>10. Places'
  <2>1. Apart(entries, log') /\ Apart(flusher.batch, log') /\ \A b \in limbo' : Apart(b, log')
    BY <1>1, <1>2, <1>3, <1>4, <1>9 DEF Places
  <2>2. /\ Posted(entries)' /\ Posted(flusher.batch)' /\ Posted(log)'
        /\ \A b \in limbo' : Posted(b)'
    BY <1>1, <1>2, <1>8 DEF Places, Posted
  <2> QED
    BY <1>1, <1>2, <2>1, <2>2 DEF Places
<1> QED
  BY <1>6, <1>7, <1>10 DEF IInv

LEMMA NextHolds == IInv /\ [Next]_vars => IInv'
<1> SUFFICES ASSUME IInv, [Next]_vars
             PROVE  IInv'
  OBVIOUS
<1>1. CASE UNCHANGED vars
  BY <1>1 DEF vars, clientVars, IInv, TypeOK, Ready, Places, Posted, Answers,
              AnswersOwnRequest, AnsweredIsApplied
<1> QED
  BY <1>1, PostHolds, ClientHolds, TakesHold, AppliedHolds, FailedHolds, SettleHolds
     DEF Next, Writes

-----------------------------------------------------------------------------
(* The theorems.                                                           *)

LEMMA Invariance == Spec => []IInv
  BY InitHolds, NextHolds, PTL DEF Spec

\* Every variable keeps its type; in particular no client posts more than Attempts times.
THEOREM TypeCorrect == Spec => []TypeOK
  BY Invariance, PTL DEF IInv

\* The joined lists of requests and senders never hand a handler the response of another
\* request (BatchCollector), however batches grow while one is written.
THEOREM AnswersAreOwn == Spec => []AnswersOwnRequest
  BY Invariance, PTL DEF IInv, Answers

\* One post is applied at most once, in whatever order posts, flushes, failures and late
\* commits come.
THEOREM PostsApplyOnce == Spec => []AppliedOncePerPost
<1>1. IInv => AppliedOncePerPost
  BY DEF IInv, Places, Posted, AppliedOncePerPost
<1> QED
  BY <1>1, Invariance, PTL

\* Who is answered by the state machine has the command in the log.
THEOREM AnswersAreApplied == Spec => []AnsweredIsApplied
  BY Invariance, PTL DEF IInv, Answers

-----------------------------------------------------------------------------
(* The service the write path implements.                                  *)

Own(c) == <<c, client[c].post>>
Lacks(s, r) == \A i \in DOMAIN s : s[i] # r

\* The flush loop holds a batch only while it writes; a client that is ready again was
\* answered with an error; who is answered has nothing in the queue or in the batch at
\* hand, and who is not has nothing in doubt.
Idle == flusher.phase # "write" => flusher.batch = <<>>

Refused == \A c \in Client :
    client[c].phase = "ready" /\ client[c].post # 0
    => answer[c] # None /\ answer[c].result = "raft batch error"

Unanswered == \A c \in Client :
    /\ answer[c] # None => Lacks(entries, Own(c)) /\ Lacks(flusher.batch, Own(c))
    /\ answer[c] = None => \A b \in limbo : Lacks(b, Own(c))

Served == Idle /\ Refused /\ Unanswered

LEMMA ServedFirst == Init => Served
  BY DEF Init, Served, Idle, Refused, Unanswered, Lacks

LEMMA PostServes ==
    ASSUME IInv, Served, NEW c \in Client, Post(c)
    PROVE  Served'
<1> DEFINE r == <<c, client[c].post + 1>>
<1>1. TypeOK /\ Places /\ Idle /\ Refused /\ Unanswered
  BY DEF IInv, Served
<1>2. /\ client[c].phase = "ready" /\ client[c].post \in Nat
      /\ client' = [client EXCEPT ![c] = [phase |-> "pushed", post |-> client[c].post + 1]]
      /\ answer' = [answer EXCEPT ![c] = None]
      /\ entries' = Append(entries, r)
      /\ UNCHANGED <<flusher, log, limbo>>
  BY <1>1 DEF Post, TypeOK
<1>3. \A d \in Client \ {c} : /\ client'[d] = client[d] /\ answer'[d] = answer[d]
                              /\ Own(d)' = Own(d) /\ Own(d) # r
  BY <1>1, <1>2 DEF TypeOK, Own
<1>4. answer'[c] = None /\ Own(c)' = r /\ client'[c].phase = "pushed"
  BY <1>1, <1>2 DEF TypeOK, Own
<1>5. ASSUME NEW b \in limbo
      PROVE  Lacks(b, r)
  <2>1. \A i \in DOMAIN b : b[i][2] <= client[b[i][1]].post
    BY <1>1 DEF Places, Posted
  <2> QED
    BY <1>2, <2>1 DEF Lacks
<1>6. ASSUME NEW d \in Client \ {c}, Lacks(entries, Own(d))
      PROVE  Lacks(entries', Own(d))
  <2>1. entries \in Seq(Request) /\ r \in Seq(Client \cup Int)
    BY <1>1, <1>2 DEF TypeOK
  <2>2. \A i \in DOMAIN entries' : entries'[i] = r \/ (i \in DOMAIN entries /\ entries'[i] = entries[i])
    BY <1>2, <2>1
  <2> QED
    BY <1>3, <1>6, <2>2 DEF Lacks
<1>7. Idle' /\ Refused'
  BY <1>1, <1>2, <1>3, <1>4 DEF Idle, Refused
<1>8. ASSUME NEW d \in Client
      PROVE  /\ answer'[d] # None => Lacks(entries', Own(d)') /\ Lacks(flusher.batch', Own(d)')
             /\ answer'[d] = None => \A b \in limbo' : Lacks(b, Own(d)')
  <2>1. CASE d = c
    BY <1>2, <1>4, <1>5, <2>1
  <2>2. CASE d # c
    BY <1>1, <1>2, <1>3, <1>6, <2>2 DEF Unanswered
  <2> QED
    BY <2>1, <2>2
<1>9. Unanswered'
  BY <1>2, <1>8 DEF Unanswered, Lacks
<1> QED
  BY <1>7, <1>9 DEF Served

\* What a client that hears of its post or gives up leaves alone.
LEMMA ClientKeeps ==
    ASSUME TypeOK, NEW c \in Client, Hears(c) \/ GiveUp(c)
    PROVE  /\ UNCHANGED <<answer, entries, flusher, log, limbo>>
           /\ \A d \in Client \ {c} : client'[d] = client[d]
           /\ client'[c].post = client[c].post
           /\ \/ client'[c].phase \in {"waiting", "gone", "done", "failed"}
              \/ answer[c] # None /\ answer[c].result = "raft batch error"
<1>1. PICK phase \in {"waiting", "gone", "done", "failed", "ready"} :
          /\ client' = [client EXCEPT ![c].phase = phase]
          /\ UNCHANGED <<answer, entries, flusher, log, limbo>>
          /\ phase = "ready" => answer[c] # None /\ answer[c].result = "raft batch error"
  BY DEF Hears, Notify, Receive, GiveUp, Become
<1>2. client[c] \in [phase : {"ready", "pushed", "waiting", "done", "failed", "gone"},
                     post : 0..Attempts]
  BY DEF TypeOK
<1>3. client'[c].phase = phase /\ client'[c].post = client[c].post
      /\ \A d \in Client \ {c} : client'[d] = client[d]
  BY <1>1, <1>2 DEF TypeOK
<1> QED
  BY <1>1, <1>3

LEMMA ClientServes ==
    ASSUME IInv, Served, NEW c \in Client, Hears(c) \/ GiveUp(c)
    PROVE  Served'
<1>1. TypeOK /\ Idle /\ Refused /\ Unanswered
  BY DEF IInv, Served
<1>2. /\ UNCHANGED <<answer, entries, flusher, log, limbo>>
      /\ \A d \in Client \ {c} : client'[d] = client[d]
      /\ client'[c].post = client[c].post
      /\ \/ client'[c].phase \in {"waiting", "gone", "done", "failed"}
         \/ answer[c] # None /\ answer[c].result = "raft batch error"
  BY <1>1, ClientKeeps
<1>3. \A d \in Client : Own(d)' = Own(d) /\ client'[d].post = client[d].post
  BY <1>2 DEF Own
<1>4. Idle' /\ Refused' /\ Unanswered'
  BY <1>1, <1>2, <1>3 DEF Idle, Refused, Unanswered, Lacks
<1> QED
  BY <1>4 DEF Served

\* The steps of the flush loop that change the queue, the phase and nothing else.
Takes == \/ TakeAll
         \/ /\ \E phase \in {"take", "wait", "woken"} : flusher' = [flusher EXCEPT !.phase = phase]
            /\ UNCHANGED entries

LEMMA TakesOrWaits ==
    ASSUME IInv, TakesBatch \/ Notified
    PROVE  Takes /\ flusher.phase # "write" /\ UNCHANGED <<client, answer, log, limbo>>
<1>1. flusher = [flusher EXCEPT !.phase = flusher.phase]
  BY DEF IInv, TypeOK
<1> QED
  BY <1>1 DEF TakesBatch, TakeBatch, Recheck, Deadline, Notified, Takes, clientVars

LEMMA TakesServe ==
    ASSUME IInv, Served, TakesBatch \/ Notified
    PROVE  Served'
<1>1. TypeOK /\ Idle /\ Refused /\ Unanswered /\ flusher.batch = <<>>
  BY TakesOrWaits DEF IInv, Served, Idle
<1>2. UNCHANGED <<client, answer, log, limbo>> /\ Takes
  BY TakesOrWaits
<1>3. \/ flusher'.phase = "write" /\ flusher'.batch = entries /\ entries' = <<>>
      \/ flusher'.batch = <<>> /\ UNCHANGED entries
  BY <1>1, <1>2 DEF Takes, TakeAll, TypeOK
<1>4. Idle' /\ Refused' /\ Unanswered'
  BY <1>1, <1>2, <1>3 DEF Idle, Refused, Unanswered, Lacks, Own
<1> QED
  BY <1>4 DEF Served

\* A client is answered if its last request is in the batch, and only then.
LEMMA AnswerOf ==
    ASSUME NEW batch \in Seq(Request), NEW responses, AnswerAll(batch, responses), NEW c \in Client
    PROVE  \/ Lacks(batch, Own(c)) /\ answer'[c] = answer[c]
           \/ \E i \in DOMAIN batch : batch[i] = Own(c) /\ answer'[c] = responses[i]
<1> DEFINE own == CHOOSE i \in DOMAIN batch : batch[i] = Own(c)
<1>1. answer'[c] = IF Contains(batch, Own(c)) THEN responses[own] ELSE answer[c]
  BY DEF AnswerAll, Own
<1>2. DOMAIN batch = 1..Len(batch)
  BY DomainOfList, Zenon
<1>3. CASE \E i \in DOMAIN batch : batch[i] = Own(c)
  <2>1. own \in DOMAIN batch /\ batch[own] = Own(c)
    BY <1>3, Zenon
  <2>2. Contains(batch, Own(c))
    BY <1>2, <2>1, Zenon DEF Contains
  <2> QED
    BY <1>1, <2>1, <2>2
<1>4. CASE Lacks(batch, Own(c))
  <2>1. ~Contains(batch, Own(c))
    BY <1>2, <1>4, Zenon DEF Contains, Lacks
  <2> QED
    BY <1>1, <1>4, <2>1
<1> QED
  BY <1>3, <1>4 DEF Lacks

LEMMA WritesServe ==
    ASSUME IInv, Served, Writes
    PROVE  Served'
<1> DEFINE batch == flusher.batch
<1>1. TypeOK /\ Places /\ Idle /\ Refused /\ Unanswered
  BY DEF IInv, Served
<1>2. batch \in Seq(Request)
  BY <1>1 DEF TypeOK
<1>3. /\ flusher' = [phase |-> "take", batch |-> <<>>] /\ UNCHANGED <<client, entries>>
      /\ \/ AnswerAll(batch, Responses(batch)) /\ UNCHANGED limbo
         \/ AnswerAll(batch, Failure(batch)) /\ limbo' \in {limbo, limbo \cup {batch}}
  BY DEF Writes, Applied, Failed, NextBatch
<1>4. /\ Apart(entries, batch)
      /\ \A b \in limbo : Apart(b, batch)
  BY <1>1 DEF Places
<1> HIDE DEF batch
<1>5. \A i \in DOMAIN batch : Failure(batch)[i] # None
  <2>1. \A i \in DOMAIN batch : batch[i] \in Request
    BY <1>2
  <2>2. "raft batch error" \in Result
    BY DEF Result
  <2> HIDE DEF Request
  <2>3. \A i \in DOMAIN batch : Failure(batch)[i] \in Answer
    BY <2>1, <2>2 DEF Failure, Answer
  <2> QED
    BY <2>3, NoneAssumption
<1>6. ASSUME NEW c \in Client
      PROVE  \/ Lacks(batch, Own(c)) /\ answer'[c] = answer[c]
             \/ /\ Lacks(entries, Own(c)) /\ \A b \in limbo : Lacks(b, Own(c))
                /\ ~Lacks(batch, Own(c))
                /\ limbo' = limbo \/ answer'[c] # None
  <2>1. PICK responses \in {Responses(batch), Failure(batch)} :
            AnswerAll(batch, responses) /\ (responses = Failure(batch) \/ limbo' = limbo)
    BY <1>3
  <2>2. CASE \E i \in DOMAIN batch : batch[i] = Own(c) /\ answer'[c] = responses[i]
    BY <1>3, <1>4, <1>5, <2>1, <2>2 DEF Lacks, Apart
  <2> QED
    BY <1>2, <2>1, <2>2, AnswerOf
<1>7. \A c \in Client : Own(c)' = Own(c)
  BY <1>3 DEF Own
<1>8. Refused'
  <2>1. ASSUME NEW c \in Client, client[c].phase = "ready" /\ client[c].post # 0
        PROVE  answer'[c] # None /\ answer'[c].result = "raft batch error"
    BY <1>1, <1>6, <2>1 DEF Refused, Unanswered, batch
  <2> QED
    BY <1>3, <2>1 DEF Refused
<1>9. Unanswered'
  <2>1. \A r : Lacks(flusher'.batch, r)
    BY <1>3 DEF Lacks
  <2>2. ASSUME NEW c \in Client
        PROVE  /\ answer'[c] # None => Lacks(entries', Own(c)) /\ Lacks(flusher'.batch, Own(c))
               /\ answer'[c] = None => \A b \in limbo' : Lacks(b, Own(c))
    BY <1>1, <1>3, <1>6, <2>1 DEF Unanswered
  <2> QED
    BY <1>7, <2>2 DEF Unanswered, Lacks
<1>10. Idle'
  BY <1>3 DEF Idle
<1> QED
  BY <1>8, <1>9, <1>10 DEF Served

LEMMA ServedNext == IInv /\ Served /\ [Next]_vars => Served'
<1> SUFFICES ASSUME IInv, Served, [Next]_vars
             PROVE  Served'
  OBVIOUS
<1>1. CASE UNCHANGED vars
  BY <1>1 DEF vars, clientVars, Served, Idle, Refused, Unanswered, Lacks, Own
<1>2. CASE \E batch \in limbo : Settle(batch)
  BY <1>2 DEF Settle, clientVars, Served, Idle, Refused, Unanswered, Lacks, Own
<1> QED
  BY <1>1, <1>2, PostServes, ClientServes, TakesServe, WritesServe DEF Next

-----------------------------------------------------------------------------
(* Every step is a step of the service, or hidden from it.                 *)

LEMMA RangeOfAppend ==
    ASSUME NEW s \in Seq(Request), NEW r \in Request
    PROVE  Range(Append(s, r)) = Range(s) \cup {r}
<1> DEFINE t == Append(s, r)
<1>1. /\ DOMAIN s = 1..Len(s) /\ DOMAIN t = 1..(Len(s) + 1) /\ Len(s) \in Nat
      /\ t[Len(s) + 1] = r /\ \A i \in 1..Len(s) : t[i] = s[i]
  OBVIOUS
<1> HIDE DEF t
<1>2. Range(t) = Range(s) \cup {r}
  <2>1. \A i \in DOMAIN t : t[i] \in Range(s) \cup {r}
    BY <1>1 DEF Range
  <2>2. (\A i \in DOMAIN s : i \in DOMAIN t /\ t[i] = s[i]) /\ Len(s) + 1 \in DOMAIN t
    BY <1>1
  <2>3. Range(s) \subseteq Range(t) /\ r \in Range(t)
    BY <1>1, <2>2 DEF Range
  <2>4. Range(t) \subseteq Range(s) \cup {r}
    BY <2>1 DEF Range
  <2> QED
    BY <2>3, <2>4
<1> QED
  BY <1>2 DEF t

LEMMA RangeOfNothing == Range(<<>>) = {}
  BY DEF Range

LEMMA RangesApart ==
    ASSUME NEW a, NEW b, Apart(a, b)
    PROVE  Range(a) \cap Range(b) = {}
  BY DEF Apart, Range

\* The l requests of a log that follow its first m.
LEMMA SliceOf ==
    ASSUME NEW s \in Seq(Request), NEW m \in Nat, NEW l \in Nat, m + l <= Len(s)
    PROVE  /\ SubSeq(s, m + 1, m + l) \in Seq(Request)
           /\ Len(SubSeq(s, m + 1, m + l)) = l
           /\ \A i \in 1..l : SubSeq(s, m + 1, m + l)[i] = s[i + m]
<1> DEFINE lo == m + 1
           hi == m + l
           t == SubSeq(s, lo, hi)
<1>1. lo \in Int /\ hi \in Int /\ Len(s) \in Nat
  BY LenProperties
<1>2. \A i \in lo..hi : i \in 1..Len(s)
  BY <1>1
<1>3. \A i \in lo..hi : s[i] \in Request
  BY <1>2, LenProperties
<1>4. hi - lo + 1 = l /\ (lo <= hi <=> l >= 1) /\ (l >= 1 \/ l = 0)
      /\ \A i \in 1..l : lo + i - 1 = i + m
  OBVIOUS
<1> HIDE DEF lo, hi
<1>5. /\ t \in Seq(Request)
      /\ Len(t) = IF lo <= hi THEN hi - lo + 1 ELSE 0
      /\ \A i \in 1..(hi - lo + 1) : t[i] = s[lo + i - 1]
  BY <1>1, <1>3, SubSeqProperties
<1> HIDE DEF t
<1>6. Len(t) = l
  BY <1>4, <1>5
<1>7. ASSUME NEW i \in 1..l
      PROVE  t[i] = s[i + m]
  <2>1. t[i] = s[lo + i - 1]
    BY <1>4, <1>5
  <2> QED
    BY <1>4, <2>1
<1> QED
  BY <1>5, <1>6, <1>7 DEF t, lo, hi

\* The end of a log that grew.
LEMMA GrownBy ==
    ASSUME NEW a \in Seq(Request), NEW b \in Seq(Request)
    PROVE  SubSeq(a \o b, Len(a) + 1, Len(a \o b)) = b
<1> DEFINE c == a \o b
           t == SubSeq(c, Len(a) + 1, Len(c))
<1>1. /\ Len(a) \in Nat /\ Len(b) \in Nat /\ Len(c) = Len(a) + Len(b) /\ c \in Seq(Request)
      /\ \A i \in 1..Len(b) : c[i + Len(a)] = b[i]
  <2>1. Len(a) \in Nat /\ Len(b) \in Nat /\ Len(c) = Len(a) + Len(b) /\ c \in Seq(Request)
    BY ConcatProperties, LenProperties
  <2>2. DOMAIN b = 1..Len(b)
    BY LenProperties
  <2> QED
    BY <2>1, <2>2, ConcatElements
<1> HIDE DEF c
<1>2. t \in Seq(Request) /\ Len(t) = Len(b) /\ \A i \in 1..Len(b) : t[i] = c[i + Len(a)]
  <2> DEFINE m == Len(a)
             l == Len(b)
  <2>1. m \in Nat /\ l \in Nat /\ Len(c) = m + l /\ m + l <= Len(c) /\ c \in Seq(Request)
    BY <1>1
  <2> HIDE DEF m, l
  <2>2. /\ SubSeq(c, m + 1, m + l) \in Seq(Request)
        /\ Len(SubSeq(c, m + 1, m + l)) = l
        /\ \A i \in 1..l : SubSeq(c, m + 1, m + l)[i] = c[i + m]
    BY <2>1, SliceOf
  <2>3. t = SubSeq(c, m + 1, m + l)
    BY <2>1 DEF m
  <2> HIDE DEF t
  <2> QED
    BY <2>2, <2>3 DEF m, l
<1> HIDE DEF t
<1>3. t = b
  <2>1. t \in [1..Len(b) -> Request] /\ b \in [1..Len(b) -> Request]
    BY <1>2
  <2>2. \A i \in 1..Len(b) : t[i] = b[i]
    BY <1>1, <1>2
  <2> QED
    BY <2>1, <2>2
<1> QED
  BY <1>3 DEF t, c

\* What apply_command answers to a request is what its place in the log says.
LEMMA ResponsesAreEffects ==
    ASSUME NEW batch \in Seq(Request), log \in Seq(Request), NEW k \in DOMAIN batch,
           IsInjective(log), IsInjective(batch), Apart(log, batch)
    PROVE  Responses(batch)[k]
             = [request |-> batch[k], result |-> Service!Effect(log \o batch, batch[k])]
<1> DEFINE h == log \o batch
           p == log \o SubSeq(batch, 1, k - 1)
           n == Len(log) + k
<1>1. /\ k \in Nat /\ k >= 1 /\ Len(log) \in Nat
      /\ DOMAIN h = 1..(Len(log) + Len(batch)) /\ k <= Len(batch) /\ Len(batch) \in Nat
      /\ h[n] = batch[k]
  <2>1. /\ k \in Nat /\ k >= 1 /\ k <= Len(batch) /\ Len(log) \in Nat /\ Len(batch) \in Nat
        /\ DOMAIN h = 1..(Len(log) + Len(batch))
    BY LenProperties, ConcatProperties
  <2>2. h[k + Len(log)] = batch[k]
    BY ConcatElements
  <2>3. n = k + Len(log)
    BY <2>1
  <2> HIDE DEF h, n
  <2> QED
    BY <2>1, <2>2, <2>3
<1>2. /\ DOMAIN p = 1..(n - 1)
      /\ \A i \in 1..(n - 1) : p[i] = h[i]
  <2> DEFINE q == SubSeq(batch, 1, k - 1)
  <2>1. q \in Seq(Request) /\ Len(q) = k - 1 /\ \A i \in 1..(k - 1) : q[i] = batch[i]
    <3>1. k - 1 \in Nat /\ 0 + (k - 1) = k - 1 /\ 0 + (k - 1) <= Len(batch) /\ 0 + 1 = 1
          /\ \A i \in 1..(k - 1) : i + 0 = i
      BY <1>1
    <3>2. /\ SubSeq(batch, 0 + 1, 0 + (k - 1)) \in Seq(Request)
          /\ Len(SubSeq(batch, 0 + 1, 0 + (k - 1))) = k - 1
          /\ \A i \in 1..(k - 1) : SubSeq(batch, 0 + 1, 0 + (k - 1))[i] = batch[i + 0]
      BY <3>1, SliceOf
    <3>3. SubSeq(batch, 0 + 1, 0 + (k - 1)) = q
      BY <3>1
    <3> QED
      BY <3>1, <3>2, <3>3
  <2> HIDE DEF q
  <2>2. DOMAIN (log \o q) = 1..(n - 1)
    <3>1. log \o q \in Seq(Request) /\ Len(log \o q) = Len(log) + (k - 1)
      BY <2>1, ConcatProperties
    <3> QED
      BY <1>1, <3>1, LenProperties
  <2>3. ASSUME NEW i \in 1..(n - 1)
        PROVE  (log \o q)[i] = h[i]
    <3>1. i \in 1..(Len(log) + Len(q)) /\ i \in 1..(Len(log) + Len(batch)) /\ i \in Nat
      BY <1>1, <2>1
    <3>2. /\ (log \o q)[i] = IF i <= Len(log) THEN log[i] ELSE q[i - Len(log)]
          /\ h[i] = IF i <= Len(log) THEN log[i] ELSE batch[i - Len(log)]
      BY <2>1, <3>1, ConcatProperties
    <3>3. ~(i <= Len(log)) => i - Len(log) \in 1..(k - 1)
      BY <1>1
    <3> HIDE DEF h
    <3> QED
      BY <2>1, <3>2, <3>3
  <2> QED
    BY <2>2, <2>3 DEF q
<1>3. IsInjective(h)
  BY ConcatIsInjective
<1> HIDE DEF h, p
<1>4. \A i \in DOMAIN h : h[i] = batch[k] => i = n
  BY <1>1, <1>3 DEF IsInjective
<1>5. ~AppliedBefore(batch[k][1], p)
        <=> \A i, j \in DOMAIN h : h[i] = batch[k] /\ j < i => h[j][1] # batch[k][1]
  <2>1. ~AppliedBefore(batch[k][1], p) <=> \A j \in 1..(n - 1) : h[j][1] # batch[k][1]
    BY <1>2 DEF AppliedBefore
  <2>2. \A j \in DOMAIN h : j < n <=> j \in 1..(n - 1)
    BY <1>1
  <2>3. n \in DOMAIN h /\ \A j \in 1..(n - 1) : j \in DOMAIN h
    BY <1>1
  <2> QED
    BY <1>1, <1>4, <2>1, <2>2, <2>3
<1>6. Responses(batch)[k]
        = [request |-> batch[k],
           result |-> IF batch[k][1] \in Repeatable \/ ~AppliedBefore(batch[k][1], p)
                      THEN "ok" ELSE "rejected"]
  BY DEF Responses, p
<1> QED
  BY <1>5, <1>6 DEF Service!Effect, h

LEMMA ServiceInit == Init => Service!Init
  BY RangeOfNothing DEF Init, Service!Init, Pending

LEMMA PostAsks ==
    ASSUME IInv, Served, NEW c \in Client, Post(c)
    PROVE  Service!Ask(c)
<1> DEFINE r == <<c, client[c].post + 1>>
           asked == [d \in Client |-> client[d].post]
<1>1. TypeOK /\ Ready /\ Refused
  BY DEF IInv, Served
<1>2. /\ client[c].phase = "ready" /\ client[c].post \in Nat /\ client[c].post < Attempts
      /\ client' = [client EXCEPT ![c] = [phase |-> "pushed", post |-> client[c].post + 1]]
      /\ answer' = [answer EXCEPT ![c] = None]
      /\ entries' = Append(entries, r)
      /\ UNCHANGED <<flusher, log, limbo>>
  BY <1>1 DEF Post, TypeOK, Ready
<1>3. asked[c] = client[c].post /\ r = <<c, asked[c] + 1>>
  OBVIOUS
<1>4. asked' = [asked EXCEPT ![c] = asked[c] + 1]
  <2>1. \A d \in Client : client'[d].post = IF d = c THEN client[c].post + 1 ELSE client[d].post
    BY <1>1, <1>2 DEF TypeOK
  <2> QED
    BY <2>1
<1>5. Pending' = Pending \cup {r}
  <2>1. entries \in Seq(Request) /\ r \in Request
    BY <1>1, <1>2 DEF TypeOK
  <2>2. Range(entries') = Range(entries) \cup {r}
    BY <1>2, <2>1, RangeOfAppend
  <2> QED
    BY <1>2, <2>2 DEF Pending, Range
<1>6. asked[c] # 0 => answer[c] # None /\ answer[c].result = "raft batch error"
  BY <1>1, <1>2, <1>3 DEF Refused
<1> HIDE DEF asked
<1>7. /\ asked[c] < Attempts
      /\ asked[c] # 0 => answer[c] # None /\ answer[c].result = "raft batch error"
      /\ asked' = [asked EXCEPT ![c] = asked[c] + 1]
      /\ answer' = [answer EXCEPT ![c] = None]
      /\ Pending' = Pending \cup {<<c, asked[c] + 1>>}
      /\ UNCHANGED log
  BY <1>2, <1>3, <1>4, <1>5, <1>6
<1> QED
  BY <1>7 DEF Service!Ask, asked

LEMMA ClientIsHidden ==
    ASSUME IInv, NEW c \in Client, Hears(c) \/ GiveUp(c)
    PROVE  UNCHANGED Service!vars
<1>1. /\ UNCHANGED <<answer, entries, flusher, log, limbo>>
      /\ \A d \in Client : client'[d].post = client[d].post
  BY ClientKeeps DEF IInv
<1>2. UNCHANGED Pending
  BY <1>1 DEF Pending
<1> QED
  BY <1>1, <1>2 DEF Service!vars

LEMMA TakesAreHidden ==
    ASSUME IInv, Served, TakesBatch \/ Notified
    PROVE  UNCHANGED Service!vars
<1>1. TypeOK /\ flusher.batch = <<>>
  BY TakesOrWaits DEF IInv, Served, Idle
<1>2. UNCHANGED <<client, answer, log, limbo>> /\ Takes
  BY TakesOrWaits
<1>3. \/ flusher'.batch = entries /\ entries' = <<>>
      \/ flusher'.batch = <<>> /\ UNCHANGED entries
  BY <1>1, <1>2 DEF Takes, TakeAll, TypeOK
<1>4. UNCHANGED Pending
  BY <1>1, <1>2, <1>3, RangeOfNothing DEF Pending
<1> QED
  BY <1>2, <1>4 DEF Service!vars

\* The step of the service for clients that were not answered.
LEMMA AnswersMatch ==
    ASSUME IInv, Served, NEW batch, NEW responses, NEW result,
           batch = flusher.batch, AnswerAll(batch, responses), UNCHANGED client,
           \A i \in DOMAIN batch : responses[i] = [request |-> batch[i], result |-> result[batch[i]]]
    PROVE  Service!Answers(Range(batch), result)
<1>1. batch \in Seq(Request) /\ Unanswered
  BY DEF IInv, TypeOK, Served
<1>2. ASSUME NEW c \in Client
      PROVE  answer'[c] = IF Own(c) \in Range(batch) /\ answer[c] = None
                          THEN [request |-> Own(c), result |-> result[Own(c)]] ELSE answer[c]
  <2>1. CASE Lacks(batch, Own(c)) /\ answer'[c] = answer[c]
    BY <2>1 DEF Lacks, Range
  <2>2. CASE \E i \in DOMAIN batch : batch[i] = Own(c) /\ answer'[c] = responses[i]
    <3>1. Own(c) \in Range(batch) /\ ~Lacks(batch, Own(c))
      BY <2>2 DEF Range, Lacks
    <3>2. answer[c] = None
      BY <1>1, <3>1 DEF Unanswered
    <3> QED
      BY <2>2, <3>1, <3>2
  <2> QED
    BY <1>1, <2>1, <2>2, AnswerOf
<1>3. \A c \in Client : Service!Own(c) = Own(c)
  BY DEF Service!Own, Own
<1>4. answer' = [c \in Client |-> answer'[c]]
  BY DEF AnswerAll
<1> QED
  BY <1>2, <1>3, <1>4 DEF Service!Answers

LEMMA AppliedServes ==
    ASSUME IInv, Served, Applied
    PROVE  Service!Serve
<1> DEFINE batch == flusher.batch
           result == [r \in Range(batch) |-> Service!Effect(log \o batch, r)]
<1>1. TypeOK /\ Places
  BY DEF IInv
<1>2. /\ log' = log \o batch /\ flusher' = [phase |-> "take", batch |-> <<>>]
      /\ AnswerAll(batch, Responses(batch)) /\ UNCHANGED <<client, entries, limbo>>
  BY DEF Applied, NextBatch
<1>3. batch \in Seq(Request) /\ log \in Seq(Request)
  BY <1>1 DEF TypeOK
<1>4. /\ IsInjective(batch) /\ IsInjective(log) /\ Apart(log, batch) /\ Apart(entries, batch)
      /\ \A b \in limbo : Apart(b, batch)
  BY <1>1, ApartSymmetric DEF Places, Posted
<1>5. \A i \in DOMAIN batch : Responses(batch)[i] = [request |-> batch[i], result |-> result[batch[i]]]
  BY <1>3, <1>4, ResponsesAreEffects DEF Range
<1>6. Service!Answers(Range(batch), result)
  <2> HIDE DEF result
  <2> QED
    BY <1>2, <1>5, AnswersMatch
<1>7. SubSeq(log', Len(log) + 1, Len(log')) = batch
  BY <1>2, <1>3, GrownBy
<1>8. Range(batch) \subseteq Pending /\ Pending' = Pending \ Range(batch)
  <2>1. flusher'.batch = <<>>
    BY <1>2
  <2>2. Range(entries) \cap Range(batch) = {} /\ \A b \in limbo : Range(b) \cap Range(batch) = {}
    BY <1>4, RangesApart
  <2>3. Pending = Range(entries) \cup Range(batch) \cup UNION {Range(b) : b \in limbo}
    BY DEF Pending
  <2>4. Pending' = Range(entries) \cup UNION {Range(b) : b \in limbo}
    BY <1>2, <2>1, RangeOfNothing DEF Pending
  <2> QED
    BY <2>2, <2>3, <2>4
<1>9. UNCHANGED [c \in Client |-> client[c].post]
  BY <1>2
<1>10. Service!Range(batch) = Range(batch) /\ Service!IsInjective(batch)
  BY <1>4 DEF Service!Range, Range, Service!IsInjective, IsInjective
<1>11. result = [r \in Range(batch) |-> Service!Effect(log', r)]
  BY <1>2
<1> HIDE DEF batch, result
<1> QED
  BY <1>2, <1>6, <1>7, <1>8, <1>9, <1>10, <1>11 DEF Service!Serve

LEMMA FailedRefuses ==
    ASSUME IInv, Served, Failed
    PROVE  \E batch \in SUBSET Pending : Service!Refuse(batch)
<1> DEFINE batch == flusher.batch
           result == [r \in Range(batch) |-> "raft batch error"]
<1>1. TypeOK /\ Places
  BY DEF IInv
<1>2. /\ flusher' = [phase |-> "take", batch |-> <<>>]
      /\ AnswerAll(batch, Failure(batch))
      /\ limbo' = limbo \/ limbo' = limbo \cup {batch}
      /\ UNCHANGED <<client, entries, permit, log>>
  BY DEF Failed, NextBatch
<1>3. Apart(entries, batch) /\ \A b \in limbo : Apart(b, batch)
  BY <1>1, ApartSymmetric DEF Places
<1>4. \A i \in DOMAIN batch : Failure(batch)[i] = [request |-> batch[i], result |-> result[batch[i]]]
  BY DEF Failure, Range
<1>5. Service!Answers(Range(batch), result)
  <2> HIDE DEF result
  <2> QED
    BY <1>2, <1>4, AnswersMatch
<1>6. Range(batch) \in SUBSET Pending /\ Pending' \in {Pending, Pending \ Range(batch)}
  <2>1. flusher'.batch = <<>>
    BY <1>2
  <2>2. Range(entries) \cap Range(batch) = {} /\ \A b \in limbo : Range(b) \cap Range(batch) = {}
    BY <1>3, RangesApart
  <2>3. Pending = Range(entries) \cup Range(batch) \cup UNION {Range(b) : b \in limbo}
    BY DEF Pending
  <2>4. Pending' = Range(entries) \cup UNION {Range(b) : b \in limbo'}
    BY <1>2, <2>1, RangeOfNothing DEF Pending
  <2>5. CASE limbo' = limbo
    BY <2>2, <2>3, <2>4, <2>5
  <2>6. CASE limbo' = limbo \cup {batch}
    <3>1. UNION {Range(b) : b \in limbo'} = (UNION {Range(b) : b \in limbo}) \cup Range(batch)
      BY <2>6
    <3> QED
      BY <2>3, <2>4, <3>1
  <2> QED
    BY <1>2, <2>5, <2>6
<1>7. UNCHANGED <<[c \in Client |-> client[c].post], log>>
  BY <1>2
<1>8. Service!Refuse(Range(batch))
  BY <1>5, <1>6, <1>7, Zenon DEF Service!Refuse, result
<1> QED
  BY <1>6, <1>8

\* A batch in doubt was answered with an error, so its fate changes no answer.
LEMMA SettleServes ==
    ASSUME IInv, Served, NEW batch \in limbo, Settle(batch)
    PROVE  Service!Serve \/ \E lost \in SUBSET Pending : Service!Refuse(lost)
<1>1. TypeOK /\ Places /\ Unanswered
  BY DEF IInv, Served
<1>2. /\ limbo' = limbo \ {batch} /\ (log' = log \/ log' = log \o batch)
      /\ UNCHANGED <<client, answer, entries, permit, flusher>>
  BY DEF Settle, clientVars
<1>3. batch \in Seq(Request) /\ log \in Seq(Request)
  BY <1>1 DEF TypeOK
<1>4. /\ IsInjective(batch) /\ Apart(entries, batch) /\ Apart(flusher.batch, batch)
      /\ \A b \in limbo' : Apart(b, batch)
  BY <1>1, <1>2, ApartSymmetric DEF Places, Posted
<1>5. ASSUME NEW result
      PROVE  Service!Answers(Range(batch), result)
  <2>1. ASSUME NEW c \in Client
        PROVE  ~(Own(c) \in Range(batch) /\ answer[c] = None)
    BY <1>1 DEF Unanswered, Lacks, Range
  <2>2. answer' = [c \in Client |-> answer[c]]
    BY <1>1, <1>2 DEF TypeOK
  <2>3. \A c \in Client : Service!Own(c) = Own(c)
    BY DEF Service!Own, Own
  <2> QED
    BY <2>1, <2>2, <2>3 DEF Service!Answers
<1>6. Range(batch) \in SUBSET Pending /\ Pending' = Pending \ Range(batch)
  <2>1. /\ Range(entries) \cap Range(batch) = {} /\ Range(flusher.batch) \cap Range(batch) = {}
        /\ \A b \in limbo' : Range(b) \cap Range(batch) = {}
    BY <1>4, RangesApart
  <2>2. UNION {Range(b) : b \in limbo} = Range(batch) \cup UNION {Range(b) : b \in limbo'}
    BY <1>2
  <2>3. Pending = Range(entries) \cup Range(flusher.batch) \cup UNION {Range(b) : b \in limbo}
    BY DEF Pending
  <2>4. Pending' = Range(entries) \cup Range(flusher.batch) \cup UNION {Range(b) : b \in limbo'}
    BY <1>2 DEF Pending
  <2> QED
    BY <2>1, <2>2, <2>3, <2>4
<1>7. UNCHANGED [c \in Client |-> client[c].post]
  BY <1>2
<1>8. CASE log' = log
  <2>1. Service!Refuse(Range(batch))
    BY <1>5, <1>6, <1>7, <1>8, Zenon DEF Service!Refuse
  <2> QED
    BY <1>6, <2>1
<1>9. CASE log' = log \o batch
  <2>1. SubSeq(log', Len(log) + 1, Len(log')) = batch
    BY <1>3, <1>9, GrownBy
  <2>2. Service!Range(batch) = Range(batch) /\ Service!IsInjective(batch)
    BY <1>4 DEF Service!Range, Range, Service!IsInjective, IsInjective
  <2>3. Service!Answers(Range(batch), [r \in Range(batch) |-> Service!Effect(log', r)])
    BY <1>5
  <2>4. Service!Serve
    BY <1>6, <1>7, <1>9, <2>1, <2>2, <2>3 DEF Service!Serve
  <2> QED
    BY <2>4
<1> QED
  BY <1>2, <1>8, <1>9

\* The write path implements the service without queue and flush loop: a post is applied
\* once or never, no post is lost unanswered, its one answer is what its place in the log
\* says or an error, and only an error is followed by another post.
THEOREM PathImplementsService == Spec => KeepsService
<1>1. IInv /\ Served /\ [Next]_vars => [Service!Next]_(Service!vars)
  <2> SUFFICES ASSUME IInv, Served, [Next]_vars
               PROVE  [Service!Next]_(Service!vars)
    OBVIOUS
  <2>1. CASE UNCHANGED vars
    BY <2>1 DEF vars, clientVars, Service!vars, Pending
  <2>2. CASE \E c \in Client : Post(c)
    BY <2>2, PostAsks DEF Service!Next
  <2>3. CASE \E c \in Client : Hears(c) \/ GiveUp(c)
    BY <2>3, ClientIsHidden
  <2>4. CASE TakesBatch \/ Notified
    BY <2>4, TakesAreHidden
  <2>5. CASE Applied
    BY <2>5, AppliedServes DEF Service!Next
  <2>6. CASE Failed
    BY <2>6, FailedRefuses DEF Service!Next
  <2>7. CASE \E batch \in limbo : Settle(batch)
    BY <2>7, SettleServes DEF Service!Next
  <2> QED
    BY <2>1, <2>2, <2>3, <2>4, <2>5, <2>6, <2>7 DEF Next, Writes
<1>2. Spec => []Served
  BY Invariance, ServedFirst, ServedNext, PTL DEF Spec
<1> QED
  BY <1>1, <1>2, Invariance, ServiceInit, PTL DEF Spec, KeepsService, Service!Spec
=============================================================================
