------------------------ MODULE InboundDispatchProofs ------------------------
(***************************************************************************)
(* Proofs about InboundDispatch: the counters of a service keep to its     *)
(* limit, a sequence is handled once, and everybody who asks for one is    *)
(* told the same.                                                          *)
(*                                                                         *)
(* The two components bring invariants of their own.  IP and MP are the    *)
(* modules that prove them, instantiated as the dispatcher instantiates    *)
(* the components, and each call of Dispatch that enters a component is    *)
(* reduced to a lemma about what it does there.  What the composition adds *)
(* is the tie between them: one call holds a sequence from its admission   *)
(* on (HolderInv), and it gives its task to the mailbox only while it      *)
(* does (CallInv).                                                         *)
(***************************************************************************)
EXTENDS InboundDispatch, FiniteSetTheorems, TLAPS

IP == INSTANCE OrderedIngressProofs WITH
        Streams <- {"stream"}, Epochs <- {"epoch"}, Peers <- {"peer"},
        Requests <- Contents, InvalidErrors <- {"unsafe"}, SafeError <- "lost",
        Size <- [o \in Outcomes |-> 1], MaxStreams <- 1, MaxBytes <- MaxResults

MP == INSTANCE ActorMailboxProofs WITH Tasks <- Calls

-----------------------------------------------------------------------------
(* The two components and their proofs.                                    *)

LEMMA IngressLimits == IP!LimitsAssumption /\ IP!OutcomeAssumption
<1>1. IP!LimitsAssumption
  BY SizesAssumption DEF IP!LimitsAssumption
<1>2. IP!OutcomeAssumption
  BY DEF IP!OutcomeAssumption, Outcomes
<1> QED BY <1>1, <1>2

LEMMA MailboxLimits == MP!CapacityAssumption /\ MP!NoTaskAssumption
  BY SizesAssumption DEF MP!CapacityAssumption, MP!NoTaskAssumption

LEMMA SameBytes == \A f, K : I!BytesOf(f, K) = IP!BytesOf(f, K)
  BY DEF I!BytesOf, IP!BytesOf, I!MapThenSumSet, IP!MapThenSumSet, I!MapThenFoldSet, IP!MapThenFoldSet

LEMMA SameAdmit ==
  ASSUME NEW e, NEW n, NEW req, I!Admit("stream", e, "peer", n, req)
  PROVE  IP!Admit("stream", e, "peer", n, req)
  BY DEF I!Admit, IP!Admit, I!AdmitRejected, IP!AdmitRejected, I!AdmitGap, IP!AdmitGap,
         I!AdmitUsed, IP!AdmitUsed, I!AdmitExecute, IP!AdmitExecute, I!Authorized, IP!Authorized,
         I!StateUnchanged, IP!StateUnchanged, I!Refuse, IP!Refuse, I!Replay, IP!Replay,
         I!Answer, IP!Answer, I!Put, IP!Put

LEMMA SameComplete ==
  ASSUME NEW t, NEW o, I!Complete(t, o)
  PROVE  IP!Complete(t, o)
  BY SameBytes
  DEF I!Complete, IP!Complete, I!EvictToLimits, IP!EvictToLimits, I!StopsAt, IP!StopsAt,
      I!OverLimits, IP!OverLimits, I!Normalized, IP!Normalized, I!Put, IP!Put,
      I!CompletedInFlight, IP!CompletedInFlight, I!Without, IP!Without, I!Answer, IP!Answer

LEMMA SameTypes == IP!TypeOK <=> I!TypeOK
  BY DEF I!TypeOK, IP!TypeOK, I!CoreTypeOK, IP!CoreTypeOK, I!Grants, IP!Grants, I!Keys, IP!Keys,
         I!Seqs, IP!Seqs, I!Replies, IP!Replies, I!Tickets, IP!Tickets

-----------------------------------------------------------------------------
(* What a call learns from the ordered ingress.                            *)

Log == log["stream"]
Outcome == outcome["stream"]
Key(c) == <<"stream", c.seq>>

IngressInv == IP!IInv /\ IP!CacheInv /\ IP!TicketsTrue /\ IP!ReplyIsOwn

LEMMA SameSets ==
  \A S : (IP!IsFiniteSet(S) <=> IsFiniteSet(S)) /\ IP!Cardinality(S) = Cardinality(S)
  BY DEF IP!IsFiniteSet, IsFiniteSet, IP!Cardinality, Cardinality

\* The granted stream, before the first call.
LEMMA IngressInit == Init => IngressInv
<1> SUFFICES ASSUME Init PROVE IngressInv
  OBVIOUS
<1> DEFINE g == [stream |-> "stream", epoch |-> "epoch", peer |-> "peer"]
<1>1. /\ grants = {g} /\ next = [s \in {"stream"} |-> 1]
      /\ inFlight = IP!Empty /\ cachedSeqs = {} /\ cached = IP!Empty
      /\ cachedOrder = <<>> /\ cachedBytes = 0 /\ issued = {}
      /\ log = [s \in {"stream"} |-> <<>>]
      /\ outcome = [s \in {"stream"} |-> IP!Empty]
  BY DEF Init, I!Empty, IP!Empty
<1>2. DOMAIN inFlight = {} /\ DOMAIN cached = {} /\ DOMAIN IP!Empty = {}
  BY <1>1 DEF IP!Empty
<1>3. IP!CoreTypeOK
  <2>1. next \in [{"stream"} -> 0..(MaxSeq + 1)]
    BY <1>1, SizesAssumption
  <2>2. outcome \in [{"stream"} -> UNION {[D -> IP!Replies] : D \in SUBSET IP!Seqs}]
    <3>1. IP!Empty \in [{} -> IP!Replies]
      BY DEF IP!Empty
    <3>2. IP!Empty \in UNION {[D -> IP!Replies] : D \in SUBSET IP!Seqs}
      BY <3>1
    <3> QED BY <1>1, <3>2
  <2>3. log \in [{"stream"} -> Seq(Contents)]
    BY <1>1
  <2>4. grants \subseteq IP!Grants
    BY <1>1 DEF IP!Grants
  <2> QED BY <1>1, <1>2, <2>1, <2>2, <2>3, <2>4 DEF IP!CoreTypeOK
<1>4. IP!IsFiniteSet(grants) /\ IP!Cardinality(grants) = 1
  BY <1>1, FS_Singleton, SameSets
<1>5. IP!OneSessionPerStream
  <2>1. IP!GrantOf("stream") = {g} /\ next["stream"] = 1
    BY <1>1 DEF IP!GrantOf
  <2> HIDE DEF g
  <2> QED BY <1>4, <2>1 DEF IP!OneSessionPerStream
<1>6. IP!SequenceNamesOneExecution /\ IP!OneFate
  BY <1>1, <1>2 DEF IP!SequenceNamesOneExecution, IP!OneFate
<1>7. IP!IInv
  BY <1>2, <1>3, <1>4, <1>5, <1>6 DEF IP!IInv
<1>8. IP!CacheInSync
  <2>1. IP!BytesOf(cached, DOMAIN cached) = 0
    BY <1>2, IP!BytesOfNone, IngressLimits
  <2> QED BY <1>1, <1>2, <2>1 DEF IP!CacheInSync
<1>9. IP!CacheWithinLimits
  BY <1>1, <1>2, FS_EmptySet, SameSets, SizesAssumption DEF IP!CacheWithinLimits, IP!CountWithinLimit
<1>10. IP!CacheInv
  BY <1>1, <1>8, <1>9 DEF IP!CacheInv
<1>11. IP!TicketsTrue /\ IP!ReplyIsOwn
  BY <1>1, <1>2 DEF IP!TicketsTrue, IP!ReplyIsOwn
<1> QED BY <1>7, <1>10, <1>11 DEF IngressInv

LEMMA IngressFrame ==
  ASSUME IngressInv, UNCHANGED <<grants, next, inFlight, cachedSeqs, cached, cachedOrder,
                                 cachedBytes, issued, log, outcome>>
  PROVE  IngressInv'
<1>1. IP!IInv'
  BY IngressLimits, IP!StutterInv DEF IngressInv, IP!core
<1>2. IP!CacheInv'
  BY IngressLimits, IP!CacheFrame DEF IngressInv, IP!cache
<1>3. IP!TicketsTrue' /\ IP!ReplyIsOwn'
  BY DEF IngressInv, IP!TicketsTrue, IP!ReplyIsOwn
<1> QED BY <1>1, <1>2, <1>3 DEF IngressInv

\* How the log of the stream, next_sequence and the tables belong together.
LEMMA IngressKnown ==
  ASSUME IngressInv
  PROVE  /\ Log \in Seq(Contents) /\ Len(Log) \in Nat /\ Len(Log) <= MaxSeq
         /\ next["stream"] \in Nat
         /\ Len(Log) = IF next["stream"] = 0 THEN 0 ELSE next["stream"] - 1
         /\ DOMAIN Outcome \subseteq 1..Len(Log)
         /\ \A n \in 1..Len(Log) : (<<"stream", n>> \in DOMAIN inFlight) # (n \in DOMAIN Outcome)
         /\ \A n \in DOMAIN Outcome : Outcome[n].outcome \in Outcomes
<1>1. /\ next \in [{"stream"} -> 0..(MaxSeq + 1)] /\ log \in [{"stream"} -> Seq(Contents)]
      /\ outcome \in [{"stream"} -> UNION {[D -> IP!Replies] : D \in SUBSET IP!Seqs}]
  BY DEF IngressInv, IP!IInv, IP!CoreTypeOK
<1>2. Len(Log) = IF next["stream"] = 0 THEN 0 ELSE next["stream"] - 1
  BY DEF IngressInv, IP!IInv, IP!SequenceNamesOneExecution, Log
<1>3. /\ DOMAIN Outcome \subseteq 1..Len(Log)
      /\ \A n \in 1..Len(Log) : (<<"stream", n>> \in DOMAIN inFlight) # (n \in DOMAIN Outcome)
  BY DEF IngressInv, IP!IInv, IP!OneFate, Log, Outcome
<1>4. \A n \in DOMAIN Outcome : Outcome[n].outcome \in Outcomes
  BY <1>1 DEF Outcome, IP!Replies
<1> QED BY <1>1, <1>2, <1>3, <1>4, SizesAssumption DEF Log

\* The refusals of Admit.
AdmitRefusals == {"Gap", "InProgress", "Conflict", "Expired", "Rejected"}

\* The answers of Admit.  A call is executed behind the last one of its stream,
\* or it repeats one and is replayed what that was completed with, or nothing
\* happens.
LEMMA AdmitDoes ==
  ASSUME IngressInv, NEW c \in Calls, NEW e \in {"epoch", "unstamped"},
         I!Admit("stream", e, "peer", c.seq, c.content)
  PROVE  /\ IngressInv'
         /\ outcome' = outcome
         /\ \/ /\ answer'.kind = "Execute"
               /\ c.seq = Len(Log) + 1 /\ Log' = Append(Log, c.content)
               /\ issued' = issued \cup {Ticket(c)}
               /\ DOMAIN inFlight' = DOMAIN inFlight \cup {Key(c)}
            \/ /\ UNCHANGED <<log, issued, inFlight>>
               /\ \/ /\ answer'.kind = "Replay"
                     /\ c.seq \in DOMAIN Outcome /\ Log[c.seq] = c.content
                     /\ answer'.reply = Outcome[c.seq]
                     /\ answer'.reply.outcome \in {"own", "lost"}
                  \/ answer'.kind \in AdmitRefusals
<1> DEFINE s == "stream"
           n == c.seq
           req == c.content
           k == <<s, n>>
<1>1. IP!Admit(s, e, "peer", n, req)
  BY SameAdmit
<1>2. n \in Nat /\ req \in Contents
  BY CallAssumption
<1>3. CASE IP!AdmitExecute(s, n, req)
  <2>1. /\ n = next[s] /\ n > 0 /\ n <= MaxSeq
        /\ inFlight' = IP!Put(inFlight, k, req)
        /\ issued' = issued \cup {Ticket(c)}
        /\ log' = [log EXCEPT ![s] = Append(@, req)]
        /\ answer' = [kind |-> "Execute", stream |-> s, seq |-> n]
        /\ UNCHANGED <<grants, cachedSeqs, cached, cachedOrder, cachedBytes, outcome>>
    BY <1>3 DEF IP!AdmitExecute, IP!Answer, Ticket
  <2>2. n \in 0..(MaxSeq + 1)
    BY <1>2, <2>1, SizesAssumption
  <2>3. IP!IInv'
    BY <1>2, <1>3, <2>2, IngressLimits, IP!AdmitExecuteInv DEF IngressInv
  <2>4. IP!CacheInv'
    BY <2>1, IngressLimits, IP!CacheFrame DEF IngressInv, IP!cache
  <2>5. IP!TicketsTrue'
    BY <1>2, <1>3, <2>2, IngressLimits, IP!AdmitExecuteTickets DEF IngressInv
  <2>6. IP!ReplyIsOwn'
    BY <2>1 DEF IngressInv, IP!ReplyIsOwn
  <2>7. n = Len(Log) + 1
    BY <2>1, IngressKnown
  <2>8. Log' = Append(Log, req)
    BY <2>1 DEF Log, IngressInv, IP!IInv, IP!CoreTypeOK
  <2>9. DOMAIN inFlight' = DOMAIN inFlight \cup {k}
    BY <2>1 DEF IP!Put
  <2> QED BY <2>1, <2>3, <2>4, <2>5, <2>6, <2>7, <2>8, <2>9 DEF IngressInv, Key
<1>4. CASE IP!AdmitUsed(s, n, req)
  <2>1. IP!StateUnchanged /\ n > 0 /\ n < next[s]
    BY <1>4 DEF IP!AdmitUsed
  <2>2. IngressInv'
    BY <2>1, IngressFrame DEF IP!StateUnchanged
  <2>3. CASE IP!Replay(s, n, req) /\ k \in DOMAIN cached /\ cached[k].req = req
    <3>1. answer'.kind = "Replay" /\ answer'.reply = cached[k].reply
      BY <2>3 DEF IP!Replay
    <3>2. /\ n \in DOMAIN Outcome /\ cached[k].reply = Outcome[n] /\ Log[n] = req
      BY <2>3 DEF IngressInv, IP!IInv, IP!OneFate, IP!SequenceNamesOneExecution, Log, Outcome
    <3>3. cached[k].reply.outcome \in Outcomes /\ cached[k].reply.outcome \notin {"unsafe"}
      BY <2>3 DEF IngressInv, IP!IInv, IP!CoreTypeOK, IP!Replies, IP!ReplyIsOwn
    <3> QED BY <2>1, <2>2, <3>1, <3>2, <3>3 DEF IP!StateUnchanged, Outcomes
  <2>4. CASE answer'.kind \in {"InProgress", "Conflict", "Expired"}
    BY <2>1, <2>2, <2>4 DEF IP!StateUnchanged, AdmitRefusals
  <2> QED BY <1>4, <2>3, <2>4 DEF IP!AdmitUsed, IP!Refuse
<1>5. CASE IP!AdmitGap(s, n) \/ IP!AdmitRejected(s, e, "peer", n, req)
  <2>1. IP!StateUnchanged /\ answer'.kind \in AdmitRefusals
    BY <1>5 DEF IP!AdmitGap, IP!AdmitRejected, IP!Refuse, AdmitRefusals
  <2> QED BY <2>1, IngressFrame DEF IP!StateUnchanged
<1> QED BY <1>1, <1>3, <1>4, <1>5 DEF IP!Admit

\* Completing an admission: its sequence leaves the calls in flight and gets the
\* terminal reply (Complete).
LEMMA CompleteDoes ==
  ASSUME IngressInv, NEW c \in Calls, Ticket(c) \in issued, NEW o \in {"own", "lost"},
         I!Complete(Ticket(c), o)
  PROVE  /\ IngressInv'
         /\ UNCHANGED <<log, issued>>
         /\ DOMAIN inFlight' = DOMAIN inFlight \ {Key(c)}
         /\ DOMAIN Outcome' = DOMAIN Outcome \cup {c.seq} /\ c.seq \notin DOMAIN Outcome
         /\ Outcome'[c.seq].outcome = o
         /\ \A n \in DOMAIN Outcome : Outcome'[n] = Outcome[n]
<1> DEFINE t == Ticket(c)
<1>1. IP!Complete(t, o)
  BY SameComplete
<1>2. o \in Outcomes /\ t.stream = "stream" /\ t.seq = c.seq
  BY DEF Outcomes, Ticket
<1>3. IP!Normalized(o) = o
  BY DEF IP!Normalized
<1> DEFINE reply1 == [for |-> t.req, outcome |-> o]
<1> HIDE DEF t
<1>4. t \in issued
  BY DEF t
<1>5. /\ <<t.stream, t.seq>> \in DOMAIN inFlight
      /\ DOMAIN inFlight' = DOMAIN inFlight \ {<<t.stream, t.seq>>}
      /\ outcome' = [outcome EXCEPT ![t.stream] = IP!Put(@, t.seq, reply1)]
      /\ UNCHANGED <<grants, next, issued, log>>
  BY <1>1, <1>2, <1>3, <1>4, IngressLimits, IP!CompleteFacts DEF IngressInv
<1>6. IP!IInv'
  BY <1>1, <1>2, <1>4, IngressLimits, IP!CompleteInv DEF IngressInv
<1>7. IP!CacheInv'
  BY <1>1, <1>2, <1>4, IngressLimits, IP!CacheCompleteStep DEF IngressInv
<1>8. IP!TicketsTrue' /\ IP!ReplyIsOwn'
  BY <1>1, <1>2, <1>4, IngressLimits, IP!CompleteOwn DEF IngressInv
<1>9. Outcome' = IP!Put(Outcome, c.seq, reply1)
  BY <1>2, <1>5 DEF Outcome, IngressInv, IP!IInv, IP!CoreTypeOK
<1>10. c.seq \notin DOMAIN Outcome
  <2>1. t.seq \in 1..Len(log[t.stream])
    BY <1>4 DEF IngressInv, IP!TicketsTrue
  <2>2. c.seq \in 1..Len(Log) /\ <<"stream", c.seq>> \in DOMAIN inFlight
    BY <1>2, <1>5, <2>1 DEF Log
  <2> QED BY <2>2, IngressKnown
<1>11. /\ DOMAIN Outcome' = DOMAIN Outcome \cup {c.seq}
       /\ Outcome'[c.seq].outcome = o
       /\ \A n \in DOMAIN Outcome : Outcome'[n] = Outcome[n]
  BY <1>9, <1>10 DEF IP!Put
<1> QED BY <1>2, <1>5, <1>6, <1>7, <1>8, <1>10, <1>11 DEF IngressInv, Key

-----------------------------------------------------------------------------
(* What a call learns from the mailbox.                                    *)

Accepted(c) == \E i \in 1..Len(accepted) : accepted[i] = c
Started(c) == \E i \in 1..Len(started) : started[i] = c

MailboxInv ==
  /\ MP!IInv
  /\ \A i, j \in 1..Len(accepted) : accepted[i] = accepted[j] => i = j
  /\ \A d \in Coroutines : IF drain[d] = "task" THEN task[d] \in Calls ELSE task[d] = NoTask

LEMMA MailboxInit == M!Init => MailboxInv
<1> SUFFICES ASSUME M!Init PROVE MailboxInv
  OBVIOUS
<1>1. MP!Init
  BY DEF M!Init, MP!Init
<1>2. MP!IInv
  BY <1>1, MailboxLimits, MP!InitInv
<1> QED BY <1>2 DEF M!Init, MailboxInv

LEMMA MailboxFrame == MailboxInv /\ UNCHANGED mailbox => MailboxInv'
<1> SUFFICES ASSUME MailboxInv, UNCHANGED mailbox PROVE MailboxInv'
  OBVIOUS
<1>1. MP!IInv'
  BY MailboxLimits, MP!StutterInv DEF MailboxInv, mailbox, MP!vars
<1> QED BY <1>1 DEF MailboxInv, mailbox

\* What has been started is the first part of what was accepted, and what waits
\* is the rest.
LEMMA MailboxKnown ==
  ASSUME MailboxInv
  PROVE  /\ started \in Seq(Calls) /\ accepted \in Seq(Calls) /\ queue \in Seq(Calls)
         /\ \A i, j \in 1..Len(started) : started[i] = started[j] => i = j
         /\ \A c \in Calls : Started(c) => Accepted(c)
         /\ queue # <<>> => Head(queue) \in Calls /\ Accepted(Head(queue)) /\ ~Started(Head(queue))
         /\ task \in [Coroutines -> Calls \cup {NoTask}] /\ drain \in [Coroutines -> {"off", "loop", "task"}]
         /\ \A c, d \in Coroutines : drain[c] = "task" /\ drain[d] = "task" => c = d
<1>1. /\ started \in Seq(Calls) /\ accepted \in Seq(Calls) /\ queue \in Seq(Calls)
      /\ task \in [Coroutines -> Calls \cup {NoTask}] /\ drain \in [Coroutines -> {"off", "loop", "task"}]
  BY DEF MailboxInv, MP!IInv, MP!TypeOK
<1>2. started \o queue = accepted
  BY DEF MailboxInv, MP!IInv, MP!AcceptanceOrder
<1>3. /\ Len(accepted) = Len(started) + Len(queue)
      /\ \A i \in 1..Len(started) : i \in 1..Len(accepted) /\ accepted[i] = started[i]
      /\ \A i \in 1..Len(queue) : accepted[Len(started) + i] = queue[i]
  BY <1>1, <1>2
<1>4. \A i, j \in 1..Len(started) : started[i] = started[j] => i = j
  BY <1>3 DEF MailboxInv
<1>5. \A c \in Calls : Started(c) => Accepted(c)
  BY <1>3 DEF Started, Accepted
<1>6. ASSUME queue # <<>>
      PROVE  Head(queue) \in Calls /\ Accepted(Head(queue)) /\ ~Started(Head(queue))
  <2>1. Head(queue) \in Calls /\ Head(queue) = queue[1] /\ 1 \in 1..Len(queue)
    BY <1>1, <1>6
  <2> DEFINE m == Len(started) + 1
  <2>2. m \in 1..Len(accepted) /\ accepted[m] = Head(queue)
    BY <1>1, <1>3, <2>1
  <2>3. \A i \in 1..Len(started) : i # m
    BY <1>1
  <2>4. ~Started(Head(queue))
    BY <1>3, <2>2, <2>3 DEF Started, MailboxInv
  <2> QED BY <2>1, <2>2, <2>4 DEF Accepted
<1>7. \A c, d \in Coroutines : drain[c] = "task" /\ drain[d] = "task" => c = d
  BY DEF MailboxInv, MP!IInv, MP!OneDrain, MP!Alive
<1> QED BY <1>1, <1>4, <1>5, <1>6, <1>7

\* TryEnqueue accepts a task that was never accepted before.
LEMMA EnqueueDoes ==
  ASSUME MailboxInv, NEW c \in Calls,
         M!EnqueueBehind(c) \/ \E d \in Coroutines : M!EnqueueFirst(c, d)
  PROVE  /\ MailboxInv' /\ UNCHANGED <<started, task>>
         /\ ~Accepted(c) /\ \A x \in Calls : Accepted(x)' <=> Accepted(x) \/ x = c
<1>1. MP!EnqueueBehind(c) \/ \E d \in Coroutines : MP!EnqueueFirst(c, d)
  BY DEF M!EnqueueBehind, MP!EnqueueBehind, M!EnqueueFirst, MP!EnqueueFirst,
         M!Admits, MP!Admits, M!Submitted, MP!Submitted
<1>2. MP!IInv'
  BY <1>1, MailboxLimits, MP!EnqueueBehindInv, MP!EnqueueFirstInv DEF MailboxInv
<1>3. ~Accepted(c) /\ accepted' = Append(accepted, c) /\ UNCHANGED <<started, task>>
  BY <1>1 DEF MP!EnqueueBehind, MP!EnqueueFirst, MP!Admits, MP!Submitted, Accepted
<1>4. accepted \in Seq(Calls)
  BY MailboxKnown
<1>5. /\ Len(accepted') = Len(accepted) + 1 /\ accepted'[Len(accepted) + 1] = c
      /\ \A i \in 1..Len(accepted) : accepted'[i] = accepted[i]
      /\ Len(accepted) \in Nat
  BY <1>3, <1>4
<1>6. \A x \in Calls : Accepted(x)' <=> Accepted(x) \/ x = c
  <2> SUFFICES ASSUME NEW x \in Calls PROVE Accepted(x)' <=> Accepted(x) \/ x = c
    OBVIOUS
  <2>1. Accepted(x)' <=> \E i \in 1..Len(accepted') : accepted'[i] = x
    BY DEF Accepted
  <2>2. \A i \in 1..Len(accepted') : i \in 1..Len(accepted) \/ i = Len(accepted) + 1
    BY <1>5
  <2>3. Len(accepted) + 1 \in 1..Len(accepted') /\ \A i \in 1..Len(accepted) : i \in 1..Len(accepted')
    BY <1>5
  <2> QED BY <1>5, <2>1, <2>2, <2>3 DEF Accepted
<1>7. \A i, j \in 1..Len(accepted') : accepted'[i] = accepted'[j] => i = j
  BY <1>3, <1>5 DEF Accepted, MailboxInv
<1>8. \A d \in Coroutines : IF drain'[d] = "task" THEN task'[d] \in Calls ELSE task'[d] = NoTask
  <2>1. \A d \in Coroutines : drain'[d] = "task" <=> drain[d] = "task"
    BY <1>1, MailboxKnown DEF MP!EnqueueBehind, MP!EnqueueFirst
  <2> QED BY <1>3, <2>1 DEF MailboxInv
<1> QED BY <1>2, <1>3, <1>6, <1>7, <1>8 DEF MailboxInv

\* TryEnqueue refuses: nothing changes.
LEMMA EnqueueFailsDoes ==
  ASSUME MailboxInv, NEW c \in Calls, M!EnqueueUnavailable(c) \/ M!EnqueueRefused(c)
  PROVE  ~Accepted(c) /\ UNCHANGED mailbox
  BY DEF M!EnqueueUnavailable, M!RolledBack, M!EnqueueRefused, M!Admits, M!Submitted, M!vars,
         mailbox, Accepted

\* The drain coroutine takes a task that was accepted and never started.
LEMMA DrainTakeDoes ==
  ASSUME MailboxInv, NEW d \in Coroutines, M!DrainTake(d)
  PROVE  /\ MailboxInv' /\ accepted' = accepted
         /\ task[d] = NoTask
         /\ \E t \in Calls : /\ Accepted(t) /\ ~Started(t)
                             /\ task' = [task EXCEPT ![d] = t]
                             /\ started' = Append(started, t)
                             /\ \A x \in Calls : Started(x)' <=> Started(x) \/ x = t
<1>1. MP!DrainTake(d)
  BY DEF M!DrainTake, MP!DrainTake, M!Taken, MP!Taken
<1>2. MP!IInv'
  BY <1>1, MailboxLimits, MP!DrainTakeInv DEF MailboxInv
<1> DEFINE t == Head(queue)
<1>3. /\ drain[d] = "loop" /\ queue # <<>> /\ drain' = [drain EXCEPT ![d] = "task"]
      /\ task' = [task EXCEPT ![d] = t] /\ started' = Append(started, t) /\ accepted' = accepted
  BY <1>1 DEF MP!DrainTake, MP!Taken
<1>4. /\ t \in Calls /\ Accepted(t) /\ ~Started(t) /\ started \in Seq(Calls)
      /\ task \in [Coroutines -> Calls \cup {NoTask}] /\ drain \in [Coroutines -> {"off", "loop", "task"}]
  BY <1>3, MailboxKnown
<1> HIDE DEF t
<1>5. \A x \in Calls : Started(x)' <=> Started(x) \/ x = t
  <2> SUFFICES ASSUME NEW x \in Calls PROVE Started(x)' <=> Started(x) \/ x = t
    OBVIOUS
  <2>1. Started(x)' <=> \E i \in 1..Len(started') : started'[i] = x
    BY DEF Started
  <2>2. /\ Len(started') = Len(started) + 1 /\ started'[Len(started) + 1] = t
        /\ \A i \in 1..Len(started) : started'[i] = started[i]
        /\ Len(started) \in Nat
    BY <1>3, <1>4
  <2>3. \A i \in 1..Len(started') : i \in 1..Len(started) \/ i = Len(started) + 1
    BY <2>2
  <2>4. Len(started) + 1 \in 1..Len(started') /\ \A i \in 1..Len(started) : i \in 1..Len(started')
    BY <2>2
  <2> QED BY <2>1, <2>2, <2>3, <2>4 DEF Started
<1>6. \A x \in Coroutines : IF drain'[x] = "task" THEN task'[x] \in Calls ELSE task'[x] = NoTask
  BY <1>3, <1>4 DEF MailboxInv
<1>7. task[d] = NoTask
  BY <1>3 DEF MailboxInv
<1> QED BY <1>2, <1>3, <1>4, <1>5, <1>6, <1>7 DEF MailboxInv

\* The drain coroutine finds nothing more to do.
LEMMA DrainStopDoes ==
  ASSUME MailboxInv, NEW d \in Coroutines, M!DrainStop(d)
  PROVE  MailboxInv' /\ UNCHANGED <<accepted, started, task>>
<1>1. MP!DrainStop(d)
  BY DEF M!DrainStop, MP!DrainStop
<1>2. MP!IInv'
  BY <1>1, MailboxLimits, MP!DrainStopInv DEF MailboxInv
<1>3. \A x \in Coroutines : IF drain'[x] = "task" THEN task'[x] \in Calls ELSE task'[x] = NoTask
  BY <1>1, MailboxKnown DEF MP!DrainStop, MailboxInv
<1> QED BY <1>1, <1>2, <1>3 DEF MP!DrainStop, MailboxInv

\* The only task under execution ends.
LEMMA TaskEndsDoes ==
  ASSUME MailboxInv, NEW d \in Coroutines, M!TaskEnds(d)
  PROVE  /\ MailboxInv' /\ UNCHANGED <<accepted, started>>
         /\ task[d] \in Calls /\ task' = [task EXCEPT ![d] = NoTask]
         /\ \A x \in Coroutines : x # d => task[x] = NoTask
<1>1. MP!TaskEnds(d)
  BY DEF M!TaskEnds, MP!TaskEnds
<1>2. MP!IInv'
  BY <1>1, MailboxLimits, MP!TaskEndsInv DEF MailboxInv
<1>3. \A x \in Coroutines : IF drain'[x] = "task" THEN task'[x] \in Calls ELSE task'[x] = NoTask
  BY <1>1, MailboxKnown DEF MP!TaskEnds, MailboxInv
<1>4. \A x \in Coroutines : x # d => drain[x] # "task"
  BY <1>1, MailboxKnown DEF MP!TaskEnds
<1> QED BY <1>1, <1>2, <1>3, <1>4 DEF MP!TaskEnds, MailboxInv

-----------------------------------------------------------------------------
(* The invariant of the dispatcher.                                        *)

Early == {"new", "gate", "inline", "admitted", "ready"}
Behind == {"admitted", "ready", "waiting", "settling"}

\* The calls that may still reach a handler with their sequence, or did.
Holds(c) == pc[c] \in Behind \/ Accepted(c)

LocalTypeOK ==
  /\ pc \in [Calls -> Places]
  /\ form \in [Calls -> Forms] /\ ordered \in BOOLEAN
  /\ active \in BOOLEAN
  /\ slot \in [Calls -> Outcomes \cup {"none"}]
  /\ terminal \in [Calls -> Outcomes \cup {"none"}]
  /\ reply \in [Calls -> Outcomes \cup Refusals \cup {"none"}]

TasksStarted ==
  \A d \in Coroutines : task[d] # NoTask => \E i \in 1..Len(started) : started[i] = task[d]

\* Where a call is, what it handed to the mailbox and what came back agree: a
\* result is in its slot only after its task was taken and has ended.
CallInv ==
  /\ \A c \in Calls :
       /\ pc[c] \in Early => ~Accepted(c)
       /\ slot[c] \in HandlerResults => Started(c) /\ \A d \in Coroutines : task[d] # c
       /\ terminal[c] \in HandlerResults => slot[c] = terminal[c]
       /\ pc[c] = "settling" => terminal[c] # "none"
       /\ pc[c] = "inline" => form[c] = "inline"
  /\ TasksStarted

\* One call holds a sequence, with the content of its place in the log, and
\* until it settles its admission is in flight.
HolderInv ==
  ordered =>
    /\ \A c \in Calls : Holds(c) => c.seq \in 1..Len(Log) /\ Log[c.seq] = c.content
    /\ \A c, d \in Calls : Holds(c) /\ Holds(d) /\ c.seq = d.seq => c = d
    /\ \A c \in Calls : pc[c] \in Behind => Ticket(c) \in issued /\ Key(c) \in DOMAIN inFlight

\* What callers were told is what their sequence was completed with, and a
\* result of the application was returned by a handler of that request.
AnswerInv ==
  /\ \A c \in Calls : reply[c] # "Unknown" /\ (pc[c] = "done" => reply[c] # "unsafe")
  /\ ordered =>
       /\ \A c \in Calls : ServiceOf(c) = "actor" /\ reply[c] \in Outcomes =>
            /\ c.seq \in DOMAIN Outcome /\ reply[c] = Outcome[c.seq].outcome
            /\ Log[c.seq] = c.content
       /\ \A n \in DOMAIN Outcome :
            /\ Outcome[n].outcome # "unsafe"
            /\ Outcome[n].outcome = "own" =>
                 \E d \in Calls : d.seq = n /\ d.content = Log[n] /\ slot[d] = "own"

\* The coroutine that executes a task has its context and no other.
ScopeInv ==
  /\ scopes \in [Coroutines \cup Calls -> Seq(Calls)]
  /\ \A d \in Coroutines : scopes[d] = IF task[d] = NoTask THEN <<>> ELSE <<task[d]>>

\* The counter of a service counts the calls past its gate.
Present(v) == {c \in Calls : ServiceOf(c) = v /\ Inside(c)}
Counted(v) == {c \in Calls : ServiceOf(c) = v /\ (Inside(c) \/ pc[c] = "leaving")}

CountInv ==
  /\ inflight \in [Services -> Nat]
  /\ \A v \in Services : /\ inflight[v] = Cardinality(Counted(v))
                         /\ Cardinality(Present(v)) <= MaxInflight

DInv ==
  /\ LocalTypeOK /\ IngressInv /\ MailboxInv
  /\ CallInv /\ HolderInv /\ AnswerInv /\ ScopeInv /\ CountInv

-----------------------------------------------------------------------------
(* The steps that touch the two components.                                *)

\* The answer to a call at the gate of an ordered service (Dispatch, Admit).
LEMMA AdmitCallDoes ==
  ASSUME IngressInv, NEW c \in Calls, AdmitCall(c)
  PROVE  /\ IngressInv' /\ pc[c] = "gate" /\ ordered
         /\ UNCHANGED <<mailbox, given, inflight, active, slot, terminal, scopes, outcome>>
         /\ \/ /\ pc' = [pc EXCEPT ![c] = "admitted"] /\ reply' = reply
               /\ c.seq = Len(Log) + 1 /\ Log' = Append(Log, c.content)
               /\ issued' = issued \cup {Ticket(c)}
               /\ DOMAIN inFlight' = DOMAIN inFlight \cup {Key(c)}
            \/ /\ pc' = [pc EXCEPT ![c] = "leaving"]
               /\ UNCHANGED <<log, issued, inFlight>>
               /\ \E r : /\ reply' = [reply EXCEPT ![c] = r]
                         /\ \/ r \in AdmitRefusals
                            \/ /\ r \in {"own", "lost"} /\ c.seq \in DOMAIN Outcome
                               /\ Log[c.seq] = c.content /\ r = Outcome[c.seq].outcome
<1>1. /\ pc[c] = "gate" /\ ordered /\ Decided(c, answer')
      /\ UNCHANGED <<mailbox, given, inflight, active, slot, terminal, scopes>>
  BY DEF AdmitCall
<1>2. PICK e \in {"epoch", "unstamped"} : I!Admit("stream", e, "peer", c.seq, c.content)
  BY DEF AdmitCall
<1>3. /\ IngressInv' /\ outcome' = outcome
      /\ \/ /\ answer'.kind = "Execute"
            /\ c.seq = Len(Log) + 1 /\ Log' = Append(Log, c.content)
            /\ issued' = issued \cup {Ticket(c)}
            /\ DOMAIN inFlight' = DOMAIN inFlight \cup {Key(c)}
         \/ /\ UNCHANGED <<log, issued, inFlight>>
            /\ \/ /\ answer'.kind = "Replay"
                  /\ c.seq \in DOMAIN Outcome /\ Log[c.seq] = c.content
                  /\ answer'.reply = Outcome[c.seq]
                  /\ answer'.reply.outcome \in {"own", "lost"}
               \/ answer'.kind \in AdmitRefusals
  BY <1>2, AdmitDoes
<1>4. CASE answer'.kind = "Execute"
  BY <1>1, <1>3, <1>4 DEF Decided, AdmitRefusals
<1>5. CASE answer'.kind # "Execute"
  <2>1. UNCHANGED <<log, issued, inFlight>> /\ pc' = [pc EXCEPT ![c] = "leaving"]
    BY <1>1, <1>3, <1>5 DEF Decided
  <2>2. CASE answer'.kind = "Replay"
    <3>1. /\ c.seq \in DOMAIN Outcome /\ Log[c.seq] = c.content
          /\ answer'.reply.outcome = Outcome[c.seq].outcome
          /\ answer'.reply.outcome \in {"own", "lost"}
      BY <1>3, <2>2 DEF AdmitRefusals
    <3>2. reply' = [reply EXCEPT ![c] = Safe(answer'.reply.outcome)]
      BY <1>1, <2>2 DEF Decided, Return
    <3>3. Safe(answer'.reply.outcome) = answer'.reply.outcome
      BY <3>1 DEF Safe
    <3> QED BY <1>1, <1>3, <2>1, <3>1, <3>2, <3>3
  <2>3. CASE answer'.kind # "Replay"
    <3>1. answer'.kind \in AdmitRefusals
      BY <1>3, <1>5, <2>3
    <3>2. reply' = [reply EXCEPT ![c] = answer'.kind]
      BY <1>1, <1>5, <2>3 DEF Decided, Return
    <3> QED BY <1>1, <1>3, <2>1, <3>1, <3>2
  <2> QED BY <2>2, <2>3
<1> QED BY <1>4, <1>5

\* The terminal reply of a call (Dispatch, Complete): the admission is still its
\* own, so it is never told that somebody else finished it.
LEMMA SettleDoes ==
  ASSUME LocalTypeOK, IngressInv, CallInv, HolderInv, NEW c \in Calls, Settle(c)
  PROVE  /\ IngressInv' /\ pc[c] = "settling" /\ pc' = [pc EXCEPT ![c] = "leaving"]
         /\ UNCHANGED <<mailbox, given, inflight, active, slot, terminal, scopes, log, issued>>
         /\ \E o \in {"own", "lost"} :
              /\ reply' = [reply EXCEPT ![c] = o]
              /\ o = "own" => slot[c] = "own"
              /\ IF ordered
                 THEN /\ DOMAIN inFlight' = DOMAIN inFlight \ {Key(c)}
                      /\ DOMAIN Outcome' = DOMAIN Outcome \cup {c.seq} /\ c.seq \notin DOMAIN Outcome
                      /\ Outcome'[c.seq].outcome = o
                      /\ \A n \in DOMAIN Outcome : Outcome'[n] = Outcome[n]
                 ELSE UNCHANGED ingress
<1> DEFINE o == Safe(terminal[c])
<1>1. /\ pc[c] = "settling" /\ pc' = [pc EXCEPT ![c] = "leaving"]
      /\ UNCHANGED <<mailbox, given, inflight, active, slot, terminal, scopes>>
  BY DEF Settle, Goto
<1>2. o \in {"own", "lost"} /\ (o = "own" => slot[c] = "own")
  <2>1. terminal[c] \in {"own", "unsafe", "lost"}
    BY <1>1 DEF LocalTypeOK, CallInv, Outcomes
  <2>2. terminal[c] = "own" => slot[c] = "own"
    BY DEF CallInv, HandlerResults
  <2> QED BY <2>1, <2>2 DEF Safe
<1>3. CASE ordered
  <2>1. Ticket(c) \in issued /\ Key(c) \in DOMAIN inFlight
    BY <1>1, <1>3 DEF HolderInv, Behind
  <2>2. I!Complete(Ticket(c), o) /\ reply' = [reply EXCEPT ![c] = o]
    BY <1>3, <2>1 DEF Settle, I!CompleteRejected, FirstAnswer, Return, Key, Ticket
  <2> HIDE DEF o
  <2>3. /\ IngressInv' /\ UNCHANGED <<log, issued>>
        /\ DOMAIN inFlight' = DOMAIN inFlight \ {Key(c)}
        /\ DOMAIN Outcome' = DOMAIN Outcome \cup {c.seq} /\ c.seq \notin DOMAIN Outcome
        /\ Outcome'[c.seq].outcome = o
        /\ \A n \in DOMAIN Outcome : Outcome'[n] = Outcome[n]
    BY <1>2, <2>1, <2>2, CompleteDoes
  <2> QED BY <1>1, <1>2, <1>3, <2>2, <2>3
<1>4. CASE ~ordered
  <2>1. UNCHANGED ingress /\ reply' = [reply EXCEPT ![c] = o]
    BY <1>4 DEF Settle, FirstAnswer, Return
  <2>2. IngressInv' /\ UNCHANGED <<log, issued>>
    BY <2>1, IngressFrame DEF ingress
  <2> HIDE DEF o
  <2> QED BY <1>1, <1>2, <1>4, <2>1, <2>2
<1> QED BY <1>3, <1>4

\* The drain coroutine begins with a task or stops.
LEMMA DrainStepDoes ==
  ASSUME MailboxInv, NEW d \in Coroutines, DrainStep(d)
  PROVE  /\ MailboxInv' /\ accepted' = accepted
         /\ UNCHANGED <<ingress, given, pc, inflight, active, slot, terminal, reply>>
         /\ \/ UNCHANGED <<started, task, scopes>>
            \/ \E t \in Calls :
                 /\ task[d] = NoTask /\ task' = [task EXCEPT ![d] = t]
                 /\ Accepted(t) /\ ~Started(t)
                 /\ \A x \in Calls : Started(x)' <=> Started(x) \/ x = t
                 /\ Bound(d, task'[d])
<1>1. UNCHANGED <<ingress, given, pc, inflight, active, slot, terminal, reply>>
  BY DEF DrainStep
<1>2. CASE M!DrainTake(d) /\ Bound(d, task'[d])
  BY <1>1, <1>2, DrainTakeDoes
<1>3. CASE M!DrainStop(d) /\ UNCHANGED scopes
  BY <1>1, <1>3, DrainStopDoes
<1> QED BY <1>2, <1>3 DEF DrainStep

\* The task that ends is the only one under execution.
LEMMA HandlerEndsDoes ==
  ASSUME MailboxInv, NEW d \in Coroutines, HandlerEnds(d)
  PROVE  /\ MailboxInv' /\ UNCHANGED <<accepted, started>>
         /\ UNCHANGED <<ingress, given, pc, inflight, active, terminal, reply>>
         /\ task[d] \in Calls /\ task' = [task EXCEPT ![d] = NoTask]
         /\ \A x \in Coroutines : x # d => task[x] = NoTask
         /\ \E r \in HandlerResults \cup {"none"} : slot' = [slot EXCEPT ![task[d]] = r]
         /\ Unbound(d)
  BY TaskEndsDoes DEF HandlerEnds

-----------------------------------------------------------------------------
(* The invariant, step by step.                                            *)

\* Nothing changes the envelopes or the options of the services.
LEMMA GivenStep == [Next]_vars => UNCHANGED given
  BY DEF Next, vars, given, RefuseRequest, RefuseEnvelope, Arrive, Serve, Expire, KeyFails, SkipAdmit,
         AdmitCall, RunInline, Activate, ActivationFails, Enqueue, EnqueueFails, WaitRefused,
         Notified, WaitInterrupted, Settle, Leave, InlineEnds, DrainStep, HandlerEnds

\* The steps that leave a component alone.
LEMMA ComponentSteps ==
  ASSUME LocalTypeOK, IngressInv, MailboxInv, CallInv, HolderInv, [Next]_vars
  PROVE  IngressInv' /\ MailboxInv'
<1>1. ASSUME UNCHANGED <<ingress, mailbox>> PROVE IngressInv' /\ MailboxInv'
  BY <1>1, IngressFrame, MailboxFrame DEF ingress
<1>2. ASSUME NEW c \in Calls, AdmitCall(c) PROVE IngressInv' /\ MailboxInv'
  BY <1>2, AdmitCallDoes, MailboxFrame
<1>3. ASSUME NEW c \in Calls, Settle(c) PROVE IngressInv' /\ MailboxInv'
  BY <1>3, SettleDoes, MailboxFrame
<1>4. ASSUME NEW c \in Calls, Enqueue(c) PROVE IngressInv' /\ MailboxInv'
  BY <1>4, EnqueueDoes, IngressFrame DEF Enqueue, ingress
<1>5. ASSUME NEW c \in Calls, EnqueueFails(c) PROVE IngressInv' /\ MailboxInv'
  BY <1>1, <1>5, EnqueueFailsDoes DEF EnqueueFails
<1>6. ASSUME NEW d \in Coroutines, DrainStep(d) \/ HandlerEnds(d) PROVE IngressInv' /\ MailboxInv'
  BY <1>6, DrainStepDoes, HandlerEndsDoes, IngressFrame DEF ingress
<1>7. ASSUME NEW c \in Calls,
             \/ RefuseRequest(c) \/ RefuseEnvelope(c) \/ Arrive(c) \/ Expire(c) \/ KeyFails(c)
             \/ SkipAdmit(c) \/ RunInline(c) \/ InlineEnds(c) \/ Activate(c) \/ ActivationFails(c)
             \/ WaitRefused(c) \/ Notified(c) \/ WaitInterrupted(c) \/ Leave(c)
      PROVE  UNCHANGED <<ingress, mailbox>>
  BY <1>7 DEF RefuseRequest, RefuseEnvelope, Arrive, Expire, KeyFails, SkipAdmit, RunInline, InlineEnds,
              Activate, ActivationFails, WaitRefused, Notified, WaitInterrupted, Leave
<1>8. CASE UNCHANGED vars
  BY <1>1, <1>8 DEF vars
<1> QED BY <1>1, <1>2, <1>3, <1>4, <1>5, <1>6, <1>7, <1>8 DEF Next, Serve

LEMMA LocalTypeStep ==
  ASSUME LocalTypeOK, IngressInv, MailboxInv, CallInv, HolderInv, [Next]_vars
  PROVE  LocalTypeOK'
<1>1. UNCHANGED given
  BY GivenStep
<1> USE <1>1 DEF LocalTypeOK, Goto, Return, Finish, given, Places, Outcomes, Refusals
<1>2. ASSUME NEW c \in Calls, RefuseRequest(c) \/ RefuseEnvelope(c) PROVE LocalTypeOK'
  <2>1. /\ pc' = [pc EXCEPT ![c] = "done"] /\ UNCHANGED <<active, slot, terminal>>
        /\ reply' = [reply EXCEPT ![c] = "Headless"] \/ reply' = [reply EXCEPT ![c] = EnvelopeError(c)]
    BY <1>2 DEF RefuseRequest, RefuseEnvelope, ToHttpResponse, Safe
  <2>2. form[c] \in BadForms \ {"headless"} => EnvelopeError(c) \in {"Invalid", "NotFound", "TypeMismatch"}
    BY DEF EnvelopeError, BadForms
  <2>3. reply' = [reply EXCEPT ![c] = "Headless"] \/ EnvelopeError(c) \in {"Invalid", "NotFound", "TypeMismatch"}
    BY <1>2, <2>2 DEF RefuseRequest, RefuseEnvelope, ToHttpResponse, Safe
  <2> QED BY <2>1, <2>3
<1>3. ASSUME NEW c \in Calls, Arrive(c) PROVE LocalTypeOK'
  BY <1>3 DEF Arrive
<1>4. ASSUME NEW c \in Calls, Expire(c) \/ KeyFails(c) \/ SkipAdmit(c) \/ Activate(c) \/ RunInline(c)
      PROVE  LocalTypeOK'
  BY <1>4 DEF Expire, KeyFails, SkipAdmit, Activate, RunInline
<1>5. ASSUME NEW c \in Calls, AdmitCall(c) PROVE LocalTypeOK'
  <2>1. /\ UNCHANGED <<active, slot, terminal>>
        /\ pc' = [pc EXCEPT ![c] = "admitted"] \/ pc' = [pc EXCEPT ![c] = "leaving"]
    BY <1>5, AdmitCallDoes
  <2>2. \/ reply' = reply
        \/ \E r : /\ reply' = [reply EXCEPT ![c] = r]
                 /\ \/ r \in AdmitRefusals
                    \/ /\ r \in {"own", "lost"} /\ c.seq \in DOMAIN Outcome
                       /\ Log[c.seq] = c.content /\ r = Outcome[c.seq].outcome
    BY <1>5, AdmitCallDoes, Zenon
  <2> QED BY <2>1, <2>2 DEF AdmitRefusals
<1>6. ASSUME NEW c \in Calls, ActivationFails(c) \/ WaitRefused(c) \/ WaitInterrupted(c) \/ Notified(c)
      PROVE  LocalTypeOK'
  BY <1>6 DEF ActivationFails, WaitRefused, WaitInterrupted, Notified
<1>7. ASSUME NEW c \in Calls, Enqueue(c) \/ EnqueueFails(c) PROVE LocalTypeOK'
  BY <1>7 DEF Enqueue, EnqueueFails
<1>8. ASSUME NEW c \in Calls, InlineEnds(c) PROVE LocalTypeOK'
  BY <1>8 DEF InlineEnds, HandlerResults
<1>9. ASSUME NEW c \in Calls, Settle(c) PROVE LocalTypeOK'
  <2>1. /\ UNCHANGED <<active, slot, terminal>> /\ pc' = [pc EXCEPT ![c] = "leaving"]
        /\ \E r \in {"own", "lost"} : reply' = [reply EXCEPT ![c] = r]
    BY <1>9, SettleDoes
  <2> QED BY <2>1
<1>10. ASSUME NEW c \in Calls, Leave(c) PROVE LocalTypeOK'
  BY <1>10 DEF Leave, Bridged, Safe
<1>11. ASSUME NEW d \in Coroutines, DrainStep(d) PROVE LocalTypeOK'
  BY <1>11 DEF DrainStep
<1>12. ASSUME NEW d \in Coroutines, HandlerEnds(d) PROVE LocalTypeOK'
  BY <1>12, HandlerEndsDoes DEF HandlerResults
<1>13. CASE UNCHANGED vars
  BY <1>13 DEF vars
<1> QED BY <1>2, <1>3, <1>4, <1>5, <1>6, <1>7, <1>8, <1>9, <1>10, <1>11, <1>12, <1>13 DEF Next, Serve

\* Every step of a call that is not about its task moves it to a place that fits
\* what the mailbox holds.
LEMMA CallFrame ==
  ASSUME LocalTypeOK, CallInv, UNCHANGED <<mailbox, given, slot>>,
         NEW c \in Calls, NEW to, pc' = [pc EXCEPT ![c] = to],
         to \in Early => pc[c] \in Early,
         to = "inline" => form[c] = "inline",
         \/ to # "settling" /\ terminal' = terminal
         \/ \E o \in Outcomes : /\ terminal' = [terminal EXCEPT ![c] = o]
                                /\ o = "lost" \/ o = slot[c]
  PROVE  CallInv'
<1>1. /\ UNCHANGED <<accepted, started, task, form, slot>>
      /\ \A x \in Calls : /\ pc'[x] = IF x = c THEN to ELSE pc[x]
                          /\ x # c => terminal'[x] = terminal[x]
      /\ terminal'[c] = terminal[c] \/ terminal'[c] = "lost" \/ terminal'[c] = slot[c]
      /\ to = "settling" => terminal'[c] \in Outcomes
  BY DEF mailbox, given, LocalTypeOK
<1>2. \A x \in Calls : (Accepted(x)' <=> Accepted(x)) /\ (Started(x)' <=> Started(x))
  BY <1>1 DEF Accepted, Started
<1>3. ASSUME NEW x \in Calls
      PROVE  /\ pc'[x] \in Early => ~Accepted(x)'
             /\ slot'[x] \in HandlerResults => Started(x)' /\ \A d \in Coroutines : task'[d] # x
             /\ terminal'[x] \in HandlerResults => slot'[x] = terminal'[x]
             /\ pc'[x] = "settling" => terminal'[x] # "none"
             /\ pc'[x] = "inline" => form'[x] = "inline"
  BY <1>1, <1>2 DEF CallInv, HandlerResults, Outcomes
<1>4. TasksStarted'
  BY <1>1 DEF CallInv, TasksStarted
<1> QED BY <1>3, <1>4 DEF CallInv

LEMMA CallStep ==
  ASSUME LocalTypeOK, IngressInv, MailboxInv, CallInv, HolderInv, [Next]_vars
  PROVE  CallInv'
<1> USE DEF Goto, Finish, Early
<1>1. ASSUME NEW c \in Calls,
             \/ RefuseRequest(c) \/ RefuseEnvelope(c) \/ Arrive(c) \/ Expire(c) \/ KeyFails(c)
             \/ SkipAdmit(c) \/ RunInline(c) \/ InlineEnds(c) \/ Activate(c) \/ Leave(c)
      PROVE  \E to \in {"done", "gate", "leaving", "admitted", "inline", "ready"} :
               /\ pc' = [pc EXCEPT ![c] = to] /\ terminal' = terminal
               /\ UNCHANGED <<mailbox, given, slot>>
               /\ to \in Early => pc[c] \in Early
               /\ to = "inline" => form[c] = "inline"
  BY <1>1 DEF RefuseRequest, RefuseEnvelope, Arrive, Expire, KeyFails, SkipAdmit, RunInline, InlineEnds,
              Activate, Leave
<1>2. ASSUME NEW c \in Calls,
             \/ RefuseRequest(c) \/ RefuseEnvelope(c) \/ Arrive(c) \/ Expire(c) \/ KeyFails(c)
             \/ SkipAdmit(c) \/ RunInline(c) \/ InlineEnds(c) \/ Activate(c) \/ Leave(c)
      PROVE  CallInv'
  <2>1. PICK to \in {"done", "gate", "leaving", "admitted", "inline", "ready"} :
               /\ pc' = [pc EXCEPT ![c] = to] /\ terminal' = terminal
               /\ UNCHANGED <<mailbox, given, slot>>
               /\ to \in Early => pc[c] \in Early
               /\ to = "inline" => form[c] = "inline"
    BY <1>1, <1>2
  <2> QED BY <2>1, CallFrame
<1>3. ASSUME NEW c \in Calls, AdmitCall(c) PROVE CallInv'
  <2>1. /\ UNCHANGED <<mailbox, given, slot>> /\ terminal' = terminal /\ pc[c] = "gate"
        /\ pc' = [pc EXCEPT ![c] = "admitted"] \/ pc' = [pc EXCEPT ![c] = "leaving"]
    BY <1>3, AdmitCallDoes
  <2> QED BY <2>1, CallFrame
<1>4. ASSUME NEW c \in Calls, Settle(c) PROVE CallInv'
  <2>1. UNCHANGED <<mailbox, given, slot>> /\ terminal' = terminal /\ pc' = [pc EXCEPT ![c] = "leaving"]
    BY <1>4, SettleDoes
  <2> QED BY <2>1, CallFrame
<1>5. ASSUME NEW c \in Calls, ActivationFails(c) \/ WaitRefused(c) \/ WaitInterrupted(c) \/ Notified(c)
      PROVE  CallInv'
  <2>1. UNCHANGED <<mailbox, given, slot>> /\ pc' = [pc EXCEPT ![c] = "settling"]
    BY <1>5 DEF ActivationFails, WaitRefused, WaitInterrupted, Notified
  <2>2. \E o \in Outcomes : terminal' = [terminal EXCEPT ![c] = o] /\ (o = "lost" \/ o = slot[c])
    BY <1>5 DEF ActivationFails, WaitRefused, WaitInterrupted, Notified, Outcomes, LocalTypeOK
  <2> QED BY <2>1, <2>2, CallFrame
<1>6. ASSUME NEW c \in Calls, Enqueue(c) PROVE CallInv'
  <2>1. /\ pc' = [pc EXCEPT ![c] = "waiting"] /\ UNCHANGED <<given, slot, terminal, started, task>>
        /\ \A x \in Calls : Accepted(x)' <=> Accepted(x) \/ x = c
    BY <1>6, EnqueueDoes DEF Enqueue
  <2>2. \A x \in Calls : Started(x)' <=> Started(x)
    BY <2>1 DEF Started
  <2>3. ASSUME NEW x \in Calls PROVE pc'[x] \in Early => ~Accepted(x)'
    BY <2>1 DEF LocalTypeOK, CallInv
  <2>4. \A x \in Calls : /\ pc'[x] = "settling" => pc[x] = "settling"
                         /\ pc'[x] = "inline" => pc[x] = "inline"
    BY <2>1 DEF LocalTypeOK
  <2>5. TasksStarted'
    BY <2>1 DEF CallInv, TasksStarted
  <2> QED BY <2>1, <2>2, <2>3, <2>4, <2>5 DEF CallInv, given
<1>7. ASSUME NEW c \in Calls, EnqueueFails(c) PROVE CallInv'
  <2>1. /\ pc[c] = "ready" /\ pc' = [pc EXCEPT ![c] = "waiting"]
        /\ UNCHANGED <<given, terminal, accepted, started, task>>
        /\ slot' = [slot EXCEPT ![c] = "lost"] /\ ~Accepted(c)
    BY <1>7, EnqueueFailsDoes DEF EnqueueFails, mailbox
  <2>2. \A x \in Calls : (Accepted(x)' <=> Accepted(x)) /\ (Started(x)' <=> Started(x))
    BY <2>1 DEF Accepted, Started
  <2>3. slot[c] \notin HandlerResults
    BY <2>1, MailboxKnown DEF CallInv
  <2>4. ASSUME NEW x \in Calls
        PROVE  /\ pc'[x] \in Early => ~Accepted(x)'
               /\ slot'[x] \in HandlerResults => Started(x)' /\ \A d \in Coroutines : task'[d] # x
               /\ terminal'[x] \in HandlerResults => slot'[x] = terminal'[x]
               /\ pc'[x] = "settling" => terminal'[x] # "none"
               /\ pc'[x] = "inline" => form'[x] = "inline"
    BY <2>1, <2>2, <2>3 DEF CallInv, HandlerResults, LocalTypeOK, given
  <2>5. TasksStarted'
    BY <2>1 DEF CallInv, TasksStarted
  <2> QED BY <2>4, <2>5 DEF CallInv
<1>8. ASSUME NEW d \in Coroutines, DrainStep(d) PROVE CallInv'
  <2>1. UNCHANGED <<given, pc, slot, terminal, accepted>>
    BY <1>8, DrainStepDoes
  <2>2. CASE UNCHANGED <<started, task>>
    BY <2>1, <2>2 DEF CallInv, TasksStarted, Started, Accepted, given
  <2>3. CASE \E t \in Calls :
               /\ task[d] = NoTask /\ task' = [task EXCEPT ![d] = t]
               /\ Accepted(t) /\ ~Started(t)
               /\ \A x \in Calls : Started(x)' <=> Started(x) \/ x = t
    <3> PICK t \in Calls :
               /\ task[d] = NoTask /\ task' = [task EXCEPT ![d] = t]
               /\ Accepted(t) /\ ~Started(t)
               /\ \A x \in Calls : Started(x)' <=> Started(x) \/ x = t
      BY <2>3
    <3>1. \A x \in Calls : Accepted(x)' <=> Accepted(x)
      BY <2>1 DEF Accepted
    <3>2. slot[t] \notin HandlerResults
      BY DEF CallInv
    <3>3. \A x \in Coroutines : task'[x] = IF x = d THEN t ELSE task[x]
      BY MailboxKnown
    <3>4. ASSUME NEW x \in Calls
          PROVE  slot'[x] \in HandlerResults => Started(x)' /\ \A e \in Coroutines : task'[e] # x
      BY <2>1, <3>2, <3>3 DEF CallInv
    <3>5. ASSUME NEW x \in Coroutines, task'[x] # NoTask
          PROVE  \E i \in 1..Len(started') : started'[i] = task'[x]
      <4>1. task'[x] \in Calls /\ (x = d => task'[x] = t) /\ (x # d => Started(task[x]) /\ task'[x] = task[x])
        BY <3>3, <3>5, MailboxKnown, SizesAssumption DEF CallInv, TasksStarted, Started
      <4>2. \A y \in Calls : y = t \/ Started(y) => \E i \in 1..Len(started') : started'[i] = y
        BY DEF Started
      <4> QED BY <4>1, <4>2
    <3>6. TasksStarted'
      BY <3>5 DEF TasksStarted
    <3> QED BY <2>1, <3>1, <3>4, <3>6 DEF CallInv, given
  <2> QED BY <1>8, <2>2, <2>3, DrainStepDoes
<1>9. ASSUME NEW d \in Coroutines, HandlerEnds(d) PROVE CallInv'
  <2>1. /\ UNCHANGED <<accepted, started, given, pc, terminal>>
        /\ task[d] \in Calls /\ task' = [task EXCEPT ![d] = NoTask]
        /\ \A x \in Coroutines : x # d => task[x] = NoTask
    BY <1>9, HandlerEndsDoes
  <2>2. PICK r \in HandlerResults \cup {"none"} : slot' = [slot EXCEPT ![task[d]] = r]
    BY <1>9, HandlerEndsDoes
  <2>3. \A x \in Calls : (Accepted(x)' <=> Accepted(x)) /\ (Started(x)' <=> Started(x))
    BY <2>1 DEF Accepted, Started
  <2>4. \A x \in Coroutines : task'[x] = NoTask
    BY <2>1, MailboxKnown
  <2>5. slot[task[d]] \notin HandlerResults /\ Started(task[d])
    BY <2>1, SizesAssumption DEF CallInv, TasksStarted, Started
  <2>6. \A x \in Calls : x # task[d] => slot'[x] = slot[x]
    BY <2>2 DEF LocalTypeOK
  <2>7. ASSUME NEW x \in Calls
        PROVE  /\ slot'[x] \in HandlerResults => Started(x)'
               /\ terminal'[x] \in HandlerResults => slot'[x] = terminal'[x]
    <3>1. CASE x = task[d]
      <4>1. terminal[x] \notin HandlerResults
        BY <2>5, <3>1 DEF CallInv
      <4> QED BY <2>1, <2>3, <2>5, <3>1, <4>1
    <3>2. CASE x # task[d]
      BY <2>1, <2>3, <2>6, <3>2 DEF CallInv
    <3> QED BY <3>1, <3>2
  <2>8. \A x \in Calls : x # NoTask
    BY SizesAssumption
  <2> QED BY <2>1, <2>3, <2>4, <2>7, <2>8 DEF CallInv, TasksStarted, given
<1>10. CASE UNCHANGED vars
  BY <1>10 DEF vars, mailbox, given, CallInv, TasksStarted, Accepted, Started
<1> QED BY <1>2, <1>3, <1>4, <1>5, <1>6, <1>7, <1>8, <1>9, <1>10 DEF Next, Serve

\* A step that admits nothing and settles nothing leaves the holders of the
\* sequences as they were.
LEMMA HolderFrame ==
  ASSUME HolderInv, ordered' = ordered, UNCHANGED <<log, issued, inFlight>>,
         \A x \in Calls : Holds(x)' => Holds(x),
         \A x \in Calls : (pc[x] \in Behind)' => pc[x] \in Behind
  PROVE  HolderInv'
<1> SUFFICES ASSUME ordered' PROVE HolderInv'
  BY DEF HolderInv
<1>1. ordered /\ Log' = Log
  BY DEF Log
<1>2. ASSUME NEW x \in Calls, Holds(x)' PROVE x.seq \in 1..Len(Log) /\ Log[x.seq] = x.content
  BY <1>1, <1>2 DEF HolderInv
<1>3. ASSUME NEW x \in Calls, NEW y \in Calls, Holds(x)', Holds(y)', x.seq = y.seq PROVE x = y
  BY <1>1, <1>3 DEF HolderInv
<1>4. ASSUME NEW x \in Calls, (pc[x] \in Behind)'
      PROVE  Ticket(x) \in issued /\ Key(x) \in DOMAIN inFlight
  BY <1>1, <1>4 DEF HolderInv
<1> QED BY <1>1, <1>2, <1>3, <1>4 DEF HolderInv, Ticket, Key

LEMMA HolderStep ==
  ASSUME LocalTypeOK, IngressInv, MailboxInv, CallInv, HolderInv, [Next]_vars
  PROVE  HolderInv'
<1>1. ordered' = ordered
  BY GivenStep DEF given
<1>2. ASSUME NEW c \in Calls, NEW to, pc' = [pc EXCEPT ![c] = to],
             to \in Behind => pc[c] \in Behind \/ ~ordered,
             \A x \in Calls : Accepted(x)' => Accepted(x) \/ (x = c /\ pc[c] \in Behind),
             UNCHANGED <<log, issued, inFlight>>
      PROVE  HolderInv'
  <2>1. CASE ~ordered
    BY <1>1, <2>1 DEF HolderInv
  <2>2. CASE ordered
    <3>1. \A x \in Calls : (pc[x] \in Behind)' => pc[x] \in Behind
      BY <1>2, <2>2 DEF LocalTypeOK
    <3>2. \A x \in Calls : Holds(x)' => Holds(x)
      BY <1>2, <3>1 DEF Holds
    <3> QED BY <1>1, <1>2, <3>1, <3>2, HolderFrame
  <2> QED BY <2>1, <2>2
<1>3. ASSUME UNCHANGED mailbox PROVE \A x \in Calls : Accepted(x)' => Accepted(x)
  BY <1>3 DEF mailbox, Accepted
<1>4. ASSUME NEW c \in Calls,
             \/ RefuseRequest(c) \/ RefuseEnvelope(c) \/ Arrive(c) \/ Expire(c) \/ KeyFails(c)
             \/ SkipAdmit(c) \/ RunInline(c) \/ InlineEnds(c) \/ Activate(c) \/ ActivationFails(c)
             \/ WaitRefused(c) \/ Notified(c) \/ WaitInterrupted(c) \/ Leave(c)
      PROVE  HolderInv'
  <2>1. UNCHANGED <<ingress, mailbox>>
    BY <1>4 DEF RefuseRequest, RefuseEnvelope, Arrive, Expire, KeyFails, SkipAdmit, RunInline, InlineEnds,
                Activate, ActivationFails, WaitRefused, Notified, WaitInterrupted, Leave
  <2>2. \E to : pc' = [pc EXCEPT ![c] = to] /\ (to \in Behind => pc[c] \in Behind \/ ~ordered)
    BY <1>4 DEF RefuseRequest, RefuseEnvelope, Arrive, Expire, KeyFails, SkipAdmit, RunInline, InlineEnds,
                Activate, ActivationFails, WaitRefused, Notified, WaitInterrupted, Leave, Goto, Behind
  <2> QED BY <1>2, <1>3, <2>1, <2>2 DEF ingress
<1>5. ASSUME NEW c \in Calls, Enqueue(c) PROVE HolderInv'
  <2>1. /\ pc[c] = "ready" /\ pc' = [pc EXCEPT ![c] = "waiting"] /\ UNCHANGED ingress
        /\ \A x \in Calls : Accepted(x)' <=> Accepted(x) \/ x = c
    BY <1>5, EnqueueDoes DEF Enqueue, Goto
  <2> QED BY <1>2, <2>1 DEF Behind, ingress
<1>6. ASSUME NEW c \in Calls, EnqueueFails(c) PROVE HolderInv'
  <2>1. /\ pc[c] = "ready" /\ pc' = [pc EXCEPT ![c] = "waiting"] /\ UNCHANGED <<ingress, mailbox>>
    BY <1>6, EnqueueFailsDoes DEF EnqueueFails, Goto
  <2> QED BY <1>2, <1>3, <2>1 DEF Behind, ingress
<1>7. ASSUME NEW d \in Coroutines, DrainStep(d) \/ HandlerEnds(d) PROVE HolderInv'
  <2>1. UNCHANGED <<ingress, pc, accepted>>
    BY <1>7, DrainStepDoes, HandlerEndsDoes
  <2> QED BY <1>1, <2>1, HolderFrame DEF ingress, Holds, Accepted
<1>8. CASE UNCHANGED vars
  BY <1>1, <1>8, HolderFrame DEF vars, ingress, mailbox, Holds, Accepted
<1>9. ASSUME NEW c \in Calls, AdmitCall(c) PROVE HolderInv'
  <2>1. ordered /\ pc[c] = "gate" /\ UNCHANGED mailbox
    BY <1>9, AdmitCallDoes
  <2>2. CASE /\ pc' = [pc EXCEPT ![c] = "leaving"]
             /\ UNCHANGED <<log, issued, inFlight>>
    BY <1>2, <1>3, <2>1, <2>2 DEF Behind
  <2>3. CASE /\ pc' = [pc EXCEPT ![c] = "admitted"]
             /\ c.seq = Len(Log) + 1 /\ Log' = Append(Log, c.content)
             /\ issued' = issued \cup {Ticket(c)}
             /\ DOMAIN inFlight' = DOMAIN inFlight \cup {Key(c)}
    <3>1. Log \in Seq(Contents) /\ c.content \in Contents
      BY IngressKnown, CallAssumption
    <3>2. /\ Len(Log') = Len(Log) + 1 /\ Log'[Len(Log) + 1] = c.content /\ Len(Log) \in Nat
          /\ \A i \in 1..Len(Log) : Log'[i] = Log[i]
      BY <2>3, <3>1
    <3>3. ASSUME NEW x \in Calls, x # c
          PROVE  /\ (pc[x] \in Behind)' => pc[x] \in Behind
                 /\ Holds(x)' => Holds(x)
      BY <1>3, <2>1, <2>3, <3>3 DEF LocalTypeOK, Holds
    <3>4. ASSUME NEW x \in Calls, Holds(x)', x # c
          PROVE  /\ x.seq \in 1..Len(Log) /\ Log[x.seq] = x.content
                 /\ x.seq # c.seq
      BY <2>1, <2>3, <3>2, <3>3, <3>4 DEF HolderInv
    <3>5. ASSUME NEW x \in Calls, Holds(x)' PROVE x.seq \in 1..Len(Log') /\ Log'[x.seq] = x.content
      BY <2>3, <3>2, <3>4, <3>5
    <3>6. ASSUME NEW x \in Calls, NEW y \in Calls, Holds(x)', Holds(y)', x.seq = y.seq PROVE x = y
      <4>1. CASE x # c /\ y # c
        BY <2>1, <3>3, <3>6, <4>1 DEF HolderInv
      <4> QED BY <3>4, <3>6, <4>1
    <3>7. ASSUME NEW x \in Calls, (pc[x] \in Behind)'
          PROVE  Ticket(x) \in issued' /\ Key(x) \in DOMAIN inFlight'
      BY <2>1, <2>3, <3>3, <3>7 DEF HolderInv
    <3> QED BY <3>5, <3>6, <3>7 DEF HolderInv, Ticket, Key
  <2> QED BY <1>9, <2>2, <2>3, AdmitCallDoes
<1>10. ASSUME NEW c \in Calls, Settle(c) PROVE HolderInv'
  <2>1. /\ pc[c] = "settling" /\ pc' = [pc EXCEPT ![c] = "leaving"]
        /\ UNCHANGED <<mailbox, log, issued>>
    BY <1>10, SettleDoes
  <2>2. CASE ~ordered
    BY <1>1, <2>2 DEF HolderInv
  <2>3. CASE ordered
    <3>1. DOMAIN inFlight' = DOMAIN inFlight \ {Key(c)} /\ Log' = Log
      BY <1>10, <2>1, <2>3, SettleDoes DEF Log
    <3>2. \A x \in Calls : (pc[x] \in Behind)' => pc[x] \in Behind /\ x # c
      BY <2>1 DEF LocalTypeOK, Behind
    <3>3. \A x \in Calls : Holds(x)' => Holds(x)
      BY <1>3, <2>1, <3>2 DEF Holds
    <3>4. ASSUME NEW x \in Calls, (pc[x] \in Behind)'
          PROVE  Ticket(x) \in issued' /\ Key(x) \in DOMAIN inFlight'
      <4>1. Holds(x) /\ Holds(c) /\ x # c
        BY <2>1, <3>2, <3>4 DEF Holds, Behind
      <4>2. x.seq # c.seq /\ Ticket(x) \in issued /\ Key(x) \in DOMAIN inFlight
        BY <2>3, <3>2, <3>4, <4>1 DEF HolderInv
      <4> QED BY <2>1, <3>1, <4>2 DEF Key
    <3>5. ASSUME NEW x \in Calls, Holds(x)' PROVE x.seq \in 1..Len(Log') /\ Log'[x.seq] = x.content
      BY <2>3, <3>1, <3>3, <3>5 DEF HolderInv
    <3>6. ASSUME NEW x \in Calls, NEW y \in Calls, Holds(x)', Holds(y)', x.seq = y.seq PROVE x = y
      BY <2>3, <3>3, <3>6 DEF HolderInv
    <3> QED BY <3>4, <3>5, <3>6 DEF HolderInv, Ticket, Key
  <2> QED BY <2>2, <2>3
<1> QED BY <1>4, <1>5, <1>6, <1>7, <1>8, <1>9, <1>10 DEF Next, Serve

\* What the invariant asks of the answer a call has been given.
Told(c) ==
  /\ reply[c] # "Unknown" /\ (pc[c] = "done" => reply[c] # "unsafe")
  /\ ordered /\ ServiceOf(c) = "actor" /\ reply[c] \in Outcomes =>
       /\ c.seq \in DOMAIN Outcome /\ reply[c] = Outcome[c.seq].outcome
       /\ Log[c.seq] = c.content

\* A step that completes no admission keeps the answers that were given.
LEMMA AnswerFrame ==
  ASSUME AnswerInv, UNCHANGED <<given, outcome>>,
         \A n \in DOMAIN Outcome : Log'[n] = Log[n],
         \A x \in Calls : slot[x] = "own" => slot'[x] = "own",
         \A x \in Calls : \/ reply'[x] = reply[x] /\ (pc'[x] = "done" => pc[x] = "done")
                          \/ Told(x)'
  PROVE  AnswerInv'
<1>1. /\ Outcome' = Outcome /\ ordered' = ordered
      /\ \A x \in Calls : ServiceOf(x)' = ServiceOf(x)
  BY DEF Outcome, given, ServiceOf
<1>2. ASSUME NEW x \in Calls PROVE Told(x)'
  BY <1>1, <1>2 DEF AnswerInv, Told
<1>3. ASSUME ordered, NEW n \in DOMAIN Outcome
      PROVE  /\ Outcome[n].outcome # "unsafe"
             /\ Outcome[n].outcome = "own" =>
                  \E d \in Calls : d.seq = n /\ d.content = Log'[n] /\ slot'[d] = "own"
  BY <1>3 DEF AnswerInv
<1> QED BY <1>1, <1>2, <1>3 DEF AnswerInv, Told

LEMMA AnswerStep ==
  ASSUME LocalTypeOK, IngressInv, MailboxInv, CallInv, HolderInv, AnswerInv, [Next]_vars
  PROVE  AnswerInv'
<1> USE GivenStep
<1>1. ASSUME UNCHANGED <<given, log, outcome, slot>>, NEW c \in Calls, NEW to, NEW r,
             pc' = [pc EXCEPT ![c] = to],
             \/ reply' = reply /\ to # "done"
             \/ /\ reply' = [reply EXCEPT ![c] = r] /\ r # "Unknown" /\ (to = "done" => r # "unsafe")
                /\ \/ r \notin Outcomes \/ form[c] = "inline" \/ r = reply[c]
                   \/ /\ c.seq \in DOMAIN Outcome /\ Log[c.seq] = c.content
                      /\ r = Outcome[c.seq].outcome
      PROVE  AnswerInv'
  <2>1. \A n \in DOMAIN Outcome : Log'[n] = Log[n]
    BY <1>1 DEF Log
  <2>2. \A x \in Calls : ServiceOf(x)' = ServiceOf(x)
    BY <1>1 DEF given, ServiceOf
  <2>3. ASSUME NEW x \in Calls, x # c PROVE reply'[x] = reply[x] /\ pc'[x] = pc[x]
    BY <1>1, <2>3 DEF LocalTypeOK
  <2>4. CASE reply' = reply /\ to # "done"
    BY <1>1, <2>1, <2>3, <2>4, AnswerFrame DEF LocalTypeOK
  <2>5. CASE /\ reply' = [reply EXCEPT ![c] = r] /\ r # "Unknown" /\ (to = "done" => r # "unsafe")
             /\ \/ r \notin Outcomes \/ form[c] = "inline" \/ r = reply[c]
                \/ /\ c.seq \in DOMAIN Outcome /\ Log[c.seq] = c.content
                   /\ r = Outcome[c.seq].outcome
    <3>1. reply'[c] = r /\ pc'[c] = to /\ Log' = Log /\ Outcome' = Outcome /\ ordered' = ordered
      BY <1>1, <2>5 DEF LocalTypeOK, Log, Outcome, given
    <3>2. ordered /\ ServiceOf(c) = "actor" /\ r \in Outcomes =>
            c.seq \in DOMAIN Outcome /\ r = Outcome[c.seq].outcome /\ Log[c.seq] = c.content
      BY <2>5 DEF ServiceOf, AnswerInv
    <3>3. Told(c)'
      BY <2>2, <2>5, <3>1, <3>2 DEF Told
    <3> QED BY <1>1, <2>1, <2>3, <3>3, AnswerFrame
  <2> QED BY <1>1, <2>4, <2>5
<1>2. ASSUME NEW c \in Calls,
             \/ RefuseRequest(c) \/ RefuseEnvelope(c) \/ Arrive(c) \/ Expire(c) \/ KeyFails(c)
      PROVE  AnswerInv'
  <2>1. UNCHANGED <<given, log, outcome, slot>>
    BY <1>2 DEF RefuseRequest, RefuseEnvelope, Arrive, Expire, KeyFails, ingress
  <2>2. form[c] \in BadForms \ {"headless"} => EnvelopeError(c) \in {"Invalid", "NotFound", "TypeMismatch"}
    BY DEF EnvelopeError, BadForms
  <2>3. CASE RefuseEnvelope(c)
    <3>1. /\ pc' = [pc EXCEPT ![c] = "done"] /\ reply' = [reply EXCEPT ![c] = EnvelopeError(c)]
          /\ EnvelopeError(c) \in {"Invalid", "NotFound", "TypeMismatch"}
      BY <2>2, <2>3 DEF RefuseEnvelope, Goto, Return
    <3> QED BY <1>1, <2>1, <3>1 DEF Outcomes
  <2>4. CASE RefuseRequest(c)
    <3>1. /\ pc' = [pc EXCEPT ![c] = "done"] /\ reply' = [reply EXCEPT ![c] = "Headless"]
      BY <2>4 DEF RefuseRequest, Goto, Return, ToHttpResponse, Safe
    <3>2. "Headless" \notin Outcomes /\ "Headless" # "Unknown"
      BY DEF Outcomes
    <3> QED BY <1>1, <2>1, <3>1, <3>2
  <2>5. CASE Arrive(c) \/ Expire(c) \/ KeyFails(c)
    <3>1. \/ pc' = [pc EXCEPT ![c] = "gate"] /\ reply' = reply
          \/ /\ pc' = [pc EXCEPT ![c] = "leaving"]
             /\ \E r \in {"Overloaded", "Late", "Keyless"} : reply' = [reply EXCEPT ![c] = r]
      BY <2>5 DEF Arrive, Expire, KeyFails, Goto, Return
    <3>2. CASE pc' = [pc EXCEPT ![c] = "gate"] /\ reply' = reply
      BY <1>1, <2>1, <3>2
    <3>3. CASE /\ pc' = [pc EXCEPT ![c] = "leaving"]
               /\ \E r \in {"Overloaded", "Late", "Keyless"} : reply' = [reply EXCEPT ![c] = r]
      <4>1. PICK r \in {"Overloaded", "Late", "Keyless"} : reply' = [reply EXCEPT ![c] = r]
        BY <3>3
      <4>2. r \notin Outcomes /\ r # "Unknown"
        BY DEF Outcomes
      <4> QED BY <1>1, <2>1, <3>3, <4>1, <4>2
    <3> QED BY <3>1, <3>2, <3>3
  <2> QED BY <1>2, <2>3, <2>4, <2>5
<1>3. ASSUME NEW c \in Calls,
             \/ SkipAdmit(c) \/ RunInline(c) \/ Activate(c) \/ ActivationFails(c) \/ WaitRefused(c)
             \/ Notified(c) \/ WaitInterrupted(c) \/ Enqueue(c)
      PROVE  AnswerInv'
  <2>1. /\ UNCHANGED <<given, log, outcome, slot>> /\ reply' = reply
        /\ \E to \in {"admitted", "inline", "ready", "settling", "waiting"} : pc' = [pc EXCEPT ![c] = to]
    BY <1>3 DEF SkipAdmit, RunInline, Activate, ActivationFails, WaitRefused, Notified, WaitInterrupted,
                Enqueue, Goto, ingress
  <2> QED BY <1>1, <2>1
<1>4. ASSUME NEW c \in Calls, InlineEnds(c) PROVE AnswerInv'
  <2>1. /\ UNCHANGED <<given, log, outcome, slot>> /\ pc' = [pc EXCEPT ![c] = "leaving"]
        /\ pc[c] = "inline" /\ \E r \in HandlerResults : reply' = [reply EXCEPT ![c] = r]
    BY <1>4 DEF InlineEnds, Goto, Return, ingress
  <2>2. form[c] = "inline"
    BY <2>1 DEF CallInv
  <2> QED BY <1>1, <2>1, <2>2 DEF HandlerResults
<1>5. ASSUME NEW c \in Calls, Leave(c) PROVE AnswerInv'
  <2>1. /\ UNCHANGED <<given, log, outcome, slot>> /\ pc' = [pc EXCEPT ![c] = "done"]
        /\ reply' = [reply EXCEPT ![c] = Safe(reply[c])]
    BY <1>5 DEF Leave, Goto, Return, Bridged, ingress
  <2>2. Safe(reply[c]) # "Unknown" /\ Safe(reply[c]) # "unsafe"
    BY DEF Safe, AnswerInv
  <2>3. CASE reply[c] # "unsafe"
    <3>1. Safe(reply[c]) = reply[c]
      BY <2>3 DEF Safe
    <3> QED BY <1>1, <2>1, <2>2, <3>1
  <2>4. CASE reply[c] = "unsafe"
    <3>1. ~(ordered /\ ServiceOf(c) = "actor")
      BY <2>4 DEF AnswerInv, Outcomes
    <3>2. ~(ordered' /\ ServiceOf(c)' = "actor")
      BY <2>1, <3>1 DEF given, ServiceOf
    <3>3. Told(c)'
      BY <2>1, <2>2, <3>2 DEF Told, LocalTypeOK
    <3>4. \A x \in Calls : x # c => reply'[x] = reply[x] /\ pc'[x] = pc[x]
      BY <2>1 DEF LocalTypeOK
    <3>5. \A n \in DOMAIN Outcome : Log'[n] = Log[n]
      BY <2>1 DEF Log
    <3> QED BY <2>1, <3>3, <3>4, <3>5, AnswerFrame
  <2> QED BY <2>3, <2>4
<1>6. ASSUME NEW c \in Calls, EnqueueFails(c) PROVE AnswerInv'
  <2>1. /\ UNCHANGED <<given, log, outcome>> /\ pc[c] = "ready" /\ pc' = [pc EXCEPT ![c] = "waiting"]
        /\ reply' = reply /\ slot' = [slot EXCEPT ![c] = "lost"]
    BY <1>6 DEF EnqueueFails, Goto, ingress
  <2>2. slot[c] # "own"
    BY <2>1, MailboxKnown DEF CallInv, Early, HandlerResults
  <2>3. /\ \A x \in Calls : slot[x] = "own" => slot'[x] = "own"
        /\ \A x \in Calls : reply'[x] = reply[x] /\ (pc'[x] = "done" => pc[x] = "done")
        /\ \A n \in DOMAIN Outcome : Log'[n] = Log[n]
    BY <2>1, <2>2 DEF LocalTypeOK, Log
  <2> QED BY <2>1, <2>3, AnswerFrame
<1>7. ASSUME NEW d \in Coroutines, DrainStep(d) PROVE AnswerInv'
  <2>1. UNCHANGED <<given, log, outcome, slot, pc, reply>>
    BY <1>7, DrainStepDoes DEF ingress
  <2>2. \A n \in DOMAIN Outcome : Log'[n] = Log[n]
    BY <2>1 DEF Log
  <2> QED BY <2>1, <2>2, AnswerFrame
<1>8. ASSUME NEW d \in Coroutines, HandlerEnds(d) PROVE AnswerInv'
  <2>1. UNCHANGED <<given, log, outcome, pc, reply>> /\ task[d] \in Calls
    BY <1>8, HandlerEndsDoes DEF ingress
  <2>2. PICK r : slot' = [slot EXCEPT ![task[d]] = r]
    BY <1>8, HandlerEndsDoes
  <2>3. slot[task[d]] # "own"
    BY <2>1 DEF CallInv, HandlerResults
  <2>4. /\ \A x \in Calls : slot[x] = "own" => slot'[x] = "own"
        /\ \A n \in DOMAIN Outcome : Log'[n] = Log[n]
    BY <2>1, <2>2, <2>3 DEF LocalTypeOK, Log
  <2> QED BY <2>1, <2>4, AnswerFrame
<1>9. CASE UNCHANGED vars
  <2>1. \A n \in DOMAIN Outcome : Log'[n] = Log[n]
    BY <1>9 DEF Log, vars, ingress
  <2> QED BY <1>9, <2>1, AnswerFrame DEF vars, ingress
<1>10. ASSUME NEW c \in Calls, AdmitCall(c) PROVE AnswerInv'
  <2>1. UNCHANGED <<given, outcome, slot>>
    BY <1>10, AdmitCallDoes
  <2>2. CASE /\ pc' = [pc EXCEPT ![c] = "admitted"] /\ reply' = reply
             /\ c.seq = Len(Log) + 1 /\ Log' = Append(Log, c.content)
    <3>1. \A n \in DOMAIN Outcome : Log'[n] = Log[n]
      BY <2>2, IngressKnown, CallAssumption
    <3>2. \A x \in Calls : reply'[x] = reply[x] /\ (pc'[x] = "done" => pc[x] = "done")
      BY <2>2 DEF LocalTypeOK
    <3> QED BY <2>1, <3>1, <3>2, AnswerFrame
  <2>3. CASE /\ pc' = [pc EXCEPT ![c] = "leaving"]
             /\ UNCHANGED <<log, issued, inFlight>>
             /\ \E r : /\ reply' = [reply EXCEPT ![c] = r]
                       /\ \/ r \in AdmitRefusals
                          \/ /\ r \in {"own", "lost"} /\ c.seq \in DOMAIN Outcome
                             /\ Log[c.seq] = c.content /\ r = Outcome[c.seq].outcome
    <3>1. PICK r : /\ reply' = [reply EXCEPT ![c] = r]
                   /\ \/ r \in AdmitRefusals
                      \/ /\ r \in {"own", "lost"} /\ c.seq \in DOMAIN Outcome
                         /\ Log[c.seq] = c.content /\ r = Outcome[c.seq].outcome
      BY <2>3
    <3>2. r \in AdmitRefusals => r \notin Outcomes /\ r # "Unknown"
      BY DEF AdmitRefusals, Outcomes
    <3> QED BY <1>1, <2>1, <2>3, <3>1, <3>2
  <2> QED BY <1>10, <2>2, <2>3, AdmitCallDoes
<1>11. ASSUME NEW c \in Calls, Settle(c) PROVE AnswerInv'
  <2>1. /\ UNCHANGED <<given, slot, log>> /\ pc[c] = "settling" /\ pc' = [pc EXCEPT ![c] = "leaving"]
    BY <1>11, SettleDoes
  <2>2. PICK o \in {"own", "lost"} :
              /\ reply' = [reply EXCEPT ![c] = o]
              /\ o = "own" => slot[c] = "own"
              /\ IF ordered
                 THEN /\ DOMAIN inFlight' = DOMAIN inFlight \ {Key(c)}
                      /\ DOMAIN Outcome' = DOMAIN Outcome \cup {c.seq} /\ c.seq \notin DOMAIN Outcome
                      /\ Outcome'[c.seq].outcome = o
                      /\ \A n \in DOMAIN Outcome : Outcome'[n] = Outcome[n]
                 ELSE UNCHANGED ingress
    BY <1>11, SettleDoes
  <2>3. /\ Log' = Log /\ ordered' = ordered /\ form' = form
        /\ \A x \in Calls : ServiceOf(x)' = ServiceOf(x)
        /\ \A x \in Calls : reply'[x] = (IF x = c THEN o ELSE reply[x])
                            /\ (pc'[x] = "done" => pc[x] = "done" /\ x # c)
    BY <2>1, <2>2 DEF given, ServiceOf, LocalTypeOK, Log
  <2>4. \A x \in Calls : reply'[x] # "Unknown" /\ (pc'[x] = "done" => reply'[x] # "unsafe")
    BY <2>3 DEF AnswerInv
  <2>5. CASE ~ordered
    BY <2>3, <2>4, <2>5 DEF AnswerInv
  <2>6. CASE ordered
    <3>1. Log[c.seq] = c.content
      BY <2>1, <2>6 DEF HolderInv, Holds, Behind
    <3>2. ASSUME NEW x \in Calls, ServiceOf(x) = "actor", reply'[x] \in Outcomes
          PROVE  /\ x.seq \in DOMAIN Outcome' /\ reply'[x] = Outcome'[x.seq].outcome
                 /\ Log[x.seq] = x.content
      BY <2>2, <2>3, <2>6, <3>1, <3>2 DEF AnswerInv
    <3>3. ASSUME NEW n \in DOMAIN Outcome'
          PROVE  /\ Outcome'[n].outcome # "unsafe"
                 /\ Outcome'[n].outcome = "own" =>
                      \E d \in Calls : d.seq = n /\ d.content = Log[n] /\ slot[d] = "own"
      <4>1. CASE n = c.seq
        BY <2>2, <2>6, <3>1, <4>1
      <4>2. CASE n # c.seq
        BY <2>2, <2>6, <3>3, <4>2 DEF AnswerInv
      <4> QED BY <4>1, <4>2
    <3> QED BY <2>1, <2>3, <2>4, <2>6, <3>2, <3>3 DEF AnswerInv
  <2> QED BY <2>5, <2>6
<1> QED BY <1>2, <1>3, <1>4, <1>5, <1>6, <1>7, <1>8, <1>9, <1>10, <1>11 DEF Next, Serve

\* The request context of a task is bound with the task and gone with it.
LEMMA ScopeStep ==
  ASSUME LocalTypeOK, IngressInv, MailboxInv, CallInv, HolderInv, ScopeInv, [Next]_vars
  PROVE  ScopeInv'
<1>1. ASSUME UNCHANGED <<scopes, task>> PROVE ScopeInv'
  BY <1>1 DEF ScopeInv
<1>2. ASSUME NEW c \in Calls,
             \/ RefuseRequest(c) \/ RefuseEnvelope(c) \/ Arrive(c) \/ Expire(c) \/ KeyFails(c)
             \/ SkipAdmit(c) \/ Activate(c) \/ ActivationFails(c) \/ WaitRefused(c) \/ Notified(c)
             \/ WaitInterrupted(c) \/ Leave(c)
      PROVE  UNCHANGED <<scopes, task>>
  BY <1>2 DEF RefuseRequest, RefuseEnvelope, Arrive, Expire, KeyFails, SkipAdmit, Activate, ActivationFails,
              WaitRefused, Notified, WaitInterrupted, Leave, mailbox
<1>3. ASSUME NEW c \in Calls, Enqueue(c) \/ EnqueueFails(c) \/ AdmitCall(c) \/ Settle(c)
      PROVE  UNCHANGED <<scopes, task>>
  BY <1>3, EnqueueDoes, EnqueueFailsDoes, AdmitCallDoes, SettleDoes DEF Enqueue, EnqueueFails, mailbox
<1>4. ASSUME NEW c \in Calls, RunInline(c) \/ InlineEnds(c) PROVE ScopeInv'
  <2>1. c \notin Coroutines /\ scopes \in [Coroutines \cup Calls -> Seq(Calls)] /\ scopes[c] \in Seq(Calls)
    BY CoroutinesAssumption DEF ScopeInv
  <2>2. task' = task
    BY <1>4 DEF RunInline, InlineEnds, mailbox
  <2>3. \E s \in Seq(Calls) : scopes' = [scopes EXCEPT ![c] = s]
    <3>1. CASE RunInline(c)
      <4>1. Append(scopes[c], c) \in Seq(Calls)
        BY <2>1
      <4> QED BY <3>1, <4>1 DEF RunInline, Bound
    <3>2. CASE InlineEnds(c)
      <4>1. SubSeq(scopes[c], 1, Len(scopes[c]) - 1) \in Seq(Calls)
        BY <2>1
      <4> QED BY <3>2, <4>1 DEF InlineEnds, Unbound
    <3> QED BY <1>4, <3>1, <3>2
  <2> QED BY <2>1, <2>2, <2>3 DEF ScopeInv
<1>5. ASSUME NEW d \in Coroutines, DrainStep(d) PROVE ScopeInv'
  <2>1. CASE UNCHANGED <<started, task, scopes>>
    BY <1>1, <2>1
  <2>2. ASSUME NEW t \in Calls, task[d] = NoTask, task' = [task EXCEPT ![d] = t], Bound(d, task'[d])
        PROVE  ScopeInv'
    <3>1. task \in [Coroutines -> Calls \cup {NoTask}] /\ t # NoTask
      BY MailboxKnown, SizesAssumption
    <3>2. scopes[d] = <<>> /\ task'[d] = t /\ Append(<<>>, t) = <<t>>
      BY <2>2, <3>1 DEF ScopeInv
    <3>3. scopes' = [scopes EXCEPT ![d] = <<t>>]
      BY <2>2, <3>2 DEF Bound
    <3> QED BY <2>2, <3>1, <3>3 DEF ScopeInv
  <2> QED BY <1>5, <2>1, <2>2, DrainStepDoes
<1>6. ASSUME NEW d \in Coroutines, HandlerEnds(d) PROVE ScopeInv'
  <2>1. task[d] \in Calls /\ task' = [task EXCEPT ![d] = NoTask] /\ Unbound(d)
    BY <1>6, HandlerEndsDoes
  <2>2. scopes[d] = <<task[d]>> /\ task \in [Coroutines -> Calls \cup {NoTask}]
    BY <2>1, MailboxKnown, SizesAssumption DEF ScopeInv
  <2>3. SubSeq(<<task[d]>>, 1, Len(<<task[d]>>) - 1) = <<>>
    OBVIOUS
  <2>4. scopes' = [scopes EXCEPT ![d] = <<>>]
    BY <2>1, <2>2, <2>3 DEF Unbound
  <2> QED BY <2>1, <2>2, <2>4 DEF ScopeInv
<1>7. CASE UNCHANGED vars
  BY <1>1, <1>7 DEF vars, mailbox
<1> QED BY <1>1, <1>2, <1>3, <1>4, <1>5, <1>6, <1>7 DEF Next, Serve

\* The counters: a call that stays where it is counted changes none.
LEMMA CountFrame ==
  ASSUME CountInv, UNCHANGED <<form, inflight>>,
         \A x \in Calls : Inside(x)' => Inside(x),
         \A x \in Calls : (Inside(x) \/ pc[x] = "leaving")' <=> (Inside(x) \/ pc[x] = "leaving")
  PROVE  CountInv'
<1>1. \A x \in Calls : ServiceOf(x)' = ServiceOf(x)
  BY DEF ServiceOf
<1>2. ASSUME NEW v \in Services
      PROVE  inflight'[v] = Cardinality(Counted(v)') /\ Cardinality(Present(v)') <= MaxInflight
  <2>1. Counted(v)' = Counted(v)
    BY <1>1 DEF Counted
  <2>2. Present(v)' \subseteq Present(v)
    BY <1>1 DEF Present
  <2>3. IsFiniteSet(Present(v))
    BY SizesAssumption, FS_Subset DEF Present
  <2>4. /\ Cardinality(Present(v)') <= Cardinality(Present(v))
        /\ Cardinality(Present(v)') \in Nat /\ Cardinality(Present(v)) \in Nat
    BY <2>2, <2>3, FS_Subset, FS_CardinalityType
  <2> QED BY <2>1, <2>4, CallAssumption DEF CountInv
<1> QED BY <1>2 DEF CountInv

LEMMA CountStep ==
  ASSUME LocalTypeOK, IngressInv, MailboxInv, CallInv, HolderInv, CountInv, [Next]_vars
  PROVE  CountInv'
<1> DEFINE Inner == {"gate", "inline", "admitted", "ready", "waiting", "settling"}
<1>1. form' = form /\ \A x \in Calls : ServiceOf(x)' = ServiceOf(x)
  BY GivenStep DEF given, ServiceOf
<1>2. ASSUME NEW c \in Calls, NEW to, inflight' = inflight, pc' = [pc EXCEPT ![c] = to],
             \/ pc[c] \in Inner /\ (to \in Inner \/ to = "leaving")
             \/ pc[c] = "new" /\ to = "done"
      PROVE  CountInv'
  <2>1. /\ \A x \in Calls : Inside(x)' => Inside(x)
        /\ \A x \in Calls : (Inside(x) \/ pc[x] = "leaving")' <=> (Inside(x) \/ pc[x] = "leaving")
    BY <1>2 DEF Inside, LocalTypeOK
  <2> QED BY <1>1, <1>2, <2>1, CountFrame
<1>3. ASSUME NEW c \in Calls,
             \/ RefuseRequest(c) \/ RefuseEnvelope(c) \/ Expire(c) \/ KeyFails(c) \/ SkipAdmit(c)
             \/ RunInline(c) \/ InlineEnds(c) \/ Activate(c) \/ ActivationFails(c) \/ WaitRefused(c)
             \/ Notified(c) \/ WaitInterrupted(c) \/ Enqueue(c) \/ EnqueueFails(c)
      PROVE  CountInv'
  <2>1. inflight' = inflight
    BY <1>3 DEF RefuseRequest, RefuseEnvelope, Expire, KeyFails, SkipAdmit, RunInline, InlineEnds, Activate,
                ActivationFails, WaitRefused, Notified, WaitInterrupted, Enqueue, EnqueueFails
  <2>2. \E to : /\ pc' = [pc EXCEPT ![c] = to]
                /\ \/ pc[c] \in Inner /\ (to \in Inner \/ to = "leaving")
                   \/ pc[c] = "new" /\ to = "done"
    BY <1>3 DEF RefuseRequest, RefuseEnvelope, Expire, KeyFails, SkipAdmit, RunInline, InlineEnds, Activate,
                ActivationFails, WaitRefused, Notified, WaitInterrupted, Enqueue, EnqueueFails, Goto
  <2> QED BY <1>2, <2>1, <2>2
<1>4. ASSUME NEW c \in Calls, AdmitCall(c) PROVE CountInv'
  <2>1. /\ inflight' = inflight /\ pc[c] = "gate"
        /\ pc' = [pc EXCEPT ![c] = "admitted"] \/ pc' = [pc EXCEPT ![c] = "leaving"]
    BY <1>4, AdmitCallDoes
  <2> QED BY <1>2, <2>1
<1>5. ASSUME NEW c \in Calls, Settle(c) PROVE CountInv'
  <2>1. inflight' = inflight /\ pc[c] = "settling" /\ pc' = [pc EXCEPT ![c] = "leaving"]
    BY <1>5, SettleDoes
  <2> QED BY <1>2, <2>1
<1>6. ASSUME UNCHANGED <<pc, inflight>> PROVE CountInv'
  BY <1>1, <1>6, CountFrame DEF Inside
<1>7. ASSUME NEW d \in Coroutines, DrainStep(d) \/ HandlerEnds(d) PROVE CountInv'
  BY <1>6, <1>7, DrainStepDoes, HandlerEndsDoes
<1>8. CASE UNCHANGED vars
  BY <1>6, <1>8 DEF vars
<1>9. \A v : /\ IsFiniteSet(Counted(v)) /\ IsFiniteSet(Present(v))
             /\ Cardinality(Counted(v)) \in Nat /\ Cardinality(Present(v)) \in Nat
             /\ Cardinality(Present(v)) <= Cardinality(Counted(v))
  <2>1. \A v : Counted(v) \subseteq Calls /\ Present(v) \subseteq Calls /\ Present(v) \subseteq Counted(v)
    BY DEF Counted, Present
  <2> QED BY <2>1, SizesAssumption, FS_Subset, FS_CardinalityType
<1>10. \A c \in Calls : ServiceOf(c) \in Services
  BY DEF ServiceOf, Services
<1>11. ASSUME NEW c \in Calls, Arrive(c) PROVE CountInv'
  <2> PICK w \in Services : w = ServiceOf(c)
    BY <1>10
  <2>1. /\ pc[c] = "new" /\ inflight' = [inflight EXCEPT ![w] = @ + 1]
        /\ \/ inflight[w] < MaxInflight /\ pc' = [pc EXCEPT ![c] = "gate"]
           \/ pc' = [pc EXCEPT ![c] = "leaving"]
    BY <1>11 DEF Arrive, HasRoom
  <2>2. Counted(w)' = Counted(w) \cup {c} /\ c \notin Counted(w)
    BY <1>1, <2>1 DEF Counted, Inside, LocalTypeOK
  <2>3. \A v \in Services \ {w} : Counted(v)' = Counted(v) /\ Present(v)' = Present(v)
    BY <1>1, <2>1 DEF Counted, Present, Inside, LocalTypeOK
  <2>4. \/ inflight[w] < MaxInflight /\ Present(w)' = Present(w) \cup {c} /\ c \notin Present(w)
        \/ Present(w)' = Present(w)
    BY <1>1, <2>1 DEF Present, Inside, LocalTypeOK
  <2>5. inflight'[w] = inflight[w] + 1 /\ \A v \in Services \ {w} : inflight'[v] = inflight[v]
    BY <2>1 DEF CountInv
  <2>6. Cardinality(Counted(w)') = Cardinality(Counted(w)) + 1
    BY <1>9, <2>2, FS_AddElement
  <2>7. Cardinality(Present(w)') <= MaxInflight
    <3>1. CASE inflight[w] < MaxInflight /\ Present(w)' = Present(w) \cup {c} /\ c \notin Present(w)
      <4>1. Cardinality(Present(w)') = Cardinality(Present(w)) + 1
        BY <1>9, <3>1, FS_AddElement
      <4>2. inflight[w] = Cardinality(Counted(w))
        BY <2>1 DEF CountInv
      <4> QED BY <1>9, <3>1, <4>1, <4>2, CallAssumption
    <3> QED BY <2>1, <2>4, <3>1 DEF CountInv
  <2>8. inflight' \in [Services -> Nat]
    BY <2>1 DEF CountInv
  <2>9. ASSUME NEW v \in Services
        PROVE  inflight'[v] = Cardinality(Counted(v)') /\ Cardinality(Present(v)') <= MaxInflight
    <3>1. CASE v = w
      BY <2>1, <2>5, <2>6, <2>7, <3>1 DEF CountInv
    <3>2. CASE v # w
      BY <2>3, <2>5, <3>2 DEF CountInv
    <3> QED BY <3>1, <3>2
  <2> QED BY <2>8, <2>9 DEF CountInv
<1>12. ASSUME NEW c \in Calls, Leave(c) PROVE CountInv'
  <2> PICK w \in Services : w = ServiceOf(c)
    BY <1>10
  <2>1. /\ pc[c] = "leaving" /\ inflight' = [inflight EXCEPT ![w] = @ - 1]
        /\ pc' = [pc EXCEPT ![c] = "done"]
    BY <1>12 DEF Leave, Goto
  <2>2. Counted(w)' = Counted(w) \ {c} /\ c \in Counted(w)
    BY <1>1, <2>1 DEF Counted, Inside, LocalTypeOK
  <2>3. \A v \in Services \ {w} : Counted(v)' = Counted(v)
    BY <1>1, <2>1 DEF Counted, Inside, LocalTypeOK
  <2>4. \A v \in Services : Present(v)' = Present(v)
    BY <1>1, <2>1 DEF Present, Inside, LocalTypeOK
  <2>5. inflight'[w] = inflight[w] - 1 /\ \A v \in Services \ {w} : inflight'[v] = inflight[v]
    BY <2>1 DEF CountInv
  <2>6. Cardinality(Counted(w)') = Cardinality(Counted(w)) - 1
    BY <1>9, <2>2, FS_RemoveElement
  <2>7. Cardinality(Counted(w)') \in Nat
    <3>1. IsFiniteSet(Counted(w)')
      BY <1>9, <2>2, FS_RemoveElement
    <3> QED BY <3>1, FS_CardinalityType
  <2>8. \A v \in Services : inflight'[v] = Cardinality(Counted(v)')
    BY <2>1, <2>3, <2>5, <2>6 DEF CountInv
  <2>9. inflight' \in [Services -> Nat]
    BY <1>9, <2>1, <2>6, <2>7, <2>5 DEF CountInv
  <2> QED BY <2>4, <2>8, <2>9 DEF CountInv
<1> QED BY <1>3, <1>4, <1>5, <1>7, <1>8, <1>11, <1>12 DEF Next, Serve

-----------------------------------------------------------------------------
(* The dispatcher before the first call, and the theorems.                 *)

LEMMA DInitInv == Init => DInv
<1> SUFFICES ASSUME Init PROVE DInv
  OBVIOUS
<1> USE DEF Init
<1>1. IngressInv /\ MailboxInv
  BY IngressInit, MailboxInit
<1>2. LocalTypeOK
  BY CallAssumption DEF LocalTypeOK, Places
<1>3. started = <<>> /\ accepted = <<>> /\ task = [d \in Coroutines |-> NoTask]
  BY DEF M!Init
<1>4. \A c \in Calls : ~Accepted(c)
  BY <1>3 DEF Accepted
<1>5. CallInv
  BY <1>3, <1>4 DEF CallInv, TasksStarted, HandlerResults
<1>6. HolderInv
  BY <1>4 DEF HolderInv, Holds, Behind
<1>7. AnswerInv
  <2>1. DOMAIN Outcome = {}
    BY DEF Outcome, I!Empty
  <2> QED BY <2>1 DEF AnswerInv, Outcomes
<1>8. ScopeInv
  <2>1. <<>> \in Seq(Calls)
    OBVIOUS
  <2> QED BY <1>3, <2>1 DEF ScopeInv
<1>9. CountInv
  <2>1. \A v : Counted(v) = {} /\ Present(v) = {}
    BY DEF Counted, Present, Inside
  <2>2. Cardinality({}) = 0
    BY FS_EmptySet
  <2>3. inflight \in [Services -> Nat] /\ \A v \in Services : inflight[v] = 0
    OBVIOUS
  <2>4. \A v \in Services : inflight[v] = Cardinality(Counted(v))
    BY <2>1, <2>2, <2>3
  <2>5. \A v \in Services : Cardinality(Present(v)) <= MaxInflight
    <3>1. 0 <= MaxInflight
      BY CallAssumption
    <3>2. \A v : Cardinality(Present(v)) = 0
      BY <2>1, <2>2
    <3> QED BY <3>1, <3>2
  <2> QED BY <2>3, <2>4, <2>5 DEF CountInv
<1> QED BY <1>1, <1>2, <1>5, <1>6, <1>7, <1>8, <1>9 DEF DInv

LEMMA DNextInv == DInv /\ [Next]_vars => DInv'
  BY ComponentSteps, LocalTypeStep, CallStep, HolderStep, AnswerStep, ScopeStep, CountStep DEF DInv

\* The composition keeps its invariant, and both components keep theirs
\* wherever the calls of Dispatch are interrupted.
THEOREM DispatchInvariance == Spec => []DInv
<1> QED BY DInitInv, DNextInv, PTL DEF Spec

\* The inflight counters count the calls behind the gate, and no more than
\* max_inflight are inside (Dispatch, InflightGuard).
THEOREM LimitKept == Spec => []ServiceLimit
<1>1. DInv => ServiceLimit
  <2> SUFFICES ASSUME DInv PROVE ServiceLimit
    OBVIOUS
  <2> USE DEF DInv
  <2>1. I!TypeOK
    BY SameTypes DEF IngressInv, IP!IInv, IP!CacheInv, IP!TypeOK
  <2>2. M!TypeOK
    BY DEF MailboxInv, MP!IInv, MP!TypeOK, M!TypeOK
  <2>3. inflight \in [Services -> 0..Cardinality(Calls)]
    <3>1. ASSUME NEW v \in Services PROVE inflight[v] \in 0..Cardinality(Calls)
      <4>1. Counted(v) \subseteq Calls
        BY DEF Counted
      <4>2. /\ Cardinality(Counted(v)) <= Cardinality(Calls)
            /\ Cardinality(Counted(v)) \in Nat /\ Cardinality(Calls) \in Nat
        BY <4>1, SizesAssumption, FS_Subset, FS_CardinalityType
      <4> QED BY <4>2 DEF CountInv
    <3> QED BY <3>1 DEF CountInv
  <2>4. TypeOK
    BY <2>1, <2>2, <2>3 DEF TypeOK, LocalTypeOK
  <2>5. ASSUME NEW v \in Services
        PROVE  LET here == {c \in Calls : ServiceOf(c) = v}
               IN  /\ Cardinality({c \in here : Inside(c)}) <= MaxInflight
                   /\ inflight[v] = Cardinality({c \in here : Inside(c) \/ pc[c] = "leaving"})
    <3> DEFINE here == {c \in Calls : ServiceOf(c) = v}
    <3>1. {c \in here : Inside(c)} = Present(v)
      BY DEF Present
    <3>2. {c \in here : Inside(c) \/ pc[c] = "leaving"} = Counted(v)
      BY DEF Counted
    <3> HIDE DEF here
    <3> QED BY <3>1, <3>2 DEF CountInv, here
  <2> QED BY <2>4, <2>5 DEF ServiceLimit
<1> QED BY <1>1, DispatchInvariance, PTL

\* No retry, timeout or eviction from the cache runs a sequence a second time,
\* and a handler finds the context of its own request (Dispatch, _Drain,
\* RequestScope).
THEOREM RunsOnce == Spec => []HandlerRunsOnce
<1>1. DInv => HandlerRunsOnce
  <2> SUFFICES ASSUME DInv PROVE HandlerRunsOnce
    OBVIOUS
  <2> USE DEF DInv
  <2>1. /\ started \in Seq(Calls)
        /\ \A i, j \in 1..Len(started) : started[i] = started[j] => i = j
    BY MailboxKnown
  <2>2. ASSUME NEW i \in 1..Len(started) PROVE started[i] \in Calls /\ Holds(started[i])
    BY <2>1, MailboxKnown DEF Started, Holds
  <2>3. ASSUME ordered, NEW n \in 1..MaxSeq
        PROVE  /\ Cardinality(Starts(n)) <= 1
               /\ \A i \in Starts(n) : n <= Len(log["stream"]) /\ started[i].content = log["stream"][n]
    <3>1. \A i, j \in Starts(n) : i = j
      BY <2>1, <2>2, <2>3 DEF Starts, HolderInv
    <3>2. Starts(n) = {} \/ \E i : Starts(n) = {i}
      BY <3>1
    <3>3. Cardinality(Starts(n)) <= 1
      <4>1. Cardinality({}) = 0 /\ \A i : Cardinality({i}) = 1
        BY FS_EmptySet, FS_Singleton
      <4>2. Cardinality(Starts(n)) = 0 \/ Cardinality(Starts(n)) = 1
        BY <3>2, <4>1
      <4> QED BY <4>2
    <3>4. \A i \in Starts(n) : n <= Len(Log) /\ started[i].content = Log[n]
      BY <2>2, <2>3 DEF Starts, HolderInv
    <3> QED BY <3>3, <3>4 DEF Log
  <2>4. ASSUME NEW d \in Coroutines
        PROVE  IF task[d] = NoTask THEN scopes[d] = <<>> ELSE CurrentRequest(d) = task[d]
    BY <2>4 DEF ScopeInv, CurrentRequest
  <2> QED BY <2>1, <2>3, <2>4 DEF HandlerRunsOnce
<1> QED BY <1>1, DispatchInvariance, PTL

\* Everybody who asks for one ordered sequence is told the reply it was completed
\* with, and Complete never finds an admission finished by somebody else.
THEOREM TellsTheSame == Spec => []AnswersAgree
<1>1. DInv => AnswersAgree
  <2> SUFFICES ASSUME DInv PROVE AnswersAgree
    OBVIOUS
  <2>1. ASSUME NEW c \in Calls, ordered, ServiceOf(c) = "actor", reply[c] \in Outcomes
        PROVE  /\ c.seq \in DOMAIN Outcome
               /\ reply[c] = Outcome[c.seq].outcome
               /\ reply[c] = "own" =>
                    \E d \in Calls : d.seq = c.seq /\ d.content = c.content /\ slot[d] = "own"
    BY <2>1 DEF DInv, AnswerInv
  <2> QED BY <2>1 DEF DInv, AnswerInv, AnswersAgree, Outcome
<1> QED BY <1>1, DispatchInvariance, PTL
=============================================================================
