--------------------------- MODULE OrderedIngress ---------------------------
(***************************************************************************)
(* The receiving side of ordered calls (OrderedIngress.cc): authorised     *)
(* streams, the sequence state machine of each stream and the service-wide *)
(* cache of terminal replies.  Every public operation runs under m_mtx, so *)
(* each is one action.                                                     *)
(*                                                                         *)
(* A request's id and digest are compared together everywhere and are one  *)
(* value of Requests.  A terminal reply is the request it was produced for *)
(* and an outcome; Size gives the retained bytes of an outcome.            *)
(***************************************************************************)
EXTENDS Integers, Sequences, FiniteSets, FiniteSetsExt, Thinning

CONSTANTS
  Streams,        \* (actor key, producer id, producer epoch): StreamKey
  Epochs,         \* receiver epochs
  Peers,          \* peer principals
  Requests,       \* (request id, digest)
  Outcomes,       \* outcomes of a handler
  InvalidErrors,  \* outcomes that fail ValidateErrorAtBoundary
  SafeError,      \* the ProtocolError such an outcome is replaced by
  Size,           \* ReplyBytes of an outcome
  MaxStreams,     \* max_ordered_streams
  MaxResults,     \* max_cached_results
  MaxBytes,       \* max_cached_result_bytes
  MaxSeq          \* bound of the model: sequences admitted on one stream

ASSUME LimitsAssumption ==
  /\ MaxStreams \in Nat \ {0}
  /\ MaxResults \in Nat \ {0}
  /\ MaxBytes \in Nat \ {0}
  /\ MaxSeq \in Nat

ASSUME OutcomeAssumption ==
  /\ InvalidErrors \subseteq Outcomes
  /\ SafeError \in Outcomes \ InvalidErrors
  /\ Size \in [Outcomes -> Nat]

VARIABLES
  grants,       \* grants_: installed grants
  next,         \* next_sequence of a stream, 0 while streams_ has no entry
  inFlight,     \* in_flight of all streams: (stream, sequence) -> request
  cachedSeqs,   \* cached_seqs of all streams
  cached,       \* cached_: (stream, sequence) -> request and reply
  cachedOrder,  \* cached_order_: completion order of the cached replies
  cachedBytes,  \* cached_bytes_
  issued,       \* Execute admissions ever handed out; callers keep them
  log,          \* history: requests executed on a stream, in order
  outcome,      \* history: terminal reply recorded for each position
  answer        \* the decision the last call returned, with the request it is for

vars == <<grants, next, inFlight, cachedSeqs, cached, cachedOrder,
          cachedBytes, issued, log, outcome, answer>>

Seqs == 1..MaxSeq
Keys == Streams \X Seqs
Grants == [stream : Streams, epoch : Epochs, peer : Peers]
Tickets == [stream : Streams, seq : Seqs, req : Requests]
Replies == [for : Requests, outcome : Outcomes]

Empty == [k \in {} |-> k]
KeysOf(s) == {s} \X Seqs
Without(f, K) == [k \in DOMAIN f \ K |-> f[k]]
Put(f, k, v) == [x \in DOMAIN f \cup {k} |-> IF x = k THEN v ELSE f[x]]

Init ==
  /\ grants = {}
  /\ next = [s \in Streams |-> 0]
  /\ inFlight = Empty
  /\ cachedSeqs = {}
  /\ cached = Empty
  /\ cachedOrder = <<>>
  /\ cachedBytes = 0
  /\ issued = {}
  /\ log = [s \in Streams |-> <<>>]
  /\ outcome = [s \in Streams |-> Empty]
  /\ answer = [kind |-> "None"]

Answer(kind, s, n) == answer' = [kind |-> kind, stream |-> s, seq |-> n]
Refuse(kind, s, n, req) ==
  answer' = [kind |-> kind, stream |-> s, seq |-> n, req |-> req]
Replay(s, n, req) ==
  answer' = [kind |-> "Replay", stream |-> s, seq |-> n, req |-> req,
             reply |-> cached[<<s, n>>].reply]
Quiet == answer' = [kind |-> "None"]

-----------------------------------------------------------------------------
(* Retained replies.                                                       *)

BytesOf(f, K) == MapThenSumSet(LAMBDA k : Size[f[k].reply.outcome], K)

\* Mutant: the entry of streams_ is erased first, so nothing is found to drop.
DropNothing(s) == UNCHANGED <<cached, cachedOrder, cachedBytes>>

\* Mutant: the completion order keeps the keys of the revoked stream.
DropLeavingOrder(s) ==
  LET gone == cachedSeqs \cap KeysOf(s) \cap DOMAIN cached
  IN  /\ cached' = Without(cached, gone)
      /\ cachedBytes' = cachedBytes - BytesOf(cached, gone)
      /\ UNCHANGED cachedOrder

\* _DropStreamCache: the service-wide cache, its order and its byte count lose
\* the replies that cached_seqs of the stream names.
DropStreamCache(s) ==
  LET gone == cachedSeqs \cap KeysOf(s) \cap DOMAIN cached
  IN  /\ cached' = Without(cached, gone)
      /\ Thinned(cachedOrder, gone, cachedOrder')
      /\ cachedBytes' = cachedBytes - BytesOf(cached, gone)

\* _EvictToLimits: the loop drops the first i keys of the completion order,
\* where i is the first count at which its condition is false.
\* Mutants: >= for >, and a loop that looks at the bytes alone.
OverLimitsEarly(i, order, f, bytes) ==
  \/ Len(order) - i >= MaxResults
  \/ bytes - BytesOf(f, {order[j] : j \in 1..i}) > MaxBytes

OverBytesOnly(i, order, f, bytes) ==
  bytes - BytesOf(f, {order[j] : j \in 1..i}) > MaxBytes

OverLimits(i, order, f, bytes) ==
  \/ Len(order) - i > MaxResults
  \/ bytes - BytesOf(f, {order[j] : j \in 1..i}) > MaxBytes

StopsAt(i, order, f, bytes) == i = Len(order) \/ ~OverLimits(i, order, f, bytes)

\* _RemoveCached reads its key again after it has erased the element of
\* cached_order_ the key refers to, and in this loop that is the front itself.
\* The read is undefined: it finds the stream as long as the bytes of the erased
\* strings survive, otherwise the sequence stays behind in cached_seqs.
EvictToLimits(order, f, bytes, seqs) ==
  \E i \in 0..Len(order) :
    /\ StopsAt(i, order, f, bytes)
    /\ \A j \in 0..(i - 1) : ~StopsAt(j, order, f, bytes)
    /\ LET gone == {order[j] : j \in 1..i}
       IN  /\ cached' = Without(f, gone)
           /\ cachedOrder' = SubSeq(order, i + 1, Len(order))
           /\ cachedBytes' = bytes - BytesOf(f, gone)
           /\ \E erased \in SUBSET gone : cachedSeqs' = seqs \ erased
-----------------------------------------------------------------------------
(* GrantStream.                                                            *)

GrantOf(s) == {g \in grants : g.stream = s}

\* Mutant: the old receiver epoch keeps its grant.
RemainingAll(s) == grants

\* The grants that survive the switch of stream s to a new session.
Remaining(s) == grants \ GrantOf(s)

\* Mutant: reinstalling the same grant restarts the stream.
GrantAgainRestarts(s, e) ==
  /\ \E g \in GrantOf(s) : g.epoch = e
  /\ next' = [next EXCEPT ![s] = 1]
  /\ Quiet
  /\ UNCHANGED <<grants, inFlight, cachedSeqs, cached, cachedOrder,
                 cachedBytes, issued, log, outcome>>

\* The same grant again changes nothing; the same receiver epoch for another
\* peer is refused.
GrantAgain(s, e) ==
  /\ \E g \in GrantOf(s) : g.epoch = e
  /\ Quiet
  /\ UNCHANGED <<grants, next, inFlight, cachedSeqs, cached, cachedOrder,
                 cachedBytes, issued, log, outcome>>

\* A new receiver epoch revokes the old grant of the stream together with its
\* sequence state; then the capacity is checked and the stream starts at 1.
InstallGrant(s, e, p) ==
  /\ \A g \in GrantOf(s) : g.epoch # e
  /\ Cardinality(Remaining(s)) < MaxStreams
  /\ grants' = Remaining(s) \cup {[stream |-> s, epoch |-> e, peer |-> p]}
  /\ next' = [next EXCEPT ![s] = 1]
  /\ DropStreamCache(s)
  /\ inFlight' = Without(inFlight, KeysOf(s))
  /\ cachedSeqs' = cachedSeqs \ KeysOf(s)
  /\ log' = [log EXCEPT ![s] = <<>>]
  /\ outcome' = [outcome EXCEPT ![s] = Empty]
  /\ Quiet
  /\ UNCHANGED issued

\* No room: refused without evicting an active stream.
GrantOverloaded(s) ==
  /\ GrantOf(s) = {}
  /\ Cardinality(grants) >= MaxStreams
  /\ Quiet
  /\ UNCHANGED <<grants, next, inFlight, cachedSeqs, cached, cachedOrder,
                 cachedBytes, issued, log, outcome>>

GrantStream(s, e, p) ==
  GrantAgain(s, e) \/ InstallGrant(s, e, p) \/ GrantOverloaded(s)
-----------------------------------------------------------------------------
(* Admit.                                                                  *)

Authorized(s, e, p) ==
  [stream |-> s, epoch |-> e, peer |-> p] \in grants

StateUnchanged ==
  UNCHANGED <<grants, next, inFlight, cachedSeqs, cached, cachedOrder,
              cachedBytes, issued, log, outcome>>

\* No stamp, incomplete stamp fields or no matching grant.
AdmitRejected(s, e, p, n, req) ==
  /\ ~Authorized(s, e, p)
  /\ Refuse("Rejected", s, n, req)
  /\ StateUnchanged

\* Sequence 0 and future sequences are not buffered.
AdmitGap(s, n) ==
  /\ n = 0 \/ n > next[s]
  /\ answer' = [kind |-> "Gap", stream |-> s, seq |-> n, expected |-> next[s]]
  /\ StateUnchanged

\* Mutant: a duplicate is replayed without comparing its content.
AdmitUsedUnchecked(s, n, req) ==
  LET k == <<s, n>>
  IN  /\ n > 0 /\ n < next[s]
      /\ IF k \in DOMAIN cached
         THEN Replay(s, n, req)
         ELSE Refuse(IF k \in DOMAIN inFlight THEN "InProgress" ELSE "Expired", s, n, req)
      /\ StateUnchanged

\* The sequence was consumed: answer from in_flight or from the cache.
AdmitUsed(s, n, req) ==
  LET k == <<s, n>>
  IN  /\ n > 0 /\ n < next[s]
      /\ \/ /\ k \in DOMAIN inFlight
            /\ Refuse(IF inFlight[k] = req THEN "InProgress" ELSE "Conflict", s, n, req)
         \/ /\ k \notin DOMAIN inFlight /\ k \in DOMAIN cached
            /\ IF cached[k].req = req THEN Replay(s, n, req)
                                      ELSE Refuse("Conflict", s, n, req)
         \/ /\ k \notin DOMAIN inFlight /\ k \notin DOMAIN cached
            /\ Refuse("Expired", s, n, req)
      /\ StateUnchanged

\* Mutant: sequence 0 is executed like an unnumbered call.
AdmitExecuteZero(s, n, req) ==
  /\ n \in {0, next[s]} /\ n <= MaxSeq
  /\ inFlight' = Put(inFlight, <<s, n>>, req)
  /\ next' = [next EXCEPT ![s] = n + 1]
  /\ issued' = issued \cup {[stream |-> s, seq |-> n, req |-> req]}
  /\ log' = [log EXCEPT ![s] = Append(@, req)]
  /\ Answer("Execute", s, n)
  /\ UNCHANGED <<grants, cachedSeqs, cached, cachedOrder, cachedBytes, outcome>>

\* The admission boundary: the sequence is consumed and goes in flight.
AdmitExecute(s, n, req) ==
  /\ n = next[s] /\ n > 0 /\ n <= MaxSeq
  /\ inFlight' = Put(inFlight, <<s, n>>, req)
  /\ next' = [next EXCEPT ![s] = @ + 1]
  /\ issued' = issued \cup {[stream |-> s, seq |-> n, req |-> req]}
  /\ log' = [log EXCEPT ![s] = Append(@, req)]
  /\ Answer("Execute", s, n)
  /\ UNCHANGED <<grants, cachedSeqs, cached, cachedOrder, cachedBytes, outcome>>

Admit(s, e, p, n, req) ==
  \/ AdmitRejected(s, e, p, n, req)
  \/ /\ Authorized(s, e, p)
     /\ AdmitGap(s, n) \/ AdmitUsed(s, n, req) \/ AdmitExecute(s, n, req)
-----------------------------------------------------------------------------
(* Complete.                                                               *)

\* Mutant: the error is cached as the handler returned it.
NormalizedNot(o) == o

\* Boundary check of a terminal error before it can reach the cache.
Normalized(o) == IF o \in InvalidErrors THEN SafeError ELSE o

\* Mutant: a reply too large for the cache leaves its request in flight.
CompletedInFlightLeak(k, bytes) ==
  IF bytes > MaxBytes THEN inFlight ELSE Without(inFlight, {k})

\* The in-flight entry goes whether or not the reply can be kept.
CompletedInFlight(k, bytes) == Without(inFlight, {k})

\* The caller finishes the admission t with the reply of t's handler.  Only
\* the stream and the sequence of t are looked at.
Complete(t, o) ==
  LET k      == <<t.stream, t.seq>>
      reply  == [for |-> t.req, outcome |-> Normalized(o)]
      bytes  == Size[reply.outcome]
      filled == Put(cached, k, [req |-> inFlight[k], reply |-> reply])
  IN  /\ k \in DOMAIN inFlight
      /\ inFlight' = CompletedInFlight(k, bytes)
      /\ IF bytes > MaxBytes
         THEN UNCHANGED <<cachedSeqs, cached, cachedOrder, cachedBytes>>
         ELSE EvictToLimits(Append(cachedOrder, k), filled,
                            cachedBytes + bytes, cachedSeqs \cup {k})
      /\ outcome' = [outcome EXCEPT ![t.stream] = Put(@, t.seq, reply)]
      /\ Answer("Completed", t.stream, t.seq)
      /\ UNCHANGED <<grants, next, issued, log>>

\* An admission that is no longer in flight, or whose stream is gone.
CompleteRejected(t) ==
  /\ <<t.stream, t.seq>> \notin DOMAIN inFlight
  /\ Quiet
  /\ StateUnchanged
-----------------------------------------------------------------------------
GrantStep == \E s \in Streams, e \in Epochs, p \in Peers : GrantStream(s, e, p)

AdmitStep ==
  \E s \in Streams, e \in Epochs, p \in Peers, n \in 0..(MaxSeq + 1), req \in Requests :
    Admit(s, e, p, n, req)

CompleteStep ==
  \E t \in issued : CompleteRejected(t) \/ \E o \in Outcomes : Complete(t, o)

\* The component alone: any caller may switch a session at any time.
Next == GrantStep \/ AdmitStep \/ CompleteStep
Spec == Init /\ [][Next]_vars

\* The component inside CoApp: grant_ordered_stream is refused once run has
\* started, so every grant precedes the first admission.
SealedNext == (GrantStep /\ issued = {}) \/ AdmitStep \/ CompleteStep
SealedSpec == Init /\ [][SealedNext]_vars
-----------------------------------------------------------------------------
(* Properties.                                                             *)

\* What a stream knows of its own calls; the types of the eviction queue are a
\* part of their own.
CoreTypeOK ==
  /\ grants \subseteq Grants
  /\ next \in [Streams -> 0..(MaxSeq + 1)]
  /\ DOMAIN inFlight \subseteq Keys
  /\ \A k \in DOMAIN inFlight : inFlight[k] \in Requests
  /\ DOMAIN cached \subseteq Keys
  /\ \A k \in DOMAIN cached : cached[k] \in [req : Requests, reply : Replies]
  /\ issued \subseteq Tickets
  /\ log \in [Streams -> Seq(Requests)]
  /\ outcome \in [Streams -> UNION {[D -> Replies] : D \in SUBSET Seqs}]

TypeOK ==
  /\ CoreTypeOK
  /\ cachedSeqs \subseteq Keys
  /\ cachedOrder \in Seq(Keys)
  /\ cachedBytes \in Int

\* A stream has at most one installed grant, it has sequence state exactly
\* while that grant is installed, and max_ordered_streams is never exceeded,
\* whatever sessions are switched (GrantStream revokes before it installs).
OneSessionPerStream ==
  /\ Cardinality(grants) <= MaxStreams
  /\ \A s \in Streams : \A g, h \in GrantOf(s) : g = h
  /\ \A s \in Streams : next[s] # 0 <=> GrantOf(s) # {}

\* Sequence n belongs for ever to the n-th request executed in the session: a
\* stream has consumed exactly 1..next-1, and whatever in_flight or the cache
\* holds for a position is held for the request that was executed there, so
\* no sequence executes twice and none is skipped (Admit).
SequenceNamesOneExecution ==
  /\ \A s \in Streams : Len(log[s]) = IF next[s] = 0 THEN 0 ELSE next[s] - 1
  /\ \A k \in DOMAIN inFlight :
       k[2] < next[k[1]] /\ inFlight[k] = log[k[1]][k[2]]
  /\ \A k \in DOMAIN cached :
       k[2] < next[k[1]] /\ cached[k].req = log[k[1]][k[2]]

\* Every consumed sequence is either in flight or has its one terminal reply,
\* and a cached reply is that one: a duplicate is never told InProgress for
\* finished work nor Replay for unfinished work (Complete, _DropStreamCache).
OneFate ==
  /\ \A s \in Streams : DOMAIN outcome[s] \subseteq 1..Len(log[s])
  /\ \A s \in Streams : \A n \in 1..Len(log[s]) :
       (<<s, n>> \in DOMAIN inFlight) # (n \in DOMAIN outcome[s])
  /\ \A k \in DOMAIN cached :
       k[2] \in DOMAIN outcome[k[1]] /\ cached[k].reply = outcome[k[1]][k[2]]

\* cached_, cached_order_ and cached_bytes_ describe the same set of replies,
\* each once, through completion, eviction and revocation; cached_seqs names at
\* least those, so that a revoked stream leaves none behind (_DropStreamCache).
CacheInSync ==
  /\ \A i, j \in 1..Len(cachedOrder) : cachedOrder[i] = cachedOrder[j] => i = j
  /\ {cachedOrder[i] : i \in 1..Len(cachedOrder)} = DOMAIN cached
  /\ DOMAIN cached \subseteq cachedSeqs
  /\ cachedBytes = BytesOf(cached, DOMAIN cached)

\* "cached_seqs is a subset of the keys of cached_" (OrderedIngress.hpp): what
\* ObserveStream counts as cached is cached.
SeqsAreCached == cachedSeqs \subseteq DOMAIN cached

\* CachedResultCount <= max_cached_results.
CountWithinLimit == Cardinality(DOMAIN cached) <= MaxResults

\* CachedResultCount <= max_cached_results and CachedResultBytes <=
\* max_cached_result_bytes at all times ("恒成立", OrderedIngress.hpp): Complete
\* refuses an oversized reply, _EvictToLimits makes room for the others.
CacheWithinLimits == CountWithinLimit /\ cachedBytes <= MaxBytes

\* The reply kept for a request is the one its own handler produced, and it
\* passed the error boundary: what Replay returns can never be another
\* request's answer or an invalid actor error (Complete).
ReplyIsOwn ==
  \A k \in DOMAIN cached : /\ cached[k].reply.for = cached[k].req
                          /\ cached[k].reply.outcome \notin InvalidErrors

\* Without a session switch of its stream, an execution is never undone or
\* repeated: the executed requests only grow and next_sequence never goes
\* back, whatever is evicted ("永不回退", OrderedIngress.hpp).
ConsumedForever ==
  [][\A s \in Streams : GrantOf(s)' = GrantOf(s) =>
       /\ next'[s] >= next[s]
       /\ Len(log'[s]) >= Len(log[s])
       /\ SubSeq(log'[s], 1, Len(log[s])) = log[s]
       /\ DOMAIN outcome[s] \subseteq DOMAIN outcome'[s]]_vars

\* A retained reply of a live session is dropped only if keeping it would break
\* a limit, and the replies that stay completed after it (_EvictToLimits
\* is FIFO by completion order and evicts no more than it must).
EvictsOldestUnderPressure ==
  [][\A k \in DOMAIN cached \ DOMAIN cached' : grants' = grants =>
       LET i == CHOOSE j \in 1..Len(cachedOrder) : cachedOrder[j] = k
       IN  /\ \A j \in 1..i : cachedOrder[j] \notin DOMAIN cached'
           /\ \/ Len(cachedOrder) - i + 2 > MaxResults
              \/ cachedBytes' + BytesOf(cached, {cachedOrder[j] : j \in i..Len(cachedOrder)}
                                               \ DOMAIN cached') > MaxBytes]_vars

\* Seen by callers inside CoApp, the component is the ordered log of
\* OrderedLog: executions append, every answer tells the truth about the log.
Log == INSTANCE OrderedLog WITH Positions <- 0..(MaxSeq + 1)
ImplementsOrderedLog == Log!Spec
=============================================================================
