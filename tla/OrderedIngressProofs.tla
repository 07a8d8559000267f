------------------------- MODULE OrderedIngressProofs -------------------------
(***************************************************************************)
(* The ordered ingress for any streams, requests, limits and sizes.        *)
(*                                                                         *)
(* The properties rest on each other: which request a cached reply belongs *)
(* to is known only while no entry of an old session is left behind, and   *)
(* that none is left behind is known because cached_seqs names every       *)
(* cached reply of its stream.  IInv has all of it.                        *)
(*                                                                         *)
(* The second half is about the cache of terminal replies: cached_,        *)
(* cached_order_ and cached_bytes_ count the same replies, the limits hold,*)
(* and eviction is first in, first out.                                    *)
(***************************************************************************)
EXTENDS OrderedIngress, FiniteSums

IInv ==
  /\ CoreTypeOK
  /\ IsFiniteSet(grants)
  /\ OneSessionPerStream
  /\ SequenceNamesOneExecution
  /\ OneFate
  /\ DOMAIN cached \subseteq cachedSeqs

\* What IInv speaks of.
core == <<grants, next, inFlight, cachedSeqs, cached, issued, log, outcome>>

-----------------------------------------------------------------------------
(* Helpers.                                                                *)

\* Eviction removes one set of keys from the cache, and from the streams' copies
\* of its keys no other ones (_EvictToLimits, _RemoveCached).
LEMMA EvictShape ==
  ASSUME NEW order, NEW f, NEW bytes, NEW seqs, EvictToLimits(order, f, bytes, seqs)
  PROVE  \E gone : cached' = Without(f, gone) /\ seqs \ gone \subseteq cachedSeqs'
  BY DEF EvictToLimits

\* A key of a stream is recognised by its first component.
LEMMA KeyOfStream ==
  ASSUME NEW s \in Streams, NEW k \in Keys
  PROVE  /\ k \in KeysOf(s) <=> k[1] = s
         /\ k[1] \in Streams /\ k[2] \in Seqs /\ k = <<k[1], k[2]>>
  BY DEF Keys, KeysOf

\* One grant more is at most one entry more in grants_.
LEMMA CardinalityOfOneMore ==
  ASSUME NEW S, NEW x, IsFiniteSet(S), Cardinality(S) \in Nat
  PROVE  IsFiniteSet(S \cup {x}) /\ Cardinality(S \cup {x}) <= Cardinality(S) + 1
<1>1. CASE x \in S
  <2>1. S \cup {x} = S
    BY <1>1
  <2>2. IsFiniteSet(S \cup {x}) /\ Cardinality(S \cup {x}) = Cardinality(S)
    BY <2>1, Zenon
  <2> QED BY <2>2
<1>2. CASE x \notin S
  <2>1. IsFiniteSet(S \cup {x}) /\ Cardinality(S \cup {x}) = Cardinality(S) + 1
    BY <1>2, FS_AddElement, Zenon
  <2> QED BY <2>1
<1> QED BY <1>1, <1>2

-----------------------------------------------------------------------------
(* The invariant, action by action.                                        *)

LEMMA InitInv == Init => IInv
<1> SUFFICES ASSUME Init PROVE IInv
  OBVIOUS
<1> USE DEF Init, Empty
<1>1. CoreTypeOK
  <2>1. next \in [Streams -> 0..(MaxSeq + 1)]
    BY LimitsAssumption
  <2>2. outcome \in [Streams -> UNION {[D -> Replies] : D \in SUBSET Seqs}]
    <3>1. Empty \in [{} -> Replies]
      OBVIOUS
    <3>2. Empty \in UNION {[D -> Replies] : D \in SUBSET Seqs}
      BY <3>1
    <3> QED BY <3>2
  <2>3. log \in [Streams -> Seq(Requests)]
    OBVIOUS
  <2> QED BY <2>1, <2>2, <2>3 DEF CoreTypeOK
<1>2. IsFiniteSet(grants) /\ Cardinality(grants) = 0
  BY FS_EmptySet
<1>3. OneSessionPerStream
  BY <1>2, LimitsAssumption DEF OneSessionPerStream, GrantOf
<1>4. SequenceNamesOneExecution
  BY DEF SequenceNamesOneExecution
<1>5. OneFate
  BY DEF OneFate
<1> QED BY <1>1, <1>2, <1>3, <1>4, <1>5 DEF IInv

LEMMA StutterInv ==
  ASSUME IInv, UNCHANGED core
  PROVE  IInv'
<1> USE DEF core, IInv
<1>1. CoreTypeOK'
  BY DEF CoreTypeOK
<1>2. OneSessionPerStream'
  BY DEF OneSessionPerStream, GrantOf
<1>3. SequenceNamesOneExecution'
  BY DEF SequenceNamesOneExecution
<1>4. OneFate'
  BY DEF OneFate
<1> QED BY <1>1, <1>2, <1>3, <1>4

\* What a new session leaves of the others, and of its own stream (GrantStream).
LEMMA InstallFacts ==
  ASSUME IInv, NEW s \in Streams, NEW e \in Epochs, NEW p \in Peers, InstallGrant(s, e, p)
  PROVE  /\ DOMAIN inFlight' \subseteq DOMAIN inFlight
         /\ DOMAIN cached' \subseteq DOMAIN cached
         /\ \A k \in DOMAIN inFlight' : k[1] # s /\ inFlight'[k] = inFlight[k]
         /\ \A k \in DOMAIN cached' : k[1] # s /\ cached'[k] = cached[k]
         /\ \A k \in DOMAIN inFlight : k[1] # s => k \in DOMAIN inFlight'
         /\ DOMAIN cached' \subseteq cachedSeqs'
<1> DEFINE gone == cachedSeqs \cap KeysOf(s) \cap DOMAIN cached
<1>1. DOMAIN inFlight \subseteq Keys /\ DOMAIN cached \subseteq Keys /\ DOMAIN cached \subseteq cachedSeqs
  BY DEF IInv, CoreTypeOK
<1>2. /\ inFlight' = Without(inFlight, KeysOf(s))
      /\ cached' = Without(cached, gone)
      /\ cachedSeqs' = cachedSeqs \ KeysOf(s)
  BY DEF InstallGrant, DropStreamCache
<1>3. /\ DOMAIN inFlight' = DOMAIN inFlight \ KeysOf(s)
      /\ \A k \in DOMAIN inFlight' : inFlight'[k] = inFlight[k]
  BY <1>2 DEF Without
<1>4. /\ DOMAIN cached' = DOMAIN cached \ gone
      /\ \A k \in DOMAIN cached' : cached'[k] = cached[k]
  BY <1>2 DEF Without
<1>5. DOMAIN cached' = DOMAIN cached \ KeysOf(s)
  BY <1>1, <1>4
<1>6. \A k \in Keys : k \in KeysOf(s) <=> k[1] = s
  BY KeyOfStream
<1> QED BY <1>1, <1>2, <1>3, <1>4, <1>5, <1>6

LEMMA InstallGrantInv ==
  ASSUME IInv, NEW s \in Streams, NEW e \in Epochs, NEW p \in Peers, InstallGrant(s, e, p)
  PROVE  IInv'
<1> DEFINE g == [stream |-> s, epoch |-> e, peer |-> p]
<1> USE DEF IInv
<1>1. /\ grants' = Remaining(s) \cup {g}
      /\ next' = [next EXCEPT ![s] = 1]
      /\ log' = [log EXCEPT ![s] = <<>>]
      /\ outcome' = [outcome EXCEPT ![s] = Empty]
      /\ issued' = issued
      /\ Cardinality(Remaining(s)) < MaxStreams
  BY DEF InstallGrant
<1>2. \A r \in Streams :
        /\ next'[r] = IF r = s THEN 1 ELSE next[r]
        /\ log'[r] = IF r = s THEN <<>> ELSE log[r]
        /\ outcome'[r] = IF r = s THEN Empty ELSE outcome[r]
  BY <1>1 DEF CoreTypeOK
<1>3. CoreTypeOK'
  <2>1. grants' \subseteq Grants
    BY <1>1 DEF CoreTypeOK, Remaining, Grants
  <2>2. next' \in [Streams -> 0..(MaxSeq + 1)]
    BY <1>1, LimitsAssumption DEF CoreTypeOK
  <2>3. log' \in [Streams -> Seq(Requests)]
    BY <1>1 DEF CoreTypeOK
  <2>4. outcome' \in [Streams -> UNION {[D -> Replies] : D \in SUBSET Seqs}]
    <3>1. Empty \in [{} -> Replies]
      BY DEF Empty
    <3>2. Empty \in UNION {[D -> Replies] : D \in SUBSET Seqs}
      BY <3>1
    <3> QED BY <1>1, <3>2 DEF CoreTypeOK
  <2>5. /\ DOMAIN inFlight' \subseteq Keys
        /\ \A k \in DOMAIN inFlight' : inFlight'[k] \in Requests
        /\ DOMAIN cached' \subseteq Keys
        /\ \A k \in DOMAIN cached' : cached'[k] \in [req : Requests, reply : Replies]
    BY InstallFacts DEF CoreTypeOK
  <2> QED BY <1>1, <2>1, <2>2, <2>3, <2>4, <2>5 DEF CoreTypeOK
<1>4. IsFiniteSet(grants') /\ Cardinality(grants') <= MaxStreams
  <2>1. IsFiniteSet(Remaining(s))
    BY FS_Subset DEF Remaining
  <2>2. Cardinality(Remaining(s)) \in Nat
    BY <2>1, FS_CardinalityType
  <2>3. IsFiniteSet(grants') /\ Cardinality(grants') <= Cardinality(Remaining(s)) + 1
    BY <1>1, <2>1, <2>2, CardinalityOfOneMore
  <2>4. Cardinality(grants') \in Nat
    BY <2>3, FS_CardinalityType
  <2> QED BY <1>1, <2>2, <2>3, <2>4, LimitsAssumption
<1>5. OneSessionPerStream'
  <2>1. \A r \in Streams : GrantOf(r)' = IF r = s THEN {g} ELSE GrantOf(r)
    BY <1>1 DEF GrantOf, Remaining
  <2>2. \A r \in Streams : \A a, b \in GrantOf(r)' : a = b
    BY <2>1 DEF OneSessionPerStream
  <2>3. ASSUME NEW r \in Streams PROVE next'[r] # 0 <=> GrantOf(r)' # {}
    <3>1. CASE r = s
      <4>1. g \in GrantOf(r)'
        BY <2>1, <3>1
      <4>2. next'[r] = 1
        BY <1>2, <3>1
      <4> QED BY <4>1, <4>2
    <3>2. CASE r # s
      <4>1. next'[r] = next[r] /\ GrantOf(r)' = GrantOf(r)
        BY <1>2, <2>1, <3>2
      <4>2. next[r] # 0 <=> GrantOf(r) # {}
        BY DEF OneSessionPerStream
      <4> QED BY <4>1, <4>2, Zenon
    <3> QED BY <3>1, <3>2
  <2> QED BY <1>4, <2>2, <2>3 DEF OneSessionPerStream
<1>6. SequenceNamesOneExecution'
  <2>1. \A r \in Streams : Len(log'[r]) = IF next'[r] = 0 THEN 0 ELSE next'[r] - 1
    BY <1>2 DEF SequenceNamesOneExecution
  <2>2. /\ \A k \in DOMAIN inFlight \cup DOMAIN cached : k[1] \in Streams
    BY KeyOfStream DEF CoreTypeOK
  <2> QED BY <1>2, <2>1, <2>2, InstallFacts DEF SequenceNamesOneExecution
<1>7. OneFate'
  <2>1. \A r \in Streams : \A n \in 1..Len(log'[r]) :
          (<<r, n>> \in DOMAIN inFlight') # (n \in DOMAIN outcome'[r])
    <3> SUFFICES ASSUME NEW r \in Streams, NEW n \in 1..Len(log'[r])
                 PROVE  (<<r, n>> \in DOMAIN inFlight') # (n \in DOMAIN outcome'[r])
      OBVIOUS
    <3>1. r # s
      BY <1>2
    <3>2. (<<r, n>> \in DOMAIN inFlight) <=> (<<r, n>> \in DOMAIN inFlight')
      BY <3>1, InstallFacts
    <3> QED BY <1>2, <3>1, <3>2 DEF OneFate
  <2>2. \A k \in DOMAIN cached' :
          k[2] \in DOMAIN outcome'[k[1]] /\ cached'[k].reply = outcome'[k[1]][k[2]]
    <3>1. \A k \in DOMAIN cached : k[1] \in Streams
      BY KeyOfStream DEF CoreTypeOK
    <3> QED BY <1>2, <3>1, InstallFacts DEF OneFate
  <2>3. ASSUME NEW r \in Streams PROVE DOMAIN outcome'[r] \subseteq 1..Len(log'[r])
    BY <1>2 DEF OneFate, Empty
  <2> QED BY <2>1, <2>2, <2>3 DEF OneFate
<1> QED BY <1>3, <1>4, <1>5, <1>6, <1>7, InstallFacts

\* The admission boundary consumes a sequence and puts it in flight (Admit).
LEMMA AdmitExecuteInv ==
  ASSUME IInv, NEW s \in Streams, NEW n \in 0..(MaxSeq + 1), NEW req \in Requests,
         AdmitExecute(s, n, req)
  PROVE  IInv'
<1> DEFINE k == <<s, n>>
<1> USE DEF IInv
<1>1. /\ n = next[s] /\ n > 0 /\ n <= MaxSeq /\ n \in Seqs /\ n \in Nat
      /\ inFlight' = Put(inFlight, k, req)
      /\ next' = [next EXCEPT ![s] = @ + 1]
      /\ issued' = issued \cup {[stream |-> s, seq |-> n, req |-> req]}
      /\ log' = [log EXCEPT ![s] = Append(@, req)]
      /\ UNCHANGED <<grants, cachedSeqs, cached, outcome>>
  BY LimitsAssumption DEF AdmitExecute, Seqs
<1>2. /\ DOMAIN inFlight' = DOMAIN inFlight \cup {k}
      /\ inFlight'[k] = req
      /\ \A x \in DOMAIN inFlight : x # k => inFlight'[x] = inFlight[x]
  BY <1>1 DEF Put
<1>3. /\ log[s] \in Seq(Requests) /\ Len(log[s]) = n - 1
      /\ Len(log'[s]) = n /\ log'[s][n] = req
      /\ \A i \in 1..(n - 1) : log'[s][i] = log[s][i]
  BY <1>1 DEF CoreTypeOK, SequenceNamesOneExecution
<1>4. \A r \in Streams : r # s => log'[r] = log[r] /\ next'[r] = next[r]
  BY <1>1 DEF CoreTypeOK
<1>5. next'[s] = n + 1
  BY <1>1 DEF CoreTypeOK
<1>6. k \in Keys /\ k[1] = s /\ k[2] = n
  BY <1>1 DEF Keys
<1>7. k \notin DOMAIN inFlight /\ k \notin DOMAIN cached
  BY <1>1, <1>6 DEF SequenceNamesOneExecution
<1>8. CoreTypeOK'
  <2>1. next' \in [Streams -> 0..(MaxSeq + 1)]
    BY <1>1, LimitsAssumption DEF CoreTypeOK
  <2>2. log' \in [Streams -> Seq(Requests)]
    BY <1>1 DEF CoreTypeOK
  <2>3. DOMAIN inFlight' \subseteq Keys
    BY <1>2, <1>6 DEF CoreTypeOK
  <2>4. \A x \in DOMAIN inFlight' : inFlight'[x] \in Requests
    BY <1>2 DEF CoreTypeOK
  <2>5. issued' \subseteq Tickets
    BY <1>1 DEF CoreTypeOK, Tickets
  <2> QED BY <1>1, <2>1, <2>2, <2>3, <2>4, <2>5 DEF CoreTypeOK
<1>9. OneSessionPerStream'
  <2>1. \A r \in Streams : next'[r] # 0 <=> next[r] # 0
    BY <1>1, <1>4, <1>5
  <2> QED BY <1>1, <2>1 DEF OneSessionPerStream, GrantOf
<1>10. SequenceNamesOneExecution'
  <2>1. \A r \in Streams : Len(log'[r]) = IF next'[r] = 0 THEN 0 ELSE next'[r] - 1
    BY <1>1, <1>3, <1>4, <1>5 DEF SequenceNamesOneExecution
  <2>2. ASSUME NEW x \in Keys, NEW v, x[2] < next[x[1]], v = log[x[1]][x[2]]
        PROVE  x[2] < next'[x[1]] /\ v = log'[x[1]][x[2]]
    <3>1. x[1] \in Streams /\ x[2] \in 1..MaxSeq /\ x[2] \in Nat
      BY LimitsAssumption DEF Keys, Seqs
    <3>2. CASE x[1] = s
      BY <1>1, <1>3, <1>5, <2>2, <3>1, <3>2
    <3>3. CASE x[1] # s
      BY <1>4, <2>2, <3>1, <3>3
    <3> QED BY <3>2, <3>3
  <2>3. ASSUME NEW x \in DOMAIN inFlight'
        PROVE  x[2] < next'[x[1]] /\ inFlight'[x] = log'[x[1]][x[2]]
    <3>1. CASE x = k
      BY <1>1, <1>2, <1>3, <1>5, <1>6, <3>1
    <3>2. CASE x # k
      <4>1. x \in DOMAIN inFlight /\ x \in Keys /\ inFlight'[x] = inFlight[x]
        BY <1>2, <3>2 DEF CoreTypeOK
      <4>2. x[2] < next[x[1]] /\ inFlight[x] = log[x[1]][x[2]]
        BY <4>1 DEF SequenceNamesOneExecution
      <4> QED BY <2>2, <4>1, <4>2
    <3> QED BY <3>1, <3>2
  <2>4. ASSUME NEW x \in DOMAIN cached
        PROVE  x[2] < next'[x[1]] /\ cached[x].req = log'[x[1]][x[2]]
    <3>1. x \in Keys /\ x[2] < next[x[1]] /\ cached[x].req = log[x[1]][x[2]]
      BY DEF CoreTypeOK, SequenceNamesOneExecution
    <3> QED BY <2>2, <3>1
  <2> QED BY <1>1, <2>1, <2>3, <2>4 DEF SequenceNamesOneExecution
<1>11. OneFate'
  <2>1. ASSUME NEW r \in Streams, NEW m \in 1..Len(log'[r])
        PROVE  (<<r, m>> \in DOMAIN inFlight') # (m \in DOMAIN outcome[r])
    <3>1. CASE <<r, m>> = k
      <4>1. n \notin DOMAIN outcome[s]
        BY <1>3 DEF OneFate
      <4> QED BY <1>2, <3>1, <4>1
    <3>2. CASE <<r, m>> # k
      <4>1. m \in 1..Len(log[r])
        BY <1>3, <1>4, <3>2
      <4>2. <<r, m>> \in DOMAIN inFlight' <=> <<r, m>> \in DOMAIN inFlight
        BY <1>2, <3>2
      <4> QED BY <4>1, <4>2 DEF OneFate
    <3> QED BY <3>1, <3>2
  <2>2. ASSUME NEW r \in Streams PROVE DOMAIN outcome[r] \subseteq 1..Len(log'[r])
    <3>1. CASE r = s
      BY <1>1, <1>3, <3>1 DEF OneFate
    <3>2. CASE r # s
      BY <1>4, <3>2 DEF OneFate
    <3> QED BY <3>1, <3>2
  <2> QED BY <1>1, <2>1, <2>2 DEF OneFate
<1> QED BY <1>1, <1>8, <1>9, <1>10, <1>11

\* What finishing a request does to the tables: one entry leaves in_flight, one
\* terminal reply is recorded, and the cache gains at most that reply (Complete).
LEMMA CompleteFacts ==
  ASSUME IInv, NEW t \in issued, NEW o \in Outcomes, Complete(t, o)
  PROVE  LET k     == <<t.stream, t.seq>>
             reply == [for |-> t.req, outcome |-> Normalized(o)]
         IN  /\ k \in Keys /\ reply \in Replies /\ reply.outcome \notin InvalidErrors
             /\ k \in DOMAIN inFlight
             /\ DOMAIN inFlight' = DOMAIN inFlight \ {k}
             /\ \A x \in DOMAIN inFlight' : inFlight'[x] = inFlight[x]
             /\ DOMAIN cached' \subseteq DOMAIN cached \cup {k}
             /\ \A x \in DOMAIN cached' :
                  cached'[x] = IF x = k THEN [req |-> inFlight[k], reply |-> reply]
                               ELSE cached[x]
             /\ DOMAIN cached' \subseteq cachedSeqs'
             /\ outcome' = [outcome EXCEPT ![t.stream] = Put(@, t.seq, reply)]
             /\ UNCHANGED <<grants, next, issued, log>>
<1> DEFINE k == <<t.stream, t.seq>>
           reply == [for |-> t.req, outcome |-> Normalized(o)]
           bytes == Size[reply.outcome]
           filled == Put(cached, k, [req |-> inFlight[k], reply |-> reply])
<1>1. t \in Tickets
  BY DEF IInv, CoreTypeOK
<1>2. k \in Keys /\ t.req \in Requests
  BY <1>1 DEF Tickets, Keys
<1>3. Normalized(o) \in Outcomes /\ Normalized(o) \notin InvalidErrors
  BY OutcomeAssumption DEF Normalized
<1>4. reply \in Replies /\ reply.outcome \notin InvalidErrors
  BY <1>2, <1>3 DEF Replies
<1>5. /\ k \in DOMAIN inFlight
      /\ inFlight' = Without(inFlight, {k})
      /\ outcome' = [outcome EXCEPT ![t.stream] = Put(@, t.seq, reply)]
      /\ UNCHANGED <<grants, next, issued, log>>
  BY DEF Complete, CompletedInFlight
<1>6. /\ DOMAIN inFlight' = DOMAIN inFlight \ {k}
      /\ \A x \in DOMAIN inFlight' : inFlight'[x] = inFlight[x]
  BY <1>5 DEF Without
<1>7. k \notin DOMAIN cached
  <2>1. t.stream \in Streams /\ t.seq \in 1..Len(log[t.stream])
    <3>1. t.stream \in Streams /\ t.seq \in 1..MaxSeq /\ t.seq < next[t.stream]
      BY <1>1, <1>5 DEF Tickets, Seqs, IInv, SequenceNamesOneExecution
    <3>2. next[t.stream] \in 0..(MaxSeq + 1) /\ Len(log[t.stream]) = IF next[t.stream] = 0 THEN 0 ELSE next[t.stream] - 1
      BY <3>1 DEF IInv, CoreTypeOK, SequenceNamesOneExecution
    <3> QED BY <3>1, <3>2, LimitsAssumption
  <2> QED BY <1>5, <2>1 DEF IInv, OneFate
<1>8. /\ DOMAIN cached' \subseteq DOMAIN cached \cup {k}
      /\ \A x \in DOMAIN cached' :
           cached'[x] = IF x = k THEN [req |-> inFlight[k], reply |-> reply] ELSE cached[x]
      /\ DOMAIN cached' \subseteq cachedSeqs'
  <2>1. DOMAIN cached \subseteq cachedSeqs
    BY DEF IInv
  <2>2. CASE bytes > MaxBytes
    <3>1. cached' = cached /\ cachedSeqs' = cachedSeqs
      BY <2>2 DEF Complete
    <3> QED BY <1>7, <2>1, <3>1
  <2>3. CASE ~(bytes > MaxBytes)
    <3>1. EvictToLimits(Append(cachedOrder, k), filled, cachedBytes + bytes, cachedSeqs \cup {k})
      BY <2>3 DEF Complete
    <3>2. PICK gone : cached' = Without(filled, gone) /\ (cachedSeqs \cup {k}) \ gone \subseteq cachedSeqs'
      BY <3>1, EvictShape
    <3>3. /\ DOMAIN filled = DOMAIN cached \cup {k}
          /\ \A x \in DOMAIN filled :
               filled[x] = IF x = k THEN [req |-> inFlight[k], reply |-> reply] ELSE cached[x]
      BY DEF Put
    <3>4. /\ DOMAIN cached' = DOMAIN filled \ gone
          /\ \A x \in DOMAIN cached' : cached'[x] = filled[x]
      <4> HIDE DEF filled
      <4> QED BY <3>2 DEF Without
    <3> HIDE DEF filled, reply, k
    <3> QED BY <2>1, <3>2, <3>3, <3>4
  <2> QED BY <2>2, <2>3
<1> QED BY <1>2, <1>4, <1>5, <1>6, <1>8

LEMMA CompleteInv ==
  ASSUME IInv, NEW t \in issued, NEW o \in Outcomes, Complete(t, o)
  PROVE  IInv'
<1> DEFINE s == t.stream
           n == t.seq
           k == <<t.stream, t.seq>>
           reply == [for |-> t.req, outcome |-> Normalized(o)]
<1>1. /\ k \in Keys /\ reply \in Replies
      /\ k \in DOMAIN inFlight
      /\ DOMAIN inFlight' = DOMAIN inFlight \ {k}
      /\ \A x \in DOMAIN inFlight' : inFlight'[x] = inFlight[x]
      /\ DOMAIN cached' \subseteq DOMAIN cached \cup {k}
      /\ \A x \in DOMAIN cached' :
           cached'[x] = IF x = k THEN [req |-> inFlight[k], reply |-> reply] ELSE cached[x]
      /\ DOMAIN cached' \subseteq cachedSeqs'
      /\ outcome' = [outcome EXCEPT ![s] = Put(@, n, reply)]
      /\ UNCHANGED <<grants, next, issued, log>>
  BY CompleteFacts
<1> HIDE DEF reply
<1>2. s \in Streams /\ n \in Seqs
  BY <1>1 DEF Keys
<1>3. /\ DOMAIN outcome'[s] = DOMAIN outcome[s] \cup {n}
      /\ \A m \in DOMAIN outcome'[s] :
           outcome'[s][m] = IF m = n THEN reply ELSE outcome[s][m]
      /\ \A r \in Streams : r # s => outcome'[r] = outcome[r]
  <2>1. /\ outcome'[s] = Put(outcome[s], n, reply)
        /\ \A r \in Streams : r # s => outcome'[r] = outcome[r]
    BY <1>1, <1>2 DEF IInv, CoreTypeOK
  <2> QED BY <2>1 DEF Put
<1>4. n \in 1..Len(log[s]) /\ inFlight[k] \in Requests /\ inFlight[k] = log[s][n]
  <2>1. n \in 1..MaxSeq /\ n < next[s] /\ inFlight[k] = log[s][n] /\ inFlight[k] \in Requests
    BY <1>1, <1>2 DEF IInv, CoreTypeOK, SequenceNamesOneExecution, Seqs
  <2>2. next[s] \in 0..(MaxSeq + 1) /\ Len(log[s]) = IF next[s] = 0 THEN 0 ELSE next[s] - 1
    BY <1>2 DEF IInv, CoreTypeOK, SequenceNamesOneExecution
  <2> QED BY <2>1, <2>2, LimitsAssumption
<1>5. CoreTypeOK'
  <2>1. outcome' \in [Streams -> UNION {[D -> Replies] : D \in SUBSET Seqs}]
    <3>1. outcome[s] \in UNION {[D -> Replies] : D \in SUBSET Seqs}
      BY <1>2 DEF IInv, CoreTypeOK
    <3>2. PICK D \in SUBSET Seqs : outcome[s] \in [D -> Replies]
      BY <3>1
    <3>3. Put(outcome[s], n, reply) \in [D \cup {n} -> Replies]
      BY <1>1, <3>2 DEF Put
    <3>4. D \cup {n} \in SUBSET Seqs
      BY <1>2
    <3>5. Put(outcome[s], n, reply) \in UNION {[E -> Replies] : E \in SUBSET Seqs}
      BY <3>3, <3>4
    <3> QED BY <1>1, <1>2, <3>5 DEF IInv, CoreTypeOK
  <2>2. DOMAIN inFlight' \subseteq Keys /\ \A x \in DOMAIN inFlight' : inFlight'[x] \in Requests
    BY <1>1 DEF IInv, CoreTypeOK
  <2>3. DOMAIN cached' \subseteq Keys
    BY <1>1 DEF IInv, CoreTypeOK
  <2>4. \A x \in DOMAIN cached' : cached'[x] \in [req : Requests, reply : Replies]
    BY <1>1, <1>4 DEF IInv, CoreTypeOK
  <2> QED BY <1>1, <2>1, <2>2, <2>3, <2>4 DEF IInv, CoreTypeOK
<1>6. OneSessionPerStream'
  BY <1>1 DEF IInv, OneSessionPerStream, GrantOf
<1>7. SequenceNamesOneExecution'
  <2>1. ASSUME NEW x \in DOMAIN cached'
        PROVE  x[2] < next[x[1]] /\ cached'[x].req = log[x[1]][x[2]]
    <3>1. CASE x = k
      BY <1>1, <1>4, <3>1 DEF IInv, SequenceNamesOneExecution
    <3>2. CASE x # k
      BY <1>1, <3>2 DEF IInv, SequenceNamesOneExecution
    <3> QED BY <3>1, <3>2
  <2> QED BY <1>1, <2>1 DEF IInv, SequenceNamesOneExecution
<1>8. OneFate'
  <2>1. ASSUME NEW r \in Streams PROVE DOMAIN outcome'[r] \subseteq 1..Len(log[r])
    BY <1>3, <1>4 DEF IInv, OneFate
  <2>2. ASSUME NEW r \in Streams, NEW m \in 1..Len(log[r])
        PROVE  (<<r, m>> \in DOMAIN inFlight') # (m \in DOMAIN outcome'[r])
    <3>1. (<<r, m>> \in DOMAIN inFlight) # (m \in DOMAIN outcome[r])
      BY DEF IInv, OneFate
    <3>2. CASE r = s /\ m = n
      BY <1>1, <1>3, <3>2
    <3>3. CASE ~(r = s /\ m = n)
      <4>1. <<r, m>> \in DOMAIN inFlight' <=> <<r, m>> \in DOMAIN inFlight
        BY <1>1, <3>3
      <4>2. m \in DOMAIN outcome'[r] <=> m \in DOMAIN outcome[r]
        BY <1>3, <3>3
      <4> QED BY <3>1, <4>1, <4>2
    <3> QED BY <3>2, <3>3
  <2>3. ASSUME NEW x \in DOMAIN cached'
        PROVE  x[2] \in DOMAIN outcome'[x[1]] /\ cached'[x].reply = outcome'[x[1]][x[2]]
    <3>1. CASE x = k
      BY <1>1, <1>3, <3>1
    <3>2. CASE x # k
      <4>1. x \in DOMAIN cached /\ x \in Keys /\ cached'[x] = cached[x]
        BY <1>1, <3>2 DEF IInv, CoreTypeOK
      <4>2. x[2] \in DOMAIN outcome[x[1]] /\ cached[x].reply = outcome[x[1]][x[2]]
        BY <4>1 DEF IInv, OneFate
      <4>3. x[1] \in Streams /\ (x[1] = s => x[2] # n)
        BY <3>2, <4>1 DEF Keys
      <4>4. x[2] \in DOMAIN outcome'[x[1]] /\ outcome'[x[1]][x[2]] = outcome[x[1]][x[2]]
        <5>1. CASE x[1] = s
          BY <1>3, <4>2, <4>3, <5>1
        <5>2. CASE x[1] # s
          BY <1>3, <4>2, <4>3, <5>2
        <5> QED BY <5>1, <5>2
      <4> QED BY <4>1, <4>2, <4>4
    <3> QED BY <3>1, <3>2
  <2> QED BY <1>1, <2>1, <2>2, <2>3 DEF OneFate
<1>9. IsFiniteSet(grants')
  BY <1>1 DEF IInv
<1> QED BY <1>1, <1>5, <1>6, <1>7, <1>8, <1>9 DEF IInv

\* GrantStream, Admit and Complete, whatever they answer.
LEMMA NextInv == IInv /\ [Next]_vars => IInv'
<1> SUFFICES ASSUME IInv, [Next]_vars PROVE IInv'
  OBVIOUS
<1>1. CASE GrantStep
  <2> PICK s \in Streams, e \in Epochs, p \in Peers : GrantStream(s, e, p)
    BY <1>1 DEF GrantStep
  <2>1. CASE InstallGrant(s, e, p)
    BY <2>1, InstallGrantInv
  <2>2. CASE GrantAgain(s, e) \/ GrantOverloaded(s)
    BY <2>2, StutterInv DEF GrantAgain, GrantOverloaded, core
  <2> QED BY <2>1, <2>2 DEF GrantStream
<1>2. CASE AdmitStep
  <2> PICK s \in Streams, e \in Epochs, p \in Peers, n \in 0..(MaxSeq + 1), req \in Requests :
        Admit(s, e, p, n, req)
    BY <1>2 DEF AdmitStep
  <2>1. CASE AdmitExecute(s, n, req)
    BY <2>1, AdmitExecuteInv
  <2>2. CASE AdmitRejected(s, e, p, n, req) \/ AdmitGap(s, n) \/ AdmitUsed(s, n, req)
    BY <2>2, StutterInv DEF AdmitRejected, AdmitGap, AdmitUsed, StateUnchanged, core
  <2> QED BY <2>1, <2>2 DEF Admit
<1>3. CASE CompleteStep
  <2> PICK t \in issued : CompleteRejected(t) \/ \E o \in Outcomes : Complete(t, o)
    BY <1>3 DEF CompleteStep
  <2>1. CASE CompleteRejected(t)
    BY <2>1, StutterInv DEF CompleteRejected, StateUnchanged, core
  <2>2. CASE \E o \in Outcomes : Complete(t, o)
    BY <2>2, CompleteInv
  <2> QED BY <2>1, <2>2
<1>4. CASE UNCHANGED vars
  BY <1>4, StutterInv DEF vars, core
<1> QED BY <1>1, <1>2, <1>3, <1>4 DEF Next

-----------------------------------------------------------------------------
(* What follows for every caller.                                          *)

\* IInv is an invariant of the component, whoever calls it.
THEOREM Invariance == Spec => []IInv
  BY InitInv, NextInv, PTL DEF Spec

\* Grants, sequence state and retained replies keep their types.
THEOREM CoreTyped == Spec => []CoreTypeOK
<1>1. IInv => CoreTypeOK
  BY DEF IInv
<1> QED BY <1>1, Invariance, PTL

\* One grant per stream, sequence state exactly while it is installed, never
\* more than max_ordered_streams (GrantStream).
THEOREM SingleSession == Spec => []OneSessionPerStream
<1>1. IInv => OneSessionPerStream
  BY DEF IInv
<1> QED BY <1>1, Invariance, PTL

\* A sequence belongs to the one request that was executed at it (Admit).
THEOREM ExecutedOnce == Spec => []SequenceNamesOneExecution
<1>1. IInv => SequenceNamesOneExecution
  BY DEF IInv
<1> QED BY <1>1, Invariance, PTL

\* Every consumed sequence is in flight or has its one terminal reply, and the
\* cache holds that one (Complete).
THEOREM SingleFate == Spec => []OneFate
<1>1. IInv => OneFate
  BY DEF IInv
<1> QED BY <1>1, Invariance, PTL

-----------------------------------------------------------------------------
(* What no step takes back.                                                *)

\* What a step may do to a stream whose session it does not switch.
Kept(s) ==
  /\ next'[s] >= next[s]
  /\ Len(log'[s]) >= Len(log[s])
  /\ SubSeq(log'[s], 1, Len(log[s])) = log[s]
  /\ DOMAIN outcome[s] \subseteq DOMAIN outcome'[s]

\* A stream whose next sequence and log stay, and whose replies stay, is kept.
LEMMA KeptWhenSame ==
  ASSUME IInv, NEW s \in Streams, next'[s] = next[s], log'[s] = log[s],
         DOMAIN outcome[s] \subseteq DOMAIN outcome'[s]
  PROVE  Kept(s)
<1>1. next[s] \in 0..(MaxSeq + 1) /\ log[s] \in Seq(Requests)
  BY DEF IInv, CoreTypeOK
<1>2. next[s] \in Int
  BY <1>1, LimitsAssumption
<1>3. Len(log[s]) \in Nat /\ SubSeq(log[s], 1, Len(log[s])) = log[s]
  BY <1>1
<1> QED BY <1>2, <1>3 DEF Kept

\* A session switch is seen in the grant of its own stream, and only there.
LEMMA InstallKeeps ==
  ASSUME IInv, NEW s \in Streams, NEW e \in Epochs, NEW p \in Peers, InstallGrant(s, e, p),
         NEW r \in Streams, GrantOf(r)' = GrantOf(r)
  PROVE  Kept(r)
<1> DEFINE g == [stream |-> s, epoch |-> e, peer |-> p]
<1>1. /\ \A h \in GrantOf(s) : h.epoch # e
      /\ grants' = Remaining(s) \cup {g}
      /\ next' = [next EXCEPT ![s] = 1]
      /\ log' = [log EXCEPT ![s] = <<>>]
      /\ outcome' = [outcome EXCEPT ![s] = Empty]
  BY DEF InstallGrant
<1>2. r # s
  <2> SUFFICES ASSUME r = s PROVE FALSE
    OBVIOUS
  <2>1. g \in GrantOf(r)'
    BY <1>1 DEF GrantOf
  <2> QED BY <1>1, <2>1
<1>3. next'[r] = next[r] /\ log'[r] = log[r] /\ outcome'[r] = outcome[r]
  BY <1>1, <1>2 DEF IInv, CoreTypeOK
<1> QED BY <1>3, KeptWhenSame

\* An execution is appended behind the earlier ones of its stream.
LEMMA AdmitKeeps ==
  ASSUME IInv, NEW s \in Streams, NEW n \in 0..(MaxSeq + 1), NEW req \in Requests,
         AdmitExecute(s, n, req), NEW r \in Streams
  PROVE  Kept(r)
<1>1. /\ next' = [next EXCEPT ![s] = @ + 1]
      /\ log' = [log EXCEPT ![s] = Append(@, req)]
      /\ outcome' = outcome
  BY DEF AdmitExecute
<1>2. CASE r # s
  <2>1. next'[r] = next[r] /\ log'[r] = log[r]
    BY <1>1, <1>2 DEF IInv, CoreTypeOK
  <2> QED BY <1>1, <2>1, KeptWhenSame
<1>3. CASE r = s
  <2>1. next'[s] = next[s] + 1 /\ log'[s] = Append(log[s], req)
    BY <1>1 DEF IInv, CoreTypeOK
  <2>2. next[s] \in 0..(MaxSeq + 1) /\ log[s] \in Seq(Requests)
    BY DEF IInv, CoreTypeOK
  <2>3. next'[s] >= next[s]
    BY <2>1, <2>2, LimitsAssumption
  <2>4. Len(log'[s]) >= Len(log[s])
    BY <2>1, <2>2
  <2>5. SubSeq(log'[s], 1, Len(log[s])) = log[s]
    BY <2>1, <2>2
  <2> QED BY <1>1, <1>3, <2>3, <2>4, <2>5 DEF Kept
<1> QED BY <1>2, <1>3

\* A finished request adds its reply to those of its stream.
LEMMA CompleteKeeps ==
  ASSUME IInv, NEW t \in issued, NEW o \in Outcomes, Complete(t, o), NEW r \in Streams
  PROVE  Kept(r)
<1> DEFINE reply == [for |-> t.req, outcome |-> Normalized(o)]
<1>1. /\ outcome' = [outcome EXCEPT ![t.stream] = Put(@, t.seq, reply)]
      /\ next' = next /\ log' = log
  BY DEF Complete
<1>2. outcome'[r] = IF r = t.stream THEN Put(outcome[r], t.seq, reply) ELSE outcome[r]
  BY <1>1 DEF IInv, CoreTypeOK
<1>3. DOMAIN outcome[r] \subseteq DOMAIN outcome'[r]
  BY <1>2 DEF Put
<1> QED BY <1>1, <1>3, KeptWhenSame

LEMMA SameKeeps ==
  ASSUME IInv, UNCHANGED core, NEW r \in Streams
  PROVE  Kept(r)
  BY KeptWhenSame DEF core

\* As long as the session of its stream is not switched, nothing that was
\* executed is undone or executed again, and nothing finished is unfinished.
THEOREM NeverBack == Spec => ConsumedForever
<1> DEFINE Step == \A s \in Streams : GrantOf(s)' = GrantOf(s) => Kept(s)
<1>1. ASSUME IInv, [Next]_vars PROVE Step
  <2> SUFFICES ASSUME NEW r \in Streams, GrantOf(r)' = GrantOf(r) PROVE Kept(r)
    OBVIOUS
  <2>1. CASE GrantStep
    <3> PICK s \in Streams, e \in Epochs, p \in Peers : GrantStream(s, e, p)
      BY <2>1 DEF GrantStep
    <3>1. CASE InstallGrant(s, e, p)
      BY <1>1, <3>1, InstallKeeps
    <3>2. CASE GrantAgain(s, e) \/ GrantOverloaded(s)
      BY <1>1, <3>2, SameKeeps DEF GrantAgain, GrantOverloaded, core
    <3> QED BY <3>1, <3>2 DEF GrantStream
  <2>2. CASE AdmitStep
    <3> PICK s \in Streams, e \in Epochs, p \in Peers, n \in 0..(MaxSeq + 1), req \in Requests :
          Admit(s, e, p, n, req)
      BY <2>2 DEF AdmitStep
    <3>1. CASE AdmitExecute(s, n, req)
      BY <1>1, <3>1, AdmitKeeps
    <3>2. CASE AdmitRejected(s, e, p, n, req) \/ AdmitGap(s, n) \/ AdmitUsed(s, n, req)
      BY <1>1, <3>2, SameKeeps DEF AdmitRejected, AdmitGap, AdmitUsed, StateUnchanged, core
    <3> QED BY <3>1, <3>2 DEF Admit
  <2>3. CASE CompleteStep
    <3> PICK t \in issued : CompleteRejected(t) \/ \E o \in Outcomes : Complete(t, o)
      BY <2>3 DEF CompleteStep
    <3>1. CASE CompleteRejected(t)
      BY <1>1, <3>1, SameKeeps DEF CompleteRejected, StateUnchanged, core
    <3>2. CASE \E o \in Outcomes : Complete(t, o)
      BY <1>1, <3>2, CompleteKeeps
    <3> QED BY <3>1, <3>2
  <2>4. CASE UNCHANGED vars
    BY <1>1, <2>4, SameKeeps DEF vars, core
  <2> QED BY <1>1, <2>1, <2>2, <2>3, <2>4 DEF Next
<1>2. ASSUME Step PROVE [\A s \in Streams : GrantOf(s)' = GrantOf(s) =>
       /\ next'[s] >= next[s]
       /\ Len(log'[s]) >= Len(log[s])
       /\ SubSeq(log'[s], 1, Len(log[s])) = log[s]
       /\ DOMAIN outcome[s] \subseteq DOMAIN outcome'[s]]_vars
  BY <1>2, Zenon DEF Kept
<1> QED BY <1>1, <1>2, Invariance, PTL DEF Spec, ConsumedForever

-----------------------------------------------------------------------------
(* Inside CoApp, where no session is switched once calls are admitted.     *)

\* An admission that a caller holds names the request it was issued for.
TicketsTrue ==
  \A t \in issued : t.seq \in 1..Len(log[t.stream]) /\ log[t.stream][t.seq] = t.req

SealedInv == IInv /\ TicketsTrue /\ ReplyIsOwn

LEMMA SealedIsNext == [SealedNext]_vars => [Next]_vars
  BY DEF SealedNext, Next

LEMMA SealedInitInv == Init => SealedInv
<1>1. Init => TicketsTrue /\ ReplyIsOwn
  BY DEF Init, TicketsTrue, ReplyIsOwn, Empty
<1> QED BY <1>1, InitInv DEF SealedInv

\* Tickets stay true when the next request is executed (Admit).
LEMMA AdmitExecuteTickets ==
  ASSUME IInv, TicketsTrue, NEW s \in Streams, NEW n \in 0..(MaxSeq + 1),
         NEW req \in Requests, AdmitExecute(s, n, req)
  PROVE  TicketsTrue'
<1>1. /\ n = next[s] /\ n > 0 /\ n \in Nat
      /\ issued' = issued \cup {[stream |-> s, seq |-> n, req |-> req]}
      /\ log' = [log EXCEPT ![s] = Append(@, req)]
  BY LimitsAssumption DEF AdmitExecute
<1>2. /\ log[s] \in Seq(Requests) /\ Len(log[s]) = n - 1
      /\ Len(log'[s]) = n /\ log'[s][n] = req
      /\ \A i \in 1..(n - 1) : log'[s][i] = log[s][i]
      /\ \A r \in Streams : r # s => log'[r] = log[r]
  BY <1>1 DEF IInv, CoreTypeOK, SequenceNamesOneExecution
<1>3. ASSUME NEW t \in issued
      PROVE  t.seq \in 1..Len(log'[t.stream]) /\ log'[t.stream][t.seq] = t.req
  <2>1. t.stream \in Streams
    BY DEF IInv, CoreTypeOK, Tickets
  <2>2. t.seq \in 1..Len(log[t.stream]) /\ log[t.stream][t.seq] = t.req
    BY DEF TicketsTrue
  <2>3. CASE t.stream = s
    BY <1>1, <1>2, <2>2, <2>3
  <2>4. CASE t.stream # s
    BY <1>2, <2>1, <2>2, <2>4
  <2> QED BY <2>3, <2>4
<1> QED BY <1>1, <1>2, <1>3 DEF TicketsTrue

\* A reply that enters the cache was produced for the request of its entry and
\* passed the error boundary (Complete).
LEMMA CompleteOwn ==
  ASSUME IInv, TicketsTrue, ReplyIsOwn, NEW t \in issued, NEW o \in Outcomes, Complete(t, o)
  PROVE  TicketsTrue' /\ ReplyIsOwn' /\ log[t.stream][t.seq] = t.req
<1> DEFINE k == <<t.stream, t.seq>>
           reply == [for |-> t.req, outcome |-> Normalized(o)]
<1>1. /\ k \in DOMAIN inFlight /\ reply.outcome \notin InvalidErrors
      /\ DOMAIN cached' \subseteq DOMAIN cached \cup {k}
      /\ \A x \in DOMAIN cached' :
           cached'[x] = IF x = k THEN [req |-> inFlight[k], reply |-> reply] ELSE cached[x]
      /\ UNCHANGED <<issued, log>>
  BY CompleteFacts
<1>2. inFlight[k] = t.req /\ log[t.stream][t.seq] = t.req
  BY <1>1 DEF IInv, SequenceNamesOneExecution, TicketsTrue
<1>3. ASSUME NEW x \in DOMAIN cached'
      PROVE  cached'[x].reply.for = cached'[x].req /\ cached'[x].reply.outcome \notin InvalidErrors
  <2>1. CASE x = k
    BY <1>1, <1>2, <2>1
  <2>2. CASE x # k
    BY <1>1, <2>2 DEF ReplyIsOwn
  <2> QED BY <2>1, <2>2
<1> QED BY <1>1, <1>2, <1>3 DEF TicketsTrue, ReplyIsOwn

LEMMA SealedNextInv == SealedInv /\ [SealedNext]_vars => SealedInv'
<1> SUFFICES ASSUME SealedInv, [SealedNext]_vars PROVE SealedInv'
  OBVIOUS
<1> USE DEF SealedInv
<1>1. IInv'
  BY SealedIsNext, NextInv
<1>2. CASE GrantStep /\ issued = {}
  <2> PICK s \in Streams, e \in Epochs, p \in Peers : GrantStream(s, e, p)
    BY <1>2 DEF GrantStep
  <2>1. issued' = {}
    BY <1>2 DEF GrantStream, InstallGrant, GrantAgain, GrantOverloaded
  <2>2. ReplyIsOwn'
    <3>1. CASE InstallGrant(s, e, p)
      BY <3>1, InstallFacts DEF ReplyIsOwn
    <3>2. CASE GrantAgain(s, e) \/ GrantOverloaded(s)
      BY <3>2 DEF GrantAgain, GrantOverloaded, ReplyIsOwn
    <3> QED BY <3>1, <3>2 DEF GrantStream
  <2> QED BY <1>1, <2>1, <2>2 DEF TicketsTrue
<1>3. CASE AdmitStep
  <2> PICK s \in Streams, e \in Epochs, p \in Peers, n \in 0..(MaxSeq + 1), req \in Requests :
        Admit(s, e, p, n, req)
    BY <1>3 DEF AdmitStep
  <2>1. CASE AdmitExecute(s, n, req)
    <3>1. cached' = cached
      BY <2>1 DEF AdmitExecute
    <3> QED BY <1>1, <2>1, <3>1, AdmitExecuteTickets DEF ReplyIsOwn
  <2>2. CASE AdmitRejected(s, e, p, n, req) \/ AdmitGap(s, n) \/ AdmitUsed(s, n, req)
    BY <1>1, <2>2 DEF AdmitRejected, AdmitGap, AdmitUsed, StateUnchanged, TicketsTrue, ReplyIsOwn
  <2> QED BY <2>1, <2>2 DEF Admit
<1>4. CASE CompleteStep
  <2> PICK t \in issued : CompleteRejected(t) \/ \E o \in Outcomes : Complete(t, o)
    BY <1>4 DEF CompleteStep
  <2>1. CASE CompleteRejected(t)
    BY <1>1, <2>1 DEF CompleteRejected, StateUnchanged, TicketsTrue, ReplyIsOwn
  <2>2. CASE \E o \in Outcomes : Complete(t, o)
    BY <1>1, <2>2, CompleteOwn
  <2> QED BY <2>1, <2>2
<1>5. CASE UNCHANGED vars
  BY <1>1, <1>5 DEF vars, TicketsTrue, ReplyIsOwn
<1> QED BY <1>2, <1>3, <1>4, <1>5 DEF SealedNext

LEMMA SealedInvariance == SealedSpec => []SealedInv
  BY SealedInitInv, SealedNextInv, PTL DEF SealedSpec

\* The reply kept for a request is the one its own handler produced, for every
\* number of streams and every size of the cache (Complete).
THEOREM OwnReplies == SealedSpec => []ReplyIsOwn
<1>1. SealedInv => ReplyIsOwn
  BY DEF SealedInv
<1> QED BY <1>1, SealedInvariance, PTL

-----------------------------------------------------------------------------
(* The component inside CoApp implements the ordered log.                  *)

LEMMA LogInit == Init => Log!Init
  BY DEF Init, Log!Init, Empty, Log!Empty

\* A grant starts a log or says nothing (GrantStream).
LEMMA GrantIsLogStep ==
  ASSUME NEW s \in Streams, NEW e \in Epochs, NEW p \in Peers, GrantStream(s, e, p)
  PROVE  Log!Next
<1>1. CASE InstallGrant(s, e, p)
  <2>1. Log!NewSession(s)
    BY <1>1 DEF InstallGrant, Quiet, Log!NewSession, Empty, Log!Empty
  <2> QED BY <2>1 DEF Log!Next
<1>2. CASE GrantAgain(s, e) \/ GrantOverloaded(s)
  <2>1. Log!Quiet
    BY <1>2 DEF GrantAgain, GrantOverloaded, Quiet, Log!Quiet
  <2> QED BY <2>1 DEF Log!Next
<1> QED BY <1>1, <1>2 DEF GrantStream

\* The position of a request in the log, seen from next_sequence.
LEMMA PositionOfSequence ==
  ASSUME IInv, NEW s \in Streams, NEW n \in 0..(MaxSeq + 1), next[s] # 0
  PROVE  /\ next[s] = Len(log[s]) + 1 /\ Len(log[s]) \in Nat /\ next[s] \in Nat
         /\ Log!Used(s, n) <=> n > 0 /\ n < next[s]
<1>1. /\ next[s] \in 0..(MaxSeq + 1) /\ log[s] \in Seq(Requests)
      /\ Len(log[s]) = IF next[s] = 0 THEN 0 ELSE next[s] - 1
  BY DEF IInv, CoreTypeOK, SequenceNamesOneExecution
<1> QED BY <1>1, LimitsAssumption DEF Log!Used

\* What is answered for a consumed sequence is true of its position (Admit).
LEMMA UsedIsLogStep ==
  ASSUME IInv, NEW s \in Streams, NEW n \in 0..(MaxSeq + 1), NEW req \in Requests,
         next[s] # 0, AdmitUsed(s, n, req)
  PROVE  Log!Next
<1> DEFINE k == <<s, n>>
<1>1. Log!Used(s, n)
  BY PositionOfSequence DEF AdmitUsed
<1>2. n \in 1..Len(log[s])
  BY <1>1 DEF Log!Used
<1>3. (k \in DOMAIN inFlight) # (n \in DOMAIN outcome[s])
  BY <1>2 DEF IInv, OneFate
<1>4. UNCHANGED <<log, outcome>>
  BY DEF AdmitUsed, StateUnchanged
<1>5. ASSUME NEW kind \in {"InProgress", "Conflict", "Expired"},
             Log!MayRefuse(kind, s, n, req), Refuse(kind, s, n, req)
      PROVE  Log!Next
  <2>1. Log!Refuse(kind, s, n, req)
    BY <1>4, <1>5 DEF Refuse, Log!Refuse
  <2> QED BY <2>1 DEF Log!Next, Log!RefusalKinds
<1>6. CASE k \in DOMAIN inFlight
  <2>1. n \notin DOMAIN outcome[s] /\ inFlight[k] = log[s][n]
    BY <1>3, <1>6 DEF IInv, SequenceNamesOneExecution
  <2>2. CASE inFlight[k] = req
    <3>1. Refuse("InProgress", s, n, req)
      BY <1>6, <2>2 DEF AdmitUsed
    <3>2. Log!MayRefuse("InProgress", s, n, req)
      BY <1>1, <2>1, <2>2 DEF Log!MayRefuse
    <3> QED BY <1>5, <3>1, <3>2
  <2>3. CASE inFlight[k] # req
    <3>1. Refuse("Conflict", s, n, req)
      BY <1>6, <2>3 DEF AdmitUsed
    <3>2. Log!MayRefuse("Conflict", s, n, req)
      BY <1>1, <2>1, <2>3 DEF Log!MayRefuse
    <3> QED BY <1>5, <3>1, <3>2
  <2> QED BY <2>2, <2>3
<1>7. CASE k \notin DOMAIN inFlight /\ k \in DOMAIN cached
  <2>1. /\ n \in DOMAIN outcome[s] /\ cached[k].reply = outcome[s][n]
        /\ cached[k].req = log[s][n]
    BY <1>7 DEF IInv, OneFate, SequenceNamesOneExecution
  <2>2. CASE cached[k].req = req
    <3>1. Replay(s, n, req)
      BY <1>7, <2>2 DEF AdmitUsed
    <3>2. Log!Replay(s, n, req)
      BY <1>1, <1>4, <2>1, <2>2, <3>1 DEF Replay, Log!Replay
    <3> QED BY <3>2 DEF Log!Next
  <2>3. CASE cached[k].req # req
    <3>1. Refuse("Conflict", s, n, req)
      BY <1>7, <2>3 DEF AdmitUsed
    <3>2. Log!MayRefuse("Conflict", s, n, req)
      BY <1>1, <2>1, <2>3 DEF Log!MayRefuse
    <3> QED BY <1>5, <3>1, <3>2
  <2> QED BY <2>2, <2>3
<1>8. CASE k \notin DOMAIN inFlight /\ k \notin DOMAIN cached
  <2>1. Refuse("Expired", s, n, req)
    BY <1>8 DEF AdmitUsed
  <2>2. Log!MayRefuse("Expired", s, n, req)
    BY <1>1, <1>3, <1>8 DEF Log!MayRefuse
  <2> QED BY <1>5, <2>1, <2>2
<1> QED BY <1>6, <1>7, <1>8

\* Every decision of Admit is one of the log's.
LEMMA AdmitIsLogStep ==
  ASSUME IInv, NEW s \in Streams, NEW e \in Epochs, NEW p \in Peers,
         NEW n \in 0..(MaxSeq + 1), NEW req \in Requests, Admit(s, e, p, n, req)
  PROVE  Log!Next
<1>1. CASE AdmitRejected(s, e, p, n, req)
  <2>1. Log!Refuse("Rejected", s, n, req)
    BY <1>1 DEF AdmitRejected, StateUnchanged, Refuse, Log!Refuse, Log!MayRefuse
  <2> QED BY <2>1 DEF Log!Next, Log!RefusalKinds
<1>2. CASE Authorized(s, e, p) /\ (AdmitGap(s, n) \/ AdmitUsed(s, n, req) \/ AdmitExecute(s, n, req))
  <2>1. next[s] # 0
    BY <1>2 DEF Authorized, IInv, OneSessionPerStream, GrantOf
  <2>2. CASE AdmitGap(s, n)
    <3>1. Log!Gap(s, n)
      BY <2>1, <2>2, PositionOfSequence DEF AdmitGap, StateUnchanged, Log!Gap
    <3> QED BY <3>1 DEF Log!Next
  <2>3. CASE AdmitUsed(s, n, req)
    BY <2>1, <2>3, UsedIsLogStep
  <2>4. CASE AdmitExecute(s, n, req)
    <3>1. Log!Execute(s, req)
      BY <2>1, <2>4, PositionOfSequence DEF AdmitExecute, Answer, Log!Execute
    <3> QED BY <3>1 DEF Log!Next
  <2> QED BY <1>2, <2>2, <2>3, <2>4
<1> QED BY <1>1, <1>2 DEF Admit

\* A terminal reply is written once, to the position of its request (Complete).
LEMMA CompleteIsLogStep ==
  ASSUME SealedInv, NEW t \in issued, NEW o \in Outcomes, Complete(t, o)
  PROVE  Log!Next
<1> DEFINE s == t.stream
           n == t.seq
           reply == [for |-> t.req, outcome |-> Normalized(o)]
<1>1. /\ <<s, n>> \in Keys /\ reply \in Replies /\ <<s, n>> \in DOMAIN inFlight
      /\ outcome' = [outcome EXCEPT ![s] = Put(@, n, reply)]
      /\ UNCHANGED log
  BY CompleteFacts DEF SealedInv
<1>2. reply.for = log[s][n]
  BY CompleteOwn DEF SealedInv
<1>3. answer' = [kind |-> "Completed", stream |-> s, seq |-> n]
  BY DEF Complete, Answer
<1>4. s \in Streams /\ n \in 0..(MaxSeq + 1) /\ n \in 1..Len(log[s])
  <2>1. s \in Streams /\ n \in Seqs
    BY <1>1 DEF Keys
  <2> QED BY <2>1, LimitsAssumption DEF Seqs, SealedInv, TicketsTrue
<1>5. n \notin DOMAIN outcome[s]
  BY <1>1, <1>4 DEF SealedInv, IInv, OneFate
<1>6. Log!Finish(s, n, reply)
  BY <1>1, <1>2, <1>3, <1>4, <1>5 DEF Log!Finish, Log!Used, Put
<1> QED BY <1>1, <1>4, <1>6 DEF Log!Next

LEMMA LogStep == SealedInv /\ [SealedNext]_vars => [Log!Next]_(Log!vars)
<1> SUFFICES ASSUME SealedInv, [SealedNext]_vars PROVE [Log!Next]_(Log!vars)
  OBVIOUS
<1>1. CASE GrantStep
  BY <1>1, GrantIsLogStep DEF GrantStep
<1>2. CASE AdmitStep
  BY <1>2, AdmitIsLogStep DEF AdmitStep, SealedInv
<1>3. CASE CompleteStep
  <2> PICK t \in issued : CompleteRejected(t) \/ \E o \in Outcomes : Complete(t, o)
    BY <1>3 DEF CompleteStep
  <2>1. CASE CompleteRejected(t)
    <3>1. Log!Quiet
      BY <2>1 DEF CompleteRejected, StateUnchanged, Quiet, Log!Quiet
    <3> QED BY <3>1 DEF Log!Next
  <2>2. CASE \E o \in Outcomes : Complete(t, o)
    BY <2>2, CompleteIsLogStep
  <2> QED BY <2>1, <2>2
<1>4. CASE UNCHANGED vars
  BY <1>4 DEF vars, Log!vars
<1> QED BY <1>1, <1>2, <1>3, <1>4 DEF SealedNext

\* Inside CoApp the component is the ordered log: executions append, a position
\* gets one reply, and no answer says anything false about the log.
THEOREM LogRefined == SealedSpec => ImplementsOrderedLog
<1>1. SealedSpec => []SealedInv
  BY SealedInvariance
<1> QED BY <1>1, LogInit, LogStep, PTL DEF SealedSpec, ImplementsOrderedLog, Log!Spec

-----------------------------------------------------------------------------
(* The bytes of a set of replies.                                          *)

Weight(f, k) == Size[f[k].reply.outcome]
Weighed(f, K) == \A k \in K : Weight(f, k) \in Nat

\* The bytes of a set are the sum of its weights (BytesOf).
LEMMA BytesSum ==
  ASSUME NEW f, NEW K, IsFiniteSet(K), Weighed(f, K), NEW w, \A k \in K : w[k] = Weight(f, k)
  PROVE  BytesOf(f, K) = SumFunctionOnSet(w, K) /\ Numbers(w, K)
<1> DEFINE Table(it) ==
             it = [S \in SUBSET K |->
                     IF S = {} THEN 0 ELSE Weight(f, Some(S)) + it[S \ {Some(S)}]]
<1>1. Numbers(w, K)
  BY DEF Numbers, Weighed
<1>2. ASSUME NEW it PROVE Table(it) <=> IsTable(w, K, it)
  <2>1. [S \in SUBSET K |-> IF S = {} THEN 0 ELSE Weight(f, Some(S)) + it[S \ {Some(S)}]]
          = [S \in SUBSET K |-> IF S = {} THEN 0 ELSE w[Some(S)] + it[S \ {Some(S)}]]
    <3>1. \A S \in SUBSET K : S # {} => w[Some(S)] = Weight(f, Some(S))
      BY SomeIn
    <3> QED BY <3>1
  <2> QED BY <2>1 DEF IsTable
<1>3. PICK it : IsTable(w, K, it) /\ SumFunctionOnSet(w, K) = it[K]
  BY <1>1, SumTable
<1>4. Table(CHOOSE ht : Table(ht))
  <2>1. \E ht : Table(ht)
    BY <1>2, <1>3
  <2> HIDE DEF Table
  <2> QED BY <2>1
<1>5. PICK jt : jt = CHOOSE ht : Table(ht)
  OBVIOUS
<1>6. BytesOf(f, K) = jt[K]
  BY <1>5 DEF BytesOf, MapThenSumSet, MapThenFoldSet, Weight, Some
<1>7. it[K] = jt[K]
  <2>1. Table(jt)
    BY <1>4, <1>5
  <2>2. IsTable(w, K, jt)
    BY <1>2, <2>1
  <2> QED BY <1>3, <2>2, TablesAgree
<1> QED BY <1>1, <1>3, <1>6, <1>7

\* No replies have no bytes.
LEMMA BytesOfNone == ASSUME NEW f PROVE BytesOf(f, {}) = 0
<1>1. PICK w : w = [k \in {} |-> 0]
  OBVIOUS
<1>2. BytesOf(f, {}) = SumFunctionOnSet(w, {})
  BY BytesSum, FS_EmptySet DEF Weighed
<1> QED BY <1>2, SumNone

\* The bytes of one reply are its size.
LEMMA BytesOfOne ==
  ASSUME NEW f, NEW k, Weight(f, k) \in Nat
  PROVE  BytesOf(f, {k}) = Weight(f, k)
<1>1. PICK K, w : K = {k} /\ w = [x \in K |-> Weight(f, x)]
  OBVIOUS
<1>2. IsFiniteSet(K) /\ Weighed(f, K) /\ w[k] = Weight(f, k) /\ \A x \in K : w[x] = Weight(f, x)
  BY <1>1, FS_Singleton DEF Weighed
<1>3. BytesOf(f, K) = SumFunctionOnSet(w, K)
  BY <1>2, BytesSum
<1> QED BY <1>1, <1>2, <1>3, SumOfOne

\* Bytes are a natural number.
LEMMA BytesAreNumbers ==
  ASSUME NEW f, NEW K, IsFiniteSet(K), Weighed(f, K)
  PROVE  BytesOf(f, K) \in Nat
<1>1. PICK w : w = [k \in K |-> Weight(f, k)]
  OBVIOUS
<1>2. BytesOf(f, K) = SumFunctionOnSet(w, K) /\ Numbers(w, K)
  BY <1>1, BytesSum
<1> QED BY <1>2, SumNumber

\* Only the replies of the set count.
LEMMA BytesAgree ==
  ASSUME NEW f, NEW g, NEW K, IsFiniteSet(K), Weighed(f, K), \A k \in K : g[k] = f[k]
  PROVE  BytesOf(g, K) = BytesOf(f, K)
<1>1. PICK w : w = [k \in K |-> Weight(f, k)]
  OBVIOUS
<1>2. BytesOf(f, K) = SumFunctionOnSet(w, K)
  BY <1>1, BytesSum
<1>3. Weighed(g, K) /\ \A k \in K : w[k] = Weight(g, k)
  BY <1>1 DEF Weighed, Weight
<1>4. BytesOf(g, K) = SumFunctionOnSet(w, K)
  BY <1>3, BytesSum
<1> QED BY <1>2, <1>4

\* Dropping a part of the replies takes that part's bytes away.
LEMMA BytesSplit ==
  ASSUME NEW f, NEW K, IsFiniteSet(K), Weighed(f, K), NEW P, P \subseteq K
  PROVE  /\ BytesOf(f, K) = BytesOf(f, K \ P) + BytesOf(f, P)
         /\ BytesOf(f, K \ P) \in Nat /\ BytesOf(f, P) \in Nat
<1>1. PICK w, R : w = [k \in K |-> Weight(f, k)] /\ R = K \ P
  OBVIOUS
<1>2. BytesOf(f, K) = SumFunctionOnSet(w, K) /\ Numbers(w, K)
  BY <1>1, BytesSum
<1>3. /\ IsFiniteSet(P) /\ Weighed(f, P) /\ \A k \in P : w[k] = Weight(f, k)
      /\ IsFiniteSet(R) /\ Weighed(f, R) /\ \A k \in R : w[k] = Weight(f, k)
  BY <1>1, FS_Subset DEF Weighed
<1>4. BytesOf(f, P) = SumFunctionOnSet(w, P) /\ BytesOf(f, R) = SumFunctionOnSet(w, R)
  BY <1>3, BytesSum
<1>5. SumFunctionOnSet(w, K) = SumFunctionOnSet(w, R) + SumFunctionOnSet(w, P)
  BY <1>1, <1>2, SumSplit
<1> QED BY <1>1, <1>2, <1>3, <1>4, <1>5, BytesAreNumbers

-----------------------------------------------------------------------------
(* The completion order.                                                   *)

OneToOne(order) == \A i, j \in 1..Len(order) : order[i] = order[j] => i = j
Elements(order) == {order[i] : i \in 1..Len(order)}

\* An order that names nothing twice names as many replies as it is long.
LEMMA OrderCounts ==
  ASSUME NEW order \in Seq(Keys), OneToOne(order)
  PROVE  IsFiniteSet(Elements(order)) /\ Cardinality(Elements(order)) = Len(order)
<1> DEFINE n == Len(order)
           b == [i \in 1..n |-> order[i]]
<1>1. n \in Nat
  OBVIOUS
<1>2. b \in Bijection(1..n, Elements(order))
  BY DEF Bijection, Injection, IsInjective, Surjection, OneToOne, Elements
<1>3. ExistsBijection(1..n, Elements(order))
  BY <1>2 DEF ExistsBijection
<1> QED BY <1>1, <1>3, FS_NatBijection, FS_CountingElements

\* A thinned order is the order of what is left (_DropStreamCache).
LEMMA ThinnedOrder ==
  ASSUME NEW K, NEW order \in Seq(K), OneToOne(order), NEW gone, NEW rest,
         Thinned(order, gone, rest)
  PROVE  rest \in Seq(K) /\ OneToOne(rest) /\ Elements(rest) = Elements(order) \ gone
<1> DEFINE kept == {i \in 1..Len(order) : order[i] \notin gone}
           n == Cardinality(kept)
<1>1. IsFiniteSet(kept) /\ n \in Nat
  <2>1. IsFiniteSet(1..Len(order)) /\ kept \in SUBSET (1..Len(order))
    BY FS_Interval
  <2> HIDE DEF kept
  <2> QED BY <2>1, FS_Subset, FS_CardinalityType
<1> HIDE DEF n
<1>2. PICK p \in [1..n -> kept] :
        /\ \A i, j \in DOMAIN p : i < j => p[i] < p[j]
        /\ rest = [i \in DOMAIN p |-> order[p[i]]]
  BY DEF Thinned, n
<1>3. \A i \in 1..n : p[i] \in 1..Len(order) /\ order[p[i]] \in K /\ order[p[i]] \notin gone
  BY <1>2
<1>4. rest \in Seq(K) /\ Len(rest) = n /\ \A i \in 1..n : rest[i] = order[p[i]]
  <2>1. rest = [i \in 1..n |-> order[p[i]]]
    BY <1>2
  <2> QED BY <1>1, <1>3, <2>1
<1>5. ASSUME NEW i \in 1..n, NEW j \in 1..n, p[i] = p[j] PROVE i = j
  <2>1. CASE i < j
    BY <1>2, <1>3, <1>5, <2>1
  <2>2. CASE j < i
    BY <1>2, <1>3, <1>5, <2>2
  <2> QED BY <1>1, <2>1, <2>2
<1>6. OneToOne(rest)
  BY <1>3, <1>4, <1>5 DEF OneToOne
<1>7. p \in Surjection(1..n, kept)
  <2>1. p \in Injection(1..n, kept)
    BY <1>2, <1>5 DEF Injection, IsInjective
  <2>2. Cardinality(1..n) = n
    BY <1>1, FS_Interval
  <2> QED BY <1>1, <2>1, <2>2, FS_Injection DEF n
<1>8. \A i \in kept : \E j \in 1..n : p[j] = i
  BY <1>7 DEF Surjection
<1>9. Elements(rest) = Elements(order) \ gone
  <2>1. \A x \in Elements(order) \ gone : \E i \in kept : order[i] = x
    BY DEF Elements
  <2>2. \A i \in kept : \E j \in 1..n : rest[j] = order[i]
    BY <1>4, <1>8
  <2>3. \A j \in 1..n : rest[j] \in Elements(order) /\ rest[j] \notin gone
    BY <1>3, <1>4 DEF Elements
  <2> HIDE DEF kept
  <2> QED BY <1>4, <2>1, <2>2, <2>3 DEF Elements
<1> QED BY <1>4, <1>6, <1>9

\* The order left by an eviction is the order of what is left (_EvictToLimits).
LEMMA EvictedOrder ==
  ASSUME NEW order \in Seq(Keys), OneToOne(order), NEW d \in 0..Len(order)
  PROVE  LET rest == SubSeq(order, d + 1, Len(order))
         IN  /\ rest \in Seq(Keys) /\ OneToOne(rest) /\ Len(rest) = Len(order) - d
             /\ Elements(rest) = {order[i] : i \in (d + 1)..Len(order)}
             /\ Elements(rest) = Elements(order) \ {order[i] : i \in 1..d}
<1> DEFINE rest == SubSeq(order, d + 1, Len(order))
<1>1. /\ rest \in Seq(Keys) /\ Len(rest) = Len(order) - d
      /\ \A i \in 1..(Len(order) - d) : rest[i] = order[i + d]
  OBVIOUS
<1> HIDE DEF rest
<1>2. OneToOne(rest)
  BY <1>1 DEF OneToOne
<1>3. Elements(rest) = {order[i] : i \in (d + 1)..Len(order)}
  <2>1. ASSUME NEW i \in (d + 1)..Len(order) PROVE order[i] \in Elements(rest)
    <3>1. i - d \in 1..Len(rest) /\ rest[i - d] = order[i]
      BY <1>1
    <3> QED BY <3>1 DEF Elements
  <2>2. ASSUME NEW i \in 1..Len(rest) PROVE rest[i] \in {order[j] : j \in (d + 1)..Len(order)}
    <3>1. i + d \in (d + 1)..Len(order) /\ rest[i] = order[i + d]
      BY <1>1
    <3> QED BY <3>1
  <2> QED BY <2>1, <2>2 DEF Elements
<1>4. {order[i] : i \in (d + 1)..Len(order)} = Elements(order) \ {order[i] : i \in 1..d}
  BY DEF OneToOne, Elements
<1> QED BY <1>1, <1>2, <1>3, <1>4 DEF rest

-----------------------------------------------------------------------------
(* The invariant of the cache.                                             *)

\* IInv says what each retained reply is; CacheInv counts them.
CacheInv ==
  /\ cachedSeqs \subseteq Keys
  /\ cachedOrder \in Seq(Keys)
  /\ cachedBytes \in Int
  /\ CacheInSync
  /\ CacheWithinLimits

\* What CacheInv speaks of.
cache == <<cachedSeqs, cached, cachedOrder, cachedBytes>>

LEMMA CacheInitInv == Init => CacheInv
<1> SUFFICES ASSUME Init PROVE CacheInv
  OBVIOUS
<1> USE DEF Init, Empty
<1>1. DOMAIN cached = {} /\ cachedOrder = <<>> /\ cachedBytes = 0 /\ cachedSeqs = {}
  OBVIOUS
<1>2. BytesOf(cached, DOMAIN cached) = 0
  BY <1>1, BytesOfNone
<1>3. CacheInSync
  BY <1>1, <1>2 DEF CacheInSync
<1>4. CacheWithinLimits
  BY <1>1, FS_EmptySet, LimitsAssumption DEF CacheWithinLimits, CountWithinLimit
<1> QED BY <1>1, <1>3, <1>4 DEF CacheInv

LEMMA CacheFrame ==
  ASSUME CacheInv, UNCHANGED cache
  PROVE  CacheInv'
<1>1. /\ cachedSeqs' = cachedSeqs /\ cached' = cached
      /\ cachedOrder' = cachedOrder /\ cachedBytes' = cachedBytes
  BY DEF cache
<1> QED BY <1>1 DEF CacheInv, CacheInSync, CacheWithinLimits, CountWithinLimit

\* What CacheInv says with the names of this module, and that every retained
\* reply has a size.
LEMMA CacheKnown ==
  ASSUME IInv, CacheInv
  PROVE  /\ OneToOne(cachedOrder) /\ Elements(cachedOrder) = DOMAIN cached
         /\ IsFiniteSet(DOMAIN cached) /\ Cardinality(DOMAIN cached) = Len(cachedOrder)
         /\ Weighed(cached, DOMAIN cached)
         /\ cachedBytes = BytesOf(cached, DOMAIN cached) /\ cachedBytes \in Nat
<1>1. OneToOne(cachedOrder) /\ Elements(cachedOrder) = DOMAIN cached /\ cachedOrder \in Seq(Keys)
  BY DEF CacheInv, CacheInSync, OneToOne, Elements
<1>2. IsFiniteSet(DOMAIN cached) /\ Cardinality(DOMAIN cached) = Len(cachedOrder)
  BY <1>1, OrderCounts
<1>3. Weighed(cached, DOMAIN cached)
  <2> SUFFICES ASSUME NEW k \in DOMAIN cached PROVE Weight(cached, k) \in Nat
    BY DEF Weighed
  <2>1. cached[k].reply.outcome \in Outcomes
    BY DEF IInv, CoreTypeOK, Replies
  <2> QED BY <2>1, OutcomeAssumption DEF Weight
<1>4. cachedBytes = BytesOf(cached, DOMAIN cached)
  BY DEF CacheInv, CacheInSync
<1> QED BY <1>1, <1>2, <1>3, <1>4, BytesAreNumbers

\* A switch of a session drops the replies of one stream (GrantStream).
LEMMA CacheInstallStep ==
  ASSUME IInv, CacheInv, NEW s \in Streams, NEW e \in Epochs, NEW p \in Peers, InstallGrant(s, e, p)
  PROVE  CacheInv'
<1> DEFINE gone == cachedSeqs \cap KeysOf(s) \cap DOMAIN cached
           left == DOMAIN cached \ gone
<1>1. /\ cached' = Without(cached, gone)
      /\ Thinned(cachedOrder, gone, cachedOrder')
      /\ cachedBytes' = cachedBytes - BytesOf(cached, gone)
      /\ cachedSeqs' = cachedSeqs \ KeysOf(s)
  BY DEF InstallGrant, DropStreamCache
<1>2. /\ OneToOne(cachedOrder) /\ Elements(cachedOrder) = DOMAIN cached
      /\ IsFiniteSet(DOMAIN cached) /\ Weighed(cached, DOMAIN cached)
      /\ cachedBytes = BytesOf(cached, DOMAIN cached) /\ cachedBytes \in Nat
      /\ cachedOrder \in Seq(Keys)
  BY CacheKnown DEF CacheInv
<1>3. DOMAIN cached' = left /\ \A k \in left : cached'[k] = cached[k]
  BY <1>1 DEF Without
<1>4. /\ cachedOrder' \in Seq(Keys) /\ OneToOne(cachedOrder')
      /\ Elements(cachedOrder') = left
  <2> HIDE DEF gone
  <2> QED BY <1>1, <1>2, ThinnedOrder
<1>5. gone \subseteq DOMAIN cached
  OBVIOUS
<1> HIDE DEF gone
<1>6. /\ cachedBytes = BytesOf(cached, left) + BytesOf(cached, gone)
      /\ BytesOf(cached, left) \in Nat /\ BytesOf(cached, gone) \in Nat
  BY <1>2, <1>5, BytesSplit
<1>7. IsFiniteSet(left) /\ Cardinality(left) <= Cardinality(DOMAIN cached)
  BY <1>2, FS_Subset
<1>8. BytesOf(cached', left) = BytesOf(cached, left)
  <2>1. Weighed(cached, left)
    BY <1>2 DEF Weighed
  <2> HIDE DEF left
  <2> QED BY <1>3, <1>7, <2>1, BytesAgree
<1>9. cachedBytes' = BytesOf(cached', left) /\ cachedBytes' <= cachedBytes /\ cachedBytes' \in Nat
  BY <1>1, <1>2, <1>6, <1>8
<1>10. cachedSeqs' \subseteq Keys /\ left \subseteq cachedSeqs'
  <2>1. DOMAIN cached \subseteq cachedSeqs /\ cachedSeqs \subseteq Keys
    BY DEF CacheInv, CacheInSync
  <2> QED BY <1>1, <2>1 DEF gone
<1>11. CacheInSync'
  <2>1. cachedBytes' = BytesOf(cached', DOMAIN cached')
    BY <1>3, <1>9
  <2> QED BY <1>3, <1>4, <1>10, <2>1 DEF CacheInSync, OneToOne, Elements
<1>12. CacheWithinLimits'
  <2>1. Cardinality(DOMAIN cached) <= MaxResults /\ cachedBytes <= MaxBytes
    BY DEF CacheInv, CacheWithinLimits, CountWithinLimit
  <2>2. Cardinality(left) \in Nat /\ Cardinality(DOMAIN cached) \in Nat
    BY <1>2, <1>7, FS_CardinalityType
  <2> QED BY <1>2, <1>3, <1>7, <1>9, <2>1, <2>2, LimitsAssumption DEF CacheWithinLimits, CountWithinLimit
<1> QED BY <1>4, <1>9, <1>10, <1>11, <1>12 DEF CacheInv

\* What an eviction leaves of a cache that is in sync but may be over a limit
\* (_EvictToLimits): the newest replies, counted again, and within the limits.
LEMMA EvictDoes ==
  ASSUME NEW order \in Seq(Keys), NEW f, NEW bytes, NEW seqs,
         OneToOne(order), Elements(order) = DOMAIN f, Weighed(f, DOMAIN f),
         bytes = BytesOf(f, DOMAIN f), seqs \subseteq Keys, DOMAIN f \subseteq seqs,
         EvictToLimits(order, f, bytes, seqs)
  PROVE  /\ CacheInv'
         /\ \E d \in 0..Len(order) :
              /\ \A j \in 0..(d - 1) : ~StopsAt(j, order, f, bytes)
              /\ DOMAIN cached' = {order[j] : j \in (d + 1)..Len(order)}
              /\ \A k \in DOMAIN cached' : cached'[k] = f[k]
              /\ cachedBytes' = BytesOf(f, DOMAIN cached')
<1>1. PICK d \in 0..Len(order) :
        /\ StopsAt(d, order, f, bytes)
        /\ \A j \in 0..(d - 1) : ~StopsAt(j, order, f, bytes)
        /\ LET gone == {order[j] : j \in 1..d}
           IN  /\ cached' = Without(f, gone)
               /\ cachedOrder' = SubSeq(order, d + 1, Len(order))
               /\ cachedBytes' = bytes - BytesOf(f, gone)
               /\ \E erased \in SUBSET gone : cachedSeqs' = seqs \ erased
  BY DEF EvictToLimits
<1> DEFINE gone == {order[j] : j \in 1..d}
           left == DOMAIN f \ gone
<1>2. /\ IsFiniteSet(DOMAIN f) /\ gone \subseteq DOMAIN f
  <2>1. \A j \in 1..d : j \in 1..Len(order)
    OBVIOUS
  <2> QED BY <2>1, OrderCounts DEF Elements
<1>3. DOMAIN cached' = left /\ \A k \in left : cached'[k] = f[k]
  BY <1>1 DEF Without
<1>4. /\ cachedOrder' \in Seq(Keys) /\ OneToOne(cachedOrder')
      /\ Len(cachedOrder') = Len(order) - d
      /\ Elements(cachedOrder') = {order[i] : i \in (d + 1)..Len(order)}
      /\ Elements(cachedOrder') = left
  BY <1>1, EvictedOrder
<1>5. cachedBytes' = bytes - BytesOf(f, gone)
  BY <1>1
<1>6. PICK erased \in SUBSET gone : cachedSeqs' = seqs \ erased
  BY <1>1
<1> HIDE DEF gone
<1>7. /\ bytes = BytesOf(f, left) + BytesOf(f, gone)
      /\ BytesOf(f, left) \in Nat /\ BytesOf(f, gone) \in Nat
  BY <1>2, BytesSplit
<1>8. IsFiniteSet(left) /\ Weighed(f, left)
  BY <1>2, FS_Subset DEF Weighed
<1>9. cachedBytes' = BytesOf(f, left) /\ cachedBytes' \in Nat
  BY <1>5, <1>7
<1>10. BytesOf(cached', left) = BytesOf(f, left)
  <2> HIDE DEF left
  <2> QED BY <1>3, <1>8, BytesAgree
<1>11. cachedSeqs' \subseteq Keys /\ left \subseteq cachedSeqs'
  BY <1>6
<1>12. CacheInSync'
  <2>1. cachedBytes' = BytesOf(cached', DOMAIN cached')
    BY <1>3, <1>9, <1>10
  <2> QED BY <1>3, <1>4, <1>11, <2>1 DEF CacheInSync, OneToOne, Elements
<1>13. Cardinality(DOMAIN cached') = Len(order) - d
  BY <1>3, <1>4, OrderCounts
<1>14. CacheWithinLimits'
  <2>1. CASE d = Len(order)
    <3>1. left = {}
      BY <1>4, <2>1
    <3>2. cachedBytes' = 0
      BY <1>9, <3>1, BytesOfNone
    <3> QED BY <1>13, <2>1, <3>2, LimitsAssumption DEF CacheWithinLimits, CountWithinLimit
  <2>2. CASE ~OverLimits(d, order, f, bytes)
    <3>1. Len(order) - d <= MaxResults
      BY <2>2, LimitsAssumption DEF OverLimits
    <3>2. ~(bytes - BytesOf(f, gone) > MaxBytes)
      BY <2>2 DEF OverLimits, gone
    <3>3. cachedBytes' <= MaxBytes
      BY <1>5, <1>9, <3>2, LimitsAssumption
    <3> QED BY <1>13, <3>1, <3>3 DEF CacheWithinLimits, CountWithinLimit
  <2> QED BY <1>1, <2>1, <2>2 DEF StopsAt
<1>15. CacheInv'
  BY <1>4, <1>9, <1>11, <1>12, <1>14 DEF CacheInv
<1> QED BY <1>1, <1>3, <1>4, <1>9, <1>15

\* The cache a completed reply is put into is in sync before the eviction starts.
LEMMA FilledCache ==
  ASSUME IInv, CacheInv, NEW t \in issued, NEW o \in Outcomes, Complete(t, o)
  PROVE  LET k      == <<t.stream, t.seq>>
             reply  == [for |-> t.req, outcome |-> Normalized(o)]
             bytes  == Size[reply.outcome]
             filled == Put(cached, k, [req |-> inFlight[k], reply |-> reply])
             order  == Append(cachedOrder, k)
             seqs   == cachedSeqs \cup {k}
         IN  /\ k \in Keys /\ k \notin DOMAIN cached /\ bytes \in Nat
             /\ order \in Seq(Keys) /\ OneToOne(order) /\ Elements(order) = DOMAIN filled
             /\ DOMAIN filled = DOMAIN cached \cup {k}
             /\ \A x \in DOMAIN cached : filled[x] = cached[x]
             /\ Weight(filled, k) = bytes
             /\ Weighed(filled, DOMAIN filled)
             /\ cachedBytes + bytes = BytesOf(filled, DOMAIN filled)
             /\ seqs \subseteq Keys /\ DOMAIN filled \subseteq seqs
<1> DEFINE k      == <<t.stream, t.seq>>
           reply  == [for |-> t.req, outcome |-> Normalized(o)]
           bytes  == Size[reply.outcome]
           filled == Put(cached, k, [req |-> inFlight[k], reply |-> reply])
           order  == Append(cachedOrder, k)
<1>1. k \in Keys /\ k \in DOMAIN inFlight
  BY CompleteFacts
<1>2. bytes \in Nat
  BY OutcomeAssumption DEF Normalized
<1>3. k \notin DOMAIN cached
  <2>1. t.stream \in Streams /\ t.seq \in 1..MaxSeq /\ t.seq < next[t.stream]
    BY <1>1 DEF Keys, Seqs, IInv, SequenceNamesOneExecution
  <2>2. /\ next[t.stream] \in 0..(MaxSeq + 1)
        /\ Len(log[t.stream]) = IF next[t.stream] = 0 THEN 0 ELSE next[t.stream] - 1
    BY <2>1 DEF IInv, CoreTypeOK, SequenceNamesOneExecution
  <2>3. t.seq \in 1..Len(log[t.stream])
    BY <2>1, <2>2, LimitsAssumption
  <2> QED BY <1>1, <2>1, <2>3 DEF IInv, OneFate
<1>4. /\ DOMAIN filled = DOMAIN cached \cup {k}
      /\ \A x \in DOMAIN cached : filled[x] = cached[x]
      /\ Weight(filled, k) = bytes
  BY <1>3 DEF Put, Weight
<1>5. /\ OneToOne(cachedOrder) /\ Elements(cachedOrder) = DOMAIN cached
      /\ IsFiniteSet(DOMAIN cached) /\ Weighed(cached, DOMAIN cached)
      /\ cachedBytes = BytesOf(cached, DOMAIN cached) /\ cachedBytes \in Nat
      /\ cachedOrder \in Seq(Keys)
      /\ cachedSeqs \subseteq Keys /\ DOMAIN cached \subseteq cachedSeqs
  BY CacheKnown DEF CacheInv, CacheInSync
<1> HIDE DEF filled, k, bytes
<1>6. /\ order \in Seq(Keys) /\ Len(order) = Len(cachedOrder) + 1
      /\ \A i \in 1..Len(cachedOrder) : order[i] = cachedOrder[i]
      /\ order[Len(order)] = k
  BY <1>1, <1>5
<1>7. OneToOne(order)
  BY <1>3, <1>5, <1>6 DEF OneToOne, Elements
<1>8. Elements(order) = DOMAIN filled
  <2>1. \A x \in Elements(order) : x \in Elements(cachedOrder) \/ x = k
    BY <1>5, <1>6 DEF Elements
  <2>2. \A x \in Elements(cachedOrder) : x \in Elements(order)
    BY <1>5, <1>6 DEF Elements
  <2>3. k \in Elements(order)
    BY <1>5, <1>6 DEF Elements
  <2> QED BY <1>4, <1>5, <2>1, <2>2, <2>3
<1>9. Weighed(filled, DOMAIN filled)
  <2>1. \A x \in DOMAIN cached : Weight(filled, x) = Weight(cached, x)
    BY <1>4 DEF Weight
  <2> QED BY <1>2, <1>4, <1>5, <2>1 DEF Weighed
<1>10. cachedBytes + bytes = BytesOf(filled, DOMAIN filled)
  <2>1. IsFiniteSet(DOMAIN filled)
    BY <1>6, <1>7, <1>8, OrderCounts
  <2>2. DOMAIN filled \ {k} = DOMAIN cached
    BY <1>3, <1>4
  <2>3. BytesOf(filled, DOMAIN filled) = BytesOf(filled, DOMAIN cached) + BytesOf(filled, {k})
    BY <1>4, <1>9, <2>1, <2>2, BytesSplit
  <2>4. BytesOf(filled, {k}) = bytes
    BY <1>2, <1>4, BytesOfOne
  <2>5. BytesOf(filled, DOMAIN cached) = cachedBytes
    BY <1>4, <1>5, BytesAgree
  <2> QED BY <2>3, <2>4, <2>5
<1>11. cachedSeqs \cup {k} \subseteq Keys /\ DOMAIN filled \subseteq cachedSeqs \cup {k}
  BY <1>1, <1>4, <1>5
<1> QED BY <1>1, <1>2, <1>3, <1>4, <1>6, <1>7, <1>8, <1>9, <1>10, <1>11 DEF filled, k, bytes

LEMMA CacheCompleteStep ==
  ASSUME IInv, CacheInv, NEW t \in issued, NEW o \in Outcomes, Complete(t, o)
  PROVE  CacheInv'
<1> DEFINE k      == <<t.stream, t.seq>>
           reply  == [for |-> t.req, outcome |-> Normalized(o)]
           bytes  == Size[reply.outcome]
           filled == Put(cached, k, [req |-> inFlight[k], reply |-> reply])
<1>1. CASE bytes > MaxBytes
  BY <1>1, CacheFrame DEF Complete, cache
<1>2. CASE ~(bytes > MaxBytes)
  <2>1. EvictToLimits(Append(cachedOrder, k), filled, cachedBytes + bytes, cachedSeqs \cup {k})
    BY <1>2 DEF Complete
  <2>2. /\ Append(cachedOrder, k) \in Seq(Keys) /\ OneToOne(Append(cachedOrder, k))
        /\ Elements(Append(cachedOrder, k)) = DOMAIN filled
        /\ Weighed(filled, DOMAIN filled)
        /\ cachedBytes + bytes = BytesOf(filled, DOMAIN filled)
        /\ cachedSeqs \cup {k} \subseteq Keys /\ DOMAIN filled \subseteq cachedSeqs \cup {k}
    BY FilledCache
  <2> HIDE DEF filled, k, bytes
  <2> QED BY <2>1, <2>2, EvictDoes
<1> QED BY <1>1, <1>2

\* GrantStream, Admit and Complete, whatever they answer.
LEMMA CacheNextInv == IInv /\ CacheInv /\ [Next]_vars => CacheInv'
<1> SUFFICES ASSUME IInv, CacheInv, [Next]_vars PROVE CacheInv'
  OBVIOUS
<1>1. CASE GrantStep
  <2> PICK s \in Streams, e \in Epochs, p \in Peers : GrantStream(s, e, p)
    BY <1>1 DEF GrantStep
  <2>1. CASE InstallGrant(s, e, p)
    BY <2>1, CacheInstallStep
  <2>2. CASE GrantAgain(s, e) \/ GrantOverloaded(s)
    BY <2>2, CacheFrame DEF GrantAgain, GrantOverloaded, cache
  <2> QED BY <2>1, <2>2 DEF GrantStream
<1>2. CASE AdmitStep
  BY <1>2, CacheFrame
  DEF AdmitStep, Admit, AdmitExecute, AdmitRejected, AdmitGap, AdmitUsed, StateUnchanged, cache
<1>3. CASE CompleteStep
  <2> PICK t \in issued : CompleteRejected(t) \/ \E o \in Outcomes : Complete(t, o)
    BY <1>3 DEF CompleteStep
  <2>1. CASE CompleteRejected(t)
    BY <2>1, CacheFrame DEF CompleteRejected, StateUnchanged, cache
  <2>2. CASE \E o \in Outcomes : Complete(t, o)
    BY <2>2, CacheCompleteStep
  <2> QED BY <2>1, <2>2
<1>4. CASE UNCHANGED vars
  BY <1>4, CacheFrame DEF vars, cache
<1> QED BY <1>1, <1>2, <1>3, <1>4 DEF Next

-----------------------------------------------------------------------------
(* What follows for every caller.                                          *)

\* CacheInv is an invariant of the component, whoever calls it.
THEOREM CacheInvariance == Spec => [](IInv /\ CacheInv)
<1>1. Init => IInv /\ CacheInv
  BY InitInv, CacheInitInv
<1>2. (IInv /\ CacheInv) /\ [Next]_vars => (IInv /\ CacheInv)'
  BY NextInv, CacheNextInv
<1> QED BY <1>1, <1>2, PTL DEF Spec

\* Every table of the component keeps its type.
THEOREM Typed == Spec => []TypeOK
<1>1. IInv /\ CacheInv => TypeOK
  BY DEF IInv, CacheInv, TypeOK
<1> QED BY <1>1, CacheInvariance, PTL

\* cached_, cached_order_ and cached_bytes_ describe the same replies, each
\* once, through completion, eviction and revocation (_DropStreamCache).
THEOREM InSync == Spec => []CacheInSync
<1>1. IInv /\ CacheInv => CacheInSync
  BY DEF CacheInv
<1> QED BY <1>1, CacheInvariance, PTL

\* The limits on the number and the bytes of retained replies hold at all
\* times, whatever is completed (_EvictToLimits).
THEOREM WithinLimits == Spec => []CacheWithinLimits
<1>1. IInv /\ CacheInv => CacheWithinLimits
  BY DEF CacheInv
<1> QED BY <1>1, CacheInvariance, PTL

-----------------------------------------------------------------------------
(* What is evicted.                                                        *)

\* The oldest replies go, and only while a limit would be broken.
OldestUnderPressure ==
  \A k \in DOMAIN cached \ DOMAIN cached' : grants' = grants =>
    LET i == CHOOSE j \in 1..Len(cachedOrder) : cachedOrder[j] = k
    IN  /\ \A j \in 1..i : cachedOrder[j] \notin DOMAIN cached'
        /\ \/ Len(cachedOrder) - i + 2 > MaxResults
           \/ cachedBytes' + BytesOf(cached, {cachedOrder[j] : j \in i..Len(cachedOrder)}
                                            \ DOMAIN cached') > MaxBytes

\* A new receiver epoch always changes the grants.
LEMMA InstallIsSeen ==
  ASSUME NEW s \in Streams, NEW e \in Epochs, NEW p \in Peers, InstallGrant(s, e, p)
  PROVE  grants' # grants
<1> DEFINE g == [stream |-> s, epoch |-> e, peer |-> p]
<1>1. g \in grants'
  BY DEF InstallGrant
<1>2. g \notin grants
  BY DEF InstallGrant, GrantOf
<1> QED BY <1>1, <1>2

\* Completing a request (Complete, _EvictToLimits).
LEMMA CompleteEvictsOldest ==
  ASSUME IInv, CacheInv, NEW t \in issued, NEW o \in Outcomes, Complete(t, o)
  PROVE  OldestUnderPressure
<1> DEFINE n      == <<t.stream, t.seq>>
           reply  == [for |-> t.req, outcome |-> Normalized(o)]
           bytes  == Size[reply.outcome]
           filled == Put(cached, n, [req |-> inFlight[n], reply |-> reply])
           order  == Append(cachedOrder, n)
<1>1. SUFFICES ASSUME NEW k \in DOMAIN cached \ DOMAIN cached', grants' = grants
      PROVE  LET i == CHOOSE j \in 1..Len(cachedOrder) : cachedOrder[j] = k
             IN  /\ \A j \in 1..i : cachedOrder[j] \notin DOMAIN cached'
                 /\ \/ Len(cachedOrder) - i + 2 > MaxResults
                    \/ cachedBytes' + BytesOf(cached, {cachedOrder[j] : j \in i..Len(cachedOrder)}
                                                     \ DOMAIN cached') > MaxBytes
  BY DEF OldestUnderPressure
<1>2. ~(bytes > MaxBytes)
  BY <1>1 DEF Complete
<1>3. EvictToLimits(order, filled, cachedBytes + bytes, cachedSeqs \cup {n})
  BY <1>2 DEF Complete
<1>4. /\ n \notin DOMAIN cached /\ bytes \in Nat
      /\ order \in Seq(Keys) /\ OneToOne(order) /\ Elements(order) = DOMAIN filled
      /\ DOMAIN filled = DOMAIN cached \cup {n}
      /\ \A x \in DOMAIN cached : filled[x] = cached[x]
      /\ Weight(filled, n) = bytes
      /\ Weighed(filled, DOMAIN filled)
      /\ cachedBytes + bytes = BytesOf(filled, DOMAIN filled)
      /\ cachedSeqs \cup {n} \subseteq Keys /\ DOMAIN filled \subseteq cachedSeqs \cup {n}
  BY FilledCache
<1> HIDE DEF filled, bytes
<1>5. PICK d \in 0..Len(order) :
        /\ \A j \in 0..(d - 1) : ~StopsAt(j, order, filled, cachedBytes + bytes)
        /\ DOMAIN cached' = {order[j] : j \in (d + 1)..Len(order)}
        /\ cachedBytes' = BytesOf(filled, DOMAIN cached')
  BY <1>3, <1>4, EvictDoes
<1>6. /\ cachedOrder \in Seq(Keys) /\ OneToOne(cachedOrder) /\ Elements(cachedOrder) = DOMAIN cached
      /\ IsFiniteSet(DOMAIN cached)
  BY CacheKnown DEF CacheInv
<1>7. n \in Keys
  BY <1>4
<1>8. /\ Len(order) = Len(cachedOrder) + 1
      /\ \A j \in 1..Len(cachedOrder) : order[j] = cachedOrder[j]
      /\ order[Len(order)] = n
  BY <1>6, <1>7
<1> DEFINE i == CHOOSE j \in 1..Len(cachedOrder) : cachedOrder[j] = k
<1>9. i \in 1..Len(cachedOrder) /\ cachedOrder[i] = k
  BY <1>1, <1>6 DEF Elements
<1> HIDE DEF i, n, order
<1>10. i <= d
  BY <1>1, <1>5, <1>6, <1>8, <1>9
<1>11. \A j \in 1..d : order[j] \notin DOMAIN cached'
  <2> SUFFICES ASSUME NEW j \in 1..d, NEW m \in (d + 1)..Len(order), order[j] = order[m] PROVE FALSE
    BY <1>5
  <2> QED BY <1>4 DEF OneToOne
<1>12. \A j \in 1..i : cachedOrder[j] \notin DOMAIN cached'
  BY <1>6, <1>8, <1>9, <1>10, <1>11
<1>13. IsFiniteSet(DOMAIN filled)
  BY <1>4, OrderCounts
<1>14. d <= Len(cachedOrder)
  <2> SUFFICES ASSUME d = Len(order) PROVE FALSE
    BY <1>5, <1>6, <1>8
  <2> DEFINE m == Len(cachedOrder)
  <2>1. m \in Nat /\ m = d - 1
    BY <1>6, <1>8
  <2>2. OverLimits(m, order, filled, cachedBytes + bytes)
    BY <1>5, <2>1 DEF StopsAt
  <2>3. {order[j] : j \in 1..m} = DOMAIN cached
    BY <1>6, <1>8 DEF Elements
  <2>4. cachedBytes + bytes = BytesOf(filled, DOMAIN cached) + bytes
    <3>1. DOMAIN filled \ DOMAIN cached = {n}
      BY <1>4
    <3>2. DOMAIN cached \subseteq DOMAIN filled
      BY <1>4
    <3>3. BytesOf(filled, DOMAIN filled) = BytesOf(filled, {n}) + BytesOf(filled, DOMAIN cached)
      BY <1>4, <1>13, <3>1, <3>2, BytesSplit
    <3>4. BytesOf(filled, {n}) = bytes
      BY <1>4, BytesOfOne
    <3>5. BytesOf(filled, DOMAIN cached) \in Nat
      BY <1>4, <1>13, <3>2, BytesSplit
    <3> QED BY <1>4, <3>3, <3>4, <3>5
  <2>5. BytesOf(filled, DOMAIN cached) \in Nat
    <3>1. DOMAIN cached \subseteq DOMAIN filled
      BY <1>4
    <3> QED BY <1>4, <1>13, <3>1, BytesSplit
  <2>6. ~(Len(order) - m > MaxResults)
    BY <1>8, <2>1, LimitsAssumption
  <2>7. (cachedBytes + bytes) - BytesOf(filled, DOMAIN cached) > MaxBytes
    BY <2>2, <2>3, <2>6 DEF OverLimits
  <2>8. (cachedBytes + bytes) - BytesOf(filled, DOMAIN cached) = bytes
    BY <1>4, <2>4, <2>5
  <2> QED BY <1>2, <2>7, <2>8
<1> DEFINE before == {order[j] : j \in 1..(i - 1)}
           lost == {cachedOrder[j] : j \in i..Len(cachedOrder)} \ DOMAIN cached'
<1>15. OverLimits(i - 1, order, filled, cachedBytes + bytes)
  BY <1>5, <1>9, <1>10 DEF StopsAt
<1>16. /\ before \subseteq DOMAIN filled
       /\ DOMAIN filled \ before = lost \cup DOMAIN cached'
       /\ lost \cap DOMAIN cached' = {}
  <2>1. before \subseteq Elements(order)
    BY <1>6, <1>8, <1>9 DEF Elements
  <2>2. ASSUME NEW x \in Elements(order), x \notin before PROVE x \in lost \cup DOMAIN cached'
    <3>1. PICK j \in 1..Len(order) : x = order[j]
      BY DEF Elements
    <3>2. j \in i..Len(order)
      BY <1>9, <2>2, <3>1
    <3>3. CASE j = Len(order)
      <4>1. j \in (d + 1)..Len(order)
        BY <1>6, <1>8, <1>14, <3>3
      <4> QED BY <1>5, <3>1, <4>1
    <3>4. CASE j # Len(order)
      <4>1. j \in i..Len(cachedOrder) /\ x = cachedOrder[j]
        BY <1>6, <1>8, <1>9, <3>1, <3>2, <3>4
      <4> QED BY <4>1
    <3> QED BY <3>3, <3>4
  <2>3. ASSUME NEW x \in lost PROVE x \in Elements(order) /\ x \notin before
    <3>1. PICK j \in i..Len(cachedOrder) : x = cachedOrder[j]
      OBVIOUS
    <3>2. j \in 1..Len(order) /\ x = order[j]
      BY <1>6, <1>8, <1>9, <3>1
    <3>3. \A m \in 1..(i - 1) : m \in 1..Len(order) /\ m # j
      BY <1>6, <1>8, <1>9, <3>1
    <3> QED BY <1>4, <3>2, <3>3 DEF OneToOne, Elements
  <2>4. ASSUME NEW x \in DOMAIN cached' PROVE x \in Elements(order) /\ x \notin before
    <3>1. PICK j \in (d + 1)..Len(order) : x = order[j]
      BY <1>5
    <3>2. j \in 1..Len(order) /\ \A m \in 1..(i - 1) : m \in 1..Len(order) /\ m # j
      BY <1>6, <1>8, <1>9, <1>10, <3>1
    <3> QED BY <1>4, <3>1, <3>2 DEF OneToOne, Elements
  <2> QED BY <1>4, <2>1, <2>2, <2>3, <2>4
<1>17. lost \subseteq DOMAIN cached
  BY <1>6, <1>9 DEF Elements
<1> HIDE DEF before, lost
<1>18. cachedBytes' + BytesOf(cached, lost) = (cachedBytes + bytes) - BytesOf(filled, before)
  <2> DEFINE rest == DOMAIN filled \ before
  <2>1. /\ BytesOf(filled, DOMAIN filled) = BytesOf(filled, rest) + BytesOf(filled, before)
        /\ BytesOf(filled, rest) \in Nat /\ BytesOf(filled, before) \in Nat
    BY <1>4, <1>13, <1>16, BytesSplit
  <2>2. IsFiniteSet(rest) /\ Weighed(filled, rest)
    BY <1>4, <1>13, FS_Subset DEF Weighed
  <2>3. lost \subseteq rest /\ rest \ lost = DOMAIN cached'
    BY <1>16
  <2>4. /\ BytesOf(filled, rest) = BytesOf(filled, rest \ lost) + BytesOf(filled, lost)
        /\ BytesOf(filled, rest \ lost) \in Nat /\ BytesOf(filled, lost) \in Nat
    <3> HIDE DEF rest
    <3> QED BY <2>2, <2>3, BytesSplit
  <2>5. BytesOf(cached, lost) = BytesOf(filled, lost)
    <3>1. IsFiniteSet(lost) /\ Weighed(filled, lost)
      BY <2>2, <2>3, FS_Subset DEF Weighed
    <3>2. \A x \in lost : cached[x] = filled[x]
      BY <1>4, <1>17
    <3> QED BY <3>1, <3>2, BytesAgree
  <2>6. cachedBytes' = BytesOf(filled, rest \ lost)
    BY <1>5, <2>3
  <2>7. cachedBytes + bytes = BytesOf(filled, DOMAIN filled)
    BY <1>4
  <2> HIDE DEF rest
  <2> QED BY <2>1, <2>4, <2>5, <2>6, <2>7
<1>19. \/ Len(cachedOrder) - i + 2 > MaxResults
       \/ cachedBytes' + BytesOf(cached, lost) > MaxBytes
  <2>1. CASE Len(order) - (i - 1) > MaxResults
    BY <1>6, <1>8, <1>9, <2>1, LimitsAssumption
  <2>2. CASE (cachedBytes + bytes) - BytesOf(filled, before) > MaxBytes
    BY <1>18, <2>2
  <2> QED BY <1>15, <2>1, <2>2 DEF OverLimits, before
<1> QED BY <1>12, <1>19 DEF i, lost

\* A retained reply of a live session goes only under pressure, the oldest
\* first, and no more of them than it takes (_EvictToLimits).
THEOREM EvictsFifo == Spec => EvictsOldestUnderPressure
<1>1. IInv /\ CacheInv /\ [Next]_vars => [OldestUnderPressure]_vars
  <2> SUFFICES ASSUME IInv, CacheInv, Next PROVE OldestUnderPressure
    OBVIOUS
  <2>1. CASE GrantStep
    <3> PICK s \in Streams, e \in Epochs, p \in Peers : GrantStream(s, e, p)
      BY <2>1 DEF GrantStep
    <3>1. CASE InstallGrant(s, e, p)
      BY <3>1, InstallIsSeen DEF OldestUnderPressure
    <3>2. CASE GrantAgain(s, e) \/ GrantOverloaded(s)
      BY <3>2 DEF GrantAgain, GrantOverloaded, OldestUnderPressure
    <3> QED BY <3>1, <3>2 DEF GrantStream
  <2>2. CASE AdmitStep
    <3>1. cached' = cached
      BY <2>2 DEF AdmitStep, Admit, AdmitExecute, AdmitRejected, AdmitGap, AdmitUsed, StateUnchanged
    <3> QED BY <3>1 DEF OldestUnderPressure
  <2>3. CASE CompleteStep
    <3> PICK t \in issued : CompleteRejected(t) \/ \E o \in Outcomes : Complete(t, o)
      BY <2>3 DEF CompleteStep
    <3>1. CASE CompleteRejected(t)
      BY <3>1 DEF CompleteRejected, StateUnchanged, OldestUnderPressure
    <3>2. CASE \E o \in Outcomes : Complete(t, o)
      BY <3>2, CompleteEvictsOldest
    <3> QED BY <3>1, <3>2
  <2> QED BY <2>1, <2>2, <2>3 DEF Next
<1> QED BY <1>1, CacheInvariance, PTL DEF Spec, EvictsOldestUnderPressure, OldestUnderPressure
====
