------------------------- MODULE OrderedDeliveryProofs -------------------------
(***************************************************************************)
(* Proofs about OrderedDelivery, for any threads, programs and networks:   *)
(* one live sender per stream, every ticket executed at most once and as   *)
(* it was first sent, callers told nothing about it that is not true, and  *)
(* calls routed by what the discovery provider said last, in turn.         *)
(*                                                                         *)
(* SessionInv is the registry under s_registry_mtx and the tickets of a    *)
(* session; WireInv follows a request from the ticket it was bound to over *)
(* the network into the log of the receiver; FateInv is what the replies   *)
(* on their way back say.  IP is the module that proves the receiver's     *)
(* ordered ingress, instantiated as OrderedDelivery instantiates it.       *)
(* RInv is apart from these: the table of routes with the history of what  *)
(* was published, and the life of the discovery component.                 *)
(***************************************************************************)
EXTENDS OrderedDelivery, FiniteSums, SequenceTheorems

IP == INSTANCE OrderedIngressProofs WITH
        Streams <- {g.stream : g \in Openable}, Peers <- {g.peer : g \in Openable},
        Epochs <- {"epoch"}, InvalidErrors <- {}, SafeError <- "failed",
        Size <- [o \in Outcomes |-> 1], MaxStreams <- 1, MaxBytes <- MaxResults,
        MaxSeq <- LastSeq

-----------------------------------------------------------------------------
(* The receiver's component and its proofs.                                *)

LEMMA IngressLimits == IP!LimitsAssumption /\ IP!OutcomeAssumption
<1>1. IP!LimitsAssumption
  BY ReceiverAssumption, SessionAssumption DEF IP!LimitsAssumption
<1>2. IP!OutcomeAssumption
  BY DEF IP!OutcomeAssumption, Outcomes
<1> QED BY <1>1, <1>2

LEMMA SameBytes == \A f, K : I!BytesOf(f, K) = IP!BytesOf(f, K)
  BY DEF I!BytesOf, IP!BytesOf, I!MapThenSumSet, IP!MapThenSumSet, I!MapThenFoldSet, IP!MapThenFoldSet

LEMMA SameAdmit ==
  ASSUME NEW s, NEW e, NEW p, NEW n, NEW req, I!Admit(s, e, p, n, req)
  PROVE  IP!Admit(s, e, p, n, req)
  BY DEF I!Admit, IP!Admit, I!AdmitRejected, IP!AdmitRejected, I!AdmitGap, IP!AdmitGap,
         I!AdmitUsed, IP!AdmitUsed, I!AdmitExecute, IP!AdmitExecute, I!Authorized, IP!Authorized,
         I!StateUnchanged, IP!StateUnchanged, I!Refuse, IP!Refuse, I!Replay, IP!Replay,
         I!Answer, IP!Answer, I!Put, IP!Put

LEMMA SameComplete ==
  ASSUME NEW t, NEW o, I!Complete(t, o)
  PROVE  IP!Complete(t, o)
  BY SameBytes
  DEF I!Complete, IP!Complete, I!EvictToLimits, IP!EvictToLimits, I!StopsAt, IP!StopsAt,
      I!OverLimits, IP!OverLimits, I!Normalized, IP!Normalized, I!Put, IP!Put,
      I!CompletedInFlight, IP!CompletedInFlight, I!Without, IP!Without, I!Answer, IP!Answer

LEMMA SameSets ==
  \A S : (IP!IsFiniteSet(S) <=> IsFiniteSet(S)) /\ IP!Cardinality(S) = Cardinality(S)
  BY DEF IP!IsFiniteSet, IsFiniteSet, IP!Cardinality, Cardinality

-----------------------------------------------------------------------------
(* The registry of sessions.                                               *)

Bounds == UNION {[D -> Contents] : D \in SUBSET Nat}
SessionStates ==
  [grant : Openable, next : 1..LastSeq, exhausted : BOOLEAN, watermark : Nat, bound : Bounds]
OpenStates ==
  {Outside} \cup [at : {"destroy"}]
    \cup [at : {"scan", "compare", "stuck"}, grant : Openable, index : Nat \ {0}]

SessionTypeOK ==
  /\ sessions \in Seq(SessionStates)
  /\ registry \in Seq(1..Len(sessions))
  /\ held \in [Threads -> 0..Len(sessions)]
  /\ temp \in [Threads -> 0..Len(sessions)]
  /\ open \in [Threads -> OpenStates]

\* The thread inside OpenImpl has the mutex.
Owns(t) == open[t].at \in {"scan", "compare", "stuck"} => mutex = t

StreamOf(s) == sessions[s].grant.stream

\* No live session under the index has the stream that is to be opened, and the
\* one that is looked at is the one under the index.
ScanOk(t) ==
  /\ open[t].at \in {"scan", "compare"} =>
       /\ open[t].index \in 1..(Len(registry) + 1)
       /\ \A k \in 1..(open[t].index - 1) :
            Lives(registry[k]) => StreamOf(registry[k]) # open[t].grant.stream
  /\ open[t].at = "compare" =>
       /\ open[t].index <= Len(registry)
       /\ temp[t] = registry[open[t].index]

RegistryInv ==
  /\ SessionTypeOK
  /\ \A t \in Threads : Owns(t) /\ ScanOk(t)
  /\ SingleSender

SessionInv == RegistryInv /\ FirstSendsInOrder

-----------------------------------------------------------------------------
(* Steps of the registry.                                                  *)

\* No session is created or comes back to life, and none changes its grant.
NoneRevived ==
  /\ DOMAIN sessions' = DOMAIN sessions
  /\ \A s \in 1..Len(sessions) :
       /\ (\E u \in Threads : held'[u] = s \/ temp'[u] = s) => Lives(s)
       /\ sessions'[s].grant = sessions[s].grant

LEMMA InstancesKnown ==
  ASSUME SessionTypeOK
  PROVE  /\ Instances = 1..Len(sessions) /\ Len(sessions) \in Nat /\ Len(registry) \in Nat
         /\ \A k \in 1..Len(registry) : registry[k] \in 1..Len(sessions)
         /\ \A s \in 1..Len(sessions) : sessions[s] \in SessionStates
  BY DEF SessionTypeOK, Instances

\* Only living sessions are locked (weak_ptr::lock).
LEMMA NoneRevivedBy ==
  ASSUME SessionTypeOK, NEW t \in Threads, UNCHANGED sessions,
         \A u \in Threads : u # t => held'[u] = held[u] /\ temp'[u] = temp[u],
         held'[t] = 0 \/ Lives(held'[t]), temp'[t] = 0 \/ Lives(temp'[t])
  PROVE  NoneRevived
<1> SUFFICES ASSUME NEW s \in 1..Len(sessions), NEW u \in Threads, held'[u] = s \/ temp'[u] = s
             PROVE  Lives(s)
  BY DEF NoneRevived
<1>1. CASE u = t
  BY <1>1, InstancesKnown
<1>2. CASE u # t
  BY <1>2 DEF Lives
<1> QED BY <1>1, <1>2

\* A thread inside OpenImpl that does not move, while the registry stays.
LEMMA ScanFrame ==
  ASSUME SessionTypeOK, NoneRevived, UNCHANGED registry, NEW u \in Threads, ScanOk(u),
         open'[u] = open[u], temp'[u] = temp[u]
  PROVE  ScanOk(u)'
<1> DEFINE i == open[u].index
<1>1. CASE open[u].at \in {"scan", "compare"}
  <2>1. /\ i \in 1..(Len(registry) + 1)
        /\ \A k \in 1..(i - 1) : Lives(registry[k]) => StreamOf(registry[k]) # open[u].grant.stream
    BY <1>1 DEF ScanOk
  <2>2. ASSUME NEW k \in 1..(i - 1), \E x \in Threads : held'[x] = registry[k] \/ temp'[x] = registry[k]
        PROVE  sessions'[registry[k]].grant.stream # open[u].grant.stream
    <3>1. k \in 1..Len(registry) /\ registry[k] \in 1..Len(sessions)
      BY <2>1, InstancesKnown
    <3>2. Lives(registry[k]) /\ sessions'[registry[k]].grant = sessions[registry[k]].grant
      BY <2>2, <3>1 DEF NoneRevived
    <3> QED BY <2>1, <3>2 DEF StreamOf
  <2> QED BY <2>1, <2>2 DEF ScanOk, Lives, StreamOf
<1>2. CASE open[u].at \notin {"scan", "compare"}
  BY <1>2 DEF ScanOk
<1> QED BY <1>1, <1>2

\* The sessions that are named once each in the registry stay so while no live
\* one is taken out.
LEMMA SenderFrame ==
  ASSUME SessionTypeOK, SingleSender, NoneRevived,
         \A j, k \in 1..Len(registry') : registry'[j] = registry'[k] => j = k,
         \A k \in 1..Len(registry) : Lives(registry[k]) =>
           \E j \in 1..Len(registry') : registry'[j] = registry[k]
  PROVE  SingleSender'
<1>1. Instances = 1..Len(sessions) /\ Instances' = Instances
  BY InstancesKnown DEF NoneRevived, Instances
<1>2. \A s \in Instances : Lives(s)' => Lives(s)
  BY <1>1 DEF NoneRevived, Lives
<1>3. \A s \in Instances : sessions'[s].grant = sessions[s].grant
  BY <1>1 DEF NoneRevived
<1>4. ASSUME NEW s \in Instances, NEW r \in Instances, Lives(s)', Lives(r)', s # r
      PROVE  sessions'[s].grant.stream # sessions'[r].grant.stream
  <2>1. Lives(s) /\ Lives(r)
    BY <1>2, <1>4
  <2> QED BY <1>3, <1>4, <2>1 DEF SingleSender
<1>5. ASSUME NEW s \in Instances, Lives(s)'
      PROVE  \E k \in 1..Len(registry') : registry'[k] = s
  <2>1. PICK k \in 1..Len(registry) : registry[k] = s
    BY <1>2, <1>5 DEF SingleSender
  <2> QED BY <1>2, <1>5, <2>1
<1> QED BY <1>1, <1>4, <1>5 DEF SingleSender

\* A thread that holds no lock of the registry has nothing to say about it.
LEMMA OutOfRegistry ==
  ASSUME NEW t \in Threads, open[t].at \notin {"scan", "compare", "stuck"}
  PROVE  Owns(t) /\ ScanOk(t)
  BY DEF Owns, ScanOk

\* The others, while thread t moves and has the mutex or nobody has it.
LEMMA OthersFrame ==
  ASSUME RegistryInv, NoneRevived, NEW t \in Threads,
         \A u \in Threads : u # t => open'[u] = open[u] /\ temp'[u] = temp[u],
         \/ UNCHANGED <<mutex, registry>>
         \/ mutex \in {0, t}
  PROVE  \A u \in Threads : u # t => Owns(u)' /\ ScanOk(u)'
<1> SUFFICES ASSUME NEW u \in Threads, u # t PROVE Owns(u)' /\ ScanOk(u)'
  OBVIOUS
<1>1. Owns(u) /\ ScanOk(u) /\ open'[u] = open[u] /\ temp'[u] = temp[u]
  BY DEF RegistryInv
<1>2. CASE UNCHANGED <<mutex, registry>>
  BY <1>1, <1>2, ScanFrame DEF RegistryInv, Owns
<1>3. CASE mutex \in {0, t}
  <2>1. open[u].at \notin {"scan", "compare", "stuck"}
    BY <1>1, <1>3, SessionAssumption DEF Owns
  <2> QED BY <1>1, <2>1 DEF Owns, ScanOk
<1> QED BY <1>2, <1>3

-----------------------------------------------------------------------------
(* Open.                                                                   *)

LEMMA LocksStep ==
  ASSUME RegistryInv, NEW t \in Threads, NEW g \in Openable, OpenLocks(t, g)
  PROVE  RegistryInv'
<1>1. /\ open[t] = Outside /\ mutex = 0 /\ mutex' = t
      /\ open' = [open EXCEPT ![t] = [at |-> "scan", grant |-> g, index |-> 1]]
      /\ UNCHANGED <<registry, sessions, held, temp>>
  BY DEF OpenLocks
<1>2. open'[t] = [at |-> "scan", grant |-> g, index |-> 1] /\ \A u \in Threads : u # t => open'[u] = open[u]
  BY <1>1 DEF RegistryInv, SessionTypeOK
<1>3. SessionTypeOK'
  <2>1. [at |-> "scan", grant |-> g, index |-> 1] \in OpenStates
    BY DEF OpenStates
  <2> QED BY <1>1, <2>1 DEF RegistryInv, SessionTypeOK
<1>4. NoneRevived
  BY <1>1 DEF NoneRevived, Lives
<1>5. \A u \in Threads : u # t => Owns(u)' /\ ScanOk(u)'
  BY <1>1, <1>2, <1>4, OthersFrame
<1>6. Owns(t)' /\ ScanOk(t)'
  BY <1>1, <1>2, InstancesKnown DEF RegistryInv, Owns, ScanOk
<1>7. SingleSender'
  BY <1>1 DEF RegistryInv, SingleSender, Lives, Instances
<1> QED BY <1>3, <1>5, <1>6, <1>7 DEF RegistryInv

LEMMA InsideOpen ==
  ASSUME RegistryInv, NEW t \in Threads, open[t].at \in {"scan", "compare"}
  PROVE  /\ open[t] \in [at : {"scan", "compare", "stuck"}, grant : Openable, index : Nat \ {0}]
         /\ mutex = t /\ t # 0
  BY SessionAssumption DEF RegistryInv, SessionTypeOK, OpenStates, Outside, Owns

\* The entry under the index is locked.
LEMMA ScansLiveStep ==
  ASSUME RegistryInv, NEW t \in Threads, OpenScans(t), Lives(registry[open[t].index])
  PROVE  RegistryInv'
<1> DEFINE i == open[t].index
           s == registry[i]
<1>1. /\ open[t].at = "scan" /\ i <= Len(registry)
      /\ temp' = [temp EXCEPT ![t] = s]
      /\ open' = [open EXCEPT ![t] = [@ EXCEPT !.at = "compare"]]
      /\ UNCHANGED <<mutex, registry, sessions, held>>
  BY DEF OpenScans, Enter
<1>2. open[t] \in [at : {"scan", "compare", "stuck"}, grant : Openable, index : Nat \ {0}] /\ mutex = t
  BY <1>1, InsideOpen
<1>3. /\ open'[t] = [open[t] EXCEPT !.at = "compare"] /\ temp'[t] = s
      /\ \A u \in Threads : u # t => open'[u] = open[u] /\ temp'[u] = temp[u]
  BY <1>1 DEF RegistryInv, SessionTypeOK
<1>4. i \in 1..Len(registry) /\ s \in 1..Len(sessions)
  BY <1>1, <1>2, InstancesKnown DEF RegistryInv
<1>5. [open[t] EXCEPT !.at = "compare"] \in OpenStates /\ open'[t].index = i
      /\ open'[t].grant = open[t].grant /\ open'[t].at = "compare"
  BY <1>2, <1>3 DEF OpenStates
<1>6. SessionTypeOK'
  <2>1. temp' \in [Threads -> 0..Len(sessions)]
    BY <1>1, <1>4 DEF RegistryInv, SessionTypeOK
  <2>2. open' \in [Threads -> OpenStates]
    BY <1>1, <1>5 DEF RegistryInv, SessionTypeOK
  <2> QED BY <1>1, <2>1, <2>2 DEF RegistryInv, SessionTypeOK
<1>7. NoneRevived
  <2>1. held'[t] = 0 \/ Lives(held'[t])
    BY <1>1 DEF Lives
  <2> QED BY <1>1, <1>3, <2>1, NoneRevivedBy DEF RegistryInv
<1>8. \A u \in Threads : u # t => Owns(u)' /\ ScanOk(u)'
  BY <1>1, <1>3, <1>7, OthersFrame
<1>9. Owns(t)'
  BY <1>1, <1>2 DEF Owns
<1>10. ScanOk(t)'
  <2>1. /\ i \in 1..(Len(registry) + 1)
        /\ \A k \in 1..(i - 1) : Lives(registry[k]) => StreamOf(registry[k]) # open[t].grant.stream
    BY <1>1 DEF RegistryInv, ScanOk
  <2>2. ASSUME NEW k \in 1..(i - 1), Lives(registry[k])'
        PROVE  StreamOf(registry[k])' # open'[t].grant.stream
    <3>1. k \in 1..Len(registry) /\ registry[k] \in 1..Len(sessions)
      BY <2>1, InstancesKnown DEF RegistryInv
    <3>2. Lives(registry[k])
      BY <1>1, <1>7, <2>2, <3>1 DEF NoneRevived, Lives
    <3> QED BY <1>1, <1>5, <2>1, <3>2 DEF StreamOf
  <2> QED BY <1>1, <1>3, <1>4, <1>5, <2>1, <2>2 DEF ScanOk
<1>11. SingleSender'
  BY <1>1, <1>7, SenderFrame DEF RegistryInv, SingleSender
<1> QED BY <1>6, <1>8, <1>9, <1>10, <1>11 DEF RegistryInv

\* Erasing one place of a sequence.
LEMMA RemovedAt ==
  ASSUME NEW K, NEW order \in Seq(K), NEW i \in 1..Len(order)
  PROVE  /\ RemoveAt(order, i) \in Seq(K) /\ Len(RemoveAt(order, i)) = Len(order) - 1
         /\ \A k \in 1..(i - 1) : RemoveAt(order, i)[k] = order[k]
         /\ \A k \in i..(Len(order) - 1) : RemoveAt(order, i)[k] = order[k + 1]
<1> DEFINE a == SubSeq(order, 1, i - 1)
           b == SubSeq(order, i + 1, Len(order))
<1>1. a \in Seq(K) /\ Len(a) = i - 1 /\ \A k \in 1..(i - 1) : a[k] = order[k]
  OBVIOUS
<1>2. b \in Seq(K) /\ Len(b) = Len(order) - i /\ \A k \in 1..(Len(order) - i) : b[k] = order[k + i]
  OBVIOUS
<1>3. RemoveAt(order, i) = a \o b
  BY DEF RemoveAt
<1> HIDE DEF a, b
<1>4. a \o b \in Seq(K) /\ Len(a \o b) = Len(order) - 1
  <2>1. a \o b \in Seq(K) /\ Len(a \o b) = Len(a) + Len(b)
    BY <1>1, <1>2, ConcatProperties
  <2>2. Len(order) \in Nat /\ i \in Nat
    OBVIOUS
  <2> QED BY <1>1, <1>2, <2>1, <2>2
<1>5. \A k \in 1..(i - 1) : (a \o b)[k] = order[k]
  BY <1>1, <1>2
<1>6. ASSUME NEW k \in i..(Len(order) - 1) PROVE (a \o b)[k] = order[k + 1]
  <2>1. (a \o b)[k] = b[k - (i - 1)] /\ k - (i - 1) \in 1..(Len(order) - i)
    BY <1>1, <1>2
  <2> QED BY <1>2, <2>1
<1> QED BY <1>3, <1>4, <1>5, <1>6

\* The entry of a session that is gone is erased.
LEMMA ScansDeadStep ==
  ASSUME RegistryInv, NEW t \in Threads, OpenScans(t), ~Lives(registry[open[t].index])
  PROVE  RegistryInv'
<1> DEFINE i == open[t].index
<1>1. /\ open[t].at = "scan" /\ i <= Len(registry)
      /\ registry' = RemoveAt(registry, i)
      /\ UNCHANGED <<mutex, sessions, held, temp, open>>
  BY DEF OpenScans
<1>2. i \in Nat \ {0} /\ mutex = t
  BY <1>1, InsideOpen
<1>3. registry \in Seq(1..Len(sessions)) /\ i \in 1..Len(registry)
  BY <1>1, <1>2 DEF RegistryInv, SessionTypeOK
<1>4. /\ registry' \in Seq(1..Len(sessions)) /\ Len(registry') = Len(registry) - 1
      /\ \A k \in 1..(i - 1) : registry'[k] = registry[k]
      /\ \A k \in i..(Len(registry) - 1) : registry'[k] = registry[k + 1]
  BY <1>1, <1>3, RemovedAt
<1> HIDE DEF i
<1>5. SessionTypeOK'
  BY <1>1, <1>4 DEF RegistryInv, SessionTypeOK
<1>6. NoneRevived
  BY <1>1 DEF NoneRevived, Lives
<1>7. \A u \in Threads : u # t => Owns(u)' /\ ScanOk(u)'
  BY <1>1, <1>2, <1>6, OthersFrame
<1>8. Owns(t)'
  BY <1>1, <1>2 DEF Owns
<1>9. ScanOk(t)'
  <2>1. \A k \in 1..(i - 1) : Lives(registry[k]) => StreamOf(registry[k]) # open[t].grant.stream
    BY <1>1 DEF RegistryInv, ScanOk, i
  <2>2. \A k \in 1..(i - 1) : Lives(registry'[k]) => StreamOf(registry'[k]) # open[t].grant.stream
    BY <1>4, <2>1
  <2>3. i \in 1..(Len(registry') + 1)
    BY <1>3, <1>4
  <2> QED BY <1>1, <2>2, <2>3 DEF ScanOk, Lives, StreamOf, i
<1>10. SingleSender'
  <2>1. \A j, k \in 1..Len(registry) : registry[j] = registry[k] => j = k
    BY DEF RegistryInv, SingleSender
  <2>2. ASSUME NEW j \in 1..Len(registry'), NEW k \in 1..Len(registry'), registry'[j] = registry'[k]
        PROVE  j = k
    <3> DEFINE at(x) == IF x < i THEN x ELSE x + 1
    <3>1. ASSUME NEW x \in 1..Len(registry')
          PROVE  at(x) \in 1..Len(registry) /\ registry'[x] = registry[at(x)]
      <4>0. Len(registry) \in Nat /\ i \in 1..Len(registry) /\ x \in 1..(Len(registry) - 1)
        BY <1>3, <1>4
      <4>1. CASE x < i
        <5>1. x \in 1..(i - 1) /\ at(x) = x /\ x \in 1..Len(registry)
          BY <4>0, <4>1
        <5> QED BY <1>4, <5>1
      <4>2. CASE ~(x < i)
        <5>1. x \in i..(Len(registry) - 1) /\ at(x) = x + 1 /\ x + 1 \in 1..Len(registry)
          BY <4>0, <4>2
        <5> QED BY <1>4, <5>1
      <4> QED BY <4>1, <4>2
    <3>2. at(j) = at(k)
      <4> HIDE DEF at
      <4>1. /\ at(j) \in 1..Len(registry) /\ at(k) \in 1..Len(registry)
            /\ registry[at(j)] = registry[at(k)]
        BY <2>2, <3>1, Zenon
      <4> QED BY <2>1, <4>1, Zenon
    <3>3. i \in Nat /\ j \in Nat /\ k \in Nat
      BY <1>2
    <3> QED BY <3>2, <3>3
  <2>3. ASSUME NEW k \in 1..Len(registry), Lives(registry[k])
        PROVE  \E j \in 1..Len(registry') : registry'[j] = registry[k]
    <3>1. k # i
      BY <2>3 DEF i
    <3>2. CASE k < i
      BY <1>3, <1>4, <3>2
    <3>3. CASE k > i
      <4>1. k - 1 \in i..(Len(registry) - 1) /\ k - 1 \in 1..Len(registry')
        BY <1>3, <1>4, <3>3
      <4> QED BY <1>4, <4>1
    <3> QED BY <1>3, <3>1, <3>2, <3>3
  <2> QED BY <1>6, <2>2, <2>3, SenderFrame DEF RegistryInv
<1> QED BY <1>5, <1>7, <1>8, <1>9, <1>10 DEF RegistryInv

\* Open returns in any other way than with a new session.
LEMMA ReturnsStep ==
  ASSUME RegistryInv, NEW t \in Threads, open[t].at = "compare", ReturnFromOpen(t),
         held' = [held EXCEPT ![t] = temp[t]] \/ UNCHANGED held,
         temp' = [temp EXCEPT ![t] = 0], UNCHANGED <<registry, sessions>>
  PROVE  RegistryInv'
<1>1. open' = [open EXCEPT ![t] = Outside] /\ mutex' = 0 /\ mutex = t
  BY InsideOpen DEF ReturnFromOpen
<1>2. SessionTypeOK'
  <2>1. 0 \in 0..Len(sessions) /\ temp[t] \in 0..Len(sessions)
    BY InstancesKnown DEF RegistryInv, SessionTypeOK
  <2>3. held' \in [Threads -> 0..Len(sessions)] /\ temp' \in [Threads -> 0..Len(sessions)]
    BY <2>1 DEF RegistryInv, SessionTypeOK
  <2>2. open' \in [Threads -> OpenStates]
    BY <1>1 DEF RegistryInv, SessionTypeOK, OpenStates
  <2> QED BY <2>2, <2>3 DEF RegistryInv, SessionTypeOK
<1>3. /\ open'[t] = Outside /\ temp'[t] = 0 /\ held'[t] \in {held[t], temp[t]}
      /\ \A u \in Threads : u # t => open'[u] = open[u] /\ temp'[u] = temp[u] /\ held'[u] = held[u]
  BY <1>1 DEF RegistryInv, SessionTypeOK
<1>4. NoneRevived
  <2>1. Lives(held'[t])
    BY <1>3 DEF Lives
  <2> QED BY <1>3, <2>1, NoneRevivedBy DEF RegistryInv
<1>5. \A u \in Threads : u # t => Owns(u)' /\ ScanOk(u)'
  BY <1>1, <1>3, <1>4, OthersFrame
<1>6. Owns(t)' /\ ScanOk(t)'
  BY <1>3 DEF Owns, ScanOk, Outside
<1>7. SingleSender'
  BY <1>4, SenderFrame DEF RegistryInv, SingleSender
<1> QED BY <1>2, <1>5, <1>6, <1>7 DEF RegistryInv

\* A thread locks a living session or lets pointers go, under whatever part of
\* OpenImpl or the destructor it comes to.
LEMMA PointersStep ==
  ASSUME RegistryInv, NEW t \in Threads, NEW o \in OpenStates,
         NEW h \in 0..Len(sessions), h = 0 \/ Lives(h),
         NEW x \in 0..Len(sessions), x = 0 \/ Lives(x),
         held' = [held EXCEPT ![t] = h], temp' = [temp EXCEPT ![t] = x],
         open' = [open EXCEPT ![t] = o],
         UNCHANGED <<mutex, registry, sessions>>, Owns(t)', ScanOk(t)'
  PROVE  RegistryInv'
<1>1. SessionTypeOK'
  <2>1. held' \in [Threads -> 0..Len(sessions)] /\ temp' \in [Threads -> 0..Len(sessions)]
    BY DEF RegistryInv, SessionTypeOK
  <2>2. open' \in [Threads -> OpenStates]
    BY DEF RegistryInv, SessionTypeOK
  <2> QED BY <2>1, <2>2 DEF RegistryInv, SessionTypeOK
<1>2. /\ temp'[t] = x /\ held'[t] = h
      /\ \A u \in Threads : u # t => open'[u] = open[u] /\ temp'[u] = temp[u] /\ held'[u] = held[u]
  BY DEF RegistryInv, SessionTypeOK
<1>3. NoneRevived
  BY <1>2, NoneRevivedBy DEF RegistryInv
<1>4. \A u \in Threads : u # t => Owns(u)' /\ ScanOk(u)'
  BY <1>2, <1>3, OthersFrame
<1>5. SingleSender'
  BY <1>3, SenderFrame DEF RegistryInv, SingleSender
<1> QED BY <1>1, <1>4, <1>5 DEF RegistryInv

LEMMA PointersKnown ==
  ASSUME RegistryInv, NEW t \in Threads
  PROVE  /\ held[t] \in 0..Len(sessions) /\ Lives(held[t]) /\ held = [held EXCEPT ![t] = held[t]]
         /\ temp[t] \in 0..Len(sessions) /\ Lives(temp[t]) /\ temp = [temp EXCEPT ![t] = temp[t]]
         /\ open[t] \in OpenStates /\ open = [open EXCEPT ![t] = open[t]]
         /\ 0 \in 0..Len(sessions) /\ Outside \in OpenStates /\ [at |-> "destroy"] \in OpenStates
<1>1. Len(sessions) \in Nat
  BY InstancesKnown DEF RegistryInv
<1>2. Lives(held[t]) /\ Lives(temp[t])
  BY DEF Lives
<1>3. Outside \in OpenStates /\ [at |-> "destroy"] \in OpenStates
  BY DEF OpenStates
<1> QED BY <1>1, <1>2, <1>3 DEF RegistryInv, SessionTypeOK

LEMMA LocksItselfStep ==
  ASSUME RegistryInv, NEW t \in Threads, LocksItself(t)
  PROVE  RegistryInv'
<1> DEFINE o == [open[t] EXCEPT !.at = "stuck"]
<1>1. /\ open[t].at = "compare" /\ temp' = [temp EXCEPT ![t] = 0] /\ open' = [open EXCEPT ![t] = o]
      /\ UNCHANGED <<mutex, registry, sessions, held>>
  BY DEF LocksItself, Enter
<1>2. o \in OpenStates /\ o.at = "stuck" /\ mutex = t
  BY <1>1, InsideOpen DEF OpenStates
<1> HIDE DEF o
<1>3. Owns(t)' /\ ScanOk(t)'
  <2>1. open'[t] = o
    BY <1>1 DEF RegistryInv, SessionTypeOK
  <2> QED BY <1>1, <1>2, <2>1 DEF Owns, ScanOk
<1>4. held' = [held EXCEPT ![t] = held[t]]
  BY <1>1, PointersKnown
<1> QED BY <1>1, <1>2, <1>3, <1>4, PointersKnown, PointersStep

\* On to the next entry.
LEMMA PassesStep ==
  ASSUME RegistryInv, NEW t \in Threads, OpenPasses(t)
  PROVE  RegistryInv'
<1> DEFINE i == open[t].index
           g == open[t].grant
           o == [at |-> "scan", grant |-> g, index |-> i + 1]
<1>1. /\ open[t].at = "compare" /\ StreamOf(temp[t]) # g.stream
      /\ temp' = [temp EXCEPT ![t] = 0]
      /\ open' = [open EXCEPT ![t].at = "scan", ![t].index = @ + 1]
      /\ UNCHANGED <<mutex, registry, sessions, held>>
  BY DEF OpenPasses, SameStream, StreamOf
<1>2. open[t] \in [at : {"scan", "compare", "stuck"}, grant : Openable, index : Nat \ {0}] /\ mutex = t
  BY <1>1, InsideOpen
<1>3. open' = [open EXCEPT ![t] = o] /\ o \in OpenStates
  <2>1. [[open[t] EXCEPT !.at = "scan"] EXCEPT !.index = i + 1] = o
    <3> DEFINE R == [at : {"scan", "compare", "stuck"}, grant : Openable, index : Nat \ {0}]
    <3>1. \A r \in R : /\ [r EXCEPT !.at = "scan"] \in R
                       /\ [r EXCEPT !.at = "scan"].at = "scan"
                       /\ [r EXCEPT !.at = "scan"].grant = r.grant
                       /\ [r EXCEPT !.at = "scan"].index = r.index
      OBVIOUS
    <3>2. \A r \in R, c \in Nat \ {0} :
            /\ [r EXCEPT !.index = c] \in R
            /\ [r EXCEPT !.index = c].at = r.at
            /\ [r EXCEPT !.index = c].grant = r.grant
            /\ [r EXCEPT !.index = c].index = c
      OBVIOUS
    <3>3. \A r \in R : r = [at |-> r.at, grant |-> r.grant, index |-> r.index]
      OBVIOUS
    <3>4. open[t] \in R /\ i + 1 \in Nat \ {0}
      BY <1>2
    <3> HIDE DEF R
    <3>5. PICK a \in R : a = [open[t] EXCEPT !.at = "scan"] /\ a.at = "scan" /\ a.grant = g /\ a.index = i
      BY <3>1, <3>4
    <3>6. PICK j \in Nat \ {0} : j = i + 1
      BY <3>4
    <3>7. /\ [a EXCEPT !.index = j] \in R /\ [a EXCEPT !.index = j].at = "scan"
          /\ [a EXCEPT !.index = j].grant = g /\ [a EXCEPT !.index = j].index = j
      BY <3>2, <3>5, Zenon
    <3>8. [a EXCEPT !.index = j] = o
      BY <3>3, <3>6, <3>7
    <3> QED BY <3>5, <3>6, <3>8
  <2>2. open' = [open EXCEPT ![t] = [[open[t] EXCEPT !.at = "scan"] EXCEPT !.index = i + 1]]
    BY <1>1
  <2>3. o \in OpenStates
    BY <1>2 DEF OpenStates
  <2> HIDE DEF o
  <2> QED BY <2>1, <2>2, <2>3
<1>4. open'[t] = o
  BY <1>3 DEF RegistryInv, SessionTypeOK
<1>5. /\ i \in 1..(Len(registry) + 1) /\ i <= Len(registry) /\ temp[t] = registry[i]
      /\ \A k \in 1..(i - 1) : Lives(registry[k]) => StreamOf(registry[k]) # g.stream
  BY <1>1 DEF RegistryInv, ScanOk
<1>6. Owns(t)'
  BY <1>1, <1>2, <1>4 DEF Owns
<1>7. NoneRevived
  <2>1. held'[t] = held[t] /\ temp'[t] = 0 /\ \A u \in Threads : u # t => temp'[u] = temp[u]
    BY <1>1 DEF RegistryInv, SessionTypeOK
  <2> QED BY <1>1, <2>1, PointersKnown, NoneRevivedBy DEF RegistryInv
<1>8. ScanOk(t)'
  <2>1. ASSUME NEW k \in 1..i, Lives(registry[k])' PROVE StreamOf(registry[k])' # g.stream
    <3>1. k \in 1..Len(registry) /\ registry[k] \in 1..Len(sessions)
      BY <1>5, InstancesKnown DEF RegistryInv
    <3>2. Lives(registry[k])
      BY <1>1, <1>7, <2>1, <3>1 DEF NoneRevived, Lives
    <3>3. StreamOf(registry[k]) # g.stream
      BY <1>1, <1>5, <3>2
    <3> QED BY <1>1, <3>3 DEF StreamOf
  <2>2. i + 1 \in 1..(Len(registry) + 1) /\ (i + 1) - 1 = i
    BY <1>2, <1>5, InstancesKnown DEF RegistryInv
  <2>3. open'[t].at = "scan" /\ open'[t].index = i + 1 /\ open'[t].grant = g
    BY <1>4
  <2> HIDE DEF i, g
  <2> QED BY <1>1, <2>1, <2>2, <2>3 DEF ScanOk
<1> HIDE DEF o
<1>9. held' = [held EXCEPT ![t] = held[t]]
  BY <1>1, PointersKnown
<1> QED BY <1>1, <1>3, <1>6, <1>8, <1>9, PointersKnown, PointersStep

\* The user or a call destroys its pointer, which may be the last (Drop, the end
\* of the call).
LEMMA LetsGoStep ==
  ASSUME RegistryInv, NEW t \in Threads, open[t] = Outside,
         held' = [held EXCEPT ![t] = 0] \/ UNCHANGED held,
         temp' = [temp EXCEPT ![t] = 0] \/ UNCHANGED temp,
         open' = [open EXCEPT ![t] = [at |-> "destroy"]] \/ UNCHANGED open,
         UNCHANGED <<mutex, registry, sessions>>
  PROVE  RegistryInv'
<1>1. PICK h \in 0..Len(sessions) : (h = 0 \/ Lives(h)) /\ held' = [held EXCEPT ![t] = h]
  BY PointersKnown
<1>2. PICK x \in 0..Len(sessions) : (x = 0 \/ Lives(x)) /\ temp' = [temp EXCEPT ![t] = x]
  BY PointersKnown
<1>3. PICK o \in OpenStates : o.at \in {"outside", "destroy"} /\ open' = [open EXCEPT ![t] = o]
  <2>1. Outside.at = "outside"
    BY DEF Outside
  <2> QED BY <2>1, PointersKnown
<1>4. Owns(t)' /\ ScanOk(t)'
  <2>1. open'[t] = o
    BY <1>3 DEF RegistryInv, SessionTypeOK
  <2> QED BY <1>3, <2>1 DEF Owns, ScanOk
<1> QED BY <1>1, <1>2, <1>3, <1>4, PointersStep

\* A call locks the session of its stamp.
LEMMA CallLocksStep ==
  ASSUME RegistryInv, NEW t \in Threads, NEW s \in 1..Len(sessions), Lives(s),
         open[t] = Outside, temp' = [temp EXCEPT ![t] = s],
         UNCHANGED <<mutex, registry, sessions, held, open>>
  PROVE  RegistryInv'
<1>1. Owns(t)' /\ ScanOk(t)'
  BY DEF Owns, ScanOk, Outside
<1>2. held' = [held EXCEPT ![t] = held[t]] /\ open' = [open EXCEPT ![t] = open[t]]
  BY PointersKnown
<1>3. s \in 0..Len(sessions)
  BY InstancesKnown DEF RegistryInv
<1> QED BY <1>1, <1>2, <1>3, PointersKnown, PointersStep

\* The entries of dead sessions are swept.
LEMMA DestroyStep ==
  ASSUME RegistryInv, NEW t \in Threads, Destroy(t)
  PROVE  RegistryInv'
<1> DEFINE dead == {s \in Instances : ~Lives(s)}
<1>1. /\ open[t].at = "destroy" /\ mutex = 0 /\ Thinned(registry, dead, registry')
      /\ open' = [open EXCEPT ![t] = Outside]
      /\ UNCHANGED <<mutex, sessions, held, temp>>
  BY DEF Destroy, Sweeps
<1>2. registry \in Seq(1..Len(sessions)) /\ IP!OneToOne(registry)
  BY DEF RegistryInv, SessionTypeOK, SingleSender, IP!OneToOne
<1> HIDE DEF dead
<1>3. /\ registry' \in Seq(1..Len(sessions)) /\ IP!OneToOne(registry')
      /\ IP!Elements(registry') = IP!Elements(registry) \ dead
  <2>1. IP!Thinned(registry, dead, registry')
    BY <1>1, SameSets DEF Thinned, IP!Thinned
  <2> QED BY <1>2, <2>1, IngressLimits, IP!ThinnedOrder
<1>4. SessionTypeOK'
  <2>1. open' \in [Threads -> OpenStates]
    BY <1>1, PointersKnown DEF RegistryInv, SessionTypeOK
  <2> QED BY <1>1, <1>3, <2>1 DEF RegistryInv, SessionTypeOK
<1>5. NoneRevived
  BY <1>1 DEF NoneRevived, Lives
<1>6. open'[t] = Outside /\ \A u \in Threads : u # t => open'[u] = open[u]
  BY <1>1 DEF RegistryInv, SessionTypeOK
<1>7. \A u \in Threads : u # t => Owns(u)' /\ ScanOk(u)'
  BY <1>1, <1>5, <1>6, OthersFrame
<1>8. Owns(t)' /\ ScanOk(t)'
  BY <1>6 DEF Owns, ScanOk, Outside
<1>9. SingleSender'
  <2>1. \A j, k \in 1..Len(registry') : registry'[j] = registry'[k] => j = k
    BY <1>3 DEF IP!OneToOne
  <2>2. ASSUME NEW k \in 1..Len(registry), Lives(registry[k])
        PROVE  \E j \in 1..Len(registry') : registry'[j] = registry[k]
    <3>1. registry[k] \in IP!Elements(registry')
      BY <1>3, <2>2 DEF dead, IP!Elements
    <3> QED BY <3>1 DEF IP!Elements
  <2> QED BY <1>5, <2>1, <2>2, SenderFrame DEF RegistryInv
<1> QED BY <1>4, <1>7, <1>8, <1>9 DEF RegistryInv

\* No live session has the stream: a new one is registered.
LEMMA CreatesStep ==
  ASSUME RegistryInv, NEW t \in Threads, OpenCreates(t)
  PROVE  RegistryInv'
<1> DEFINE s == Len(sessions) + 1
           f == Fresh(open[t].grant)
<1>1. /\ open[t].at = "scan" /\ open[t].index > Len(registry)
      /\ sessions' = Append(sessions, f) /\ registry' = Append(registry, s)
      /\ held' = [held EXCEPT ![t] = s] /\ open' = [open EXCEPT ![t] = Outside]
      /\ mutex' = 0 /\ UNCHANGED temp
  BY DEF OpenCreates, Scanned, ReturnFromOpen
<1>2. mutex = t /\ open[t].grant \in Openable /\ open[t].index \in Nat
  BY <1>1, InsideOpen
<1>3. /\ Len(sessions) \in Nat /\ Instances = 1..Len(sessions)
      /\ registry \in Seq(1..Len(sessions)) /\ sessions \in Seq(SessionStates)
      /\ held \in [Threads -> 0..Len(sessions)] /\ temp \in [Threads -> 0..Len(sessions)]
      /\ open \in [Threads -> OpenStates]
  BY InstancesKnown DEF RegistryInv, SessionTypeOK
<1>4. f \in SessionStates /\ f.grant = open[t].grant
  <2>1. [n \in {} |-> n] \in [{} -> Contents] /\ {} \in SUBSET Nat
    OBVIOUS
  <2>2. [n \in {} |-> n] \in Bounds
    BY <2>1 DEF Bounds
  <2> QED BY <1>2, <2>2, SessionAssumption DEF Fresh, SessionStates
<1> HIDE DEF f
<1>5. /\ sessions' \in Seq(SessionStates) /\ Len(sessions') = s /\ Instances' = 1..s
      /\ sessions'[s] = f /\ \A r \in 1..Len(sessions) : sessions'[r] = sessions[r]
  BY <1>1, <1>3, <1>4 DEF Instances
<1>6. /\ registry' \in Seq(1..s) /\ Len(registry') = Len(registry) + 1
      /\ registry'[Len(registry) + 1] = s
      /\ \A k \in 1..Len(registry) : registry'[k] = registry[k]
  <2>1. registry \in Seq(1..s)
    BY <1>3
  <2> QED BY <1>1, <1>3, <2>1
<1>7. SessionTypeOK'
  <2>1. held' \in [Threads -> 0..s] /\ temp' \in [Threads -> 0..s]
    BY <1>1, <1>3
  <2>2. open' \in [Threads -> OpenStates]
    BY <1>1, <1>3, PointersKnown
  <2> QED BY <1>5, <1>6, <2>1, <2>2 DEF SessionTypeOK
<1>8. open'[t] = Outside /\ \A u \in Threads : u # t => open'[u] = open[u]
  BY <1>1, <1>3
<1>9. ASSUME NEW u \in Threads PROVE Owns(u)' /\ ScanOk(u)'
  <2>1. CASE u = t
    BY <1>8, <2>1 DEF Owns, ScanOk, Outside
  <2>2. CASE u # t
    <3>1. open[u].at \notin {"scan", "compare", "stuck"}
      BY <1>2, <2>2 DEF RegistryInv, Owns
    <3> QED BY <1>8, <2>2, <3>1 DEF Owns, ScanOk
  <2> QED BY <2>1, <2>2
<1>10. \A r \in 1..Len(sessions) : Lives(r)' => Lives(r)
  <2>1. held'[t] = s /\ \A u \in Threads : u # t => held'[u] = held[u]
    BY <1>1, <1>3
  <2> QED BY <1>1, <1>3, <2>1 DEF Lives
<1>11. ASSUME NEW r \in 1..Len(sessions), Lives(r)
       PROVE  sessions[r].grant.stream # f.grant.stream
  <2>1. PICK k \in 1..Len(registry) : registry[k] = r
    BY <1>3, <1>11 DEF RegistryInv, SingleSender
  <2>2. \A j \in 1..(open[t].index - 1) :
          Lives(registry[j]) => StreamOf(registry[j]) # open[t].grant.stream
    BY <1>1 DEF RegistryInv, ScanOk
  <2>3. k \in 1..(open[t].index - 1)
    BY <1>1, <1>2, <1>3
  <2> QED BY <1>4, <1>11, <2>1, <2>2, <2>3 DEF StreamOf
<1>12. SingleSender'
  <2>1. ASSUME NEW r \in 1..s, NEW q \in 1..s, Lives(r)', Lives(q)', r # q
        PROVE  sessions'[r].grant.stream # sessions'[q].grant.stream
    <3>1. CASE r = s
      <4>1. q \in 1..Len(sessions)
        BY <1>3, <2>1, <3>1
      <4> QED BY <1>5, <1>10, <1>11, <2>1, <3>1, <4>1
    <3>2. CASE q = s
      <4>1. r \in 1..Len(sessions)
        BY <1>3, <2>1, <3>2
      <4> QED BY <1>5, <1>10, <1>11, <2>1, <3>2, <4>1
    <3>3. CASE r # s /\ q # s
      <4>1. r \in Instances /\ q \in Instances /\ r \in 1..Len(sessions) /\ q \in 1..Len(sessions)
        BY <1>3, <3>3
      <4> QED BY <1>5, <1>10, <2>1, <4>1 DEF RegistryInv, SingleSender
    <3> QED BY <3>1, <3>2, <3>3
  <2>2. ASSUME NEW r \in 1..s, Lives(r)' PROVE \E k \in 1..Len(registry') : registry'[k] = r
    <3>1. CASE r = s
      <4>1. Len(registry) + 1 \in 1..Len(registry')
        BY <1>3, <1>6
      <4> QED BY <1>6, <3>1, <4>1
    <3>2. CASE r # s
      <4>1. r \in 1..Len(sessions) /\ r \in Instances
        BY <1>3, <3>2
      <4>2. PICK k \in 1..Len(registry) : registry[k] = r
        BY <1>10, <2>2, <4>1 DEF RegistryInv, SingleSender
      <4>3. k \in 1..Len(registry')
        BY <1>3, <1>6
      <4> QED BY <1>6, <4>2, <4>3
    <3> QED BY <3>1, <3>2
  <2>3. ASSUME NEW j \in 1..Len(registry'), NEW k \in 1..Len(registry'), registry'[j] = registry'[k]
        PROVE  j = k
    <3>1. \A i \in 1..Len(registry) : registry[i] \in 1..Len(sessions)
      BY <1>3
    <3>2. \A i, h \in 1..Len(registry) : registry[i] = registry[h] => i = h
      BY DEF RegistryInv, SingleSender
    <3>3. \A i \in 1..Len(registry') : i = Len(registry) + 1 \/ i \in 1..Len(registry)
      BY <1>3, <1>6
    <3>4. s \notin 1..Len(sessions)
      BY <1>3
    <3>5. \A i \in 1..Len(registry) : registry'[i] = registry[i] /\ registry[i] # s
      BY <1>6, <3>1, <3>4
    <3> HIDE DEF s
    <3> QED BY <1>6, <2>3, <3>2, <3>3, <3>5
  <2> HIDE DEF s
  <2> QED BY <1>5, <2>1, <2>2, <2>3 DEF SingleSender
<1> QED BY <1>7, <1>9, <1>12 DEF RegistryInv

\* Tickets are no business of the registry.
LEMMA RegistryFrame ==
  ASSUME RegistryInv, sessions' \in Seq(SessionStates), DOMAIN sessions' = DOMAIN sessions,
         \A s \in 1..Len(sessions) : sessions'[s].grant = sessions[s].grant,
         UNCHANGED <<mutex, registry, held, temp, open>>
  PROVE  RegistryInv'
<1>1. NoneRevived
  BY DEF NoneRevived, Lives
<1>2. Len(sessions') = Len(sessions)
  BY InstancesKnown DEF RegistryInv, Instances
<1>3. SessionTypeOK'
  BY <1>2 DEF RegistryInv, SessionTypeOK
<1>4. ASSUME NEW u \in Threads PROVE Owns(u)' /\ ScanOk(u)'
  BY <1>1, ScanFrame DEF RegistryInv, Owns
<1>5. SingleSender'
  BY <1>1, SenderFrame DEF RegistryInv, SingleSender
<1> QED BY <1>3, <1>4, <1>5 DEF RegistryInv

-----------------------------------------------------------------------------
(* Tickets.                                                                *)

\* What sessions have said stays said.
Onward ==
  /\ Len(sessions') \in Nat /\ Len(sessions) <= Len(sessions')
  /\ \A s \in 1..Len(sessions) :
       /\ sessions'[s].grant = sessions[s].grant
       /\ Issued(s) <= Issued(s)'
       /\ \A n \in DOMAIN sessions[s].bound :
            n \in DOMAIN sessions'[s].bound /\ sessions'[s].bound[n] = sessions[s].bound[n]

LEMMA TicketsKnown ==
  ASSUME SessionInv, NEW s \in 1..Len(sessions)
  PROVE  /\ sessions[s] \in SessionStates /\ LastSeq \in Nat \ {0}
         /\ DOMAIN sessions[s].bound = 1..sessions[s].watermark
         /\ \A n \in DOMAIN sessions[s].bound : sessions[s].bound[n] \in Contents
         /\ sessions[s].watermark \in Nat /\ sessions[s].next \in 1..LastSeq
         /\ sessions[s].watermark <= Issued(s) /\ Issued(s) \in 0..LastSeq
<1>1. sessions[s] \in SessionStates /\ s \in Instances
  BY InstancesKnown DEF SessionInv, RegistryInv
<1>2. \A n \in DOMAIN sessions[s].bound : sessions[s].bound[n] \in Contents
  BY <1>1 DEF SessionStates, Bounds
<1>3. Issued(s) \in 0..LastSeq
  BY <1>1, SessionAssumption DEF Issued, SessionStates
<1> QED BY <1>1, <1>2, <1>3, SessionAssumption DEF SessionInv, FirstSendsInOrder, SessionStates

LEMMA OnwardStays ==
  ASSUME SessionInv, UNCHANGED sessions
  PROVE  Onward /\ FirstSendsInOrder'
<1>1. Len(sessions) \in Nat /\ Len(sessions) <= Len(sessions)
  BY InstancesKnown DEF SessionInv, RegistryInv
<1>2. \A s \in 1..Len(sessions) : Issued(s) <= Issued(s)
  BY TicketsKnown
<1>3. FirstSendsInOrder'
  BY DEF SessionInv, FirstSendsInOrder, Instances, Issued
<1> QED BY <1>1, <1>2, <1>3 DEF Onward, Issued

\* A new session has issued nothing.
LEMMA OnwardCreates ==
  ASSUME SessionInv, NEW t \in Threads, OpenCreates(t)
  PROVE  Onward /\ FirstSendsInOrder'
<1> DEFINE f == Fresh(open[t].grant)
           N == Len(sessions)
<1>1. sessions' = Append(sessions, f) /\ sessions \in Seq(SessionStates) /\ N \in Nat
  BY InstancesKnown DEF OpenCreates, SessionInv, RegistryInv, SessionTypeOK
<1>2. /\ Len(sessions') = N + 1 /\ DOMAIN sessions' = 1..(N + 1) /\ sessions'[N + 1] = f
      /\ \A s \in 1..N : sessions'[s] = sessions[s]
  BY <1>1
<1>3. \A s \in 1..N : Issued(s)' = Issued(s)
  BY <1>2 DEF Issued
<1>4. Onward
  BY <1>1, <1>2, <1>3, TicketsKnown DEF Onward
<1>5. ASSUME NEW s \in 1..(N + 1)
      PROVE  /\ DOMAIN sessions'[s].bound = 1..sessions'[s].watermark
             /\ sessions'[s].watermark <= Issued(s)' /\ Issued(s)' <= LastSeq
  <2>1. CASE s \in 1..N
    BY <1>2, <1>3, <2>1, TicketsKnown
  <2>2. CASE s = N + 1
    <3>1. /\ DOMAIN f.bound = 1..0 /\ f.watermark = 0 /\ f.next = 1 /\ f.exhausted = FALSE
      BY DEF Fresh
    <3> HIDE DEF f
    <3>2. sessions'[s] = f
      BY <1>2, <2>2
    <3>3. Issued(s)' = 0
      BY <3>1, <3>2 DEF Issued
    <3>4. 0 <= LastSeq
      BY SessionAssumption
    <3>5. DOMAIN sessions'[s].bound = 1..sessions'[s].watermark
      BY <3>1, <3>2
    <3>6. sessions'[s].watermark = 0
      BY <3>1, <3>2
    <3>7. sessions'[s].watermark <= Issued(s)'
      BY <3>3, <3>6
    <3>8. Issued(s)' <= LastSeq
      BY <3>3, <3>4
    <3> QED BY <3>5, <3>7, <3>8
  <2> QED BY <1>1, <2>1, <2>2
<1> QED BY <1>2, <1>4, <1>5 DEF FirstSendsInOrder, Instances

\* prepare issues the sequence behind the last one, once.
LEMMA PrepareDoes ==
  ASSUME SessionInv, NEW s \in 1..Len(sessions), Prepare(s)
  PROVE  /\ SessionInv' /\ Onward /\ Len(sessions') = Len(sessions)
         /\ sessions[s].next = Issued(s) + 1 /\ sessions[s].next <= Issued(s)'
<1> DEFINE r == sessions[s]
<1>1. /\ r.exhausted = FALSE /\ sessions' = [sessions EXCEPT ![s] = Advance(r)]
      /\ UNCHANGED <<mutex, registry, held, temp, open>>
  BY TicketsKnown DEF Prepare, SessionStates
<1>2. sessions \in Seq(SessionStates) /\ DOMAIN sessions = 1..Len(sessions)
  BY DEF SessionInv, RegistryInv, SessionTypeOK
<1>3. r \in SessionStates /\ LastSeq \in Nat \ {0}
  BY TicketsKnown
<1> HIDE DEF r
<1>4. /\ Advance(r) \in SessionStates /\ Advance(r).grant = r.grant /\ Advance(r).bound = r.bound
      /\ Advance(r).watermark = r.watermark
      /\ IF r.next = LastSeq THEN Advance(r).exhausted = TRUE
         ELSE Advance(r).exhausted = FALSE /\ Advance(r).next = r.next + 1
  <2>1. CASE r.next = LastSeq
    BY <1>1, <1>3, <2>1 DEF Advance, SessionStates
  <2>2. CASE r.next # LastSeq
    BY <1>1, <1>3, <2>2 DEF Advance, SessionStates
  <2> QED BY <2>1, <2>2
<1> DEFINE a == Advance(r)
<1>5. /\ sessions' \in Seq(SessionStates) /\ DOMAIN sessions' = DOMAIN sessions
      /\ Len(sessions') = Len(sessions) /\ sessions'[s] = Advance(r)
      /\ \A x \in 1..Len(sessions) : x # s => sessions'[x] = sessions[x]
  <2> HIDE DEF a
  <2>1. sessions' = [sessions EXCEPT ![s] = a]
    BY <1>1 DEF a
  <2>2. a \in SessionStates
    BY <1>4 DEF a
  <2> QED BY <1>2, <2>1, <2>2 DEF a
<1>6. Issued(s) = r.next - 1 /\ Issued(s)' = r.next
  BY <1>1, <1>3, <1>4, <1>5 DEF Issued, r, SessionStates
<1>7. \A x \in 1..Len(sessions) : x # s => Issued(x)' = Issued(x)
  BY <1>5 DEF Issued
<1>8. r.next \in 1..LastSeq
  BY <1>3 DEF SessionStates
<1>9. \A x \in 1..Len(sessions) :
        /\ sessions'[x].grant = sessions[x].grant /\ sessions'[x].bound = sessions[x].bound
        /\ sessions'[x].watermark = sessions[x].watermark
  BY <1>4, <1>5 DEF r
<1>10. \A x \in 1..Len(sessions) : Issued(x) <= Issued(x)' /\ Issued(x)' <= LastSeq /\ Issued(x)' \in Nat
  BY <1>6, <1>7, <1>8, TicketsKnown
<1>11. Onward
  BY <1>2, <1>5, <1>9, <1>10 DEF Onward
<1>12. RegistryInv'
  BY <1>1, <1>5, <1>9, RegistryFrame DEF SessionInv
<1>13. FirstSendsInOrder'
  <2>1. Instances' = 1..Len(sessions)
    BY <1>2, <1>5 DEF Instances
  <2>2. ASSUME NEW x \in 1..Len(sessions)
        PROVE  /\ DOMAIN sessions'[x].bound = 1..sessions'[x].watermark
               /\ sessions'[x].watermark <= Issued(x)' /\ Issued(x)' <= LastSeq
    <3>1. sessions[x].watermark <= Issued(x) /\ sessions[x].watermark \in Nat /\ Issued(x) \in Nat
      BY TicketsKnown
    <3>2. Issued(x) <= Issued(x)' /\ Issued(x)' <= LastSeq /\ Issued(x)' \in Nat
      BY <1>10
    <3>3. sessions[x].watermark <= Issued(x)'
      <4> HIDE DEF Issued
      <4> QED BY <3>1, <3>2
    <3>4. DOMAIN sessions[x].bound = 1..sessions[x].watermark
      BY TicketsKnown
    <3>5. sessions'[x].bound = sessions[x].bound /\ sessions'[x].watermark = sessions[x].watermark
      BY <1>9
    <3> QED BY <3>2, <3>3, <3>4, <3>5
  <2> QED BY <2>1, <2>2 DEF FirstSendsInOrder
<1> QED BY <1>5, <1>6, <1>8, <1>11, <1>12, <1>13 DEF SessionInv, r

\* The first send of a ticket binds it behind all smaller ones; a later one finds
\* the same content (consume_sequence).
LEMMA BindDoes ==
  ASSUME SessionInv, NEW s \in 1..Len(sessions), NEW n \in 1..Issued(s), NEW c \in Contents,
         BindForSend(s, n, c), UNCHANGED <<mutex, registry, held, temp, open>>
  PROVE  /\ SessionInv' /\ Onward /\ Len(sessions') = Len(sessions)
         /\ n \in DOMAIN sessions'[s].bound /\ sessions'[s].bound[n] = c
<1>1. /\ sessions[s] \in SessionStates /\ DOMAIN sessions[s].bound = 1..sessions[s].watermark
      /\ sessions[s].watermark \in Nat /\ Issued(s) \in Nat
      /\ \A m \in DOMAIN sessions[s].bound : sessions[s].bound[m] \in Contents
  BY TicketsKnown
<1>2. CASE IsSent(s, n)
  <2>1. UNCHANGED sessions /\ sessions[s].bound[n] = c
    BY <1>2 DEF BindForSend, Verdict
  <2>2. RegistryInv'
    BY <2>1, RegistryFrame DEF SessionInv, RegistryInv, SessionTypeOK
  <2> QED BY <1>2, <2>1, <2>2, OnwardStays DEF SessionInv, IsSent
<1>3. CASE ~IsSent(s, n)
  <2> DEFINE b == [m \in DOMAIN sessions[s].bound \cup {n} |->
                     IF m = n THEN c ELSE sessions[s].bound[m]]
             w == sessions[s].watermark + 1
  <2>1. /\ n = w /\ n \notin DOMAIN sessions[s].bound
        /\ sessions' = [sessions EXCEPT ![s].watermark = w, ![s].bound = b]
    BY <1>3 DEF BindForSend, Verdict, IsSent
  <2>2. /\ b \in Bounds /\ DOMAIN b = 1..w /\ b[n] = c /\ w \in Nat
        /\ \A m \in DOMAIN sessions[s].bound : m \in DOMAIN b /\ b[m] = sessions[s].bound[m]
    <3>1. DOMAIN b = 1..w
      BY <1>1, <2>1
    <3>2. \A m \in DOMAIN b : b[m] \in Contents
      BY <1>1
    <3>3. b \in [1..w -> Contents] /\ 1..w \in SUBSET Nat
      BY <1>1, <3>1, <3>2
    <3>4. b \in Bounds
      BY <3>3 DEF Bounds
    <3> QED BY <1>1, <2>1, <3>1, <3>4
  <2> HIDE DEF b, w
  <2>3. sessions \in Seq(SessionStates) /\ DOMAIN sessions = 1..Len(sessions)
    BY DEF SessionInv, RegistryInv, SessionTypeOK
  <2>4. PICK a \in SessionStates :
          /\ sessions' = [sessions EXCEPT ![s] = a]
          /\ a.watermark = w /\ a.bound = b /\ a.grant = sessions[s].grant
          /\ a.next = sessions[s].next /\ a.exhausted = sessions[s].exhausted
    <3> DEFINE a1 == [sessions[s] EXCEPT !.watermark = w]
               a2 == [a1 EXCEPT !.bound = b]
    <3>1. sessions' = [sessions EXCEPT ![s] = a2]
      BY <2>1
    <3>2. \A r \in SessionStates, x \in Nat :
            /\ [r EXCEPT !.watermark = x] \in SessionStates
            /\ [r EXCEPT !.watermark = x].watermark = x
            /\ [r EXCEPT !.watermark = x].bound = r.bound
            /\ [r EXCEPT !.watermark = x].grant = r.grant
            /\ [r EXCEPT !.watermark = x].next = r.next
            /\ [r EXCEPT !.watermark = x].exhausted = r.exhausted
      BY DEF SessionStates
    <3>3. \A r \in SessionStates, x \in Bounds :
            /\ [r EXCEPT !.bound = x] \in SessionStates
            /\ [r EXCEPT !.bound = x].bound = x
            /\ [r EXCEPT !.bound = x].watermark = r.watermark
            /\ [r EXCEPT !.bound = x].grant = r.grant
            /\ [r EXCEPT !.bound = x].next = r.next
            /\ [r EXCEPT !.bound = x].exhausted = r.exhausted
      BY DEF SessionStates
    <3>4. /\ a1 \in SessionStates /\ a1.watermark = w /\ a1.grant = sessions[s].grant
          /\ a1.next = sessions[s].next /\ a1.exhausted = sessions[s].exhausted
      BY <1>1, <2>2, <3>2
    <3> HIDE DEF a1
    <3>5. /\ a2 \in SessionStates /\ a2.watermark = w /\ a2.bound = b /\ a2.grant = sessions[s].grant
          /\ a2.next = sessions[s].next /\ a2.exhausted = sessions[s].exhausted
      BY <2>2, <3>3, <3>4
    <3> QED BY <3>1, <3>5
  <2>5. /\ sessions' \in Seq(SessionStates) /\ DOMAIN sessions' = DOMAIN sessions
        /\ Len(sessions') = Len(sessions) /\ sessions'[s] = a
        /\ \A x \in 1..Len(sessions) : x # s => sessions'[x] = sessions[x]
    BY <2>3, <2>4
  <2>6. \A x \in 1..Len(sessions) : Issued(x)' = Issued(x)
    BY <2>4, <2>5 DEF Issued
  <2>7. \A x \in 1..Len(sessions) : sessions'[x].grant = sessions[x].grant
    BY <2>4, <2>5
  <2>8. \A x \in 1..Len(sessions) : \A m \in DOMAIN sessions[x].bound :
          m \in DOMAIN sessions'[x].bound /\ sessions'[x].bound[m] = sessions[x].bound[m]
    BY <2>2, <2>4, <2>5
  <2>9. \A x \in 1..Len(sessions) : Issued(x) \in 0..LastSeq
    BY TicketsKnown
  <2>10. Onward
    BY <2>3, <2>5, <2>6, <2>7, <2>8, <2>9, SessionAssumption DEF Onward
  <2>11. RegistryInv'
    BY <2>5, <2>7, RegistryFrame DEF SessionInv
  <2>12. FirstSendsInOrder'
    <3>1. Instances' = 1..Len(sessions)
      BY <2>3, <2>5 DEF Instances
    <3>2. ASSUME NEW x \in 1..Len(sessions)
          PROVE  /\ DOMAIN sessions'[x].bound = 1..sessions'[x].watermark
                 /\ sessions'[x].watermark <= Issued(x)' /\ Issued(x)' <= LastSeq
      <4>1. CASE x = s
        <5>1. w <= Issued(s) /\ Issued(s) <= LastSeq
          BY <2>1, <2>9, SessionAssumption
        <5> QED BY <2>2, <2>4, <2>5, <2>6, <4>1, <5>1
      <4>2. CASE x # s
        BY <2>5, <2>6, <4>2, TicketsKnown
      <4> QED BY <4>1, <4>2
    <3> QED BY <3>1, <3>2 DEF FirstSendsInOrder
  <2> QED BY <2>1, <2>2, <2>4, <2>5, <2>10, <2>11, <2>12 DEF SessionInv
<1> QED BY <1>2, <1>3

-----------------------------------------------------------------------------
(* The invariant of the whole path.                                        *)

InCall == {"bind", "route", "resolve", "send", "client", "await", "leave"}
PastBind == {"route", "resolve", "send", "client", "await"}
Places == InCall \cup {"idle", "discovery"}

\* The ticket of request r was sent with the content of r.
Sent(r) ==
  /\ r.session \in 1..Len(sessions)
  /\ r.seq \in DOMAIN sessions[r.session].bound
  /\ sessions[r.session].bound[r.seq] = r.content

\* Stamps name tickets that were issued, each once.
StampInv ==
  /\ stamps \in Seq([session : Nat \ {0}, seq : Nat \ {0}])
  /\ \A j \in 1..Len(stamps) : /\ stamps[j].session \in 1..Len(sessions)
                               /\ stamps[j].seq <= Issued(stamps[j].session)
  /\ \A j, k \in 1..Len(stamps) : stamps[j] = stamps[k] => j = k

\* A thread inside a call is nowhere else, and past consume_sequence its request
\* is the one the ticket is bound to.
ThreadOk(t) ==
  /\ pc[t] # "idle" => open[t] = Outside /\ prog[t] # <<>>
  /\ pc[t] \in InCall => Op(t).do = "Call" /\ Op(t).stamp <= Len(stamps)
  /\ pc[t] \in PastBind => Sent(Request(t))

ThreadInv ==
  /\ prog \in [Threads -> Seq(Operations)]
  /\ pc \in [Threads -> Places]
  /\ \A t \in Threads : ThreadOk(t)

\* What is on the wire was bound before, and went out through one client.
WireInv ==
  /\ client \in Nat
  /\ \A m \in network : m.req \in Requests /\ Sent(m.req) /\ m.via = client
  /\ client = 0 => network = {}

TheGrant == [stream |-> Granted.stream, epoch |-> "epoch", peer |-> Granted.peer]
Outcome == outcome[Granted.stream]

\* The receiver has executed only what was sent, in the order of the sequences.
ReceiverInv ==
  /\ IP!IInv /\ IP!TicketsTrue
  /\ grants = {TheGrant}
  /\ \A n \in 1..Len(Log) : Log[n].seq = n /\ Sent(Log[n])

\* What an answer says of its request is so.
Fate(r) ==
  LET n == r.req.seq
  IN  /\ r.kind = "Reply" =>
           /\ n \in 1..Len(Log) /\ Log[n] = r.req
           /\ n \in DOMAIN Outcome /\ Outcome[n].outcome = r.outcome
      /\ r.kind = "SequenceConflict" =>
           /\ r.req.session \in 1..Len(sessions)
           /\ n \in DOMAIN sessions[r.req.session].bound
           /\ sessions[r.req.session].bound[n] # r.req.content
      /\ r.kind = "Conflict" => n \in 1..Len(Log) /\ Log[n] # r.req
      /\ r.kind = "InProgress" => n \in 1..Len(Log) /\ Log[n] = r.req
      /\ r.kind = "Expired" => n \in 1..Len(Log)

FateInv == \A r \in replies \cup results : Fate(r)

DInv == SessionInv /\ StampInv /\ ThreadInv /\ WireInv /\ ReceiverInv /\ FateInv

-----------------------------------------------------------------------------
(* What a thread knows.                                                    *)

\* An operation by its name.
LEMMA OperationKnown ==
  ASSUME ThreadInv, NEW t \in Threads, prog[t] # <<>>
  PROVE  /\ Tail(prog[t]) \in Seq(Operations)
         /\ Op(t).do = "Open" => Op(t).grant \in Openable
         /\ Op(t).do = "Call" => Op(t).stamp \in Nat \ {0} /\ Op(t).content \in Contents
<1>1. prog[t] \in Seq(Operations)
  BY DEF ThreadInv
<1>2. Op(t) \in Operations /\ Tail(prog[t]) \in Seq(Operations)
  BY <1>1 DEF Op
<1>3. \A o \in Operations : /\ o.do = "Open" => o.grant \in Openable
                            /\ o.do = "Call" => o.stamp \in Nat \ {0} /\ o.content \in Contents
  BY DEF Operations
<1> QED BY <1>2, <1>3

\* The request of a call under way.
LEMMA CallKnown ==
  ASSUME SessionInv, StampInv, ThreadInv, NEW t \in Threads, prog[t] # <<>>,
         Op(t).do = "Call", Op(t).stamp <= Len(stamps)
  PROVE  /\ Op(t).stamp \in 1..Len(stamps) /\ Op(t).content \in Contents
         /\ Stamp(t).session \in 1..Len(sessions)
         /\ Stamp(t).seq \in 1..Issued(Stamp(t).session)
         /\ Request(t) \in Requests
<1>1. Op(t).stamp \in 1..Len(stamps) /\ Op(t).content \in Contents
  BY OperationKnown DEF StampInv
<1>2. /\ Stamp(t).session \in 1..Len(sessions) /\ Stamp(t).session \in Nat \ {0}
      /\ Stamp(t).seq \in Nat \ {0} /\ Stamp(t).seq <= Issued(Stamp(t).session)
  <2> PICK j \in 1..Len(stamps) : Stamp(t) = stamps[j]
    BY <1>1 DEF Stamp
  <2> DEFINE S == [session : Nat \ {0}, seq : Nat \ {0}]
  <2>1. stamps[j] \in S
    <3>1. stamps \in Seq(S)
      BY DEF StampInv
    <3> HIDE DEF S
    <3> QED BY <3>1, ElementOfSeq
  <2> QED BY <2>1 DEF StampInv
<1>3. Issued(Stamp(t).session) \in 0..LastSeq /\ LastSeq \in Nat
  BY <1>2, TicketsKnown
<1>4. Stamp(t).seq \in 1..Issued(Stamp(t).session) /\ Stamp(t).seq \in 1..LastSeq
  BY <1>2, <1>3
<1>5. Request(t) \in Requests
  BY <1>1, <1>2, <1>4 DEF Request, Requests
<1> QED BY <1>1, <1>2, <1>4, <1>5

LEMMA SentStays ==
  ASSUME SessionInv, Onward, NEW r, Sent(r)
  PROVE  Sent(r)'
<1>1. r.session \in 1..Len(sessions')
  BY InstancesKnown DEF Sent, Onward, SessionInv, RegistryInv
<1> QED BY <1>1 DEF Sent, Onward

-----------------------------------------------------------------------------
(* Sessions along the path.                                                *)

LEMMA SessionMoves ==
  ASSUME [Next]_vars
  PROVE  \/ UNCHANGED sessionVars
         \/ \E t \in Threads :
              \/ BeginOpen(t) \/ BeginDrop(t) \/ BeginPrepare(t) \/ BeginCall(t)
              \/ OpenSteps(t) \/ Destroy(t) \/ Bind(t) \/ Leave(t)
<1>1. CASE \E t \in Threads : Begin(t)
  BY <1>1 DEF Begin, CallWithoutSession, Publish, Withdraw, BeginDiscovery
<1>2. CASE \E t \in Threads : Proceed(t)
  BY <1>2 DEF Proceed, SessionSteps, BudgetRefused, FindRoute, ResolveRoute, NoRoute, NotSent,
              LimitsExceeded, Send, NeedsClient, ClientFails, ClientMade, Answered,
              ResponseUnreadable, TimesOut, DiscoverySteps, DiscoveryReturns
<1>3. CASE (\E w \in Watched : Watcher(w)) \/ ClockTicks \/ Receiver
  BY <1>3 DEF Watcher, ClockTicks, Receiver, ReceiverAdmits, ReceiverRefuses, ReceiverCompletes
<1>4. CASE UNCHANGED vars
  BY <1>4 DEF vars
<1> QED BY <1>1, <1>2, <1>3, <1>4 DEF Next

LEMMA SessionStays ==
  ASSUME SessionInv, UNCHANGED sessionVars
  PROVE  SessionInv' /\ Onward
<1>1. UNCHANGED <<mutex, registry, sessions, held, temp, open>>
  BY DEF sessionVars
<1>2. RegistryInv'
  BY <1>1, RegistryFrame DEF SessionInv, RegistryInv, SessionTypeOK
<1> QED BY <1>1, <1>2, OnwardStays DEF SessionInv

LEMMA OpenStep ==
  ASSUME SessionInv, NEW t \in Threads, OpenSteps(t)
  PROVE  SessionInv' /\ Onward
<1>1. CASE OpenCreates(t)
  BY <1>1, CreatesStep, OnwardCreates DEF SessionInv
<1>2. CASE OpenScans(t) \/ LocksItself(t) \/ OpenPasses(t)
  <2>1. RegistryInv'
    BY <1>2, ScansLiveStep, ScansDeadStep, LocksItselfStep, PassesStep DEF SessionInv
  <2>2. UNCHANGED sessions
    BY <1>2 DEF OpenScans, LocksItself, OpenPasses
  <2> QED BY <2>1, <2>2, OnwardStays DEF SessionInv
<1>3. CASE OpenShares(t) \/ OpenRejected(t)
  <2>1. RegistryInv'
    BY <1>3, ReturnsStep DEF SessionInv, OpenShares, OpenRejected
  <2>2. UNCHANGED sessions
    BY <1>3 DEF OpenShares, OpenRejected
  <2> QED BY <2>1, <2>2, OnwardStays DEF SessionInv
<1> QED BY <1>1, <1>2, <1>3 DEF OpenSteps

\* The two outcomes of consume_sequence.
LEMMA BindKnown ==
  ASSUME SessionInv, StampInv, ThreadInv, NEW t \in Threads, Bind(t)
  PROVE  /\ SessionInv' /\ Onward /\ UNCHANGED <<open, prog, stamps, network>>
         /\ pc[t] = "bind"
         /\ \/ /\ pc' = [pc EXCEPT ![t] = "route"] /\ UNCHANGED results
               /\ Sent(Request(t))' /\ Len(sessions') = Len(sessions)
            \/ /\ pc' = [pc EXCEPT ![t] = "leave"] /\ UNCHANGED sessions
               /\ \/ UNCHANGED results
                  \/ /\ results' = results \cup {[req |-> Request(t), kind |-> "SequenceConflict"]}
                     /\ Stamp(t).session \in 1..Len(sessions)
                     /\ Stamp(t).seq \in DOMAIN sessions[Stamp(t).session].bound
                     /\ sessions[Stamp(t).session].bound[Stamp(t).seq] # Op(t).content
<1> DEFINE s == Stamp(t).session
           n == Stamp(t).seq
           c == Op(t).content
<1>1. pc[t] = "bind" /\ pc[t] \in InCall /\ pc[t] # "idle"
  BY DEF Bind, At, InCall
<1>2. /\ s \in 1..Len(sessions) /\ n \in 1..Issued(s) /\ c \in Contents
  BY <1>1, CallKnown DEF ThreadInv, ThreadOk
<1>3. CASE Verdict(s, n, c) = "Ok"
  <2>1. /\ BindForSend(s, n, c) /\ pc' = [pc EXCEPT ![t] = "route"]
        /\ UNCHANGED <<mutex, registry, held, temp, open, prog, stamps, network, results>>
    BY <1>3 DEF Bind, Go
  <2>2. /\ SessionInv' /\ Onward /\ Len(sessions') = Len(sessions)
        /\ n \in DOMAIN sessions'[s].bound /\ sessions'[s].bound[n] = c
    BY <1>2, <2>1, BindDoes
  <2>3. Request(t)' = [session |-> s, seq |-> n, content |-> c]
    BY <2>1 DEF Request, Stamp, Op
  <2>4. Sent(Request(t))'
    BY <1>2, <2>2, <2>3 DEF Sent
  <2> QED BY <1>1, <2>1, <2>2, <2>4
<1>4. CASE Verdict(s, n, c) # "Ok"
  <2>1. /\ pc' = [pc EXCEPT ![t] = "leave"] /\ UNCHANGED sessionVars
        /\ UNCHANGED <<prog, stamps, network>>
        /\ Tell([req |-> Request(t), kind |-> Verdict(s, n, c)])
    BY <1>4 DEF Bind, Fails, Go
  <2>2. SessionInv' /\ Onward
    BY <2>1, SessionStays
  <2>3. \/ Verdict(s, n, c) = "SequenceGap"
        \/ /\ Verdict(s, n, c) = "SequenceConflict"
           /\ n \in DOMAIN sessions[s].bound /\ sessions[s].bound[n] # c
    BY <1>4 DEF Verdict, IsSent
  <2>4. CASE Verdict(s, n, c) = "SequenceGap"
    <3>1. UNCHANGED results
      BY <2>1, <2>4 DEF Tell, Telling
    <3> QED BY <1>1, <2>1, <2>2, <3>1 DEF sessionVars
  <2>5. CASE /\ Verdict(s, n, c) = "SequenceConflict"
             /\ n \in DOMAIN sessions[s].bound /\ sessions[s].bound[n] # c
    <3>1. results' = results \cup {[req |-> Request(t), kind |-> "SequenceConflict"]}
      BY <2>1, <2>5 DEF Tell, Telling
    <3> QED BY <1>1, <1>2, <2>1, <2>2, <2>5, <3>1 DEF sessionVars
  <2> QED BY <2>3, <2>4, <2>5
<1> QED BY <1>3, <1>4

LEMMA SessionStep ==
  ASSUME SessionInv, StampInv, ThreadInv, [Next]_vars
  PROVE  SessionInv' /\ Onward
<1>1. CASE UNCHANGED sessionVars
  BY <1>1, SessionStays
<1>2. ASSUME NEW t \in Threads, BeginOpen(t) PROVE SessionInv' /\ Onward
  <2>1. Op(t).grant \in Openable /\ OpenLocks(t, Op(t).grant)
    BY <1>2, OperationKnown DEF BeginOpen, Does
  <2>2. UNCHANGED sessions
    BY <2>1 DEF OpenLocks
  <2> QED BY <2>1, <2>2, LocksStep, OnwardStays DEF SessionInv
<1>3. ASSUME NEW t \in Threads, BeginDrop(t) PROVE SessionInv' /\ Onward
  <2>1. CASE Drop(t)
    <3>1. RegistryInv'
      BY <2>1, LetsGoStep DEF SessionInv, Drop, LetGo
    <3> QED BY <2>1, <3>1, OnwardStays DEF SessionInv, Drop
  <2> QED BY <1>3, <2>1, SessionStays DEF BeginDrop
<1>4. ASSUME NEW t \in Threads, BeginPrepare(t) PROVE SessionInv' /\ Onward
  <2>1. CASE held[t] # 0 /\ Prepare(held[t])
    <3>1. held[t] \in 1..Len(sessions)
      BY <2>1, InstancesKnown DEF SessionInv, RegistryInv, SessionTypeOK
    <3> QED BY <2>1, <3>1, PrepareDoes
  <2> QED BY <1>4, <2>1, SessionStays DEF BeginPrepare
<1>5. ASSUME NEW t \in Threads, BeginCall(t) PROVE SessionInv' /\ Onward
  <2> PICK s \in 1..Len(sessions) : s = Stamp(t).session
    BY <1>5, CallKnown DEF BeginCall, Does
  <2>1. /\ Lives(s) /\ open[t] = Outside /\ temp' = [temp EXCEPT ![t] = s]
        /\ UNCHANGED <<mutex, registry, sessions, held, open>>
    BY <1>5 DEF BeginCall, Does
  <2> QED BY <2>1, CallLocksStep, OnwardStays DEF SessionInv
<1>6. ASSUME NEW t \in Threads, Destroy(t) PROVE SessionInv' /\ Onward
  BY <1>6, DestroyStep, OnwardStays DEF SessionInv, Destroy
<1>7. ASSUME NEW t \in Threads, Leave(t) PROVE SessionInv' /\ Onward
  <2>1. /\ open[t] = Outside /\ temp' = [temp EXCEPT ![t] = 0]
        /\ UNCHANGED <<mutex, registry, sessions, held>>
        /\ open' = [open EXCEPT ![t] = [at |-> "destroy"]] \/ UNCHANGED open
    BY <1>7 DEF Leave, At, LetGo, ThreadInv, ThreadOk
  <2> QED BY <2>1, LetsGoStep, OnwardStays DEF SessionInv
<1> QED BY <1>1, <1>2, <1>3, <1>4, <1>5, <1>6, <1>7, SessionMoves, OpenStep, BindKnown

-----------------------------------------------------------------------------
(* Stamps and threads.                                                     *)

StampsGrow ==
  /\ Len(stamps') \in Nat /\ Len(stamps) <= Len(stamps')
  /\ \A j \in 1..Len(stamps) : stamps'[j] = stamps[j]

LEMMA StampMoves ==
  ASSUME [Next]_vars
  PROVE  UNCHANGED stamps \/ \E t \in Threads : BeginPrepare(t)
<1>1. CASE \E t \in Threads : Begin(t)
  BY <1>1 DEF Begin, BeginOpen, BeginDrop, BeginCall, CallWithoutSession, Publish, Withdraw,
              BeginDiscovery
<1>2. CASE \E t \in Threads : Proceed(t)
  BY <1>2 DEF Proceed, SessionSteps, BudgetRefused, Bind, FindRoute, ResolveRoute, NoRoute, NotSent,
              LimitsExceeded, Send, NeedsClient, ClientFails, ClientMade, Answered, Fails,
              ResponseUnreadable, TimesOut, Leave, DiscoverySteps, DiscoveryReturns, caller
<1>3. CASE (\E w \in Watched : Watcher(w)) \/ ClockTicks \/ Receiver
  BY <1>3 DEF Watcher, ClockTicks, Receiver, ReceiverAdmits, ReceiverRefuses, ReceiverCompletes, caller
<1>4. CASE UNCHANGED vars
  BY <1>4 DEF vars, caller
<1> QED BY <1>1, <1>2, <1>3, <1>4 DEF Next

LEMMA StampStep ==
  ASSUME SessionInv, StampInv, ThreadInv, [Next]_vars
  PROVE  StampInv' /\ StampsGrow
<1> DEFINE S == [session : Nat \ {0}, seq : Nat \ {0}]
           L(s) == IF sessions'[s].exhausted THEN LastSeq ELSE sessions'[s].next - 1
<1>1. stamps \in Seq(S) /\ Len(stamps) \in Nat
  BY DEF StampInv
<1>2. SessionInv' /\ Onward
  BY SessionStep
<1>3. \A s \in 1..Len(sessions') : Issued(s)' = L(s) /\ L(s) \in Nat
  <2>1. \A s \in 1..Len(sessions') : sessions'[s] \in SessionStates
    BY <1>2, InstancesKnown DEF SessionInv, RegistryInv, SessionTypeOK
  <2> QED BY <2>1, SessionAssumption DEF Issued, SessionStates
<1> HIDE DEF L
<1>4. ASSUME NEW j \in 1..Len(stamps)
      PROVE  /\ stamps[j] \in S /\ stamps[j].session \in 1..Len(sessions')
             /\ stamps[j].seq <= L(stamps[j].session)
  <2>1. stamps[j] \in S
    <3> HIDE DEF S
    <3> QED BY <1>1, ElementOfSeq
  <2> PICK s \in 1..Len(sessions) : s = stamps[j].session
    BY DEF StampInv
  <2>2. stamps[j].seq \in Nat /\ stamps[j].seq <= Issued(s)
    BY <2>1 DEF StampInv
  <2>3. s \in 1..Len(sessions') /\ Issued(s) <= Issued(s)'
    BY <1>2, InstancesKnown DEF Onward, SessionInv, RegistryInv
  <2>4. Issued(s) \in Nat /\ Issued(s)' = L(s) /\ L(s) \in Nat
    BY <1>3, <2>3, TicketsKnown
  <2>5. stamps[j].seq <= L(s)
    BY <2>2, <2>3, <2>4
  <2> QED BY <2>1, <2>3, <2>5
<1>5. SUFFICES /\ stamps' \in Seq(S) /\ StampsGrow
               /\ \A j \in 1..Len(stamps') : /\ stamps'[j].session \in 1..Len(sessions')
                                             /\ stamps'[j].seq <= L(stamps'[j].session)
               /\ \A j, k \in 1..Len(stamps') : stamps'[j] = stamps'[k] => j = k
  BY DEF StampInv, Issued, L
<1>6. ASSUME UNCHANGED stamps
      PROVE  /\ stamps' \in Seq(S) /\ StampsGrow
             /\ \A j \in 1..Len(stamps') : /\ stamps'[j].session \in 1..Len(sessions')
                                           /\ stamps'[j].seq <= L(stamps'[j].session)
             /\ \A j, k \in 1..Len(stamps') : stamps'[j] = stamps'[k] => j = k
  <2>1. \A j, k \in 1..Len(stamps) : stamps[j] = stamps[k] => j = k
    BY DEF StampInv
  <2>2. StampsGrow
    BY <1>1, <1>6 DEF StampsGrow
  <2> HIDE DEF S
  <2>3. stamps' \in Seq(S)
    BY <1>1, <1>6
  <2>4. \A j \in 1..Len(stamps') : /\ stamps'[j].session \in 1..Len(sessions')
                                   /\ stamps'[j].seq <= L(stamps'[j].session)
    BY <1>4, <1>6
  <2> QED BY <1>6, <2>1, <2>2, <2>3, <2>4
<1>7. ASSUME NEW t \in Threads, BeginPrepare(t)
      PROVE  /\ stamps' \in Seq(S) /\ StampsGrow
             /\ \A j \in 1..Len(stamps') : /\ stamps'[j].session \in 1..Len(sessions')
                                           /\ stamps'[j].seq <= L(stamps'[j].session)
             /\ \A j, k \in 1..Len(stamps') : stamps'[j] = stamps'[k] => j = k
  <2>1. CASE UNCHANGED stamps
    BY <1>6, <2>1
  <2>2. CASE held[t] # 0 /\ Prepare(held[t])
    <3> PICK s \in 1..Len(sessions) : s = held[t]
      BY <2>2, InstancesKnown DEF SessionInv, RegistryInv, SessionTypeOK
    <3> DEFINE n == sessions[s].next
               x == [session |-> s, seq |-> n]
    <3>1. stamps' = Append(stamps, x)
      BY <1>7, <2>2 DEF BeginPrepare, Prepare
    <3>2. n = Issued(s) + 1 /\ n <= Issued(s)' /\ Len(sessions') = Len(sessions)
      BY <2>2, PrepareDoes
    <3>3. n \in Nat \ {0} /\ s \in Nat \ {0} /\ Issued(s) \in Nat
      BY <3>2, TicketsKnown
    <3>4. n <= L(s) /\ s \in 1..Len(sessions')
      BY <1>3, <3>2
    <3> HIDE DEF n
    <3>5. x \in S /\ x.session = s /\ x.seq = n
      BY <3>3
    <3> HIDE DEF S, x
    <3>6. /\ stamps' \in Seq(S) /\ Len(stamps') = Len(stamps) + 1
          /\ stamps'[Len(stamps) + 1] = x
          /\ \A j \in 1..Len(stamps) : stamps'[j] = stamps[j]
      BY <1>1, <3>1, <3>5
    <3>7. StampsGrow
      BY <1>1, <3>6 DEF StampsGrow
    <3>8. \A j \in 1..Len(stamps') : j = Len(stamps) + 1 \/ j \in 1..Len(stamps)
      BY <1>1, <3>6
    <3>9. ASSUME NEW j \in 1..Len(stamps) PROVE stamps[j] # x
      <4>1. stamps[j].session = s => stamps[j].seq <= Issued(s)
        BY DEF StampInv
      <4>2. CASE stamps[j] = x
        BY <3>2, <3>3, <3>5, <4>1, <4>2
      <4> QED BY <4>2
    <3>10. \A j \in 1..Len(stamps') : /\ stamps'[j].session \in 1..Len(sessions')
                                      /\ stamps'[j].seq <= L(stamps'[j].session)
      BY <1>4, <3>4, <3>5, <3>6, <3>8
    <3>11. \A j, k \in 1..Len(stamps) : stamps[j] = stamps[k] => j = k
      BY DEF StampInv
    <3>12. \A j, k \in 1..Len(stamps') : stamps'[j] = stamps'[k] => j = k
      BY <3>6, <3>8, <3>9, <3>11
    <3> QED BY <3>6, <3>7, <3>10, <3>12
  <2> QED BY <1>7, <2>1, <2>2 DEF BeginPrepare
<1> QED BY <1>6, <1>7, StampMoves

\* A thread that is not where it is asked to move stays right.
LEMMA ThreadFrame ==
  ASSUME SessionInv, StampInv, ThreadInv, Onward, StampsGrow, NEW u \in Threads,
         prog'[u] = prog[u], pc'[u] = pc[u], open'[u] = open[u] \/ pc[u] = "idle"
  PROVE  ThreadOk(u)'
<1>1. ThreadOk(u)
  BY DEF ThreadInv
<1>2. CASE pc[u] \in InCall
  <2>1. /\ open[u] = Outside /\ prog[u] # <<>> /\ pc[u] # "idle"
        /\ Op(u).do = "Call" /\ Op(u).stamp <= Len(stamps)
    BY <1>1, <1>2 DEF ThreadOk, InCall
  <2>2. Op(u).stamp \in 1..Len(stamps)
    BY <2>1, CallKnown
  <2>3. Op(u).stamp <= Len(stamps')
    BY <2>2 DEF StampsGrow
  <2>4. stamps'[Op(u).stamp] = stamps[Op(u).stamp]
    BY <2>2 DEF StampsGrow
  <2>5. Head(prog'[u]) = Op(u)
    BY DEF Op
  <2> PICK r : r = Request(u)
    OBVIOUS
  <2>6. Request(u)' = r
    BY <2>4, <2>5 DEF Request, Stamp, Op
  <2>7. Sent(Request(u)) => Sent(Request(u))'
    <3>1. Sent(r) => Sent(r)'
      BY SentStays
    <3>2. Sent(Request(u))' <=> Sent(r)'
      BY <2>6 DEF Sent
    <3> QED BY <3>1, <3>2
  <2> QED BY <1>1, <2>1, <2>3, <2>5, <2>7 DEF ThreadOk, Op
<1>3. CASE pc[u] \notin InCall
  BY <1>1, <1>3 DEF ThreadOk, InCall, PastBind
<1> QED BY <1>2, <1>3

LEMMA ThreadBy ==
  ASSUME SessionInv, StampInv, ThreadInv, Onward, StampsGrow, NEW t \in Threads,
         NEW a \in Seq(Operations), prog' = [prog EXCEPT ![t] = a],
         NEW b \in Places, pc' = [pc EXCEPT ![t] = b],
         \A u \in Threads : u # t => open'[u] = open[u],
         b = "idle" \/ ThreadOk(t)'
  PROVE  ThreadInv'
<1>1. prog' \in [Threads -> Seq(Operations)] /\ pc' \in [Threads -> Places]
  BY DEF ThreadInv
<1>2. pc'[t] = b /\ \A u \in Threads : u # t => prog'[u] = prog[u] /\ pc'[u] = pc[u]
  BY DEF ThreadInv
<1>3. ASSUME NEW u \in Threads PROVE ThreadOk(u)'
  <2>1. CASE u = t /\ b = "idle"
    BY <1>2, <2>1 DEF ThreadOk, InCall, PastBind
  <2>2. CASE u # t
    BY <1>2, <2>2, ThreadFrame
  <2> QED BY <2>1, <2>2
<1> QED BY <1>1, <1>3 DEF ThreadInv

\* A thread that begins or ends with something.
LEMMA BeginThread ==
  ASSUME SessionInv, StampInv, ThreadInv, [Next]_vars, NEW t \in Threads, Begin(t)
  PROVE  ThreadInv'
<1>1. Onward /\ StampsGrow
  BY SessionStep, StampStep
<1>2. pc[t] = "idle" /\ open[t] = Outside /\ prog[t] # <<>>
  BY DEF Begin, BeginOpen, BeginDrop, BeginPrepare, BeginCall, CallWithoutSession, Publish,
         Withdraw, BeginDiscovery, Does
<1>3. /\ prog = [prog EXCEPT ![t] = prog[t]] /\ prog[t] \in Seq(Operations)
      /\ pc = [pc EXCEPT ![t] = "idle"] /\ Tail(prog[t]) \in Seq(Operations)
      /\ "idle" \in Places /\ "bind" \in Places /\ "discovery" \in Places
  BY <1>2, OperationKnown DEF ThreadInv, Places, InCall
<1>4. CASE Done(t) /\ UNCHANGED pc /\ \A u \in Threads : u # t => open'[u] = open[u]
  BY <1>1, <1>3, <1>4, ThreadBy DEF Done
<1>5. CASE BeginCall(t)
  <2>1. /\ Op(t).do = "Call" /\ Op(t).stamp <= Len(stamps)
        /\ pc' = [pc EXCEPT ![t] = "bind"] /\ UNCHANGED <<prog, stamps, open>>
    BY <1>5 DEF BeginCall, Does
  <2>2. pc'[t] = "bind"
    BY <2>1 DEF ThreadInv
  <2>3. ThreadOk(t)'
    BY <1>2, <2>1, <2>2 DEF ThreadOk, Op, PastBind
  <2> QED BY <1>1, <1>3, <2>1, <2>3, ThreadBy
<1>6. CASE BeginDiscovery(t)
  <2>1. pc' = [pc EXCEPT ![t] = "discovery"] /\ UNCHANGED <<prog, stamps, open>>
    BY <1>6 DEF BeginDiscovery, Go, sessionVars
  <2>2. pc'[t] = "discovery"
    BY <2>1 DEF ThreadInv
  <2>3. ThreadOk(t)'
    BY <1>2, <2>1, <2>2 DEF ThreadOk, InCall, PastBind
  <2> QED BY <1>1, <1>3, <2>1, <2>3, ThreadBy
<1>7. CASE \/ BeginOpen(t) \/ BeginDrop(t) \/ BeginPrepare(t) \/ CallWithoutSession(t)
           \/ Publish(t) \/ Withdraw(t)
  <2>1. Done(t) /\ UNCHANGED pc
    BY <1>7 DEF BeginOpen, BeginDrop, BeginPrepare, CallWithoutSession, Publish, Withdraw
  <2>2. \A u \in Threads : u # t => open'[u] = open[u]
    <3>1. open \in [Threads -> OpenStates]
      BY DEF SessionInv, RegistryInv, SessionTypeOK
    <3> QED BY <1>7, <3>1 DEF BeginOpen, BeginDrop, BeginPrepare, CallWithoutSession, Publish,
                 Withdraw, OpenLocks, Drop, LetGo, Prepare, sessionVars
  <2> QED BY <1>4, <2>1, <2>2
<1> QED BY <1>5, <1>6, <1>7 DEF Begin

\* A thread that goes on in its call.
LEMMA CallThread ==
  ASSUME SessionInv, StampInv, ThreadInv, Onward, StampsGrow, NEW t \in Threads,
         pc[t] \in InCall, UNCHANGED <<prog, open>>, NEW b \in InCall,
         pc' = [pc EXCEPT ![t] = b], b \in PastBind => pc[t] \in PastBind \/ Sent(Request(t))'
  PROVE  ThreadInv'
<1>1. /\ open[t] = Outside /\ prog[t] # <<>>
      /\ Op(t).do = "Call" /\ Op(t).stamp <= Len(stamps)
      /\ pc[t] \in PastBind => Sent(Request(t))
  BY DEF ThreadInv, ThreadOk, InCall
<1>2. pc'[t] = b /\ b \in Places
  BY DEF ThreadInv, Places
<1>3. Op(t).stamp \in 1..Len(stamps) /\ Op(t).stamp <= Len(stamps')
      /\ stamps'[Op(t).stamp] = stamps[Op(t).stamp]
  BY <1>1, CallKnown DEF StampsGrow
<1>4. pc[t] \in PastBind => Sent(Request(t))'
  <2> PICK r : r = Request(t)
    OBVIOUS
  <2>1. Request(t)' = r
    BY <1>3 DEF Request, Stamp, Op
  <2>2. Sent(r) => Sent(r)'
    BY SentStays
  <2>3. Sent(Request(t))' <=> Sent(r)'
    BY <2>1 DEF Sent
  <2> QED BY <1>1, <2>2, <2>3
<1>5. ThreadOk(t)'
  BY <1>1, <1>2, <1>3, <1>4 DEF ThreadOk, Op
<1>6. prog' = [prog EXCEPT ![t] = prog[t]] /\ prog[t] \in Seq(Operations)
  BY DEF ThreadInv
<1> QED BY <1>2, <1>5, <1>6, ThreadBy

LEMMA ProceedThread ==
  ASSUME SessionInv, StampInv, ThreadInv, [Next]_vars, NEW t \in Threads, Proceed(t)
  PROVE  ThreadInv'
<1>1. Onward /\ StampsGrow
  BY SessionStep, StampStep
<1>2. /\ open \in [Threads -> OpenStates] /\ pc \in [Threads -> Places]
      /\ prog = [prog EXCEPT ![t] = prog[t]] /\ prog[t] \in Seq(Operations)
      /\ pc = [pc EXCEPT ![t] = pc[t]] /\ pc[t] \in Places /\ "idle" \in Places
  BY DEF SessionInv, RegistryInv, SessionTypeOK, ThreadInv, Places
<1>3. CASE SessionSteps(t)
  <2>1. UNCHANGED <<prog, pc>>
    BY <1>3 DEF SessionSteps, caller
  <2>2. open[t] # Outside
    BY <1>3 DEF SessionSteps, OpenSteps, OpenScans, OpenShares, LocksItself, OpenRejected, OpenPasses,
                OpenCreates, Destroy, Outside
  <2>3. \A u \in Threads : u # t => open'[u] = open[u]
    BY <1>2, <1>3 DEF SessionSteps, OpenSteps, OpenScans, OpenShares, LocksItself, OpenRejected,
                OpenPasses, OpenCreates, Destroy, Enter, ReturnFromOpen
  <2>4. pc[t] = "idle"
    BY <2>2 DEF ThreadInv, ThreadOk
  <2> QED BY <1>1, <1>2, <2>1, <2>3, <2>4, ThreadBy
<1>4. CASE \/ BudgetRefused(t) \/ FindRoute(t) \/ ResolveRoute(t) \/ NoRoute(t) \/ NotSent(t)
           \/ LimitsExceeded(t) \/ Send(t) \/ NeedsClient(t) \/ ClientFails(t) \/ ClientMade(t)
           \/ Answered(t) \/ ResponseUnreadable(t) \/ TimesOut(t)
  <2>1. pc[t] \in InCall /\ UNCHANGED <<prog, open>>
    BY <1>4 DEF BudgetRefused, FindRoute, ResolveRoute, NoRoute, NotSent, LimitsExceeded, Send,
                NeedsClient, ClientFails, ClientMade, Answered, ResponseUnreadable, TimesOut,
                At, Fails, sessionVars, InCall
  <2>2. \E b \in InCall : pc' = [pc EXCEPT ![t] = b] /\ (b \in PastBind => pc[t] \in PastBind)
    BY <1>4 DEF BudgetRefused, FindRoute, ResolveRoute, NoRoute, NotSent, LimitsExceeded, Send,
                NeedsClient, ClientFails, ClientMade, Answered, ResponseUnreadable, TimesOut,
                At, Fails, Go, InCall, PastBind
  <2> QED BY <1>1, <2>1, <2>2, CallThread
<1>5. CASE Bind(t)
  <2>1. /\ pc[t] = "bind" /\ UNCHANGED <<open, prog>>
        /\ \/ pc' = [pc EXCEPT ![t] = "route"] /\ Sent(Request(t))'
           \/ pc' = [pc EXCEPT ![t] = "leave"]
    BY <1>5, BindKnown
  <2>2. pc[t] \in InCall /\ "route" \in InCall /\ "leave" \in InCall /\ "leave" \notin PastBind
    BY <2>1 DEF InCall, PastBind
  <2> QED BY <1>1, <2>1, <2>2, CallThread
<1>6. CASE Leave(t)
  <2>1. pc' = [pc EXCEPT ![t] = "idle"] /\ prog' = [prog EXCEPT ![t] = Tail(prog[t])]
    BY <1>6 DEF Leave, Go, Done
  <2>2. \A u \in Threads : u # t => open'[u] = open[u]
    BY <1>2, <1>6 DEF Leave, LetGo
  <2>3. Tail(prog[t]) \in Seq(Operations)
    BY <1>6, OperationKnown DEF Leave, At, ThreadInv, ThreadOk
  <2> QED BY <1>1, <1>2, <2>1, <2>2, <2>3, ThreadBy
<1>7. CASE DiscoverySteps(t)
  <2>1. UNCHANGED <<prog, pc, open>>
    BY <1>7 DEF DiscoverySteps, caller, sessionVars
  <2>2. ThreadOk(t)'
    BY <1>1, <2>1, ThreadFrame
  <2> QED BY <1>1, <1>2, <2>1, <2>2, ThreadBy
<1>8. CASE DiscoveryReturns(t)
  <2>1. pc' = [pc EXCEPT ![t] = "idle"] /\ UNCHANGED open
    BY <1>8 DEF DiscoveryReturns, Go, sessionVars
  <2>2. prog[t] # <<>>
    BY <1>8 DEF DiscoveryReturns, At, ThreadInv, ThreadOk
  <2>3. Tail(prog[t]) \in Seq(Operations)
    BY <2>2, OperationKnown
  <2>4. \E a \in Seq(Operations) : prog' = [prog EXCEPT ![t] = a]
    <3>1. CASE Done(t)
      BY <2>3, <3>1 DEF Done
    <3>2. CASE ShutsDown(t)
      <4> DEFINE rest == Tail(prog[t])
      <4>1. PICK k \in 1..(Len(rest) + 1) : prog' = [prog EXCEPT ![t] = SubSeq(rest, k, Len(rest))]
        BY <3>2 DEF ShutsDown
      <4> HIDE DEF rest
      <4>2. rest \in Seq(Operations)
        BY <2>3 DEF rest
      <4>3. SubSeq(rest, k, Len(rest)) \in Seq(Operations)
        BY <4>2
      <4> QED BY <4>1, <4>3
    <3> QED BY <1>8, <3>1, <3>2 DEF DiscoveryReturns
  <2> QED BY <1>1, <1>2, <2>1, <2>4, ThreadBy
<1> QED BY <1>3, <1>4, <1>5, <1>6, <1>7, <1>8 DEF Proceed

LEMMA ThreadStep ==
  ASSUME SessionInv, StampInv, ThreadInv, [Next]_vars
  PROVE  ThreadInv'
<1>1. CASE UNCHANGED <<sessionVars, prog, pc>>
  <2>1. Onward /\ StampsGrow
    BY SessionStep, StampStep
  <2>2. \A u \in Threads : ThreadOk(u)'
    BY <1>1, <2>1, ThreadFrame DEF sessionVars
  <2> QED BY <1>1, <2>2 DEF ThreadInv
<1>2. CASE (\E w \in Watched : Watcher(w)) \/ ClockTicks \/ Receiver \/ UNCHANGED vars
  BY <1>1, <1>2 DEF Watcher, ClockTicks, Receiver, ReceiverAdmits, ReceiverRefuses,
                    ReceiverCompletes, caller, vars
<1> QED BY <1>2, BeginThread, ProceedThread DEF Next

-----------------------------------------------------------------------------
(* The wire.                                                               *)

LEMMA WireMoves ==
  ASSUME [Next]_vars
  PROVE  UNCHANGED <<network, client>> \/ \E t \in Threads : Send(t) \/ ClientMade(t)
<1>1. CASE \E t \in Threads : Begin(t)
  BY <1>1 DEF Begin, BeginOpen, BeginDrop, BeginPrepare, BeginCall, CallWithoutSession, Publish,
              Withdraw, BeginDiscovery, routing, egressVars
<1>2. CASE \E t \in Threads : Proceed(t)
  BY <1>2 DEF Proceed, SessionSteps, BudgetRefused, Bind, FindRoute, ResolveRoute, NoRoute, NotSent,
              LimitsExceeded, NeedsClient, ClientFails, Answered, Fails, ResponseUnreadable,
              TimesOut, Leave, DiscoverySteps, DiscoveryReturns, caller, routing, egressVars
<1>3. CASE (\E w \in Watched : Watcher(w)) \/ ClockTicks \/ Receiver
  BY <1>3 DEF Watcher, ClockTicks, Receiver, ReceiverAdmits, ReceiverRefuses, ReceiverCompletes,
              caller, routing, egressVars
<1>4. CASE UNCHANGED vars
  BY <1>4 DEF vars, caller, routing, egressVars
<1> QED BY <1>1, <1>2, <1>3, <1>4 DEF Next

\* Whoever comes first, requests go out through one client (_SendRpcProfile).
LEMMA WireStep ==
  ASSUME SessionInv, StampInv, ThreadInv, WireInv, [Next]_vars
  PROVE  WireInv'
<1>1. Onward
  BY SessionStep
<1>2. \A m \in network : m.req \in Requests /\ m.via = client /\ Sent(m.req)'
  <2> SUFFICES ASSUME NEW m \in network PROVE m.req \in Requests /\ m.via = client /\ Sent(m.req)'
    OBVIOUS
  <2> PICK r : r = m.req
    OBVIOUS
  <2>1. r \in Requests /\ m.via = client /\ Sent(r)
    BY DEF WireInv
  <2>2. Sent(r)'
    BY <1>1, <2>1, SentStays
  <2> QED BY <2>1, <2>2 DEF Sent
<1>3. client \in Nat /\ (client = 0 => network = {})
  BY DEF WireInv
<1>4. CASE UNCHANGED <<network, client>>
  BY <1>2, <1>3, <1>4 DEF WireInv, Sent
<1>5. ASSUME NEW t \in Threads, Send(t) \/ ClientMade(t) PROVE WireInv'
  <2> PICK r : r = Request(t)
    OBVIOUS
  <2>1. /\ pc[t] \in PastBind /\ pc[t] \in InCall /\ pc[t] # "idle"
        /\ network' = network \cup {[req |-> r, to |-> target[t], via |-> client']}
        /\ \/ client > 0 /\ client' = client
           \/ client' = IF client > 0 THEN client ELSE 1
    BY <1>5 DEF Send, ClientMade, At, Wire, HasClient, Installed, PastBind, InCall, routing, egressVars
  <2>2. r \in Requests /\ Sent(r)
    BY <2>1, CallKnown DEF ThreadInv, ThreadOk
  <2>3. Sent(r)'
    BY <1>1, <2>2, SentStays
  <2>4. client' \in Nat /\ client' # 0 /\ (client # 0 => client' = client)
    BY <1>3, <2>1
  <2>5. \A m \in network' : m.req \in Requests /\ m.via = client' /\ Sent(m.req)'
    <3> SUFFICES ASSUME NEW m \in network'
                 PROVE  m.req \in Requests /\ m.via = client' /\ Sent(m.req)'
      OBVIOUS
    <3>1. CASE m \in network
      BY <1>2, <1>3, <2>4, <3>1
    <3>2. CASE m = [req |-> r, to |-> target[t], via |-> client']
      BY <2>2, <2>3, <3>2 DEF Sent
    <3> QED BY <2>1, <3>1, <3>2
  <2> QED BY <2>4, <2>5 DEF WireInv, Sent
<1> QED BY <1>4, <1>5, WireMoves

-----------------------------------------------------------------------------
(* The receiver.                                                           *)

LEMMA ReceiverKnown ==
  ASSUME ReceiverInv
  PROVE  /\ Log \in Seq(Requests) /\ Len(Log) \in Nat
         /\ next[Granted.stream] = Len(Log) + 1
         /\ Granted.stream \in {g.stream : g \in Openable}
         /\ Granted.peer \in {g.peer : g \in Openable}
         /\ DOMAIN Outcome \subseteq 1..Len(Log)
         /\ \A s \in {g.stream : g \in Openable} : s # Granted.stream => log[s] = <<>>
         /\ \A n \in 1..Len(Log) : (<<Granted.stream, n>> \in DOMAIN inFlight) # (n \in DOMAIN Outcome)
<1> DEFINE Streams == {g.stream : g \in Openable}
           S == Granted.stream
<1>1. S \in Streams /\ Granted.peer \in {g.peer : g \in Openable}
  BY ReceiverAssumption
<1>2. /\ next \in [Streams -> 0..(LastSeq + 1)] /\ log \in [Streams -> Seq(Requests)]
  BY DEF ReceiverInv, IP!IInv, IP!CoreTypeOK
<1>3. \A s \in Streams : Len(log[s]) = IF next[s] = 0 THEN 0 ELSE next[s] - 1
  BY DEF ReceiverInv, IP!IInv, IP!SequenceNamesOneExecution
<1>4. \A s \in Streams : next[s] # 0 <=> IP!GrantOf(s) # {}
  BY DEF ReceiverInv, IP!IInv, IP!OneSessionPerStream
<1>5. IP!GrantOf(S) # {} /\ \A s \in Streams : s # S => IP!GrantOf(s) = {}
  <2>1. TheGrant.stream = S
    BY DEF TheGrant
  <2>2. \A s : IP!GrantOf(s) = {g \in {TheGrant} : g.stream = s}
    BY DEF ReceiverInv, IP!GrantOf
  <2> HIDE DEF Streams
  <2> QED BY <2>1, <2>2
<1>6. /\ DOMAIN Outcome \subseteq 1..Len(Log)
      /\ \A n \in 1..Len(Log) : (<<S, n>> \in DOMAIN inFlight) # (n \in DOMAIN Outcome)
  BY <1>1 DEF ReceiverInv, IP!IInv, IP!OneFate, Log, Outcome
<1> HIDE DEF Streams
<1>7. \A s \in Streams : s # S => log[s] = <<>>
  <2> SUFFICES ASSUME NEW s \in Streams, s # S PROVE log[s] = <<>>
    OBVIOUS
  <2>1. log[s] \in Seq(Requests) /\ Len(log[s]) = 0
    BY <1>2, <1>3, <1>4, <1>5
  <2> QED BY <2>1, EmptySeq
<1>8. Log \in Seq(Requests) /\ Len(Log) \in Nat /\ next[S] = Len(Log) + 1
  <2>1. next[S] \in 0..(LastSeq + 1) /\ next[S] # 0 /\ log[S] \in Seq(Requests)
    BY <1>1, <1>2, <1>4, <1>5
  <2> QED BY <1>1, <1>3, <2>1, SessionAssumption DEF Log
<1> QED BY <1>1, <1>6, <1>7, <1>8 DEF Streams

\* Nothing moves the receiver but requests and the ends of handlers.
LEMMA ReceiverMoves ==
  ASSUME [Next]_vars
  PROVE  \/ UNCHANGED <<ingress, replies>>
         \/ UNCHANGED sessions /\ UNCHANGED results /\ \E m \in network :
              ReceiverAdmits(m) \/ ReceiverRefuses(m)
         \/ UNCHANGED sessions /\ UNCHANGED results /\ \E i \in issued, o \in Outcomes :
              ReceiverCompletes(i, o)
<1>1. CASE \E t \in Threads : Begin(t)
  BY <1>1 DEF Begin, BeginOpen, BeginDrop, BeginPrepare, BeginCall, CallWithoutSession, Publish,
              Withdraw, BeginDiscovery
<1>2. CASE \E t \in Threads : Proceed(t)
  BY <1>2 DEF Proceed, SessionSteps, BudgetRefused, Bind, FindRoute, ResolveRoute, NoRoute, NotSent,
              LimitsExceeded, Send, NeedsClient, ClientFails, ClientMade, Answered,
              ResponseUnreadable, TimesOut, Leave, DiscoverySteps, DiscoveryReturns
<1>3. CASE (\E w \in Watched : Watcher(w)) \/ ClockTicks
  BY <1>3 DEF Watcher, ClockTicks
<1>4. CASE Receiver
  BY <1>4 DEF Receiver, ReceiverAdmits, ReceiverRefuses, ReceiverCompletes, caller, sessionVars
<1>5. CASE UNCHANGED vars
  BY <1>5 DEF vars
<1> QED BY <1>1, <1>2, <1>3, <1>4, <1>5 DEF Next

\* What executions and replies have said stays said.
LogOnward ==
  /\ Len(Log') \in Nat /\ Len(Log) <= Len(Log')
  /\ \A n \in 1..Len(Log) : Log'[n] = Log[n]
  /\ \A n \in DOMAIN Outcome : n \in DOMAIN Outcome' /\ Outcome'[n] = Outcome[n]

\* ReceiverInv, entry by entry of the log.
LEMMA ReceiverBy ==
  ASSUME IP!IInv', IP!TicketsTrue', UNCHANGED grants, ReceiverInv,
         \A n \in 1..Len(Log') : \E r : r = Log'[n] /\ r.seq = n /\ Sent(r)'
  PROVE  ReceiverInv'
<1>1. grants' = {TheGrant}'
  BY DEF ReceiverInv, TheGrant
<1>2. \A n \in 1..Len(Log') : Log'[n].seq = n /\ \E r : r = Log'[n] /\ Sent(r)'
  OBVIOUS
<1>3. (\A n \in 1..Len(Log) : Log[n].seq = n /\ Sent(Log[n]))'
  BY <1>2 DEF Sent
<1> QED BY <1>1, <1>3 DEF ReceiverInv

LEMMA EntryStays ==
  ASSUME SessionInv, Onward, ReceiverInv, NEW n \in 1..Len(Log)
  PROVE  \E r : r = Log[n] /\ r.seq = n /\ Sent(r)'
<1> PICK r : r = Log[n]
  OBVIOUS
<1>1. r.seq = n /\ Sent(r)
  BY DEF ReceiverInv
<1> QED BY <1>1, SentStays

LEMMA ReceiverFrame ==
  ASSUME SessionInv, Onward, ReceiverInv, UNCHANGED ingress
  PROVE  ReceiverInv' /\ LogOnward
<1>1. UNCHANGED <<grants, next, inFlight, cachedSeqs, cached, issued, log, outcome>>
  BY DEF ingress
<1>2. IP!IInv'
  BY <1>1, IngressLimits, IP!StutterInv DEF ReceiverInv, IP!core
<1>3. IP!TicketsTrue'
  BY <1>1 DEF ReceiverInv, IP!TicketsTrue
<1>4. Log' = Log /\ Outcome' = Outcome /\ LogOnward
  BY <1>1, ReceiverKnown DEF Log, Outcome, LogOnward
<1>5. \A n \in 1..Len(Log') : \E r : r = Log'[n] /\ r.seq = n /\ Sent(r)'
  BY <1>4, EntryStays
<1> QED BY <1>1, <1>2, <1>3, <1>4, <1>5, ReceiverBy

\* The answers of Admit to a request from the wire: it is executed behind the
\* last one, or nothing changes and the answer says why.
LEMMA AdmitDoes ==
  ASSUME ReceiverInv, NEW s \in {g.stream : g \in Openable}, NEW p \in {g.peer : g \in Openable},
         NEW req \in Requests, I!Admit(s, "epoch", p, req.seq, req)
  PROVE  /\ IP!IInv' /\ IP!TicketsTrue' /\ UNCHANGED <<grants, outcome>>
         /\ \/ /\ answer'.kind = "Execute"
               /\ req.seq = Len(Log) + 1 /\ Log' = Append(Log, req)
            \/ /\ UNCHANGED log
               /\ \/ answer'.kind \in {"Rejected", "Gap"}
                  \/ /\ req.seq \in 1..Len(Log)
                     /\ \/ /\ answer'.kind = "Replay" /\ Log[req.seq] = req
                           /\ req.seq \in DOMAIN Outcome /\ answer'.reply = Outcome[req.seq]
                        \/ answer'.kind = "InProgress" /\ Log[req.seq] = req
                        \/ answer'.kind = "Conflict" /\ Log[req.seq] # req
                        \/ answer'.kind = "Expired"
<1> DEFINE n == req.seq
           k == <<s, n>>
<1>1. IP!Admit(s, "epoch", p, n, req)
  BY SameAdmit
<1>2. n \in 1..LastSeq /\ n \in 0..(LastSeq + 1) /\ n \in Nat
  BY SessionAssumption DEF Requests
<1>3. ASSUME IP!StateUnchanged
      PROVE  IP!IInv' /\ IP!TicketsTrue' /\ UNCHANGED <<grants, outcome, log>>
  <2>1. IP!IInv'
    BY <1>3, IngressLimits, IP!StutterInv DEF ReceiverInv, IP!core, IP!StateUnchanged
  <2> QED BY <1>3, <2>1 DEF ReceiverInv, IP!TicketsTrue, IP!StateUnchanged
<1>4. CASE IP!AdmitRejected(s, "epoch", p, n, req)
  BY <1>3, <1>4 DEF IP!AdmitRejected, IP!Refuse
<1>5. CASE IP!Authorized(s, "epoch", p) /\ IP!AdmitGap(s, n)
  BY <1>3, <1>5 DEF IP!AdmitGap
<1>6. CASE IP!Authorized(s, "epoch", p) /\ (IP!AdmitUsed(s, n, req) \/ IP!AdmitExecute(s, n, req))
  <2>1. s = Granted.stream
    BY <1>6 DEF IP!Authorized, ReceiverInv, TheGrant
  <2>2. log[s] = Log /\ outcome[s] = Outcome /\ next[s] = Len(Log) + 1 /\ Len(Log) \in Nat
    BY <2>1, ReceiverKnown DEF Log, Outcome
  <2>3. CASE IP!AdmitExecute(s, n, req)
    <3>1. /\ n = next[s] /\ log' = [log EXCEPT ![s] = Append(@, req)]
          /\ answer'.kind = "Execute" /\ UNCHANGED <<grants, outcome>>
      BY <2>3 DEF IP!AdmitExecute, IP!Answer
    <3>2. IP!IInv'
      BY <1>2, <2>3, IngressLimits, IP!AdmitExecuteInv DEF ReceiverInv
    <3>3. IP!TicketsTrue'
      BY <1>2, <2>3, IngressLimits, IP!AdmitExecuteTickets DEF ReceiverInv
    <3>4. Log' = Append(Log, req)
      BY <2>1, <3>1 DEF Log, ReceiverInv, IP!IInv, IP!CoreTypeOK
    <3> QED BY <2>2, <3>1, <3>2, <3>3, <3>4
  <2>4. CASE IP!AdmitUsed(s, n, req)
    <3>1. IP!StateUnchanged /\ n \in 1..Len(Log)
      BY <1>2, <2>2, <2>4 DEF IP!AdmitUsed
    <3>2. CASE /\ k \in DOMAIN inFlight
               /\ IP!Refuse(IF inFlight[k] = req THEN "InProgress" ELSE "Conflict", s, n, req)
      <4>1. inFlight[k] = Log[n]
        BY <2>2, <3>2 DEF ReceiverInv, IP!IInv, IP!SequenceNamesOneExecution
      <4>2. answer'.kind = IF inFlight[k] = req THEN "InProgress" ELSE "Conflict"
        BY <3>2 DEF IP!Refuse
      <4> QED BY <1>3, <3>1, <4>1, <4>2
    <3>3. CASE /\ k \in DOMAIN cached
               /\ IF cached[k].req = req THEN IP!Replay(s, n, req)
                                         ELSE IP!Refuse("Conflict", s, n, req)
      <4>1. cached[k].req = Log[n] /\ n \in DOMAIN Outcome /\ cached[k].reply = Outcome[n]
        BY <2>2, <3>3 DEF ReceiverInv, IP!IInv, IP!SequenceNamesOneExecution, IP!OneFate
      <4>2. IF cached[k].req = req
            THEN answer'.kind = "Replay" /\ answer'.reply = cached[k].reply
            ELSE answer'.kind = "Conflict"
        BY <3>3 DEF IP!Replay, IP!Refuse
      <4> QED BY <1>3, <3>1, <4>1, <4>2
    <3>4. CASE IP!Refuse("Expired", s, n, req)
      <4>1. answer'.kind = "Expired"
        BY <3>4 DEF IP!Refuse
      <4> QED BY <1>3, <3>1, <4>1
    <3> QED BY <2>4, <3>2, <3>3, <3>4 DEF IP!AdmitUsed
  <2> QED BY <1>6, <2>3, <2>4
<1> QED BY <1>1, <1>4, <1>5, <1>6 DEF IP!Admit

\* The end of a handler gives its request the one terminal reply (Complete).
LEMMA CompleteDoes ==
  ASSUME ReceiverInv, NEW i \in issued, NEW o \in Outcomes, I!Complete(i, o)
  PROVE  /\ IP!IInv' /\ IP!TicketsTrue' /\ UNCHANGED <<grants, log>>
         /\ i.req.seq \in 1..Len(Log) /\ Log[i.req.seq] = i.req
         /\ i.req.seq \notin DOMAIN Outcome
         /\ DOMAIN Outcome' = DOMAIN Outcome \cup {i.req.seq}
         /\ Outcome'[i.req.seq].outcome = o
         /\ \A n \in DOMAIN Outcome : Outcome'[n] = Outcome[n]
<1>1. IP!Complete(i, o)
  BY SameComplete
<1> DEFINE reply == [for |-> i.req, outcome |-> o]
<1>2. /\ <<i.stream, i.seq>> \in DOMAIN inFlight
      /\ outcome' = [outcome EXCEPT ![i.stream] = IP!Put(@, i.seq, reply)]
      /\ UNCHANGED <<grants, next, issued, log>>
  <2>1. IP!Normalized(o) = o /\ IP!IInv
    BY DEF IP!Normalized, ReceiverInv
  <2>2. LET full == [for |-> i.req, outcome |-> IP!Normalized(o)]
        IN  /\ <<i.stream, i.seq>> \in DOMAIN inFlight
            /\ outcome' = [outcome EXCEPT ![i.stream] = IP!Put(@, i.seq, full)]
            /\ UNCHANGED <<grants, next, issued, log>>
    BY <1>1, <2>1, IngressLimits, IP!CompleteFacts
  <2> QED BY <2>1, <2>2
<1>3. IP!IInv'
  BY <1>1, IngressLimits, IP!CompleteInv DEF ReceiverInv
<1>4. IP!TicketsTrue'
  BY <1>2 DEF ReceiverInv, IP!TicketsTrue
<1>5. i.stream \in {g.stream : g \in Openable}
  BY DEF ReceiverInv, IP!IInv, IP!CoreTypeOK, IP!Tickets
<1>6. i.stream = Granted.stream
  <2>1. i.seq \in 1..Len(log[i.stream])
    BY DEF ReceiverInv, IP!TicketsTrue
  <2>2. Len(<<>>) = 0
    OBVIOUS
  <2>3. log[i.stream] # <<>>
    BY <2>1, <2>2
  <2> QED BY <1>5, <2>3, ReceiverKnown
<1>7. i.seq \in 1..Len(Log) /\ Log[i.seq] = i.req
  BY <1>6 DEF ReceiverInv, IP!TicketsTrue, Log
<1>8. i.req.seq = i.seq
  BY <1>7 DEF ReceiverInv
<1>9. i.seq \notin DOMAIN Outcome
  <2>1. <<Granted.stream, i.seq>> \in DOMAIN inFlight
    BY <1>2, <1>6
  <2> QED BY <1>7, <2>1, ReceiverKnown
<1>10. Outcome' = IP!Put(Outcome, i.seq, reply)
  BY <1>2, <1>5, <1>6 DEF Outcome, ReceiverInv, IP!IInv, IP!CoreTypeOK
<1>11. /\ DOMAIN Outcome' = DOMAIN Outcome \cup {i.seq}
       /\ Outcome'[i.seq].outcome = o
       /\ \A n \in DOMAIN Outcome : Outcome'[n] = Outcome[n]
  BY <1>9, <1>10 DEF IP!Put
<1> QED BY <1>2, <1>3, <1>4, <1>7, <1>8, <1>9, <1>11

\* What was said of a request stays so.
LEMMA FateStays ==
  ASSUME SessionInv, ReceiverInv, Onward, LogOnward, NEW r, Fate(r)
  PROVE  Fate(r)'
<1>1. \A n \in 1..Len(Log) : n \in 1..Len(Log') /\ Log'[n] = Log[n]
  BY ReceiverKnown DEF LogOnward
<1>2. /\ Len(sessions) \in Nat /\ Len(sessions') \in Nat /\ Len(sessions) <= Len(sessions')
      /\ \A s \in 1..Len(sessions) : \A n \in DOMAIN sessions[s].bound :
           n \in DOMAIN sessions'[s].bound /\ sessions'[s].bound[n] = sessions[s].bound[n]
  BY InstancesKnown DEF Onward, SessionInv, RegistryInv
<1> QED BY <1>1, <1>2 DEF Fate, LogOnward

\* A request that arrives.
LEMMA AdmitStep ==
  ASSUME SessionInv, Onward, WireInv, ReceiverInv, NEW m \in network, ReceiverAdmits(m)
  PROVE  ReceiverInv' /\ LogOnward /\ \A r \in replies' : r \in replies \/ Fate(r)'
<1> PICK req : req = m.req
  OBVIOUS
<1> PICK s, p : s = sessions[req.session].grant.stream /\ p = sessions[req.session].grant.peer
  OBVIOUS
<1>1. I!Admit(s, "epoch", p, req.seq, req) /\ Decided(req, answer')
  BY DEF ReceiverAdmits
<1>2. req \in Requests /\ Sent(req) /\ Sent(req)'
  BY SentStays DEF WireInv
<1>3. s \in {g.stream : g \in Openable} /\ p \in {g.peer : g \in Openable}
  <2>1. sessions[req.session] \in SessionStates
    BY <1>2, InstancesKnown DEF Sent, SessionInv, RegistryInv
  <2>2. \A x \in SessionStates : x.grant \in Openable
    BY DEF SessionStates
  <2>3. sessions[req.session].grant \in Openable
    BY <2>1, <2>2
  <2> QED BY <2>3
<1> DEFINE n == req.seq
<1>4. Log \in Seq(Requests) /\ Len(Log) \in Nat
  BY ReceiverKnown
<1>5. CASE /\ answer'.kind = "Execute"
           /\ n = Len(Log) + 1 /\ Log' = Append(Log, req)
           /\ IP!IInv' /\ IP!TicketsTrue' /\ UNCHANGED <<grants, outcome>>
  <2>1. /\ Len(Log') = Len(Log) + 1 /\ Log'[n] = req
        /\ \A k \in 1..Len(Log) : Log'[k] = Log[k]
    BY <1>2, <1>4, <1>5
  <2>2. LogOnward
    BY <1>4, <1>5, <2>1 DEF LogOnward, Outcome
  <2>3. ASSUME NEW k \in 1..Len(Log') PROVE \E r : r = Log'[k] /\ r.seq = k /\ Sent(r)'
    <3>1. CASE k = n
      BY <1>2, <2>1, <3>1
    <3>2. CASE k # n
      <4>1. k \in 1..Len(Log)
        BY <1>4, <1>5, <2>1, <2>3, <3>2
      <4> QED BY <2>1, <4>1, EntryStays
    <3> QED BY <3>1, <3>2
  <2>4. ReceiverInv'
    BY <1>5, <2>3, ReceiverBy
  <2>5. replies' = replies
    BY <1>1, <1>5 DEF Decided
  <2> QED BY <2>2, <2>4, <2>5
<1>6. CASE /\ IP!IInv' /\ IP!TicketsTrue' /\ UNCHANGED <<grants, outcome, log>>
           /\ \/ answer'.kind \in {"Rejected", "Gap"}
              \/ /\ n \in 1..Len(Log)
                 /\ \/ /\ answer'.kind = "Replay" /\ Log[n] = req
                       /\ n \in DOMAIN Outcome /\ answer'.reply = Outcome[n]
                    \/ answer'.kind = "InProgress" /\ Log[n] = req
                    \/ answer'.kind = "Conflict" /\ Log[n] # req
                    \/ answer'.kind = "Expired"
  <2>1. Log' = Log /\ Outcome' = Outcome
    BY <1>6 DEF Log, Outcome
  <2>2. LogOnward
    BY <1>4, <2>1 DEF LogOnward
  <2>3. ReceiverInv'
    BY <1>6, <2>1, EntryStays, ReceiverBy
  <2>4. CASE answer'.kind = "Replay"
    <3>1. replies' = replies \cup {Reply(req, Outcome[n].outcome)}
      BY <1>1, <1>6, <2>4 DEF Decided
    <3>2. \A r : r = Reply(req, Outcome[n].outcome) => Fate(r)'
      BY <1>6, <2>1, <2>4 DEF Fate, Reply
    <3>3. \A r \in replies' : r \in replies \/ Fate(r)'
      BY <3>1, <3>2
    <3> QED BY <2>2, <2>3, <3>3
  <2>5. CASE answer'.kind \in {"Rejected", "Gap", "InProgress", "Conflict", "Expired"}
    <3>1. replies' = replies \cup {[req |-> req, kind |-> answer'.kind]}
      BY <1>1, <2>5 DEF Decided
    <3>2. \A r : r = [req |-> req, kind |-> answer'.kind] => Fate(r)'
      BY <1>6, <2>1, <2>5 DEF Fate
    <3>3. \A r \in replies' : r \in replies \/ Fate(r)'
      BY <3>1, <3>2
    <3> QED BY <2>2, <2>3, <3>3
  <2> QED BY <1>6, <2>4, <2>5
<1>7. /\ IP!IInv' /\ IP!TicketsTrue' /\ UNCHANGED <<grants, outcome>>
      /\ \/ /\ answer'.kind = "Execute"
            /\ n = Len(Log) + 1 /\ Log' = Append(Log, req)
         \/ /\ UNCHANGED log
            /\ \/ answer'.kind \in {"Rejected", "Gap"}
               \/ /\ n \in 1..Len(Log)
                  /\ \/ /\ answer'.kind = "Replay" /\ Log[n] = req
                        /\ n \in DOMAIN Outcome /\ answer'.reply = Outcome[n]
                     \/ answer'.kind = "InProgress" /\ Log[n] = req
                     \/ answer'.kind = "Conflict" /\ Log[n] # req
                     \/ answer'.kind = "Expired"
  <2> HIDE DEF n
  <2>1. n = req.seq
    BY DEF n
  <2>2. I!Admit(s, "epoch", p, req.seq, req)
    BY <1>1
  <2> QED BY <1>2, <1>3, <2>1, <2>2, AdmitDoes
<1> QED BY <1>5, <1>6, <1>7

\* The end of a handler.
LEMMA CompleteStep ==
  ASSUME SessionInv, Onward, ReceiverInv, NEW i \in issued, NEW o \in Outcomes, ReceiverCompletes(i, o)
  PROVE  ReceiverInv' /\ LogOnward /\ \A r \in replies' : r \in replies \/ Fate(r)'
<1> PICK req : req = i.req
  OBVIOUS
<1>1. I!Complete(i, o) /\ replies' = replies \cup {Reply(req, o)}
  BY DEF ReceiverCompletes
<1>2. /\ IP!IInv' /\ IP!TicketsTrue' /\ UNCHANGED <<grants, log>>
      /\ req.seq \in 1..Len(Log) /\ Log[req.seq] = req
      /\ DOMAIN Outcome' = DOMAIN Outcome \cup {req.seq}
      /\ Outcome'[req.seq].outcome = o
      /\ \A n \in DOMAIN Outcome : Outcome'[n] = Outcome[n]
  BY <1>1, CompleteDoes
<1>3. Log' = Log /\ Len(Log) \in Nat
  BY <1>2, ReceiverKnown DEF Log
<1>4. LogOnward
  BY <1>2, <1>3 DEF LogOnward
<1>5. ReceiverInv'
  BY <1>2, <1>3, EntryStays, ReceiverBy
<1>6. \A r : r = Reply(req, o) => Fate(r)'
  BY <1>2, <1>3 DEF Fate, Reply
<1> QED BY <1>1, <1>4, <1>5, <1>6

LEMMA ReceiverStep ==
  ASSUME SessionInv, Onward, WireInv, ReceiverInv, [Next]_vars
  PROVE  /\ ReceiverInv' /\ LogOnward
         /\ \A r \in replies' : r \in replies \/ Fate(r)'
<1>1. CASE UNCHANGED <<ingress, replies>>
  BY <1>1, ReceiverFrame
<1>2. ASSUME NEW m \in network, ReceiverRefuses(m)
      PROVE  /\ ReceiverInv' /\ LogOnward
             /\ \A r \in replies' : r \in replies \/ Fate(r)'
  <2>1. UNCHANGED ingress /\ replies' = replies \cup {[req |-> m.req, kind |-> "Rejected"]}
    BY <1>2 DEF ReceiverRefuses
  <2>2. \A r : r = [req |-> m.req, kind |-> "Rejected"] => Fate(r)'
    BY DEF Fate
  <2> QED BY <2>1, <2>2, ReceiverFrame
<1> QED BY <1>1, <1>2, AdmitStep, CompleteStep, ReceiverMoves

-----------------------------------------------------------------------------
(* What callers are told.                                                  *)

\* Errors of the own process say nothing of the request's fate.
LEMMA FailsUntold ==
  ASSUME NEW t \in Threads, NEW kind, Fails(t, kind), kind \notin Telling
  PROVE  UNCHANGED results
  BY DEF Fails, Tell

LEMMA TellMoves ==
  ASSUME [Next]_vars
  PROVE  UNCHANGED results \/ \E t \in Threads : Bind(t) \/ Answered(t)
<1>1. CASE \E t \in Threads : Begin(t)
  BY <1>1 DEF Begin, BeginOpen, BeginDrop, BeginPrepare, BeginCall, CallWithoutSession, Publish,
              Withdraw, BeginDiscovery
<1>2. CASE \E t \in Threads : Proceed(t)
  <2> PICK t \in Threads : Proceed(t)
    BY <1>2
  <2>1. CASE BudgetRefused(t) \/ NoRoute(t) \/ NotSent(t) \/ LimitsExceeded(t) \/ ClientFails(t)
             \/ ResponseUnreadable(t) \/ TimesOut(t)
    BY <2>1, FailsUntold DEF BudgetRefused, NoRoute, NotSent, LimitsExceeded, ClientFails,
                             ResponseUnreadable, TimesOut, Telling
  <2>2. CASE SessionSteps(t) \/ FindRoute(t) \/ ResolveRoute(t) \/ Send(t) \/ NeedsClient(t)
             \/ ClientMade(t) \/ Leave(t) \/ DiscoverySteps(t) \/ DiscoveryReturns(t)
    BY <2>2 DEF SessionSteps, FindRoute, ResolveRoute, Send, NeedsClient, ClientMade, Leave,
                DiscoverySteps, DiscoveryReturns, caller
  <2> QED BY <2>1, <2>2 DEF Proceed
<1>3. CASE (\E w \in Watched : Watcher(w)) \/ ClockTicks \/ Receiver
  BY <1>3 DEF Watcher, ClockTicks, Receiver, ReceiverAdmits, ReceiverRefuses, ReceiverCompletes, caller
<1>4. CASE UNCHANGED vars
  BY <1>4 DEF vars, caller
<1> QED BY <1>1, <1>2, <1>3, <1>4 DEF Next

\* A caller is told what came off the wire, or that its ticket is bound to other
\* content (consume_sequence).
LEMMA TellStep ==
  ASSUME SessionInv, StampInv, ThreadInv, [Next]_vars
  PROVE  \A r \in results' : r \in replies \cup results \/ Fate(r)'
<1>1. ASSUME NEW t \in Threads, Bind(t)
      PROVE  \A r \in results' : r \in replies \cup results \/ Fate(r)'
  <2> DEFINE told == [req |-> Request(t), kind |-> "SequenceConflict"]
  <2>1. CASE UNCHANGED results
    BY <2>1
  <2>2. CASE /\ results' = results \cup {told} /\ UNCHANGED sessions
             /\ Stamp(t).session \in 1..Len(sessions)
             /\ Stamp(t).seq \in DOMAIN sessions[Stamp(t).session].bound
             /\ sessions[Stamp(t).session].bound[Stamp(t).seq] # Op(t).content
    <3>1. PICK q : q = Request(t)
      OBVIOUS
    <3>2. /\ sessions' = sessions /\ q.session \in 1..Len(sessions)
          /\ q.seq \in DOMAIN sessions[q.session].bound
          /\ sessions[q.session].bound[q.seq] # q.content
      BY <2>2, <3>1 DEF Request
    <3>3. \A r : r = [req |-> q, kind |-> "SequenceConflict"] => Fate(r)'
      BY <3>2 DEF Fate
    <3> QED BY <2>2, <3>1, <3>3
  <2> QED BY <1>1, <2>1, <2>2, BindKnown
<1>2. ASSUME NEW t \in Threads, Answered(t) PROVE results' \subseteq replies \cup results
  BY <1>2 DEF Answered, Tell
<1> QED BY <1>1, <1>2, TellMoves

LEMMA FateStep ==
  ASSUME SessionInv, StampInv, ThreadInv, WireInv, ReceiverInv, FateInv, [Next]_vars
  PROVE  FateInv'
<1>1. Onward
  BY SessionStep
<1>2. LogOnward /\ \A r \in replies' : r \in replies \/ Fate(r)'
  BY <1>1, ReceiverStep
<1>3. \A r \in results' : r \in replies \cup results \/ Fate(r)'
  BY TellStep
<1>4. \A r \in replies \cup results : Fate(r)'
  <2> SUFFICES ASSUME NEW r \in replies \cup results PROVE Fate(r)'
    OBVIOUS
  <2>1. Fate(r)
    BY DEF FateInv
  <2> QED BY <1>1, <1>2, <2>1, FateStays
<1>5. \A r \in replies' \cup results' : Fate(r)'
  <2> SUFFICES ASSUME NEW r \in replies' \cup results' PROVE Fate(r)'
    OBVIOUS
  <2>1. r \in replies \cup results \/ Fate(r)'
    BY <1>2, <1>3
  <2> QED BY <1>4, <2>1
<1> QED BY <1>5 DEF FateInv

-----------------------------------------------------------------------------
(* The invariant holds.                                                    *)

LEMMA RegistryStart == SessionInit => SessionInv
<1> SUFFICES ASSUME SessionInit PROVE SessionInv
  OBVIOUS
<1>1. /\ mutex = 0 /\ registry = <<>> /\ sessions = <<>>
      /\ held = [t \in Threads |-> 0] /\ temp = [t \in Threads |-> 0]
      /\ open = [t \in Threads |-> Outside]
  BY DEF SessionInit
<1>2. Len(registry) = 0 /\ Len(sessions) = 0 /\ Instances = {}
  BY <1>1 DEF Instances
<1>3. SessionTypeOK
  BY <1>1, <1>2 DEF SessionTypeOK, OpenStates, Outside
<1>4. \A t \in Threads : Owns(t) /\ ScanOk(t)
  BY <1>1 DEF Owns, ScanOk, Outside
<1>5. SingleSender /\ FirstSendsInOrder
  BY <1>2 DEF SingleSender, FirstSendsInOrder
<1> QED BY <1>3, <1>4, <1>5 DEF SessionInv, RegistryInv

\* The granted stream, before the first request.
LEMMA ReceiverStart == Init => ReceiverInv
<1> SUFFICES ASSUME Init PROVE ReceiverInv
  OBVIOUS
<1> DEFINE Streams == {g.stream : g \in Openable}
           S == Granted.stream
<1>1. /\ grants = {TheGrant} /\ next = [s \in Streams |-> IF s = S THEN 1 ELSE 0]
      /\ inFlight = IP!Empty /\ cachedSeqs = {} /\ cached = IP!Empty /\ issued = {}
      /\ log = [s \in Streams |-> <<>>]
      /\ outcome = [s \in Streams |-> IP!Empty]
  BY DEF Init, I!Empty, IP!Empty, TheGrant
<1>2. DOMAIN inFlight = {} /\ DOMAIN cached = {} /\ DOMAIN IP!Empty = {}
  BY <1>1 DEF IP!Empty
<1>3. S \in Streams /\ Granted.peer \in {g.peer : g \in Openable}
  BY ReceiverAssumption
<1>4. TheGrant.stream = S
  BY DEF TheGrant
<1>5. grants \subseteq IP!Grants
  BY <1>1, <1>3 DEF IP!Grants, TheGrant
<1> HIDE DEF Streams
<1>6. IP!CoreTypeOK
  <2>1. next \in [Streams -> 0..(LastSeq + 1)]
    BY <1>1, SessionAssumption
  <2>2. outcome \in [Streams -> UNION {[D -> IP!Replies] : D \in SUBSET IP!Seqs}]
    <3>1. IP!Empty \in [{} -> IP!Replies]
      BY DEF IP!Empty
    <3>2. IP!Empty \in UNION {[D -> IP!Replies] : D \in SUBSET IP!Seqs}
      BY <3>1
    <3> QED BY <1>1, <3>2
  <2>3. log \in [Streams -> Seq(Requests)]
    BY <1>1
  <2> QED BY <1>1, <1>2, <1>5, <2>1, <2>2, <2>3 DEF IP!CoreTypeOK, Streams
<1>7. IP!IsFiniteSet(grants) /\ IP!Cardinality(grants) = 1
  BY <1>1, FS_Singleton, SameSets
<1>8. IP!OneSessionPerStream
  <2>1. \A s : IP!GrantOf(s) = IF s = S THEN {TheGrant} ELSE {}
    BY <1>1, <1>4 DEF IP!GrantOf
  <2>2. \A s \in Streams : next[s] # 0 <=> s = S
    BY <1>1
  <2> QED BY <1>7, <2>1, <2>2 DEF IP!OneSessionPerStream, Streams
<1>9. \A s \in Streams : Len(log[s]) = 0
  BY <1>1
<1>10. IP!SequenceNamesOneExecution
  <2>1. \A s \in Streams : Len(log[s]) = IF next[s] = 0 THEN 0 ELSE next[s] - 1
    BY <1>1, <1>9
  <2> QED BY <1>2, <2>1 DEF IP!SequenceNamesOneExecution, Streams
<1>11. IP!OneFate
  <2>1. \A s \in Streams : DOMAIN outcome[s] = {} /\ 1..Len(log[s]) = {}
    BY <1>1, <1>2, <1>9
  <2> QED BY <1>2, <2>1 DEF IP!OneFate, Streams
<1>12. IP!IInv
  BY <1>2, <1>6, <1>7, <1>8, <1>10, <1>11 DEF IP!IInv
<1>13. 1..Len(Log) = {}
  BY <1>3, <1>9 DEF Log
<1> QED BY <1>1, <1>12, <1>13 DEF ReceiverInv, IP!TicketsTrue

LEMMA DInitInv == Init => DInv
<1> SUFFICES ASSUME Init PROVE DInv
  OBVIOUS
<1>1. SessionInv /\ ReceiverInv
  BY RegistryStart, ReceiverStart DEF Init
<1>2. StampInv
  BY DEF Init, StampInv
<1>3. ThreadInv
  <2>1. PICK p \in Programs : prog = p.ops
    BY DEF Init
  <2>2. prog \in [Threads -> Seq(Operations)]
    BY <2>1, ProgramsAssumption
  <2>3. pc = [t \in Threads |-> "idle"]
    BY DEF Init
  <2>4. "idle" \in Places /\ "idle" \notin InCall /\ "idle" \notin PastBind
    BY DEF Places, InCall, PastBind
  <2> QED BY <2>2, <2>3, <2>4 DEF ThreadInv, ThreadOk
<1>4. WireInv
  BY DEF Init, EgressInit, WireInv
<1>5. FateInv
  BY DEF Init, FateInv
<1> QED BY <1>1, <1>2, <1>3, <1>4, <1>5 DEF DInv

LEMMA DNextInv == DInv /\ [Next]_vars => DInv'
<1> SUFFICES ASSUME DInv, [Next]_vars PROVE DInv'
  OBVIOUS
<1> USE DEF DInv
<1>1. SessionInv' /\ Onward
  BY SessionStep
<1>2. StampInv' /\ ThreadInv'
  BY StampStep, ThreadStep
<1>3. WireInv'
  BY WireStep
<1>4. ReceiverInv'
  BY <1>1, ReceiverStep
<1>5. FateInv'
  BY FateStep
<1> QED BY <1>1, <1>2, <1>3, <1>4, <1>5

\* The registry, the tickets, the wire, the receiver's log and the answers stay
\* consistent, whatever the threads and the network do.
THEOREM DeliveryInvariance == Spec => []DInv
<1> QED BY DInitInv, DNextInv, PTL DEF Spec

\* One live sender per stream, registered once, while threads open, share and
\* destroy sessions (OpenImpl, ~OrderedSession).
THEOREM OneSender == Spec => []SingleSender
<1>1. DInv => SingleSender
  BY DEF DInv, SessionInv, RegistryInv
<1> QED BY <1>1, DeliveryInvariance, PTL

\* A ticket executes at most once, at the position of its sequence and with the
\* content of its first send; requests go out through one client (BindForSend,
\* Admit, _SendRpcProfile).
THEOREM SentOnce == Spec => []ExecutedAsSent
<1>1. ASSUME DInv PROVE ExecutedAsSent
  <2> USE <1>1 DEF DInv
  <2>1. FirstSendsInOrder
    BY DEF SessionInv
  <2>2. \A n \in 1..Len(Log) :
          LET s == sessions[Log[n].session]
          IN  Log[n].seq = n /\ n \in DOMAIN s.bound /\ s.bound[n] = Log[n].content
    BY DEF ReceiverInv, Sent
  <2>3. \A j, k \in 1..Len(stamps) : stamps[j] = stamps[k] => j = k
    BY DEF StampInv
  <2>4. \A m \in network : m.via = client
    BY DEF WireInv
  <2> QED BY <2>1, <2>2, <2>3, <2>4 DEF ExecutedAsSent
<1> QED BY <1>1, DeliveryInvariance, PTL

\* What a caller is told of its request is true and stays true (Admit, Complete,
\* consume_sequence).
THEOREM ToldTruth == Spec => []AnswersTellFate
<1>1. ASSUME DInv PROVE AnswersTellFate
  <2> USE <1>1 DEF DInv
  <2> SUFFICES ASSUME NEW r \in results
               PROVE  LET n == r.req.seq
                      IN  /\ r.kind = "Reply" =>
                               /\ n <= Len(Log) /\ Log[n] = r.req
                               /\ n \in DOMAIN outcome[Granted.stream]
                               /\ outcome[Granted.stream][n].outcome = r.outcome
                          /\ r.kind \in {"SequenceConflict", "Conflict"} =>
                               \A k \in 1..Len(Log) : Log[k] # r.req
                          /\ r.kind = "Conflict" => n <= Len(Log)
                          /\ r.kind = "InProgress" => n <= Len(Log) /\ Log[n] = r.req
                          /\ r.kind = "Expired" => n <= Len(Log)
    BY DEF AnswersTellFate
  <2>1. Fate(r)
    BY DEF FateInv
  <2>2. \A k \in 1..Len(Log) : Log[k].seq = k /\ Sent(Log[k])
    BY DEF ReceiverInv
  <2>3. ASSUME r.kind = "Conflict", NEW k \in 1..Len(Log), Log[k] = r.req PROVE FALSE
    BY <2>1, <2>2, <2>3 DEF Fate
  <2>4. ASSUME r.kind = "SequenceConflict", NEW k \in 1..Len(Log), Log[k] = r.req PROVE FALSE
    <3>1. Sent(Log[k])
      BY <2>2
    <3> QED BY <2>1, <2>4, <3>1 DEF Fate, Sent
  <2>5. r.kind = "Reply" => /\ r.req.seq <= Len(Log) /\ Log[r.req.seq] = r.req
                            /\ r.req.seq \in DOMAIN outcome[Granted.stream]
                            /\ outcome[Granted.stream][r.req.seq].outcome = r.outcome
    BY <2>1 DEF Fate, Outcome
  <2>6. /\ r.kind = "Conflict" => r.req.seq <= Len(Log)
        /\ r.kind = "InProgress" => r.req.seq <= Len(Log) /\ Log[r.req.seq] = r.req
        /\ r.kind = "Expired" => r.req.seq <= Len(Log)
    BY <2>1 DEF Fate
  <2>7. r.kind \in {"SequenceConflict", "Conflict"} => \A k \in 1..Len(Log) : Log[k] # r.req
    BY <2>3, <2>4
  <2> QED BY <2>5, <2>6, <2>7
<1> QED BY <1>1, DeliveryInvariance, PTL

-----------------------------------------------------------------------------
(* Lists without repetition (Once), and the cursor.                        *)

\* it is the table Once builds over the positions of list.
Kept(kept, e) == IF Contains(kept, e) THEN kept ELSE Append(kept, e)
IsView(list, it) ==
  it = [S \in SUBSET DOMAIN list |->
          IF S = {} THEN <<>> ELSE Kept(it[S \ {Max(S)}], list[Max(S)])]

LEMMA GreatestNumber ==
  ASSUME NEW n \in Nat, NEW S \in SUBSET (1..n), S # {}
  PROVE  Max(S) \in S /\ \A y \in S : y <= Max(S)
<1> DEFINE T == {n - y : y \in S}
<1>1. T \subseteq Nat /\ T # {}
  <2>1. \A y \in S : y \in Nat /\ y <= n
    OBVIOUS
  <2>2. \A y \in S : n - y \in Nat
    BY <2>1
  <2> QED BY <2>2
<1>2. PICK x \in T : \A y \in T : x <= y
  <2> HIDE DEF T
  <2> QED BY <1>1, LeastNumber
<1>3. PICK z \in S : x = n - z
  BY <1>2
<1>4. \A y \in S : z >= y
  <2> TAKE y \in S
  <2>1. n - y \in T
    OBVIOUS
  <2>2. y \in Nat /\ z \in Nat /\ y <= n /\ z <= n
    OBVIOUS
  <2>3. n - z <= n - y
    BY <1>2, <1>3, <2>1
  <2> QED BY <2>2, <2>3
<1>5. \E z2 \in S : \A y \in S : z2 >= y
  BY <1>4
<1>6. Max(S) \in S /\ \A y \in S : Max(S) >= y
  BY <1>5 DEF Max
<1> QED BY <1>6

LEMMA KeptType ==
  ASSUME NEW E, NEW kept \in Seq(E), NEW e \in E
  PROVE  Kept(kept, e) \in Seq(E)
  BY AppendProperties DEF Kept

\* The table exists: level by level, for the sets of up to n positions.
LEMMA ViewTable ==
  ASSUME NEW E, NEW list \in Seq(E)
  PROVE  \E it \in [SUBSET DOMAIN list -> Seq(E)] : IsView(list, it)
<1> DEFINE K == DOMAIN list
           Entry(it, S) == IF S = {} THEN <<>> ELSE Kept(it[S \ {Max(S)}], list[Max(S)])
           Level(it, n) == \A S \in SUBSET K : Cardinality(S) <= n => it[S] = Entry(it, S)
           Bad == {n \in Nat : ~ \E it \in [SUBSET K -> Seq(E)] : Level(it, n)}
<1>0. K = 1..Len(list) /\ Len(list) \in Nat /\ IsFiniteSet(K)
  BY FS_Interval
<1>1. \A S \in SUBSET K : IsFiniteSet(S) /\ Cardinality(S) \in Nat
  BY <1>0, FS_Subset, FS_CardinalityType
<1>2. \A S \in SUBSET K : S # {} =>
        /\ Max(S) \in S /\ list[Max(S)] \in E
        /\ S \ {Max(S)} \in SUBSET K
        /\ Cardinality(S \ {Max(S)}) = Cardinality(S) - 1
  <2> SUFFICES ASSUME NEW S \in SUBSET K, S # {}
               PROVE  /\ Max(S) \in S /\ list[Max(S)] \in E
                      /\ S \ {Max(S)} \in SUBSET K
                      /\ Cardinality(S \ {Max(S)}) = Cardinality(S) - 1
    OBVIOUS
  <2>1. Max(S) \in S
    BY <1>0, GreatestNumber
  <2>2. list[Max(S)] \in E
    BY <1>0, <2>1, ElementOfSeq
  <2>3. Cardinality(S \ {Max(S)}) = Cardinality(S) - 1
    BY <1>1, <2>1, FS_RemoveElement
  <2> QED BY <2>1, <2>2, <2>3
<1>3. \A it \in [SUBSET K -> Seq(E)] : \A S \in SUBSET K : Entry(it, S) \in Seq(E)
  <2> SUFFICES ASSUME NEW it \in [SUBSET K -> Seq(E)], NEW S \in SUBSET K PROVE Entry(it, S) \in Seq(E)
    OBVIOUS
  <2>1. CASE S = {}
    BY <2>1
  <2>2. CASE S # {}
    <3>1. list[Max(S)] \in E /\ S \ {Max(S)} \in SUBSET K
      BY <1>2, <2>2
    <3>2. it[S \ {Max(S)}] \in Seq(E)
      BY <3>1
    <3>3. Kept(it[S \ {Max(S)}], list[Max(S)]) \in Seq(E)
      BY <3>1, <3>2, KeptType
    <3> QED BY <2>2, <3>3
  <2> QED BY <2>1, <2>2
<1>4. \A n \in Nat : \E it \in [SUBSET K -> Seq(E)] : Level(it, n)
  <2> SUFFICES ASSUME Bad # {} PROVE FALSE
    OBVIOUS
  <2>1. PICK n \in Bad : \A m \in Bad : n <= m
    <3> HIDE DEF Bad
    <3>1. Bad \subseteq Nat
      BY DEF Bad
    <3> QED BY <3>1, LeastNumber
  <2>2. n # 0
    <3> DEFINE none == [S \in SUBSET K |-> <<>>]
    <3>1. \A S \in SUBSET K : Cardinality(S) <= 0 => S = {}
      BY <1>1, FS_EmptySet
    <3>2. Level(none, 0)
      BY <3>1
    <3>3. none \in [SUBSET K -> Seq(E)]
      OBVIOUS
    <3> QED BY <3>2, <3>3
  <2>3. n - 1 \in Nat /\ n - 1 \notin Bad
    <3>1. n \in Nat
      BY <2>1
    <3>2. n - 1 \in Nat /\ ~(n <= n - 1)
      BY <2>2, <3>1
    <3> HIDE DEF Bad
    <3> QED BY <2>1, <3>2
  <2>4. PICK it \in [SUBSET K -> Seq(E)] : Level(it, n - 1)
    BY <2>3
  <2> DEFINE more == [S \in SUBSET K |-> Entry(it, S)]
  <2>5. more \in [SUBSET K -> Seq(E)]
    BY <1>3
  <2>6. ASSUME NEW S \in SUBSET K, Cardinality(S) <= n PROVE more[S] = Entry(more, S)
    <3>1. CASE S = {}
      BY <3>1
    <3>2. CASE S # {}
      <4> DEFINE R == S \ {Max(S)}
      <4>1. R \in SUBSET K /\ Cardinality(R) <= n - 1
        <5>1. Cardinality(R) = Cardinality(S) - 1 /\ Cardinality(S) \in Nat
          BY <1>1, <1>2, <3>2
        <5>2. R \in SUBSET K
          OBVIOUS
        <5>3. n \in Nat
          BY <2>1
        <5> HIDE DEF R
        <5> QED BY <2>6, <5>1, <5>2, <5>3
      <4>2. it[R] = Entry(it, R)
        BY <2>4, <4>1
      <4>3. more[R] = Entry(it, R)
        BY <4>1
      <4>4. more[S] = Kept(it[R], list[Max(S)])
        BY <3>2
      <4>5. Entry(more, S) = Kept(more[R], list[Max(S)])
        BY <3>2
      <4> HIDE DEF more, Entry
      <4> QED BY <4>2, <4>3, <4>4, <4>5
    <3> QED BY <3>1, <3>2
  <2>7. Level(more, n)
    BY <2>6
  <2> HIDE DEF more, Level
  <2> QED BY <2>1, <2>5, <2>7
<1>5. PICK it \in [SUBSET K -> Seq(E)] : Level(it, Cardinality(K))
  BY <1>1, <1>4
<1>6. \A S \in SUBSET K : Cardinality(S) <= Cardinality(K)
  BY <1>0, FS_Subset
<1>7. \A S \in SUBSET K : it[S] = Entry(it, S)
  BY <1>5, <1>6
<1>8. IsView(list, it)
  <2>1. it = [S \in SUBSET K |-> it[S]]
    OBVIOUS
  <2>2. [S \in SUBSET K |-> it[S]] = [S \in SUBSET K |-> Entry(it, S)]
    BY <1>7
  <2> QED BY <2>1, <2>2 DEF IsView
<1> QED BY <1>8

\* No address twice.
NoneTwice(view) == \A j, k \in 1..Len(view) : view[j] = view[k] => j = k

LEMMA KeptOnce ==
  ASSUME NEW E, NEW kept \in Seq(E), NEW e \in E, NoneTwice(kept)
  PROVE  /\ NoneTwice(Kept(kept, e))
         /\ \A x : Contains(Kept(kept, e), x) <=> Contains(kept, x) \/ x = e
<1>1. CASE Contains(kept, e)
  BY <1>1 DEF Kept, Contains
<1>2. CASE ~Contains(kept, e)
  <2>1. /\ Kept(kept, e) = Append(kept, e)
        /\ Len(Append(kept, e)) = Len(kept) + 1 /\ Len(kept) \in Nat
        /\ \A i \in 1..Len(kept) : Append(kept, e)[i] = kept[i]
        /\ Append(kept, e)[Len(kept) + 1] = e
    BY <1>2, AppendProperties DEF Kept
  <2> DEFINE k == Append(kept, e)
  <2> HIDE DEF k
  <2>2. /\ Kept(kept, e) = k /\ Len(k) = Len(kept) + 1 /\ Len(kept) \in Nat
        /\ \A i \in 1..Len(kept) : k[i] = kept[i]
        /\ k[Len(kept) + 1] = e
    BY <2>1 DEF k
  <2>3. NoneTwice(k)
    BY <1>2, <2>2 DEF NoneTwice, Contains
  <2>4. \A x : Contains(k, x) <=> Contains(kept, x) \/ x = e
    BY <2>2 DEF Contains
  <2> QED BY <2>2, <2>3, <2>4
<1> QED BY <1>1, <1>2

\* The view holds the addresses of the list, each once.
LEMMA OnceKeeps ==
  ASSUME NEW E, NEW list \in Seq(E)
  PROVE  /\ Once(list) \in Seq(E) /\ NoneTwice(Once(list))
         /\ \A x : Contains(Once(list), x) <=> Contains(list, x)
<1> DEFINE it == CHOOSE f : IsView(list, f)
           Shown(n) == \A x : Contains(it[1..n], x) <=> \E i \in 1..n : list[i] = x
           Bad == {n \in 0..Len(list) : ~(it[1..n] \in Seq(E) /\ NoneTwice(it[1..n]) /\ Shown(n))}
<1>1. Once(list) = it[DOMAIN list]
  BY DEF Once, FoldLeft, MapThenFoldSet, IsView, Kept
<1>2. IsView(list, it)
  BY ViewTable
<1> HIDE DEF it
<1>3. DOMAIN list = 1..Len(list) /\ Len(list) \in Nat
  OBVIOUS
<1>4. \A S \in SUBSET (1..Len(list)) :
        it[S] = IF S = {} THEN <<>> ELSE Kept(it[S \ {Max(S)}], list[Max(S)])
  BY <1>2, <1>3 DEF IsView
<1>5. ASSUME NEW n \in 1..Len(list) PROVE it[1..n] = Kept(it[1..(n - 1)], list[n])
  <2>1. (1..n) \in SUBSET (1..Len(list)) /\ n \in 1..n
    <3>1. n \in Nat /\ 1 <= n /\ n <= Len(list)
      BY <1>3
    <3> QED BY <1>3, <3>1
  <2>2. Max(1..n) = n
    <3>1. n \in Nat /\ (1..n) \in SUBSET (1..n) /\ n \in 1..n
      OBVIOUS
    <3>2. Max(1..n) \in 1..n /\ \A y \in 1..n : y <= Max(1..n)
      BY <2>1, <3>1, GreatestNumber
    <3> QED BY <3>1, <3>2
  <2>3. (1..n) \ {n} = 1..(n - 1)
    OBVIOUS
  <2> QED BY <1>4, <2>1, <2>2, <2>3
<1>6. Bad = {}
  <2> SUFFICES ASSUME Bad # {} PROVE FALSE
    OBVIOUS
  <2>1. PICK n \in Bad : \A m \in Bad : n <= m
    <3> HIDE DEF Bad
    <3>1. Bad \subseteq Nat
      BY DEF Bad
    <3> QED BY <3>1, LeastNumber
  <2>2. n # 0
    <3>1. it[1..0] = <<>>
      <4>1. 1..0 = {}
        OBVIOUS
      <4> QED BY <1>4, <4>1
    <3>2. it[1..0] \in Seq(E) /\ NoneTwice(it[1..0]) /\ Shown(0)
      BY <3>1 DEF NoneTwice, Contains
    <3> QED BY <3>2
  <2>3. n \in 1..Len(list) /\ n - 1 \in 0..Len(list)
    <3>1. n \in 0..Len(list)
      OBVIOUS
    <3> QED BY <2>2, <3>1
  <2>4. n - 1 \notin Bad
    <3>1. ~(n <= n - 1)
      BY <2>3
    <3> HIDE DEF Bad
    <3> QED BY <2>1, <3>1
  <2> DEFINE kept == it[1..(n - 1)]
  <2>5. kept \in Seq(E) /\ NoneTwice(kept) /\ Shown(n - 1)
    BY <2>3, <2>4
  <2>6. list[n] \in E
    BY <2>3, ElementOfSeq
  <2>7. it[1..n] = Kept(kept, list[n])
    BY <1>5, <2>3
  <2>8. it[1..n] \in Seq(E)
    <3> HIDE DEF kept
    <3> QED BY <2>5, <2>6, <2>7, KeptType
  <2>9. NoneTwice(it[1..n]) /\ \A x : Contains(it[1..n], x) <=> Contains(kept, x) \/ x = list[n]
    <3> HIDE DEF kept
    <3> QED BY <2>5, <2>6, <2>7, KeptOnce
  <2>10. Shown(n)
    <3> SUFFICES ASSUME NEW x PROVE Contains(it[1..n], x) <=> \E i \in 1..n : list[i] = x
      OBVIOUS
    <3>1. Contains(it[1..n], x) <=> (\E i \in 1..(n - 1) : list[i] = x) \/ x = list[n]
      BY <2>5, <2>9
    <3>2. (\E i \in 1..n : list[i] = x) <=> (\E i \in 1..(n - 1) : list[i] = x) \/ x = list[n]
      BY <2>3
    <3> QED BY <3>1, <3>2
  <2> QED BY <2>8, <2>9, <2>10
<1>7. Len(list) \notin Bad
  BY <1>6
<1>8. it[1..Len(list)] \in Seq(E) /\ NoneTwice(it[1..Len(list)]) /\ Shown(Len(list))
  BY <1>3, <1>7
<1> QED BY <1>1, <1>3, <1>8 DEF Contains

\* The cursor modulo the length.
LEMMA CursorIn ==
  ASSUME NEW c \in Nat, NEW n \in Nat, n # 0
  PROVE  c % n \in Nat /\ c % n < n
  OBVIOUS

\* Division with remainder has one result.
LEMMA OneRemainder ==
  ASSUME NEW q \in Int, NEW p \in Int, NEW r \in Nat, NEW s \in Nat, NEW n \in Nat,
         n # 0, r < n, s < n, n * q + r = n * p + s
  PROVE  r = s
<1>1. \A a, b \in Int : a < b => n * a + n <= n * b
  <2> TAKE a \in Int, b \in Int
  <2> HAVE a < b
  <2>1. PICK d \in Nat : b = a + 1 + d
    <3>1. b - a - 1 \in Nat /\ b = a + 1 + (b - a - 1)
      OBVIOUS
    <3> QED BY <3>1
  <2>2. n * b = n * a + n + n * d
    BY <2>1
  <2>3. n * d \in Nat /\ n * a \in Int
    OBVIOUS
  <2> QED BY <2>2, <2>3
<1> DEFINE x == n * q
           y == n * p
<1>2. x \in Int /\ y \in Int
  OBVIOUS
<1>3. (q < p => x + n <= y) /\ (p < q => y + n <= x) /\ (p = q => x = y)
  BY <1>1
<1>4. x + r = y + s
  OBVIOUS
<1> HIDE DEF x, y
<1>5. ~(q < p) /\ ~(p < q)
  BY <1>2, <1>3, <1>4
<1> QED BY <1>2, <1>3, <1>4, <1>5

LEMMA CursorGoes ==
  ASSUME NEW c \in Nat, NEW n \in Nat, n # 0
  PROVE  (c + 1) % n = IF c % n = n - 1 THEN 0 ELSE (c % n) + 1
<1>1. \A a \in Nat : a = n * (a \div n) + (a % n) /\ a \div n \in Nat
  OBVIOUS
<1>2. PICK q \in Nat, r \in Nat : c = n * q + r /\ r = c % n /\ r < n
  BY <1>1, CursorIn
<1>3. PICK p \in Nat, s \in Nat : c + 1 = n * p + s /\ s = (c + 1) % n /\ s < n
  <2> DEFINE a == c + 1
  <2>1. a \in Nat
    OBVIOUS
  <2>2. a % n \in Nat /\ a % n < n
    <3> HIDE DEF a
    <3> QED BY <2>1, CursorIn
  <2>3. a = n * (a \div n) + (a % n) /\ a \div n \in Nat
    BY <1>1, <2>1
  <2> QED BY <2>2, <2>3
<1>4. n * q \in Nat /\ n * p \in Nat
  OBVIOUS
<1>5. CASE r = n - 1
  <2>1. n * (q + 1) = n * q + n
    OBVIOUS
  <2>2. n * (q + 1) + 0 = n * p + s
    BY <1>2, <1>3, <1>4, <1>5, <2>1
  <2>3. s = 0
    <3>1. q + 1 \in Int /\ p \in Int /\ 0 \in Nat /\ 0 < n
      OBVIOUS
    <3> QED BY ONLY <1>3, <2>2, <3>1, n \in Nat, n # 0, OneRemainder
  <2> QED BY <1>2, <1>3, <1>5, <2>3
<1>6. CASE r # n - 1
  <2>1. n * q + (r + 1) = n * p + s
    BY <1>2, <1>3, <1>4
  <2>2. s = r + 1
    <3>1. q \in Int /\ p \in Int /\ r + 1 \in Nat /\ r + 1 < n
      BY <1>2, <1>6
    <3> QED BY ONLY <1>3, <2>1, <3>1, n \in Nat, n # 0, OneRemainder
  <2> QED BY <1>2, <1>3, <1>6, <2>2
<1> QED BY <1>5, <1>6

-----------------------------------------------------------------------------
(* The invariant of the routes.                                            *)

View == entries[Service]
AddressLists == Seq(Endpoints)
ViewStates == [endpoints : AddressLists, age : Nat, cursor : Nat, unavailable : BOOLEAN]
NewsStates == [said : {"nothing", "view", "gone"}, list : AddressLists]

\* When the turn of position k of a list of n comes, if it is now that of p.
Turn(k, p, n) == IF k >= p THEN k - p ELSE (k - p) + n

\* What has its turn sooner was used less often, by one at most.
Evenly(view, p, n, used) ==
  \A j, k \in 1..n : Turn(j, p, n) <= Turn(k, p, n) =>
     used[view[j]] <= used[view[k]] /\ used[view[k]] <= used[view[j]] + 1

RouteTypeOK ==
  /\ news \in NewsStates /\ silence \in Nat
  /\ uses \in [Endpoints -> Nat]
  /\ target \in [Threads -> Endpoints \cup {"none"}]
  /\ got \in [Watched -> AddressLists]

\* The table has what the provider said last, since the same time.
NewsInv ==
  /\ HasService(Service) <=> news.said # "nothing"
  /\ HasService(Service) => View \in ViewStates /\ View.age = silence
  /\ news.said = "gone" => View.unavailable
  /\ news.said = "view" => View.endpoints = Once(news.list)

\* ... and shares it out by turns.
TurnsInv ==
  LET n == Len(View.endpoints)
  IN  news.said = "view" /\ n # 0 => Evenly(View.endpoints, 1 + (View.cursor % n), n, uses)

WatcherPlaces == {"none", "check", "query", "publish", "record", "leave", "done"}
Counted == {w \in Watched : loop[w] # "done"}

\* The life of the discovery component, and who is still counted.
OwnerInv ==
  /\ loop \in [Watched -> WatcherPlaces]
  /\ component \in {"none", "made", "started", "closed"}
  /\ call = "engine" => component = "none"
  /\ call \in {"watchers", "firstViews"} => component = "started"
  /\ call \in {"marking", "closing"} => component = "closed"
  /\ component = "started" => watchers = Cardinality(Counted)
  /\ component \in {"none", "made"} => \A w \in Watched : loop[w] = "none"
  /\ \/ watchers = 0 /\ \A w \in Watched : loop[w] = "none"
     \/ watchers = Cardinality(Counted)
  /\ component = "closed" => call \in {"marking", "closing"} \/ Live = {}

LEMMA RouteMoves ==
  ASSUME [Next]_vars
  PROVE  \/ UNCHANGED <<discovery, target>>
         \/ \E t \in Threads :
              \/ FindRoute(t) \/ ResolveRoute(t) \/ Leave(t) \/ Publish(t) \/ Withdraw(t)
              \/ BeginDiscovery(t) \/ DiscoverySteps(t)
         \/ \E w \in Watched : Watcher(w)
         \/ ClockTicks
<1>1. CASE \E t \in Threads : Begin(t)
  BY <1>1 DEF Begin, BeginOpen, BeginDrop, BeginPrepare, BeginCall, CallWithoutSession, routing
<1>2. CASE \E t \in Threads : Proceed(t)
  <2> PICK t \in Threads : Proceed(t)
    BY <1>2
  <2>1. ASSUME NEW k, Fails(t, k) PROVE UNCHANGED target
    BY <2>1 DEF Fails
  <2>2. CASE BudgetRefused(t) \/ NoRoute(t) \/ NotSent(t) \/ LimitsExceeded(t) \/ ClientFails(t)
             \/ ResponseUnreadable(t) \/ TimesOut(t)
    BY <2>1, <2>2 DEF BudgetRefused, NoRoute, NotSent, LimitsExceeded, ClientFails,
                      ResponseUnreadable, TimesOut, routing
  <2>3. CASE Bind(t)
    BY <2>1, <2>3 DEF Bind, routing
  <2> QED BY <2>2, <2>3 DEF Proceed, SessionSteps, Send, NeedsClient, ClientMade, Answered,
                            DiscoveryReturns, routing, caller
<1>3. CASE (\E w \in Watched : Watcher(w)) \/ ClockTicks
  BY <1>3
<1>4. CASE Receiver
  BY <1>4 DEF Receiver, ReceiverAdmits, ReceiverRefuses, ReceiverCompletes, routing, caller
<1>5. CASE UNCHANGED vars
  BY <1>5 DEF vars, routing, caller
<1> QED BY <1>1, <1>2, <1>3, <1>4, <1>5 DEF Next

-----------------------------------------------------------------------------
(* The discovery component.                                                *)

\* Whoever is counted, is counted as before.
LEMMA OwnerFrame ==
  ASSUME OwnerInv, UNCHANGED <<loop, watchers>>,
         component' \in {"none", "made", "started", "closed"},
         call' = "engine" => component' = "none",
         call' \in {"watchers", "firstViews"} => component' = "started",
         call' \in {"marking", "closing"} => component' = "closed",
         component' \in {"none", "made"} => component \in {"none", "made"},
         component' = "started" => component = "started",
         component' = "closed" => call' \in {"marking", "closing"} \/ Live = {}
  PROVE  OwnerInv'
<1>1. Live' = Live /\ Counted' = Counted
  BY DEF Live, Counted
<1> QED BY <1>1 DEF OwnerInv

LEMMA OwnerBegins ==
  ASSUME OwnerInv, NEW t \in Threads, BeginDiscovery(t)
  PROVE  OwnerInv'
<1>1. CASE StartBegins
  <2>1. /\ \A w \in Watched : loop[w] = "none"
        /\ component' = "started" /\ call' = "watchers" /\ UNCHANGED loop
        /\ watchers' = Cardinality(Watched)
    BY <1>1 DEF StartBegins, OwnerInv
  <2>2. Counted' = Watched
    BY <2>1 DEF Counted
  <2> QED BY <2>1, <2>2 DEF OwnerInv
<1>2. Idle => (component = "closed" => Live = {})
  BY DEF OwnerInv, Idle
<1>3. CASE CreateBegins \/ StartRefused \/ RegisterSelf \/ DeregisterSelf \/ Close
  <2>1. UNCHANGED <<loop, watchers>> /\ Idle
    BY <1>3 DEF CreateBegins, StartRefused, RegisterSelf, DeregisterSelf, Close, CloseBegins, watchVars
  <2>2. CASE CreateBegins
    BY <1>2, <2>1, <2>2, OwnerFrame DEF CreateBegins, OwnerInv
  <2>3. CASE StartRefused \/ RegisterSelf \/ DeregisterSelf
    <3>1. UNCHANGED component /\ call' \in {"failed", "none", "registering", "deregistering"}
      BY <2>3 DEF StartRefused, RegisterSelf, DeregisterSelf
    <3> QED BY <1>2, <2>1, <3>1, OwnerFrame DEF OwnerInv
  <2>4. CASE Close
    <3>1. \/ component = "closed" /\ UNCHANGED component /\ call' = "none"
          \/ component' = "closed" /\ call' = "marking"
      BY <2>4 DEF Close, CloseBegins
    <3> QED BY <1>2, <2>1, <3>1, OwnerFrame DEF OwnerInv
  <2> QED BY <1>3, <2>2, <2>3, <2>4
<1> QED BY <1>1, <1>3 DEF BeginDiscovery

\* The watchers have ended, unless some never began.
LEMMA NoneLeft ==
  ASSUME OwnerInv, watchers = 0
  PROVE  Live = {}
<1>1. CASE \A w \in Watched : loop[w] = "none"
  BY <1>1 DEF Live
<1>2. CASE watchers = Cardinality(Counted)
  <2>1. IsFiniteSet(Counted)
    BY WatchAssumption, FS_Subset DEF Counted
  <2>2. Counted = {}
    BY <1>2, <2>1, FS_EmptySet
  <2> QED BY <2>2 DEF Counted, Live
<1> QED BY <1>1, <1>2 DEF OwnerInv

LEMMA OwnerGoesOn ==
  ASSUME OwnerInv, OwnerSteps
  PROVE  OwnerInv'
<1>1. CASE WatcherStarts
  <2>1. PICK w \in Watched : loop[w] = "none" /\ loop' = [loop EXCEPT ![w] = "check"]
    BY <1>1 DEF WatcherStarts
  <2>2. call = "watchers" /\ component = "started" /\ UNCHANGED <<call, component, watchers>>
    BY <1>1 DEF WatcherStarts, lifeVars, OwnerInv
  <2>3. loop' \in [Watched -> WatcherPlaces]
    BY <2>1 DEF OwnerInv, WatcherPlaces
  <2>4. Counted' = Counted
    BY <2>1 DEF Counted, OwnerInv
  <2>5. watchers = Cardinality(Counted)
    BY <2>2 DEF OwnerInv
  <2> QED BY <2>2, <2>3, <2>4, <2>5 DEF OwnerInv
<1>2. CASE EngineRuns
  <2>1. call = "engine" /\ call' = "none" /\ component = "none" /\ component' = "made"
        /\ UNCHANGED <<loop, watchers>>
    BY <1>2 DEF EngineRuns, Goes, watchVars, OwnerInv
  <2> QED BY <2>1, OwnerFrame
<1>3. CASE EngineFails
  <2>1. call' = "marking" /\ component' = "closed" /\ UNCHANGED <<loop, watchers>>
    BY <1>3 DEF EngineFails, CloseBegins, watchVars
  <2> QED BY <2>1, OwnerFrame
<1>4. CASE CloseEnds
  <2>1. call = "closing" /\ call' = "none" /\ component = "closed" /\ UNCHANGED <<component, loop, watchers>>
    BY <1>4 DEF CloseEnds, Goes, watchVars, OwnerInv
  <2>2. Live = {}
    BY <1>4, NoneLeft DEF CloseEnds
  <2> QED BY <2>1, <2>2, OwnerFrame
<1>5. CASE Marks
  <2>1. call = "marking" /\ call' = "closing" /\ component = "closed" /\ UNCHANGED <<component, loop, watchers>>
    BY <1>5 DEF Marks, Goes, watchVars, OwnerInv
  <2> QED BY <2>1, OwnerFrame
<1>6. CASE WatcherRefused \/ WatchersStarted \/ StartEnds \/ StartFails
  <2>1. /\ call \in {"watchers", "firstViews"} /\ component = "started"
        /\ call' \in {"failed", "none", "firstViews"} /\ UNCHANGED <<component, loop, watchers>>
    BY <1>6 DEF WatcherRefused, WatchersStarted, StartEnds, StartFails, Goes, watchVars, OwnerInv
  <2> QED BY <2>1, OwnerFrame
<1>7. CASE AgentConfirms \/ AgentRefuses
  <2>1. /\ call \in {"registering", "deregistering"} /\ call' \in {"failed", "none"}
        /\ UNCHANGED <<component, loop, watchers>>
    BY <1>7 DEF AgentConfirms, AgentRefuses, Goes, watchVars
  <2> QED BY <2>1, OwnerFrame DEF OwnerInv
<1> QED BY <1>1, <1>2, <1>3, <1>4, <1>5, <1>6, <1>7 DEF OwnerSteps

LEMMA WatcherGoesOn ==
  ASSUME OwnerInv, NEW w \in Watched, WatchSteps(w)
  PROVE  OwnerInv'
<1>1. PICK from, to \in WatcherPlaces : Moves(w, from, to) /\ from \notin {"none", "done"} /\ to # "none"
        /\ UNCHANGED <<call, component>>
        /\ \/ to # "done" /\ UNCHANGED watchers
           \/ to = "done" /\ watchers' = watchers - 1
  <2>1. CASE WatchChecks(w)
    BY <2>1 DEF WatchChecks, lifeVars, WatcherPlaces, Moves
  <2>2. CASE QueryFails(w)
    BY <2>2 DEF QueryFails, lifeVars, WatcherPlaces, Moves
  <2>3. CASE \E list \in Views : QueryAnswered(w, list)
    BY <2>3 DEF QueryAnswered, lifeVars, WatcherPlaces, Moves
  <2>4. CASE WatchPublishes(w)
    BY <2>4 DEF WatchPublishes, lifeVars, WatcherPlaces, Moves
  <2>5. CASE WatchRecords(w)
    BY <2>5 DEF WatchRecords, lifeVars, WatcherPlaces, Moves
  <2>6. CASE WatcherLeaves(w)
    BY <2>6 DEF WatcherLeaves, lifeVars, WatcherPlaces, Moves
  <2> QED BY <2>1, <2>2, <2>3, <2>4, <2>5, <2>6 DEF WatchSteps
<1>2. /\ loop[w] = from /\ loop' = [loop EXCEPT ![w] = to] /\ loop \in [Watched -> WatcherPlaces]
      /\ loop' \in [Watched -> WatcherPlaces]
  BY <1>1 DEF Moves, OwnerInv
<1>3. w \in Live /\ ~(\A v \in Watched : loop[v] = "none")
  BY <1>1, <1>2 DEF Live
<1>4. component \notin {"none", "made"} /\ watchers = Cardinality(Counted)
  BY <1>3 DEF OwnerInv
<1>5. watchers' = Cardinality(Counted')
  <2>1. CASE to # "done"
    <3>1. Counted' = Counted
      BY <1>1, <1>2, <2>1 DEF Counted
    <3> QED BY <1>1, <1>4, <2>1, <3>1
  <2>2. CASE to = "done"
    <3>1. Counted' = Counted \ {w} /\ w \in Counted
      BY <1>1, <1>2, <2>2 DEF Counted
    <3>2. IsFiniteSet(Counted)
      BY WatchAssumption, FS_Subset DEF Counted
    <3>3. Cardinality(Counted \ {w}) = Cardinality(Counted) - 1
      BY <3>1, <3>2, FS_RemoveElement
    <3> QED BY <1>1, <1>4, <2>2, <3>1, <3>3
  <2> QED BY <2>1, <2>2
<1>6. component = "closed" => call \in {"marking", "closing"}
  BY <1>3 DEF OwnerInv
<1> QED BY <1>1, <1>2, <1>4, <1>5, <1>6 DEF OwnerInv

LEMMA OwnerStep ==
  ASSUME OwnerInv, [Next]_vars
  PROVE  OwnerInv'
<1>1. ASSUME UNCHANGED consulVars PROVE OwnerInv'
  <2>1. UNCHANGED <<loop, watchers, component, call>>
    BY <1>1 DEF consulVars, lifeVars, watchVars
  <2> QED BY <2>1, OwnerFrame DEF OwnerInv
<1>2. CASE \E t \in Threads : BeginDiscovery(t) \/ DiscoverySteps(t)
  BY <1>2, OwnerBegins, OwnerGoesOn DEF DiscoverySteps
<1>3. CASE \E w \in Watched : Watcher(w)
  BY <1>3, WatcherGoesOn DEF Watcher
<1>4. CASE \/ UNCHANGED <<discovery, target>>
           \/ \E t \in Threads : FindRoute(t) \/ ResolveRoute(t) \/ Leave(t) \/ Publish(t) \/ Withdraw(t)
           \/ ClockTicks
  BY <1>1, <1>4 DEF FindRoute, ResolveRoute, Leave, Publish, Withdraw, ClockTicks, routing, discovery
<1> QED BY <1>2, <1>3, <1>4, RouteMoves

-----------------------------------------------------------------------------
(* The view and the turns.                                                 *)

RouteInv == RouteTypeOK /\ NewsInv /\ TurnsInv

LEMMA ViewKnown ==
  ASSUME RouteInv, HasService(Service)
  PROVE  /\ View \in ViewStates /\ View.endpoints \in Seq(Endpoints) /\ View.cursor \in Nat
         /\ Len(View.endpoints) \in Nat
         /\ \A k \in 1..Len(View.endpoints) : View.endpoints[k] \in Endpoints
<1>1. View \in ViewStates /\ View.endpoints \in Seq(Endpoints) /\ View.cursor \in Nat
  BY DEF RouteInv, NewsInv, ViewStates, AddressLists
<1> QED BY <1>1, ElementOfSeq

\* The view of the service and what is known of it do not change.
LEMMA RouteStays ==
  ASSUME RouteInv, UNCHANGED <<news, silence, uses>>, HasService(Service)' <=> HasService(Service),
         HasService(Service) => View' = View,
         target' \in [Threads -> Endpoints \cup {"none"}], got' \in [Watched -> AddressLists]
  PROVE  RouteInv'
<1>1. RouteTypeOK'
  BY DEF RouteInv, RouteTypeOK
<1>2. NewsInv'
  BY DEF RouteInv, NewsInv
<1>3. TurnsInv'
  BY DEF RouteInv, NewsInv, TurnsInv
<1> QED BY <1>1, <1>2, <1>3 DEF RouteInv

\* A view in which nothing was used is used evenly.
LEMMA EvenAtFirst ==
  ASSUME NEW view \in Seq(Endpoints), NEW p, NEW f, f = [e \in Endpoints |-> 0]
  PROVE  Evenly(view, p, Len(view), f)
<1>1. \A k \in 1..Len(view) : view[k] \in Endpoints
  BY ElementOfSeq
<1>2. \A k \in 1..Len(view) : f[view[k]] = 0
  BY <1>1
<1> QED BY <1>2 DEF Evenly

\* A new view is used from the start; the same view goes on.
LEMMA SaysStep ==
  ASSUME RouteInv, NEW list \in Seq(Endpoints), Replace(Service, list), Says(list),
         UNCHANGED <<target, got>>
  PROVE  RouteInv'
<1> DEFINE view == Once(list)
<1>1. /\ View' = [endpoints |-> view, age |-> 0, cursor |-> Cursor(Service, view), unavailable |-> FALSE]
      /\ HasService(Service)'
  BY DEF Replace, HasService, View
<1>2. view \in Seq(Endpoints)
  BY OnceKeeps
<1>3. Cursor(Service, view) \in Nat
  BY ViewKnown DEF Cursor, View
<1>4. news' = [said |-> "view", list |-> list] /\ silence' = 0
  BY DEF Says
<1>5. uses' \in [Endpoints -> Nat]
  BY DEF Says, RouteInv, RouteTypeOK
<1>6. RouteTypeOK'
  BY <1>4, <1>5 DEF RouteInv, RouteTypeOK, NewsStates, AddressLists
<1>7. NewsInv'
  <2>1. View' \in ViewStates /\ View'.age = 0 /\ View'.endpoints = Once(list)
    <3> HIDE DEF view
    <3>1. View' \in ViewStates /\ View'.age = 0 /\ View'.endpoints = view
      BY <1>1, <1>2, <1>3 DEF ViewStates, AddressLists
    <3> QED BY <3>1 DEF view
  <2> QED BY <1>1, <1>4, <2>1 DEF NewsInv
<1>8. TurnsInv'
  <2> SUFFICES ASSUME Len(view) # 0
               PROVE  Evenly(view, 1 + (Cursor(Service, view) % Len(view)), Len(view), uses')
    BY <1>1 DEF TurnsInv
  <2>1. CASE news.said = "view" /\ news.list = list
    <3>1. HasService(Service) /\ View.endpoints = view /\ uses' = uses
      BY <2>1 DEF RouteInv, NewsInv, Says
    <3>2. Cursor(Service, view) = View.cursor
      BY <3>1 DEF Cursor, View
    <3> QED BY <2>1, <3>1, <3>2 DEF RouteInv, TurnsInv
  <2>2. CASE ~(news.said = "view" /\ news.list = list)
    <3>1. uses' = [e \in Endpoints |-> 0]
      BY <2>2 DEF Says
    <3> HIDE DEF view
    <3> QED BY <1>2, <3>1, EvenAtFirst
  <2> QED BY <2>1, <2>2
<1> QED BY <1>6, <1>7, <1>8 DEF RouteInv

\* A view that is withdrawn has no endpoint.
LEMMA WithdrawnStep ==
  ASSUME RouteInv, Withdrawn, UNCHANGED <<target, got>>,
         HasService(Service)' <=> HasService(Service),
         HasService(Service) => View' = [View EXCEPT !.unavailable = TRUE, !.endpoints = <<>>]
  PROVE  RouteInv'
<1>1. CASE ~HasService(Service)
  BY <1>1, RouteStays DEF Withdrawn, RouteInv, RouteTypeOK
<1>2. CASE HasService(Service)
  <2>1. news' = [said |-> "gone", list |-> <<>>] /\ UNCHANGED <<silence, uses>>
    BY <1>2 DEF Withdrawn
  <2>2. View \in ViewStates /\ View.age = silence
    BY <1>2 DEF RouteInv, NewsInv
  <2>3. View' \in ViewStates /\ View'.age = silence /\ View'.unavailable
    <3>1. PICK v \in ViewStates : v = View
      BY <2>2
    <3>2. PICK none \in Seq(Endpoints) : none = <<>>
      BY EmptySeq
    <3>3. View' = [v EXCEPT !.unavailable = TRUE, !.endpoints = none]
      BY <1>2, <3>1, <3>2
    <3> DEFINE gone == [v EXCEPT !.unavailable = TRUE, !.endpoints = none]
    <3>4. gone \in ViewStates
      BY DEF ViewStates, AddressLists
    <3>5. gone.age = v.age
      BY DEF ViewStates
    <3>6. gone.unavailable
      BY DEF ViewStates
    <3> HIDE DEF gone
    <3>7. View' = gone
      BY <3>3 DEF gone
    <3> QED BY <2>2, <3>1, <3>4, <3>5, <3>6, <3>7
  <2>4. RouteTypeOK'
    BY <2>1 DEF RouteInv, RouteTypeOK, NewsStates, AddressLists
  <2> QED BY <1>2, <2>1, <2>3, <2>4 DEF RouteInv, NewsInv, TurnsInv
<1> QED BY <1>1, <1>2

\* The endpoint that was used moves behind all others.
LEMMA EvenOn ==
  ASSUME NEW n \in Nat, n # 0, NEW view, \A k \in 1..n : view[k] \in Endpoints,
         \A j, k \in 1..n : view[j] = view[k] => j = k,
         NEW f \in [Endpoints -> Nat], NEW p \in 1..n, Evenly(view, p, n, f)
  PROVE  Evenly(view, IF p = n THEN 1 ELSE p + 1, n, [f EXCEPT ![view[p]] = @ + 1])
<1> DEFINE g == [f EXCEPT ![view[p]] = @ + 1]
           q == IF p = n THEN 1 ELSE p + 1
<1>1. \A k \in 1..n : /\ f[view[k]] \in Nat
                      /\ g[view[k]] = IF k = p THEN f[view[k]] + 1 ELSE f[view[k]]
  OBVIOUS
<1>2. \A j, k \in 1..n : Turn(j, p, n) <= Turn(k, p, n) =>
        f[view[j]] <= f[view[k]] /\ f[view[k]] <= f[view[j]] + 1
  BY DEF Evenly
<1>3. \A k \in 1..n : Turn(p, p, n) <= Turn(k, p, n)
  BY DEF Turn
<1>4. \A j, k \in 1..n : j # p /\ k # p /\ Turn(j, q, n) <= Turn(k, q, n) =>
        Turn(j, p, n) <= Turn(k, p, n)
  BY DEF Turn
<1>5. \A k \in 1..n : Turn(p, q, n) <= Turn(k, q, n) => k = p
  BY DEF Turn
<1> SUFFICES ASSUME NEW j \in 1..n, NEW k \in 1..n, Turn(j, q, n) <= Turn(k, q, n)
             PROVE  g[view[j]] <= g[view[k]] /\ g[view[k]] <= g[view[j]] + 1
  BY DEF Evenly
<1> HIDE DEF g, q
<1>6. CASE j = p
  BY <1>1, <1>5, <1>6
<1>7. CASE j # p /\ k = p
  <2>1. f[view[p]] <= f[view[j]] /\ f[view[j]] <= f[view[p]] + 1
    BY <1>2, <1>3
  <2> QED BY <1>1, <1>7, <2>1
<1>8. CASE j # p /\ k # p
  BY <1>1, <1>2, <1>4, <1>8
<1> QED BY <1>6, <1>7, <1>8

\* What Resolve picks is an endpoint of the list, and the next in turn.
LEMMA ResolveDoes ==
  ASSUME RouteInv, NEW t \in Threads, ResolveRoute(t)
  PROVE  LET e == Picked(Service)
         IN  /\ RouteInv'
             /\ news.said = "view" /\ silence <= StaleLimit /\ e \in Endpoints
             /\ Contains(news.list, e)
             /\ uses' = [uses EXCEPT ![e] = @ + 1] /\ target' = [target EXCEPT ![t] = e]
             /\ \A k \in 1..Len(news.list) :
                  news.list[k] \in Endpoints /\ uses[e] <= uses[news.list[k]]
<1> DEFINE view == View.endpoints
           n == Len(view)
           p == 1 + (View.cursor % n)
           e == Picked(Service)
<1>1. /\ HasService(Service) /\ ~View.unavailable /\ view # <<>> /\ View.age <= StaleLimit
      /\ entries' = [entries EXCEPT ![Service].cursor = @ + 1]
      /\ uses' = [uses EXCEPT ![e] = @ + 1] /\ target' = [target EXCEPT ![t] = e]
      /\ UNCHANGED <<news, silence, got>>
  BY DEF ResolveRoute, Resolve, Resolvable, View, consulVars, watchVars
<1>2. /\ view \in Seq(Endpoints) /\ View.cursor \in Nat /\ n \in Nat /\ n # 0
      /\ \A k \in 1..n : view[k] \in Endpoints
  BY <1>1, ViewKnown
<1>3. news.said = "view" /\ view = Once(news.list) /\ silence <= StaleLimit
      /\ news.list \in Seq(Endpoints)
  BY <1>1 DEF RouteInv, RouteTypeOK, NewsInv, NewsStates, AddressLists
<1>4. p \in 1..n /\ e = view[p] /\ e \in Endpoints
  <2>1. View.cursor % n \in Nat /\ View.cursor % n < n
    BY <1>2, CursorIn
  <2>2. p \in 1..n
    BY <1>2, <2>1
  <2>3. e = view[p]
    BY DEF Picked, View
  <2> QED BY <1>2, <2>2, <2>3
<1>5. /\ \A j, k \in 1..n : view[j] = view[k] => j = k
      /\ \A x : Contains(view, x) <=> Contains(news.list, x)
  BY <1>3, OnceKeeps DEF NoneTwice
<1>6. Contains(news.list, e)
  BY <1>4, <1>5 DEF Contains
<1>7. Evenly(view, p, n, uses) /\ uses \in [Endpoints -> Nat]
  BY <1>2, <1>3 DEF RouteInv, TurnsInv, RouteTypeOK
<1>8. \A k \in 1..Len(news.list) : news.list[k] \in Endpoints /\ uses[e] <= uses[news.list[k]]
  <2> SUFFICES ASSUME NEW k \in 1..Len(news.list)
               PROVE  news.list[k] \in Endpoints /\ uses[e] <= uses[news.list[k]]
    OBVIOUS
  <2>1. Contains(news.list, news.list[k])
    BY DEF Contains
  <2>2. PICK j \in 1..n : view[j] = news.list[k]
    BY <1>5, <2>1 DEF Contains
  <2>3. Turn(p, p, n) <= Turn(j, p, n)
    <3> HIDE DEF p, n
    <3> QED BY <1>2, <1>4 DEF Turn
  <2>4. uses[view[p]] <= uses[view[j]]
    <3> HIDE DEF p, n
    <3> QED BY <1>4, <1>7, <2>3 DEF Evenly
  <2> QED BY <1>2, <1>4, <2>2, <2>4
<1>9. RouteInv'
  <2>1. View' = [View EXCEPT !.cursor = @ + 1] /\ HasService(Service)'
    BY <1>1 DEF View, HasService
  <2>2. /\ View' \in ViewStates /\ View'.age = View.age /\ View'.endpoints = view
        /\ View'.cursor = View.cursor + 1 /\ View'.unavailable = View.unavailable
    BY <1>1, <2>1, ViewKnown DEF ViewStates
  <2>3. RouteTypeOK'
    BY <1>1, <1>4 DEF RouteInv, RouteTypeOK
  <2>4. NewsInv'
    BY <1>1, <2>1, <2>2 DEF RouteInv, NewsInv
  <2>5. Evenly(view, IF p = n THEN 1 ELSE p + 1, n, uses')
    <3> HIDE DEF p, n, view, e
    <3> QED BY <1>1, <1>2, <1>4, <1>5, <1>7, EvenOn
  <2>6. 1 + ((View.cursor + 1) % n) = IF p = n THEN 1 ELSE p + 1
    <3> DEFINE c == View.cursor
    <3>1. (c + 1) % n = IF c % n = n - 1 THEN 0 ELSE (c % n) + 1
      <4> HIDE DEF c, n
      <4> QED BY <1>2, CursorGoes DEF c
    <3>2. c % n \in Nat
      <4> HIDE DEF c, n
      <4> QED BY <1>2, CursorIn DEF c
    <3> DEFINE r == c % n
    <3> HIDE DEF r
    <3>3. (c + 1) % n = (IF r = n - 1 THEN 0 ELSE r + 1) /\ r \in Nat /\ p = 1 + r
      BY <3>1, <3>2 DEF r
    <3> HIDE DEF n, p
    <3> QED BY <1>2, <3>3
  <2>7. TurnsInv'
    BY <2>2, <2>5, <2>6 DEF TurnsInv
  <2> QED BY <2>3, <2>4, <2>7 DEF RouteInv
<1> HIDE DEF e
<1> QED BY <1>1, <1>3, <1>4, <1>6, <1>8, <1>9 DEF e

\* The view of a service is not touched by what is said of another.
LEMMA OthersView ==
  ASSUME NEW s, s # Service, NEW list, Replace(s, list)
  PROVE  (HasService(Service)' <=> HasService(Service)) /\ (HasService(Service) => View' = View)
  BY DEF Replace, HasService, View

LEMMA TableKept ==
  ASSUME RouteInv, UNCHANGED <<entries, news, silence, uses, got>>,
         target' \in [Threads -> Endpoints \cup {"none"}]
  PROVE  RouteInv'
<1>1. HasService(Service)' <=> HasService(Service)
  BY DEF HasService
<1>2. View' = View
  BY DEF View
<1> QED BY <1>1, <1>2, RouteStays DEF RouteInv, RouteTypeOK

\* What a thread publishes.
LEMMA ListKnown ==
  ASSUME ThreadInv, NEW t \in Threads, prog[t] # <<>>, Op(t).do = "Publish"
  PROVE  Op(t).list \in Seq(Endpoints)
<1>1. prog[t] \in Seq(Operations)
  BY DEF ThreadInv
<1>2. Op(t) \in Operations
  BY <1>1 DEF Op
<1>3. \A o \in Operations : o.do = "Publish" => o.list \in Seq(Endpoints)
  BY DEF Operations
<1> QED BY <1>2, <1>3

LEMMA ProviderStep ==
  ASSUME ThreadInv, RouteInv, NEW t \in Threads, Publish(t) \/ Withdraw(t)
  PROVE  RouteInv' /\ UNCHANGED target
<1>1. UNCHANGED <<target, got>>
  BY DEF Publish, Withdraw, consulVars, watchVars
<1>2. CASE Publish(t)
  <2>1. Op(t).list \in Seq(Endpoints)
    BY <1>2, ListKnown DEF Publish, Does
  <2> QED BY <1>1, <1>2, <2>1, SaysStep DEF Publish
<1>3. CASE Withdraw(t)
  <2>1. HasService(Service)' <=> HasService(Service)
    BY <1>3 DEF Withdraw, MarkUnavailable, HasService
  <2>2. HasService(Service) => View' = [View EXCEPT !.unavailable = TRUE, !.endpoints = <<>>]
    BY <1>3 DEF Withdraw, MarkUnavailable, HasService, View
  <2> QED BY <1>1, <1>3, <2>1, <2>2, WithdrawnStep DEF Withdraw
<1> QED BY <1>1, <1>2, <1>3

LEMMA DiscoveryStep ==
  ASSUME RouteInv, NEW t \in Threads, BeginDiscovery(t) \/ DiscoverySteps(t)
  PROVE  RouteInv' /\ UNCHANGED <<target, uses>>
<1>1. CASE BeginDiscovery(t)
  <2>1. UNCHANGED <<entries, news, silence, uses, got, target>>
    BY <1>1 DEF BeginDiscovery, CreateBegins, StartBegins, StartRefused, RegisterSelf, DeregisterSelf,
                Close, CloseBegins, Table, watchVars
  <2> QED BY <2>1, TableKept DEF RouteInv, RouteTypeOK
<1>2. CASE DiscoverySteps(t)
  <2>1. UNCHANGED <<got, target>>
    BY <1>2 DEF DiscoverySteps, caller, OwnerSteps, EngineRuns, EngineFails, CloseBegins,
                WatcherStarts, WatcherRefused, WatchersStarted, StartEnds, StartFails,
                AgentConfirms, AgentRefuses, Marks, CloseEnds, watchVars
  <2>2. CASE Marks
    <3>1. call = "marking"
      BY <2>2 DEF Marks, Goes
    <3>2. entries' = [s \in DOMAIN entries |->
                       IF s \in Watched THEN [entries[s] EXCEPT !.unavailable = TRUE, !.endpoints = <<>>]
                                        ELSE entries[s]]
      BY <2>2 DEF Marks
    <3>3. HasService(Service)' <=> HasService(Service)
      BY <3>2 DEF HasService
    <3>4. CASE Service \in Watched
      <4>1. HasService(Service) => View' = [View EXCEPT !.unavailable = TRUE, !.endpoints = <<>>]
        BY <3>2, <3>4 DEF HasService, View
      <4>2. Withdrawn /\ UNCHANGED uses
        BY <1>2, <3>1, <3>4 DEF DiscoverySteps, Withdrawn
      <4> QED BY <2>1, <3>3, <4>1, <4>2, WithdrawnStep
    <3>5. CASE Service \notin Watched
      <4>1. HasService(Service) => View' = View
        BY <3>2, <3>5 DEF HasService, View
      <4>2. UNCHANGED <<news, silence, uses>>
        BY <1>2, <3>5 DEF DiscoverySteps
      <4> QED BY <2>1, <3>3, <4>1, <4>2, RouteStays DEF RouteInv, RouteTypeOK
    <3> QED BY <3>4, <3>5
  <2>3. CASE ~Marks
    <3>1. UNCHANGED entries /\ call # "marking"
      BY <1>2, <2>3 DEF DiscoverySteps, OwnerSteps, EngineRuns, EngineFails, CloseBegins, Goes,
                WatcherStarts, WatcherRefused, WatchersStarted, StartEnds, StartFails,
                AgentConfirms, AgentRefuses, CloseEnds, Table
    <3>2. UNCHANGED <<news, silence, uses>>
      BY <1>2, <3>1 DEF DiscoverySteps
    <3> QED BY <2>1, <3>1, <3>2, TableKept DEF RouteInv, RouteTypeOK
  <2> QED BY <2>2, <2>3
<1> QED BY <1>1, <1>2

LEMMA WatcherStep ==
  ASSUME RouteInv, NEW w \in Watched, Watcher(w)
  PROVE  RouteInv' /\ UNCHANGED target
<1>1. UNCHANGED target
  BY DEF Watcher, caller
<1>2. CASE WatchPublishes(w)
  <2>1. loop[w] = "publish" /\ Replace(w, got[w]) /\ UNCHANGED got
    BY <1>2 DEF WatchPublishes, Moves
  <2>2. got[w] \in Seq(Endpoints)
    BY DEF RouteInv, RouteTypeOK, AddressLists
  <2>3. CASE w = Service
    <3>1. Says(got[w])
      BY <2>1, <2>3 DEF Watcher
    <3> QED BY <1>1, <2>1, <2>2, <2>3, <3>1, SaysStep
  <2>4. CASE w # Service
    <3>1. UNCHANGED <<news, silence, uses>>
      BY <2>4 DEF Watcher
    <3> QED BY <1>1, <2>1, <2>4, <3>1, OthersView, RouteStays DEF RouteInv, RouteTypeOK
  <2> QED BY <1>1, <2>3, <2>4
<1>3. CASE ~WatchPublishes(w)
  <2>1. UNCHANGED entries /\ loop[w] # "publish" /\ got' \in [Watched -> AddressLists]
    <3>1. CASE \E list \in Views : QueryAnswered(w, list)
      <4>1. PICK list \in Views : QueryAnswered(w, list)
        BY <3>1
      <4>2. list \in AddressLists
        BY ViewsAssumption DEF AddressLists
      <4> QED BY <4>1, <4>2 DEF QueryAnswered, Moves, Table, RouteInv, RouteTypeOK
    <3>2. CASE WatchChecks(w) \/ QueryFails(w) \/ WatchRecords(w) \/ WatcherLeaves(w)
      BY <3>2 DEF WatchChecks, QueryFails, WatchRecords, WatcherLeaves, Moves, Table, RouteInv, RouteTypeOK
    <3> QED BY <1>3, <3>1, <3>2 DEF Watcher, WatchSteps
  <2>2. UNCHANGED <<news, silence, uses>>
    BY <2>1 DEF Watcher
  <2>3. (HasService(Service)' <=> HasService(Service)) /\ View' = View
    BY <2>1 DEF HasService, View
  <2> QED BY <1>1, <2>1, <2>2, <2>3, RouteStays DEF RouteInv, RouteTypeOK
<1> QED BY <1>2, <1>3

\* The view and what is remembered of it grow old together.
LEMMA ClockStep ==
  ASSUME RouteInv, ClockTicks
  PROVE  RouteInv' /\ UNCHANGED <<uses, target>>
<1>1. /\ HasService(Service) /\ silence <= StaleLimit /\ silence' = silence + 1
      /\ UNCHANGED <<news, uses, target, got>>
      /\ entries' = [s \in DOMAIN entries |->
                      [entries[s] EXCEPT !.age = IF @ > StaleLimit THEN @ ELSE @ + 1]]
  BY DEF ClockTicks, Tick, caller, consulVars, watchVars
<1>2. View \in ViewStates /\ View.age = silence /\ silence \in Nat
  BY <1>1 DEF RouteInv, NewsInv, RouteTypeOK
<1>3. View' = [View EXCEPT !.age = IF @ > StaleLimit THEN @ ELSE @ + 1] /\ HasService(Service)'
  BY <1>1 DEF View, HasService
<1>4. PICK v \in ViewStates : v = View
  BY <1>2
<1>5. PICK b \in Nat : b = silence + 1
  BY <1>2
<1>6. View' = [v EXCEPT !.age = b]
  BY <1>1, <1>2, <1>3, <1>4, <1>5, StaleLimitAssumption
<1>7. /\ View' \in ViewStates /\ View'.age = b /\ View'.endpoints = v.endpoints
      /\ View'.cursor = v.cursor /\ View'.unavailable = v.unavailable
  BY <1>6 DEF ViewStates
<1>8. RouteTypeOK'
  BY <1>1, <1>2 DEF RouteInv, RouteTypeOK
<1>9. NewsInv'
  BY <1>1, <1>3, <1>4, <1>5, <1>7 DEF RouteInv, NewsInv
<1>10. TurnsInv'
  BY <1>1, <1>4, <1>7 DEF RouteInv, TurnsInv
<1> QED BY <1>1, <1>8, <1>9, <1>10 DEF RouteInv

\* The static route, or none.
LEMMA FindStep ==
  ASSUME RouteInv, NEW t \in Threads, FindRoute(t) \/ Leave(t)
  PROVE  /\ RouteInv' /\ UNCHANGED uses
         /\ \A u \in Threads : target'[u] # target[u] /\ target'[u] # "none" =>
              target'[u] = Static /\ news.said = "nothing"
<1>1. UNCHANGED <<entries, news, silence, uses, got>>
  BY DEF FindRoute, Leave, routing, discovery, consulVars, watchVars
<1>2. PICK a \in Endpoints \cup {"none"} :
        /\ \/ a = "none"
           \/ a = Static /\ news.said = "nothing"
           \/ a = target[t]
        /\ target' = [target EXCEPT ![t] = a]
  <2>1. target \in [Threads -> Endpoints \cup {"none"}]
    BY DEF RouteInv, RouteTypeOK
  <2>2. CASE Leave(t)
    BY <2>2 DEF Leave
  <2>3. CASE FindRoute(t)
    <3>1. CASE HasService(Service)
      <4>1. target' = target
        BY <2>3, <3>1 DEF FindRoute
      <4>2. target = [target EXCEPT ![t] = target[t]]
        BY <2>1
      <4> QED BY <2>1, <4>1, <4>2
    <3>2. CASE ~HasService(Service)
      BY <2>3, <3>2, RouteAssumption DEF FindRoute, RouteInv, NewsInv
    <3> QED BY <3>1, <3>2
  <2> QED BY <2>2, <2>3
<1>3. /\ target' \in [Threads -> Endpoints \cup {"none"}]
      /\ \A u \in Threads : target'[u] = IF u = t THEN a ELSE target[u]
  BY <1>2 DEF RouteInv, RouteTypeOK
<1> QED BY <1>1, <1>2, <1>3, TableKept

\* No step but Resolve's makes an endpoint used more.
LEMMA UsedNoMore ==
  ASSUME RouteInv, UNCHANGED uses \/ uses' = [e \in Endpoints |-> 0]
  PROVE  \A e \in Endpoints : ~(uses'[e] > uses[e])
  BY DEF RouteInv, RouteTypeOK

-----------------------------------------------------------------------------
(* The theorem on routes.                                                  *)

\* What RoutesFollowDiscovery says of a step.
UsesFollow ==
  \A e \in Endpoints : uses'[e] > uses[e] =>
    /\ news.said = "view" /\ silence <= StaleLimit
    /\ \E k \in 1..Len(news.list) : news.list[k] = e
    /\ \A k \in 1..Len(news.list) : uses'[e] <= uses'[news.list[k]] + 1
TargetsFollow ==
  \A t \in Threads : target'[t] # target[t] /\ target'[t] # "none" =>
    \/ target'[t] = Static /\ news.said = "nothing"
    \/ uses'[target'[t]] > uses[target'[t]]

LEMMA ResolveFollows ==
  ASSUME RouteInv, NEW t \in Threads, ResolveRoute(t)
  PROVE  RouteInv' /\ UsesFollow /\ TargetsFollow
<1> DEFINE e == Picked(Service)
<1>1. /\ RouteInv' /\ news.said = "view" /\ silence <= StaleLimit /\ e \in Endpoints
      /\ Contains(news.list, e)
      /\ uses' = [uses EXCEPT ![e] = @ + 1] /\ target' = [target EXCEPT ![t] = e]
      /\ \A k \in 1..Len(news.list) : news.list[k] \in Endpoints /\ uses[e] <= uses[news.list[k]]
  BY ResolveDoes
<1> HIDE DEF e
<1>2. uses \in [Endpoints -> Nat] /\ target \in [Threads -> Endpoints \cup {"none"}]
  BY DEF RouteInv, RouteTypeOK
<1>3. \A f \in Endpoints : uses'[f] = IF f = e THEN uses[e] + 1 ELSE uses[f]
  BY <1>1, <1>2
<1>4. UsesFollow
  <2> SUFFICES ASSUME NEW f \in Endpoints, uses'[f] > uses[f]
               PROVE  /\ \E k \in 1..Len(news.list) : news.list[k] = f
                      /\ \A k \in 1..Len(news.list) : uses'[f] <= uses'[news.list[k]] + 1
    BY <1>1 DEF UsesFollow
  <2>1. f = e
    BY <1>2, <1>3
  <2>2. ASSUME NEW k \in 1..Len(news.list) PROVE uses'[e] <= uses'[news.list[k]] + 1
    <3>1. PICK g \in Endpoints : g = news.list[k] /\ uses[e] <= uses[g]
      BY <1>1
    <3>2. uses'[e] <= uses'[g] + 1
      BY <1>1, <1>2, <1>3, <3>1
    <3> QED BY <3>1, <3>2
  <2> QED BY <1>1, <2>1, <2>2 DEF Contains
<1>5. TargetsFollow
  <2> SUFFICES ASSUME NEW u \in Threads, target'[u] # target[u]
               PROVE  uses'[target'[u]] > uses[target'[u]]
    BY DEF TargetsFollow
  <2>1. target'[u] = e
    BY <1>1, <1>2
  <2>2. uses'[e] > uses[e]
    BY <1>1, <1>2, <1>3
  <2> QED BY <2>1, <2>2
<1> QED BY <1>1, <1>4, <1>5

LEMMA RouteStep ==
  ASSUME ThreadInv, RouteInv, [Next]_vars
  PROVE  RouteInv' /\ UsesFollow /\ TargetsFollow
<1>1. CASE \E t \in Threads : ResolveRoute(t)
  BY <1>1, ResolveFollows
<1>2. CASE \E t \in Threads : FindRoute(t) \/ Leave(t)
  BY <1>2, FindStep, UsedNoMore DEF UsesFollow, TargetsFollow
<1>3. ASSUME RouteInv', UNCHANGED target, UNCHANGED uses \/ uses' = [e \in Endpoints |-> 0]
      PROVE  RouteInv' /\ UsesFollow /\ TargetsFollow
  BY <1>3, UsedNoMore DEF UsesFollow, TargetsFollow
<1>4. CASE UNCHANGED <<discovery, target>>
  <2>1. UNCHANGED <<entries, news, silence, uses, got, target>>
    BY <1>4 DEF discovery, consulVars, watchVars
  <2>2. RouteInv'
    BY <2>1, TableKept DEF RouteInv, RouteTypeOK
  <2> QED BY <1>3, <2>1, <2>2
<1>5. CASE \E t \in Threads : Publish(t) \/ Withdraw(t)
  <2>1. UNCHANGED uses \/ uses' = [e \in Endpoints |-> 0]
    BY <1>5 DEF Publish, Withdraw, Says, Withdrawn
  <2> QED BY <1>3, <1>5, <2>1, ProviderStep
<1>6. CASE \E t \in Threads : BeginDiscovery(t) \/ DiscoverySteps(t)
  BY <1>3, <1>6, DiscoveryStep
<1>7. CASE \E w \in Watched : Watcher(w)
  <2>1. UNCHANGED uses \/ uses' = [e \in Endpoints |-> 0]
    BY <1>7 DEF Watcher, Says
  <2> QED BY <1>3, <1>7, <2>1, WatcherStep
<1>8. CASE ClockTicks
  BY <1>3, <1>8, ClockStep
<1> QED BY <1>1, <1>2, <1>4, <1>5, <1>6, <1>7, <1>8, RouteMoves

LEMMA RouteStart == Init => RouteInv /\ OwnerInv
<1> SUFFICES ASSUME Init PROVE RouteInv /\ OwnerInv
  OBVIOUS
<1>1. /\ news = [said |-> "nothing", list |-> <<>>] /\ silence = 0 /\ uses = [e \in Endpoints |-> 0]
      /\ target = [t \in Threads |-> "none"] /\ got = [w \in Watched |-> <<>>]
      /\ entries = [s \in {} |-> s]
  BY DEF Init, ConsulInit
<1>2. <<>> \in AddressLists
  BY EmptySeq DEF AddressLists
<1>3. RouteTypeOK
  BY <1>1, <1>2 DEF RouteTypeOK, NewsStates
<1>4. ~HasService(Service)
  BY <1>1 DEF HasService
<1>5. NewsInv /\ TurnsInv
  BY <1>1, <1>4 DEF NewsInv, TurnsInv
<1>6. OwnerInv
  BY DEF Init, ConsulInit, OwnerInv, WatcherPlaces
<1> QED BY <1>3, <1>5, <1>6 DEF RouteInv

\* The table has what the provider said last, used by turns, and the watchers
\* of a discovery component that was closed have ended.
RInv == RouteInv /\ OwnerInv

THEOREM RouteInvariance == Spec => []RInv
<1>1. Init => RInv
  BY RouteStart DEF RInv
<1>2. DInv /\ RInv /\ [Next]_vars => RInv'
  BY RouteStep, OwnerStep DEF RInv, DInv
<1> QED BY <1>1, <1>2, DeliveryInvariance, PTL DEF Spec

\* A call goes where the provider said last, in turn, and nowhere else but to the
\* static route of a service never published; no watcher is left behind Close
\* (FindRoute, Replace, Resolve, _WatchLoop, Close).
THEOREM RoutesFollow == Spec => RoutesFollowDiscovery
<1>1. RInv => (component = "closed" /\ Idle => Live = {})
  BY DEF RInv, OwnerInv, Idle
<1>2. DInv /\ RInv /\ [Next]_vars => [UsesFollow /\ TargetsFollow /\ (component = "closed" /\ Idle => Live = {})]_vars
  BY <1>1, RouteStep DEF RInv, DInv
<1> QED BY <1>2, RouteInvariance, DeliveryInvariance, PTL
        DEF Spec, RoutesFollowDiscovery, UsesFollow, TargetsFollow
=============================================================================
