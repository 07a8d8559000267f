-------------------------- MODULE OrderedDelivery ----------------------------
(***************************************************************************)
(* An ordered call from one process to another: OrderedSession on the      *)
(* sending side, the path of an outgoing call (CoServiceCall.cc,           *)
(* CallOptionsAdapter.cc, AppRuntimeState.cc, HttpEgress) with the           *)
(* DynamicRouteTable and its provider, a network and OrderedIngress on the *)
(* receiving side.                                                         *)
(*                                                                         *)
(* Programs are what the threads of the sender do.  The network loses,     *)
(* delays, reorders and, since callers retry, repeats: `network` and       *)
(* `replies` keep whatever was sent, and each of it may arrive at any time *)
(* or never.  The receiver's dispatcher is InboundDispatch; here it is an  *)
(* admission and, some time later, a terminal reply.                       *)
(***************************************************************************)
EXTENDS OrderedSession, ConsulDiscovery, HttpEgress

CONSTANTS
  Programs,     \* [ops : Threads -> sequences of operations, profile]
  Granted,      \* the grant the receiver has installed
  Service,      \* the service that is called
  Endpoints,    \* addresses
  Static,       \* the static route of the service
  Hosts,        \* the endpoints at which the receiver with the grant listens
  MaxResults    \* max_cached_results of the receiver

\* What a thread can be told to do.
Operations ==
  [do : {"Open"}, grant : Openable]
  \cup [do : {"Call"}, stamp : Nat \ {0}, content : Contents]
  \cup [do : {"Publish"}, list : Seq(Endpoints)]
  \cup [do : {"Prepare", "Drop", "Withdraw", "Create", "Start", "Register", "Deregister", "Close"}]

ASSUME RouteAssumption == Static \in Endpoints /\ Hosts \subseteq Endpoints
ASSUME ViewsAssumption == Views \subseteq Seq(Endpoints)
ASSUME ReceiverAssumption == Granted \in Openable /\ MaxResults \in Nat \ {0}
ASSUME ProgramsAssumption == \A p \in Programs : p.ops \in [Threads -> Seq(Operations)]

VARIABLES
  prog,      \* what a thread has still to do; the head is the current call
  pc,        \* where it is inside the call
  target,    \* the address its call was routed to
  stamps,    \* the stamps prepare returned; every thread may use any of them
  network,   \* requests that were put on the wire
  replies,   \* replies that were put on the wire
  results,   \* history: what callers were told
  news,      \* history: what the provider published last
  silence,   \* history: ticks since then
  uses,      \* history: how often an endpoint was resolved since then
  grants, next, inFlight, cachedSeqs, cached, cachedOrder, cachedBytes,
  issued, log, outcome, answer   \* OrderedIngress of the receiver

ingress == <<grants, next, inFlight, cachedSeqs, cached, cachedOrder,
             cachedBytes, issued, log, outcome, answer>>
discovery == <<entries, news, silence, uses, consulVars>>
routing == <<discovery, egressVars>>
caller == <<prog, pc, target, stamps, network, results>>
vars == <<sessionVars, routing, caller, replies, ingress>>

Outcomes == {"done", "failed"}
\* MakeRequestId names the stream, the instance of the session and the sequence;
\* the content is what the digest of the receiver sees besides.
Requests == [session : Nat \ {0}, seq : 1..LastSeq, content : Contents]

I == INSTANCE OrderedIngress WITH
       Streams <- {g.stream : g \in Openable}, Peers <- {g.peer : g \in Openable},
       Epochs <- {"epoch"}, InvalidErrors <- {}, SafeError <- "failed",
       Size <- [o \in Outcomes |-> 1], MaxStreams <- 1, MaxBytes <- MaxResults,
       MaxSeq <- LastSeq

Init ==
  /\ SessionInit
  /\ ConsulInit /\ entries = [s \in {} |-> s] /\ news = [said |-> "nothing", list |-> <<>>]
  /\ silence = 0 /\ uses = [e \in Endpoints |-> 0]
  /\ \E p \in Programs : prog = p.ops /\ EgressInit(p.profile)
  /\ pc = [t \in Threads |-> "idle"]
  /\ target = [t \in Threads |-> "none"] /\ stamps = <<>>
  /\ network = {} /\ replies = {} /\ results = {}
  /\ grants = {[stream |-> Granted.stream, epoch |-> "epoch", peer |-> Granted.peer]}
  /\ next = [s \in {g.stream : g \in Openable} |-> IF s = Granted.stream THEN 1 ELSE 0]
  /\ inFlight = I!Empty /\ cachedSeqs = {} /\ cached = I!Empty
  /\ cachedOrder = <<>> /\ cachedBytes = 0 /\ issued = {}
  /\ log = [s \in {g.stream : g \in Openable} |-> <<>>]
  /\ outcome = [s \in {g.stream : g \in Openable} |-> I!Empty]
  /\ answer = [kind |-> "None"]

Op(t) == Head(prog[t])
Does(t, d) == pc[t] = "idle" /\ open[t] = Outside /\ prog[t] # <<>> /\ Op(t).do = d
Done(t) == prog' = [prog EXCEPT ![t] = Tail(@)]
-----------------------------------------------------------------------------
(* What users begin.                                                       *)

BeginOpen(t) ==
  /\ Does(t, "Open") /\ OpenLocks(t, Op(t).grant) /\ Done(t)
  /\ UNCHANGED <<routing, pc, target, stamps, network, results, replies, ingress>>

BeginDrop(t) ==
  /\ Does(t, "Drop") /\ Done(t)
  /\ IF held[t] = 0 THEN UNCHANGED sessionVars ELSE Drop(t)
  /\ UNCHANGED <<routing, pc, target, stamps, network, results, replies, ingress>>

\* prepare fails without a session at hand and at the end of the space.
BeginPrepare(t) ==
  LET s == held[t]
  IN  /\ Does(t, "Prepare") /\ Done(t)
      /\ IF s = 0 \/ sessions[s].exhausted THEN UNCHANGED <<sessionVars, stamps>>
         ELSE /\ Prepare(s)
              /\ stamps' = Append(stamps, [session |-> s, seq |-> sessions[s].next])
      /\ UNCHANGED <<routing, pc, target, network, results, replies, ingress>>

Stamp(t) == stamps[Op(t).stamp]
Request(t) == [session |-> Stamp(t).session, seq |-> Stamp(t).seq, content |-> Op(t).content]

\* The answers that say something of the request's fate; deadlines, missing
\* routes and gaps say nothing and are not kept.
Telling == {"Reply", "Conflict", "SequenceConflict", "InProgress", "Expired"}
Tell(r) == results' = IF r.kind \in Telling THEN results \cup {r} ELSE results

\* The call locks the weak pointer of the stamp.
BeginCall(t) ==
  /\ Does(t, "Call") /\ Op(t).stamp <= Len(stamps) /\ Lives(Stamp(t).session)
  /\ temp' = [temp EXCEPT ![t] = Stamp(t).session]
  /\ pc' = [pc EXCEPT ![t] = "bind"]
  /\ UNCHANGED <<mutex, registry, sessions, held, open, routing, prog, target,
                 stamps, network, results, replies, ingress>>

\* "ordered stamp has no live session".
CallWithoutSession(t) ==
  /\ Does(t, "Call") /\ Op(t).stamp <= Len(stamps) /\ ~Lives(Stamp(t).session)
  /\ Done(t)
  /\ UNCHANGED <<sessionVars, routing, pc, target, stamps, network, results, replies, ingress>>
-----------------------------------------------------------------------------
(* The path of a call.                                                     *)

At(t, p) == pc[t] = p
Go(t, p) == pc' = [pc EXCEPT ![t] = p]

\* The call ends with an error of its own process.
Fails(t, kind) ==
  /\ Go(t, "leave") /\ Tell([req |-> Request(t), kind |-> kind])
  /\ UNCHANGED <<prog, target, stamps, network>>

\* No finite budget or none left: before the sequence is consumed.
BudgetRefused(t) ==
  /\ At(t, "bind") /\ Fails(t, "TimedOut")
  /\ UNCHANGED <<sessionVars, routing, replies, ingress>>

\* consume_sequence.
Bind(t) ==
  LET verdict == Verdict(Stamp(t).session, Stamp(t).seq, Op(t).content)
  IN  /\ At(t, "bind")
      /\ IF verdict = "Ok"
         THEN /\ BindForSend(Stamp(t).session, Stamp(t).seq, Op(t).content)
              /\ Go(t, "route")
              /\ UNCHANGED <<mutex, registry, held, temp, open, prog, target, stamps, network, results>>
         ELSE Fails(t, verdict) /\ UNCHANGED sessionVars
      /\ UNCHANGED <<routing, replies, ingress>>

\* FindRoute asks the table first whether the service was ever published; the
\* static route is for services that were not.
FindRoute(t) ==
  /\ At(t, "route")
  /\ IF HasService(Service)
     THEN Go(t, "resolve") /\ UNCHANGED target
     ELSE Go(t, "send") /\ target' = [target EXCEPT ![t] = Static]
  /\ UNCHANGED <<sessionVars, routing, prog, stamps, network, results, replies, ingress>>

\* ... and then, in a second critical section, for the endpoint.
ResolveRoute(t) ==
  /\ At(t, "resolve") /\ Resolve(Service)
  /\ target' = [target EXCEPT ![t] = Picked(Service)]
  /\ uses' = [uses EXCEPT ![Picked(Service)] = @ + 1]
  /\ Go(t, "send")
  /\ UNCHANGED <<sessionVars, egressVars, news, silence, consulVars, prog, stamps, network, results,
                 replies, ingress>>

\* The sequence stays consumed: only the same request may be retried.
NoRoute(t) ==
  /\ At(t, "resolve") /\ ~Resolvable(Service) /\ Fails(t, "NoRoute")
  /\ UNCHANGED <<sessionVars, routing, replies, ingress>>

\* The policy rejects or tightens the deadline to nothing, or the request
\* cannot be put on the wire.
NotSent(t) ==
  /\ At(t, "send") /\ Fails(t, "NotSent")
  /\ UNCHANGED <<sessionVars, routing, replies, ingress>>

\* The limits of the host on body and headers.
LimitsExceeded(t) ==
  /\ At(t, "send") /\ ChecksLimits /\ Fails(t, "NotSent")
  /\ UNCHANGED <<sessionVars, routing, replies, ingress>>

\* A request goes out through client number n.
Wire(t, n) == network' = network \cup {[req |-> Request(t), to |-> target[t], via |-> n]}

Send(t) ==
  /\ At(t, "send") /\ HasClient /\ Go(t, "await") /\ Wire(t, client)
  /\ UNCHANGED <<sessionVars, routing, prog, target, stamps, results, replies, ingress>>

\* The first calls over TCP find no client; each makes its own ...
NeedsClient(t) ==
  /\ At(t, "send") /\ ~HasClient /\ Go(t, "client")
  /\ UNCHANGED <<sessionVars, routing, prog, target, stamps, network, results, replies, ingress>>

\* ... which needs the engine of the host ...
ClientFails(t) ==
  /\ At(t, "client") /\ Fails(t, "NotSent")
  /\ UNCHANGED <<sessionVars, routing, replies, ingress>>

\* ... and sends through the one that was installed first.
ClientMade(t) ==
  /\ At(t, "client") /\ Installed /\ Go(t, "await") /\ Wire(t, client')
  /\ UNCHANGED <<sessionVars, discovery, prog, target, stamps, results, replies, ingress>>

\* A reply that echoes the request id ...
Answered(t) ==
  /\ At(t, "await") /\ Go(t, "leave")
  /\ \E r \in replies : r.req = Request(t) /\ Tell(r)
  /\ UNCHANGED <<sessionVars, routing, prog, target, stamps, network, replies, ingress>>

\* The answer is there, but cannot be read.
ResponseUnreadable(t) ==
  /\ At(t, "await") /\ ChecksLimits /\ (\E r \in replies : r.req = Request(t))
  /\ Fails(t, "Unreadable")
  /\ UNCHANGED <<sessionVars, routing, replies, ingress>>

\* Mutant: a call may go out without a finite deadline.
TimesOutNever(t) == FALSE

\* ... or the deadline: the outcome is unknown.
TimesOut(t) ==
  /\ At(t, "await") /\ Fails(t, "Unknown")
  /\ UNCHANGED <<sessionVars, routing, replies, ingress>>

\* The pointer of the call is destroyed, which may be the last.
Leave(t) ==
  /\ At(t, "leave") /\ Go(t, "idle") /\ Done(t)
  /\ temp' = [temp EXCEPT ![t] = 0] /\ UNCHANGED held
  /\ LetGo(t, temp[t])
  /\ target' = [target EXCEPT ![t] = "none"]
  /\ UNCHANGED <<mutex, registry, sessions, routing, stamps, network, results, replies, ingress>>
-----------------------------------------------------------------------------
(* The provider and the clock.                                             *)

\* What the provider says of the service from now on.
Says(list) ==
  /\ news' = [said |-> "view", list |-> list] /\ silence' = 0
  /\ uses' = IF news.said = "view" /\ news.list = list THEN uses ELSE [e \in Endpoints |-> 0]

Withdrawn ==
  /\ news' = IF HasService(Service) THEN [said |-> "gone", list |-> <<>>] ELSE news
  /\ UNCHANGED <<silence, uses>>

Publish(t) ==
  /\ Does(t, "Publish") /\ Done(t) /\ Replace(Service, Op(t).list) /\ Says(Op(t).list)
  /\ UNCHANGED <<sessionVars, egressVars, consulVars, pc, target, stamps, network, results, replies, ingress>>

Withdraw(t) ==
  /\ Does(t, "Withdraw") /\ Done(t) /\ MarkUnavailable(Service) /\ Withdrawn
  /\ UNCHANGED <<sessionVars, egressVars, consulVars, pc, target, stamps, network, results, replies, ingress>>

\* One thread owns the discovery component.
BeginDiscovery(t) ==
  /\ \/ Does(t, "Create") /\ CreateBegins
     \/ Does(t, "Start") /\ (StartBegins \/ StartRefused)
     \/ Does(t, "Register") /\ RegisterSelf
     \/ Does(t, "Deregister") /\ DeregisterSelf
     \/ Does(t, "Close") /\ Close
  /\ Go(t, "discovery")
  /\ UNCHANGED <<sessionVars, egressVars, news, silence, uses, prog, target, stamps, network, results,
                 replies, ingress>>

DiscoverySteps(t) ==
  /\ At(t, "discovery") /\ ~Idle /\ OwnerSteps
  /\ IF call = "marking" /\ Service \in Watched THEN Withdrawn
     ELSE UNCHANGED <<news, silence, uses>>
  /\ UNCHANGED <<sessionVars, egressVars, caller, replies, ingress>>

\* After a call that failed the application goes on with its shutdown.
ShutsDown(t) ==
  LET rest == Tail(prog[t])
  IN  \E k \in 1..(Len(rest) + 1) :
        /\ \A j \in 1..(k - 1) : rest[j].do # "Close"
        /\ k <= Len(rest) => rest[k].do = "Close"
        /\ prog' = [prog EXCEPT ![t] = SubSeq(rest, k, Len(rest))]

DiscoveryReturns(t) ==
  /\ At(t, "discovery") /\ Idle /\ Go(t, "idle")
  /\ IF call = "failed" THEN ShutsDown(t) ELSE Done(t)
  /\ UNCHANGED <<sessionVars, routing, target, stamps, network, results, replies, ingress>>

Watcher(w) ==
  /\ WatchSteps(w)
  /\ IF loop[w] = "publish" /\ w = Service THEN Says(got[w]) ELSE UNCHANGED <<news, silence, uses>>
  /\ UNCHANGED <<sessionVars, egressVars, caller, replies, ingress>>

ClockTicks ==
  /\ HasService(Service) /\ silence <= StaleLimit
  /\ Tick /\ silence' = silence + 1
  /\ UNCHANGED <<sessionVars, egressVars, news, uses, consulVars, caller, replies, ingress>>
-----------------------------------------------------------------------------
(* The receiver.                                                           *)

Reply(req, o) == [req |-> req, kind |-> "Reply", outcome |-> o]

\* What the dispatcher puts on the wire for the decision a of Admit.
Decided(req, a) ==
  replies' = CASE a.kind = "Execute" -> replies
               [] a.kind = "Replay"  -> replies \cup {Reply(req, a.reply.outcome)}
               [] OTHER              -> replies \cup {[req |-> req, kind |-> a.kind]}

ReceiverAdmits(m) ==
  LET g == sessions[m.req.session].grant
  IN  /\ m.to \in Hosts
      /\ I!Admit(g.stream, "epoch", g.peer, m.req.seq, m.req)
      /\ Decided(m.req, answer')
      /\ UNCHANGED <<sessionVars, routing, caller>>

\* A process without the grant: StreamRejected.
ReceiverRefuses(m) ==
  /\ m.to \notin Hosts
  /\ replies' = replies \cup {[req |-> m.req, kind |-> "Rejected"]}
  /\ UNCHANGED <<sessionVars, routing, caller, ingress>>

ReceiverCompletes(i, o) ==
  /\ I!Complete(i, o)
  /\ replies' = replies \cup {Reply(i.req, o)}
  /\ UNCHANGED <<sessionVars, routing, caller>>

Begin(t) ==
  \/ BeginOpen(t) \/ BeginDrop(t) \/ BeginPrepare(t) \/ BeginCall(t)
  \/ CallWithoutSession(t) \/ Publish(t) \/ Withdraw(t) \/ BeginDiscovery(t)

SessionSteps(t) ==
  /\ OpenSteps(t) \/ Destroy(t)
  /\ UNCHANGED <<routing, caller, replies, ingress>>

Proceed(t) ==
  \/ SessionSteps(t)
  \/ BudgetRefused(t) \/ Bind(t) \/ FindRoute(t) \/ ResolveRoute(t) \/ NoRoute(t)
  \/ NotSent(t) \/ LimitsExceeded(t) \/ Send(t) \/ NeedsClient(t) \/ ClientFails(t)
  \/ ClientMade(t) \/ Answered(t) \/ ResponseUnreadable(t) \/ TimesOut(t) \/ Leave(t)
  \/ DiscoverySteps(t) \/ DiscoveryReturns(t)

Receiver ==
  \/ \E m \in network : ReceiverAdmits(m) \/ ReceiverRefuses(m)
  \/ \E i \in issued, o \in Outcomes : ReceiverCompletes(i, o)

Next ==
  \/ \E t \in Threads : Begin(t) \/ Proceed(t)
  \/ \E w \in Watched : Watcher(w)
  \/ ClockTicks \/ Receiver

Spec == Init /\ [][Next]_vars

\* Coroutines of operations under way are run, and calls and queries have
\* deadlines.
FairSpec ==
  /\ Spec
  /\ \A t \in Threads : WF_vars(Proceed(t))
  /\ \A w \in Watched : WF_vars(Watcher(w))
-----------------------------------------------------------------------------
(* Properties.                                                             *)

Log == log[Granted.stream]

\* Whatever the network does and however callers retry, a ticket executes at
\* most once, at the position its sequence names, with the content it was bound
\* to by its first send, and only after all smaller tickets of its session were
\* sent; and whichever callers come first, the process sends through one client
\* (BindForSend, Admit, _SendRpcProfile).
ExecutedAsSent ==
  /\ FirstSendsInOrder
  /\ \A n \in 1..Len(Log) :
       LET s == sessions[Log[n].session]
       IN  Log[n].seq = n /\ n \in DOMAIN s.bound /\ s.bound[n] = Log[n].content
  /\ \A j, k \in 1..Len(stamps) : stamps[j] = stamps[k] => j = k
  /\ \A m \in network : m.via = client

\* What a caller is told stays true: a reply is the one recorded for its own
\* request; a conflict, found here or there, means that the request has not
\* executed and never will; InProgress means that it has begun.  ResultExpired
\* tells only that the position is taken (Admit does not keep the content).
AnswersTellFate ==
  \A r \in results :
    LET n == r.req.seq
    IN  /\ r.kind = "Reply" => /\ n <= Len(Log) /\ Log[n] = r.req
                               /\ n \in DOMAIN outcome[Granted.stream]
                               /\ outcome[Granted.stream][n].outcome = r.outcome
        /\ r.kind \in {"SequenceConflict", "Conflict"} =>
             \A k \in 1..Len(Log) : Log[k] # r.req
        /\ r.kind = "Conflict" => n <= Len(Log)
        /\ r.kind = "InProgress" => n <= Len(Log) /\ Log[n] = r.req
        /\ r.kind = "Expired" => n <= Len(Log)

\* A call is routed by what the provider said last: to an endpoint of that
\* list, not later than the limit after it, never once it was withdrawn, and
\* evenly: no endpoint of the list is more than one use behind, whatever is
\* published again or listed twice.  A call goes nowhere else, save by the
\* static route for a service never published, and once Close of the discovery
\* component has returned no watcher is left to publish (FindRoute, Replace,
\* Resolve, _WatchLoop).
RoutesFollowDiscovery ==
  [][/\ \A e \in Endpoints : uses'[e] > uses[e] =>
          /\ news.said = "view" /\ silence <= StaleLimit
          /\ \E k \in 1..Len(news.list) : news.list[k] = e
          /\ \A k \in 1..Len(news.list) : uses'[e] <= uses'[news.list[k]] + 1
     /\ \A t \in Threads : target'[t] # target[t] /\ target'[t] # "none" =>
          \/ target'[t] = Static /\ news.said = "nothing"
          \/ uses'[target'[t]] > uses[target'[t]]
     /\ component = "closed" /\ Idle => Live = {}]_vars

\* Every operation that has begun returns, unless a thread has locked itself in
\* OpenImpl: calls through their deadlines, Open behind its mutex and the
\* destructor because the mutex is never kept (OpenImpl, _CallSend).  That a
\* thread locks itself is what DestructionReleases shows.
Busy(t) == pc[t] # "idle" \/ open[t] # Outside
OperationsReturn == \A t \in Threads : Busy(t) ~> (~Busy(t) \/ LockedItself)
-----------------------------------------------------------------------------
(* What comments promise and the code does not keep.                       *)

Listed(s) == \E k \in 1..Len(registry) : registry[k] = s

\* "The destruction of a session releases the place of its grant"
\* (~OrderedSession): what is left of a dead session leaves the registry.
DestructionReleases ==
  \A g \in Openable :
    LET Remains == \E s \in Instances : Listed(s) /\ ~Lives(s) /\ sessions[s].grant = g
    IN  Remains ~> ~Remains

\* "No path that fails consumes a sequence" (CallOptionsAdapter.hpp): a ticket that
\* was used up has a request on the wire, or a call that has not failed yet.
FailuresKeepSequence ==
  \A s \in Instances : \A n \in DOMAIN sessions[s].bound :
    \/ \E m \in network : m.req.session = s /\ m.req.seq = n
    \/ \E t \in Threads : /\ pc[t] \in {"route", "resolve", "send", "client"}
                         /\ Stamp(t) = [session |-> s, seq |-> n]

\* "Marked unavailable at once, so that no gateway goes on to the old addresses"
\* (ConsulDiscoveryComponent::Close): behind Close the watched services resolve
\* nowhere.
ClosedResolvesNothing ==
  component = "closed" /\ Idle => \A w \in Watched : ~Resolvable(w)
=============================================================================
