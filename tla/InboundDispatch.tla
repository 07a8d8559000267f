--------------------------- MODULE InboundDispatch ---------------------------
(***************************************************************************)
(* InboundDispatcher::Dispatch for an actor service and a concurrent one:  *)
(* the checks of the envelope, the inflight counters, the sequence state   *)
(* machine of OrderedIngress, the activation of the actor, its             *)
(* ActorMailbox, the waiter a call sleeps on and the handler that runs in  *)
(* the coroutine of the call; around it the bridges that turn a request of *)
(* the wire into a call of Dispatch and its answer into a reply.           *)
(*                                                                         *)
(* Every call runs in a coroutine of its own and takes one step between    *)
(* two pieces of shared state.  The stream was granted before the run      *)
(* (CoApp), so this composition starts behind that grant.  The coroutine   *)
(* runtime is external: a wait ends when it is notified, at the deadline,  *)
(* by cancellation or because the runtime cannot wait.                     *)
(***************************************************************************)
EXTENDS Integers, Sequences, FiniteSets, FiniteSetsExt

CONSTANTS
  Calls,         \* inbound calls: [seq, content, copy]; copies are retries
  Scenarios,     \* [ordered, form]: the actor service and the envelopes
  Contents,      \* (request id, digest)
  Coroutines,    \* drain coroutines
  MaxInflight,   \* ServiceOptions.max_inflight
  Capacity,      \* ServiceOptions.mailbox_capacity
  MaxResults,    \* ServiceOptions.max_cached_results
  MaxSeq,        \* bound of the model
  NoTask

\* What the envelope of a call says.  "keyed" is a stamped request for the
\* actor and "inline" a request for the concurrent service; "headless" is an HTTP
\* request without the headers of an envelope, the other envelopes of BadForms
\* fail a check before any counter, "keyless" and "unstamped" fail behind the
\* gate of the actor service.
BadForms == {"headless", "malformed", "unknown", "schema"}
Forms == {"keyed", "inline", "keyless", "unstamped"} \cup BadForms

\* A service is added only with options that fit together.
ValidateServiceOptions(o) ==
  LET serial == o.execution = "ActorSerial"
  IN  /\ o.max_inflight > 0
      /\ (o.mailbox_capacity > 0) = serial /\ (o.max_actors > 0) = serial
      /\ o.ordered_ingress => serial
      /\ \A limit \in {o.max_ordered_streams, o.max_cached_results, o.max_cached_result_bytes} :
           (limit > 0) = o.ordered_ingress

ActorOptions(isOrdered) ==
  LET limit(n) == IF isOrdered THEN n ELSE 0
  IN  [execution |-> "ActorSerial", max_inflight |-> MaxInflight,
       mailbox_capacity |-> Capacity, max_actors |-> 1, ordered_ingress |-> isOrdered,
       max_ordered_streams |-> limit(1), max_cached_results |-> limit(MaxResults),
       max_cached_result_bytes |-> limit(MaxResults)]

ASSUME OptionsAssumption ==
  \A sc \in Scenarios : ValidateServiceOptions(ActorOptions(sc.ordered))

ASSUME CallAssumption ==
  /\ Scenarios \subseteq [ordered : BOOLEAN, form : [Calls -> Forms]]
  /\ \A c \in Calls : c.seq \in Nat /\ c.content \in Contents
  /\ MaxInflight \in Nat \ {0}

ASSUME SizesAssumption ==
  /\ IsFiniteSet(Calls) /\ NoTask \notin Calls
  /\ Capacity \in Nat \ {0} /\ MaxResults \in Nat \ {0} /\ MaxSeq \in Nat

\* A drain coroutine is registered for the mailbox and is never the coroutine
\* an inbound call runs in, so each has a request context of its own.
ASSUME CoroutinesAssumption == Coroutines \cap Calls = {}

VARIABLES
  grants, next, inFlight, cachedSeqs, cached, cachedOrder, cachedBytes,
  issued, log, outcome, answer,                            \* OrderedIngress
  queue, draining, closed, drain, task, accepted, started, \* ActorMailbox
  form,       \* the envelope of each call; never changes
  ordered,    \* ServiceOptions.ordered_ingress of the actor service; fixed
  pc,         \* where each call is inside Dispatch
  inflight,   \* PerService.inflight of each service
  active,     \* the actor is in the registry
  slot,       \* Slot.r once the waiter was notified, "none" before
  terminal,   \* the terminal reply a call is about to Complete with
  reply,      \* what Dispatch returned; behind the bridge: what was replied
  scopes      \* request contexts bound to the coroutines that run handlers

ingress == <<grants, next, inFlight, cachedSeqs, cached, cachedOrder,
             cachedBytes, issued, log, outcome, answer>>
mailbox == <<queue, draining, closed, drain, task, accepted, started>>
given == <<form, ordered>>
vars == <<ingress, mailbox, given, pc, inflight, active, slot, terminal, reply, scopes>>

Services == {"actor", "concurrent"}
ServiceOf(c) == IF form[c] = "inline" THEN "concurrent" ELSE "actor"

\* "own" is what the handler answered, a payload or an error; an "unsafe" error of
\* a handler carries details that may not leave the process; "lost" stands for
\* every error of the framework.
Outcomes == {"own", "unsafe", "lost"}

\* ValidateErrorAtBoundary: an error that fails it is replaced as a whole.
Safe(o) == IF o = "unsafe" THEN "lost" ELSE o

I == INSTANCE OrderedIngress WITH
       Streams <- {"stream"}, Epochs <- {"epoch"}, Peers <- {"peer"},
       Requests <- Contents, InvalidErrors <- {"unsafe"}, SafeError <- "lost",
       Size <- [o \in Outcomes |-> 1], MaxStreams <- 1, MaxBytes <- MaxResults

M == INSTANCE ActorMailbox WITH Tasks <- Calls

Ticket(c) == [stream |-> "stream", seq |-> c.seq, req |-> c.content]

Init ==
  /\ grants = {[stream |-> "stream", epoch |-> "epoch", peer |-> "peer"]}
  /\ next = [s \in {"stream"} |-> 1]
  /\ inFlight = I!Empty /\ cachedSeqs = {} /\ cached = I!Empty
  /\ cachedOrder = <<>> /\ cachedBytes = 0 /\ issued = {}
  /\ log = [s \in {"stream"} |-> <<>>]
  /\ outcome = [s \in {"stream"} |-> I!Empty]
  /\ answer = [kind |-> "None"]
  /\ M!Init
  /\ pc = [c \in Calls |-> "new"]
  /\ \E sc \in Scenarios : form = sc.form /\ ordered = sc.ordered
  /\ inflight = [v \in Services |-> 0]
  /\ active = FALSE
  /\ slot = [c \in Calls |-> "none"]
  /\ terminal = [c \in Calls |-> "none"]
  /\ reply = [c \in Calls |-> "none"]
  /\ scopes = [k \in Coroutines \cup Calls |-> <<>>]

\* What a handler can end in; an exception becomes InternalError.
HandlerResults == {"own", "unsafe"}

\* RequestScope: the handler of a call finds the context of its request in the
\* coroutine it runs in until it has returned or thrown.
Bound(k, c) == scopes' = [scopes EXCEPT ![k] = Append(@, c)]
Unbound(k) == scopes' = [scopes EXCEPT ![k] = SubSeq(@, 1, Len(@) - 1)]
CurrentRequest(k) == scopes[k][Len(scopes[k])]

Goto(c, from, to) == pc[c] = from /\ pc' = [pc EXCEPT ![c] = to]
Return(c, r) == reply' = [reply EXCEPT ![c] = r]
Finish(c, o) == terminal' = [terminal EXCEPT ![c] = o]
-----------------------------------------------------------------------------
(* Before the actor.                                                       *)

\* The HTTP bridge answers with a payload or with the code, the domain and the
\* message of an error that passed the boundary.
ToHttpResponse(o) == Safe(o)

\* EnvelopeFromRequest fails: the bridge answers without Dispatch.
RefuseRequest(c) ==
  /\ form[c] = "headless"
  /\ Goto(c, "new", "done")
  /\ Return(c, ToHttpResponse("Headless"))
  /\ UNCHANGED <<ingress, mailbox, given, inflight, active, slot, terminal, scopes>>

\* What a refused envelope is answered, in the order of the checks.
EnvelopeError(c) ==
  CASE form[c] = "malformed" -> "Invalid"
    [] form[c] = "unknown" -> "NotFound"
    [] form[c] = "schema" -> "TypeMismatch"

\* Envelope fields, metadata, service, method, schema: nothing was counted.
RefuseEnvelope(c) ==
  /\ form[c] \in BadForms \ {"headless"}
  /\ Goto(c, "new", "done")
  /\ Return(c, EnvelopeError(c))
  /\ UNCHANGED <<ingress, mailbox, given, inflight, active, slot, terminal, scopes>>

\* Mutant: one call too many passes.
HasRoomOneMore(v) == inflight[v] <= MaxInflight

HasRoom(v) == inflight[v] < MaxInflight

\* fetch_add first, then the comparison; a call that is too many has been
\* counted until it subtracts itself again in Leave.
Arrive(c) ==
  /\ pc[c] = "new" /\ form[c] \notin BadForms
  /\ inflight' = [inflight EXCEPT ![ServiceOf(c)] = @ + 1]
  /\ IF HasRoom(ServiceOf(c))
     THEN pc' = [pc EXCEPT ![c] = "gate"] /\ UNCHANGED reply
     ELSE pc' = [pc EXCEPT ![c] = "leaving"] /\ Return(c, "Overloaded")
  /\ UNCHANGED <<ingress, mailbox, given, active, slot, terminal, scopes>>

\* The budget is used up before admission: no ordered side effect.
Expire(c) ==
  /\ Goto(c, "gate", "leaving")
  /\ Return(c, "Late")
  /\ UNCHANGED <<ingress, mailbox, given, inflight, active, slot, terminal, scopes>>

\* The key extractor cannot decode the payload or finds an empty key.
KeyFails(c) ==
  /\ form[c] = "keyless"
  /\ Goto(c, "gate", "leaving")
  /\ Return(c, "Keyless")
  /\ UNCHANGED <<ingress, mailbox, given, inflight, active, slot, terminal, scopes>>

\* A service without ordered ingress goes on with no admission to settle.
SkipAdmit(c) ==
  /\ ~ordered /\ form[c] \in {"keyed", "unstamped"}
  /\ Goto(c, "gate", "admitted")
  /\ UNCHANGED <<ingress, mailbox, given, inflight, active, slot, terminal, reply, scopes>>

\* Mutant: a replayed admission falls through to execution.
DecidedReplayRuns(c, a) ==
  IF a.kind \in {"Execute", "Replay"}
  THEN pc' = [pc EXCEPT ![c] = "admitted"] /\ UNCHANGED reply
  ELSE pc' = [pc EXCEPT ![c] = "leaving"] /\ Return(c, a.kind)

\* What Dispatch does with the decision a of Admit.
Decided(c, a) ==
  IF a.kind = "Execute"
  THEN pc' = [pc EXCEPT ![c] = "admitted"] /\ UNCHANGED reply
  ELSE /\ pc' = [pc EXCEPT ![c] = "leaving"]
       /\ Return(c, IF a.kind = "Replay" THEN Safe(a.reply.outcome) ELSE a.kind)

\* A request without fw.sequence names no session the ingress knows.
AdmitCall(c) ==
  /\ pc[c] = "gate" /\ ordered /\ form[c] \in {"keyed", "unstamped"}
  /\ LET epoch == IF form[c] = "unstamped" THEN "unstamped" ELSE "epoch"
     IN  I!Admit("stream", epoch, "peer", c.seq, c.content)
  /\ Decided(c, answer')
  /\ UNCHANGED <<mailbox, given, inflight, active, slot, terminal, scopes>>

\* GetOrCreate finds or activates the actor.
Activate(c) ==
  /\ Goto(c, "admitted", "ready")
  /\ active' = TRUE
  /\ UNCHANGED <<ingress, mailbox, given, inflight, slot, terminal, reply, scopes>>

\* Mutant: the admission is dropped when the actor cannot be activated.
ActivationFailsBare(c) ==
  /\ ~active
  /\ Goto(c, "admitted", "leaving")
  /\ Return(c, "lost")
  /\ UNCHANGED <<ingress, mailbox, given, inflight, active, slot, terminal, scopes>>

\* The factory throws or returns null, or the service is at max_actors.
ActivationFails(c) ==
  /\ ~active
  /\ Goto(c, "admitted", "settling")
  /\ Finish(c, "lost")
  /\ UNCHANGED <<ingress, mailbox, given, inflight, active, slot, reply, scopes>>
-----------------------------------------------------------------------------
(* Through the mailbox.                                                    *)

\* Inside WaitWithCallback: TryEnqueue accepts the task.
Enqueue(c) ==
  /\ Goto(c, "ready", "waiting")
  /\ M!EnqueueBehind(c) \/ \E d \in Coroutines : M!EnqueueFirst(c, d)
  /\ UNCHANGED <<ingress, given, inflight, active, slot, terminal, reply, scopes>>

\* TryEnqueue refuses: the call notifies itself with the error in its slot.
EnqueueFails(c) ==
  /\ Goto(c, "ready", "waiting")
  /\ M!EnqueueUnavailable(c) \/ M!EnqueueRefused(c)
  /\ slot' = [slot EXCEPT ![c] = "lost"]
  /\ UNCHANGED <<ingress, given, inflight, active, terminal, reply, scopes>>

\* No waiter, no coroutine context or no runtime: the callback never runs.
WaitRefused(c) ==
  /\ Goto(c, "ready", "settling")
  /\ Finish(c, "lost")
  /\ UNCHANGED <<ingress, mailbox, given, inflight, active, slot, reply, scopes>>

DrainStep(d) ==
  /\ \/ M!DrainTake(d) /\ Bound(d, task'[d])
     \/ M!DrainStop(d) /\ UNCHANGED scopes
  /\ UNCHANGED <<ingress, given, pc, inflight, active, slot, terminal, reply>>

\* The handler of the task returns a result and notifies the waiter, whether or
\* not the call still waits; a handler that throws is an error of its own.  The
\* task dies before the notification when the request scope or the copy of the
\* result cannot be allocated.
HandlerEnds(d) ==
  /\ M!TaskEnds(d)
  /\ \E r \in HandlerResults \cup {"none"} : slot' = [slot EXCEPT ![task[d]] = r]
  /\ Unbound(d)
  /\ UNCHANGED <<ingress, given, pc, inflight, active, terminal, reply>>

Notified(c) ==
  /\ slot[c] # "none"
  /\ Goto(c, "waiting", "settling")
  /\ Finish(c, slot[c])
  /\ UNCHANGED <<ingress, mailbox, given, inflight, active, slot, reply, scopes>>

\* Mutant: the deadline covers the time in the queue only.
WaitInterruptedQueued(c) ==
  /\ \E i \in 1..Len(queue) : queue[i] = c
  /\ Goto(c, "waiting", "settling")
  /\ Finish(c, "lost")
  /\ UNCHANGED <<ingress, mailbox, given, inflight, active, slot, reply, scopes>>

\* Deadline, cancellation or a stopped runtime; the task stays in the mailbox.
WaitInterrupted(c) ==
  /\ Goto(c, "waiting", "settling")
  /\ Finish(c, "lost")
  /\ UNCHANGED <<ingress, mailbox, given, inflight, active, slot, reply, scopes>>
-----------------------------------------------------------------------------
(* The concurrent service.                                                 *)

\* The handler runs in the coroutine of the call, under no deadline.
RunInline(c) ==
  /\ form[c] = "inline"
  /\ Goto(c, "gate", "inline") /\ Bound(c, c)
  /\ UNCHANGED <<ingress, mailbox, given, inflight, active, slot, terminal, reply>>

\* It returns, and what it returned or threw is the answer.
InlineEnds(c) ==
  /\ Goto(c, "inline", "leaving") /\ Unbound(c)
  /\ \E r \in HandlerResults : Return(c, r)
  /\ UNCHANGED <<ingress, mailbox, given, inflight, active, slot, terminal>>
-----------------------------------------------------------------------------
(* Back to the caller.                                                     *)

\* Mutant: only the reply that is cached is made safe.
FirstAnswerRaw(c) == terminal[c]

\* The first answer is the terminal reply that is given to Complete.
FirstAnswer(c) == Safe(terminal[c])

Settle(c) ==
  /\ Goto(c, "settling", "leaving")
  /\ \/ ordered /\ I!Complete(Ticket(c), Safe(terminal[c])) /\ Return(c, FirstAnswer(c))
     \/ ordered /\ I!CompleteRejected(Ticket(c)) /\ Return(c, "Unknown")
     \/ ~ordered /\ Return(c, FirstAnswer(c)) /\ UNCHANGED ingress
  /\ UNCHANGED <<mailbox, given, inflight, active, slot, terminal, scopes>>

\* Whatever Dispatch returned, the bridge lets no unsafe error out.
Bridged(o) == Safe(o)

\* The guard counts down on every way out, and the bridge replies.
Leave(c) ==
  /\ Goto(c, "leaving", "done")
  /\ inflight' = [inflight EXCEPT ![ServiceOf(c)] = @ - 1]
  /\ Return(c, Bridged(reply[c]))
  /\ UNCHANGED <<ingress, mailbox, given, active, slot, terminal, scopes>>

Serve(c) ==
  \/ Expire(c) \/ KeyFails(c) \/ SkipAdmit(c) \/ AdmitCall(c) \/ RunInline(c)
  \/ Activate(c) \/ ActivationFails(c)
  \/ Enqueue(c) \/ EnqueueFails(c) \/ WaitRefused(c)
  \/ Notified(c) \/ WaitInterrupted(c)
  \/ Settle(c) \/ Leave(c)

Next ==
  \/ \E c \in Calls : RefuseRequest(c) \/ RefuseEnvelope(c) \/ Arrive(c) \/ Serve(c) \/ InlineEnds(c)
  \/ \E d \in Coroutines : DrainStep(d) \/ HandlerEnds(d)

\* The coroutine of a call is scheduled and its deadline comes.  A handler may
\* hang, so neither the mailbox nor a handler owes a step.
Fairness == \A c \in Calls : WF_vars(Serve(c))

Spec == Init /\ [][Next]_vars
FairSpec == Spec /\ Fairness
-----------------------------------------------------------------------------
(* Properties.                                                             *)

Places == {"new", "gate", "inline", "admitted", "ready", "waiting", "settling", "leaving", "done"}
Refusals == {"Headless", "Invalid", "NotFound", "TypeMismatch", "Overloaded", "Late", "Keyless",
             "Gap", "InProgress", "Conflict", "Expired", "Rejected", "Unknown"}

TypeOK ==
  /\ pc \in [Calls -> Places]
  /\ form \in [Calls -> Forms] /\ ordered \in BOOLEAN
  /\ inflight \in [Services -> 0..Cardinality(Calls)]
  /\ active \in BOOLEAN
  /\ slot \in [Calls -> Outcomes \cup {"none"}]
  /\ terminal \in [Calls -> Outcomes \cup {"none"}]
  /\ reply \in [Calls -> Outcomes \cup Refusals \cup {"none"}]
  /\ I!TypeOK /\ M!TypeOK

Inside(c) == pc[c] \in {"gate", "inline", "admitted", "ready", "waiting", "settling"}

\* No more than max_inflight calls of a service are past its gate, every path
\* out gives its place back to the service it was taken from, and a call is
\* turned away only while the counter is used up by calls that are inside or on
\* their way out (Dispatch, InflightGuard).
ServiceLimit ==
  /\ TypeOK
  /\ \A v \in Services :
       LET here == {c \in Calls : ServiceOf(c) = v}
       IN  /\ Cardinality({c \in here : Inside(c)}) <= MaxInflight
           /\ inflight[v] = Cardinality({c \in here : Inside(c) \/ pc[c] = "leaving"})

Starts(n) == {i \in 1..Len(started) : started[i].seq = n}

\* A sequence of an ordered service reaches a handler at most once, with the
\* content that was admitted for it, whatever is retried while the first call is
\* queued, running, timed out or forgotten by the cache (Dispatch, Admit,
\* _Drain).  Without ordered ingress only each call runs at most once.  A
\* handler finds the context of its own request, and none stays bound to the
\* coroutine behind it (RequestScope).
HandlerRunsOnce ==
  /\ \A i, j \in 1..Len(started) : started[i] = started[j] => i = j
  /\ ordered => \A n \in 1..MaxSeq :
       /\ Cardinality(Starts(n)) <= 1
       /\ \A i \in Starts(n) : n <= Len(log["stream"]) /\ started[i].content = log["stream"][n]
  /\ \A d \in Coroutines :
       IF task[d] = NoTask THEN scopes[d] = <<>> ELSE CurrentRequest(d) = task[d]

\* Callers that repeat one ordered request are told the same: two terminal
\* answers for a sequence are equal although the handler may finish after the first caller
\* was told otherwise, each is the reply the sequence was completed with, and
\* Complete never finds the admission of a call finished by somebody else.  No
\* unsafe error leaves the process (ValidateErrorAtBoundary).
AnswersAgree ==
  \A c \in Calls :
    /\ reply[c] # "Unknown" /\ (pc[c] = "done" => reply[c] # "unsafe")
    /\ ordered /\ ServiceOf(c) = "actor" /\ reply[c] \in Outcomes =>
         /\ c.seq \in DOMAIN outcome["stream"]
         /\ reply[c] = outcome["stream"][c.seq].outcome
         /\ reply[c] = "own" =>
              \E d \in Calls : d.seq = c.seq /\ d.content = c.content /\ slot[d] = "own"

\* Every admitted sequence gets its terminal reply, though its actor cannot be
\* activated, its mailbox is full, its handler throws or never returns: a
\* retry cannot be told InProgress for ever.
SequenceSettles == \A n \in 1..MaxSeq :
  (<<"stream", n>> \in DOMAIN inFlight) ~> (n \in DOMAIN outcome["stream"])

\* Every call that arrived returns to its caller and gives up its place, though
\* the handler of its actor hangs; only the handler that runs in the coroutine
\* of the call itself can hold it back.
EveryCallAnswered == \A c \in Calls :
  (pc[c] \notin {"new", "inline"})
    ~> (pc[c] = "inline" \/ (pc[c] = "done" /\ reply[c] # "none"))

\* The handlers of one producer stream start in the order of its sequence ("the
\* contract promises the order within one producer stream", OrderedIngress.hpp).
StreamOrderKept ==
  \A i, j \in 1..Len(started) : i < j => started[i].seq < started[j].seq
=============================================================================
