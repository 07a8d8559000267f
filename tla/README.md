# bbt-framework: TLA+ models, checks and proofs

bbt-framework hosts services on a coroutine runtime: calls come in over HTTP/RPC,
are dispatched to service instances or to *actors* (one instance per key, one
handler at a time), optionally in the order their producer numbered them, and the
host is shut down behind the handlers that still run. The code
that decides this is in `framework/src/actor`, `framework/src/host` and, for discovery,
`examples/ecommerce_cluster`; line numbers below are those of the file named.

Everything runs from this directory: `tlc -config X.cfg M` checks a run of the
table below, `tlapm M.tla` checks the proofs of a module. `PROJECT.json` links each
definition to the lines it models, each property to a plausible bug that breaks it,
and lists the hazards the properties are for.

## Inventory

| component | state | operations | interacts with | what makes it correct |
|---|---|---|---|---|
| **OrderedIngress** (`actor/OrderedIngress.cc`) | grants, per stream next sequence, in-flight and cached sequences; a cache of terminal replies shared by all streams | `GrantStream`, `Admit`, `Complete`, observers; all under one mutex | called by the dispatcher; grants come through `CoApp::grant_ordered_stream` | a sequence executes once, a duplicate gets its own request's reply or the truth about it, limits hold, a session switch leaves nothing behind |
| **ActorMailbox** (`actor/ActorMailbox.cc`) | queue, `m_draining`, `m_closed` | `TryEnqueue`, `Close`, the drain coroutine | dispatcher enqueues; the coroutine scheduler runs the drain | one handler at a time, order of acceptance, nothing lost between stop and restart of the drain |
| **ActorRegistry** (`actor/ActorRegistry.cc`) | instances by service and key, live counts | `GetOrCreate` | dispatcher | one instance per key, never more than `max_actors` |
| **InboundDispatcher** (`host/InboundDispatcher.cc`) | per service: inflight counter, mailboxes; per call: context, slot, waiter | `Dispatch` | ingress, registry, mailbox, infra's calls | every call returns, an admitted sequence settles, one answer per sequence, limit of calls |
| **HostLifecycle** (`host/HostLifecycle.cc`) | phase, request flag, failures, budget flag | `Run`, `RequestShutdown` | drives the network host and the hooks of CoApp | fixed closing sequence, `on_handlers_drained` only behind a proven drain, honest exit code, it ends |
| **InfraHttpHost** (`host/InfraHttpHost.cc`) | handler gate (open, inflight, close reason), servers, engines | `Create`, `Start`, `StopAccepting`, `WaitHandlersDone`, `Close` | infra servers call the gate, the lifecycle and outside owners close it | no handler after the gate closed, close interrupts a wait |
| **OrderedSession** (`actor/OrderedSession.cc`) | registry of sessions, tickets, watermark | `Open`, `prepare`, `BindForSend` | outgoing calls stamp requests | consecutive sequences, no send over an unsent ticket, no wrap, sessions shared |
| **CoApp / AppRuntimeState** (`host/CoApp.cc`, `AppRuntimeState.cc`) | services, resources, grants, the single run, the published lifecycle and dispatcher | registration, `run`, `request_shutdown`, `shutdown_state` | owns all of the above | one run in a process, registration closes before the run, every started resource closed once, the shown state never goes back |
| **DynamicRouteTable** (`host/DynamicRouteTable.cc`) | snapshots with their age, cursor | `Replace`, `Resolve`, `MarkUnavailable`, `HasService` | discovery writes, outgoing calls read | no stale or withdrawn endpoint is used, load is even |
| **Consul discovery** (`examples/ecommerce_cluster/discovery.cc`) | own registration, a watcher per service, the stop flag | `Create`, `Start`, `RegisterSelf`, `DeregisterSelf`, `Close`; the watchers | Consul agent, route table | behind `Close` no watcher is left and its services resolve nowhere |
| **Outgoing calls** (`CoServiceCall.cc`, `CallOptionsAdapter.cc`, `AppRuntimeState.cc`) | a call: budget, sequence, route, policy | send and await | session, route table, egress | what a caller is told stays true |
| **Wire bridges** (`RpcHttpBridge.cc`, `HttpEgress`) | profile, the TCP client made on demand | inbound and outbound conversion | infra servers and clients, dispatcher | one client, no unsafe error leaves |
| **Request scope** | contexts bound to a coroutine | bind, look up, unbind | dispatcher, handlers | a handler finds its own request |
| **Resources** (`RedisNetResource.hpp`, MongoDB) | engine thread, sealed flag | `Create`, `Close`, commands | CoApp, handlers | no engine outlives its resource |
| **v2 App / Registry** (`host/App.cc`, `Registry.cc`, `Object.cc`) | objects, bindings, borrows, gates, observers | install, start, stop, uninstall, bind, borrow, observe | user hooks and observers call back | one `Stop` or `Uninstall` on an object at a time, no service closed while it borrows, nothing uninstalled while borrowed, no wait on oneself |
| method table, service options, policies | fixed tables | look-ups, validation | dispatcher, outgoing calls | no state machine of their own |

Hard behaviour: threads and coroutines that meet between two critical sections
(admission and mailbox; notification and sleep; two places where a close is
published), retries and deadlines that race a running handler, a shared cache that
forgets, session switches, partial failure after a sequence is consumed.
Nothing is persisted, so there is no crash recovery.

## Modules

| module | models | state and actions |
|---|---|---|
| `OrderedLog` | abstract: what an ordered entry point promises | a log and the terminal outcome of each of its positions; append, finish once, answer truthfully |
| `OrderedIngress` | `OrderedIngress.cc` | `grants_` = `grants`; `streams_` split into `next` (0 = no entry), `inFlight`, `cachedSeqs`; `cached_`, `cached_order_`, `cached_bytes_`. Each public operation holds the mutex and is one action (or one action per outcome). `issued` are admissions callers still hold; `log` and `outcome` are histories that restart with a session |
| `SerialServer` | abstract: what an actor promises | waiting tasks and the one being executed |
| `ActorMailbox` | `ActorMailbox.cc` | queue and flags; each drain coroutine is before the lock (`loop`) or in a handler (`task`). Registration may fail; several coroutines are possible in principle and the invariant has to exclude them |
| `HostLifecycle` | `HostLifecycle.cc` with the start-up and the gate of `InfraHttpHost.cc` | start-up in its order (hook, create, engines, start), each of which may fail; a program counter of the control thread with a step between any two accesses to shared state; `_Close` publishes its reason in two steps as the code does; a supervisor, an owner and handlers as further threads |
| `CoApp` (extends the two modules beside it) | `CoApp.cc`, `AppRuntimeState.cc` around one `HostLifecycle` | registration, runners inside `run` (`stage`), the pointer to the lifecycle (`published`) behind `m_lifecycle_mtx` (`reader`), resources (`specs`, `shut`, `visible`), the dispatcher (`bound`) that handlers take |
| `RedisNetResource` | resources with an engine of their own | `engine` and who set `m_closed`; create, close by `run`, close by a handler in two steps |
| `InboundDispatch` | `InboundDispatcher::Dispatch` for an actor service, ordered or not, and a concurrent one; the bridges and the request scope around it | instances of `OrderedIngress` and `ActorMailbox` with a program counter per call: envelope, count, gate, admit, activate, enqueue and wait, settle, leave; `form` is what the envelope of a call says; `Safe` is the error boundary |
| `OrderedSession` | `OrderedSession.cc` | the registry of weak pointers and its `mutex`, sessions by instance number, `held` and `temp` owners; `Open` and the destructor step by step |
| `DynamicRouteTable` | `DynamicRouteTable.cc` | list, age and cursor of each published service |
| `ConsulDiscovery` (extends it) | `discovery.cc` | the owner's call (`call`), the watchers (`loop`), what the agent holds |
| `HttpEgress` | the outgoing half of `RpcHttpBridge.cc` | profile and client |
| `OrderedDelivery` | an ordered call between two processes: `CoServiceCall.cc`, `CallOptionsAdapter.cc` and the modules above, a network, and an instance of `OrderedIngress` as the receiver | programs of threads; a call is bound, routed, sent and awaited step by step |
| `ObjectRegistry` | `Registry.cc` | objects with state, gate, operation flag, borrows, hooks in flight; bindings with their generations; observers with their events |
| `ObjectApp` (extends it) | `App.cc` | programs of coroutines that give up `m_mtx` between two critical sections; hook coroutines; code that borrows |
| `MCOrderedIngress`, `MCInboundDispatch`, `MCObjectApp`, `MCOrderedDelivery` | - | values of constants for TLC |
| `Thinning` | the loops over a vector that erase on their way | one operator, shared by the ingress and the registry of sessions |
| `ActorMailboxProofs`, `OrderedIngressProofs`, `HostLifecycleProofs`, `CoAppProofs`, `InboundDispatchProofs`, `OrderedDeliveryProofs`, `ObjectAppProofs` | - | theorems, each module about the one it is named after |
| `FiniteSums` | - | lemmas about `SumFunctionOnSet`, for the byte count of the ingress and the borrow counts of the registry, and the induction they rest on, which `OrderedDeliveryProofs` uses for lists |

Abstractions, by module.

- *Ingress and dispatch.* Request id and digest are compared together everywhere and
  are one value; a reply is the request it was made for and an outcome with a size. In
  `OrderedIngress` a grant's actor key, producer and producer epoch are one stream.
  `InboundDispatch` starts behind the grant of one stream and has one actor, so there
  is no choice of mailbox; what a check of the envelope finds is the call's `form`.
  That service options fit together is an assumption the runs evaluate
  (`ValidateServiceOptions`). The coroutine runtime is external: a wait ends by
  notification, deadline, cancellation or is refused.
- *Host and CoApp.* The server behind the gate is external: its drain succeeds, uses up
  a finite budget, reports the reason it was closed for, or fails. A refused second `run`
  changes nothing. All resources can be closed; the checks of the configuration are one
  nondeterministic outcome; the lists of failures are whether there are any. A critical
  section of `m_mtx` is one step. `Close` of a resource by `run`, from the flag to the
  join, is one step, by a handler two.
- *Sending side.* A session is the number of its instance. `network` and `replies` keep
  whatever was ever sent; `results` keeps only answers that tell the fate of a request.
  Revisions of a view, Consul indices and the last error decide nothing and are left
  out; `observed_at` is an age in ticks. One thread owns the discovery component and
  makes one call at a time; `Close` reaches the deadline of its wait for the watchers
  only when they have ended, because a query is shorter. The capability check of the
  route is always satisfied. Clients are numbers; the HTTP client of the host is always there.
- *Objects.* Ids are never used again, and so name generations; bindings are one set of
  edges; objects that could be started in either order are started in either. A hook's
  count and its slot are settled in one step; `Bind` and `Uninstall` validate their
  owner and find their target in one step. Hooks that call back into the App, the check
  for a coroutine context and the ring of failures are left out.

Undefined behaviour. `_EvictToLimits` hands `_RemoveCached` a reference to the
front of `cached_order_`, which is erased before the key is read again; whether the
stream's `cached_seqs` loses the sequence is a nondeterministic choice in
`EvictToLimits`. `OrderedSession::Open` may drop the last owner of a session while it
holds `s_registry_mtx`, which the destructor locks again; a thread that locks the
`std::mutex` it owns is modelled as blocked for ever (`LockedItself`).

## Runs

| run | what it shows | bounds |
|---|---|---|
| `ordered_sealed` | inside CoApp (grants precede calls) the ingress implements `OrderedLog`; replies are the request's own and passed the error boundary; eviction is oldest first and only under pressure | 2 streams and room for 1, 3 sequences with a cache of 2 and 3 bytes; replies of 0, 2 and 4 bytes and one invalid error, so that count, bytes and the oversized reply all bite; requests and peers symmetric |
| `ordered_sessions` | one session per stream, a sequence names one execution, one fate per sequence, cache in step and within limits, nothing consumed twice, while sessions are switched at will and old admissions are completed late | 3 streams and room for 2, 2 receiver epochs that alternate, 2 sequences, a shared cache of 2: revocation meets a cache holding two streams; streams and epochs symmetric |
| `ordered_seqs` | **violated**: `cached_seqs` may name a reply that was evicted | 1 stream, cache of 1 |
| `mailbox` | one drain, no orphan, order of acceptance, accepted tasks run after `Close` too; implements `SerialServer` with its liveness | 4 tasks, capacity 2, 2 coroutines (a second one is free to start, and never can) |
| `host_shutdown` | one run in a process; `on_handlers_drained` runs only behind a proven drain, so resources are closed under a handler only behind an outside `Close`, and once whatever fails; release behind close, honest exit code, the shown state never goes back, `run` returns | 2 handlers, 2 runners and another application, 1 resource added ready and 1 made by a factory with an engine, 1 service with a grant, every failure of start-up, hooks and server, one outside `Close` |
| `host_wakeup` | **violated**: a notified shutdown request can be lost | 1 handler |
| `host_park` | **violated**: an outside `Close` can park the control thread | 2 handlers, a server that never fails by itself |
| `dispatch_retries` | a sequence reaches a handler once and in its own request scope; all callers of a sequence get one answer; sequences settle; every call returns and gives its place back | 3 calls (a retry and a pipelined sequence), room for 2, mailbox of 1, cache of 1: overload, full mailbox, eviction and late handlers all occur; eight scenarios mix them with refused envelopes, missing keys and stamps, the concurrent service at its limit and an actor without ordered ingress |
| `dispatch_order` | **violated**: handlers of one stream may start out of order | the same calls, room for all |
| `objects` | counters, flags and edges stay true; one `Stop` or `Uninstall` on an object at a time; no service is closed while it borrows and no component uninstalled while borrowed; no service leaves an edge behind, no cycle; no callback after its revocation; every call returns unless its own inline hook does not | 2 coroutines in ten scenarios (install, bind and unbind beside uninstall, start and stop beside installation, pause, dependencies, observers, declared bindings, owned components, the shutdown request), 3 objects, 2 bindings, 1 observer, 2 borrows |
| `observer_erase` | **violated**: the record of an observer is erased while its callback runs | 3 coroutines, 4 objects, 1 observer |
| `delivery` | a ticket executes once, in its place and with its content; answers stay true; sessions come and go with one sender each; routes follow the provider; every operation that has begun returns, unless a thread has locked itself | 2 threads in six programs (pipelining, reopening, sessions that come and go, routing, discovery, registration) over the three profiles, sequence space of 2, 3 endpoints of which 2 reach the receiver, two views, answers of the agent bounded by 2, cache of 1, views stale after 1 tick |

Six more configurations each state a comment of the code as an invariant or a temporal property
that TLC finds violated. They are small and separate from the runs above:

| configuration | module | claim | bounds |
|---|---|---|---|
| `HostResources.cfg` | `CoApp` | `ResourcesCloseDrained`: resources are closed behind the drain of the handlers | 1 handler, 1 resource added ready and 1 made by a factory, 1 service |
| `ObjectAppExclusive.cfg` | `MCObjectApp` | `OneControlOperation`: all control operations on an object exclude each other | 2 coroutines: an installation beside a stop |
| `ObjectAppHooks.cfg` | `MCObjectApp` | `HooksDoNotOverlap`: a hook waits for the one before it | 2 coroutines: transitions beside an uninstall |
| `OrderedDeliveryLocks.cfg` | `MCOrderedDelivery` | `DestructionReleases`: a session that ends releases the place of its grant | 2 threads, 2 streams |
| `OrderedDeliveryFailures.cfg` | `MCOrderedDelivery` | `FailuresKeepSequence`: a call that fails uses no sequence up | 1 call |
| `OrderedDeliveryClose.cfg` | `MCOrderedDelivery` | `ClosedResolvesNothing`: behind `Close` the watched services resolve nowhere | 1 watcher, the other bounds as in `delivery` |

Larger constants add no new case: keys meet in pairs, every limit is reached with
one more element than fits, and each race needs at most two threads and one call.
`MaxSeq`, `MaxAnswers`, `MaxObjects`, `MaxBindings`, `MaxObservers` and
`MaxBorrows` are bounds of the models only; the actions that count towards them stop
there. `LastSeq` stands for the end of the 64-bit sequence space, which the code handles. Where callers may stop calling, deadlock is not checked; in the runs
of `ObjectApp` it is.

**Fairness.**

- `mailbox`: a registered drain coroutine is run (the scheduler's promise), and handlers end.
- `dispatch_retries`: handlers of actors need not end; only the coroutine of a call is
  scheduled and its deadline comes, so that the deadlines alone have to settle every
  sequence. The handler of a concurrent service runs in the coroutine of the call and
  owes nothing, and `EveryCallAnswered` excepts it.
- `host_wakeup` and `host_shutdown`: the control thread, runners inside `run`, an owner
  inside `Close` and a supervisor inside `RequestShutdown` are running threads; handlers
  end; an engine that is asked to stop does. Nobody has to call anything, and no
  spurious wake-up is promised: that is why `RequestIsHeard` fails.
- `objects`: each coroutine keeps running and its waits have finite deadlines, so borrowers
  and hooks that run in a coroutine of their own owe nothing. `OnInstall`,
  `OnUninstall` and `OnBindingChanged` run in the caller without a deadline (`App.cc` 621,
  701, 1177, 1336, 1499, 1666-1685, 1759-1785): no fairness makes them end (`InlineHook`), and
  `OperationsReturn` says that one that does not keeps its own call and no other.
  Callbacks of observers are assumed to end, since a revocation waits for them without a
  deadline. The deadline of `CoWaitShutdownRequest` is the caller's to give, so the wait may
  end at any time and need not while nobody has requested (`AwaitsRequest`).
- `delivery`: a thread inside an operation keeps running, calls have deadlines, watchers
  run and their queries end. Network and receiver promise nothing.

### What the violated runs and configurations say

1. `host_wakeup`: `RequestShutdown` (243-246) notifies without the mutex; between
   the false predicate and the sleep nobody hears it. The comment at 83-84
   says that no wake-up is lost.
2. `host_park`: `InfraHttpHost::_Close` (316-325) gives the reason to the waiters
   first and to `CloseReason()` second. A control thread woken in between sees an
   error without a reason, twice, and parks; `HostLifecycle.hpp` 21-22 says it does not.
3. `dispatch_order`: `Admit` (241) and `TryEnqueue` (329) are separate critical
   sections; `OrderedIngress.hpp` 161-162 promises the order within a stream.
4. `ordered_seqs`: `OrderedIngress.cc` 245-276 as described above;
   `OrderedIngress.hpp` 192-193 says `cached_seqs` is kept in step.
5. `observer_erase`: `DrainInactiveObservers` (`Registry.cc` 392-419) waits for the
   observers revoked so far and then erases all that are revoked by then;
   `Registry.hpp` 132-133 says a record is not erased while its callback runs.
6. `HostResources.cfg`: `on_release` (`CoApp.cc` 163-166) closes resources on every way out, also
   when a `Close` has cut the drain short and handlers still run. The repository's README
   (38-39) has them closed behind the drain, and `HostLifecycle.hpp` 22-23 gives handlers
   that may still borrow as the reason not to run `on_handlers_drained` then.
7. `ObjectAppExclusive.cfg`: only `Stop` and `Uninstall` take `op_in_progress`; `Install` and
   `Start` (and `Bind`, `Unbind`) neither set nor test it. `Registry.hpp` 16-17 and 160-161
   say that all of them exclude each other and get `Busy`.
8. `ObjectAppHooks.cfg`: `_RunServiceHookCo` waits for the hooks of an object (`App.cc` 735) and
   counts its own in another critical section (745). Two operations behind the same wait
   both start their hook, `OnStart` and `OnStop` of one service say, which 733-734 rules out.
9. `OrderedDeliveryLocks.cfg`: `OpenImpl` (`OrderedSession.cc` 74-89) may drop the last owner of a session
   while it holds `s_registry_mtx`, which the destructor locks again. The place of the grant is never
   released, against the comment at 50, and every later `Open` waits.
10. `OrderedDeliveryFailures.cfg`: `AdaptCallOptions` consumes the sequence (58) before it asks for route, policy
    and egress (62); `CallOptionsAdapter.hpp` 40 says that no failing path consumes it.
11. `OrderedDeliveryClose.cfg`: a watcher that looked at `m_stop` before `Close` set it publishes behind the
    `MarkUnavailable` of `Close` (`discovery.cc` 336), so that the service goes on resolving to
    the old addresses, which the comment at 335 excludes.

### What else the models show

Behaviour of the code that the models contain and no run counts as a violation.

- After a session was closed and opened again, its requests start at 1 once more and may be
  told `ResultExpired` although they never executed: `Expired` says only that the
  position is taken (`AnswersTellFate`).
- A request before the start shows Closing and then Running again (`StateNeverGoesBack`
  excepts it).
- A second `Close` of a `RedisNetResource` returns before the first has joined the
  engine, against `RedisNetResource.hpp` 166-170.
- When the reply to `Register` is lost, the instance is listed but `DeregisterSelf` does
  nothing.
- A component whose owner is gone can be closed by `Stop` only.
- `_DestroyComponent` (`App.cc` 663-719) leaves the gate open. An `Install` of the
  component that is still under way sets it back from Stopping to Installed and Running
  (1184-1199), also behind the drain; it is lent again, and `OnStop`, `OnUninstall` and
  the removal follow while it is lent, against `framework-contract.md` 704. Its borrow may
  still be counted on the edge of a service when that service is closed, which is why
  `ClosedUnused` speaks of registered components, and of those that are uninstalled.

Found while reading and outside of the models: the App has one slot
for the coroutine that runs a hook (`App.hpp` 409-410), which concurrent hooks overwrite; an
`Unbind` whose wait ends after the pair was bound again erases the new entry of the
table of bound components; a concurrent service with an actor method gets a null
registry (`CoApp.cc` 364-367) that `InboundDispatcher.cc` 294 dereferences;
`EnvelopeFromResponse` throws on a code that is no number.

## Proofs

All theorems hold for every value of the constants that meets the named assumptions,
which the runs evaluate: `LimitsAssumption`, `OutcomeAssumption`, `CapacityAssumption`
and `NoTaskAssumption` (limits of ingress and mailbox), `SwitchAssumption` (whether the
server may fail is yes or no), `EnginedAssumption` (no resource is called `"none"`),
`SizesAssumption` and `CoroutinesAssumption` (limits of the dispatcher; the drain
coroutines of a mailbox are not those of the calls), `SessionAssumption`,
`ReceiverAssumption` and `ProgramsAssumption` (the sequence space is not empty, the
receiver's grant is one that can be opened, programs are sequences of operations),
`WatchAssumption`, `StaleLimitAssumption`, `RouteAssumption` and `ViewsAssumption` (finitely many
services are watched, the limit is a number of ticks, routes and views are made of addresses),
`RegistryLimits` (the limits of `AppOptions` are not zero) and `NobodyIsNoTask` (0, which
stands for no waiting task, is none).
In particular the number of threads, calls, sessions and messages is arbitrary, the
sequence space has any size and replies weigh anything.

**`ActorMailboxProofs`**: `TypeCorrect`, `SingleDrain`, `NothingOrphaned`,
`OrderKept` and `ServesSerially`. None of the properties is inductive alone: the
head of the queue can be taken only because a coroutine is alive, a second
coroutine cannot start only because `m_draining` equals being alive, and a task in a
coroutine's hands has to be a task. The inductive invariant is their conjunction
with the fact that a coroutine has a task exactly while it executes one; every
action is one step of the proof. `ServesSerially` maps each step to a step of
`SerialServer` or a stutter.

**`OrderedIngressProofs`**: `SingleSession`, `ExecutedOnce`, `SingleFate` and the
action property `NeverBack` (a session switch is seen in the grant of its own stream, every
other step leaves or extends what a stream has) for the component alone and `OwnReplies` and `LogRefined` inside CoApp. `IInv` is needed as a
whole: that a new session finds no old cache entry follows from `cached_seqs` naming
every cached reply of a stream; that a completed sequence is not yet cached follows
from one fate per sequence; that an admission consumes a fresh position follows
from the length of the log. `SealedInv` adds that an admission a caller holds names
the request executed at its position, which a session switch would break; this is
the exact place where the rule "grants precede calls" is used. `LogRefined` maps each
answer of `Admit` and `Complete` to a step of `OrderedLog`.

The second half of the module is about the cache: `Typed`, `InSync`, `WithinLimits` and
`EvictsFifo`. `BytesSplit` says what removing keys does to the byte count. `CacheInv` adds to
`CacheInSync` and `CacheWithinLimits` the types of the order; `EvictDoes` reads off
where the loop of `_EvictToLimits` stops, which is what `EvictsFifo` needs.

**`FiniteSums`** has the lemmas about sums. A sum is a fold over a finite set, and its value
cannot be had by induction over an operator, so the lemmas first build the table of the
fold: a function over the subsets of the set that satisfies the equation of the fold
(`TableExists`, by induction over a set of sets), of which any two agree
(`TablesAgree`) and from which any part can be taken off (`TableSplit`). The other modules
cite what follows for `SumFunctionOnSet`: `SumNone`, `SumAgrees`, `SumSplit`,
`SumRemove` and `SumChange`. `BytesSum` says that the bytes of the cache are such a sum.

**`HostLifecycleProofs`**: `ReleasedBehindClose` and `ExitIsTrue`.
The two need to know what the control thread has established at each of its
places: the gate is shut from the first close on (`GateShut`), a drain that
reported success found no handler and none came since (`DrainedOk`), what was
closed stays so (`Settled`), and the phase that is shown belongs to the place (`PhaseKnown`).
An outside `Close` may come at every place, which is why each part names it.

**`CoAppProofs`**: `OneRun`, `ResourcesAreSettled`, `HandlersOutlived` and `StateGoesForward`.
`RunsOneLifecycle` shows that every step of a process is, for its host, a step of
`HostLifecycle` or none, so that the invariants of that module hold inside
the application (`LifecycleInApp`). `HandlersOutlived` adds where `run` closes resources: behind a drain that
succeeded, or in `on_release`, where handlers are left only if a `Close` came. The rest of the invariant follows a runner through its
stages (`RunInv`), says that only the first gets past `m_ran_once` (`OnceInv`), that
what a request saw of the published pointer stays true while it holds the lock
(`ReaderInv`), that services see exactly the started resources and only `run` closes
them (`ResourceInv`, `BoundInv`), and that an engine that runs has somebody who will
join it (`EngineInv`).

**`InboundDispatchProofs`**: `LimitKept`, `RunsOnce` and `TellsTheSame`. The
invariants of the ingress and of the mailbox are taken over by instantiating the modules that prove
them; each call of `Dispatch` into a component is a lemma of its own (`AdmitDoes`,
`CompleteDoes` and their like). What the composition needs is who may act for a sequence:
exactly one call holds it from its admission until it is completed (`HolderInv`), that call
gives its task to the mailbox only while it does (`CallInv`), what is told is
what was completed (`AnswerInv`), a handler's coroutine has its own context bound
(`ScopeInv`), and the counter equals the calls behind the gate (`CountInv`).

**`OrderedDeliveryProofs`**: `OneSender`, `SentOnce`, `ToldTruth` and the action property
`RoutesFollow` for any number of threads, programs and messages. Along the path of a request:

- the registry (`RegistryInv`): who is inside `OpenImpl` holds the mutex (`Owns`), and what it has
  scanned so far has another stream or is dead for good (`ScanOk`): sessions only
  die while it scans. That makes the new session the only one of its stream;
- the tickets: what is bound is exactly what is below the watermark, and no step of
  any thread takes a binding back (`Onward`);
- the threads (`StampInv`, `ThreadInv`): stamps name issued tickets, and past
  `consume_sequence` the request of a call is what its ticket is bound to;
- the wire (`WireInv`): all that was ever sent was bound, and went through one client;
- the receiver (`ReceiverInv`): the invariant of the ingress, and every entry of its
  log is bound at the sender under its own position;
- the answers (`FateInv`): what a reply says is so, and stays so because log,
  outcomes and bindings only grow (`LogOnward`, `FateStays`). A local conflict is
  final because the log can only ever hold the content that is bound.

`RoutesFollow` has an invariant of its own, `RInv`, for any set of services and watchers.
The table holds what the provider said last (`NewsInv`): the list without its repetitions, or
a view that is unavailable, exactly as old as that news is. It is used by turns (`TurnsInv`): read
from the cursor on, the endpoints were used in ascending numbers that differ by one at most. `EvenOn`
moves the endpoint that is used behind all others, which takes that no endpoint is in the view
twice, and `CursorGoes` is the remainder that the cursor is taken by. `OnceKeeps` says
that the view has the addresses of the list, each once: the loop of `Replace` is
a fold over a sequence, so it too is first given its table (`ViewTable`) and then read off
position by position, by the smallest position at which it would fail. The last part is
about the discovery component (`OwnerInv`): `Start` counts every watcher before one
runs, none begins once `Close` was called, and a watcher leaves the count as it ends,
so a count of zero in `Close` leaves none behind (`NoneLeft`).

**`ObjectAppProofs`**: `NoDanglingBinding`, `ClosedUnused`, `OneOperation`,
`DependenciesAcyclic`, `NoLateCallback` and `CountersAgree` for all programs of any number of tasks (`ProgramsAssumption`,
`RegistryLimits`). The App gives up `m_mtx` between two sections of an operation, so
the proof is about what a task may rely on when it comes back. It knows its object by
id only: ids are not used again and an object keeps its kind (`Known`). The
`Stop` or `Uninstall` that works on an object holds its `op_in_progress` (`OpInv`), so nobody else removes it
(`HeldInv`). The bindings of a service that is being destroyed are first all retiring, then all
waited for, then none is borrowed, then there is none (`EdgesInv`), and the gate, which is
never opened again, lets no new one in. A component under uninstall has its gate closed and
no binding to it (`UnusedInv`); leases are those of the bindings (`LeaseInv`); one
transition runs at a time (`LifeInv`); a revoked token stays inactive (`WatchInv`). What a step
leaves to the other tasks is proved once (`TaskKept`) and put together by `Assembled`.
For `DependenciesAcyclic` the invariant is that every set of objects has one that depends on none
of it (`Ordered`). `Reach` is as many levels as there are objects; by then nothing new is reached
(`ReachClosed`), and an edge from outside of such a set into it keeps the order
(`OneMoreOrdered`). A service needs no such look: what is used is always a component.

`CountersAgree` needs an invariant of its own beside `IInv`: `CountInv`, with a part for each
count. The borrows of a component are the sum of the leases of the handles made for it, and a new
handle has a generation nobody holds (`BorrowsInv`). The hooks of an object are the hook coroutines
that run for it and the tasks whose hook was refused and is not taken back yet; a coroutine whose
waiter gave up stays a record of its own, which takes that no two records name the same
task (`HooksInv`, `HookLateCounts`). The callbacks of a subscription are the tasks inside one,
also after its record is gone, because tokens are not used again (`FlightInv`). The limits
hold since every operation that adds looks first, under the same lock (`LimitsInv`). Most steps
touch none of it, which `StepCounts`, `StepHooks`, `StepEdges` and `StepWatches` say once for
each of the four; the few that count have a lemma each.

**Only model-checked.** Liveness: `AcceptedRuns`, `RunReturns`, `SequenceSettles`,
`EveryCallAnswered`, `OperationsReturn` (of `ObjectApp` and of `OrderedDelivery`) and the fairness
of `SerialServer`. ENABLED is out of the provers' reach. Every safety invariant and action property
of the passing runs is proved.

The type invariants of `CoApp`, `InboundDispatch` and `ObjectApp` are conjuncts of
`OneRunInProcess`, `ServiceLimit` and `CountersAgree`.

## Plan

Order of work, most important behaviour first; all are done.

1. `OrderedIngress` with `OrderedLog`; `ActorMailbox` with `SerialServer`.
2. `HostLifecycle` with the gate of the host.
3. `InboundDispatch`, the composition of ingress and mailbox, with the bridges.
4. Theorems of 1, with both refinements.
5. `OrderedSession`, `DynamicRouteTable`, `ConsulDiscovery`, `HttpEgress` and
   `OrderedDelivery`, which composes them with `OrderedIngress`.
6. `CoApp` around `HostLifecycle`, with `RedisNetResource`.
7. `ObjectRegistry` and `ObjectApp` on top of it.
8. Theorems about the cache, `HostLifecycle`, `CoApp`, `InboundDispatch` and `OrderedDelivery`
   (sessions, tickets and answers).
9. Theorems about `ObjectApp`: `NoLateCallback`, `OneOperation`, `NoDanglingBinding`,
   `ClosedUnused`, `DependenciesAcyclic` and `CountersAgree`.
10. Theorem `RoutesFollow` about routes and discovery.

## Not modelled

- Encoding, metadata, sockets, the adapters of the infra library, driver threads of the
  network engines and their joining: pure conversions or I/O.
- The MongoDB resource, which its owner closes synchronously, and the commands of both
  database resources, which are the drivers'.
- Tables fixed at start-up (methods, schemas, policies) beyond the outcomes of their
  look-ups.
- Several actors and mailboxes of one service: they meet only in the count of
  `ActorRegistry`, which holds its mutex throughout.
- Read-only observers and snapshots for inspection; `OpenForTest`; the ring of failures.
