-------------------------------- MODULE CoApp ---------------------------------
(***************************************************************************)
(* An application around one host lifecycle (CoApp.cc): registration, the  *)
(* single run, the lifecycle object that request_shutdown and              *)
(* shutdown_state reach through a pointer into run's frame, the resources  *)
(* that are created, started and closed, and the dispatcher that handlers  *)
(* take from the runtime state (AppRuntimeState.cc).                       *)
(*                                                                         *)
(* Runners are threads that call run.  Another application of the process  *)
(* may hold the single place, g_active_app.  Registration and shutdown     *)
(* requests race with run.  m_mtx is held over each of the critical        *)
(* sections below, which are one step each; m_lifecycle_mtx is explicit.   *)
(***************************************************************************)
EXTENDS HostLifecycle, RedisNetResource

CONSTANTS
  Runners,     \* threads that call run of this application
  Ready,       \* resources that are added as instances
  Factories,   \* resources that are added as factories
  Services     \* services that are added

VARIABLES
  active,       \* g_active_app: "none", "this" or "other"
  ranOnce,      \* m_ran_once
  registering,  \* m_registration_open
  stage,        \* where a runner is inside run
  published,    \* m_lifecycle is set
  parkedState,  \* m_parked_state
  reader,       \* request_shutdown holding m_lifecycle_mtx: "none", "lifecycle", "parked"
  specs,        \* instances of m_resource_specs: "registered", "half", "whole"
  shut,         \* specs whose `closed` is set
  closes,       \* history: how often Close of an instance was called
  visible,      \* m_resources, which services see
  services,     \* m_services; all have ordered_ingress
  granted,      \* services that were granted a stream
  bound,        \* AppRuntimeState: "none", "published", "released"
  dispatching,  \* handlers that took the dispatcher
  joining       \* the resource whose Close a handler is in, "none" else

running == <<active, ranOnce, stage, published, parkedState>>
assembly == <<registering, specs, shut, closes, visible, services, granted, bound>>
appVars == <<running, reader, assembly, engineVars, dispatching, joining>>
allVars == <<vars, appVars>>

Resources == Ready \cup Factories
Known == DOMAIN specs
With(s) == {r \in Known : specs[r] \in s}
SetSpec(r, x) == specs' = [q \in Known \cup {r} |-> IF q = r THEN x ELSE specs[q]]

MembersInit ==
  /\ ranOnce = FALSE /\ registering = TRUE
  /\ published = FALSE /\ parkedState = "Running"
  /\ specs = [r \in {} |-> "whole"] /\ shut = {} /\ visible = {}
  /\ services = {} /\ granted = {}

\* A constructed application has its host, whose handlers keep the runtime state
\* alive; nobody runs it and nothing is bound to the runtime state.
AppInit ==
  /\ Init /\ MembersInit
  /\ active = "none" /\ stage = [c \in Runners |-> "outside"] /\ reader = "none"
  /\ closes = [r \in Resources |-> 0]
  /\ bound = "none" /\ dispatching = {}
  /\ EngineInit /\ joining = [h \in Handlers |-> "none"]
-----------------------------------------------------------------------------
(* Registration, which is closed by the first run.                         *)

\* An instance is visible at once, a factory after its start.
AddResource(r) ==
  /\ registering /\ r \notin Known
  /\ SetSpec(r, IF r \in Ready THEN "whole" ELSE "registered")
  /\ visible' = visible \cup (Ready \cap {r})
  /\ UNCHANGED <<vars, running, registering, shut, closes, services, granted, bound, reader,
                 engineVars, dispatching, joining>>

AddService(s) ==
  /\ registering /\ s \notin services
  /\ services' = services \cup {s}
  /\ UNCHANGED <<vars, running, registering, specs, shut, closes, visible, granted, bound,
                 reader, engineVars, dispatching, joining>>

\* The first grant makes the OrderedIngress that _BindServices would make later.
GrantOrderedStream(s) ==
  /\ registering /\ s \in services
  /\ granted' = granted \cup {s}
  /\ UNCHANGED <<vars, running, registering, specs, shut, closes, visible, services, bound,
                 reader, engineVars, dispatching, joining>>
-----------------------------------------------------------------------------
(* run.                                                                    *)

Step(c, from, to) == stage[c] = from /\ stage' = [stage EXCEPT ![c] = to]
Aside == UNCHANGED <<reader, dispatching, joining>>
Rest == Aside /\ UNCHANGED engineVars

\* One application runs at a time in a process; a call that is refused for it
\* changes nothing.
RunEnters(c) ==
  /\ active = "none" /\ active' = "this" /\ Step(c, "outside", "entered")
  /\ UNCHANGED <<vars, ranOnce, published, parkedState, assembly>> /\ Rest

\* The first run closes the registration, a second one is refused.
RunOnce(c) ==
  /\ IF ranOnce
     THEN Step(c, "entered", "outside") /\ active' = "none" /\ UNCHANGED registering
     ELSE Step(c, "entered", "validating") /\ registering' = FALSE /\ UNCHANGED active
  /\ ranOnce' = TRUE
  /\ UNCHANGED <<vars, published, parkedState, specs, shut, closes, visible, services, granted,
                 bound>>
  /\ Rest

\* The configuration is refused before anything starts ...
ConfigRejected(c) ==
  /\ Step(c, "validating", "outside") /\ active' = "none"
  /\ UNCHANGED <<vars, ranOnce, published, parkedState, assembly>> /\ Rest

\* ... or the lifecycle object is published.
Publishes(c) ==
  /\ Step(c, "validating", "inside") /\ reader = "none"
  /\ published' = TRUE
  /\ UNCHANGED <<vars, active, ranOnce, parkedState, assembly>> /\ Rest

\* What State() of the lifecycle makes of m_phase.
Shown(p) ==
  CASE p \in {"Closed", "Failed"} -> "Closed"
    [] p \in {"Closing", "ShutdownIncomplete"} -> p
    [] OTHER -> "Running"

ParksState(c) ==
  /\ Step(c, "inside", "parking") /\ pc = "done"
  /\ parkedState' = Shown(phase)
  /\ UNCHANGED <<vars, active, ranOnce, published, assembly>> /\ Rest

\* Mutant: the guard does not take m_lifecycle_mtx.
RevokesUnlocked(c) ==
  /\ Step(c, "parking", "leaving")
  /\ published' = FALSE
  /\ UNCHANGED <<vars, active, ranOnce, parkedState, assembly>> /\ Rest

\* revoke_publish waits for readers; then the lifecycle object is destroyed.
Revokes(c) ==
  /\ Step(c, "parking", "leaving") /\ reader = "none"
  /\ published' = FALSE
  /\ UNCHANGED <<vars, active, ranOnce, parkedState, assembly>> /\ Rest

Returns(c) ==
  /\ Step(c, "leaving", "returned") /\ active' = "none"
  /\ UNCHANGED <<vars, ranOnce, published, parkedState, assembly>> /\ Rest

OtherRuns ==
  /\ active' = CASE active = "none" -> "other" [] active = "other" -> "none" [] OTHER -> "this"
  /\ active' # active
  /\ UNCHANGED <<vars, ranOnce, stage, published, parkedState, assembly>> /\ Rest

Run(c) ==
  \/ RunEnters(c) \/ RunOnce(c) \/ ConfigRejected(c) \/ Publishes(c)
  \/ ParksState(c) \/ Revokes(c) \/ Returns(c)
-----------------------------------------------------------------------------
(* The hooks of the lifecycle.                                             *)

Inside == \E c \in Runners : stage[c] = "inside"
Assembled == UNCHANGED <<running, registering, closes, shut, services, granted>> /\ Aside

\* _StartResources, in any order: Create and Start of one factory succeed ...
ResourceStarts(r) ==
  /\ Inside /\ pc = "hook" /\ r \in With({"registered"})
  /\ SetSpec(r, "whole") /\ visible' = visible \cup {r} /\ EngineCreated(r)
  /\ UNCHANGED <<vars, bound>> /\ Assembled

\* Mutant: the instance is entered before it is started.
ResourceFailsVisibly(r) ==
  /\ Inside /\ pc = "hook" /\ r \in With({"registered"})
  /\ SetSpec(r, "half") /\ visible' = visible \cup {r} /\ EngineCreated(r)
  /\ StartFails /\ UNCHANGED bound /\ Assembled

\* ... or Create fails, or Start, which leaves an instance to be closed.
ResourceFails(r) ==
  /\ Inside /\ pc = "hook" /\ r \in With({"registered"})
  /\ \/ SetSpec(r, "registered") /\ UNCHANGED engineVars
     \/ SetSpec(r, "half") /\ EngineCreated(r)
  /\ StartFails /\ UNCHANGED <<visible, bound>> /\ Assembled

\* _BindServices publishes the dispatcher last; a failure publishes nothing.
BindsServices ==
  /\ Inside /\ pc = "hook" /\ With({"registered"}) = {}
  /\ \/ HookEnds /\ bound' = "published"
     \/ StartFails /\ services # {} /\ UNCHANGED bound
  /\ UNCHANGED <<specs, visible, engineVars>> /\ Assembled

HostSteps ==
  /\ Inside
  /\ \/ RunStarts
     \/ HostCreates \/ EnginesRun \/ HostStarts
     \/ pc # "hook" /\ StartFails
     \/ CheckRequest \/ FallAsleep \/ BeginShutdown \/ StopAccepting
     \/ \E w \in Entries : EnterWait(w)
     \/ \E w \in Waits : WaitEnds(w) \/ HandlersGone(w)
     \/ \E w \in Servers : ServerDrains(w)
     \/ JudgeFirst \/ JudgeAgain \/ HostCloses
  /\ UNCHANGED appVars

\* The instances that _CloseResources has still to close.
Unclosed == With({"half", "whole"}) \ shut

CloseResources ==
  /\ shut' = shut \cup Unclosed
  /\ closes' = [r \in Resources |-> IF r \in Unclosed THEN closes[r] + 1 ELSE closes[r]]
  /\ EnginesClosed(Unclosed)

Hooked == UNCHANGED <<running, registering, specs, visible, services, granted>> /\ Aside

\* on_handlers_drained.
ClosesDrained ==
  /\ HandlersDrained /\ failed' = failed
  /\ CloseResources /\ UNCHANGED bound /\ Hooked

\* on_release closes what is left, whatever came before ...
ClosesRest ==
  /\ pc = "release" /\ Unclosed # {}
  /\ CloseResources /\ UNCHANGED <<vars, bound>> /\ Hooked

\* ... and gives the dispatcher and the services up.
Releases ==
  /\ Unclosed = {} /\ Release /\ failed' = failed
  /\ bound' = "released" /\ UNCHANGED <<shut, closes, engineVars>> /\ Hooked

Hook ==
  \/ \E r \in Factories : ResourceStarts(r) \/ ResourceFails(r)
  \/ BindsServices \/ ClosesDrained \/ ClosesRest \/ Releases
-----------------------------------------------------------------------------
(* Threads beside run.                                                     *)

\* request_shutdown sets the flag, takes m_lifecycle_mtx ...
RequestLocks ==
  /\ request = "stored" /\ reader = "none"
  /\ reader' = IF published THEN "lifecycle" ELSE "parked"
  /\ UNCHANGED <<vars, running, assembly, engineVars, dispatching, joining>>

\* Mutant: a store instead of the compare and exchange.
IntentAlways(state) == "Closing"

\* What is shown of a request without a lifecycle.
Intent(state) == IF state = "Running" THEN "Closing" ELSE state

\* ... and tells the lifecycle, or else the parked state.
RequestTells ==
  /\ reader # "none" /\ reader' = "none"
  /\ IF reader = "lifecycle"
     THEN NotifyRequest /\ UNCHANGED parkedState
     ELSE /\ parkedState' = Intent(parkedState)
          /\ request' = "done"
          /\ UNCHANGED <<pc, phase, requested, created, gate, drainLocals, failed,
                         serverFailed, ending>>
  /\ UNCHANGED <<active, ranOnce, stage, published, assembly, engineVars, dispatching, joining>>

\* A handler takes the dispatcher, unless none is published.
Dispatches(h) ==
  /\ h \in inflight \ dispatching /\ bound = "published"
  /\ dispatching' = dispatching \cup {h}
  /\ UNCHANGED <<vars, running, reader, assembly, engineVars, joining>>

\* A handler closes a resource it was given; it is inside Close until the engine
\* has been joined.
HandlerCloses(h, r) ==
  /\ h \in dispatching \cap inflight /\ joining[h] = "none" /\ r \in visible
  /\ UserSeals(r) /\ joining' = [joining EXCEPT ![h] = r]
  /\ UNCHANGED <<vars, running, reader, assembly, dispatching>>

HandlerJoins(h) ==
  /\ joining[h] # "none"
  /\ UserJoins(joining[h]) /\ joining' = [joining EXCEPT ![h] = "none"]
  /\ UNCHANGED <<vars, running, reader, assembly, dispatching>>

Ends(h) == joining[h] = "none" /\ HandlerReturns(h)

Beside ==
  /\ \/ SpuriousWake \/ StoreRequest \/ OwnerCloses \/ CloseProceeds
     \/ \E h \in Handlers : HandlerEnters(h) \/ Ends(h)
  /\ UNCHANGED appVars

AppNext ==
  \/ \E r \in Resources : AddResource(r)
  \/ \E s \in Services : AddService(s) \/ GrantOrderedStream(s)
  \/ \E c \in Runners : Run(c)
  \/ OtherRuns \/ HostSteps \/ Hook
  \/ RequestLocks \/ RequestTells \/ Beside
  \/ \E h \in Handlers : Dispatches(h) \/ HandlerJoins(h) \/ \E r \in Engined : HandlerCloses(h, r)

\* Threads inside run, request_shutdown and Close are running threads, engines
\* that are asked to stop do, and handlers end; see HostLifecycle.
AppFairness ==
  /\ \A c \in Runners : WF_allVars(stage[c] # "outside" /\ Run(c))
  /\ WF_allVars(HostSteps \/ Hook)
  /\ WF_allVars(RequestLocks \/ RequestTells)
  /\ WF_allVars(CloseProceeds /\ UNCHANGED appVars)
  /\ \A h \in Handlers :
       WF_allVars(HandlerJoins(h)) /\ WF_allVars(Ends(h) /\ UNCHANGED appVars)

AppSpec == AppInit /\ [][AppNext]_allVars
FairAppSpec == AppSpec /\ AppFairness
-----------------------------------------------------------------------------
(* Properties.                                                             *)

RunTypeOK ==
  /\ active \in {"none", "this", "other"} /\ ranOnce \in BOOLEAN /\ registering \in BOOLEAN
  /\ stage \in [Runners -> {"outside", "entered", "validating", "inside", "parking",
                            "leaving", "returned"}]
  /\ published \in BOOLEAN
  /\ parkedState \in {"Running", "Closing", "ShutdownIncomplete", "Closed"}
  /\ reader \in {"none", "lifecycle", "parked"}

AssemblyTypeOK ==
  /\ Known \subseteq Resources /\ With({"registered", "half", "whole"}) = Known
  /\ shut \subseteq Known /\ visible \subseteq Known /\ services \subseteq Services
  /\ granted \subseteq services /\ dispatching \subseteq Handlers
  /\ bound \in {"none", "published", "released"}

EngineTypeOK ==
  /\ engine \in [Engined -> {"none", "running", "stopped"}]
  /\ sealedBy \in [Engined -> {"nobody", "run", "user"}]
  /\ joining \in [Handlers -> Engined \cup {"none"}]

AppTypeOK == TypeOK /\ RunTypeOK /\ AssemblyTypeOK /\ EngineTypeOK

\* One thread of one application is inside run, and the host has been run at
\* most once; the lifecycle object exists while anybody may use it: the
\* pointer names it only from its construction to the end of run, and a
\* request that has taken it is finished before it is gone (run,
\* request_shutdown).
OneRunInProcess ==
  /\ AppTypeOK
  /\ LET In == {c \in Runners : stage[c] \notin {"outside", "returned"}}
     IN  /\ Cardinality(In) = IF active = "this" THEN 1 ELSE 0
         /\ pc \notin {"new", "done"} => \E c \in In : stage[c] = "inside"
         /\ published <=> \E c \in In : stage[c] \in {"inside", "parking"}
  /\ reader = "lifecycle" => published
  /\ reader = "parked" => ~published

\* Whatever fails on the way, behind a run that started every instance, the
\* half-started ones too, was closed once; none is closed twice; services never
\* see one that has not started, nor, while their handler runs, one that is
\* closed, unless a Close from outside cut the drain short; and what cannot be
\* drained keeps its resources.  Behind run no engine is left running, unless a
\* handler that was not waited for is inside Close of it: then the Close of run
\* has returned before the engine was joined (_StartResources, _CloseResources,
\* RedisNetResource::Close).
ResourcesSettled ==
  /\ \A r \in Resources : closes[r] = IF r \in shut THEN 1 ELSE 0
  /\ visible \subseteq With({"whole"})
  /\ pc = "done" => Unclosed = {} /\ bound = "released"
  /\ \A h \in dispatching \cap inflight :
       /\ Known \subseteq visible
       /\ shut # {} => interrupted
  /\ pc = "parked" => shut = {} /\ bound # "released"
  /\ pc = "done" => \A r \in Engined : engine[r] = "running" =>
       interrupted /\ \E h \in inflight : joining[h] = r

\* Resources close behind the last handler, and on_handlers_drained closes them:
\* it is called only behind a wait that found no handler, never for an error of
\* the wait, a deadline or a Close.  The exception is a run whose drain a Close from
\* outside cut short: there on_release closes them, once the host is closed, under
\* handlers that may still use them (_WaitHandlersDone, _ShutDown, run).
ResourcesOutliveHandlers ==
  /\ drainHook = "run" => inflight = {} /\ result = "ok"
  /\ shut # {} /\ inflight # {} =>
       interrupted /\ closing = "done" /\ pc \in {"release", "done"}

\* As README.md has it without exception: resources are closed behind the drain of
\* the handlers, so under none that has business objects.
ResourcesCloseDrained == shut # {} => dispatching \cap inflight = {}

\* What shutdown_state answers.
State == IF published THEN Shown(phase) ELSE parkedState
Rank(s) == CASE s = "Running" -> 1 [] s = "Closing" -> 2
             [] s = "ShutdownIncomplete" -> 3 [] s = "Closed" -> 4

\* shutdown_state never goes back, whoever asks, requests or runs again, except
\* that a start takes the Closing of an earlier request back to Running; Closed
\* stays for ever.  No stream is granted any more once a dispatcher may admit
\* calls to it (run, request_shutdown, shutdown_state, grant_ordered_stream).
StateNeverGoesBack ==
  [][/\ Rank(State') < Rank(State) => ~published /\ published' /\ State = "Closing"
     /\ granted' # granted => bound = "none"]_allVars

\* Once a shutdown has begun, the runner leaves run, unless it parks.
RunReturns ==
  (pc = "shutdown") ~> (pc = "parked" \/ \E c \in Runners : stage[c] = "returned")
=============================================================================
