------------------------------ MODULE CoAppProofs ------------------------------
(***************************************************************************)
(* An application around one host lifecycle, for any number of runners,    *)
(* resources, services and handlers.                                       *)
(*                                                                         *)
(* Every step of the application is a step of HostLifecycle or leaves it   *)
(* alone (RunsOneLifecycle), so that what is proved of the lifecycle holds *)
(* here.  That is not free: a request that found no lifecycle object must  *)
(* not have to wake a control thread, which is why run publishes the       *)
(* object first and why m_lifecycle_mtx covers the whole notification.     *)
(***************************************************************************)
EXTENDS CoApp, HostLifecycleProofs, FiniteSetTheorems

Engaged(c) == stage[c] \notin {"outside", "returned"}

\* One runner is inside run, and what it has published is there.
RunInv ==
  /\ \A c, d \in Runners : Engaged(c) /\ Engaged(d) => c = d
  /\ active = "this" <=> \E c \in Runners : Engaged(c)
  /\ published <=> \E c \in Runners : stage[c] \in {"inside", "parking"}
  /\ pc \notin {"new", "done"} => \E c \in Runners : stage[c] = "inside"

\* The application runs once: only the first runner gets past RunOnce, and the
\* registration is open until then.
OnceInv ==
  /\ \A c \in Runners : stage[c] \in {"validating", "inside", "parking", "leaving", "returned"}
       => ranOnce
  /\ pc # "new" => ranOnce
  /\ registering <=> ~ranOnce
  /\ \A c \in Runners : stage[c] = "validating" =>
       pc = "new" /\ parkedState \in {"Running", "Closing"}
  /\ ~ranOnce => parkedState \in {"Running", "Closing"}
  /\ \A c \in Runners : stage[c] \in {"parking", "leaving"} =>
       pc = "done" /\ parkedState = Shown(phase)

\* A request that looks at the published pointer is under way, and what it saw
\* stays true.
ReaderInv ==
  /\ reader # "none" => request = "stored"
  /\ reader = "lifecycle" => published
  /\ reader = "parked" => ~published

\* Services see exactly the started resources, and only run closes them.
ResourceInv ==
  /\ visible = With({"whole"})
  /\ shut \subseteq With({"half", "whole"})
  /\ closes = [r \in Resources |-> IF r \in shut THEN 1 ELSE 0]
  /\ shut # {} => drainHook = "run" \/ pc \in Ending
  /\ pc \in {"new", "hook"} => With({"half"}) = {}
  /\ pc = "done" => Unclosed = {}

\* The dispatcher is published behind the last resource.
BoundInv ==
  /\ pc \in {"new", "hook"} => bound = "none"
  /\ bound = "none" => dispatching = {}
  /\ bound = "published" \/ dispatching # {} => Known = With({"whole"})
  /\ bound = "released" <=> pc = "done"

\* An engine that runs has somebody who will join it.
EngineInv ==
  /\ \A r \in Engined : engine[r] # "none" => r \in With({"half", "whole"})
  /\ \A r \in Engined : engine[r] = "running" /\ sealedBy[r] = "nobody" => r \notin shut
  /\ \A r \in Engined : sealedBy[r] = "run" => engine[r] = "stopped"
  /\ \A r \in Engined : sealedBy[r] = "user" => engine[r] # "none"
  /\ \A r \in Engined : sealedBy[r] = "user" /\ engine[r] = "running" =>
       \E h \in inflight : joining[h] = r
  /\ \A h \in Handlers : joining[h] # "none" =>
       h \in inflight /\ engine[joining[h]] = "running" /\ sealedBy[joining[h]] = "user"
  /\ \A h, g \in Handlers : joining[h] = joining[g] /\ joining[h] # "none" => h = g

AppInv ==
  /\ AppTypeOK /\ IInv
  /\ RunInv /\ OnceInv /\ ReaderInv /\ ResourceInv /\ BoundInv /\ EngineInv

-----------------------------------------------------------------------------
(* How the steps of the application move the lifecycle.                    *)

LEMMA HostStepsMoves ==
  ASSUME IInv, HostSteps
  PROVE  /\ Inside /\ UNCHANGED appVars
         /\ [Next]_vars
         /\ pc \notin {"release", "done"} /\ pc' \notin {"new", "done"}
         /\ pc' = "hook" => pc = "new"
         /\ UNCHANGED <<drainHook, inflight, request>>
<1> USE DEF HostSteps
<1>1. Inside /\ UNCHANGED appVars
  OBVIOUS
<1>2. Next
  BY DEF Next, Control, StartStep
<1>3. UNCHANGED <<drainHook, inflight, request>>
  BY DEF RunStarts, HostCreates, EnginesRun, HostStarts, StartFails, CheckRequest, FallAsleep,
         BeginShutdown, StopAccepting, EnterWait, WaitEnds, HandlersGone, ServerDrains,
         JudgeFirst, JudgeAgain, HostCloses, CloseBegins, WaitUnchanged, gate, asked, ending
<1>4. /\ pc \notin {"release", "done"} /\ pc' \notin {"new", "done"}
      /\ pc' = "hook" => pc = "new"
  BY DEF RunStarts, HostCreates, EnginesRun, HostStarts, StartFails, CheckRequest, FallAsleep,
         BeginShutdown, StopAccepting, EnterWait, WaitEnds, HandlersGone, ServerDrains,
         JudgeFirst, JudgeAgain, HostCloses, Goto, Judge, Server, Entries, Waits, Servers
<1> QED BY <1>1, <1>2, <1>3, <1>4

LEMMA BesideMoves ==
  ASSUME IInv, Beside
  PROVE  /\ UNCHANGED appVars
         /\ Next
         /\ UNCHANGED <<phase, drainHook>>
         /\ pc' = pc \/ (pc = "asleep" /\ pc' = "predicate")
         /\ request # "none" => request' = request
         /\ \A h \in inflight : joining[h] # "none" => h \in inflight'
         /\ \A h \in inflight' : h \in inflight \/ h \in Handlers \ finished
<1> USE DEF Beside
<1>1. UNCHANGED appVars
  OBVIOUS
<1>2. Next
  BY DEF Next, Ends
<1>3. UNCHANGED <<phase, drainHook>>
  BY DEF SpuriousWake, StoreRequest, OwnerCloses, CloseBegins, CloseProceeds, HandlerEnters,
         HandlerReturns, Ends, ending
<1>4. pc' = pc \/ (pc = "asleep" /\ pc' = "predicate")
  BY DEF SpuriousWake, StoreRequest, OwnerCloses, CloseProceeds, HandlerEnters,
         HandlerReturns, Ends, Goto
<1>5. request # "none" => request' = request
  BY DEF SpuriousWake, StoreRequest, OwnerCloses, CloseProceeds, HandlerEnters,
         HandlerReturns, Ends, asked
<1>6. /\ \A h \in inflight : joining[h] # "none" => h \in inflight'
      /\ \A h \in inflight' : h \in inflight \/ h \in Handlers \ finished
  BY DEF SpuriousWake, StoreRequest, OwnerCloses, CloseBegins, CloseProceeds, HandlerEnters,
         HandlerReturns, Ends, gate
<1> QED BY <1>1, <1>2, <1>3, <1>4, <1>5, <1>6

\* The hooks are steps of the lifecycle, except while factories are still left
\* and while resources are still to be closed.
LEMMA HookMoves ==
  ASSUME Hook
  PROVE  [Next]_vars
<1>1. \A r \in Factories : ResourceStarts(r) \/ ResourceFails(r) => [Next]_vars
  BY DEF ResourceStarts, ResourceFails, Next, Control
<1>2. BindsServices \/ ClosesDrained \/ ClosesRest \/ Releases => [Next]_vars
  BY DEF BindsServices, ClosesDrained, ClosesRest, Releases, Next, Control, StartStep
<1> QED BY <1>1, <1>2 DEF Hook

\* A request that found no lifecycle has no thread to wake: the control thread
\* does not sleep without one (request_shutdown).
LEMMA RequestMoves ==
  ASSUME AppTypeOK, RunInv, ReaderInv, RequestTells
  PROVE  Next
<1>1. CASE reader = "lifecycle"
  BY <1>1 DEF RequestTells, Next
<1>2. CASE reader = "parked"
  <2>1. ~published
    BY <1>2 DEF ReaderInv
  <2>2. pc # "asleep"
    BY <2>1 DEF RunInv
  <2>3. NotifyRequest
    BY <1>2, <2>2 DEF RequestTells, ReaderInv, NotifyRequest, gate, asked, drainLocals, ending
  <2> QED BY <2>3 DEF Next
<1> QED BY <1>1, <1>2 DEF RequestTells, AppTypeOK, RunTypeOK

\* Everybody else leaves the lifecycle alone.
LEMMA VarsFrame ==
  ASSUME [AppNext]_allVars
  PROVE  HostSteps \/ Hook \/ RequestTells \/ Beside \/ UNCHANGED vars
<1>1. ASSUME NEW r \in Resources, AddResource(r)
      PROVE  UNCHANGED vars
  BY <1>1 DEF AddResource
<1>2. ASSUME NEW s \in Services, AddService(s) \/ GrantOrderedStream(s)
      PROVE  UNCHANGED vars
  BY <1>2 DEF AddService, GrantOrderedStream
<1>3. ASSUME NEW c \in Runners, Run(c)
      PROVE  UNCHANGED vars
  BY <1>3 DEF Run, RunEnters, RunOnce, ConfigRejected, Publishes, ParksState, Revokes, Returns
<1>4. ASSUME NEW h \in Handlers,
             Dispatches(h) \/ HandlerJoins(h) \/ \E r \in Engined : HandlerCloses(h, r)
      PROVE  UNCHANGED vars
  BY <1>4 DEF Dispatches, HandlerJoins, HandlerCloses
<1>5. CASE OtherRuns \/ RequestLocks \/ UNCHANGED allVars
  BY <1>5 DEF OtherRuns, RequestLocks, allVars
<1> QED BY <1>1, <1>2, <1>3, <1>4, <1>5 DEF AppNext

\* Every step of the application is one of the lifecycle or leaves it alone.
LEMMA Simulation ==
  ASSUME AppTypeOK, IInv, RunInv, ReaderInv, [AppNext]_allVars
  PROVE  [Next]_vars
BY VarsFrame, HostStepsMoves, HookMoves, RequestMoves, BesideMoves

\* The threads that take the control thread anywhere.
LEMMA PcFrame ==
  ASSUME [AppNext]_allVars
  PROVE  \/ HostSteps \/ Hook
         \/ /\ pc' = pc \/ (pc = "asleep" /\ pc' = "predicate")
            /\ phase' = phase
<1>1. CASE RequestTells
  BY <1>1 DEF RequestTells, NotifyRequest
<1>2. CASE Beside
  BY <1>2 DEF Beside, SpuriousWake, StoreRequest, OwnerCloses, CloseProceeds, HandlerEnters,
              HandlerReturns, Ends, Goto, ending
<1> QED BY <1>1, <1>2, VarsFrame DEF vars

\* Where the hooks start and end.
LEMMA HookPc ==
  ASSUME RunInv, Hook
  PROVE  /\ Inside
         /\ \/ pc = "hook" /\ pc' \in {"hook", "create", "shutdown"}
            \/ ClosesDrained /\ pc = "drained" /\ pc' = "close"
            \/ ClosesRest /\ pc = "release" /\ pc' = "release"
            \/ Releases /\ pc = "release" /\ pc' = "done"
<1>1. ASSUME NEW r \in Factories, ResourceStarts(r) \/ ResourceFails(r)
      PROVE  Inside /\ pc = "hook" /\ pc' \in {"hook", "create", "shutdown"}
  BY <1>1 DEF ResourceStarts, ResourceFails, StartFails, vars
<1>2. CASE BindsServices
  BY <1>2 DEF BindsServices, HookEnds, StartFails, Goto
<1>3. CASE ClosesDrained
  BY <1>3 DEF ClosesDrained, HandlersDrained, Goto, RunInv, Inside
<1>4. CASE ClosesRest
  BY <1>4 DEF ClosesRest, vars, RunInv, Inside
<1>5. CASE Releases
  BY <1>5 DEF Releases, Release, Goto, RunInv, Inside
<1> QED BY <1>1, <1>2, <1>3, <1>4, <1>5 DEF Hook

\* The control thread moves inside run, or is woken there, and never back to
\* the start.
LEMMA PcMoves ==
  ASSUME IInv, RunInv, [AppNext]_allVars
  PROVE  /\ pc' = pc \/ Inside \/ (pc = "asleep" /\ pc' = "predicate")
         /\ pc' = "new" => pc = "new"
         /\ pc' = "hook" => pc \in {"new", "hook"}
         /\ pc' = "done" => pc = "done" \/ Releases
         /\ pc = "release" => pc' \in Ending
         /\ pc = "done" => pc' = "done" /\ phase' = phase
BY PcFrame, HookPc, HostStepsMoves DEF Ending

-----------------------------------------------------------------------------
(* The single run.                                                         *)

\* Who else moves leaves the run alone.
LEMMA RunFrame ==
  ASSUME [AppNext]_allVars
  PROVE  \/ \E c \in Runners : Run(c)
         \/ OtherRuns \/ RequestLocks \/ RequestTells
         \/ UNCHANGED <<running, registering, reader>>
<1>1. ASSUME NEW r \in Resources, AddResource(r)
      PROVE  UNCHANGED <<running, registering, reader>>
  BY <1>1 DEF AddResource
<1>2. ASSUME NEW s \in Services, AddService(s) \/ GrantOrderedStream(s)
      PROVE  UNCHANGED <<running, registering, reader>>
  BY <1>2 DEF AddService, GrantOrderedStream
<1>3. ASSUME NEW h \in Handlers,
             Dispatches(h) \/ HandlerJoins(h) \/ \E r \in Engined : HandlerCloses(h, r)
      PROVE  UNCHANGED <<running, registering, reader>>
  BY <1>3 DEF Dispatches, HandlerJoins, HandlerCloses, assembly
<1>4. CASE HostSteps \/ Beside \/ UNCHANGED allVars
  BY <1>4 DEF HostSteps, Beside, allVars, appVars, assembly
<1>5. CASE Hook
  BY <1>5 DEF Hook, ResourceStarts, ResourceFails, BindsServices, ClosesDrained, ClosesRest,
              Releases, Assembled, Hooked, Aside
<1> QED BY <1>1, <1>2, <1>3, <1>4, <1>5 DEF AppNext

LEMMA RunTypeStep ==
  ASSUME AppTypeOK, [AppNext]_allVars
  PROVE  RunTypeOK'
<1> USE DEF AppTypeOK, RunTypeOK
<1>1. ASSUME NEW c \in Runners, Run(c)
      PROVE  RunTypeOK'
  <2>1. stage' \in [Runners -> {"outside", "entered", "validating", "inside", "parking",
                                "leaving", "returned"}]
    BY <1>1 DEF Run, RunEnters, RunOnce, ConfigRejected, Publishes, ParksState, Revokes, Returns, Step
  <2>2. reader' = reader
    BY <1>1 DEF Run, RunEnters, RunOnce, ConfigRejected, Publishes, ParksState, Revokes, Returns,
                Rest, Aside
  <2>3. active' \in {"none", "this", "other"} /\ ranOnce' \in BOOLEAN /\ registering' \in BOOLEAN
    BY <1>1 DEF Run, RunEnters, RunOnce, ConfigRejected, Publishes, ParksState, Revokes, Returns,
                assembly
  <2>4. published' \in BOOLEAN /\ parkedState' \in {"Running", "Closing", "ShutdownIncomplete", "Closed"}
    BY <1>1 DEF Run, RunEnters, RunOnce, ConfigRejected, Publishes, ParksState, Revokes, Returns,
                Shown
  <2> QED BY <2>1, <2>2, <2>3, <2>4
<1>2. CASE OtherRuns
  BY <1>2 DEF OtherRuns, assembly, Rest, Aside
<1>3. CASE RequestLocks \/ RequestTells
  BY <1>3 DEF RequestLocks, RequestTells, Intent, running, assembly
<1>4. CASE UNCHANGED <<running, registering, reader>>
  BY <1>4 DEF running
<1> QED BY <1>1, <1>2, <1>3, <1>4, RunFrame

\* One runner at a time is inside run (run, g_active_app).
LEMMA RunStep ==
  ASSUME AppTypeOK, RunInv, ReaderInv, IInv, [AppNext]_allVars
  PROVE  RunInv'
<1> USE DEF AppTypeOK, RunTypeOK
<1>1. ASSUME NEW c \in Runners, Run(c)
      PROVE  RunInv'
  <2>1. pc' = pc
    BY <1>1 DEF Run, RunEnters, RunOnce, ConfigRejected, Publishes, ParksState, Revokes, Returns, vars
  <2>2. \A d \in Runners : d # c => stage'[d] = stage[d]
    BY <1>1 DEF Run, RunEnters, RunOnce, ConfigRejected, Publishes, ParksState, Revokes, Returns, Step
  <2>3. CASE RunEnters(c)
    <3>1. stage'[c] = "entered" /\ stage[c] = "outside" /\ active' = "this" /\ active = "none"
          /\ published' = published
      BY <2>3 DEF RunEnters, Step
    <3> QED BY <2>1, <2>2, <3>1 DEF RunInv, Engaged
  <2>4. CASE RunOnce(c)
    <3>1. /\ stage[c] = "entered" /\ published' = published
          /\ \/ stage'[c] = "outside" /\ active' = "none"
             \/ stage'[c] = "validating" /\ active' = active
      BY <2>4 DEF RunOnce, Step
    <3> QED BY <2>1, <2>2, <3>1 DEF RunInv, Engaged
  <2>5. CASE ConfigRejected(c)
    <3>1. stage[c] = "validating" /\ stage'[c] = "outside" /\ active' = "none" /\ published' = published
      BY <2>5 DEF ConfigRejected, Step
    <3> QED BY <2>1, <2>2, <3>1 DEF RunInv, Engaged
  <2>6. CASE Publishes(c)
    <3>1. stage[c] = "validating" /\ stage'[c] = "inside" /\ active' = active /\ published'
      BY <2>6 DEF Publishes, Step
    <3> QED BY <2>1, <2>2, <3>1 DEF RunInv, Engaged
  <2>7. CASE ParksState(c)
    <3>1. /\ stage[c] = "inside" /\ stage'[c] = "parking" /\ active' = active
          /\ published' = published /\ pc = "done"
      BY <2>7 DEF ParksState, Step
    <3> QED BY <2>1, <2>2, <3>1 DEF RunInv, Engaged
  <2>8. CASE Revokes(c)
    <3>1. stage[c] = "parking" /\ stage'[c] = "leaving" /\ active' = active /\ ~published'
      BY <2>8 DEF Revokes, Step
    <3> QED BY <2>1, <2>2, <3>1 DEF RunInv, Engaged
  <2>9. CASE Returns(c)
    <3>1. stage[c] = "leaving" /\ stage'[c] = "returned" /\ active' = "none" /\ published' = published
      BY <2>9 DEF Returns, Step
    <3> QED BY <2>1, <2>2, <3>1 DEF RunInv, Engaged
  <2> QED BY <1>1, <2>3, <2>4, <2>5, <2>6, <2>7, <2>8, <2>9 DEF Run
<1>2. CASE OtherRuns
  BY <1>2 DEF OtherRuns, RunInv, Engaged, vars
<1>3. CASE RequestLocks
  BY <1>3 DEF RequestLocks, RunInv, Engaged, vars, running
<1>4. CASE RequestTells
  <2>1. UNCHANGED <<active, stage, published>>
    BY <1>4 DEF RequestTells
  <2>2. pc' = pc \/ (pc = "asleep" /\ pc' = "predicate")
    BY <1>4 DEF RequestTells, NotifyRequest
  <2> QED BY <2>1, <2>2 DEF RunInv, Engaged
<1>5. CASE UNCHANGED <<running, registering, reader>>
  <2>1. UNCHANGED <<active, stage, published>>
    BY <1>5 DEF running
  <2>2. pc' \in {"new", "done"} \/ pc' = pc \/ Inside \/ (pc = "asleep" /\ pc' = "predicate")
    BY PcMoves
  <2> QED BY <2>1, <2>2 DEF RunInv, Engaged, Inside
<1> QED BY <1>1, <1>2, <1>3, <1>4, <1>5, RunFrame

\* A hook leaves the request and the handlers alone.
LEMMA HookFrame ==
  ASSUME Hook
  PROVE  UNCHANGED <<request, inflight, dispatching, joining>>
<1>1. ASSUME NEW r \in Factories, ResourceStarts(r) \/ ResourceFails(r)
      PROVE  UNCHANGED <<request, inflight, dispatching, joining>>
  BY <1>1 DEF ResourceStarts, ResourceFails, StartFails, vars, asked, gate, Assembled, Aside
<1>2. CASE BindsServices
  BY <1>2 DEF BindsServices, HookEnds, StartFails, asked, gate, Assembled, Aside
<1>3. CASE ClosesDrained \/ ClosesRest \/ Releases
  BY <1>3 DEF ClosesDrained, HandlersDrained, ClosesRest, Releases, Release, vars, asked, gate,
              Hooked, Aside
<1> QED BY <1>1, <1>2, <1>3 DEF Hook

\* Registration is open until the first run, which nothing repeats (run).
LEMMA OnceStep ==
  ASSUME AppTypeOK, RunInv, OnceInv, ReaderInv, IInv, [AppNext]_allVars
  PROVE  OnceInv'
<1> USE DEF AppTypeOK, RunTypeOK
<1>1. ASSUME NEW c \in Runners, Run(c)
      PROVE  OnceInv'
  <2>1. UNCHANGED <<pc, phase>>
    BY <1>1 DEF Run, RunEnters, RunOnce, ConfigRejected, Publishes, ParksState, Revokes, Returns, vars
  <2>2. \A d \in Runners : d # c => stage'[d] = stage[d]
    BY <1>1 DEF Run, RunEnters, RunOnce, ConfigRejected, Publishes, ParksState, Revokes, Returns, Step
  <2>3. CASE RunOnce(c)
    <3>1. /\ ranOnce' = TRUE /\ stage'[c] \in {"outside", "validating"}
          /\ stage'[c] = "validating" => ~ranOnce
          /\ registering' = (registering /\ ranOnce)
          /\ UNCHANGED parkedState
      BY <2>3 DEF RunOnce, Step
    <3> QED BY <2>1, <2>2, <3>1 DEF OnceInv, Shown
  <2>4. CASE ParksState(c)
    <3>1. /\ stage[c] = "inside" /\ stage'[c] = "parking" /\ parkedState' = Shown(phase)
          /\ pc = "done" /\ UNCHANGED <<ranOnce, registering>>
      BY <2>4 DEF ParksState, Step, assembly
    <3>2. \A d \in Runners : d # c => stage'[d] \in {"outside", "returned"}
      BY <2>2, <3>1 DEF RunInv, Engaged
    <3> QED BY <2>1, <2>2, <3>1, <3>2 DEF OnceInv, Shown
  <2>5. CASE RunEnters(c) \/ ConfigRejected(c) \/ Publishes(c) \/ Revokes(c) \/ Returns(c)
    <3>1. UNCHANGED <<ranOnce, registering, parkedState>>
      BY <2>5 DEF RunEnters, ConfigRejected, Publishes, Revokes, Returns, assembly
    <3>2. /\ stage'[c] \in {"validating", "inside", "parking", "leaving", "returned"} =>
               stage[c] \in {"validating", "inside", "parking", "leaving", "returned"}
          /\ stage'[c] # "validating"
          /\ stage'[c] \in {"parking", "leaving"} => stage[c] \in {"parking", "leaving"}
      BY <2>5 DEF RunEnters, ConfigRejected, Publishes, Revokes, Returns, Step
    <3> QED BY <2>1, <2>2, <3>1, <3>2 DEF OnceInv, Shown
  <2> QED BY <1>1, <2>3, <2>4, <2>5 DEF Run
<1>2. CASE OtherRuns
  BY <1>2 DEF OtherRuns, OnceInv, Shown, vars, assembly
<1>3. CASE RequestLocks
  BY <1>3 DEF RequestLocks, OnceInv, Shown, vars, running, assembly
<1>4. CASE RequestTells
  <2>1. UNCHANGED <<stage, ranOnce, registering, phase>>
    BY <1>4 DEF RequestTells, NotifyRequest, assembly
  <2>2. parkedState' \in {parkedState, Intent(parkedState)}
    BY <1>4 DEF RequestTells
  <2>3. /\ pc = "new" => pc' = "new"
        /\ pc = "done" => pc' = "done"
        /\ pc = pc' \/ pc = "asleep"
    BY <1>4 DEF RequestTells, NotifyRequest
  <2>4. ASSUME NEW c \in Runners, stage[c] \in {"parking", "leaving"}
        PROVE  parkedState = "Closed" /\ Shown(phase) = "Closed"
    BY <2>4 DEF OnceInv, Shown, IInv, PhaseKnown
  <2> QED BY <2>1, <2>2, <2>3, <2>4 DEF OnceInv, Intent, Shown
<1>5. CASE UNCHANGED <<running, registering, reader>>
  <2>1. UNCHANGED <<stage, ranOnce, registering, parkedState>>
    BY <1>5 DEF running
  <2>2. ASSUME pc' # "new"
        PROVE  ranOnce
    BY <2>2, PcMoves DEF OnceInv, Inside
  <2>3. ASSUME NEW c \in Runners, stage[c] = "validating"
        PROVE  pc' = "new"
    BY <2>3, PcMoves DEF OnceInv, Inside, RunInv, Engaged
  <2>4. pc = "done" => pc' = "done" /\ phase' = phase
    BY PcMoves
  <2> QED BY <2>1, <2>2, <2>3, <2>4 DEF OnceInv, Shown
<1> QED BY <1>1, <1>2, <1>3, <1>4, <1>5, RunFrame

\* The published pointer does not change under a request that has read it
\* (request_shutdown, revoke_publish).
LEMMA ReaderStep ==
  ASSUME AppTypeOK, ReaderInv, IInv, [AppNext]_allVars
  PROVE  ReaderInv'
<1> USE DEF ReaderInv
<1>1. ASSUME NEW c \in Runners, Run(c)
      PROVE  ReaderInv'
  <2>1. UNCHANGED <<reader, request>>
    BY <1>1 DEF Run, RunEnters, RunOnce, ConfigRejected, Publishes, ParksState, Revokes, Returns,
                vars, Rest, Aside
  <2>2. published' = published \/ reader = "none"
    BY <1>1 DEF Run, RunEnters, RunOnce, ConfigRejected, Publishes, ParksState, Revokes, Returns
  <2> QED BY <2>1, <2>2
<1>2. CASE OtherRuns
  BY <1>2 DEF OtherRuns, vars, Rest, Aside
<1>3. CASE RequestLocks
  BY <1>3 DEF RequestLocks, vars, running
<1>4. CASE RequestTells
  BY <1>4 DEF RequestTells
<1>5. CASE UNCHANGED <<running, registering, reader>>
  <2>1. request = "stored" => request' = request \/ RequestTells
    BY VarsFrame, HostStepsMoves, HookFrame, BesideMoves DEF vars
  <2>2. CASE RequestTells
    BY <1>4, <2>2
  <2> QED BY <1>5, <2>1, <2>2 DEF running
<1> QED BY <1>1, <1>2, <1>3, <1>4, <1>5, RunFrame

-----------------------------------------------------------------------------
(* The resources.                                                          *)

LEMMA SetSpecWith ==
  ASSUME NEW r, NEW x, SetSpec(r, x)
  PROVE  /\ Known' = Known \cup {r}
         /\ \A s : With(s)' = (With(s) \ {r}) \cup (IF x \in s THEN {r} ELSE {})
BY DEF SetSpec, Known, With

\* Who else moves leaves the resources and services alone.
LEMMA AssemblyFrame ==
  ASSUME [AppNext]_allVars
  PROVE  \/ \E r \in Resources : AddResource(r)
         \/ \E s \in Services : AddService(s) \/ GrantOrderedStream(s)
         \/ Hook
         \/ \E h \in Handlers : Dispatches(h)
         \/ UNCHANGED <<specs, shut, closes, visible, services, granted, bound, dispatching>>
<1>1. ASSUME NEW c \in Runners, Run(c)
      PROVE  UNCHANGED <<specs, shut, closes, visible, services, granted, bound, dispatching>>
  BY <1>1 DEF Run, RunEnters, RunOnce, ConfigRejected, Publishes, ParksState, Revokes, Returns,
              assembly, Rest, Aside
<1>2. ASSUME NEW h \in Handlers, HandlerJoins(h) \/ \E r \in Engined : HandlerCloses(h, r)
      PROVE  UNCHANGED <<specs, shut, closes, visible, services, granted, bound, dispatching>>
  BY <1>2 DEF HandlerJoins, HandlerCloses, assembly
<1>3. CASE OtherRuns \/ RequestLocks \/ RequestTells
  BY <1>3 DEF OtherRuns, RequestLocks, RequestTells, assembly, Rest, Aside
<1>4. CASE HostSteps \/ Beside \/ UNCHANGED allVars
  BY <1>4 DEF HostSteps, Beside, allVars, appVars, assembly
<1> QED BY <1>1, <1>2, <1>3, <1>4 DEF AppNext

\* What the steps do that assemble the application.
LEMMA AddResourceDoes ==
  ASSUME NEW r \in Resources, AddResource(r)
  PROVE  /\ registering /\ r \notin Known
         /\ Known' = Known \cup {r}
         /\ \A s : With(s)' = (With(s) \ {r}) \cup
                     (IF (IF r \in Ready THEN "whole" ELSE "registered") \in s THEN {r} ELSE {})
         /\ visible' = visible \cup (Ready \cap {r})
         /\ UNCHANGED <<vars, shut, closes, services, granted, bound, dispatching>>
BY SetSpecWith DEF AddResource

LEMMA StartsDoes ==
  ASSUME NEW r \in Factories, ResourceStarts(r)
  PROVE  /\ r \in With({"registered"}) /\ pc = "hook" /\ pc' = "hook"
         /\ Known' = Known
         /\ \A s : With(s)' = (With(s) \ {r}) \cup (IF "whole" \in s THEN {r} ELSE {})
         /\ visible' = visible \cup {r}
         /\ EngineCreated(r)
         /\ UNCHANGED <<vars, shut, closes, services, granted, bound, dispatching>>
<1>1. SetSpec(r, "whole") /\ r \in Known
  BY DEF ResourceStarts, With
<1>2. /\ Known' = Known
      /\ \A s : With(s)' = (With(s) \ {r}) \cup (IF "whole" \in s THEN {r} ELSE {})
  BY <1>1, SetSpecWith
<1>3. /\ r \in With({"registered"}) /\ pc = "hook"
      /\ visible' = visible \cup {r} /\ EngineCreated(r)
      /\ UNCHANGED <<vars, shut, closes, services, granted, bound, dispatching>>
  BY DEF ResourceStarts, Assembled, Aside
<1> QED BY <1>2, <1>3 DEF vars

LEMMA FailsDoes ==
  ASSUME NEW r \in Factories, ResourceFails(r)
  PROVE  /\ r \in With({"registered"}) /\ pc = "hook" /\ pc' = "shutdown"
         /\ Known' = Known
         /\ \/ /\ \A s : With(s)' = (With(s) \ {r}) \cup (IF "registered" \in s THEN {r} ELSE {})
               /\ UNCHANGED engineVars
            \/ /\ \A s : With(s)' = (With(s) \ {r}) \cup (IF "half" \in s THEN {r} ELSE {})
               /\ EngineCreated(r)
         /\ UNCHANGED <<visible, shut, closes, services, granted, bound, dispatching, drainHook>>
<1>1. r \in Known
  BY DEF ResourceFails, With
<1>2. UNCHANGED <<visible, shut, closes, services, granted, bound, dispatching, drainHook>>
  BY DEF ResourceFails, StartFails, Assembled, Aside
<1>3. r \in With({"registered"}) /\ pc = "hook" /\ pc' = "shutdown"
  BY DEF ResourceFails, StartFails
<1>4. CASE SetSpec(r, "registered") /\ UNCHANGED engineVars
  <2>1. /\ Known' = Known
        /\ \A s : With(s)' = (With(s) \ {r}) \cup (IF "registered" \in s THEN {r} ELSE {})
    BY <1>1, <1>4, SetSpecWith
  <2> QED BY <1>2, <1>3, <1>4, <2>1
<1>5. CASE SetSpec(r, "half") /\ EngineCreated(r)
  <2>1. /\ Known' = Known
        /\ \A s : With(s)' = (With(s) \ {r}) \cup (IF "half" \in s THEN {r} ELSE {})
    BY <1>1, <1>5, SetSpecWith
  <2> QED BY <1>2, <1>3, <1>5, <2>1
<1> QED BY <1>4, <1>5 DEF ResourceFails

LEMMA BindsDoes ==
  ASSUME BindsServices
  PROVE  /\ With({"registered"}) = {} /\ pc = "hook"
         /\ \/ pc' = "create" /\ bound' = "published"
            \/ pc' = "shutdown" /\ bound' = bound
         /\ UNCHANGED <<specs, visible, shut, closes, services, granted, dispatching, drainHook>>
         /\ UNCHANGED <<engineVars, joining>>
BY DEF BindsServices, HookEnds, StartFails, Goto, Assembled, Aside, ending

\* _CloseResources, before or behind the release of the rest.
LEMMA ClosesDoes ==
  ASSUME ClosesDrained \/ ClosesRest
  PROVE  /\ CloseResources
         /\ \/ pc = "drained" /\ pc' = "close" /\ drainHook' = "run"
            \/ pc = "release" /\ pc' = "release" /\ UNCHANGED vars
         /\ UNCHANGED <<specs, visible, services, granted, bound, dispatching, joining>>
BY DEF ClosesDrained, HandlersDrained, ClosesRest, Goto, Hooked, Aside, vars

LEMMA ReleasesDoes ==
  ASSUME Releases
  PROVE  /\ Unclosed = {} /\ pc = "release" /\ pc' = "done" /\ bound' = "released"
         /\ UNCHANGED <<specs, shut, closes, visible, services, granted, dispatching, joining,
                        engineVars, drainHook>>
BY DEF Releases, Release, Goto, Hooked, Aside

LEMMA AssemblyTypeStep ==
  ASSUME AppTypeOK, OnceInv, [AppNext]_allVars
  PROVE  AssemblyTypeOK'
<1> USE DEF AppTypeOK, AssemblyTypeOK
<1>1. ASSUME NEW r \in Resources, AddResource(r)
      PROVE  AssemblyTypeOK'
  BY <1>1, AddResourceDoes DEF Resources
<1>2. ASSUME NEW s \in Services, AddService(s) \/ GrantOrderedStream(s)
      PROVE  AssemblyTypeOK'
  BY <1>2 DEF AddService, GrantOrderedStream, With, Known
<1>3. ASSUME NEW r \in Factories, ResourceStarts(r) \/ ResourceFails(r)
      PROVE  AssemblyTypeOK'
  <2>1. r \in Known
    BY <1>3, StartsDoes, FailsDoes DEF With
  <2>2. Known' = Known /\ visible' \subseteq Known
    BY <1>3, <2>1, StartsDoes, FailsDoes
  <2>3. With({"registered", "half", "whole"})' = Known'
    <3> DEFINE All == With({"registered", "half", "whole"})
    <3>1. All' = (All \ {r}) \cup {r}
      <4>1. CASE ResourceStarts(r)
        BY <4>1, StartsDoes
      <4>2. CASE ResourceFails(r)
        BY <4>2, FailsDoes
      <4> QED BY <1>3, <4>1, <4>2
    <3> QED BY <2>1, <2>2, <3>1
  <2>4. UNCHANGED <<shut, services, granted, bound, dispatching>>
    BY <1>3, StartsDoes, FailsDoes
  <2> QED BY <2>2, <2>3, <2>4
<1>4. CASE BindsServices
  BY <1>4, BindsDoes DEF With, Known
<1>5. CASE ClosesDrained \/ ClosesRest
  BY <1>5, ClosesDoes DEF CloseResources, Unclosed, With, Known
<1>6. CASE Releases
  BY <1>6, ReleasesDoes DEF With, Known
<1>7. ASSUME NEW h \in Handlers, Dispatches(h)
      PROVE  AssemblyTypeOK'
  BY <1>7 DEF Dispatches, assembly, With, Known
<1>8. CASE UNCHANGED <<specs, shut, closes, visible, services, granted, bound, dispatching>>
  BY <1>8 DEF With, Known
<1> QED BY <1>1, <1>2, <1>3, <1>4, <1>5, <1>6, <1>7, <1>8, AssemblyFrame DEF Hook

\* Services see the started resources, and run closes each of them once
\* (_StartResources, _CloseResources).
LEMMA ResourceStep ==
  ASSUME AppTypeOK, IInv, RunInv, OnceInv, ResourceInv, [AppNext]_allVars
  PROVE  ResourceInv'
<1> USE DEF AppTypeOK
<1>1. ASSUME NEW r \in Resources, AddResource(r)
      PROVE  ResourceInv'
  <2>1. pc = "new" /\ pc' = "new"
    BY <1>1, AddResourceDoes DEF OnceInv, vars
  <2>2. r \notin With({"whole"}) /\ r \notin With({"half", "whole"}) /\ r \notin With({"half"})
    BY <1>1, AddResourceDoes DEF With
  <2>3. With({"half"})' = {} /\ visible' = With({"whole"})'
    BY <1>1, <2>1, <2>2, AddResourceDoes DEF ResourceInv, Resources
  <2>4. shut' = {} /\ closes' = closes
    BY <1>1, <2>1, AddResourceDoes DEF ResourceInv, Ending, IInv, Settled
  <2> QED BY <2>1, <2>3, <2>4, <1>1, AddResourceDoes DEF ResourceInv
<1>2. ASSUME NEW s \in Services, AddService(s) \/ GrantOrderedStream(s)
      PROVE  ResourceInv'
  BY <1>2 DEF AddService, GrantOrderedStream, With, Known, vars, ResourceInv, Unclosed
<1>3. ASSUME NEW r \in Factories, ResourceStarts(r)
      PROVE  ResourceInv'
  <2>1. r \notin With({"half", "whole"}) /\ r \notin With({"half"}) /\ r \notin With({"whole"})
    BY <1>3, StartsDoes DEF With
  <2>2. With({"half"})' = {} /\ visible' = With({"whole"})'
    <3>1. With({"half"}) = {} /\ visible = With({"whole"})
      BY <1>3, StartsDoes DEF ResourceInv
    <3>2. With({"half"})' = With({"half"}) \ {r}
      BY <1>3, StartsDoes
    <3>3. With({"whole"})' = With({"whole"}) \cup {r} /\ visible' = visible \cup {r}
      BY <1>3, <2>1, StartsDoes
    <3> QED BY <3>1, <3>2, <3>3
  <2>3. shut' = {} /\ closes' = closes
    BY <1>3, StartsDoes DEF ResourceInv, Ending, IInv, Settled
  <2> QED BY <1>3, <2>2, <2>3, StartsDoes DEF ResourceInv
<1>4. ASSUME NEW r \in Factories, ResourceFails(r)
      PROVE  ResourceInv'
  <2>1. r \notin With({"whole"})
    BY <1>4, FailsDoes DEF With
  <2>2. visible' = With({"whole"})'
    BY <1>4, <2>1, FailsDoes DEF ResourceInv
  <2>3. shut' = {} /\ closes' = closes
    BY <1>4, FailsDoes DEF ResourceInv, Ending, IInv, Settled
  <2> QED BY <1>4, <2>2, <2>3, FailsDoes DEF ResourceInv
<1>5. CASE BindsServices
  BY <1>5, BindsDoes DEF ResourceInv, With, Known, Unclosed, Ending
<1>6. CASE ClosesDrained \/ ClosesRest
  <2>1. With({"half", "whole"})' = With({"half", "whole"}) /\ visible' = With({"whole"})'
    BY <1>6, ClosesDoes DEF ResourceInv, With, Known
  <2>2. shut' \subseteq With({"half", "whole"})'
    BY <1>6, <2>1, ClosesDoes DEF ResourceInv, CloseResources, Unclosed
  <2>3. closes' = [r \in Resources |-> IF r \in shut' THEN 1 ELSE 0]
    BY <1>6, ClosesDoes DEF ResourceInv, CloseResources, Unclosed
  <2>4. shut' # {} => drainHook' = "run" \/ pc' \in Ending
    BY <1>6, ClosesDoes DEF Ending
  <2>5. pc' \notin {"new", "hook", "done"}
    BY <1>6, ClosesDoes
  <2> QED BY <2>1, <2>2, <2>3, <2>4, <2>5 DEF ResourceInv
<1>7. CASE Releases
  BY <1>7, ReleasesDoes DEF ResourceInv, With, Known, Unclosed, Ending
<1>8. ASSUME UNCHANGED <<specs, shut, closes, visible>>, ~Hook
      PROVE  ResourceInv'
  <2>1. UNCHANGED <<visible, With({"whole"}), With({"half"}), With({"half", "whole"}), Unclosed>>
    BY <1>8 DEF With, Known, Unclosed
  <2>2. /\ pc' = "done" => pc = "done"
        /\ pc' \in {"new", "hook"} => pc \in {"new", "hook"}
        /\ pc \in Ending => pc' \in Ending
    BY <1>8, PcMoves DEF Ending, Hook
  <2>3. drainHook = "run" => drainHook' = "run"
    BY <1>8, VarsFrame, HostStepsMoves, BesideMoves DEF vars, RequestTells, NotifyRequest, ending
  <2> QED BY <1>8, <2>1, <2>2, <2>3 DEF ResourceInv
<1>9. ASSUME NEW h \in Handlers, Dispatches(h)
      PROVE  UNCHANGED <<specs, shut, closes, visible>>
  BY <1>9 DEF Dispatches, assembly
<1> QED BY <1>1, <1>2, <1>3, <1>4, <1>5, <1>6, <1>7, <1>8, <1>9, AssemblyFrame DEF Hook

\* The dispatcher is there from the last started resource to the end of run
\* (_BindServices, AppRuntimeState).
LEMMA BoundStep ==
  ASSUME AppTypeOK, IInv, RunInv, OnceInv, ResourceInv, BoundInv, [AppNext]_allVars
  PROVE  BoundInv'
<1> USE DEF AppTypeOK
<1>1. ASSUME NEW r \in Resources, AddResource(r)
      PROVE  BoundInv'
  <2>1. pc = "new"
    BY <1>1, AddResourceDoes DEF OnceInv
  <2> QED BY <1>1, <2>1, AddResourceDoes DEF BoundInv, vars
<1>2. ASSUME NEW r \in Factories, ResourceStarts(r) \/ ResourceFails(r)
      PROVE  BoundInv'
  <2>1. pc = "hook" /\ pc' # "done" /\ UNCHANGED <<bound, dispatching>>
    BY <1>2, StartsDoes, FailsDoes
  <2> QED BY <2>1 DEF BoundInv
<1>3. CASE BindsServices
  <2>1. With({"registered"}) = {} /\ With({"half"}) = {}
    BY <1>3, BindsDoes DEF ResourceInv
  <2>2. Known = With({"whole"})
    BY <2>1 DEF AssemblyTypeOK, With
  <2>3. Known' = With({"whole"})'
    BY <1>3, <2>2, BindsDoes DEF With, Known
  <2> QED BY <1>3, <2>3, BindsDoes DEF BoundInv
<1>4. CASE ClosesDrained \/ ClosesRest
  BY <1>4, ClosesDoes DEF BoundInv, With, Known
<1>5. CASE Releases
  BY <1>5, ReleasesDoes DEF BoundInv, With, Known
<1>6. ASSUME NEW h \in Handlers, Dispatches(h)
      PROVE  BoundInv'
  BY <1>6 DEF Dispatches, assembly, BoundInv, With, Known, vars
<1>7. ASSUME UNCHANGED <<specs, bound, dispatching>>, ~Hook
      PROVE  BoundInv'
  <2>1. Known' = Known /\ With({"whole"})' = With({"whole"})
    BY <1>7 DEF With, Known
  <2>2. /\ pc' = "done" <=> pc = "done"
        /\ pc' \in {"new", "hook"} => pc \in {"new", "hook"}
    BY <1>7, PcMoves DEF Hook
  <2> QED BY <1>7, <2>1, <2>2 DEF BoundInv
<1>8. ASSUME NEW s \in Services, AddService(s) \/ GrantOrderedStream(s)
      PROVE  UNCHANGED <<specs, bound, dispatching>>
  BY <1>8 DEF AddService, GrantOrderedStream
<1> QED BY <1>1, <1>2, <1>3, <1>4, <1>5, <1>6, <1>7, <1>8, AssemblyFrame DEF Hook

-----------------------------------------------------------------------------
(* The engines.                                                            *)

\* Who else moves leaves the engines alone.
LEMMA EngineFrame ==
  ASSUME [AppNext]_allVars
  PROVE  \/ Hook
         \/ \E h \in Handlers : HandlerJoins(h) \/ \E r \in Engined : HandlerCloses(h, r)
         \/ UNCHANGED <<engine, sealedBy, joining>>
<1>1. ASSUME NEW c \in Runners, Run(c)
      PROVE  UNCHANGED <<engine, sealedBy, joining>>
  BY <1>1 DEF Run, RunEnters, RunOnce, ConfigRejected, Publishes, ParksState, Revokes, Returns,
              engineVars, Rest, Aside
<1>2. CASE OtherRuns \/ RequestLocks \/ RequestTells
  BY <1>2 DEF OtherRuns, RequestLocks, RequestTells, engineVars, Rest, Aside
<1>3. CASE HostSteps \/ Beside \/ UNCHANGED allVars
  BY <1>3 DEF HostSteps, Beside, allVars, appVars, engineVars
<1>4. ASSUME NEW r \in Resources, AddResource(r)
      PROVE  UNCHANGED <<engine, sealedBy, joining>>
  BY <1>4 DEF AddResource, engineVars
<1>5. ASSUME NEW s \in Services, AddService(s) \/ GrantOrderedStream(s)
      PROVE  UNCHANGED <<engine, sealedBy, joining>>
  BY <1>5 DEF AddService, GrantOrderedStream, engineVars
<1>6. ASSUME NEW h \in Handlers, Dispatches(h)
      PROVE  UNCHANGED <<engine, sealedBy, joining>>
  BY <1>6 DEF Dispatches, engineVars
<1> QED BY <1>1, <1>2, <1>3, <1>4, <1>5, <1>6 DEF AppNext

\* A handler inside Close stays inside.
LEMMA InflightFrame ==
  ASSUME IInv, [AppNext]_allVars
  PROVE  \A h \in inflight : joining[h] # "none" => h \in inflight'
<1>1. CASE RequestTells
  BY <1>1 DEF RequestTells, NotifyRequest, gate
<1> QED BY <1>1, VarsFrame, HostStepsMoves, HookFrame, BesideMoves DEF vars

LEMMA EngineTypeStep ==
  ASSUME AppTypeOK, [AppNext]_allVars
  PROVE  EngineTypeOK'
<1> USE DEF AppTypeOK, EngineTypeOK
<1>1. ASSUME NEW r \in Factories, ResourceStarts(r) \/ ResourceFails(r)
      PROVE  EngineTypeOK'
  BY <1>1, HookFrame DEF Hook, ResourceStarts, ResourceFails, EngineCreated, engineVars
<1>2. CASE ClosesDrained \/ ClosesRest
  BY <1>2, ClosesDoes DEF CloseResources, EnginesClosed
<1>3. CASE BindsServices \/ Releases
  BY <1>3, BindsDoes, ReleasesDoes DEF engineVars
<1>4. ASSUME NEW h \in Handlers, HandlerJoins(h)
      PROVE  EngineTypeOK'
  BY <1>4 DEF HandlerJoins, UserJoins
<1>5. ASSUME NEW h \in Handlers, NEW r \in Engined, HandlerCloses(h, r)
      PROVE  EngineTypeOK'
  BY <1>5 DEF HandlerCloses, UserSeals
<1>6. CASE UNCHANGED <<engine, sealedBy, joining>>
  BY <1>6
<1> QED BY <1>1, <1>2, <1>3, <1>4, <1>5, <1>6, EngineFrame DEF Hook

\* An engine that is created was none before.
LEMMA CreatedStep ==
  ASSUME AppTypeOK, EngineInv, ResourceInv, UNCHANGED <<shut, joining, inflight>>,
         NEW r \in Known, r \in With({"registered"}), EngineCreated(r),
         With({"half", "whole"})' = With({"half", "whole"}) \cup {r}
  PROVE  EngineInv'
<1> USE DEF AppTypeOK, EngineTypeOK
<1>1. r \notin With({"half", "whole"})
  BY DEF With
<1>2. r \in Engined => engine[r] = "none" /\ sealedBy[r] = "nobody" /\ r \notin shut
  BY <1>1 DEF EngineInv, ResourceInv
<1>3. /\ sealedBy' = sealedBy
      /\ \A q \in Engined : engine'[q] = IF q = r THEN "running" ELSE engine[q]
  BY DEF EngineCreated
<1>4. \A h \in Handlers : joining[h] # "none" => joining[h] \in Engined /\ joining[h] # r
  BY <1>2 DEF EngineInv
<1> QED BY <1>2, <1>3, <1>4 DEF EngineInv

\* An engine that runs has somebody who joins it (RedisNetResource::Close).
LEMMA EngineStep ==
  ASSUME AppTypeOK, IInv, RunInv, OnceInv, ResourceInv, EngineInv, [AppNext]_allVars
  PROVE  EngineInv'
<1> USE DEF AppTypeOK, EngineTypeOK
<1>1. ASSUME NEW r \in Factories, ResourceStarts(r)
      PROVE  EngineInv'
  <2>1. /\ UNCHANGED <<shut, joining, inflight>> /\ r \in Known
        /\ r \in With({"registered"}) /\ EngineCreated(r)
    BY <1>1, StartsDoes, HookFrame DEF Hook, With
  <2>2. With({"half", "whole"})' = With({"half", "whole"}) \cup {r}
    BY <1>1, StartsDoes
  <2> QED BY <2>1, <2>2, CreatedStep
<1>2. ASSUME NEW r \in Factories, ResourceFails(r)
      PROVE  EngineInv'
  <2>1. /\ UNCHANGED <<shut, joining, inflight>> /\ r \in Known
        /\ r \in With({"registered"}) /\ r \notin With({"half", "whole"})
    BY <1>2, FailsDoes, HookFrame DEF Hook, With
  <2>2. \/ With({"half", "whole"})' = With({"half", "whole"}) /\ UNCHANGED engineVars
        \/ With({"half", "whole"})' = With({"half", "whole"}) \cup {r} /\ EngineCreated(r)
    BY <1>2, <2>1, FailsDoes
  <2>3. CASE With({"half", "whole"})' = With({"half", "whole"}) /\ UNCHANGED engineVars
    BY <2>1, <2>3 DEF EngineInv, engineVars
  <2>4. CASE With({"half", "whole"})' = With({"half", "whole"}) \cup {r} /\ EngineCreated(r)
    BY <2>1, <2>4, CreatedStep
  <2> QED BY <2>2, <2>3, <2>4
<1>3. CASE ClosesDrained \/ ClosesRest
  <2>1. UNCHANGED <<specs, joining, inflight>>
    BY <1>3, ClosesDoes, HookFrame DEF Hook
  <2>2. With({"half", "whole"})' = With({"half", "whole"})
    BY <2>1 DEF With, Known
  <2>3. ASSUME NEW r \in Engined
        PROVE  /\ r \in Unclosed /\ sealedBy[r] = "nobody"
                    => engine'[r] = "stopped" /\ sealedBy'[r] = "run"
               /\ r \notin Unclosed \/ sealedBy[r] # "nobody"
                    => engine'[r] = engine[r] /\ sealedBy'[r] = sealedBy[r]
    BY <1>3, ClosesDoes DEF CloseResources, EnginesClosed, Sealed
  <2>4. shut' = shut \cup Unclosed /\ Unclosed \subseteq With({"half", "whole"})
    BY <1>3, ClosesDoes DEF CloseResources, Unclosed
  <2> QED BY <2>1, <2>2, <2>3, <2>4 DEF EngineInv
<1>4. CASE BindsServices \/ Releases
  <2>1. UNCHANGED <<specs, shut, engine, sealedBy, joining, inflight>>
    BY <1>4, BindsDoes, ReleasesDoes, HookFrame DEF Hook, engineVars
  <2> QED BY <2>1 DEF EngineInv, With, Known
<1>5. ASSUME NEW h \in Handlers, HandlerJoins(h)
      PROVE  EngineInv'
  <2>1. UNCHANGED <<specs, shut, inflight, sealedBy>>
    BY <1>5 DEF HandlerJoins, vars, assembly, UserJoins
  <2>2. /\ joining[h] \in Engined
        /\ engine' = [engine EXCEPT ![joining[h]] = "stopped"]
        /\ joining' = [joining EXCEPT ![h] = "none"]
        /\ engine[joining[h]] = "running"
    BY <1>5 DEF HandlerJoins, UserJoins
  <2>3. With({"half", "whole"})' = With({"half", "whole"})
    BY <2>1 DEF With, Known
  <2> QED BY <2>1, <2>2, <2>3 DEF EngineInv
<1>6. ASSUME NEW h \in Handlers, NEW r \in Engined, HandlerCloses(h, r)
      PROVE  EngineInv'
  <2>1. UNCHANGED <<specs, shut, inflight, engine>> /\ h \in inflight
    BY <1>6 DEF HandlerCloses, vars, assembly, UserSeals
  <2>2. /\ engine[r] = "running" /\ sealedBy[r] = "nobody"
        /\ sealedBy' = [sealedBy EXCEPT ![r] = "user"]
        /\ joining' = [joining EXCEPT ![h] = r]
        /\ joining[h] = "none"
    BY <1>6 DEF HandlerCloses, UserSeals, Sealed
  <2>3. With({"half", "whole"})' = With({"half", "whole"})
    BY <2>1 DEF With, Known
  <2>4. \A g \in Handlers : joining[g] # r
    BY <2>2, EnginedAssumption DEF EngineInv
  <2>5. /\ \A g \in Handlers : joining'[g] = IF g = h THEN r ELSE joining[g]
        /\ \A q \in Engined : sealedBy'[q] = IF q = r THEN "user" ELSE sealedBy[q]
    BY <2>2
  <2>6. ASSUME NEW q \in Engined, sealedBy'[q] = "user", engine'[q] = "running"
        PROVE  \E g \in inflight' : joining'[g] = q
    <3>1. CASE q = r
      BY <2>1, <2>5, <3>1
    <3>2. CASE q # r
      <4>1. PICK g \in inflight : joining[g] = q
        BY <2>1, <2>5, <2>6, <3>2 DEF EngineInv
      <4>2. g # h /\ g \in Handlers
        BY <2>2, <4>1, EnginedAssumption DEF TypeOK, GateTypeOK
      <4> QED BY <2>1, <2>5, <4>1, <4>2
    <3> QED BY <3>1, <3>2
  <2>7. ASSUME NEW g \in Handlers, joining'[g] # "none"
        PROVE  /\ g \in inflight' /\ engine'[joining'[g]] = "running"
               /\ sealedBy'[joining'[g]] = "user"
    <3>1. CASE g = h
      BY <2>1, <2>2, <2>5, <3>1
    <3>2. CASE g # h
      BY <2>1, <2>4, <2>5, <2>7, <3>2 DEF EngineInv
    <3> QED BY <3>1, <3>2
  <2>8. \A g, k \in Handlers : joining'[g] = joining'[k] /\ joining'[g] # "none" => g = k
    BY <2>4, <2>5 DEF EngineInv
  <2>9. \A q \in Engined :
          /\ engine'[q] # "none" => q \in With({"half", "whole"})'
          /\ engine'[q] = "running" /\ sealedBy'[q] = "nobody" => q \notin shut'
          /\ sealedBy'[q] = "run" => engine'[q] = "stopped"
          /\ sealedBy'[q] = "user" => engine'[q] # "none"
    BY <2>1, <2>2, <2>3, <2>5 DEF EngineInv
  <2> QED BY <2>6, <2>7, <2>8, <2>9 DEF EngineInv
<1>7. ASSUME UNCHANGED <<engine, sealedBy, joining>>, ~Hook
      PROVE  EngineInv'
  <2>1. shut' = shut
    BY <1>7, AssemblyFrame, AddResourceDoes DEF AddService, GrantOrderedStream, Dispatches, assembly
  <2>2. With({"half", "whole"}) \subseteq With({"half", "whole"})'
    <3>1. ASSUME NEW r \in Resources, AddResource(r)
          PROVE  With({"half", "whole"}) \subseteq With({"half", "whole"})'
      <4>1. r \notin With({"half", "whole"})
        BY <3>1, AddResourceDoes DEF With
      <4> QED BY <3>1, <4>1, AddResourceDoes
    <3>2. specs' = specs => With({"half", "whole"}) \subseteq With({"half", "whole"})'
      BY DEF With, Known
    <3> QED BY <1>7, <3>1, <3>2, AssemblyFrame DEF AddService, GrantOrderedStream, Dispatches, assembly
  <2>3. \A h \in inflight : joining[h] # "none" => h \in inflight'
    BY InflightFrame
  <2> QED BY <1>7, <2>1, <2>2, <2>3, EnginedAssumption DEF EngineInv
<1> QED BY <1>1, <1>2, <1>3, <1>4, <1>5, <1>6, <1>7, EngineFrame DEF Hook

-----------------------------------------------------------------------------
(* The application as a whole.                                             *)

LEMMA AppInitInv == AppInit => AppInv
<1> SUFFICES ASSUME AppInit PROVE AppInv
  OBVIOUS
<1> USE DEF AppInit, MembersInit, EngineInit
<1>1. IInv
  BY InitInv
<1>2. Known = {} /\ \A s : With(s) = {}
  BY DEF Known, With
<1>3. Unclosed = {}
  BY <1>2 DEF Unclosed
<1>4. /\ pc = "new" /\ request = "none"
  BY DEF Init
<1>5. RunTypeOK /\ RunInv /\ OnceInv /\ ReaderInv
  BY <1>4 DEF RunTypeOK, RunInv, OnceInv, ReaderInv, Engaged
<1>6. AssemblyTypeOK /\ BoundInv
  BY <1>2, <1>4 DEF AssemblyTypeOK, BoundInv
<1>7. ResourceInv
  BY <1>2, <1>3, <1>4 DEF ResourceInv
<1>8. EngineTypeOK /\ EngineInv
  BY DEF EngineTypeOK, EngineInv
<1> QED BY <1>1, <1>5, <1>6, <1>7, <1>8 DEF AppInv, AppTypeOK, IInv

LEMMA AppNextInv == AppInv /\ [AppNext]_allVars => AppInv'
<1> SUFFICES ASSUME AppInv, [AppNext]_allVars PROVE AppInv'
  OBVIOUS
<1> USE DEF AppInv
<1>1. IInv'
  BY Simulation, NextInv
<1>2. AppTypeOK'
  BY <1>1, RunTypeStep, AssemblyTypeStep, EngineTypeStep DEF AppTypeOK, IInv
<1>3. RunInv' /\ OnceInv' /\ ReaderInv'
  BY RunStep, OnceStep, ReaderStep
<1>4. ResourceInv' /\ BoundInv' /\ EngineInv'
  BY ResourceStep, BoundStep, EngineStep
<1> QED BY <1>1, <1>2, <1>3, <1>4

LEMMA AppInvariance == AppSpec => []AppInv
<1> QED BY AppInitInv, AppNextInv, PTL DEF AppSpec

\* The application runs one host lifecycle, as HostLifecycle specifies it,
\* whatever registers, requests, dispatches and runs again beside it (run).
THEOREM RunsOneLifecycle == AppSpec => Spec
<1>1. AppInit => Init
  BY DEF AppInit
<1>2. AppInv /\ [AppNext]_allVars => [Next]_vars
  BY Simulation DEF AppInv
<1> QED BY <1>1, <1>2, AppInvariance, PTL DEF AppSpec, Spec

\* What is proved of the lifecycle holds inside the application: the release is
\* behind the close, and the exit code tells the truth (_ShutDown, Run).
THEOREM LifecycleInApp == AppSpec => [](ReleaseBehindClose /\ ExitTellsTruth)
<1> QED BY RunsOneLifecycle, ReleasedBehindClose, ExitIsTrue, PTL

\* One thread of one application is inside run, which the published pointer
\* tells truly to requests (run, request_shutdown).
THEOREM OneRun == AppSpec => []OneRunInProcess
<1>1. ASSUME AppInv
      PROVE  OneRunInProcess
  <2> USE <1>1 DEF AppInv
  <2> DEFINE In == {c \in Runners : stage[c] \notin {"outside", "returned"}}
  <2>1. Cardinality(In) = IF active = "this" THEN 1 ELSE 0
    <3>1. CASE active = "this"
      <4>1. PICK c \in Runners : Engaged(c)
        BY <3>1 DEF RunInv
      <4>2. In = {c}
        BY <4>1 DEF RunInv, Engaged
      <4> QED BY <3>1, <4>2, FS_Singleton
    <3>2. CASE active # "this"
      <4>1. In = {}
        BY <3>2 DEF RunInv, Engaged
      <4> QED BY <3>2, <4>1, FS_EmptySet
    <3> QED BY <3>1, <3>2
  <2>2. pc \notin {"new", "done"} => \E c \in In : stage[c] = "inside"
    BY DEF RunInv
  <2>3. published <=> \E c \in In : stage[c] \in {"inside", "parking"}
    BY DEF RunInv
  <2> HIDE DEF In
  <2> QED BY <2>1, <2>2, <2>3 DEF OneRunInProcess, ReaderInv, In
<1> QED BY <1>1, AppInvariance, PTL

\* Whatever run leaves behind was closed once, and no handler that was waited
\* for sees it closed (_StartResources, _CloseResources, RedisNetResource).
THEOREM ResourcesAreSettled == AppSpec => []ResourcesSettled
<1>1. ASSUME AppInv
      PROVE  ResourcesSettled
  <2> USE <1>1 DEF AppInv
  <2>1. \A r \in Resources : closes[r] = IF r \in shut THEN 1 ELSE 0
    BY DEF ResourceInv
  <2>2. inflight # {} /\ pc \in Ending => interrupted
    BY DEF IInv, GateShut, Settled, DrainedOk
  <2>3. inflight # {} => drainHook = "due"
    BY DEF IInv, TypeOK, EndTypeOK, Settled, DrainedOk
  <2>4. ASSUME NEW h \in dispatching \cap inflight
        PROVE  Known \subseteq visible /\ (shut # {} => interrupted)
    BY <2>2, <2>3, <2>4 DEF ResourceInv, BoundInv
  <2>5. pc = "parked" => shut = {} /\ bound # "released"
    BY DEF ResourceInv, BoundInv, IInv, Settled, Ending
  <2>6. pc = "done" => Unclosed = {} /\ bound = "released"
    BY DEF ResourceInv, BoundInv
  <2>7. ASSUME pc = "done", NEW r \in Engined, engine[r] = "running"
        PROVE  interrupted /\ \E h \in inflight : joining[h] = r
    <3>1. r \in shut
      BY <2>6, <2>7 DEF EngineInv, Unclosed
    <3>2. sealedBy[r] = "user"
      BY <2>7, <3>1 DEF EngineInv, AppTypeOK, EngineTypeOK
    <3>3. \E h \in inflight : joining[h] = r
      BY <2>7, <3>2 DEF EngineInv
    <3> QED BY <2>2, <2>7, <3>3 DEF Ending
  <2> QED BY <2>1, <2>4, <2>5, <2>6, <2>7 DEF ResourcesSettled, ResourceInv
<1> QED BY <1>1, AppInvariance, PTL

\* Resources close behind the last handler, unless a Close from outside cut the
\* drain short: then only on_release closes them, behind the closed host
\* (_WaitHandlersDone, _ShutDown, on_handlers_drained, on_release).
THEOREM HandlersOutlived == AppSpec => []ResourcesOutliveHandlers
<1>1. ASSUME AppInv
      PROVE  ResourcesOutliveHandlers
  <2> USE <1>1 DEF AppInv
  <2>1. drainHook = "run" => inflight = {} /\ result = "ok"
    BY DEF IInv, Settled, DrainedOk
  <2>2. ASSUME shut # {}, inflight # {}
        PROVE  interrupted /\ closing = "done" /\ pc \in {"release", "done"}
    <3>1. pc \in Ending
      BY <2>1, <2>2 DEF ResourceInv
    <3>2. created
      BY <2>2 DEF IInv, GateShut
    <3>3. closing = "done" /\ interrupted
      BY <2>1, <2>2, <3>1, <3>2 DEF IInv, Settled
    <3> QED BY <3>1, <3>3 DEF Ending
  <2> QED BY <2>1, <2>2 DEF ResourcesOutliveHandlers
<1> QED BY <1>1, AppInvariance, PTL

\* What the lifecycle shows of itself only goes forward.
LEMMA ShownForward ==
  ASSUME IInv, HostSteps \/ Hook
  PROVE  Rank(Shown(phase')) >= Rank(Shown(phase))
<1> USE DEF IInv, PhaseKnown, Shown, Rank
<1>1. \/ phase' = phase
      \/ pc = "new" /\ phase' = "Starting"
      \/ pc = "start" /\ phase' = "Running"
      \/ pc = "shutdown" /\ phase' = "Closing"
      \/ pc = "judge1" /\ phase' = "ShutdownIncomplete"
      \/ pc = "release" /\ phase' \in {"Failed", "Closed"}
  <2>1. CASE HostSteps
    BY <2>1 DEF HostSteps, RunStarts, HostCreates, EnginesRun, HostStarts, StartFails,
                CheckRequest, FallAsleep, BeginShutdown, StopAccepting, EnterWait, WaitEnds,
                HandlersGone, ServerDrains, JudgeFirst, JudgeAgain, HostCloses, WaitUnchanged, Goto
  <2>2. ASSUME NEW r \in Factories, ResourceStarts(r) \/ ResourceFails(r)
        PROVE  phase' = phase
    BY <2>2 DEF ResourceStarts, ResourceFails, StartFails, vars
  <2>3. CASE BindsServices \/ ClosesDrained \/ ClosesRest
    BY <2>3 DEF BindsServices, HookEnds, StartFails, ClosesDrained, HandlersDrained, ClosesRest, vars
  <2>4. CASE Releases
    BY <2>4 DEF Releases, Release, Goto
  <2> QED BY <2>1, <2>2, <2>3, <2>4 DEF Hook
<1>2. phase \in {"Idle", "Starting", "Running", "Closing", "ShutdownIncomplete", "Closed", "Failed"}
  BY DEF TypeOK, ControlTypeOK
<1>3. CASE phase' = phase
  BY <1>2, <1>3
<1>4. CASE (pc = "new" /\ phase' = "Starting") \/ (pc = "start" /\ phase' = "Running")
  BY <1>4
<1>5. CASE pc = "shutdown" /\ phase' = "Closing"
  BY <1>5
<1>6. CASE pc = "judge1" /\ phase' = "ShutdownIncomplete"
  BY <1>6 DEF Draining
<1>7. CASE pc = "release" /\ phase' \in {"Failed", "Closed"}
  BY <1>7
<1> QED BY <1>1, <1>3, <1>4, <1>5, <1>6, <1>7

\* The state that is shown never goes back, but for the Closing of a request
\* before the start; streams are granted before any dispatcher is published
\* (shutdown_state, revoke_publish, grant_ordered_stream).
THEOREM StateGoesForward == AppSpec => StateNeverGoesBack
<1>1. ASSUME AppInv, [AppNext]_allVars, granted' # granted
      PROVE  bound = "none"
  <2> USE <1>1 DEF AppInv
  <2>1. ASSUME Hook
        PROVE  granted' = granted
    BY <2>1, StartsDoes, FailsDoes, BindsDoes, ClosesDoes, ReleasesDoes DEF Hook
  <2>2. ASSUME NEW r \in Resources, AddResource(r)
        PROVE  granted' = granted
    BY <2>2, AddResourceDoes
  <2>3. registering
    BY <1>1, <2>1, <2>2, AssemblyFrame DEF AddService, GrantOrderedStream, Dispatches, assembly
  <2> QED BY <2>3 DEF OnceInv, BoundInv
<1>2. ASSUME AppInv, [AppNext]_allVars
      PROVE  Rank(State') < Rank(State) => ~published /\ published' /\ State = "Closing"
  <2> USE <1>2 DEF AppInv
  <2>1. /\ phase \in {"Idle", "Starting", "Running", "Closing", "ShutdownIncomplete", "Closed", "Failed"}
        /\ parkedState \in {"Running", "Closing", "ShutdownIncomplete", "Closed"}
        /\ published \in BOOLEAN
    BY DEF IInv, TypeOK, ControlTypeOK, AppTypeOK, RunTypeOK
  <2>2. Rank(State) \in Nat
    BY <2>1 DEF State, Shown, Rank
  <2>3. ASSUME State' = State
        PROVE  ~(Rank(State') < Rank(State))
    BY <2>2, <2>3
  <2>4. ASSUME NEW c \in Runners, Run(c)
        PROVE  \/ State' = State
               \/ ~published /\ published' /\ State = "Closing"
    <3>1. phase' = phase
      BY <2>4 DEF Run, RunEnters, RunOnce, ConfigRejected, Publishes, ParksState, Revokes, Returns, vars
    <3>2. CASE Publishes(c)
      <4>1. stage[c] = "validating" /\ published' /\ phase' = "Idle"
        BY <3>1, <3>2 DEF Publishes, Step, OnceInv, IInv, PhaseKnown
      <4>2. ~published /\ parkedState \in {"Running", "Closing"}
        BY <4>1 DEF RunInv, Engaged, OnceInv
      <4> QED BY <4>1, <4>2 DEF State, Shown
    <3>3. CASE ParksState(c)
      BY <3>1, <3>3 DEF ParksState, Step, RunInv, State
    <3>4. CASE Revokes(c)
      <4>1. stage[c] = "parking" /\ ~published' /\ parkedState' = parkedState
        BY <3>4, <2>1 DEF Revokes, Step
      <4> QED BY <4>1 DEF OnceInv, RunInv, State
    <3>5. CASE RunEnters(c) \/ RunOnce(c) \/ ConfigRejected(c) \/ Returns(c)
      <4>1. UNCHANGED <<published, parkedState>>
        BY <3>5 DEF RunEnters, RunOnce, ConfigRejected, Returns
      <4> QED BY <3>1, <4>1 DEF State, Shown
    <3> QED BY <2>4, <3>2, <3>3, <3>4, <3>5 DEF Run
  <2>5. CASE RequestTells
    <3>1. UNCHANGED <<published, phase>>
      BY <2>5 DEF RequestTells, NotifyRequest
    <3>2. \/ reader = "lifecycle" /\ published /\ parkedState' = parkedState
          \/ reader = "parked" /\ ~published /\ parkedState' = Intent(parkedState)
      BY <2>5 DEF RequestTells, ReaderInv, AppTypeOK, RunTypeOK
    <3>3. CASE published
      BY <2>3, <3>1, <3>2, <3>3 DEF State
    <3>4. CASE ~published
      <4>1. State = parkedState /\ State' = Intent(parkedState)
        BY <3>1, <3>2, <3>4 DEF State
      <4> QED BY <2>1, <4>1 DEF Intent, Rank
    <3> QED BY <3>3, <3>4
  <2>6. CASE HostSteps \/ Hook
    <3>1. UNCHANGED <<published, parkedState>>
      BY <2>6 DEF HostSteps, appVars, running, Hook, ResourceStarts, ResourceFails, BindsServices,
                  ClosesDrained, ClosesRest, Releases, Assembled, Hooked
    <3>2. Rank(Shown(phase')) >= Rank(Shown(phase))
      BY <2>6, ShownForward
    <3>3. CASE published
      <4>1. State = Shown(phase) /\ State' = Shown(phase')
        BY <3>1, <3>3 DEF State
      <4>2. Rank(State') >= Rank(State)
        BY <3>2, <4>1
      <4>3. Rank(State') \in Nat
        <5>1. phase' \in {"Idle", "Starting", "Running", "Closing", "ShutdownIncomplete", "Closed", "Failed"}
          BY AppNextInv DEF IInv, TypeOK, ControlTypeOK
        <5> QED BY <4>1, <5>1 DEF Shown, Rank
      <4> QED BY <2>2, <4>2, <4>3
    <3>4. CASE ~published
      BY <2>3, <3>1, <3>4 DEF State
    <3> QED BY <3>3, <3>4
  <2>7. ASSUME UNCHANGED <<published, parkedState, phase>>
        PROVE  State' = State
    BY <2>7 DEF State, Shown
  <2>8. CASE OtherRuns \/ RequestLocks \/ Beside \/ UNCHANGED allVars
    <3>1. UNCHANGED <<published, parkedState, phase>>
      BY <2>8, BesideMoves DEF OtherRuns, RequestLocks, allVars, appVars, vars, running
    <3> QED BY <2>3, <2>7, <3>1
  <2>9. ASSUME NEW r \in Resources, AddResource(r)
        PROVE  UNCHANGED <<published, parkedState, phase>>
    BY <2>9 DEF AddResource, vars, running
  <2>10. ASSUME NEW s \in Services, AddService(s) \/ GrantOrderedStream(s)
         PROVE  UNCHANGED <<published, parkedState, phase>>
    BY <2>10 DEF AddService, GrantOrderedStream, vars, running
  <2>11. ASSUME NEW h \in Handlers,
                Dispatches(h) \/ HandlerJoins(h) \/ \E r \in Engined : HandlerCloses(h, r)
         PROVE  UNCHANGED <<published, parkedState, phase>>
    BY <2>11 DEF Dispatches, HandlerJoins, HandlerCloses, vars, running
  <2> QED BY <2>3, <2>4, <2>5, <2>6, <2>7, <2>8, <2>9, <2>10, <2>11 DEF AppNext
<1>3. AppInv /\ [AppNext]_allVars =>
        [/\ Rank(State') < Rank(State) => ~published /\ published' /\ State = "Closing"
         /\ granted' # granted => bound = "none"]_allVars
  BY <1>1, <1>2
<1> QED BY <1>3, AppInvariance, PTL DEF AppSpec, StateNeverGoesBack
================================================================================
