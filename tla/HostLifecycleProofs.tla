-------------------------- MODULE HostLifecycleProofs --------------------------
(***************************************************************************)
(* The closing sequence for any number of handlers, whatever may fail and  *)
(* whoever may close the host meanwhile.                                   *)
(*                                                                         *)
(* That no handler runs behind on_handlers_drained is a fact about four    *)
(* places of the code: the gate stays shut from StopAccepting on, the      *)
(* server is drained only with no handler left, only its success counts as *)
(* drained, and nothing later overwrites that result.                      *)
(***************************************************************************)
EXTENDS HostLifecycle, TLAPS

\* The places behind StopAccepting, up to Close.
Draining == {"enter1", "wait1", "server1", "judge1", "enter2", "wait2", "server2", "judge2",
             "parked", "drained", "close"}
Ending == {"release", "done"}

\* The gate: shut behind StopAccepting and behind the start of a Close, and
\* nobody is inside before the host exists.
GateShut ==
  /\ pc \in {"new", "hook", "create"} => ~created
  /\ pc \in {"engines", "start", "running", "predicate", "falling", "asleep", "stop"} \cup Draining
       => created
  /\ created /\ pc \in Draining \cup Ending => ~open
  /\ closing # "none" => ~open /\ created
  /\ ~created => inflight = {}

\* Only a drain that found no handler is called ok, and the result of the last
\* drain is kept.
DrainedOk ==
  /\ pc \in {"server1", "server2"} \/ result = "ok" => inflight = {}
  /\ pc = "drained" => result = "ok"
  /\ result = "ok" => pc \in {"judge1", "judge2", "drained", "close"} \cup Ending

\* What is settled when the closing sequence comes to its end.
Settled ==
  /\ drainHook = "run" => pc \in {"close"} \cup Ending /\ result = "ok"
  /\ created /\ pc \in {"close"} \cup Ending => drainHook = "run" \/ interrupted
  /\ created /\ pc \in Ending => closing = "done"
  /\ interrupted => failed

\* The exit code is written by a start that failed and by the end of Run.
ExitKnown ==
  /\ pc # "done" => exit \in {"none", "StartFailed"} /\ ~released
  /\ pc \in {"shutdown"} \cup Ending /\ ~created => exit \in {"StartFailed", "Rejected"}
  /\ ExitTellsTruth
  /\ released => pc = "done"

\* What m_phase says of the place.
PhaseKnown ==
  /\ pc = "new" => phase = "Idle"
  /\ pc \in {"hook", "create", "engines", "start"} => phase = "Starting"
  /\ pc \in {"running", "predicate", "falling", "asleep"} => phase = "Running"
  /\ pc = "shutdown" => phase \in {"Starting", "Running"}
  /\ pc \in {"stop", "release"} \cup Draining => phase \in {"Closing", "ShutdownIncomplete"}
  /\ pc = "done" => phase \in {"Closed", "Failed"}

IInv == TypeOK /\ GateShut /\ DrainedOk /\ Settled /\ ExitKnown /\ PhaseKnown

LEMMA InitInv == Init => IInv
  BY SwitchAssumption
  DEF Init, IInv, TypeOK, ControlTypeOK, GateTypeOK, DrainTypeOK, EndTypeOK,
      GateShut, DrainedOk, Settled, ExitKnown, ExitTellsTruth, PhaseKnown, Draining, Ending

\* The parts of the type that a step leaves alone.
LEMMA Frame ==
  ASSUME TypeOK
  PROVE  /\ UNCHANGED <<pc, phase, requested, request>> => ControlTypeOK'
         /\ UNCHANGED <<created, open, inflight, finished, stateReason, hostReason, closing>>
              => GateTypeOK'
         /\ UNCHANGED <<result, timedOut, interrupted, exceeded>> => DrainTypeOK'
         /\ UNCHANGED <<failed, serverFailed, drainHook, released, exit>> => EndTypeOK'
  BY DEF TypeOK, ControlTypeOK, GateTypeOK, DrainTypeOK, EndTypeOK

\* Steps before the shutdown (Run, InfraHttpHost::Create and Start).
LEMMA StartInv ==
  ASSUME IInv, RunRejected \/ RunStarts \/ StartStep \/ StartFails
  PROVE  IInv'
<1> USE DEF IInv, gate, asked, drainLocals, ending, Goto, Draining, Ending
<1>1. CASE RunRejected
  <2> USE <1>1 DEF RunRejected
  <2>1. TypeOK'
    BY Frame DEF TypeOK, ControlTypeOK, EndTypeOK
  <2>2. GateShut'
    BY DEF TypeOK, ControlTypeOK, GateTypeOK, GateShut
  <2>3. DrainedOk'
    BY DEF TypeOK, ControlTypeOK, GateTypeOK, DrainTypeOK, GateShut, DrainedOk
  <2>4. Settled'
    BY DEF TypeOK, ControlTypeOK, GateTypeOK, DrainTypeOK, EndTypeOK, GateShut,
           DrainedOk, Settled
  <2>5. ExitKnown'
    BY DEF TypeOK, ControlTypeOK, GateTypeOK, DrainTypeOK, EndTypeOK, GateShut,
           Settled, ExitKnown, ExitTellsTruth
  <2>6. PhaseKnown'
    BY DEF TypeOK, ControlTypeOK, PhaseKnown
  <2> QED BY <2>1, <2>2, <2>3, <2>4, <2>5, <2>6
<1>2. CASE RunStarts
  <2> USE <1>2 DEF RunStarts
  <2>1. TypeOK'
    BY Frame DEF TypeOK, ControlTypeOK
  <2>2. GateShut'
    BY DEF TypeOK, ControlTypeOK, GateTypeOK, GateShut
  <2>3. DrainedOk'
    BY DEF TypeOK, ControlTypeOK, GateTypeOK, DrainTypeOK, GateShut, DrainedOk
  <2>4. Settled'
    BY DEF TypeOK, ControlTypeOK, GateTypeOK, DrainTypeOK, EndTypeOK, GateShut,
           DrainedOk, Settled
  <2>5. ExitKnown'
    BY DEF TypeOK, ControlTypeOK, GateTypeOK, DrainTypeOK, EndTypeOK, GateShut,
           Settled, ExitKnown, ExitTellsTruth
  <2>6. PhaseKnown'
    BY DEF TypeOK, ControlTypeOK, PhaseKnown
  <2> QED BY <2>1, <2>2, <2>3, <2>4, <2>5, <2>6
<1>3. CASE StartStep
  <2> USE <1>3 DEF StartStep, HookEnds, HostCreates, EnginesRun, HostStarts
  <2>1. TypeOK'
    <3>1. ControlTypeOK'
      BY DEF TypeOK, ControlTypeOK
    <3>2. GateTypeOK'
      BY DEF TypeOK, GateTypeOK
    <3> QED BY <3>1, <3>2, Frame DEF TypeOK
  <2>2. GateShut'
    BY DEF TypeOK, ControlTypeOK, GateTypeOK, GateShut
  <2>3. DrainedOk'
    BY DEF TypeOK, ControlTypeOK, GateTypeOK, DrainTypeOK, GateShut, DrainedOk
  <2>4. Settled'
    BY DEF TypeOK, ControlTypeOK, GateTypeOK, DrainTypeOK, EndTypeOK, GateShut,
           DrainedOk, Settled
  <2>5. ExitKnown'
    BY DEF TypeOK, ControlTypeOK, GateTypeOK, DrainTypeOK, EndTypeOK, GateShut,
           Settled, ExitKnown, ExitTellsTruth
  <2>6. PhaseKnown'
    BY DEF TypeOK, ControlTypeOK, PhaseKnown
  <2> QED BY <2>1, <2>2, <2>3, <2>4, <2>5, <2>6
<1>4. CASE StartFails
  <2> USE <1>4 DEF StartFails
  <2>1. TypeOK'
    <3>1. ControlTypeOK'
      BY DEF TypeOK, ControlTypeOK
    <3>2. EndTypeOK'
      BY DEF TypeOK, EndTypeOK
    <3> QED BY <3>1, <3>2, Frame DEF TypeOK
  <2>2. GateShut'
    BY DEF TypeOK, ControlTypeOK, GateTypeOK, GateShut
  <2>3. DrainedOk'
    BY DEF TypeOK, ControlTypeOK, GateTypeOK, DrainTypeOK, GateShut, DrainedOk
  <2>4. Settled'
    BY DEF TypeOK, ControlTypeOK, GateTypeOK, DrainTypeOK, EndTypeOK, GateShut,
           DrainedOk, Settled
  <2>5. ExitKnown'
    BY DEF TypeOK, ControlTypeOK, GateTypeOK, DrainTypeOK, EndTypeOK, GateShut,
           Settled, ExitKnown, ExitTellsTruth
  <2>6. PhaseKnown'
    BY DEF TypeOK, ControlTypeOK, PhaseKnown
  <2> QED BY <2>1, <2>2, <2>3, <2>4, <2>5, <2>6
<1> QED BY <1>1, <1>2, <1>3, <1>4

\* Steps of the wait for a request and of the request (Run, RequestShutdown).
LEMMA RequestInv ==
  ASSUME IInv, CheckRequest \/ FallAsleep \/ SpuriousWake \/ StoreRequest \/ NotifyRequest
  PROVE  IInv'
<1> USE DEF IInv, gate, asked, drainLocals, ending, Goto, Draining, Ending
<1>1. CASE CheckRequest
  <2> USE <1>1 DEF CheckRequest
  <2>1. TypeOK'
    BY Frame DEF TypeOK, ControlTypeOK
  <2>2. GateShut'
    BY DEF TypeOK, ControlTypeOK, GateTypeOK, GateShut
  <2>3. DrainedOk'
    BY DEF TypeOK, ControlTypeOK, GateTypeOK, DrainTypeOK, GateShut, DrainedOk
  <2>4. Settled'
    BY DEF TypeOK, ControlTypeOK, GateTypeOK, DrainTypeOK, EndTypeOK, GateShut,
           DrainedOk, Settled
  <2>5. ExitKnown'
    BY DEF TypeOK, ControlTypeOK, GateTypeOK, DrainTypeOK, EndTypeOK, GateShut,
           Settled, ExitKnown, ExitTellsTruth
  <2>6. PhaseKnown'
    BY DEF TypeOK, ControlTypeOK, PhaseKnown
  <2> QED BY <2>1, <2>2, <2>3, <2>4, <2>5, <2>6
<1>2. CASE FallAsleep \/ SpuriousWake
  <2> USE <1>2 DEF FallAsleep, SpuriousWake
  <2>1. TypeOK'
    BY Frame DEF TypeOK, ControlTypeOK
  <2>2. GateShut'
    BY DEF TypeOK, ControlTypeOK, GateTypeOK, GateShut
  <2>3. DrainedOk'
    BY DEF TypeOK, ControlTypeOK, GateTypeOK, DrainTypeOK, GateShut, DrainedOk
  <2>4. Settled'
    BY DEF TypeOK, ControlTypeOK, GateTypeOK, DrainTypeOK, EndTypeOK, GateShut,
           DrainedOk, Settled
  <2>5. ExitKnown'
    BY DEF TypeOK, ControlTypeOK, GateTypeOK, DrainTypeOK, EndTypeOK, GateShut,
           Settled, ExitKnown, ExitTellsTruth
  <2>6. PhaseKnown'
    BY DEF TypeOK, ControlTypeOK, PhaseKnown
  <2> QED BY <2>1, <2>2, <2>3, <2>4, <2>5, <2>6
<1>3. CASE StoreRequest \/ NotifyRequest
  <2> USE <1>3 DEF StoreRequest, NotifyRequest
  <2>1. TypeOK'
    BY Frame DEF TypeOK, ControlTypeOK
  <2>2. GateShut'
    BY DEF TypeOK, ControlTypeOK, GateTypeOK, GateShut
  <2>3. DrainedOk'
    BY DEF TypeOK, ControlTypeOK, GateTypeOK, DrainTypeOK, GateShut, DrainedOk
  <2>4. Settled'
    BY DEF TypeOK, ControlTypeOK, GateTypeOK, DrainTypeOK, EndTypeOK, GateShut,
           DrainedOk, Settled
  <2>5. ExitKnown'
    BY DEF TypeOK, ControlTypeOK, GateTypeOK, DrainTypeOK, EndTypeOK, GateShut,
           Settled, ExitKnown, ExitTellsTruth
  <2>6. PhaseKnown'
    BY DEF TypeOK, ControlTypeOK, PhaseKnown
  <2> QED BY <2>1, <2>2, <2>3, <2>4, <2>5, <2>6
<1> QED BY <1>1, <1>2, <1>3

\* Handlers at the gate and a Close from outside (_InvokeHttp, _Close).
LEMMA GateInv ==
  ASSUME IInv, \/ OwnerCloses \/ CloseProceeds
               \/ \E h \in Handlers : HandlerEnters(h) \/ HandlerReturns(h)
  PROVE  IInv'
<1> USE DEF IInv, gate, asked, drainLocals, ending, Goto, Draining, Ending
<1>1. CASE OwnerCloses
  <2> USE <1>1 DEF OwnerCloses, CloseBegins
  <2>1. TypeOK'
    BY Frame DEF TypeOK, GateTypeOK
  <2>2. GateShut'
    BY DEF TypeOK, ControlTypeOK, GateTypeOK, GateShut
  <2>3. DrainedOk'
    BY DEF TypeOK, ControlTypeOK, GateTypeOK, DrainTypeOK, GateShut, DrainedOk
  <2>4. Settled'
    BY DEF TypeOK, ControlTypeOK, GateTypeOK, DrainTypeOK, EndTypeOK, GateShut,
           DrainedOk, Settled
  <2>5. ExitKnown'
    BY DEF TypeOK, ControlTypeOK, GateTypeOK, DrainTypeOK, EndTypeOK, GateShut,
           Settled, ExitKnown, ExitTellsTruth
  <2>6. PhaseKnown'
    BY DEF TypeOK, ControlTypeOK, PhaseKnown
  <2> QED BY <2>1, <2>2, <2>3, <2>4, <2>5, <2>6
<1>2. CASE CloseProceeds
  <2> USE <1>2 DEF CloseProceeds
  <2>1. TypeOK'
    BY Frame DEF TypeOK, GateTypeOK
  <2>2. GateShut'
    BY DEF TypeOK, ControlTypeOK, GateTypeOK, GateShut
  <2>3. DrainedOk'
    BY DEF TypeOK, ControlTypeOK, GateTypeOK, DrainTypeOK, GateShut, DrainedOk
  <2>4. Settled'
    BY DEF TypeOK, ControlTypeOK, GateTypeOK, DrainTypeOK, EndTypeOK, GateShut,
           DrainedOk, Settled
  <2>5. ExitKnown'
    BY DEF TypeOK, ControlTypeOK, GateTypeOK, DrainTypeOK, EndTypeOK, GateShut,
           Settled, ExitKnown, ExitTellsTruth
  <2>6. PhaseKnown'
    BY DEF TypeOK, ControlTypeOK, PhaseKnown
  <2> QED BY <2>1, <2>2, <2>3, <2>4, <2>5, <2>6
<1>3. ASSUME NEW h \in Handlers, HandlerEnters(h)
      PROVE  IInv'
  <2> USE <1>3 DEF HandlerEnters, Serving
  <2>1. TypeOK'
    BY Frame DEF TypeOK, GateTypeOK
  <2>2. GateShut'
    BY DEF TypeOK, ControlTypeOK, GateTypeOK, GateShut
  <2>3. DrainedOk'
    BY DEF TypeOK, ControlTypeOK, GateTypeOK, DrainTypeOK, GateShut, DrainedOk
  <2>4. Settled'
    BY DEF TypeOK, ControlTypeOK, GateTypeOK, DrainTypeOK, EndTypeOK, GateShut,
           DrainedOk, Settled
  <2>5. ExitKnown'
    BY DEF TypeOK, ControlTypeOK, GateTypeOK, DrainTypeOK, EndTypeOK, GateShut,
           Settled, ExitKnown, ExitTellsTruth
  <2>6. PhaseKnown'
    BY DEF TypeOK, ControlTypeOK, PhaseKnown
  <2> QED BY <2>1, <2>2, <2>3, <2>4, <2>5, <2>6
<1>4. ASSUME NEW h \in Handlers, HandlerReturns(h)
      PROVE  IInv'
  <2> USE <1>4 DEF HandlerReturns
  <2>1. TypeOK'
    BY Frame DEF TypeOK, GateTypeOK
  <2>2. GateShut'
    BY DEF TypeOK, ControlTypeOK, GateTypeOK, GateShut
  <2>3. DrainedOk'
    BY DEF TypeOK, ControlTypeOK, GateTypeOK, DrainTypeOK, GateShut, DrainedOk
  <2>4. Settled'
    BY DEF TypeOK, ControlTypeOK, GateTypeOK, DrainTypeOK, EndTypeOK, GateShut,
           DrainedOk, Settled
  <2>5. ExitKnown'
    BY DEF TypeOK, ControlTypeOK, GateTypeOK, DrainTypeOK, EndTypeOK, GateShut,
           Settled, ExitKnown, ExitTellsTruth
  <2>6. PhaseKnown'
    BY DEF TypeOK, ControlTypeOK, PhaseKnown
  <2> QED BY <2>1, <2>2, <2>3, <2>4, <2>5, <2>6
<1> QED BY <1>1, <1>2, <1>3, <1>4

\* The two drains and what is made of their results (_WaitHandlersDone,
\* _ShutDown).
LEMMA DrainInv ==
  ASSUME IInv, \/ BeginShutdown \/ StopAccepting
               \/ \E w \in Entries : EnterWait(w)
               \/ \E w \in Waits : WaitEnds(w) \/ HandlersGone(w)
               \/ \E w \in Servers : ServerDrains(w)
               \/ JudgeFirst \/ JudgeAgain
  PROVE  IInv'
<1> USE DEF IInv, gate, asked, drainLocals, ending, Goto, Draining, Ending, WaitUnchanged,
            Judge, Server
<1>1. CASE BeginShutdown
  <2> USE <1>1 DEF BeginShutdown
  <2>1. TypeOK'
    BY Frame DEF TypeOK, ControlTypeOK
  <2>2. GateShut'
    BY DEF TypeOK, ControlTypeOK, GateTypeOK, GateShut
  <2>3. DrainedOk'
    BY DEF TypeOK, ControlTypeOK, GateTypeOK, DrainTypeOK, GateShut, DrainedOk
  <2>4. Settled'
    BY DEF TypeOK, ControlTypeOK, GateTypeOK, DrainTypeOK, EndTypeOK, GateShut,
           DrainedOk, Settled
  <2>5. ExitKnown'
    BY DEF TypeOK, ControlTypeOK, GateTypeOK, DrainTypeOK, EndTypeOK, GateShut,
           Settled, ExitKnown, ExitTellsTruth
  <2>6. PhaseKnown'
    BY DEF TypeOK, ControlTypeOK, PhaseKnown
  <2> QED BY <2>1, <2>2, <2>3, <2>4, <2>5, <2>6
<1>2. CASE StopAccepting
  <2> USE <1>2 DEF StopAccepting
  <2>1. TypeOK'
    <3>1. ControlTypeOK'
      BY DEF TypeOK, ControlTypeOK
    <3>2. GateTypeOK'
      BY DEF TypeOK, GateTypeOK
    <3> QED BY <3>1, <3>2, Frame DEF TypeOK
  <2>2. GateShut'
    BY DEF TypeOK, ControlTypeOK, GateTypeOK, GateShut
  <2>3. DrainedOk'
    BY DEF TypeOK, ControlTypeOK, GateTypeOK, DrainTypeOK, GateShut, DrainedOk
  <2>4. Settled'
    BY DEF TypeOK, ControlTypeOK, GateTypeOK, DrainTypeOK, EndTypeOK, GateShut,
           DrainedOk, Settled
  <2>5. ExitKnown'
    BY DEF TypeOK, ControlTypeOK, GateTypeOK, DrainTypeOK, EndTypeOK, GateShut,
           Settled, ExitKnown, ExitTellsTruth
  <2>6. PhaseKnown'
    BY DEF TypeOK, ControlTypeOK, PhaseKnown
  <2> QED BY <2>1, <2>2, <2>3, <2>4, <2>5, <2>6
<1>3. ASSUME NEW w \in Entries, EnterWait(w)
      PROVE  IInv'
  <2> USE <1>3 DEF Entries, EnterWait
  <2>1. TypeOK'
    BY Frame DEF TypeOK, ControlTypeOK, DrainTypeOK
  <2>2. GateShut'
    BY DEF TypeOK, ControlTypeOK, GateTypeOK, GateShut
  <2>3. DrainedOk'
    BY DEF TypeOK, ControlTypeOK, GateTypeOK, DrainTypeOK, GateShut, DrainedOk
  <2>4. Settled'
    BY DEF TypeOK, ControlTypeOK, GateTypeOK, DrainTypeOK, EndTypeOK, GateShut,
           DrainedOk, Settled
  <2>5. ExitKnown'
    BY DEF TypeOK, ControlTypeOK, GateTypeOK, DrainTypeOK, EndTypeOK, GateShut,
           Settled, ExitKnown, ExitTellsTruth
  <2>6. PhaseKnown'
    BY DEF TypeOK, ControlTypeOK, PhaseKnown
  <2> QED BY <2>1, <2>2, <2>3, <2>4, <2>5, <2>6
<1>4. ASSUME NEW w \in Waits, WaitEnds(w)
      PROVE  IInv'
  <2> USE <1>4 DEF Waits, WaitEnds
  <2>1. TypeOK'
    BY Frame DEF TypeOK, ControlTypeOK, DrainTypeOK
  <2>2. GateShut'
    BY DEF TypeOK, ControlTypeOK, GateTypeOK, GateShut
  <2>3. DrainedOk'
    BY DEF TypeOK, ControlTypeOK, GateTypeOK, DrainTypeOK, GateShut, DrainedOk
  <2>4. Settled'
    BY DEF TypeOK, ControlTypeOK, GateTypeOK, DrainTypeOK, EndTypeOK, GateShut,
           DrainedOk, Settled
  <2>5. ExitKnown'
    BY DEF TypeOK, ControlTypeOK, GateTypeOK, DrainTypeOK, EndTypeOK, GateShut,
           Settled, ExitKnown, ExitTellsTruth
  <2>6. PhaseKnown'
    BY DEF TypeOK, ControlTypeOK, PhaseKnown
  <2> QED BY <2>1, <2>2, <2>3, <2>4, <2>5, <2>6
<1>5. ASSUME NEW w \in Waits, HandlersGone(w)
      PROVE  IInv'
  <2> USE <1>5 DEF Waits, HandlersGone
  <2>1. TypeOK'
    BY Frame DEF TypeOK, ControlTypeOK, DrainTypeOK
  <2>2. GateShut'
    BY DEF TypeOK, ControlTypeOK, GateTypeOK, GateShut
  <2>3. DrainedOk'
    BY DEF TypeOK, ControlTypeOK, GateTypeOK, DrainTypeOK, GateShut, DrainedOk
  <2>4. Settled'
    BY DEF TypeOK, ControlTypeOK, GateTypeOK, DrainTypeOK, EndTypeOK, GateShut,
           DrainedOk, Settled
  <2>5. ExitKnown'
    BY DEF TypeOK, ControlTypeOK, GateTypeOK, DrainTypeOK, EndTypeOK, GateShut,
           Settled, ExitKnown, ExitTellsTruth
  <2>6. PhaseKnown'
    BY DEF TypeOK, ControlTypeOK, PhaseKnown
  <2> QED BY <2>1, <2>2, <2>3, <2>4, <2>5, <2>6
<1>6. ASSUME NEW w \in Servers, ServerDrains(w)
      PROVE  IInv'
  <2> USE <1>6 DEF Servers, ServerDrains
  <2>1. TypeOK'
    <3>1. ControlTypeOK'
      BY DEF TypeOK, ControlTypeOK
    <3>2. DrainTypeOK'
      BY DEF TypeOK, DrainTypeOK
    <3>3. EndTypeOK'
      BY DEF TypeOK, EndTypeOK
    <3> QED BY <3>1, <3>2, <3>3, Frame DEF TypeOK
  <2>2. GateShut'
    BY DEF TypeOK, ControlTypeOK, GateTypeOK, GateShut
  <2>3. DrainedOk'
    BY DEF TypeOK, ControlTypeOK, GateTypeOK, DrainTypeOK, GateShut, DrainedOk
  <2>4. Settled'
    BY DEF TypeOK, ControlTypeOK, GateTypeOK, DrainTypeOK, EndTypeOK, GateShut,
           DrainedOk, Settled
  <2>5. ExitKnown'
    BY DEF TypeOK, ControlTypeOK, GateTypeOK, DrainTypeOK, EndTypeOK, GateShut,
           Settled, ExitKnown, ExitTellsTruth
  <2>6. PhaseKnown'
    BY DEF TypeOK, ControlTypeOK, PhaseKnown
  <2> QED BY <2>1, <2>2, <2>3, <2>4, <2>5, <2>6
<1>7. CASE JudgeFirst
  <2> USE <1>7 DEF JudgeFirst
  <2>1. TypeOK'
    <3>1. ControlTypeOK'
      BY DEF TypeOK, ControlTypeOK
    <3>2. DrainTypeOK'
      BY DEF TypeOK, DrainTypeOK
    <3>3. EndTypeOK'
      BY DEF TypeOK, EndTypeOK
    <3> QED BY <3>1, <3>2, <3>3, Frame DEF TypeOK
  <2>2. GateShut'
    BY DEF TypeOK, ControlTypeOK, GateTypeOK, GateShut
  <2>3. DrainedOk'
    BY DEF TypeOK, ControlTypeOK, GateTypeOK, DrainTypeOK, GateShut, DrainedOk
  <2>4. Settled'
    BY DEF TypeOK, ControlTypeOK, GateTypeOK, DrainTypeOK, EndTypeOK, GateShut,
           DrainedOk, Settled
  <2>5. ExitKnown'
    BY DEF TypeOK, ControlTypeOK, GateTypeOK, DrainTypeOK, EndTypeOK, GateShut,
           Settled, ExitKnown, ExitTellsTruth
  <2>6. PhaseKnown'
    BY DEF TypeOK, ControlTypeOK, PhaseKnown
  <2> QED BY <2>1, <2>2, <2>3, <2>4, <2>5, <2>6
<1>8. CASE JudgeAgain
  <2> USE <1>8 DEF JudgeAgain
  <2>1. TypeOK'
    <3>1. ControlTypeOK'
      BY DEF TypeOK, ControlTypeOK
    <3>2. DrainTypeOK'
      BY DEF TypeOK, DrainTypeOK
    <3>3. EndTypeOK'
      BY DEF TypeOK, EndTypeOK
    <3> QED BY <3>1, <3>2, <3>3, Frame DEF TypeOK
  <2>2. GateShut'
    BY DEF TypeOK, ControlTypeOK, GateTypeOK, GateShut
  <2>3. DrainedOk'
    BY DEF TypeOK, ControlTypeOK, GateTypeOK, DrainTypeOK, GateShut, DrainedOk
  <2>4. Settled'
    BY DEF TypeOK, ControlTypeOK, GateTypeOK, DrainTypeOK, EndTypeOK, GateShut,
           DrainedOk, Settled
  <2>5. ExitKnown'
    BY DEF TypeOK, ControlTypeOK, GateTypeOK, DrainTypeOK, EndTypeOK, GateShut,
           Settled, ExitKnown, ExitTellsTruth
  <2>6. PhaseKnown'
    BY DEF TypeOK, ControlTypeOK, PhaseKnown
  <2> QED BY <2>1, <2>2, <2>3, <2>4, <2>5, <2>6
<1> QED BY <1>1, <1>2, <1>3, <1>4, <1>5, <1>6, <1>7, <1>8

\* The end of the closing sequence (_ShutDown, Run).
LEMMA EndInv ==
  ASSUME IInv, HandlersDrained \/ HostCloses \/ Release
  PROVE  IInv'
<1> USE DEF IInv, gate, asked, drainLocals, ending, Goto, Draining, Ending
<1>1. CASE HandlersDrained
  <2> USE <1>1 DEF HandlersDrained
  <2>1. TypeOK'
    <3>1. ControlTypeOK'
      BY DEF TypeOK, ControlTypeOK
    <3>2. EndTypeOK'
      BY DEF TypeOK, EndTypeOK
    <3> QED BY <3>1, <3>2, Frame DEF TypeOK
  <2>2. GateShut'
    BY DEF TypeOK, ControlTypeOK, GateTypeOK, GateShut
  <2>3. DrainedOk'
    BY DEF TypeOK, ControlTypeOK, GateTypeOK, DrainTypeOK, GateShut, DrainedOk
  <2>4. Settled'
    BY DEF TypeOK, ControlTypeOK, GateTypeOK, DrainTypeOK, EndTypeOK, GateShut,
           DrainedOk, Settled
  <2>5. ExitKnown'
    BY DEF TypeOK, ControlTypeOK, GateTypeOK, DrainTypeOK, EndTypeOK, GateShut,
           Settled, ExitKnown, ExitTellsTruth
  <2>6. PhaseKnown'
    BY DEF TypeOK, ControlTypeOK, PhaseKnown
  <2> QED BY <2>1, <2>2, <2>3, <2>4, <2>5, <2>6
<1>2. CASE HostCloses
  <2> USE <1>2 DEF HostCloses, CloseBegins
  <2>1. TypeOK'
    BY Frame DEF TypeOK, ControlTypeOK, GateTypeOK
  <2>2. GateShut'
    BY DEF TypeOK, ControlTypeOK, GateTypeOK, GateShut
  <2>3. DrainedOk'
    BY DEF TypeOK, ControlTypeOK, GateTypeOK, DrainTypeOK, GateShut, DrainedOk
  <2>4. Settled'
    BY DEF TypeOK, ControlTypeOK, GateTypeOK, DrainTypeOK, EndTypeOK, GateShut,
           DrainedOk, Settled
  <2>5. ExitKnown'
    BY DEF TypeOK, ControlTypeOK, GateTypeOK, DrainTypeOK, EndTypeOK, GateShut,
           Settled, ExitKnown, ExitTellsTruth
  <2>6. PhaseKnown'
    BY DEF TypeOK, ControlTypeOK, PhaseKnown
  <2> QED BY <2>1, <2>2, <2>3, <2>4, <2>5, <2>6
<1>3. CASE Release
  <2> USE <1>3 DEF Release, ShutdownCode
  <2>1. TypeOK'
    BY Frame DEF TypeOK, ControlTypeOK, EndTypeOK
  <2>2. GateShut'
    BY DEF TypeOK, ControlTypeOK, GateTypeOK, GateShut
  <2>3. DrainedOk'
    BY DEF TypeOK, ControlTypeOK, GateTypeOK, DrainTypeOK, GateShut, DrainedOk
  <2>4. Settled'
    BY DEF TypeOK, ControlTypeOK, GateTypeOK, DrainTypeOK, EndTypeOK, GateShut,
           DrainedOk, Settled
  <2>5. ExitKnown'
    BY DEF TypeOK, ControlTypeOK, GateTypeOK, DrainTypeOK, EndTypeOK, GateShut,
           Settled, ExitKnown, ExitTellsTruth
  <2>6. PhaseKnown'
    BY DEF TypeOK, ControlTypeOK, PhaseKnown, EndTypeOK, ExitKnown
  <2> QED BY <2>1, <2>2, <2>3, <2>4, <2>5, <2>6
<1> QED BY <1>1, <1>2, <1>3

\* Every step keeps the invariant.
LEMMA NextInv == IInv /\ [Next]_vars => IInv'
<1> SUFFICES ASSUME IInv, [Next]_vars PROVE IInv'
  OBVIOUS
<1>1. CASE UNCHANGED vars
  <2> USE <1>1 DEF vars, IInv
  <2>1. TypeOK'
    BY Frame DEF TypeOK
  <2>2. GateShut' /\ DrainedOk' /\ Settled' /\ ExitKnown' /\ PhaseKnown'
    BY DEF GateShut, DrainedOk, Settled, ExitKnown, PhaseKnown, ExitTellsTruth
  <2> QED BY <2>1, <2>2
<1>2. CASE Next
  BY <1>2, StartInv, RequestInv, GateInv, DrainInv, EndInv DEF Next, Control
<1> QED BY <1>1, <1>2

LEMMA Invariance == Spec => []IInv
<1>1. Init => IInv
  BY InitInv
<1>2. IInv /\ [Next]_vars => IInv'
  BY NextInv
<1> QED BY <1>1, <1>2, PTL DEF Spec

\* The business objects are given up behind a closed host, and under a running
\* handler only when a Close cut the drain short (_ShutDown, on_release).
THEOREM ReleasedBehindClose == Spec => []ReleaseBehindClose
<1>1. ASSUME IInv, released
      PROVE  /\ created => closing = "done"
             /\ inflight # {} => interrupted /\ drainHook = "due"
  <2>1. pc = "done"
    BY <1>1 DEF IInv, ExitKnown
  <2>2. created => closing = "done"
    BY <1>1, <2>1 DEF IInv, Settled, Ending
  <2>3. inflight # {} => created /\ result # "ok"
    BY <1>1 DEF IInv, GateShut, DrainedOk
  <2>4. inflight # {} => interrupted /\ drainHook = "due"
    BY <1>1, <2>1, <2>3 DEF IInv, Settled, Ending, TypeOK, EndTypeOK
  <2> QED BY <2>2, <2>4
<1> QED BY <1>1, Invariance, PTL DEF ReleaseBehindClose

\* The exit code tells what happened (Run, _ShutDown).
THEOREM ExitIsTrue == Spec => []ExitTellsTruth
<1>1. IInv => ExitTellsTruth
  BY DEF IInv, ExitKnown
<1> QED BY <1>1, Invariance, PTL
================================================================================
