--------------------------- MODULE HostLifecycle ----------------------------
(***************************************************************************)
(* One run of a network host, from Create to the exit code                 *)
(* (HostLifecycle.cc), together with the handler gate of the host it       *)
(* drives (InfraHttpHost.cc).                                              *)
(*                                                                         *)
(* Threads: the control thread that is inside Run, a supervisor that calls *)
(* RequestShutdown, owners that call Close on the host from outside, and   *)
(* the handlers the server runs.  The control thread takes a step between  *)
(* any two accesses to state that another thread can change.  The server   *)
(* behind the gate is external: its Shutdown/Drain succeeds, uses up a     *)
(* finite budget, reports the reason it was closed for, or fails.          *)
(***************************************************************************)
EXTENDS Integers, FiniteSets

CONSTANTS
  Handlers,      \* inbound requests that may enter the gate
  Supervised,    \* TRUE: a supervisor may call RequestShutdown
  Owned,         \* TRUE: an outside owner may call Close
  ServerFails    \* TRUE: the server's drain may fail with an error of its own

ASSUME SwitchAssumption ==
  Supervised \in BOOLEAN /\ Owned \in BOOLEAN /\ ServerFails \in BOOLEAN

VARIABLES
  pc,           \* where the control thread is inside Run
  phase,        \* m_phase
  requested,    \* m_shutdown_req or the external request flag
  request,      \* RequestShutdown: "none", "stored" (before notify), "done"
  created,      \* m_host_created
  open,         \* HandlerState.open
  inflight,     \* HandlerState.inflight, as the set of running handlers
  finished,     \* handlers that have returned
  stateReason,  \* HandlerState.close_reason is set
  hostReason,   \* m_close_reason is set: what CloseReason() sees
  closing,      \* the one execution of _Close: "none", "state", "reason", "done"
  result,       \* what WaitHandlersDone returned last
  timedOut,     \* local timed_out of _WaitHandlersDone
  interrupted,  \* local of _ShutDown
  exceeded,     \* m_exceeded_budget
  failed,       \* m_failures is not empty
  serverFailed, \* history: the server's drain failed with its own error
  drainHook,    \* on_handlers_drained: "due" or "run"
  released,     \* on_release ran
  exit          \* exit code of Run

vars == <<pc, phase, requested, request, created, open, inflight, finished,
          stateReason, hostReason, closing, result, timedOut, interrupted,
          exceeded, failed, serverFailed, drainHook, released, exit>>

gate == <<open, inflight, finished, stateReason, hostReason, closing>>
asked == <<requested, request>>
drainLocals == <<result, timedOut, interrupted, exceeded>>
ending == <<drainHook, released, exit>>

Init ==
  /\ pc = "new" /\ phase = "Idle"
  /\ requested = FALSE /\ request = "none"
  /\ created = FALSE
  /\ open = TRUE /\ inflight = {} /\ finished = {}
  /\ stateReason = FALSE /\ hostReason = FALSE /\ closing = "none"
  /\ result = "none" /\ timedOut = FALSE /\ interrupted = FALSE
  /\ exceeded = FALSE /\ failed = FALSE /\ serverFailed = FALSE
  /\ drainHook = "due" /\ released = FALSE /\ exit = "none"

Goto(from, to) == pc = from /\ pc' = to
-----------------------------------------------------------------------------
(* Start-up.                                                               *)

\* No host or no budget: Run is rejected before anything exists.
RunRejected ==
  /\ Goto("new", "done")
  /\ phase' = "Failed" /\ failed' = TRUE /\ exit' = "Rejected"
  /\ UNCHANGED <<asked, created, gate, drainLocals, serverFailed, drainHook, released>>

RunStarts ==
  /\ Goto("new", "hook")
  /\ phase' = "Starting"
  /\ UNCHANGED <<asked, created, gate, drainLocals, failed, serverFailed, ending>>

\* on_scheduler_started has done its work.
HookEnds ==
  /\ Goto("hook", "create")
  /\ UNCHANGED <<asked, created, phase, gate, drainLocals, failed, serverFailed, ending>>

\* Create makes the engines, the client and the server of the host.
HostCreates ==
  /\ Goto("create", "engines") /\ created' = TRUE
  /\ UNCHANGED <<asked, phase, gate, drainLocals, failed, serverFailed, ending>>

\* Start runs the engines on threads of their own and waits for Running ...
EnginesRun ==
  /\ Goto("engines", "start") /\ closing # "done"
  /\ UNCHANGED <<asked, created, phase, gate, drainLocals, failed, serverFailed, ending>>

\* ... and starts the server on them; closed engines refuse both.
HostStarts ==
  /\ Goto("start", "running") /\ closing # "done" /\ phase' = "Running"
  /\ UNCHANGED <<asked, created, gate, drainLocals, failed, serverFailed, ending>>

StartStep == HookEnds \/ HostCreates \/ EnginesRun \/ HostStarts

\* A start-up step returns an error or throws: the same shutdown sequence rolls back.
StartFails ==
  /\ pc \in {"hook", "create", "engines", "start"}
  /\ pc' = "shutdown"
  /\ failed' = TRUE
  /\ exit' = "StartFailed"
  /\ UNCHANGED <<asked, phase, created, gate, drainLocals, serverFailed, drainHook, released>>
-----------------------------------------------------------------------------
(* Waiting for the shutdown request.                                       *)

\* The check without the lock, then the predicate under m_mtx.
CheckRequest ==
  /\ pc \in {"running", "predicate"}
  /\ pc' = IF requested THEN "shutdown"
           ELSE IF pc = "running" THEN "predicate" ELSE "falling"
  /\ UNCHANGED <<asked, phase, created, gate, drainLocals, failed, serverFailed, ending>>

\* The predicate was false; m_cv.wait releases the lock and sleeps.
FallAsleep ==
  /\ Goto("falling", "asleep")
  /\ UNCHANGED <<asked, phase, created, gate, drainLocals, failed, serverFailed, ending>>

\* A condition variable may wake without a notification.
SpuriousWake ==
  /\ Goto("asleep", "predicate")
  /\ UNCHANGED <<asked, phase, created, gate, drainLocals, failed, serverFailed, ending>>

StoreRequest ==
  /\ Supervised /\ request = "none"
  /\ request' = "stored" /\ requested' = TRUE
  /\ UNCHANGED <<pc, phase, created, gate, drainLocals, failed, serverFailed, ending>>

\* notify_all without m_mtx reaches the control thread only if it sleeps.
NotifyRequest ==
  /\ request = "stored"
  /\ request' = "done"
  /\ pc' = IF pc = "asleep" THEN "predicate" ELSE pc
  /\ UNCHANGED <<requested, phase, created, gate, drainLocals, failed, serverFailed, ending>>
-----------------------------------------------------------------------------
(* The handler gate and Close.                                             *)

\* The server takes requests from some point inside Start on, also if a later
\* part of Start fails; which point that is, is left open.
Serving == created

\* _InvokeHttp, _InvokeRpc: refused unless the gate is open.
HandlerEnters(h) ==
  /\ Serving /\ open
  /\ h \notin inflight \cup finished
  /\ inflight' = inflight \cup {h}
  /\ UNCHANGED <<pc, phase, asked, created, open, finished, stateReason, hostReason,
                 closing, drainLocals, failed, serverFailed, ending>>

\* Mutant: the guard that counts down is missing.
HandlerReturnsLeaking(h) ==
  /\ h \in inflight \ finished
  /\ finished' = finished \cup {h}
  /\ UNCHANGED <<pc, phase, asked, created, open, inflight, stateReason, hostReason,
                 closing, drainLocals, failed, serverFailed, ending>>

\* The scope guard counts down and notifies, however the handler ends.
HandlerReturns(h) ==
  /\ h \in inflight
  /\ inflight' = inflight \ {h}
  /\ finished' = finished \cup {h}
  /\ UNCHANGED <<pc, phase, asked, created, open, stateReason, hostReason,
                 closing, drainLocals, failed, serverFailed, ending>>

\* _Close runs once; it first closes the gate and gives the reason to waiters.
CloseBegins ==
  /\ closing = "none"
  /\ closing' = "state"
  /\ open' = FALSE
  /\ stateReason' = TRUE
  /\ UNCHANGED <<inflight, finished, hostReason>>

\* Then m_close_reason, then the server, the client and the engines.
CloseProceeds ==
  /\ \/ closing = "state" /\ closing' = "reason" /\ hostReason' = TRUE
     \/ closing = "reason" /\ closing' = "done" /\ UNCHANGED hostReason
  /\ UNCHANGED <<pc, phase, asked, created, open, inflight, finished, stateReason,
                 drainLocals, failed, serverFailed, ending>>

OwnerCloses ==
  /\ Owned /\ created /\ CloseBegins
  /\ UNCHANGED <<pc, phase, asked, created, drainLocals, failed, serverFailed, ending>>
-----------------------------------------------------------------------------
(* Draining.                                                               *)

BeginShutdown ==
  /\ Goto("shutdown", IF created THEN "stop" ELSE "release")
  /\ phase' = "Closing"
  /\ UNCHANGED <<asked, created, gate, drainLocals, failed, serverFailed, ending>>

StopAccepting ==
  /\ Goto("stop", "enter1")
  /\ open' = FALSE
  /\ UNCHANGED <<inflight, finished, stateReason, hostReason, closing>>
  /\ UNCHANGED <<phase, asked, created, drainLocals, failed, serverFailed, ending>>

WaitUnchanged ==
  UNCHANGED <<phase, asked, created, gate, timedOut, interrupted, exceeded, failed, ending>>

Server(w) == IF w = "wait1" THEN "server1" ELSE "server2"
Judge(w) == IF w \in {"enter1", "wait1", "server1"} THEN "judge1" ELSE "judge2"

\* WaitHandlersDone: a host that is already closed is reported at once.
EnterWait(w) ==
  /\ pc = w
  /\ IF stateReason
     THEN result' = "reason" /\ pc' = Judge(w)
     ELSE result' = "none" /\ pc' = IF w = "enter1" THEN "wait1" ELSE "wait2"
  /\ UNCHANGED serverFailed /\ WaitUnchanged

\* While handlers run, the close reason ends the wait, and so does the deadline
\* of the first call; the second call has none.
WaitEnds(w) ==
  /\ pc = w /\ inflight # {}
  /\ \/ stateReason /\ result' = "reason"
     \/ ~stateReason /\ w = "wait1" /\ result' = "TimedOut"
  /\ pc' = Judge(w)
  /\ UNCHANGED serverFailed /\ WaitUnchanged

\* Mutant: the wait is over as soon as fewer handlers run.
HandlersGoneEarly(w) ==
  /\ Goto(w, Server(w))
  /\ Cardinality(inflight) <= 1
  /\ UNCHANGED <<result, serverFailed>> /\ WaitUnchanged

\* No handler is left: on to the server's own drain.
HandlersGone(w) ==
  /\ Goto(w, Server(w))
  /\ inflight = {}
  /\ UNCHANGED <<result, serverFailed>> /\ WaitUnchanged

\* Shutdown, Drain, Close and WaitStopped of the server.
ServerDrains(w) ==
  /\ pc = w
  /\ \/ result' = "ok" /\ UNCHANGED serverFailed
     \/ closing \in {"reason", "done"} /\ result' = "reason" /\ UNCHANGED serverFailed
     \/ w = "server1" /\ result' = "TimedOut" /\ UNCHANGED serverFailed
     \/ ServerFails /\ result' = "error" /\ serverFailed' = TRUE
  /\ pc' = Judge(w)
  /\ WaitUnchanged

\* The first result: drained, interrupted by Close, or not proved drained.
JudgeFirst ==
  /\ pc = "judge1"
  /\ \/ result = "ok" /\ pc' = "drained"
        /\ UNCHANGED <<phase, timedOut, interrupted, failed>>
     \/ result # "ok" /\ hostReason /\ pc' = "close"
        /\ interrupted' = TRUE /\ failed' = TRUE /\ UNCHANGED <<phase, timedOut>>
     \/ result # "ok" /\ ~hostReason /\ pc' = "enter2"
        /\ timedOut' = (result = "TimedOut")
        /\ failed' = (failed \/ result # "TimedOut")
        /\ phase' = "ShutdownIncomplete" /\ UNCHANGED interrupted
  /\ UNCHANGED <<asked, created, gate, result, exceeded, serverFailed, ending>>

\* The result of the unbounded wait; what is still not drained parks for ever.
JudgeAgain ==
  /\ pc = "judge2"
  /\ \/ result = "ok" /\ pc' = "drained"
        /\ exceeded' = (exceeded \/ timedOut) /\ UNCHANGED <<interrupted, failed>>
     \/ result # "ok" /\ hostReason /\ pc' = "close"
        /\ exceeded' = (exceeded \/ timedOut) /\ interrupted' = TRUE /\ failed' = TRUE
     \/ result # "ok" /\ ~hostReason /\ pc' = "parked"
        /\ failed' = TRUE /\ UNCHANGED <<exceeded, interrupted>>
  /\ UNCHANGED <<phase, asked, created, gate, result, timedOut, serverFailed, ending>>
-----------------------------------------------------------------------------
(* Closing down.                                                           *)

\* on_handlers_drained is called; it may throw.
HandlersDrained ==
  /\ Goto("drained", "close")
  /\ drainHook' = "run"
  /\ failed' \in {failed, TRUE}
  /\ UNCHANGED <<phase, asked, created, gate, drainLocals, serverFailed, released, exit>>

\* Mutant: Close returns while the owner that was first is still closing.
HostClosesOnce ==
  \/ /\ pc = "close" /\ CloseBegins
     /\ UNCHANGED <<pc, phase, asked, created, drainLocals, failed, serverFailed, ending>>
  \/ /\ Goto("close", "release") /\ closing # "none"
     /\ UNCHANGED <<phase, asked, created, gate, drainLocals, failed, serverFailed, ending>>

\* The control thread closes the host itself, or waits in call_once for the
\* owner that was first.
HostCloses ==
  \/ /\ pc = "close" /\ CloseBegins
     /\ UNCHANGED <<pc, phase, asked, created, drainLocals, failed, serverFailed, ending>>
  \/ /\ Goto("close", "release") /\ closing = "done"
     /\ UNCHANGED <<phase, asked, created, gate, drainLocals, failed, serverFailed, ending>>

\* Mutant: the failures are not consulted.
ShutdownCodeBlind(bad) == IF exceeded THEN "Late" ELSE "Ok"

\* The code of a run that started.
ShutdownCode(bad) ==
  IF bad THEN IF interrupted /\ exceeded THEN "Late" ELSE "Failed"
  ELSE IF exceeded THEN "Late" ELSE "Ok"

\* on_release may throw; then Run returns.
Release ==
  /\ Goto("release", "done")
  /\ released' = TRUE
  /\ failed' \in {failed, TRUE}
  /\ exit' = IF exit = "StartFailed" THEN exit ELSE ShutdownCode(failed')
  /\ phase' = IF exit' \in {"StartFailed", "Failed"} THEN "Failed" ELSE "Closed"
  /\ UNCHANGED <<asked, created, gate, drainLocals, serverFailed, drainHook>>

Entries == {"enter1", "enter2"}
Waits == {"wait1", "wait2"}
Servers == {"server1", "server2"}

Control ==
  \/ RunRejected \/ RunStarts \/ StartStep \/ StartFails
  \/ CheckRequest \/ FallAsleep
  \/ BeginShutdown \/ StopAccepting
  \/ \E w \in Entries : EnterWait(w)
  \/ \E w \in Waits : WaitEnds(w) \/ HandlersGone(w)
  \/ \E w \in Servers : ServerDrains(w)
  \/ JudgeFirst \/ JudgeAgain
  \/ HandlersDrained \/ HostCloses \/ Release

Next ==
  \/ Control \/ SpuriousWake
  \/ StoreRequest \/ NotifyRequest
  \/ OwnerCloses \/ CloseProceeds
  \/ \E h \in Handlers : HandlerEnters(h) \/ HandlerReturns(h)

\* The control thread, an owner inside Close and a supervisor inside
\* RequestShutdown are running threads; handlers end.  Nobody has to call
\* anything, and no spurious wake-up is promised.
Fairness ==
  /\ WF_vars(Control)
  /\ WF_vars(CloseProceeds)
  /\ WF_vars(NotifyRequest)
  /\ \A h \in Handlers : WF_vars(HandlerReturns(h))

Spec == Init /\ [][Next]_vars
FairSpec == Spec /\ Fairness
-----------------------------------------------------------------------------
(* Properties.                                                             *)

ControlTypeOK ==
  /\ pc \in {"new", "hook", "create", "engines", "start", "running", "predicate", "falling",
             "asleep", "shutdown", "stop", "enter1", "wait1", "server1", "judge1",
             "enter2", "wait2", "server2", "judge2", "parked", "drained", "close", "release", "done"}
  /\ phase \in {"Idle", "Starting", "Running", "Closing", "ShutdownIncomplete",
                "Closed", "Failed"}
  /\ requested \in BOOLEAN /\ request \in {"none", "stored", "done"}

GateTypeOK ==
  /\ created \in BOOLEAN /\ open \in BOOLEAN
  /\ inflight \subseteq Handlers /\ finished \subseteq Handlers \ inflight
  /\ stateReason \in BOOLEAN /\ hostReason \in BOOLEAN
  /\ closing \in {"none", "state", "reason", "done"}

DrainTypeOK ==
  /\ result \in {"none", "ok", "TimedOut", "reason", "error"}
  /\ timedOut \in BOOLEAN /\ interrupted \in BOOLEAN /\ exceeded \in BOOLEAN

EndTypeOK ==
  /\ failed \in BOOLEAN /\ serverFailed \in BOOLEAN
  /\ drainHook \in {"due", "run"} /\ released \in BOOLEAN
  /\ exit \in {"none", "Rejected", "StartFailed", "Ok", "Late", "Failed"}

TypeOK == ControlTypeOK /\ GateTypeOK /\ DrainTypeOK /\ EndTypeOK

\* The business objects are given up only behind a closed host, and while a
\* handler still runs only if a Close cut the drain short and on_handlers_drained
\* was left out.
ReleaseBehindClose ==
  released => /\ created => closing = "done"
              /\ inflight # {} => interrupted /\ drainHook = "due"

\* The exit code tells what happened: Ok and Late mean that nothing failed but
\* the time, Ok that every handler was awaited in time and on_handlers_drained
\* called, and only a rejected run skips the closing sequence.
ExitTellsTruth ==
  pc = "done" =>
    /\ exit = "Ok" => drainHook = "run" /\ ~exceeded /\ ~failed
    /\ exit = "Late" => exceeded /\ (failed => interrupted)
    /\ exit # "Rejected" => released
    /\ (phase = "Failed") <=> exit \in {"Rejected", "StartFailed", "Failed"}

\* "CloseReason() published: the wait ends at once and does not park": only a
\* failure of the server itself may park the control thread.
CloseNeverParks == pc = "parked" => serverFailed

\* A requested shutdown takes the control thread out of its wait
\* ("no wake-up is lost", HostLifecycle.cc).
RequestIsHeard == requested /\ phase = "Running" ~> phase # "Running"
=============================================================================
