------------------------------ MODULE ObjectApp ------------------------------
(***************************************************************************)
(* The v2 App (App.cc) on top of the object registry: install, uninstall,  *)
(* bind, unbind, start, pause, resume, stop, observe and revoke, each a    *)
(* program of a coroutine that gives up m_mtx between two critical         *)
(* sections; the hooks it starts, which run in coroutines of their own;    *)
(* and code that borrows components meanwhile.                             *)
(*                                                                         *)
(* Programs are the calls the coroutines make.  The runtime is external: a *)
(* hook task may be refused, and any wait with a deadline may end late.    *)
(***************************************************************************)
EXTENDS ObjectRegistry

CONSTANTS
  Programs,      \* what the tasks call: functions from Tasks to sequences of calls
  MaxBorrows     \* bound of the model: borrows made in a run

ASSUME BorrowBound == MaxBorrows \in Nat

\* Calls name what they work on, and what is installed or uninstalled is a
\* service, a component or an actor type; uses are the names of components.
Operations == {"Install", "Uninstall", "Bind", "Unbind", "Start", "Pause", "Resume", "Stop",
               "Observe", "Revoke", "RequestShutdown", "WaitShutdown"}
Calls == {c \in [do : Operations, kind : {"Service", "Component", "Actor", "none"},
                 name : STRING, owner : STRING, uses : Seq(STRING)] :
            c.do \in {"Install", "Uninstall"} => c.kind # "none"}
ASSUME ProgramsAssumption == Programs \subseteq [Tasks -> Seq(Calls)]

\* 0 stands for no task: nobody waits, or who waited has given up.
ASSUME NobodyIsNoTask == 0 \notin Tasks

VARIABLES
  app,        \* m_state
  active,     \* m_lifecycle_active
  requested,  \* m_shutdown_req
  awaiting,   \* m_shutdown_waiter: the task in its place, 0 for none
  prog,       \* the calls a task has still to make; the head is the current one
  pc,         \* where the current call is
  cur,        \* id the call works on
  hook,       \* the hook it runs
  todo,       \* objects it has still to start, pause, resume or destroy; or
              \* components a service has still to bind, or to unbind again
  wait,       \* edges it waits for (generations), or events it still holds
  slot,       \* CoHookSlot: result of the hook the task waits for
  running,    \* hook coroutines: (id, hook, the task that waits or 0)
  borrowed    \* bound of the model: borrows made so far

state == <<app, active>>
shutdown == <<requested, awaiting>>
locals == <<prog, pc, cur, hook, todo, wait>>
hooks == <<slot, running>>
vars == <<regVars, state, shutdown, locals, hooks, borrowed>>

Op(t) == Head(prog[t])
Does(t, d) == prog[t] # <<>> /\ Op(t).do = d
At(t, p) == Quiet(t) /\ pc[t] = p
Goto(t, from, to) == At(t, from) /\ pc' = [pc EXCEPT ![t] = to]
Set(f, t, v) == [f EXCEPT ![t] = v]
Return(t) == /\ prog' = Set(prog, t, Tail(prog[t]))
             /\ pc' = Set(pc, t, "idle") /\ cur' = Set(cur, t, 0)
             /\ hook' = Set(hook, t, "none") /\ todo' = Set(todo, t, <<>>)
             /\ wait' = Set(wait, t, {})
Keep == UNCHANGED <<prog, cur, hook, todo, wait>>
Go(t, p) == pc' = Set(pc, t, p) /\ Keep

\* The objects a list of ids names.
Objects(q) == [k \in DOMAIN q |-> [id |-> q[k], kind |-> reg[q[k]].kind]]

Init ==
  /\ RegistryInit
  /\ app = "Created" /\ active = FALSE /\ requested = FALSE /\ awaiting = 0
  /\ prog \in Programs
  /\ pc = [t \in Tasks |-> "idle"] /\ cur = [t \in Tasks |-> 0]
  /\ hook = [t \in Tasks |-> "none"] /\ todo = [t \in Tasks |-> <<>>]
  /\ wait = [t \in Tasks |-> {}]
  /\ slot = [t \in Tasks |-> "none"] /\ running = {} /\ borrowed = 0
-----------------------------------------------------------------------------
(* Hooks in coroutines of their own (_RunServiceHookCo,                    *)
(* _RunComponentHookCo).                                                   *)

RunHook(t, i, h) ==
  /\ pc' = Set(pc, t, "settle") /\ cur' = Set(cur, t, i) /\ hook' = Set(hook, t, h)

\* WaitHooksSettledCo: nothing to wait for, or the shared waiter of the object,
\* which only one task can wait on.
Settle(t) ==
  LET i == cur[t]
      taken == \E o \in Tasks : pc[o] = "settling" /\ cur[o] = i
  IN  /\ At(t, "settle")
      /\ IF i \notin Ids \/ reg[i].hooks = 0
         THEN pc' = Set(pc, t, "enter") /\ UNCHANGED reg
         ELSE /\ pc' = Set(pc, t, IF taken THEN "hookFailed" ELSE "settling")
              /\ reg' = [reg EXCEPT ![i].waiter = IF @ = "none" THEN "idle" ELSE @]
      /\ Keep
      /\ UNCHANGED <<nextId, edges, nextGen, issued, leases, watching, deliver, callback,
                     state, shutdown, hooks, borrowed>>

\* Notified; whether hooks run again by now is not looked at.
Settled(t) ==
  /\ Goto(t, "settling", "enter")
  /\ cur[t] \in Ids /\ reg[cur[t]].waiter = "notified"
  /\ reg' = [reg EXCEPT ![cur[t]].waiter = "idle"]
  /\ Keep
  /\ UNCHANGED <<nextId, edges, nextGen, issued, leases, watching, deliver, callback,
                 state, shutdown, hooks, borrowed>>

\* NoteHookSettled: one hook less, and the last one wakes the waiter.
Noted(i) ==
  IF i \in Ids
  THEN LET n == reg[i].hooks - 1
       IN  [reg EXCEPT ![i].hooks = n,
                       ![i].waiter = IF n = 0 /\ @ # "none" THEN "notified" ELSE @]
  ELSE reg

\* The hook is counted and its task handed to the scheduler; an object that is
\* gone has no hook to run.
EnterHook(t) ==
  LET i == cur[t]
      same == {r.nr : r \in {x \in running : x.id = i /\ x.hook = hook[t]}}
      nr == CHOOSE n \in 1..(Cardinality(same) + 1) : n \notin same
  IN  /\ At(t, "enter")
      /\ IF i \in Ids
         THEN /\ reg' = [reg EXCEPT ![i].hooks = @ + 1]
              /\ \/ /\ pc' = Set(pc, t, "await") /\ slot' = Set(slot, t, "none")
                    /\ running' = running \cup {[id |-> i, hook |-> hook[t], task |-> t, nr |-> nr]}
                 \/ pc' = Set(pc, t, "refused") /\ UNCHANGED hooks
         ELSE pc' = Set(pc, t, "hookOk") /\ UNCHANGED <<reg, hooks>>
      /\ Keep
      /\ UNCHANGED <<nextId, edges, nextGen, issued, leases, watching, deliver, callback,
                     state, shutdown, borrowed>>

HookRefused(t) ==
  /\ Goto(t, "refused", "hookFailed")
  /\ reg' = Noted(cur[t])
  /\ Keep
  /\ UNCHANGED <<nextId, edges, nextGen, issued, leases, watching, deliver, callback,
                 state, shutdown, hooks, borrowed>>

\* The slot is kept by the task of the hook: nobody may be waiting any more.
SettleCoHookSlot(r) ==
  IF r.task = 0 THEN UNCHANGED slot
  ELSE \E res \in {"ok", "failed"} : slot' = Set(slot, r.task, res)

\* The hook returns or throws; its coroutine settles the count, then the slot.
HookEnds(r) ==
  /\ r \in running
  /\ running' = running \ {r}
  /\ reg' = Noted(r.id)
  /\ SettleCoHookSlot(r)
  /\ UNCHANGED <<nextId, edges, nextGen, issued, leases, watching, deliver, callback,
                 state, shutdown, locals, borrowed>>

\* The deadline ends the wait, never the hook.
HookLate(t) ==
  /\ Quiet(t)
  /\ \/ pc[t] = "settling" /\ UNCHANGED running
     \/ /\ pc[t] = "await" /\ slot[t] = "none"
        /\ running' = {IF r.task = t
                       THEN [r EXCEPT !.task = 0,
                               !.nr = CHOOSE n \in 1..(Cardinality(running) + 1) :
                                        [r EXCEPT !.task = 0, !.nr = n] \notin running]
                       ELSE r : r \in running}
  /\ pc' = Set(pc, t, "hookFailed")
  /\ Keep
  /\ UNCHANGED <<regVars, state, shutdown, slot, borrowed>>

Succeeded(t) == Quiet(t) /\ (pc[t] = "hookOk" \/ (pc[t] = "await" /\ slot[t] = "ok"))
HookFailed(t) == Quiet(t) /\ (pc[t] = "hookFailed" \/ (pc[t] = "await" /\ slot[t] = "failed"))
-----------------------------------------------------------------------------
(* Install.                                                                *)

RegistryRest == UNCHANGED <<nextId, edges, nextGen, issued, leases, watching>>
AppRest == UNCHANGED <<state, shutdown, hooks, borrowed>>

\* _ValidateOwner: the owner the call names is registered and of its kind.
Owners(o) == IF o.owner = "none" THEN {0}
             ELSE Named("Service", o.owner) \cup Named("Actor", o.owner)

\* A component's owner is looked up before the component exists.
InstallBegins(t) ==
  /\ Does(t, "Install") /\ At(t, "idle")
  /\ IF app = "Stopped" \/ Owners(Op(t)) = {}
     THEN Return(t)
     ELSE /\ pc' = Set(pc, t, "create")
          /\ \E i \in Owners(Op(t)) : cur' = Set(cur, t, i)
          /\ UNCHANGED <<prog, hook, todo, wait>>
  /\ UNCHANGED regVars /\ AppRest

Duplicates(t, o) == IF o.kind = "Component" THEN Placed(cur[t], o.name)
                                            ELSE Named(o.kind, o.name)

\* Duplicates and the object limit.
CreateRefused(t) ==
  /\ At(t, "create")
  /\ Duplicates(t, Op(t)) # {} \/ ~HasRoomForObject
  /\ Return(t)
  /\ UNCHANGED regVars /\ AppRest

CreateObject(t) ==
  LET o == Op(t)
  IN  /\ At(t, "create") /\ o.kind # "Actor"
      /\ Duplicates(t, o) = {} /\ HasRoomForObject
      /\ Created(o.kind, o.name, cur[t], "Installing")
      /\ pc' = Set(pc, t, IF o.kind = "Service" THEN "declare" ELSE "install")
      /\ cur' = Set(cur, t, nextId) /\ todo' = Set(todo, t, o.uses)
      /\ UNCHANGED <<prog, hook, wait>>
      /\ UNCHANGED <<edges, nextGen, issued, leases, watching, deliver, callback>>
      /\ AppRest

\* An actor type has nothing to install.
CreateActorType(t) ==
  LET o == Op(t)
  IN  /\ At(t, "create") /\ o.kind = "Actor"
      /\ Duplicates(t, o) = {} /\ HasRoomForObject
      /\ Created(o.kind, o.name, 0, "Installed")
      /\ Return(t)
      /\ UNCHANGED <<edges, nextGen, issued, leases, watching, deliver, callback>>
      /\ AppRest

\* _ApplyServiceBindings: the bindings a service declares, one after the other.
\* If one fails, those made are unbound again, each with its own wait.
Declare(t) ==
  LET left == Len(todo[t])
      made == SubSeq(Op(t).uses, 1, Len(Op(t).uses) - left)
      C == {c \in Placed(0, Head(todo[t])) : cur[t] \in Ids /\ Bindable(cur[t], c)}
  IN  /\ At(t, "declare")
      /\ \/ /\ left = 0
            /\ pc' = Set(pc, t, "install")
            /\ UNCHANGED <<todo, edges, nextGen, issued, leases>>
         \/ /\ left > 0 /\ C # {}
            /\ \E c \in C : BindLocked(cur[t], c)
            /\ pc' = Set(pc, t, "declared") /\ todo' = Set(todo, t, Tail(todo[t]))
         \/ /\ left > 0 /\ C = {}
            /\ pc' = Set(pc, t, "rollback") /\ todo' = Set(todo, t, made)
            /\ UNCHANGED <<edges, nextGen, issued, leases>>
      /\ UNCHANGED <<prog, cur, hook, wait>>
      /\ UNCHANGED <<reg, nextId, watching, deliver, callback>> /\ AppRest

\* OnBindingChanged of the new service, in the caller; an exception is recorded.
Declared(t) ==
  /\ Goto(t, "declared", "declare")
  /\ Keep /\ UNCHANGED regVars /\ AppRest

\* OnInstall runs in the caller and is not counted.
OnInstall(t) ==
  /\ Goto(t, "install", "ifRunning")
  /\ SetState(t, cur[t], "Installed")
  /\ Keep /\ RegistryRest /\ AppRest

\* OnInstall fails or throws, or a declared binding failed.  The object stays.
InstallFails(t) ==
  /\ At(t, "install") \/ (At(t, "rollback") /\ todo[t] = <<>>)
  /\ SetState(t, cur[t], "InstallFailed")
  /\ Return(t) /\ RegistryRest /\ AppRest

\* Into a running App the object is started at once.
IfRunning(t) ==
  /\ At(t, "ifRunning")
  /\ IF app = "Running" THEN Go(t, "starting") ELSE Return(t)
  /\ UNCHANGED regVars /\ AppRest

StartInstalled(t) ==
  /\ At(t, "starting")
  /\ SetState(t, cur[t], "Starting")
  /\ RunHook(t, cur[t], "OnStart") /\ UNCHANGED <<prog, todo, wait>>
  /\ RegistryRest /\ AppRest

InstallEnds(t) ==
  /\ Does(t, "Install")
  /\ \/ Succeeded(t) /\ SetState(t, cur[t], "Running")
     \/ HookFailed(t) /\ SetState(t, cur[t], "Failed")
  /\ Return(t) /\ RegistryRest /\ AppRest
-----------------------------------------------------------------------------
(* Start, pause, resume.                                                   *)

Transitions == {"Start", "Pause", "Resume"}
FromApp == [Start |-> {"Created", "Paused"}, Pause |-> {"Running"}, Resume |-> {"Paused"}]
FromState == [Start |-> "Installed", Pause |-> "Running", Resume |-> "Paused"]
ToState == [Start |-> "Running", Pause |-> "Paused", Resume |-> "Running"]
HookOf == [Start |-> "OnStart", Pause |-> "OnPause", Resume |-> "OnResume"]

\* Mutant: the transition starts without taking m_lifecycle_active.
TakesLifecycleAlways == TRUE

\* m_lifecycle_active: a second transition is refused at once.
TakesLifecycle == ~active

TransitionBegins(t) ==
  \E d \in Transitions :
    /\ Does(t, d) /\ At(t, "idle")
    /\ IF TakesLifecycle /\ app \in FromApp[d]
       THEN /\ active' = TRUE
            /\ app' = IF d = "Start" THEN "Starting" ELSE app
            /\ Go(t, "snapshot")
       ELSE Return(t) /\ UNCHANGED <<app, active>>
    /\ UNCHANGED <<regVars, shutdown, hooks, borrowed>>

\* Components are started before services; pause and resume leave them out.
StartFirst ==
  StartOrder \cup ByAge("Service") \cup (OfKind("Component") \X OfKind("Service"))
Moving(d) == {i \in OfKind("Service") \cup (IF d = "Start" THEN OfKind("Component") ELSE {}) :
                reg[i].state = FromState[d]}

Snapshot(t) ==
  \E d \in Transitions :
    /\ Does(t, d) /\ Goto(t, "snapshot", "next")
    /\ \E q \in Listings(Moving(d), StartFirst) : todo' = Set(todo, t, Objects(q))
    /\ UNCHANGED <<prog, cur, hook, wait, regVars>> /\ AppRest

NextObject(t) ==
  \E d \in Transitions :
    /\ Does(t, d) /\ At(t, "next") /\ todo[t] # <<>>
    /\ IF d = "Start" THEN SetState(t, Head(todo[t]).id, "Starting")
                      ELSE UNCHANGED <<reg, deliver, callback>>
    /\ RunHook(t, Head(todo[t]).id, HookOf[d]) /\ UNCHANGED <<prog, todo, wait>>
    /\ RegistryRest /\ AppRest

ObjectMoved(t) ==
  \E d \in Transitions :
    /\ Does(t, d)
    /\ \/ /\ Succeeded(t)
          /\ SetState(t, cur[t], ToState[d])
          /\ pc' = Set(pc, t, "next") /\ todo' = Set(todo, t, Tail(todo[t]))
       \/ /\ HookFailed(t)
          /\ SetState(t, cur[t], "Failed")
          /\ pc' = Set(pc, t, "broken") /\ todo' = Set(todo, t, <<>>)
    /\ UNCHANGED <<prog, cur, hook, wait>> /\ RegistryRest /\ AppRest

\* A start that broke off leaves the App running with what was started.
TransitionEnds(t) ==
  \E d \in Transitions :
    /\ Does(t, d)
    /\ \/ At(t, "next") /\ todo[t] = <<>> /\ app' = ToState[d]
       \/ At(t, "broken") /\ app' = IF d = "Start" THEN "Running" ELSE app
    /\ active' = FALSE
    /\ Return(t)
    /\ UNCHANGED <<regVars, shutdown, hooks, borrowed>>
-----------------------------------------------------------------------------
(* Stop and uninstall: one object is closed and taken out of the registry. *)

Kind(t) == IF Does(t, "Stop") THEN Head(todo[t]).kind ELSE Op(t).kind
InTurn(t) == /\ pc' = Set(pc, t, "next")
             /\ todo' = Set(todo, t, Tail(todo[t]))
             /\ UNCHANGED <<prog, cur, hook, wait>>
Finish(t) == IF Does(t, "Stop") THEN InTurn(t) ELSE Return(t)

\* What an operation does with an object after its first section, in order.
StopService == <<"gather", "drain", "OnStop", "erase", "uninstall", "remove">>
StopComponent == <<"unborrow", "OnStop", "uninstall", "remove">>
StopActor == <<"remove">>
UninstallService == <<"retire", "drain", "erase", "OnStop", "uninstall", "remove">>
UninstallComponent == <<"unborrow", "OnStop", "uninstall", "remove">>
UninstallActor == <<"removeType">>

Path(t) ==
  LET closing == [Stop |-> [Service |-> StopService, Component |-> StopComponent,
                            Actor |-> StopActor],
                  Uninstall |-> [Service |-> UninstallService,
                                 Component |-> UninstallComponent, Actor |-> UninstallActor]]
  IN  closing[Op(t).do][Kind(t)]

\* From a step to the one behind it, which may be the hook.
Proceed(t, p) ==
  LET q == Path(t)
      n == q[1 + CHOOSE k \in DOMAIN q : q[k] = p]
  IN  IF n = "OnStop" THEN RunHook(t, cur[t], n)
                      ELSE pc' = Set(pc, t, n) /\ UNCHANGED <<cur, hook>>

\* PendingCleanup: what keeps the App from being Stopped.
Pending == \E i \in Ids : \/ reg[i].borrows > 0 \/ reg[i].hooks > 0
                          \/ reg[i].phase \/ reg[i].state \in Incomplete

StopBegins(t) ==
  /\ Does(t, "Stop") /\ At(t, "idle")
  /\ IF TakesLifecycle /\ app # "Stopped"
     THEN active' = TRUE /\ app' = "Stopping" /\ Go(t, "snapshot")
     ELSE Return(t) /\ UNCHANGED <<app, active>>
  /\ UNCHANGED <<regVars, shutdown, hooks, borrowed>>

\* _StopAll: services, actors, then components, those of an owner before those
\* of the App, users before what they use.
Closable == Ids \ OfKind("App")
Rank(i) == [Service |-> 1, Actor |-> 2,
            Component |-> IF reg[i].owner = 0 THEN 4 ELSE 3][reg[i].kind]
StopFirst ==
  {p \in Closable \X Closable :
     \/ Rank(p[1]) < Rank(p[2])
     \/ /\ Rank(p[1]) = Rank(p[2])
        /\ \/ p \in ByAge("Service") \cup ByAge("Actor")
           \/ <<p[2], p[1]>> \in StartOrder}

StopSnapshot(t) ==
  /\ Does(t, "Stop") /\ Goto(t, "snapshot", "next")
  /\ \E q \in Listings(Closable, StopFirst) : todo' = Set(todo, t, Objects(q))
  /\ UNCHANGED <<prog, cur, hook, wait, regVars>> /\ AppRest

\* The next object of the list.
InLine(t, kind) == /\ Does(t, "Stop") /\ At(t, "next") /\ todo[t] # <<>>
                    /\ Head(todo[t]).kind = kind
ToClose(t) == /\ pc' = Set(pc, t, Head(Path(t))) /\ cur' = Set(cur, t, Head(todo[t]).id)
              /\ UNCHANGED <<prog, hook, todo, wait>>
Stoppable(i) == i \in Ids /\ ~reg[i].op
StoppingNow(i) == [reg EXCEPT ![i].op = TRUE, ![i].phase = TRUE, ![i].state = "Stopping"]

\* The first section of _DestroyService: its edges are retired at once.
DestroyService(t) ==
  LET i == Head(todo[t]).id
  IN  /\ InLine(t, "Service") /\ Stoppable(i)
      /\ reg' = StoppingNow(i) /\ Announce(t, i)
      /\ edges' = Retire(EdgesOf(i))
      /\ ToClose(t)
      /\ UNCHANGED <<nextId, nextGen, issued, leases, watching>> /\ AppRest

\* The first section of _DestroyComponent.  The gate stays open.
DestroyComponent(t) ==
  LET i == Head(todo[t]).id
  IN  /\ InLine(t, "Component") /\ Stoppable(i)
      /\ reg' = StoppingNow(i) /\ Announce(t, i)
      /\ ToClose(t)
      /\ RegistryRest /\ AppRest

\* An actor type is removed whatever else goes on.
DestroyActor(t) ==
  /\ InLine(t, "Actor")
  /\ ToClose(t)
  /\ UNCHANGED regVars /\ AppRest

\* Gone, or in the hands of an Uninstall.
StopSkips(t) ==
  /\ InLine(t, "Service") \/ InLine(t, "Component")
  /\ ~Stoppable(Head(todo[t]).id)
  /\ InTurn(t)
  /\ UNCHANGED regVars /\ AppRest

StopEnds(t) ==
  /\ Does(t, "Stop") /\ At(t, "next") /\ todo[t] = <<>>
  /\ app' = IF Pending THEN "StopIncomplete" ELSE "Stopped"
  /\ active' = FALSE
  /\ Return(t)
  /\ UNCHANGED <<regVars, shutdown, hooks, borrowed>>

\* BeginDestroyLocked: not while components are bound, not twice.
IsFree(i) == ~reg[i].op /\ (reg[i].kind = "Component" => EdgesTo(i) = {})

UninstallBegins(t) ==
  LET o == Op(t)
      found == IF o.kind = "Component" THEN UNION {Placed(i, o.name) : i \in Owners(o)}
                                       ELSE Named(o.kind, o.name)
  IN  /\ Does(t, "Uninstall") /\ At(t, "idle")
      /\ \/ \E i \in found :
              /\ IsFree(i)
              /\ reg' = [reg EXCEPT ![i].gate = TRUE, ![i].op = TRUE,
                                    ![i].phase = reg[i].kind # "Actor",
                                    ![i].state = "Uninstalling"]
              /\ Announce(t, i)
              /\ cur' = Set(cur, t, i)
              /\ pc' = Set(pc, t, Head(Path(t)))
              /\ UNCHANGED <<prog, hook, todo, wait>>
         \/ /\ found = {} \/ \E i \in found : ~IsFree(i)
            /\ Return(t) /\ UNCHANGED <<reg, deliver, callback>>
      /\ RegistryRest /\ AppRest

\* Stop has retired the edges of a service before; it now lists them all.
GatherEdges(t) ==
  /\ Goto(t, "gather", "drain")
  /\ wait' = Set(wait, t, {e.gen : e \in {x \in EdgesOf(cur[t]) : x.retiring}})
  /\ UNCHANGED <<prog, cur, hook, todo, regVars>> /\ AppRest

\* Mutant: edges an earlier try left retiring are not waited for.
RetireActiveEdges(t) ==
  /\ Goto(t, "retire", "drain")
  /\ edges' = Retire(EdgesOf(cur[t]))
  /\ wait' = Set(wait, t, {e.gen : e \in ActiveOf(EdgesOf(cur[t]))})
  /\ UNCHANGED <<prog, cur, hook, todo>>
  /\ UNCHANGED <<reg, nextId, nextGen, issued, leases, watching, deliver, callback>>
  /\ AppRest

\* Uninstall retires the edges of the service and waits for all of them, those
\* an earlier try left retiring as well.
RetireEdges(t) ==
  /\ Goto(t, "retire", "drain")
  /\ edges' = Retire(EdgesOf(cur[t]))
  /\ wait' = Set(wait, t, {e.gen : e \in EdgesOf(cur[t])})
  /\ UNCHANGED <<prog, cur, hook, todo>>
  /\ UNCHANGED <<reg, nextId, nextGen, issued, leases, watching, deliver, callback>>
  /\ AppRest

\* Uninstall erases the drained edges before OnStop, Stop after it.
EdgesDrained(t) ==
  /\ At(t, "drain") /\ Drained(wait[t])
  /\ Proceed(t, "drain")
  /\ UNCHANGED <<prog, todo, wait, regVars>> /\ AppRest

EraseEdges(t) ==
  /\ At(t, "erase")
  /\ EraseSubjectBindings(cur[t])
  /\ Proceed(t, "erase")
  /\ UNCHANGED <<prog, todo, wait>>
  /\ UNCHANGED <<reg, nextId, nextGen, issued, leases, watching, deliver, callback>>
  /\ AppRest

ComponentDrained(t) ==
  /\ At(t, "unborrow") /\ Unborrowed(cur[t])
  /\ Proceed(t, "unborrow")
  /\ UNCHANGED <<prog, todo, wait, regVars>> /\ AppRest

\* The deadline has come with borrows outstanding.
DrainLate(t) ==
  /\ \/ At(t, "drain") /\ ~Drained(wait[t])
     \/ At(t, "unborrow") /\ ~Unborrowed(cur[t])
  /\ Go(t, "abort")
  /\ UNCHANGED regVars /\ AppRest

\* OnStop failed or was late, or hooks that run still keep the object.
OnStopFailed(t) ==
  /\ Does(t, "Stop") \/ Does(t, "Uninstall")
  /\ HookFailed(t) \/ (Succeeded(t) /\ cur[t] \in Ids /\ reg[cur[t]].hooks > 0)
  /\ Go(t, "abort")
  /\ UNCHANGED regVars /\ AppRest

OnStopDone(t) ==
  /\ Does(t, "Stop") \/ Does(t, "Uninstall")
  /\ Succeeded(t) /\ ~(cur[t] \in Ids /\ reg[cur[t]].hooks > 0)
  /\ Proceed(t, "OnStop")
  /\ UNCHANGED <<prog, todo, wait, regVars>> /\ AppRest

\* OnUninstall runs in the caller; nothing changes if it throws, and no
\* deadline ends it.
ServiceOnUninstall(t) ==
  /\ Goto(t, "uninstall", "remove") /\ Kind(t) = "Service"
  /\ Keep /\ UNCHANGED regVars /\ AppRest
ComponentOnUninstall(t) ==
  /\ Goto(t, "uninstall", "remove") /\ Kind(t) = "Component"
  /\ Keep /\ UNCHANGED regVars /\ AppRest

\* _AbortDestroy: the object stays, can be found and closed again.
AbortDestroy(t) ==
  LET i == cur[t]
  IN  /\ At(t, "abort")
      /\ IF i \in Ids
         THEN /\ reg' = [reg EXCEPT ![i].phase = TRUE, ![i].op = FALSE,
                           ![i].state = IF Does(t, "Stop") THEN "StopIncomplete"
                                                           ELSE "UninstallIncomplete"]
              /\ Announce(t, i)
         ELSE UNCHANGED <<reg, deliver, callback>>
      /\ Finish(t)
      /\ RegistryRest /\ AppRest

\* FinishDestroyLocked: the object leaves the registry with its edges; its last
\* event goes to those that watch it now.
Removed(i) == reg' = Restrict(reg, Ids \ {i}) /\ edges' = edges \ EdgesTo(i)
LastEvent(i) == IF i \in Ids THEN Watchers(i) ELSE {}

\* The subscriptions of the object end with it; the event is held until their
\* callbacks are through.
FinishDestroy(t) ==
  LET i == cur[t]
  IN  /\ At(t, "remove")
      /\ Deactivate(TokensOf(i))
      /\ Removed(i)
      /\ pc' = Set(pc, t, "scan")
      /\ wait' = Set(wait, t, LastEvent(i) \ TokensOf(i))
      /\ UNCHANGED <<prog, cur, hook, todo>>
      /\ UNCHANGED <<nextId, nextGen, issued, leases, deliver, callback>> /\ AppRest

\* _UninstallActorTypeImpl revokes nothing.
FinishActorType(t) ==
  /\ At(t, "removeType")
  /\ Removed(cur[t])
  /\ deliver' = Set(deliver, t, LastEvent(cur[t]))
  /\ Return(t)
  /\ UNCHANGED <<nextId, nextGen, issued, leases, watching, callback>> /\ AppRest

\* DrainInactiveObservers: idle records go, then it waits for the others, then
\* it erases whatever is inactive by then.
ScanObservers(t) ==
  /\ At(t, "scan")
  /\ Erase(Inactive \cap Idle)
  /\ Go(t, "sweep")
  /\ UNCHANGED <<registry, leases, deliver, callback>> /\ AppRest

ObserversDone(t) ==
  /\ At(t, "sweep") /\ CallbacksDone(Inactive)
  /\ Go(t, "swept")
  /\ UNCHANGED regVars /\ AppRest

EraseObservers(t) ==
  /\ At(t, "swept")
  /\ Erase(Inactive)
  /\ deliver' = Set(deliver, t, wait[t])
  /\ Finish(t)
  /\ UNCHANGED <<registry, leases, callback>> /\ AppRest
-----------------------------------------------------------------------------
(* Bind and unbind, observe and revoke.                                    *)

\* The subject is a handle of a service or component that is there; the target
\* is looked up by its placement.
Subjects(o) == Named(o.kind, o.name)
Targets(o) == UNION {Placed(i, Head(o.uses)) : i \in Owners(o)}

Bind(t) ==
  LET o == Op(t)
      fits == {p \in Subjects(o) \X Targets(o) : ~FormsCycle(p[1], p[2]) /\ Bindable(p[1], p[2])}
  IN  /\ Does(t, "Bind") /\ At(t, "idle")
      /\ \/ \E p \in fits : /\ BindLocked(p[1], p[2])
                             /\ pc' = Set(pc, t, "changed") /\ cur' = Set(cur, t, p[1])
                             /\ UNCHANGED <<prog, hook, todo, wait>>
         \/ fits = {} /\ Return(t) /\ UNCHANGED <<edges, nextGen, issued, leases>>
      /\ UNCHANGED <<reg, nextId, watching, deliver, callback>> /\ AppRest

\* _UnbindComponentImpl up to its wait, for the edges E of a pair: the active
\* edge is retired, or the wait for one an earlier try left retiring goes on.
UnbindEdges(t, E) ==
  /\ edges' = Retire(ActiveOf(E))
  /\ pc' = Set(pc, t, "unbind")
  /\ wait' = Set(wait, t, IF ActiveOf(E) = {} THEN FirstRetiring(E)
                                              ELSE {e.gen : e \in ActiveOf(E)})
  /\ \E e \in E : cur' = Set(cur, t, e.subj)
  /\ UNCHANGED <<prog, hook, todo>>

\* The call ends, or the roll-back of an install goes on.
UnbindEnds(t) ==
  IF Does(t, "Install") THEN /\ pc' = Set(pc, t, "rollback")
                             /\ todo' = Set(todo, t, Tail(todo[t]))
                             /\ UNCHANGED <<prog, cur, hook, wait>>
  ELSE Return(t)

UnbindRest ==
  /\ UNCHANGED <<reg, nextId, nextGen, issued, leases, watching, deliver, callback>>
  /\ AppRest

Unbind(t) ==
  LET E == UNION {Between(s, c) : s \in Subjects(Op(t)), c \in Targets(Op(t))}
  IN  /\ Does(t, "Unbind") /\ At(t, "idle")
      /\ IF E = {} THEN Return(t) /\ UNCHANGED edges ELSE UnbindEdges(t, E)
      /\ UnbindRest

\* The next binding of a failed install.
Rollback(t) ==
  LET E == UNION {Between(cur[t], c) : c \in Placed(0, Head(todo[t]))}
  IN  /\ At(t, "rollback") /\ todo[t] # <<>>
      /\ IF E = {} THEN UnbindEnds(t) /\ UNCHANGED edges ELSE UnbindEdges(t, E)
      /\ UnbindRest

EdgeDrained(t) ==
  /\ At(t, "unbind") /\ Drained(wait[t])
  /\ Go(t, "unbound")
  /\ UNCHANGED regVars /\ AppRest

\* The edge stays retiring.
UnbindLate(t) ==
  /\ At(t, "unbind") /\ ~Drained(wait[t])
  /\ UnbindEnds(t)
  /\ UNCHANGED regVars /\ AppRest

EraseEdge(t) ==
  /\ At(t, "unbound")
  /\ \E g \in wait[t] : EraseBinding(g)
  /\ IF cur[t] \in Ids THEN Go(t, "changed") ELSE UnbindEnds(t)
  /\ UnbindRest

\* OnBindingChanged of the subject, in the caller; an exception is recorded.
BindingChanged(t) ==
  /\ At(t, "changed")
  /\ UnbindEnds(t)
  /\ UNCHANGED regVars /\ AppRest

Observe(t) ==
  LET pairs == Subjects(Op(t)) \X Targets(Op(t))
  IN  /\ Does(t, "Observe") /\ At(t, "idle")
      /\ \/ \E p \in pairs : Subscribe(p[1], p[2])
         \/ /\ pairs = {} \/ Cardinality(ActiveTokens) >= MaxObservers
            /\ UNCHANGED watching
      /\ Return(t)
      /\ UNCHANGED <<registry, leases, deliver, callback>> /\ AppRest

\* RevokeObserver, of any token ever handed out.
Revoke(t) ==
  /\ Does(t, "Revoke") /\ At(t, "idle")
  /\ \/ \E k \in 1..(nextToken - 1) :
          IF k \in DOMAIN observers
          THEN /\ Deactivate({k})
               /\ pc' = Set(pc, t, "revoke") /\ wait' = Set(wait, t, {k})
               /\ UNCHANGED <<prog, cur, hook, todo>>
          ELSE Return(t) /\ UNCHANGED watching
     \/ nextToken = 1 /\ Return(t) /\ UNCHANGED watching
  /\ UNCHANGED <<registry, leases, deliver, callback>> /\ AppRest

RevokeWaits(t) ==
  /\ At(t, "revoke") /\ CallbacksDone(wait[t])
  /\ Go(t, "revoked")
  /\ UNCHANGED regVars /\ AppRest

EraseObserver(t) ==
  /\ At(t, "revoked")
  /\ Erase(wait[t])
  /\ Return(t)
  /\ UNCHANGED <<registry, leases, deliver, callback>> /\ AppRest
-----------------------------------------------------------------------------
(* The shutdown request: a flag that stays, and one task that waits for it. *)

RequestShutdown(t) ==
  /\ Does(t, "RequestShutdown") /\ At(t, "idle")
  /\ requested' = TRUE
  /\ Return(t)
  /\ UNCHANGED <<regVars, awaiting, state, hooks, borrowed>>

\* CoWaitShutdownRequest: refused while another task waits, even if the request
\* is there; nothing to wait for if it is.
WaitShutdown(t) ==
  /\ Does(t, "WaitShutdown") /\ At(t, "idle")
  /\ IF awaiting # 0 \/ requested
     THEN Return(t) /\ UNCHANGED awaiting
     ELSE awaiting' = t /\ Go(t, "waitShutdown")
  /\ UNCHANGED <<regVars, requested, state, hooks, borrowed>>

\* Notified, or the request came before the wait was registered; or the deadline
\* of the call, a cancellation or the runtime ends the wait without a request.
ShutdownWaitEnds(t) ==
  /\ At(t, "waitShutdown")
  /\ Go(t, "leaveWait")
  /\ UNCHANGED regVars /\ AppRest

LeaveWait(t) ==
  /\ At(t, "leaveWait")
  /\ awaiting' = 0
  /\ Return(t)
  /\ UNCHANGED <<regVars, requested, state, hooks, borrowed>>
-----------------------------------------------------------------------------
(* The whole system.                                                       *)

AppVars == <<state, shutdown, locals, hooks>>

UserBorrows(h) ==
  /\ borrowed < MaxBorrows
  /\ Borrow(h)
  /\ borrowed' = borrowed + 1
  /\ UNCHANGED AppVars

UserReleases(h) == Release(h) /\ UNCHANGED <<AppVars, borrowed>>

Callback(t) ==
  /\ \E k \in deliver[t] : DispatchBegin(t, k)
  /\ UNCHANGED <<AppVars, borrowed>>

CallbackEnds(t) == DispatchEnd(t) /\ UNCHANGED <<AppVars, borrowed>>

HookSteps(t) == Settle(t) \/ Settled(t) \/ EnterHook(t) \/ HookRefused(t) \/ HookLate(t)
InstallSteps(t) ==
  \/ InstallBegins(t) \/ CreateRefused(t) \/ CreateObject(t) \/ CreateActorType(t)
  \/ Declare(t) \/ Declared(t) \/ Rollback(t) \/ OnInstall(t)
  \/ InstallFails(t) \/ IfRunning(t) \/ StartInstalled(t) \/ InstallEnds(t)
TransitionSteps(t) ==
  \/ TransitionBegins(t) \/ Snapshot(t) \/ NextObject(t) \/ ObjectMoved(t) \/ TransitionEnds(t)
CloseSteps(t) ==
  \/ StopBegins(t) \/ StopSnapshot(t) \/ DestroyService(t) \/ DestroyComponent(t)
  \/ DestroyActor(t) \/ StopSkips(t) \/ StopEnds(t)
  \/ UninstallBegins(t) \/ GatherEdges(t) \/ RetireEdges(t) \/ EdgesDrained(t) \/ EraseEdges(t)
  \/ ComponentDrained(t) \/ DrainLate(t) \/ OnStopFailed(t) \/ OnStopDone(t)
  \/ ServiceOnUninstall(t) \/ ComponentOnUninstall(t) \/ AbortDestroy(t)
  \/ FinishDestroy(t) \/ FinishActorType(t) \/ ScanObservers(t) \/ ObserversDone(t) \/ EraseObservers(t)
BindSteps(t) ==
  \/ Bind(t) \/ Unbind(t) \/ EdgeDrained(t) \/ UnbindLate(t) \/ EraseEdge(t)
  \/ BindingChanged(t)
ObserverSteps(t) == Observe(t) \/ Revoke(t) \/ RevokeWaits(t) \/ EraseObserver(t)
ShutdownSteps(t) ==
  \/ RequestShutdown(t) \/ WaitShutdown(t) \/ ShutdownWaitEnds(t) \/ LeaveWait(t)

Step(t) ==
  \/ HookSteps(t) \/ InstallSteps(t) \/ TransitionSteps(t) \/ CloseSteps(t)
  \/ BindSteps(t) \/ ObserverSteps(t) \/ ShutdownSteps(t) \/ Callback(t) \/ CallbackEnds(t)

\* All calls are made, and what they left has come to its end.
AllDone ==
  /\ \A t \in Tasks : prog[t] = <<>> /\ Quiet(t)
  /\ running = {} /\ \A h \in issued : leases[h] = 0
  /\ UNCHANGED vars

Next ==
  \/ \E t \in Tasks : Step(t)
  \/ \E r \in running : HookEnds(r)
  \/ \E h \in issued : UserBorrows(h) \/ UserReleases(h)
  \/ AllDone

\* The task is in a hook that runs in the caller: OnInstall, OnUninstall or
\* OnBindingChanged.  No deadline ends it.
InlineHook(t) == Quiet(t) /\ pc[t] \in {"install", "uninstall", "declared", "changed"}

\* It waits for a shutdown request nobody has made: the deadline is the caller's
\* to give.
AwaitsRequest(t) == Quiet(t) /\ pc[t] = "waitShutdown" /\ ~requested

\* Every coroutine is scheduled, every wait with a deadline ends, and so does every
\* callback of an observer.  Nothing is assumed of borrowers and of hooks, whether
\* they run in a coroutine of their own or in the caller.
Fairness == \A t \in Tasks : WF_vars(~InlineHook(t) /\ ~AwaitsRequest(t) /\ Step(t))

Spec == Init /\ [][Next]_vars
FairSpec == Spec /\ Fairness
-----------------------------------------------------------------------------
(* Properties.                                                             *)

\* What is registered stays within the limits of AppOptions, every edge leads to
\* a registered component and no token is ahead of its counter (CreateEntryLocked,
\* BindLocked, Observe).
TypeOK ==
  /\ Cardinality(Ids) <= MaxObjects /\ \A i \in Ids : i < nextId
  /\ \A i \in Ids : /\ reg[i].kind \in Kinds /\ reg[i].state \in States
                    /\ {reg[i].op, reg[i].gate, reg[i].phase} \subseteq BOOLEAN
                    /\ reg[i].borrows \in Nat /\ reg[i].hooks \in Nat
  /\ Cardinality(edges) <= MaxBindings
  /\ \A e \in edges : e.comp \in Ids /\ e.gen < nextGen /\ e.borrows \in Nat
  /\ Cardinality(ActiveTokens) <= MaxObservers
  /\ \A k \in DOMAIN observers : k < nextToken /\ observers[k].inFlight \in Nat
  /\ app \in {"Created", "Starting", "Running", "Paused", "Stopping", "Stopped", "StopIncomplete"}
  /\ active \in BOOLEAN

\* The counts the waits go by are the leases and hooks there are: the borrows of
\* a component, those of each edge, and hooks_in_flight (AcquireBorrowLocked,
\* ReleaseBorrow, NoteHookSettled), also after a pair was bound again while an
\* old edge drains.
CountersAgree ==
  /\ TypeOK
  /\ \A i \in Ids :
       /\ reg[i].borrows = SumFunctionOnSet(leases, {h \in issued : h.comp = i})
       /\ reg[i].hooks = Cardinality({r \in running : r.id = i})
                         + Cardinality({t \in Tasks : pc[t] = "refused" /\ cur[t] = i})
  /\ \A h \in issued :
       /\ \A e \in Edge(h.gen) : e.borrows = leases[h]
       /\ leases[h] > 0 /\ h.comp \in Ids => Edge(h.gen) # {}

\* A task that has an object under its destroy operation.
Closing(t, i) ==
  /\ cur[t] = i /\ (Does(t, "Uninstall") \/ Does(t, "Stop"))
  /\ pc[t] \notin {"idle", "snapshot", "next", "scan", "sweep", "swept"}
  /\ Kind(t) = "Actor" => Does(t, "Uninstall")

\* op_in_progress is set exactly while one Stop or Uninstall closes the object, and
\* m_lifecycle_active exactly while one transition or Stop runs: a failure, a
\* deadline or a refused hook leaves neither behind and gives neither up early
\* (BeginOpLocked, BeginDestroyLocked, _AbortDestroy).  Install, Start, Bind and
\* Unbind take no op_in_progress: what Registry.hpp says of them is
\* OneControlOperation.
OneOperation ==
  /\ \A i \in Ids : Cardinality({t \in Tasks : Closing(t, i)}) = IF reg[i].op THEN 1 ELSE 0
  /\ Cardinality({t \in Tasks : /\ \E d \in Transitions \cup {"Stop"} : Does(t, d)
                                /\ pc[t] # "idle"}) = IF active THEN 1 ELSE 0

\* From the end of its drain on, a service that is stopped or uninstalled holds
\* no borrow of a registered component, and a component that is uninstalled is
\* lent to nobody: none outlives the wait, also when an earlier try ended late, and
\* none is made beside it (_DestroyService, _UninstallServiceImpl, BindLocked).
DrainedPcs == {"erase", "settle", "settling", "enter", "await", "refused", "hookOk",
               "uninstall", "remove"}
ClosedUnused ==
  \A t \in Tasks : \A h \in issued :
    /\ Does(t, "Uninstall") \/ Does(t, "Stop")
    /\ pc[t] \in DrainedPcs /\ cur[t] \in Ids
    /\ \/ Kind(t) = "Service" /\ h.subj = cur[t] /\ h.comp \in Ids
       \/ Kind(t) = "Component" /\ Does(t, "Uninstall") /\ h.comp = cur[t]
    => leases[h] = 0

\* A service takes its edges with it: no component keeps one of a service that is
\* gone, which would keep the component from being uninstalled for good
\* (EraseSubjectBindingsLocked, BeginDestroyLocked).
\* (The edges of a component that is gone do stay.)
NoDanglingBinding ==
  \A e \in edges : e.ofService => e.subj \in Ids

\* Components never depend on themselves (_WouldFormCycleLocked), so there is an
\* order to start and stop them in.
DependenciesAcyclic ==
  \A c \in OfKind("Component") : \A d \in Dependencies(c) : c \notin Reach(d)

\* No callback of a subscription starts after it was revoked or its observer
\* uninstalled, even for an event taken before (DispatchEvents).
NoLateCallback ==
  [][\A t \in Tasks : callback'[t] # callback[t] /\ callback'[t] # 0
                      => callback'[t] \notin revoked]_vars

\* Every call returns, unless its own OnInstall, OnUninstall or OnBindingChanged
\* never does, which run in the caller, or it waits without a deadline for a
\* request nobody makes.  Hooks in coroutines of their own and borrowers that never
\* end cost a call its deadline, callbacks that end let a revocation finish, and
\* a call caught in its inline hook keeps no other one (_WaitBorrows,
\* WaitHooksSettledCo, _WaitObserversDone).
OperationsReturn ==
  \A t \in Tasks : <>[](prog[t] = <<>> \/ InlineHook(t) \/ AwaitsRequest(t))

\* As Registry.hpp has it for observers: while a callback runs, its record is not
\* erased.
RunningCallbackKeepsRecord ==
  \A t \in Tasks : callback[t] # 0 => callback[t] \in DOMAIN observers

\* As Registry.hpp has it for control operations: an object is never in the hands
\* of two calls of Install, Start, Stop, Uninstall and Unbind.
Controls(t, i) ==
  /\ cur[t] = i /\ \E d \in {"Install", "Start", "Stop", "Uninstall", "Unbind"} : Does(t, d)
  /\ pc[t] \notin {"idle", "create", "snapshot", "next", "broken", "scan", "sweep", "swept"}
OneControlOperation ==
  \A i \in Ids : \A t, u \in Tasks : Controls(t, i) /\ Controls(u, i) => t = u

\* As App.cc has it for hooks: the next hook of an object waits for the end of the
\* one before it, and does not run beside it.
HooksDoNotOverlap ==
  \A r, s \in running : r.id = s.id => r = s
=============================================================================
