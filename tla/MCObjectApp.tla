---------------------------- MODULE MCObjectApp ------------------------------
(* Model values and the programs of the tasks for ObjectApp.               *)
EXTENDS ObjectApp

Call(do, kind, name, uses) ==
  [do |-> do, kind |-> kind, name |-> name, owner |-> "none", uses |-> uses]
Component(c) == Call("Install", "Component", c, <<>>)
Service(s, uses) == Call("Install", "Service", s, uses)
App(do) == Call(do, "none", "none", <<>>)
Within(o, call) == [call EXCEPT !.owner = o]
Both(p, q) == <<p, q>>

\* A service and its component are uninstalled while the pair is bound and
\* unbound and the component is borrowed.
Rebinding == Both(
  <<Component("c"), Service("s", <<"c">>), App("Start"),
    Call("Uninstall", "Service", "s", <<>>), Call("Uninstall", "Component", "c", <<>>)>>,
  <<Call("Unbind", "Service", "s", <<"c">>), Call("Bind", "Service", "s", <<"c">>),
    Call("Unbind", "Service", "s", <<"c">>), Call("Bind", "Service", "s", <<"c">>)>>)

\* Everything is stopped, once more if borrows or hooks were late, while the
\* service is bound; and while components are still being installed.
Stopping == Both(
  <<Component("c"), Service("s", <<>>), App("Start"), App("Stop"), App("Stop")>>,
  <<Call("Bind", "Service", "s", <<"c">>)>>)
Arriving == Both(
  <<App("Start"), Call("Bind", "Component", "d", <<"c">>), App("Stop")>>,
  <<Component("d"), Component("c")>>)

\* Pause and resume beside an uninstall, and a start beside another.
Pausing == Both(
  <<Service("s", <<>>), App("Start"), App("Pause"), App("Resume"), App("Stop")>>,
  <<App("Start"), Call("Uninstall", "Service", "s", <<>>), Service("s", <<>>)>>)

\* Two components that come to use each other, an actor type, and a stop.
Depending == Both(
  <<Component("c"), Component("d"), Call("Bind", "Component", "c", <<"d">>), App("Start"), App("Stop")>>,
  <<Call("Bind", "Component", "d", <<"c">>), Call("Install", "Actor", "a", <<>>),
    Call("Uninstall", "Actor", "a", <<>>)>>)

\* A service watches a component, whose state changes, and is uninstalled or
\* revokes.
Watching == Both(
  <<Component("c"), Service("s", <<>>), Call("Observe", "Service", "s", <<"c">>),
    Call("Uninstall", "Service", "s", <<>>)>>,
  <<App("Start"), Call("Observe", "Service", "s", <<"c">>), App("Revoke"),
    Call("Uninstall", "Component", "c", <<>>)>>)

\* A service that declares two bindings, of which the second may not be there
\* yet or no more, while the first is borrowed and its component uninstalled.
Declaring == Both(
  <<Component("c"), App("Start"), Service("s", <<"c", "d">>),
    Call("Uninstall", "Service", "s", <<>>)>>,
  <<Component("d"), Call("Uninstall", "Component", "c", <<>>)>>)

\* A component of a service: the service goes while it is installed, bound,
\* uninstalled or stopped.
Owning == Both(
  <<Service("s", <<>>), Call("Uninstall", "Service", "s", <<>>), App("Stop")>>,
  <<Within("s", Component("x")), Within("s", Call("Bind", "Service", "s", <<"x">>)),
    Within("s", Call("Uninstall", "Component", "x", <<>>)), Component("x")>>)

\* Two tasks wait for the request one of them makes.
Requesting == Both(
  <<App("Start"), App("WaitShutdown"), App("Stop")>>,
  <<App("RequestShutdown"), App("WaitShutdown"), Component("c")>>)

\* A component that is being installed while everything is stopped, and a
\* service that comes to use it.
Lending == Both(
  <<App("Start"), Component("c"), Service("s", <<"c">>), Call("Uninstall", "Service", "s", <<>>)>>,
  <<App("Stop")>>)

MCPrograms == {Rebinding, Stopping, Arriving, Pausing, Depending, Watching,
               Declaring, Owning, Requesting, Lending}

\* What closes an object beside its installation, and beside its start.
ControlPrograms == {Lending}
HookPrograms == {Pausing}

\* The events of one coroutine, an uninstall by another, and a revocation.
ObserverPrograms == {
  <<<<Component("c"), App("Start")>>,
    <<Service("s", <<>>), Call("Observe", "Service", "s", <<"c">>),
      Component("d"), Call("Uninstall", "Component", "d", <<>>)>>,
    <<App("Revoke")>>>>}
=============================================================================
