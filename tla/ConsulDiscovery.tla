---------------------------- MODULE ConsulDiscovery ----------------------------
(***************************************************************************)
(* A provider of the route table: the component that watches a Consul      *)
(* agent and publishes what it says (examples/ecommerce_cluster,           *)
(* discovery.cc).  Its owner makes one call after another; the watchers    *)
(* are coroutines of their own.                                            *)
(*                                                                         *)
(* The agent is external: a query brings any of Views or fails within its  *)
(* timeout, whatever index it carries, so the indices are left out.        *)
(***************************************************************************)
EXTENDS DynamicRouteTable, FiniteSets

CONSTANTS
  Watched,     \* options.watch_services
  Views,       \* lists of endpoints the agent may know
  MaxAnswers   \* bound of the model: queries of a watcher that are answered

ASSUME WatchAssumption ==
  Watched \subseteq Services /\ IsFiniteSet(Watched) /\ MaxAnswers \in Nat

VARIABLES
  component,   \* "none", "made", "started", "closed": m_started and m_closed
  call,        \* where the owner's call is; "none" and "failed" between calls
  stop,        \* m_stop
  watchers,    \* m_watchers_active
  loop,        \* where a watcher is
  first,       \* first_done and first_ok of its watch: "none", "ok", "failed"
  got,         \* the view its query brought
  answered,    \* queries of it that were answered
  registered   \* m_registered_id is set

lifeVars == <<component, call, stop, registered>>
watchVars == <<watchers, loop, first, got, answered>>
consulVars == <<lifeVars, watchVars>>

ConsulInit ==
  /\ component = "none" /\ call = "none" /\ stop = FALSE /\ registered = FALSE
  /\ watchers = 0 /\ loop = [w \in Watched |-> "none"]
  /\ first = [w \in Watched |-> "none"] /\ got = [w \in Watched |-> <<>>]
  /\ answered = [w \in Watched |-> 0]

Goes(from, to) == call = from /\ call' = to
Table == UNCHANGED entries
-----------------------------------------------------------------------------
(* Calls of the owner.                                                     *)

Idle == call \in {"none", "failed"}

\* Create, whose options are valid, makes an engine and the clients on it.
CreateBegins ==
  /\ Idle /\ component = "none" /\ call' = "engine"
  /\ UNCHANGED <<component, stop, registered, watchVars>> /\ Table

\* _StartEngine: the engine runs in time and the clients are made ...
EngineRuns ==
  /\ Goes("engine", "none") /\ component' = "made"
  /\ UNCHANGED <<stop, registered, watchVars>> /\ Table

CloseBegins ==
  /\ component' = "closed" /\ stop' = TRUE /\ call' = "marking"
  /\ UNCHANGED <<registered, watchVars>> /\ Table

\* ... or Create closes what it has made.
EngineFails == call = "engine" /\ CloseBegins

StartRefused ==
  /\ Idle /\ component # "made" /\ call' = "failed"
  /\ UNCHANGED <<component, stop, registered, watchVars>> /\ Table

\* Start counts all watchers before the first of them runs.
StartBegins ==
  /\ Idle /\ component = "made" /\ component' = "started"
  /\ watchers' = Cardinality(Watched) /\ call' = "watchers"
  /\ UNCHANGED <<stop, registered, loop, first, got, answered>> /\ Table

WatcherStarts ==
  /\ call = "watchers"
  /\ \E w \in Watched : loop[w] = "none" /\ loop' = [loop EXCEPT ![w] = "check"]
  /\ UNCHANGED <<lifeVars, watchers, first, got, answered>> /\ Table

\* A watcher that cannot be registered stays counted.
WatcherRefused ==
  /\ Goes("watchers", "failed") /\ \E w \in Watched : loop[w] = "none"
  /\ UNCHANGED <<component, stop, registered, watchVars>> /\ Table

WatchersStarted ==
  /\ Goes("watchers", "firstViews") /\ \A w \in Watched : loop[w] # "none"
  /\ UNCHANGED <<component, stop, registered, watchVars>> /\ Table

\* Every watch has its first view ...
StartEnds ==
  /\ Goes("firstViews", "none") /\ \A w \in Watched : first[w] = "ok"
  /\ UNCHANGED <<component, stop, registered, watchVars>> /\ Table

\* ... or one has failed, or the deadline has passed.
StartFails ==
  /\ Goes("firstViews", "failed")
  /\ UNCHANGED <<component, stop, registered, watchVars>> /\ Table

RegisterSelf ==
  /\ Idle /\ call' = IF component = "closed" THEN "failed" ELSE "registering"
  /\ UNCHANGED <<component, stop, registered, watchVars>> /\ Table

\* Only what was registered is deregistered.
DeregisterSelf ==
  /\ Idle
  /\ call' = CASE ~registered -> "none"
               [] registered /\ component = "closed" -> "failed"
               [] OTHER -> "deregistering"
  /\ UNCHANGED <<component, stop, registered, watchVars>> /\ Table

\* The agent confirms, or the call fails and m_registered_id stays.
AgentConfirms ==
  /\ \/ Goes("registering", "none") /\ registered' = TRUE
     \/ Goes("deregistering", "none") /\ registered' = FALSE
  /\ UNCHANGED <<component, stop, watchVars>> /\ Table

AgentRefuses ==
  /\ Goes("registering", "failed") \/ Goes("deregistering", "failed")
  /\ UNCHANGED <<component, stop, registered, watchVars>> /\ Table

Close ==
  /\ Idle
  /\ IF component = "closed"
     THEN call' = "none" /\ UNCHANGED <<component, stop, registered, watchVars>> /\ Table
     ELSE CloseBegins

\* The views are withdrawn before the watchers are awaited.
Marks ==
  /\ Goes("marking", "closing")
  /\ entries' = [s \in DOMAIN entries |->
                   IF s \in Watched THEN [entries[s] EXCEPT !.unavailable = TRUE,
                                                          !.endpoints = <<>>]
                                    ELSE entries[s]]
  /\ UNCHANGED <<component, stop, registered, watchVars>>

Live == {w \in Watched : loop[w] \notin {"none", "done"}}

\* Close waits for the watchers longer than a query can last, so the deadline
\* passes only when a watcher is counted that never ran.
CloseEnds ==
  /\ Goes("closing", "none") /\ (watchers = 0 \/ Live = {})
  /\ UNCHANGED <<component, stop, registered, watchVars>> /\ Table

OwnerSteps ==
  \/ EngineRuns \/ EngineFails \/ WatcherStarts \/ WatcherRefused \/ WatchersStarted
  \/ StartEnds \/ StartFails \/ AgentConfirms \/ AgentRefuses \/ Marks \/ CloseEnds
-----------------------------------------------------------------------------
(* The loop of a watcher (_WatchLoop).                                     *)

Moves(w, from, to) == loop[w] = from /\ loop' = [loop EXCEPT ![w] = to]

WatchChecks(w) ==
  /\ Moves(w, "check", IF stop THEN "leave" ELSE "query")
  /\ UNCHANGED <<lifeVars, watchers, first, got, answered>> /\ Table

\* A failed query publishes nothing and refreshes nothing.
QueryFails(w) ==
  /\ Moves(w, "query", "check")
  /\ first' = [first EXCEPT ![w] = IF @ = "none" THEN "failed" ELSE @]
  /\ UNCHANGED <<lifeVars, watchers, got, answered>> /\ Table

\* m_stop is looked at once more before the view is published.
QueryAnswered(w, list) ==
  /\ answered[w] < MaxAnswers
  /\ Moves(w, "query", IF stop THEN "leave" ELSE "publish")
  /\ got' = [got EXCEPT ![w] = list] /\ answered' = [answered EXCEPT ![w] = @ + 1]
  /\ UNCHANGED <<lifeVars, watchers, first>> /\ Table

WatchPublishes(w) ==
  /\ Moves(w, "publish", "record") /\ Replace(w, got[w])
  /\ UNCHANGED <<lifeVars, watchers, first, got, answered>>

WatchRecords(w) ==
  /\ Moves(w, "record", "check")
  /\ first' = [first EXCEPT ![w] = IF @ = "none" THEN "ok" ELSE @]
  /\ UNCHANGED <<lifeVars, watchers, got, answered>> /\ Table

WatcherLeaves(w) ==
  /\ Moves(w, "leave", "done") /\ watchers' = watchers - 1
  /\ UNCHANGED <<lifeVars, first, got, answered>> /\ Table

WatchSteps(w) ==
  \/ WatchChecks(w) \/ QueryFails(w) \/ \E list \in Views : QueryAnswered(w, list)
  \/ WatchPublishes(w) \/ WatchRecords(w) \/ WatcherLeaves(w)
=============================================================================
