--------------------------- MODULE ObjectRegistry ----------------------------
(***************************************************************************)
(* The v2 object registry (Registry.cc): entries of installed objects,     *)
(* binding edges, borrow leases, hook accounting and observers.  Each      *)
(* operator is one critical section of m_mtx, or the part of one that an   *)
(* operation of the App (ObjectApp) puts together.                         *)
(*                                                                         *)
(* An id is never used again, so it is the entry's generation as well; the *)
(* edges of all components are one set, keyed by their own generation.     *)
(***************************************************************************)
EXTENDS Integers, Sequences, FiniteSets, FiniteSetsExt, Functions

CONSTANTS
  Tasks,         \* coroutines that call the App or the registry
  MaxObjects,    \* limits of AppOptions
  MaxBindings,
  MaxObservers

ASSUME RegistryLimits ==
  {MaxObjects, MaxBindings, MaxObservers} \subseteq Nat \ {0}

VARIABLES
  reg,        \* m_entries: id -> entry
  nextId,     \* m_next_id_seq
  edges,      \* bindings of all entries
  nextGen,    \* m_next_generation, as far as edges use it
  issued,     \* component handles ever handed out: component, user, edge
  leases,     \* for each of them the number of BindingLease objects alive
  observers,  \* m_observers: token -> record
  nextToken,  \* m_next_observer_id
  revoked,    \* history: tokens a Revoke or an uninstall has marked
  deliver,    \* events a task has still to dispatch, as tokens
  callback    \* the token whose callback a task is running, 0 for none

registry == <<reg, nextId, edges, nextGen, issued>>
watching == <<observers, nextToken, revoked>>
regVars == <<registry, leases, watching, deliver, callback>>

Kinds == {"App", "Service", "Component", "Actor"}
States == {"Installing", "Installed", "InstallFailed", "Starting", "Running", "Paused",
           "Stopping", "StopIncomplete", "Uninstalling", "UninstallIncomplete", "Failed"}
Incomplete == {"StopIncomplete", "UninstallIncomplete"}

Entry(kind, name, owner, state) ==
  [kind |-> kind, name |-> name, state |-> state,
   owner |-> owner,      \* owner_id of a Service or Actor scope, 0 for App scope
   op |-> FALSE,         \* op_in_progress
   gate |-> FALSE,       \* gate_closed
   phase |-> FALSE,      \* destroy_phase is set
   borrows |-> 0,        \* component_borrows
   hooks |-> 0,          \* hooks_in_flight
   waiter |-> "none"]    \* hook_settled_waiter: not created, idle or notified

\* _RegisterAppObject: the App is an entry itself, which nothing closes.
AppEntry == Entry("App", "app", 0, "Running")

RegistryInit ==
  /\ reg = [i \in {1} |-> AppEntry] /\ nextId = 2
  /\ edges = {} /\ nextGen = 1 /\ issued = {} /\ leases = [h \in {} |-> 0]
  /\ observers = [k \in {} |-> 0] /\ nextToken = 1 /\ revoked = {}
  /\ deliver = [t \in Tasks |-> {}] /\ callback = [t \in Tasks |-> 0]

Ids == DOMAIN reg
OfKind(kind) == {i \in Ids : reg[i].kind = kind}
Named(kind, name) == {i \in OfKind(kind) : reg[i].name = name}

\* FindComponentLocked: a component's name is its own only within its owner.
Placed(owner, name) == {i \in Named("Component", name) : reg[i].owner = owner}

\* CreateEntryLocked: the object limit, then a fresh id.
HasRoomForObject == Cardinality(Ids) < MaxObjects
Created(kind, name, owner, state) ==
  /\ reg' = [i \in Ids \cup {nextId} |->
               IF i = nextId THEN Entry(kind, name, owner, state) ELSE reg[i]]
  /\ nextId' = nextId + 1
-----------------------------------------------------------------------------
(* State and events.                                                       *)

\* SetStateLocked: the observers of the object that are active now; the task
\* dispatches to them after the lock, before it does anything else.
Watchers(i) == {k \in DOMAIN observers : observers[k].active /\ observers[k].target = i}
Announce(t, i) ==
  /\ deliver' = [deliver EXCEPT ![t] = Watchers(i)]
  /\ UNCHANGED callback

Quiet(t) == deliver[t] = {} /\ callback[t] = 0

\* SetStateAndDispatch: nothing happens if the entry is gone.
SetState(t, i, state) ==
  IF i \in Ids
  THEN reg' = [reg EXCEPT ![i].state = state] /\ Announce(t, i)
  ELSE UNCHANGED <<reg, deliver, callback>>

\* Mutant: the event is delivered without looking at the record again.
DispatchBeginUnchecked(t, k) ==
  /\ callback[t] = 0 /\ k \in deliver[t]
  /\ callback' = [callback EXCEPT ![t] = k]
  /\ observers' = IF k \in DOMAIN observers
                  THEN [observers EXCEPT ![k].inFlight = @ + 1] ELSE observers
  /\ UNCHANGED <<registry, leases, nextToken, revoked, deliver>>

\* DispatchEvents, one event: skipped if the observer was revoked meanwhile.
DispatchBegin(t, k) ==
  /\ callback[t] = 0 /\ k \in deliver[t]
  /\ IF k \in DOMAIN observers /\ observers[k].active
     THEN /\ observers' = [observers EXCEPT ![k].inFlight = @ + 1]
          /\ callback' = [callback EXCEPT ![t] = k]
          /\ UNCHANGED deliver
     ELSE /\ deliver' = [deliver EXCEPT ![t] = @ \ {k}]
          /\ UNCHANGED <<observers, callback>>
  /\ UNCHANGED <<registry, leases, nextToken, revoked>>

\* Mutant: the callback's lease is not given back.
DispatchEndKeeps(t) ==
  /\ callback[t] # 0
  /\ deliver' = [deliver EXCEPT ![t] = @ \ {callback[t]}]
  /\ callback' = [callback EXCEPT ![t] = 0]
  /\ UNCHANGED <<registry, leases, watching>>

\* The callback has returned or thrown.
DispatchEnd(t) ==
  /\ callback[t] # 0
  /\ observers' = IF callback[t] \in DOMAIN observers
                  THEN [observers EXCEPT ![callback[t]].inFlight = @ - 1]
                  ELSE observers
  /\ deliver' = [deliver EXCEPT ![t] = @ \ {callback[t]}]
  /\ callback' = [callback EXCEPT ![t] = 0]
  /\ UNCHANGED <<registry, leases, nextToken, revoked>>
-----------------------------------------------------------------------------
(* Observers.                                                              *)

ActiveTokens == {k \in DOMAIN observers : observers[k].active}
TokensOf(i) == {k \in DOMAIN observers : observers[k].observer = i}
Deactivated(K) == [k \in DOMAIN observers |->
                     IF k \in K THEN [observers[k] EXCEPT !.active = FALSE] ELSE observers[k]]

Subscribe(i, j) ==
  /\ Cardinality(ActiveTokens) < MaxObservers
  /\ observers' = [k \in DOMAIN observers \cup {nextToken} |->
                     IF k = nextToken
                     THEN [observer |-> i, target |-> j, active |-> TRUE, inFlight |-> 0]
                     ELSE observers[k]]
  /\ nextToken' = nextToken + 1
  /\ UNCHANGED revoked

\* The first section of RevokeObserver, and RevokeObserversOfLocked.
Deactivate(K) ==
  /\ observers' = Deactivated(K)
  /\ revoked' = revoked \cup K
  /\ UNCHANGED nextToken

\* The scans of DrainInactiveObservers and the erase of RevokeObserver.
Erase(K) ==
  /\ observers' = Restrict(observers, DOMAIN observers \ K)
  /\ UNCHANGED <<nextToken, revoked>>

Inactive == DOMAIN observers \ ActiveTokens
Idle == {k \in DOMAIN observers : observers[k].inFlight = 0}

\* _WaitObserversDone: no callback of these runs.
CallbacksDone(K) == K \cap DOMAIN observers \subseteq Idle
-----------------------------------------------------------------------------
(* Bindings and borrows.                                                   *)

EdgesTo(c) == {e \in edges : e.comp = c}
EdgesOf(s) == {e \in edges : e.subj = s}
Edge(g) == {e \in edges : e.gen = g}
Retire(E) == {IF e \in E THEN [e EXCEPT !.retiring = TRUE] ELSE e : e \in edges}

\* BeginUnbindLocked takes the active edge of the pair; if there is none, the
\* first that an earlier try left retiring (FindRetiringBindingLocked).
Between(s, c) == EdgesTo(c) \cap EdgesOf(s)
ActiveOf(E) == {e \in E : ~e.retiring}
FirstRetiring(E) == {Min({e.gen : e \in E \ ActiveOf(E)})}

\* EraseBindingLocked and EraseSubjectBindingsLocked: only what is retiring.
EraseBinding(g) == edges' = edges \ {e \in Edge(g) : e.retiring}
EraseSubjectBindings(s) == edges' = edges \ {e \in EdgesOf(s) : e.retiring}

\* Mutant: only the gate of the subject is looked at.
SubjectGateOpen(s) == ~reg[s].gate

\* The subject's own close gate: its edges may be about to be erased.
SubjectOpen(s) ==
  /\ ~reg[s].gate /\ ~reg[s].op
  /\ reg[s].state \notin {"Stopping", "Uninstalling"} \cup Incomplete

\* BindLocked: gates, limit, one binding per pair that is not retiring.
Bindable(s, c) ==
  /\ ~reg[c].gate
  /\ SubjectOpen(s)
  /\ Cardinality(edges) < MaxBindings
  /\ ActiveOf(Between(s, c)) = {}

BindLocked(s, c) ==
  LET h == [comp |-> c, subj |-> s, gen |-> nextGen]
  IN  /\ edges' = edges \cup {[gen |-> nextGen, subj |-> s, comp |-> c,
                               ofService |-> reg[s].kind = "Service",
                               retiring |-> FALSE, borrows |-> 0]}
      /\ issued' = issued \cup {h}
      /\ leases' = [x \in issued \cup {h} |-> IF x = h THEN 0 ELSE leases[x]]
      /\ nextGen' = nextGen + 1

\* A component may be borrowed while it runs, and while its user is being
\* installed also before it runs.
Borrowable(c, s) ==
  \/ reg[c].state = "Running"
  \/ reg[c].state = "Installed" /\ s \in Ids /\ reg[s].state = "Installing"

Counted(c, g, d) ==
  /\ reg' = [reg EXCEPT ![c].borrows = @ + d]
  /\ edges' = {IF e.gen = g THEN [e EXCEPT !.borrows = @ + d] ELSE e : e \in edges}

\* AcquireBorrowLocked: gate, edge and states.
Acquire(c, e) ==
  /\ ~reg[c].gate /\ ~e.retiring /\ Borrowable(c, e.subj)
  /\ Counted(c, e.gen, 1)

\* BorrowImpl, through any handle ever handed out: the edge of its generation.
Borrow(h) ==
  /\ h.comp \in Ids
  /\ \E e \in Edge(h.gen) : Acquire(h.comp, e)
  /\ leases' = [leases EXCEPT ![h] = @ + 1]
  /\ UNCHANGED <<nextId, nextGen, issued, watching, deliver, callback>>

\* Mutant: the count goes back to the first edge of the pair.
ReleasePair(h) ==
  /\ leases[h] > 0
  /\ leases' = [leases EXCEPT ![h] = @ - 1]
  /\ IF h.comp \in Ids
     THEN LET E == Between(h.subj, h.comp)
          IN  Counted(h.comp, Min({e.gen : e \in E} \cup {h.gen}), -1)
     ELSE UNCHANGED <<reg, edges>>
  /\ UNCHANGED <<nextId, nextGen, issued, watching, deliver, callback>>

\* ~BindingLease, ReleaseBorrow: counted back on the component and on the edge
\* of the lease's own generation, if they are still there.
Release(h) ==
  /\ leases[h] > 0
  /\ leases' = [leases EXCEPT ![h] = @ - 1]
  /\ IF h.comp \in Ids
     THEN Counted(h.comp, h.gen, -1)
     ELSE UNCHANGED <<reg, edges>>
  /\ UNCHANGED <<nextId, nextGen, issued, watching, deliver, callback>>

\* WaitBindingDrained and WaitBorrowsDrained: what the waiting task waits for.
Drained(gens) == \A e \in edges : e.gen \in gens => e.borrows = 0
Unborrowed(c) == c \in Ids => reg[c].borrows = 0
-----------------------------------------------------------------------------
(* Dependencies.                                                           *)

Dependencies(i) == {e.comp : e \in EdgesOf(i)}

\* What i depends on, directly or through components, and i itself.
Reach(i) ==
  LET Step(S) == S \cup UNION {Dependencies(j) : j \in S}
      r[n \in Nat] == IF n = 0 THEN {i} ELSE Step(r[n - 1])
  IN  r[Cardinality(Ids)]

\* Mutant: only the edge itself is looked at.
IsLoop(s, c) == s = c

\* _WouldFormCycleLocked: the target would lead back to the subject.
FormsCycle(s, c) == reg[s].kind = "Component" /\ s \in Reach(c)

\* The lists of all objects of S, each once, that keep to the relation first.
Listings(S, first) ==
  {q \in [1..Cardinality(S) -> S] :
     \A k \in 1..Cardinality(S) : \A j \in 1..(k - 1) :
       q[j] # q[k] /\ <<q[k], q[j]>> \notin first}

\* ComponentStartOrderLocked: dependencies before their users.  The code breaks
\* ties by the order of installation; here every such order is possible.
StartOrder ==
  {p \in OfKind("Component") \X OfKind("Component") : p[1] # p[2] /\ p[1] \in Reach(p[2])}

\* ListIdsByKindLocked, ListIdsLocked: in the order of installation.
ByAge(kind) == {p \in OfKind(kind) \X OfKind(kind) : p[1] < p[2]}
=============================================================================
