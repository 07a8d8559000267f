-------------------------- MODULE ObjectAppProofs ---------------------------
(***************************************************************************)
(* The v2 App for any tasks, programs and limits.                          *)
(*                                                                         *)
(* What an operation may rely on while it works on an object it has left   *)
(* in the registry: the object is still of the kind it was listed with, no *)
(* other Stop or Uninstall works on it, and once its bindings are retired  *)
(* nobody adds one.  IInv has it.  CountInv, at the end, adds the numbers.        *)
(***************************************************************************)
EXTENDS ObjectApp, FiniteSums

Closables == {"Service", "Component", "Actor"}

Entries == [kind : Kinds, name : STRING \cup {"app"}, state : States, owner : Nat, op : BOOLEAN,
            gate : BOOLEAN, phase : BOOLEAN, borrows : Int, hooks : Int,
            waiter : {"none", "idle", "notified"}]
Edges == [gen : Nat, subj : Nat, comp : Nat, ofService : BOOLEAN, retiring : BOOLEAN,
          borrows : Int]

TypedReg ==
  /\ IsFiniteSet(Ids) /\ Ids \subseteq Nat /\ reg \in [Ids -> Entries]
  /\ nextId \in Nat /\ \A i \in Ids : i < nextId
TypedEdges ==
  /\ edges \subseteq Edges /\ nextGen \in Nat
  /\ issued \subseteq [comp : Nat, subj : Nat, gen : Nat] /\ leases \in [issued -> Nat]
TypedTasks ==
  /\ prog \in [Tasks -> Seq(Calls)]
  /\ cur \in [Tasks -> Nat]
  /\ DOMAIN pc = Tasks /\ DOMAIN todo = Tasks /\ DOMAIN wait = Tasks
TypedWatch ==
  /\ nextToken \in Nat /\ revoked \subseteq Nat /\ DOMAIN observers \subseteq Nat
  /\ observers \in [DOMAIN observers ->
                      [observer : Nat, target : Nat, active : BOOLEAN, inFlight : Int]]
  /\ DOMAIN callback = Tasks

\* Where an operation can be with an object of a kind.
HookPcs == {"settle", "settling", "enter", "await", "refused", "hookOk", "hookFailed"}
ClosingPcs == {"uninstall", "remove", "abort", "scan", "sweep", "swept"} \cup HookPcs
Place(d, k, p) ==
  \/ /\ d = "Install"
     /\ p \in {"create", "declare", "rollback", "install", "ifRunning", "starting",
               "unbind", "unbound", "changed", "declared"} \cup HookPcs
  \/ d \in Transitions /\ p \in {"snapshot", "next", "broken"} \cup HookPcs
  \/ d = "Unbind" /\ p \in {"unbind", "unbound", "changed"}
  \/ d = "Bind" /\ p = "changed"
  \/ d = "Revoke" /\ p \in {"revoke", "revoked"}
  \/ d = "WaitShutdown" /\ p \in {"waitShutdown", "leaveWait"}
  \/ d = "Uninstall" /\ k = "Service" /\ p \in {"retire", "drain", "erase"} \cup ClosingPcs
  \/ d = "Stop" /\ k = "Service" /\ p \in {"gather", "drain", "erase"} \cup ClosingPcs
  \/ d \in {"Uninstall", "Stop"} /\ k = "Component" /\ p \in {"unborrow"} \cup ClosingPcs
  \/ d = "Uninstall" /\ k = "Actor" /\ p = "removeType"
  \/ d = "Stop" /\ k = "Actor" /\ p \in {"remove", "scan", "sweep", "swept"}

Listing(t) == Does(t, "Stop") /\ pc[t] \in {"snapshot", "next"}
PlaceInv(t) ==
  pc[t] # "idle" => /\ prog[t] # <<>>
                    /\ Listing(t) \/ Place(Op(t).do, Kind(t), pc[t])

\* An object keeps its kind, and its id is never used for another one.
Known(i, kind) == i < nextId /\ (i \in Ids => reg[i].kind = kind)

TargetInv(t) ==
  /\ Does(t, "Uninstall") /\ pc[t] # "idle" => Known(cur[t], Op(t).kind)
  /\ Does(t, "Install") /\ pc[t] \in {"declare", "declared"} => Known(cur[t], "Service")
Listed == [id : Nat, kind : Closables]
Walks(t) == /\ \E d \in Transitions \cup {"Stop"} : Does(t, d)
            /\ pc[t] \notin {"idle", "snapshot"}
ListInv(t) ==
  /\ Walks(t) => todo[t] \in Seq(Listed) /\ (pc[t] \in HookPcs => todo[t] # <<>>)
  /\ Walks(t) /\ Does(t, "Stop") =>
    /\ \A k \in 1..Len(todo[t]) : Known(todo[t][k].id, todo[t][k].kind)
    /\ pc[t] # "next" => todo[t] # <<>> /\ cur[t] = Head(todo[t]).id

\* Nobody else takes a service or component out of the registry meanwhile.
Works(t) == /\ Does(t, "Stop") \/ Does(t, "Uninstall")
            /\ pc[t] \notin {"idle", "snapshot", "next", "scan", "sweep", "swept"}
HeldInv(t) == Works(t) /\ Kind(t) # "Actor" => cur[t] \in Ids

\* The bindings of a service under its destroy operation: all of them are retiring,
\* then all are waited for, then none is borrowed, then there is none.
DrainedPlaces(t) == {"erase"} \cup (IF Does(t, "Stop") THEN HookPcs ELSE {})
ErasedPlaces(t) == {"uninstall", "remove"} \cup (IF Does(t, "Stop") THEN {} ELSE HookPcs)
EdgesInv(t) ==
  Works(t) /\ Kind(t) = "Service" =>
    /\ pc[t] \notin {"retire", "abort"} => \A e \in EdgesOf(cur[t]) : e.retiring
    /\ pc[t] = "drain" => \A e \in EdgesOf(cur[t]) : e.gen \in wait[t]
    /\ pc[t] \in DrainedPlaces(t) => \A e \in EdgesOf(cur[t]) : e.borrows = 0
    /\ pc[t] \in ErasedPlaces(t) => EdgesOf(cur[t]) = {}

\* An unbind has retired what it waits for, and erases it unborrowed.
UnbindInv(t) ==
  pc[t] \in {"unbind", "unbound"} =>
    /\ \A g \in wait[t] : g \in Nat /\ g < nextGen
    /\ \A e \in edges : e.gen \in wait[t] =>
         e.retiring /\ (pc[t] = "unbound" => e.borrows = 0)

\* A component that is uninstalled has no user, and gets none.
UnusedInv(t) ==
  Works(t) /\ Does(t, "Uninstall") /\ Kind(t) = "Component" =>
    reg[cur[t]].gate /\ EdgesTo(cur[t]) = {}

\* Every set of objects has one that depends on none of it.
Ordered ==
  \A S \in SUBSET Nat : S # {} => \E m \in S : \A e \in edges : e.subj = m => e.comp \notin S

\* Who uses a component is registered, unless it was a component itself.  What is
\* used is a component.
UserInv ==
  /\ \A e \in edges : /\ e.subj < nextId
                      /\ e.subj \in Ids => (e.ofService <=> reg[e.subj].kind = "Service")
                      /\ e.ofService => e.subj \in Ids
                      /\ reg[e.comp].kind = "Component"
  /\ Ordered

\* Who works on what, and whose transition runs.
OpInv ==
  /\ \A i \in Ids : reg[i].op <=> \E t \in Tasks : Closing(t, i)
  /\ \A i \in Ids : \A t, u \in Tasks : Closing(t, i) /\ Closing(u, i) => t = u
Moves(t) == (\E d \in Transitions \cup {"Stop"} : Does(t, d)) /\ pc[t] # "idle"
LifeInv ==
  /\ active <=> \E t \in Tasks : Moves(t)
  /\ \A t, u \in Tasks : Moves(t) /\ Moves(u) => t = u

\* The leases are those of the edges, as long as their component is there.
Handle(e) == [comp |-> e.comp, subj |-> e.subj, gen |-> e.gen]
LeaseInv ==
  /\ \A h, k \in issued : h.gen = k.gen => h = k
  /\ \A h \in issued : h.gen < nextGen /\ h.comp < nextId
  /\ \A e \in edges : Handle(e) \in issued /\ e.comp \in Ids /\ e.borrows = leases[Handle(e)]
  /\ \A e, f \in edges : e.gen = f.gen => e = f
  /\ \A h \in issued : leases[h] > 0 /\ h.comp \in Ids => \E e \in edges : Handle(e) = h

\* What is revoked was a token, and is inactive for ever.
WatchInv ==
  /\ \A k \in revoked \cup DOMAIN observers : k < nextToken
  /\ \A k \in revoked \cap DOMAIN observers : ~observers[k].active

TaskInv(t) ==
  /\ PlaceInv(t) /\ TargetInv(t) /\ ListInv(t)
  /\ HeldInv(t) /\ EdgesInv(t) /\ UnbindInv(t) /\ UnusedInv(t)
IInv ==
  /\ TypedReg /\ TypedEdges /\ TypedTasks /\ TypedWatch /\ active \in BOOLEAN
  /\ \A t \in Tasks : TaskInv(t)
  /\ UserInv /\ OpInv /\ LifeInv /\ LeaseInv /\ WatchInv
-----------------------------------------------------------------------------
(* Dependencies.                                                           *)

LEMMA StaysOrdered ==
  ASSUME Ordered, \A f \in edges' : \E e \in edges : f.subj = e.subj /\ f.comp = e.comp
  PROVE  Ordered'
<1> SUFFICES ASSUME NEW S \in SUBSET Nat, S # {}
             PROVE  \E m \in S : \A f \in edges' : f.subj = m => f.comp \notin S
  BY DEF Ordered
<1>1. PICK m \in S : \A e \in edges : e.subj = m => e.comp \notin S
  BY DEF Ordered
<1> QED BY <1>1

\* Nothing in C depends on anything outside.
Closed(C) == \A e \in edges : e.subj \in C => e.comp \in C

\* A new edge to c closes no circle if its subject is outside of such a C.
LEMMA OneMoreOrdered ==
  ASSUME Ordered, NEW n, edges' = edges \cup {n}, NEW C, Closed(C), n.comp \in C, n.subj \notin C
  PROVE  Ordered'
<1> SUFFICES ASSUME NEW S \in SUBSET Nat, S # {}
             PROVE  \E m \in S : \A f \in edges' : f.subj = m => f.comp \notin S
  BY DEF Ordered
<1>1. CASE n.comp \notin S
  <2>1. PICK m \in S : \A e \in edges : e.subj = m => e.comp \notin S
    BY DEF Ordered
  <2> QED BY <1>1, <2>1
<1>2. CASE n.comp \in S
  <2>1. S \cap C \in SUBSET Nat /\ S \cap C # {}
    BY <1>2
  <2>2. PICK m \in S \cap C : \A e \in edges : e.subj = m => e.comp \notin S \cap C
    BY <2>1 DEF Ordered
  <2>3. ASSUME NEW f \in edges', f.subj = m PROVE f.comp \notin S
    <3>1. f \in edges
      BY <2>2, <2>3
    <3> QED BY <2>2, <2>3, <3>1 DEF Closed
  <2> QED BY <2>2, <2>3
<1> QED BY <1>1, <1>2

\* The levels of Reach: what i reaches in n steps.
Widen(S) == S \cup UNION {Dependencies(j) : j \in S}
IsLevels(r, i) == r = [n \in Nat |-> IF n = 0 THEN {i} ELSE Widen(r[n - 1])]

\* They are the ends of the paths of n edges, with rests.
LEMMA LevelsExist ==
  ASSUME NEW i
  PROVE  \E r : IsLevels(r, i)
<1> DEFINE V == {i} \cup {e.comp : e \in edges}
           Hop(a, b) == b = a \/ b \in Dependencies(a)
           Paths(n) == {p \in [0..n -> V] : p[0] = i /\ \A k \in 0..(n - 1) : Hop(p[k], p[k + 1])}
           r == [n \in Nat |-> {p[n] : p \in Paths(n)}]
<1>1. \A a \in V : \A b : b \in Dependencies(a) => b \in V
  BY DEF Dependencies, EdgesOf
<1>2. r[0] = {i}
  <2>1. [k \in 0..0 |-> i] \in Paths(0)
    OBVIOUS
  <2> QED BY <2>1
<1>3. ASSUME NEW n \in Nat, n # 0 PROVE r[n] = Widen(r[n - 1])
  <2>1. ASSUME NEW b \in r[n] PROVE b \in Widen(r[n - 1])
    <3>1. PICK p \in Paths(n) : b = p[n]
      OBVIOUS
    <3>2. PICK q : q = [k \in 0..(n - 1) |-> p[k]]
      OBVIOUS
    <3>3. q \in Paths(n - 1)
      <4> HIDE DEF V, Hop
      <4>1. p \in [0..n -> V] /\ p[0] = i /\ \A k \in 0..(n - 1) : Hop(p[k], p[k + 1])
        BY <3>1
      <4>2. q \in [0..(n - 1) -> V] /\ q[0] = i
        BY <1>3, <3>2, <4>1
      <4>3. ASSUME NEW k \in 0..((n - 1) - 1) PROVE Hop(q[k], q[k + 1])
        <5>1. k \in 0..(n - 1) /\ k + 1 \in 0..(n - 1)
          BY <1>3
        <5>2. q[k] = p[k] /\ q[k + 1] = p[k + 1]
          BY <3>2, <5>1
        <5> QED BY <4>1, <5>1, <5>2
      <4> QED BY <4>2, <4>3
    <3>4. p[n - 1] \in r[n - 1]
      <4>1. n - 1 \in Nat /\ q[n - 1] = p[n - 1]
        BY <1>3, <3>2
      <4> HIDE DEF Paths
      <4>2. r[n - 1] = {x[n - 1] : x \in Paths(n - 1)}
        BY <4>1
      <4> QED BY <3>3, <4>1, <4>2
    <3>5. Hop(p[n - 1], b)
      BY <1>3, <3>1
    <3> QED BY <3>4, <3>5 DEF Widen
  <2>2. ASSUME NEW b \in Widen(r[n - 1]) PROVE b \in r[n]
    <3>1. PICK a \in r[n - 1] : Hop(a, b)
      BY <2>2 DEF Widen
    <3>2. PICK q \in Paths(n - 1) : a = q[n - 1]
      BY <1>3, <3>1
    <3>3. PICK p : p = [k \in 0..n |-> IF k = n THEN b ELSE q[k]]
      OBVIOUS
    <3>4. b \in V
      BY <1>1, <1>3, <3>1, <3>2
    <3>5. p \in Paths(n)
      <4>1. p \in [0..n -> V] /\ p[0] = i
        BY <1>3, <3>2, <3>3, <3>4
      <4>2. ASSUME NEW k \in 0..(n - 1) PROVE Hop(p[k], p[k + 1])
        <5> HIDE DEF Hop
        <5>1. CASE k = n - 1
          BY <1>3, <3>1, <3>2, <3>3, <5>1
        <5>2. CASE k # n - 1
          BY <1>3, <3>2, <3>3, <5>2
        <5> QED BY <5>1, <5>2
      <4> QED BY <4>1, <4>2
    <3>6. p[n] = b
      BY <1>3, <3>3
    <3> QED BY <3>5, <3>6
  <2> QED BY <2>1, <2>2
<1> HIDE DEF r
<1>4. r = [n \in Nat |-> r[n]]
  BY DEF r
<1>5. IsLevels(r, i)
  BY <1>2, <1>3, <1>4 DEF IsLevels
<1> QED BY <1>5

LEMMA ReachLevels ==
  ASSUME NEW i
  PROVE  \E r : IsLevels(r, i) /\ Reach(i) = r[Cardinality(Ids)]
<1> DEFINE R == CHOOSE r : IsLevels(r, i)
<1>1. IsLevels(R, i)
  BY LevelsExist
<1>2. Reach(i) = R[Cardinality(Ids)]
  BY DEF Reach, IsLevels, Widen
<1> QED BY <1>1, <1>2

\* A level is within every such C that i is in.
LEMMA LevelsWithin ==
  ASSUME NEW i, NEW r, IsLevels(r, i), NEW C, Closed(C), i \in C, NEW n \in Nat
  PROVE  r[n] \subseteq C
<1> DEFINE Bad == {k \in Nat : ~(r[k] \subseteq C)}
<1> SUFFICES ASSUME Bad # {} PROVE FALSE
  OBVIOUS
<1>1. PICK k \in Bad : \A m \in Bad : k =< m
  <2> HIDE DEF Bad
  <2>1. Bad \subseteq Nat
    BY DEF Bad
  <2> QED BY <2>1, LeastNumber
<1>2. r[0] = {i}
  BY DEF IsLevels
<1>3. k \in Nat /\ k # 0
  BY <1>2
<1>4. r[k] = Widen(r[k - 1]) /\ k - 1 \in Nat
  BY <1>3 DEF IsLevels
<1>5. r[k - 1] \subseteq C
  BY <1>1, <1>3, <1>4
<1>6. Widen(r[k - 1]) \subseteq C
  BY <1>5 DEF Widen, Dependencies, EdgesOf, Closed
<1> QED BY <1>4, <1>6

LEMMA ReachWithin ==
  ASSUME NEW i, NEW C, Closed(C), i \in C, IsFiniteSet(Ids)
  PROVE  Reach(i) \subseteq C
  BY ReachLevels, LevelsWithin, FS_CardinalityType

\* After as many steps as there are objects nothing new is reached.
LEMMA ReachClosed ==
  ASSUME NEW i \in Ids, IsFiniteSet(Ids), \A e \in edges : e.comp \in Ids
  PROVE  Closed(Reach(i)) /\ i \in Reach(i)
<1>1. PICK r : IsLevels(r, i) /\ Reach(i) = r[Cardinality(Ids)]
  BY ReachLevels
<1> DEFINE N == Cardinality(Ids)
<1>2. N \in Nat
  BY FS_CardinalityType
<1>3. r[0] = {i} /\ \A n \in Nat : n # 0 => n - 1 \in Nat /\ r[n] = Widen(r[n - 1])
  <2>1. r = [n \in Nat |-> IF n = 0 THEN {i} ELSE Widen(r[n - 1])]
    BY <1>1 DEF IsLevels
  <2>2. r[0] = {i}
    BY <2>1
  <2>3. ASSUME NEW n \in Nat, n # 0 PROVE n - 1 \in Nat /\ r[n] = Widen(r[n - 1])
    <3>1. n - 1 \in Nat
      BY <2>3
    <3> QED BY <2>1, <2>3, <3>1, Zenon
  <2> QED BY <2>2, <2>3
<1>4. ASSUME NEW n \in Nat
      PROVE  /\ r[n] \subseteq Ids /\ IsFiniteSet(r[n]) /\ Cardinality(r[n]) \in Nat
             /\ Cardinality(r[n]) <= N
  <2>1. Closed(Ids)
    BY DEF Closed
  <2>2. r[n] \subseteq Ids
    BY <1>1, <2>1, LevelsWithin
  <2> QED BY <2>2, FS_Subset, FS_CardinalityType
\* one level is no larger than its number
<1>5. PICK n \in 0..N : /\ Cardinality(r[n]) <= n
                        /\ \A m \in 0..N : Cardinality(r[m]) <= m => n =< m
  <2> DEFINE Small == {n \in 0..N : Cardinality(r[n]) <= n}
  <2>1. N \in Small
    BY <1>2, <1>4
  <2> HIDE DEF N
  <2>2. Small \subseteq Nat /\ Small # {}
    BY <1>2, <2>1
  <2>3. PICK n \in Small : \A m \in Small : n =< m
    <3> HIDE DEF Small
    <3> QED BY <2>2, LeastNumber
  <2> QED BY <2>3
<1> HIDE DEF N
<1>6. n \in Nat /\ n # 0 /\ n - 1 \in Nat
  <2>1. Cardinality(r[0]) = 1
    BY <1>3, FS_Singleton
  <2> QED BY <1>2, <1>5, <2>1
<1>7. r[n] = r[n - 1]
  <2>1. ~(Cardinality(r[n - 1]) <= n - 1)
    BY <1>2, <1>5, <1>6
  <2>2. r[n - 1] \subseteq r[n]
    BY <1>3, <1>6 DEF Widen
  <2>3. Cardinality(r[n - 1]) <= Cardinality(r[n])
    BY <1>4, <1>6, <2>2, FS_Subset
  <2>4. Cardinality(r[n - 1]) = Cardinality(r[n])
    <3>1. Cardinality(r[n]) \in Nat /\ Cardinality(r[n - 1]) \in Nat
      BY <1>4, <1>6
    <3> QED BY <1>5, <1>6, <2>1, <2>3, <3>1
  <2> QED BY <1>4, <1>6, <2>2, <2>4, FS_Subset
<1>8. Widen(r[n]) = r[n]
  BY <1>3, <1>6, <1>7
<1>9. r[N] = r[n]
  <2> DEFINE Bad == {k \in Nat : k >= n /\ r[k] # r[n]}
  <2> SUFFICES ASSUME Bad # {} PROVE FALSE
    BY <1>2, <1>5
  <2>1. PICK k \in Bad : \A m \in Bad : k =< m
    <3> HIDE DEF Bad
    <3>1. Bad \subseteq Nat
      BY DEF Bad
    <3> QED BY <3>1, LeastNumber
  <2>2. k \in Nat /\ k > n /\ k - 1 \in Nat /\ k - 1 >= n
    BY <1>6
  <2>3. r[k - 1] = r[n]
    BY <2>1, <2>2
  <2>4. r[k] = Widen(r[k - 1])
    BY <1>3, <1>6, <2>2
  <2> QED BY <1>8, <2>3, <2>4
<1>10. i \in r[n]
  <2> DEFINE Bad == {k \in Nat : i \notin r[k]}
  <2> SUFFICES ASSUME Bad # {} PROVE FALSE
    BY <1>6
  <2>1. PICK k \in Bad : \A m \in Bad : k =< m
    <3> HIDE DEF Bad
    <3>1. Bad \subseteq Nat
      BY DEF Bad
    <3> QED BY <3>1, LeastNumber
  <2>2. k \in Nat /\ k # 0
    BY <1>3
  <2>3. k - 1 \in Nat /\ i \in r[k - 1] /\ r[k] = Widen(r[k - 1])
    BY <1>3, <2>1, <2>2
  <2> QED BY <2>3 DEF Widen
<1>11. Reach(i) = r[n]
  BY <1>1, <1>9 DEF N
<1>12. Closed(r[n])
  BY <1>8 DEF Widen, Dependencies, EdgesOf, Closed
<1> QED BY <1>10, <1>11, <1>12

\* If there is an order, nothing reaches itself.
LEMMA OrderedIsAcyclic ==
  ASSUME Ordered, IsFiniteSet(Ids), Ids \subseteq Nat, \A e \in edges : e.comp \in Ids
  PROVE  DependenciesAcyclic
<1> SUFFICES ASSUME NEW c \in Ids, NEW d \in Dependencies(c), c \in Reach(d) PROVE FALSE
  BY DEF DependenciesAcyclic, OfKind
<1>1. \A x : Dependencies(x) \subseteq Ids
  BY DEF Dependencies, EdgesOf
<1>2. \A x \in Ids : Closed(Reach(x)) /\ x \in Reach(x)
  BY ReachClosed
<1> DEFINE T == {x \in Ids : c \in Reach(x)}
<1>3. T \in SUBSET Nat /\ c \in T /\ d \in T
  BY <1>1, <1>2
<1>4. PICK m \in T : \A e \in edges : e.subj = m => e.comp \notin T
  <2> HIDE DEF T
  <2> QED BY <1>3 DEF Ordered
<1>5. \A x \in Dependencies(m) : x \notin T
  BY <1>4 DEF Dependencies, EdgesOf
<1>6. m # c
  BY <1>3, <1>5
<1> DEFINE C == {m} \cup UNION {Reach(x) : x \in Dependencies(m)}
<1>7. Closed(C)
  <2> SUFFICES ASSUME NEW e \in edges, e.subj \in C PROVE e.comp \in C
    BY DEF Closed
  <2>1. CASE e.subj = m
    <3>1. e.comp \in Dependencies(m)
      BY <2>1 DEF Dependencies, EdgesOf
    <3> QED BY <1>1, <1>2, <3>1
  <2>2. ASSUME NEW x \in Dependencies(m), e.subj \in Reach(x) PROVE e.comp \in Reach(x)
    BY <1>1, <1>2, <2>2 DEF Closed
  <2> QED BY <2>1, <2>2
<1>8. Reach(m) \subseteq C
  <2>1. m \in C
    OBVIOUS
  <2> HIDE DEF C
  <2> QED BY <1>7, <2>1, ReachWithin
<1>9. PICK x \in Dependencies(m) : c \in Reach(x)
  BY <1>4, <1>6, <1>8
<1> QED BY <1>1, <1>5, <1>9
-----------------------------------------------------------------------------
(* What a step leaves to the tasks it does not belong to.                  *)

\* No task but t is moved.
Others(t) ==
  \A u \in Tasks : u # t => /\ prog'[u] = prog[u] /\ pc'[u] = pc[u] /\ cur'[u] = cur[u]
                          /\ todo'[u] = todo[u] /\ wait'[u] = wait[u]

\* The objects, as far as they matter here, and the edges stay as they are.
SameObjects ==
  /\ Ids' = Ids /\ nextId' = nextId
  /\ \A i \in Ids : /\ reg'[i].kind = reg[i].kind
                    /\ reg'[i].op = reg[i].op /\ reg'[i].gate = reg[i].gate
OldObjects ==
  /\ Ids' = Ids /\ nextId' = nextId
  /\ \A i \in Ids : reg'[i].kind = reg[i].kind /\ (reg[i].gate => reg'[i].gate)
SameEdges == UNCHANGED <<edges, nextGen, issued, leases>>

LEMMA SameIsOld ==
  ASSUME SameObjects
  PROVE  OldObjects
  BY DEF SameObjects, OldObjects

\* An edge is an old one, no less retired than before, or a new one between
\* objects that nobody closes.
OldEdge(e, f) ==
  /\ f.gen = e.gen /\ f.subj = e.subj /\ f.comp = e.comp /\ f.ofService = e.ofService
  /\ e.retiring => f.retiring /\ (e.borrows = 0 => f.borrows = 0)
NewEdge(f) ==
  f.gen = nextGen /\ f.subj \in Ids /\ ~reg[f.subj].op /\ f.comp \in Ids /\ ~reg[f.comp].gate
EdgesOnward == \A f \in edges' : NewEdge(f) \/ \E e \in edges : OldEdge(e, f)

ObjectsOnward ==
  /\ nextId' >= nextId /\ nextId' \in Nat /\ nextGen' >= nextGen /\ nextGen' \in Nat
  /\ \A i \in Ids' : i \in Ids \/ (i >= nextId /\ i \in Nat)
  /\ \A i \in Ids \cap Ids' : reg'[i].kind = reg[i].kind /\ (reg[i].gate => reg'[i].gate)

LEMMA ElementOfSeq ==
  ASSUME NEW S, NEW s \in Seq(S), NEW k \in 1..Len(s)
  PROVE  s[k] \in S
  OBVIOUS

\* What a task closes is what it was told to.
LEMMA TargetKnown ==
  ASSUME NEW u, Works(u), TargetInv(u), ListInv(u)
  PROVE  Known(cur[u], Kind(u)) /\ (Does(u, "Stop") => Head(todo[u]) \in Listed)
<1>1. CASE Does(u, "Stop")
  <2>1. Walks(u) /\ pc[u] # "next"
    BY <1>1 DEF Works, Walks
  <2>2. /\ todo[u] \in Seq(Listed) /\ todo[u] # <<>> /\ cur[u] = Head(todo[u]).id
        /\ \A k \in 1..Len(todo[u]) : Known(todo[u][k].id, todo[u][k].kind)
    BY <1>1, <2>1 DEF ListInv
  <2>3. 1 \in 1..Len(todo[u]) /\ Head(todo[u]) = todo[u][1] /\ Head(todo[u]) \in Listed
    BY <2>2
  <2> QED BY <1>1, <2>2, <2>3 DEF Kind
<1>2. CASE ~Does(u, "Stop")
  BY <1>2 DEF Works, TargetInv, Kind
<1> QED BY <1>1, <1>2

\* Such a step leaves every other task what it relies on, if it takes none of
\* the objects that task works on.
LEMMA TaskKept ==
  ASSUME IInv, NEW u \in Tasks, ObjectsOnward, EdgesOnward,
         prog'[u] = prog[u], pc'[u] = pc[u], cur'[u] = cur[u], todo'[u] = todo[u],
         wait'[u] = wait[u],
         \A i \in Ids : i \notin Ids' => reg[i].kind = "Actor" \/ ~Closing(u, i)
  PROVE  TaskInv(u)'
<1> USE DEF Does, Op
<1>1. TaskInv(u) /\ nextId \in Nat /\ nextGen \in Nat /\ edges \subseteq Edges
  BY DEF IInv, TypedReg, TypedEdges
<1>2. ASSUME NEW i \in Nat, NEW k, Known(i, k) PROVE Known(i, k)'
  BY <1>1, <1>2 DEF Known, ObjectsOnward
<1>3. PlaceInv(u)'
  BY <1>1 DEF TaskInv, PlaceInv, Listing, Kind
<1>4. cur[u] \in Nat
  BY DEF IInv, TypedTasks
<1>5. TargetInv(u)'
  BY <1>1, <1>2, <1>4 DEF TaskInv, TargetInv
<1>6. ListInv(u)'
  <2>1. Walks(u)' <=> Walks(u)
    BY DEF Walks
  <2>2. Walks(u) => todo[u] \in Seq(Listed) /\ (pc[u] \in HookPcs => todo[u] # <<>>)
    BY <1>1 DEF TaskInv, ListInv
  <2>3. ASSUME Walks(u), Does(u, "Stop"), NEW k \in 1..Len(todo[u])
        PROVE  Known(todo[u][k].id, todo[u][k].kind)'
    <3>1. todo[u] \in Seq(Listed) /\ Known(todo[u][k].id, todo[u][k].kind)
      BY <1>1, <2>3 DEF TaskInv, ListInv
    <3>2. todo[u][k] \in Listed
      BY <3>1, ElementOfSeq
    <3>3. todo[u][k].id \in Nat
      BY <3>2 DEF Listed
    <3> QED BY <1>2, <3>1, <3>3
  <2>4. ASSUME Walks(u), Does(u, "Stop")
        PROVE  pc[u] # "next" => todo[u] # <<>> /\ cur[u] = Head(todo[u]).id
    BY <1>1, <2>4 DEF TaskInv, ListInv
  <2> QED BY <2>1, <2>2, <2>3, <2>4 DEF ListInv
<1>7. (Works(u)' <=> Works(u)) /\ Kind(u)' = Kind(u)
  BY DEF Works, Kind
<1>8. ASSUME Works(u), Kind(u) # "Actor" PROVE Closing(u, cur[u]) /\ cur[u] \in Ids
  BY <1>1, <1>8 DEF TaskInv, HeldInv, Works, Closing
<1>9. HeldInv(u)'
  <2> SUFFICES ASSUME Works(u), Kind(u) # "Actor" PROVE cur[u] \in Ids'
    BY <1>7 DEF HeldInv
  <2>1. reg[cur[u]].kind # "Actor"
    <3>1. Known(cur[u], Kind(u))
      BY <1>1, TargetKnown DEF TaskInv
    <3> QED BY <1>8, <3>1 DEF Known
  <2> QED BY <1>8, <2>1
<1>10. ASSUME Works(u), Kind(u) = "Service", NEW f \in edges', f.subj = cur[u]
       PROVE  \E e \in EdgesOf(cur[u]) : OldEdge(e, f)
  <2>1. reg[cur[u]].op
    BY <1>8, <1>10 DEF IInv, OpInv
  <2> QED BY <1>10, <2>1 DEF EdgesOnward, NewEdge, OldEdge, EdgesOf
<1>11. EdgesInv(u)'
  <2> SUFFICES ASSUME Works(u), Kind(u) = "Service", NEW f \in edges', f.subj = cur[u]
               PROVE  /\ pc[u] \notin {"retire", "abort"} => f.retiring
                      /\ pc[u] = "drain" => f.gen \in wait[u]
                      /\ pc[u] \in DrainedPlaces(u) => f.borrows = 0
                      /\ pc[u] \notin ErasedPlaces(u)
    BY <1>7 DEF EdgesInv, EdgesOf, DrainedPlaces, ErasedPlaces
  <2>1. PICK e \in EdgesOf(cur[u]) : OldEdge(e, f)
    BY <1>10
  <2>2. EdgesInv(u)
    BY <1>1 DEF TaskInv
  <2> QED BY <2>1, <2>2 DEF EdgesInv, OldEdge, DrainedPlaces, ErasedPlaces, HookPcs
<1>12. UnbindInv(u)'
  <2> SUFFICES ASSUME pc[u] \in {"unbind", "unbound"}
               PROVE  /\ \A g \in wait[u] : g \in Nat /\ g < nextGen'
                      /\ \A f \in edges' : f.gen \in wait[u] =>
                           f.retiring /\ (pc[u] = "unbound" => f.borrows = 0)
    BY DEF UnbindInv
  <2>1. /\ \A g \in wait[u] : g \in Nat /\ g < nextGen
        /\ \A e \in edges : e.gen \in wait[u] =>
             e.retiring /\ (pc[u] = "unbound" => e.borrows = 0)
    BY <1>1 DEF TaskInv, UnbindInv
  <2>2. \A g \in wait[u] : g \in Nat /\ g < nextGen'
    BY <1>1, <2>1 DEF ObjectsOnward
  <2>3. ASSUME NEW f \in edges', f.gen \in wait[u]
        PROVE  f.retiring /\ (pc[u] = "unbound" => f.borrows = 0)
    <3>1. f.gen # nextGen
      BY <1>1, <2>1, <2>3
    <3>2. PICK e \in edges : OldEdge(e, f)
      BY <3>1 DEF EdgesOnward, NewEdge
    <3> QED BY <2>1, <2>3, <3>2 DEF OldEdge
  <2> QED BY <2>2, <2>3
<1>13. UnusedInv(u)'
  <2> SUFFICES ASSUME Works(u), Does(u, "Uninstall"), Kind(u) = "Component"
               PROVE  reg'[cur[u]].gate /\ \A f \in edges' : f.comp # cur[u]
    BY <1>7 DEF UnusedInv, EdgesTo
  <2>1. reg[cur[u]].gate /\ EdgesTo(cur[u]) = {}
    BY <1>1 DEF TaskInv, UnusedInv
  <2>2. cur[u] \in Ids /\ cur[u] \in Ids'
    BY <1>8, <1>7, <1>9 DEF HeldInv
  <2>3. reg'[cur[u]].gate
    BY <2>1, <2>2 DEF ObjectsOnward
  <2> QED BY <2>1, <2>3 DEF EdgesOnward, NewEdge, OldEdge, EdgesTo
<1> QED BY <1>3, <1>5, <1>6, <1>9, <1>11, <1>12, <1>13 DEF TaskInv

\* Such a step keeps the invariant if it keeps its parts for its own task.
LEMMA Assembled ==
  ASSUME IInv, NEW t \in Tasks, ObjectsOnward, EdgesOnward, Others(t),
         \A i \in Ids : i \notin Ids' =>
           reg[i].kind = "Actor" \/ \A u \in Tasks : u # t => ~Closing(u, i),
         TypedReg', TypedEdges', TypedTasks', TypedWatch', active' \in BOOLEAN,
         TaskInv(t)', UserInv', OpInv', LifeInv', LeaseInv', WatchInv'
  PROVE  IInv'
<1>1. ASSUME NEW u \in Tasks, u # t PROVE TaskInv(u)'
  BY <1>1, TaskKept DEF Others
<1>2. \A u \in Tasks : TaskInv(u)'
  BY <1>1
<1> QED BY <1>2 DEF IInv

\* The operation flags stay with their tasks.
LEMMA OpKept ==
  ASSUME IInv, NEW t \in Tasks, Others(t), Ids' \subseteq Ids,
         \A i \in Ids' : reg'[i].op = reg[i].op,
         \A i \in Ids' : Closing(t, i)' <=> Closing(t, i)
  PROVE  OpInv'
<1>1. ASSUME NEW i \in Ids', NEW u \in Tasks PROVE Closing(u, i)' <=> Closing(u, i)
  <2>1. CASE u = t
    BY <2>1
  <2>2. CASE u # t
    <3>1. prog'[u] = prog[u] /\ pc'[u] = pc[u] /\ cur'[u] = cur[u] /\ todo'[u] = todo[u]
      BY <2>2 DEF Others
    <3> QED BY <3>1 DEF Closing, Does, Op, Kind
  <2> QED BY <2>1, <2>2
<1>2. OpInv
  BY DEF IInv
<1>3. ASSUME NEW i \in Ids' PROVE reg'[i].op <=> \E u \in Tasks : Closing(u, i)'
  <2>1. reg[i].op <=> \E u \in Tasks : Closing(u, i)
    BY <1>2 DEF OpInv
  <2> QED BY <1>1, <2>1
<1>4. ASSUME NEW i \in Ids', NEW u \in Tasks, NEW v \in Tasks, Closing(u, i)', Closing(v, i)'
      PROVE  u = v
  <2>1. Closing(u, i) /\ Closing(v, i)
    BY <1>1, <1>4
  <2> QED BY <1>2, <2>1 DEF OpInv
<1> QED BY <1>3, <1>4 DEF OpInv

\* m_lifecycle_active stays with its task.
LEMMA LifeKept ==
  ASSUME IInv, NEW t \in Tasks, Others(t), Moves(t)' <=> Moves(t), active' = active
  PROVE  LifeInv'
<1>1. ASSUME NEW u \in Tasks PROVE Moves(u)' <=> Moves(u)
  BY <1>1 DEF Others, Moves, Does, Op
<1> QED BY <1>1 DEF LifeInv, IInv

\* A transition takes it, and gives it back.
LEMMA LifeBegins ==
  ASSUME IInv, NEW t \in Tasks, Others(t), ~active, active' = TRUE, Moves(t)'
  PROVE  LifeInv'
<1>1. ASSUME NEW u \in Tasks, u # t PROVE ~Moves(u)'
  BY <1>1 DEF Others, Moves, Does, Op, LifeInv, IInv
<1> QED BY <1>1 DEF LifeInv

LEMMA LifeEnds ==
  ASSUME IInv, NEW t \in Tasks, Others(t), Moves(t), active' = FALSE, ~Moves(t)'
  PROVE  LifeInv'
<1>1. ASSUME NEW u \in Tasks, u # t PROVE ~Moves(u)'
  <2>1. ~Moves(u)
    BY <1>1 DEF LifeInv, IInv
  <2>2. prog'[u] = prog[u] /\ pc'[u] = pc[u]
    BY <1>1 DEF Others
  <2> QED BY <2>1, <2>2 DEF Moves, Does, Op
<1> QED BY <1>1 DEF LifeInv

\* Objects and edges stay, whatever operations are on them.
LEMMA DataKept ==
  ASSUME IInv, OldObjects, SameEdges
  PROVE  /\ ObjectsOnward /\ EdgesOnward
         /\ TypedEdges' /\ UserInv' /\ LeaseInv'
<1>1. ObjectsOnward
  <2>1. nextId' = nextId /\ nextId \in Nat /\ nextGen' = nextGen /\ nextGen \in Nat
    BY DEF OldObjects, SameEdges, IInv, TypedReg, TypedEdges
  <2>2. nextId' >= nextId /\ nextGen' >= nextGen
    BY <2>1
  <2> HIDE DEF Ids
  <2>3. /\ Ids' = Ids
        /\ \A i \in Ids : reg'[i].kind = reg[i].kind /\ (reg[i].gate => reg'[i].gate)
    BY DEF OldObjects
  <2> QED BY ONLY <2>1, <2>2, <2>3 DEF ObjectsOnward
<1>2. EdgesOnward
  BY DEF EdgesOnward, SameEdges, OldEdge
<1>3. TypedEdges'
  BY DEF TypedEdges, SameEdges, IInv
<1>4. UserInv'
  <2>1. Ordered'
    BY StaysOrdered DEF SameEdges, IInv, UserInv
  <2>2. \A e \in edges : e.comp \in Ids
    BY DEF IInv, LeaseInv
  <2> QED BY <2>1, <2>2 DEF UserInv, SameEdges, OldObjects, IInv
<1>5. LeaseInv'
  BY DEF LeaseInv, SameEdges, OldObjects, IInv, Handle
<1> QED BY <1>1, <1>2, <1>3, <1>4, <1>5

\* Subscriptions stay.
LEMMA WatchKept ==
  ASSUME IInv, UNCHANGED watching, DOMAIN callback' = DOMAIN callback
  PROVE  TypedWatch' /\ WatchInv'
  BY DEF IInv, TypedWatch, WatchInv, watching

-----------------------------------------------------------------------------
(* A task's own step.                                                      *)

\* Where task t is after the step, and no other task is elsewhere.
After(t, P, p, c, d, w) ==
  /\ Others(t) /\ TypedTasks'
  /\ prog'[t] = P /\ pc'[t] = p /\ cur'[t] = c /\ todo'[t] = d /\ wait'[t] = w

\* A task whose call has returned owes nothing.
LEMMA IdleTask ==
  ASSUME NEW t \in Tasks, pc'[t] = "idle"
  PROVE  TaskInv(t)' /\ ~Moves(t)' /\ \A i : ~Closing(t, i)'
  BY DEF TaskInv, PlaceInv, TargetInv, ListInv, HeldInv, EdgesInv, UnbindInv, UnusedInv,
         Works, Moves, Closing, Walks

LEMMA Returned ==
  ASSUME IInv, NEW t \in Tasks, Return(t), prog[t] # <<>>
  PROVE  Others(t) /\ TypedTasks' /\ pc'[t] = "idle"
<1>1. TypedTasks
  BY DEF IInv
<1>2. Tail(prog[t]) \in Seq(Calls)
  BY <1>1 DEF TypedTasks
<1>3. prog' \in [Tasks -> Seq(Calls)]
  BY <1>1, <1>2 DEF TypedTasks, Return, Set
<1>4. DOMAIN pc' = Tasks
  BY <1>1 DEF TypedTasks, Return, Set
<1>5. cur' \in [Tasks -> Nat]
  BY <1>1 DEF TypedTasks, Return, Set
<1>6. pc'[t] = "idle"
  BY <1>1 DEF TypedTasks, Return, Set
<1>7. DOMAIN todo' = Tasks /\ DOMAIN wait' = Tasks
  BY <1>1 DEF TypedTasks, Return, Set
<1>8. Others(t)
  BY <1>1 DEF TypedTasks, Return, Set, Others
<1> QED BY <1>3, <1>4, <1>7, <1>8, <1>5, <1>6 DEF TypedTasks

\* A call that closes nothing goes on, other than into an unbind.
LEMMA PlainTask ==
  ASSUME IInv, NEW t \in Tasks, NEW p, NEW c, NEW d, NEW w, After(t, prog[t], p, c, d, w),
         ~Does(t, "Stop"), ~Does(t, "Uninstall"), p \notin {"unbind", "unbound"},
         prog[t] # <<>>, Place(Op(t).do, Op(t).kind, p),
         (\E m \in Transitions : Does(t, m)) /\ p # "snapshot" =>
           d \in Seq(Listed) /\ (p \in HookPcs => d # <<>>),
         p \in {"declare", "declared"} => c < nextId' /\ (c \in Ids' => reg'[c].kind = "Service")
  PROVE  TaskInv(t)' /\ \A i : ~Closing(t, i) /\ ~Closing(t, i)'
<1>1. ~Does(t, "Stop")' /\ ~Does(t, "Uninstall")' /\ Op(t)' = Op(t)
  BY DEF After, Does, Op
<1>2. Kind(t)' = Op(t).kind
  BY <1>1 DEF Kind
<1>3. ListInv(t)'
  BY <1>1 DEF After, ListInv, Walks, Does, Op
<1>4. TargetInv(t)'
  BY <1>1 DEF After, TargetInv, Known
<1> QED BY <1>1, <1>2, <1>3, <1>4 DEF After, TaskInv, PlaceInv, HeldInv, EdgesInv,
           UnbindInv, UnusedInv, Works, Closing, Place

\* Hooks, for whatever call.
LEMMA HookTask ==
  ASSUME IInv, NEW t \in Tasks, NEW p \in HookPcs, SameObjects, SameEdges,
         After(t, prog[t], p, cur[t], todo[t], wait[t]), pc[t] \in HookPcs
  PROVE  /\ TaskInv(t)' /\ (Moves(t)' <=> Moves(t))
         /\ \A i : Closing(t, i)' <=> Closing(t, i)
<1> USE DEF HookPcs
<1>1. /\ \A d : Does(t, d)' <=> Does(t, d)
      /\ Op(t)' = Op(t) /\ Kind(t)' = Kind(t)
  BY DEF After, Does, Op, Kind
<1>2. Works(t)' <=> Works(t)
  BY <1>1 DEF After, Works
<1>3. TaskInv(t)
  BY DEF IInv
<1>4. PlaceInv(t)'
  BY <1>1, <1>3 DEF After, TaskInv, PlaceInv, Listing, Place, ClosingPcs
<1>5. \A i, k : Known(i, k)' <=> Known(i, k)
  BY DEF Known, SameObjects
<1>6. TargetInv(t)'
  BY <1>1, <1>3, <1>5 DEF After, TaskInv, TargetInv
<1>7. ListInv(t)'
  BY <1>1, <1>3, <1>5 DEF After, TaskInv, ListInv, Walks
<1>8. HeldInv(t)'
  BY <1>1, <1>2, <1>3 DEF After, TaskInv, HeldInv, SameObjects
<1>9. EdgesInv(t)'
  BY <1>1, <1>2, <1>3 DEF After, TaskInv, EdgesInv, SameEdges, EdgesOf, DrainedPlaces, ErasedPlaces
<1>10. UnbindInv(t)'
  BY DEF After, UnbindInv
<1>11. UnusedInv(t)'
  BY <1>1, <1>2, <1>3 DEF After, TaskInv, UnusedInv, HeldInv, SameEdges, SameObjects, EdgesTo
<1>12. Moves(t)' <=> Moves(t)
  BY <1>1 DEF After, Moves
<1>13. \A i : Closing(t, i)' <=> Closing(t, i)
  BY <1>1 DEF After, Closing
<1> QED BY <1>4, <1>6, <1>7, <1>8, <1>9, <1>10, <1>11, <1>12, <1>13 DEF TaskInv

\* The objects are the same, and what is said of the data holds again.
GoodData ==
  /\ TypedReg' /\ TypedWatch' /\ WatchInv'
  /\ ObjectsOnward /\ EdgesOnward /\ TypedEdges' /\ UserInv' /\ LeaseInv'
SoundData == SameObjects /\ GoodData

LEMMA ObjectsStay ==
  ASSUME IInv, OldObjects, nextGen' = nextGen
  PROVE  ObjectsOnward
<1>1. /\ nextId' = nextId /\ nextId \in Nat /\ nextGen \in Nat /\ Ids' = Ids
      /\ \A i \in Ids : reg'[i].kind = reg[i].kind /\ (reg[i].gate => reg'[i].gate)
  BY DEF IInv, TypedReg, TypedEdges, OldObjects
<1>2. nextId' >= nextId /\ nextGen' >= nextGen
  BY <1>1
<1> QED BY <1>1, <1>2 DEF ObjectsOnward

LEMMA NoData ==
  ASSUME IInv, UNCHANGED regVars
  PROVE  SoundData
<1>1. UNCHANGED <<registry, leases, watching, callback>>
  BY DEF regVars
<1>2. TypedWatch' /\ WatchInv'
  BY <1>1, WatchKept
<1>3. SameObjects /\ SameEdges /\ TypedReg'
  BY <1>1 DEF IInv, SameObjects, SameEdges, TypedReg, registry, Ids
<1> QED BY <1>2, <1>3, DataKept, SameIsOld DEF SoundData, GoodData

\* A state is set.
LEMMA StateData ==
  ASSUME IInv, NEW t, NEW i, NEW s \in States, SetState(t, i, s), RegistryRest
  PROVE  SoundData
<1>1. TypedReg
  BY DEF IInv
<1>2. Ids' = Ids /\ reg' \in [Ids -> Entries]
  BY <1>1 DEF TypedReg, SetState, Ids, Entries
<1>3. \A j \in Ids : /\ reg'[j].kind = reg[j].kind
                     /\ reg'[j].op = reg[j].op /\ reg'[j].gate = reg[j].gate
  BY <1>1 DEF TypedReg, SetState, Entries
<1>4. UNCHANGED <<nextId, edges, nextGen, issued, leases, watching, callback>>
  BY DEF SetState, Announce, RegistryRest, watching
<1>5. SameObjects
  BY <1>2, <1>3, <1>4 DEF SameObjects
<1>6. TypedReg'
  BY <1>1, <1>2, <1>4 DEF TypedReg
<1>7. TypedWatch' /\ WatchInv'
  BY <1>4, WatchKept
<1>8. SameEdges
  BY <1>4 DEF SameEdges
<1> QED BY <1>5, <1>6, <1>7, <1>8, DataKept, SameIsOld DEF SoundData, GoodData

LEMMA Moved ==
  ASSUME IInv, NEW t \in Tasks, NEW p, NEW c \in Nat, NEW d, NEW w,
         prog' = prog, (pc' = pc /\ p = pc[t]) \/ pc' = Set(pc, t, p),
         (cur' = cur /\ c = cur[t]) \/ cur' = Set(cur, t, c),
         (todo' = todo /\ d = todo[t]) \/ todo' = Set(todo, t, d),
         (wait' = wait /\ w = wait[t]) \/ wait' = Set(wait, t, w)
  PROVE  After(t, prog[t], p, c, d, w)
<1>1. TypedTasks
  BY DEF IInv
<1>2. cur' \in [Tasks -> Nat] /\ cur'[t] = c /\ \A u \in Tasks : u # t => cur'[u] = cur[u]
  BY <1>1 DEF TypedTasks, Set
<1>3. DOMAIN pc' = Tasks /\ pc'[t] = p /\ \A u \in Tasks : u # t => pc'[u] = pc[u]
  BY <1>1 DEF TypedTasks, Set
<1>4. DOMAIN todo' = Tasks /\ todo'[t] = d /\ \A u \in Tasks : u # t => todo'[u] = todo[u]
  BY <1>1 DEF TypedTasks, Set
<1>5. DOMAIN wait' = Tasks /\ wait'[t] = w /\ \A u \in Tasks : u # t => wait'[u] = wait[u]
  BY <1>1 DEF TypedTasks, Set
<1>6. TypedTasks'
  BY <1>1, <1>2, <1>3, <1>4, <1>5 DEF TypedTasks
<1>7. Others(t)
  BY <1>2, <1>3, <1>4, <1>5 DEF Others
<1> QED BY <1>2, <1>3, <1>4, <1>5, <1>6, <1>7 DEF After

\* A step that leaves the operation flags alone.
LEMMA QuietStep ==
  ASSUME IInv, NEW t \in Tasks, SoundData, Others(t), TypedTasks', TaskInv(t)',
         \A i \in Ids : Closing(t, i)' <=> Closing(t, i), active' \in BOOLEAN, LifeInv'
  PROVE  IInv'
<1>1. SameObjects /\ Ids' = Ids
  BY DEF SoundData, GoodData, SameObjects
<1>2. \A i \in Ids : reg'[i].op = reg[i].op
  BY <1>1 DEF SameObjects
<1>3. OpInv'
  BY <1>1, <1>2, OpKept
<1> QED BY <1>1, <1>3, Assembled DEF SoundData, GoodData

\* A call that closes nothing and is no transition returns.
LEMMA ReturnStep ==
  ASSUME IInv, NEW t \in Tasks, SoundData, Return(t), prog[t] # <<>>,
         \A i \in Ids : ~Closing(t, i), active' \in BOOLEAN,
         (active' = active /\ ~Moves(t)) \/ (active' = FALSE /\ Moves(t))
  PROVE  IInv'
<1>1. Others(t) /\ TypedTasks' /\ pc'[t] = "idle"
  BY Returned
<1>2. TaskInv(t)' /\ ~Moves(t)' /\ \A i : ~Closing(t, i)'
  BY <1>1, IdleTask
<1>3. LifeInv'
  <2>1. CASE active' = active /\ ~Moves(t)
    BY <1>1, <1>2, <2>1, LifeKept
  <2>2. CASE active' = FALSE /\ Moves(t)
    BY <1>1, <1>2, <2>2, LifeEnds
  <2> QED BY <2>1, <2>2
<1> QED BY <1>1, <1>2, <1>3, QuietStep

\* Such a call goes on, with the data as they are.
LEMMA PlainStep ==
  ASSUME IInv, NEW t \in Tasks, SoundData, NEW p, NEW c, NEW d, NEW w,
         After(t, prog[t], p, c, d, w),
         ~Does(t, "Stop"), ~Does(t, "Uninstall"), p \notin {"unbind", "unbound", "idle"},
         prog[t] # <<>>, Place(Op(t).do, Op(t).kind, p), active' \in BOOLEAN,
         (\E m \in Transitions : Does(t, m)) /\ p # "snapshot" =>
           d \in Seq(Listed) /\ (p \in HookPcs => d # <<>>),
         \/ active' = active /\ (pc[t] # "idle" \/ \A m \in Transitions : ~Does(t, m))
         \/ active' /\ ~active /\ pc[t] = "idle" /\ \E m \in Transitions : Does(t, m),
         p \in {"declare", "declared"} => c < nextId' /\ (c \in Ids' => reg'[c].kind = "Service")
  PROVE  IInv'
<1>1. Others(t) /\ TypedTasks' /\ pc'[t] = p
  BY DEF After
<1>2. TaskInv(t)' /\ \A i : ~Closing(t, i) /\ ~Closing(t, i)'
  BY PlainTask
<1>3. \A m : Does(t, m)' <=> Does(t, m)
  BY DEF After, Does, Op
<1>4. LifeInv'
  <2>1. CASE active' = active /\ (pc[t] # "idle" \/ \A m \in Transitions : ~Does(t, m))
    BY <1>1, <1>3, <2>1, LifeKept DEF Moves
  <2>2. CASE active' /\ ~active /\ pc[t] = "idle" /\ \E m \in Transitions : Does(t, m)
    BY <1>1, <1>3, <2>2, LifeBegins DEF Moves
  <2> QED BY <2>1, <2>2
<1> QED BY <1>1, <1>2, <1>4, QuietStep

\* The wait for a hook goes on, in whatever call.
LEMMA HookStep ==
  ASSUME IInv, NEW t \in Tasks, NEW p \in HookPcs, pc[t] \in HookPcs, SoundData, SameEdges,
         pc' = Set(pc, t, p), Keep, active' = active
  PROVE  IInv'
<1>1. cur[t] \in Nat /\ active \in BOOLEAN
  BY DEF IInv, TypedTasks
<1>2. After(t, prog[t], p, cur[t], todo[t], wait[t])
  BY <1>1, Moved DEF Keep
<1>3. SameObjects
  BY DEF SoundData, GoodData
<1>4. TaskInv(t)' /\ (Moves(t)' <=> Moves(t)) /\ \A i : Closing(t, i)' <=> Closing(t, i)
  BY <1>2, <1>3, HookTask
<1>5. Others(t) /\ TypedTasks'
  BY <1>2 DEF After
<1>6. LifeInv'
  BY <1>4, <1>5, LifeKept
<1> QED BY <1>1, <1>4, <1>5, <1>6, QuietStep

\* Nobody's step.
LEMMA NobodysStep ==
  ASSUME IInv, SoundData, UNCHANGED <<prog, pc, cur, todo, wait, active>>
  PROVE  IInv'
<1>1. SameObjects /\ Ids' = Ids /\ ObjectsOnward /\ EdgesOnward
  BY DEF SoundData, GoodData, SameObjects
<1>2. ASSUME NEW u \in Tasks PROVE TaskInv(u)'
  BY <1>1, TaskKept
<1>3. TypedTasks' /\ active' \in BOOLEAN
  BY DEF IInv, TypedTasks
<1>4. OpInv' /\ LifeInv'
  BY <1>1 DEF IInv, OpInv, LifeInv, SameObjects, Closing, Moves, Does, Op, Kind
<1> QED BY <1>2, <1>3, <1>4 DEF IInv, SoundData, GoodData

-----------------------------------------------------------------------------
(* Hooks.                                                                  *)

LEMMA WaiterData ==
  ASSUME IInv, NEW i, NEW w \in {"none", "idle", "notified"}, reg' = [reg EXCEPT ![i].waiter = w],
         UNCHANGED <<nextId, edges, nextGen, issued, leases, watching, deliver, callback>>
  PROVE  SoundData
<1>1. TypedReg
  BY DEF IInv
<1>2. Ids' = Ids /\ reg' \in [Ids -> Entries]
  <2>1. Ids' = Ids
    BY <1>1 DEF TypedReg, Ids
  <2>2. ASSUME NEW e \in Entries PROVE [e EXCEPT !.waiter = w] \in Entries
    BY <2>2 DEF Entries
  <2> HIDE DEF Ids
  <2>3. reg \in [Ids -> Entries]
    BY <1>1 DEF TypedReg
  <2>4. reg' \in [Ids -> Entries]
    BY ONLY <2>2, <2>3, reg' = [reg EXCEPT ![i].waiter = w]
  <2> QED BY <2>1, <2>4
<1>3. \A j \in Ids : /\ reg'[j].kind = reg[j].kind
                     /\ reg'[j].op = reg[j].op /\ reg'[j].gate = reg[j].gate
  BY <1>1 DEF TypedReg, Entries
<1>4. SameObjects
  BY <1>2, <1>3 DEF SameObjects
<1>5. TypedReg'
  BY <1>1, <1>2 DEF TypedReg
<1>6. TypedWatch' /\ WatchInv'
  BY WatchKept
<1>7. SameEdges
  BY DEF SameEdges
<1> QED BY <1>4, <1>5, <1>6, <1>7, DataKept, SameIsOld DEF SoundData, GoodData

LEMMA CountData ==
  ASSUME IInv, NEW i, reg' = [reg EXCEPT ![i].hooks = @ + 1],
         UNCHANGED <<nextId, edges, nextGen, issued, leases, watching, deliver, callback>>
  PROVE  SoundData
<1>1. TypedReg
  BY DEF IInv
<1>2. Ids' = Ids /\ reg' \in [Ids -> Entries]
  <2>1. PICK n : reg' = [reg EXCEPT ![i].hooks = n] /\ n = reg[i].hooks + 1
    OBVIOUS
  <2>2. CASE i \in Ids
    <3>1. n \in Int
      BY <1>1, <2>1, <2>2 DEF TypedReg, Entries
    <3>2. reg' = [reg EXCEPT ![i].hooks = n]
      BY <2>1
    <3> QED BY <1>1, <2>2, <3>1, <3>2 DEF TypedReg, Ids, Entries
  <2>3. CASE i \notin Ids
    <3>1. reg' = [reg EXCEPT ![i].hooks = n]
      BY <2>1
    <3> QED BY <1>1, <2>3, <3>1 DEF TypedReg, Ids, Entries
  <2> QED BY <2>2, <2>3
<1>3. \A j \in Ids : /\ reg'[j].kind = reg[j].kind
                     /\ reg'[j].op = reg[j].op /\ reg'[j].gate = reg[j].gate
  BY <1>1 DEF TypedReg, Entries
<1>4. SameObjects
  BY <1>2, <1>3 DEF SameObjects
<1>5. TypedReg'
  BY <1>1, <1>2 DEF TypedReg
<1>6. TypedWatch' /\ WatchInv'
  BY WatchKept
<1>7. SameEdges
  BY DEF SameEdges
<1> QED BY <1>4, <1>5, <1>6, <1>7, DataKept, SameIsOld DEF SoundData, GoodData

LEMMA NotedData ==
  ASSUME IInv, NEW i, reg' = Noted(i),
         UNCHANGED <<nextId, edges, nextGen, issued, leases, watching, deliver, callback>>
  PROVE  SoundData
<1>1. TypedReg
  BY DEF IInv
<1>2. Ids' = Ids /\ reg' \in [Ids -> Entries]
  <2>1. CASE i \notin Ids
    BY <1>1, <2>1 DEF TypedReg, Noted, Ids
  <2>2. CASE i \in Ids
    <3>1. PICK n, w : reg' = [reg EXCEPT ![i].hooks = n, ![i].waiter = w]
                      /\ n = reg[i].hooks - 1 /\ w \in {reg[i].waiter, "notified"}
      BY <2>2 DEF Noted
    <3>2. reg[i] \in Entries
      BY <1>1, <2>2 DEF TypedReg
    <3>3. n \in Int /\ w \in {"none", "idle", "notified"}
      BY <3>1, <3>2 DEF Entries
    <3>4. reg' = [reg EXCEPT ![i].hooks = n, ![i].waiter = w]
      BY <3>1
    <3> QED BY <1>1, <3>3, <3>4, <2>2 DEF TypedReg, Ids, Entries
  <2> QED BY <2>1, <2>2
<1>3. \A j \in Ids : /\ reg'[j].kind = reg[j].kind
                     /\ reg'[j].op = reg[j].op /\ reg'[j].gate = reg[j].gate
  BY <1>1 DEF TypedReg, Entries, Noted
<1>4. SameObjects
  BY <1>2, <1>3 DEF SameObjects
<1>5. TypedReg'
  BY <1>1, <1>2 DEF TypedReg
<1>6. TypedWatch' /\ WatchInv'
  BY WatchKept
<1>7. SameEdges
  BY DEF SameEdges
<1> QED BY <1>4, <1>5, <1>6, <1>7, DataKept, SameIsOld DEF SoundData, GoodData

LEMMA SettleKeeps ==
  ASSUME IInv, NEW t \in Tasks, Settle(t)
  PROVE  IInv'
<1>1. SoundData
  <2>1. CASE cur[t] \notin Ids \/ reg[cur[t]].hooks = 0
    BY <2>1, NoData DEF Settle, regVars, registry
  <2>2. CASE cur[t] \in Ids /\ reg[cur[t]].hooks # 0
    <3>1. PICK w : /\ reg' = [reg EXCEPT ![cur[t]].waiter = w]
                   /\ w \in {"idle", reg[cur[t]].waiter}
      BY <2>2 DEF Settle
    <3>2. w \in {"none", "idle", "notified"}
      BY <2>2, <3>1 DEF IInv, TypedReg, Entries
    <3> QED BY <3>1, <3>2, WaiterData DEF Settle
  <2> QED BY <2>1, <2>2
<1>2. PICK p \in HookPcs : pc' = Set(pc, t, p)
  BY DEF Settle, HookPcs
<1>3. SameEdges
  BY DEF Settle, SameEdges
<1> QED BY <1>1, <1>3, <1>2, HookStep DEF Settle, At, HookPcs, state

LEMMA SettledKeeps ==
  ASSUME IInv, NEW t \in Tasks, Settled(t)
  PROVE  IInv'
<1>1. SoundData
  BY WaiterData DEF Settled
<1>2. SameEdges
  BY DEF Settled, SameEdges
<1> QED BY <1>1, <1>2, HookStep DEF Settled, Goto, At, HookPcs, state, Set

LEMMA EnterHookKeeps ==
  ASSUME IInv, NEW t \in Tasks, EnterHook(t)
  PROVE  IInv'
<1>1. SoundData
  <2>1. CASE cur[t] \in Ids
    BY <2>1, CountData DEF EnterHook
  <2>2. CASE cur[t] \notin Ids
    BY <2>2, NoData DEF EnterHook, regVars, registry
  <2> QED BY <2>1, <2>2
<1>2. PICK p \in HookPcs : pc' = Set(pc, t, p)
  BY DEF EnterHook, HookPcs
<1>3. SameEdges
  BY DEF EnterHook, SameEdges
<1> QED BY <1>1, <1>3, <1>2, HookStep DEF EnterHook, At, HookPcs, state

LEMMA HookRefusedKeeps ==
  ASSUME IInv, NEW t \in Tasks, HookRefused(t)
  PROVE  IInv'
<1>1. SoundData
  BY NotedData DEF HookRefused
<1>2. SameEdges
  BY DEF HookRefused, SameEdges
<1> QED BY <1>1, <1>2, HookStep DEF HookRefused, Goto, At, HookPcs, state, Set

LEMMA HookLateKeeps ==
  ASSUME IInv, NEW t \in Tasks, HookLate(t)
  PROVE  IInv'
<1>1. SoundData
  BY NoData DEF HookLate
<1>2. SameEdges
  BY DEF HookLate, SameEdges, regVars, registry
<1> QED BY <1>1, <1>2, HookStep DEF HookLate, HookPcs, state

LEMMA HookEndsKeeps ==
  ASSUME IInv, NEW r, HookEnds(r)
  PROVE  IInv'
<1>1. SoundData
  BY NotedData DEF HookEnds
<1> QED BY <1>1, NobodysStep DEF HookEnds, locals, state

\* Where a call can be.
LEMMA CallPlace ==
  ASSUME IInv, NEW t \in Tasks, pc[t] # "idle"
  PROVE  prog[t] # <<>> /\ (Listing(t) \/ Place(Op(t).do, Kind(t), pc[t]))
  BY DEF IInv, TaskInv, PlaceInv

LEMMA CallInstalls ==
  ASSUME IInv, NEW t \in Tasks,
         pc[t] \in {"create", "declare", "declared", "rollback", "install", "ifRunning", "starting"}
  PROVE  Does(t, "Install")
<1>1. pc[t] # "idle" /\ ~Listing(t)
  BY DEF Listing
<1> QED BY <1>1, CallPlace DEF Place, HookPcs, ClosingPcs, Does

\* A call that installs is no transition and closes nothing.
LEMMA Installing ==
  ASSUME NEW t \in Tasks, Does(t, "Install")
  PROVE  /\ ~Does(t, "Stop") /\ ~Does(t, "Uninstall") /\ ~Moves(t) /\ \A i : ~Closing(t, i)
         /\ \A m \in Transitions : ~Does(t, m)
         /\ prog[t] # <<>> /\ Op(t).do = "Install"
  BY DEF Does, Moves, Closing, Transitions

-----------------------------------------------------------------------------
(* Install.                                                                *)

\* A call of Install that has nothing more to do, or goes on.
LEMMA InstallReturns ==
  ASSUME IInv, NEW t \in Tasks, SoundData, Does(t, "Install"), Return(t), active' = active
  PROVE  IInv'
<1>1. active' \in BOOLEAN
  BY DEF IInv
<1> QED BY <1>1, Installing, ReturnStep

LEMMA InstallGoesOn ==
  ASSUME IInv, NEW t \in Tasks, SoundData, Does(t, "Install"), active' = active,
         NEW p, NEW c \in Nat, NEW d, NEW w, After(t, prog[t], p, c, d, w),
         p \in {"create", "declare", "declared", "changed", "rollback", "install", "ifRunning",
                "starting"} \cup HookPcs,
         p \in {"declare", "declared"} => c < nextId' /\ (c \in Ids' => reg'[c].kind = "Service")
  PROVE  IInv'
<1>1. active' \in BOOLEAN
  BY DEF IInv
<1>2. Place(Op(t).do, Op(t).kind, p) /\ p \notin {"unbind", "unbound", "idle"}
  BY Installing DEF Place, HookPcs
<1> QED BY <1>1, <1>2, Installing, PlainStep

LEMMA OwnersAreIds ==
  ASSUME NEW o, NEW i \in Owners(o)
  PROVE  i \in Ids \cup {0}
  BY DEF Owners, Named, OfKind

LEMMA InstallBeginsKeeps ==
  ASSUME IInv, NEW t \in Tasks, InstallBegins(t)
  PROVE  IInv'
<1>1. SoundData /\ active' = active /\ Does(t, "Install")
  BY NoData DEF InstallBegins, AppRest, state
<1>2. CASE Return(t)
  BY <1>1, <1>2, InstallReturns
<1>3. CASE ~Return(t)
  <2>1. PICK i \in Owners(Op(t)) : cur' = Set(cur, t, i)
    BY <1>3 DEF InstallBegins
  <2>5. i \in Ids \cup {0}
    BY <2>1, OwnersAreIds
  <2>2. i \in Nat
    BY <2>5 DEF IInv, TypedReg
  <2>3. pc' = Set(pc, t, "create") /\ UNCHANGED <<prog, todo, wait>>
    BY <1>3 DEF InstallBegins
  <2>4. After(t, prog[t], "create", i, todo[t], wait[t])
    BY <2>1, <2>2, <2>3, Moved
  <2> QED BY <1>1, <2>2, <2>4, InstallGoesOn
<1> QED BY <1>2, <1>3

LEMMA CreateRefusedKeeps ==
  ASSUME IInv, NEW t \in Tasks, CreateRefused(t)
  PROVE  IInv'
<1>1. SoundData /\ active' = active
  BY NoData DEF CreateRefused, AppRest, state
<1>2. Does(t, "Install")
  BY CallInstalls DEF CreateRefused, At
<1> QED BY <1>1, <1>2, InstallReturns DEF CreateRefused

LEMMA OnInstallKeeps ==
  ASSUME IInv, NEW t \in Tasks, OnInstall(t)
  PROVE  IInv'
<1>1. SoundData /\ active' = active
  BY StateData DEF OnInstall, AppRest, state, States
<1>2. Does(t, "Install")
  BY CallInstalls DEF OnInstall, Goto, At
<1>3. cur[t] \in Nat
  BY DEF IInv, TypedTasks
<1>4. After(t, prog[t], "ifRunning", cur[t], todo[t], wait[t])
  BY <1>3, Moved DEF OnInstall, Goto, Keep, Set
<1> QED BY <1>1, <1>2, <1>3, <1>4, InstallGoesOn

LEMMA InstallFailsKeeps ==
  ASSUME IInv, NEW t \in Tasks, InstallFails(t)
  PROVE  IInv'
<1>1. SoundData /\ active' = active
  BY StateData DEF InstallFails, AppRest, state, States
<1>2. Does(t, "Install")
  BY CallInstalls DEF InstallFails, At
<1> QED BY <1>1, <1>2, InstallReturns DEF InstallFails

LEMMA IfRunningKeeps ==
  ASSUME IInv, NEW t \in Tasks, IfRunning(t)
  PROVE  IInv'
<1>1. SoundData /\ active' = active
  BY NoData DEF IfRunning, AppRest, state
<1>2. Does(t, "Install")
  BY CallInstalls DEF IfRunning, At
<1>3. cur[t] \in Nat
  BY DEF IInv, TypedTasks
<1>4. CASE Go(t, "starting")
  <2>1. After(t, prog[t], "starting", cur[t], todo[t], wait[t])
    BY <1>3, <1>4, Moved DEF Go, Keep
  <2> QED BY <1>1, <1>2, <1>3, <2>1, InstallGoesOn
<1>5. CASE Return(t)
  BY <1>1, <1>2, <1>5, InstallReturns
<1> QED BY <1>4, <1>5 DEF IfRunning

LEMMA StartInstalledKeeps ==
  ASSUME IInv, NEW t \in Tasks, StartInstalled(t)
  PROVE  IInv'
<1>1. SoundData /\ active' = active
  BY StateData DEF StartInstalled, AppRest, state, States
<1>2. Does(t, "Install")
  BY CallInstalls DEF StartInstalled, At
<1>3. cur[t] \in Nat
  BY DEF IInv, TypedTasks
<1>4. After(t, prog[t], "settle", cur[t], todo[t], wait[t])
  BY <1>3, Moved DEF StartInstalled, RunHook
<1> QED BY <1>1, <1>2, <1>3, <1>4, InstallGoesOn DEF HookPcs

LEMMA InstallEndsKeeps ==
  ASSUME IInv, NEW t \in Tasks, InstallEnds(t)
  PROVE  IInv'
<1>1. SoundData /\ active' = active
  BY StateData DEF InstallEnds, AppRest, state, States
<1> QED BY <1>1, InstallReturns DEF InstallEnds
-----------------------------------------------------------------------------
(* Start, pause, resume.                                                   *)

\* A transition closes nothing.
LEMMA Transiting ==
  ASSUME NEW t \in Tasks, NEW m \in Transitions, Does(t, m)
  PROVE  /\ ~Does(t, "Stop") /\ ~Does(t, "Uninstall") /\ \A i : ~Closing(t, i)
         /\ prog[t] # <<>> /\ Op(t).do = m /\ (pc[t] # "idle" => Moves(t))
  BY DEF Does, Moves, Closing, Transitions

LEMMA TransitionGoesOn ==
  ASSUME IInv, NEW t \in Tasks, SoundData, NEW m \in Transitions, Does(t, m),
         pc[t] # "idle", active' = active,
         NEW p, NEW c \in Nat, NEW d \in Seq(Listed), NEW w, After(t, prog[t], p, c, d, w),
         p \in {"next", "broken"} \/ (p \in HookPcs /\ d # <<>>)
  PROVE  IInv'
<1>1. active' \in BOOLEAN
  BY DEF IInv
<1>2. Place(Op(t).do, Op(t).kind, p) /\ p \notin {"unbind", "unbound", "idle"}
  BY Transiting DEF Place, HookPcs
<1>3. ~Does(t, "Stop") /\ ~Does(t, "Uninstall") /\ prog[t] # <<>>
  BY Transiting
<1>4. /\ p # "snapshot" => d \in Seq(Listed) /\ (p \in HookPcs => d # <<>>)
      /\ p \notin {"declare", "declared"}
  BY DEF HookPcs
<1> QED BY <1>1, <1>2, <1>3, <1>4, PlainStep

LEMMA TransitionBeginsKeeps ==
  ASSUME IInv, NEW t \in Tasks, TransitionBegins(t)
  PROVE  IInv'
<1>1. PICK m \in Transitions :
        /\ Does(t, m) /\ At(t, "idle")
        /\ \/ ~active /\ active' = TRUE /\ Go(t, "snapshot")
           \/ Return(t) /\ UNCHANGED active
        /\ UNCHANGED regVars
  BY DEF TransitionBegins, TakesLifecycle
<1>2. SoundData /\ active' \in BOOLEAN
  BY <1>1, NoData DEF IInv
<1>3. pc[t] = "idle" /\ ~Moves(t)
  BY <1>1 DEF At, Moves
<1>4. CASE ~active /\ active' = TRUE /\ Go(t, "snapshot")
  <2>1. cur[t] \in Nat
    BY DEF IInv, TypedTasks
  <2>2. After(t, prog[t], "snapshot", cur[t], todo[t], wait[t])
    BY <1>4, <2>1, Moved DEF Go, Keep
  <2>3. Place(Op(t).do, Op(t).kind, "snapshot")
    BY <1>1, Transiting DEF Place
  <2>4. ~Does(t, "Stop") /\ ~Does(t, "Uninstall") /\ prog[t] # <<>>
    BY <1>1, Transiting
  <2>5. active' /\ ~active /\ pc[t] = "idle" /\ \E k \in Transitions : Does(t, k)
    BY <1>1, <1>3, <1>4
  <2>6. "snapshot" \notin {"unbind", "unbound", "idle"}
    OBVIOUS
  <2> QED BY ONLY IInv, t \in Tasks, <1>2, <2>1, <2>2, <2>3, <2>4, <2>5, <2>6, PlainStep, Zenon
<1>5. CASE Return(t) /\ UNCHANGED active
  BY <1>1, <1>2, <1>3, <1>5, Transiting, ReturnStep
<1> QED BY <1>1, <1>4, <1>5

LEMMA FewObjects ==
  ASSUME IInv, NEW S \in SUBSET Ids
  PROVE  Cardinality(S) \in Nat
<1>1. IsFiniteSet(Ids)
  BY DEF IInv, TypedReg
<1> QED BY <1>1, FS_Subset, FS_CardinalityType

\* A list of objects that can be started or closed.
LEMMA ObjectsListed ==
  ASSUME IInv, NEW S \in SUBSET Closable, NEW n \in Nat, NEW q \in [1..n -> S]
  PROVE  /\ Objects(q) \in Seq(Listed) /\ Len(Objects(q)) = n
         /\ \A k \in 1..n : Known(Objects(q)[k].id, Objects(q)[k].kind)
<1>1. TypedReg
  BY DEF IInv
<1>2. ASSUME NEW k \in 1..n
      PROVE  /\ [id |-> q[k], kind |-> reg[q[k]].kind] \in Listed
             /\ Known(q[k], reg[q[k]].kind)
  <2>1. q[k] \in Ids /\ reg[q[k]].kind # "App"
    BY DEF Closable, OfKind
  <2>2. reg[q[k]] \in Entries /\ q[k] \in Nat /\ q[k] < nextId
    BY <1>1, <2>1 DEF TypedReg
  <2> QED BY <2>1, <2>2 DEF Listed, Known, Closables, Entries, Kinds
<1>3. Objects(q) = [k \in 1..n |-> [id |-> q[k], kind |-> reg[q[k]].kind]]
  BY DEF Objects
<1>4. Objects(q) \in [1..n -> Listed]
  BY <1>2, <1>3
<1>5. Objects(q) \in Seq(Listed) /\ Len(Objects(q)) = n
  BY <1>4
<1> QED BY <1>2, <1>3, <1>5

LEMMA SnapshotKeeps ==
  ASSUME IInv, NEW t \in Tasks, Snapshot(t)
  PROVE  IInv'
<1>1. PICK m \in Transitions :
        /\ Does(t, m) /\ Goto(t, "snapshot", "next")
        /\ \E q \in Listings(Moving(m), StartFirst) : todo' = Set(todo, t, Objects(q))
        /\ UNCHANGED <<prog, cur, hook, wait, regVars>> /\ AppRest
  BY DEF Snapshot
<1>2. SoundData /\ active' = active /\ pc[t] # "idle"
  BY <1>1, NoData DEF AppRest, state, Goto, At
<1>3. cur[t] \in Nat
  BY DEF IInv, TypedTasks
<1>4. PICK q \in [1..Cardinality(Moving(m)) -> Moving(m)] : todo' = Set(todo, t, Objects(q))
  BY <1>1 DEF Listings
<1>5. Moving(m) \subseteq Closable
  BY DEF Moving, Closable, OfKind
<1>6. Cardinality(Moving(m)) \in Nat
  BY <1>5, FewObjects DEF Closable
<1>7. Objects(q) \in Seq(Listed)
  BY <1>4, <1>5, <1>6, ObjectsListed
<1>8. After(t, prog[t], "next", cur[t], Objects(q), wait[t])
  BY <1>1, <1>3, <1>4, Moved DEF Goto, Set
<1> QED BY <1>1, <1>2, <1>3, <1>7, <1>8, TransitionGoesOn

LEMMA NextObjectKeeps ==
  ASSUME IInv, NEW t \in Tasks, NextObject(t)
  PROVE  IInv'
<1>1. PICK m \in Transitions :
        /\ Does(t, m) /\ At(t, "next") /\ todo[t] # <<>>
        /\ \/ SetState(t, Head(todo[t]).id, "Starting")
           \/ UNCHANGED <<reg, deliver, callback>>
        /\ RunHook(t, Head(todo[t]).id, HookOf[m]) /\ UNCHANGED <<prog, todo, wait>>
        /\ RegistryRest /\ AppRest
  BY DEF NextObject
<1>2. SoundData
  <2>1. CASE SetState(t, Head(todo[t]).id, "Starting")
    BY <1>1, <2>1, StateData DEF States
  <2>2. CASE UNCHANGED <<reg, deliver, callback>>
    BY <1>1, <2>2, NoData DEF RegistryRest, regVars, registry
  <2> QED BY <1>1, <2>1, <2>2
<1>3. active' = active /\ pc[t] # "idle" /\ Walks(t)
  BY <1>1 DEF AppRest, state, At, Walks
<1>4. todo[t] \in Seq(Listed)
  BY <1>3 DEF IInv, TaskInv, ListInv
<1>5. Head(todo[t]).id \in Nat
  <2>1. Head(todo[t]) \in Listed
    BY <1>1, <1>4
  <2> QED BY <2>1 DEF Listed
<1>6. After(t, prog[t], "settle", Head(todo[t]).id, todo[t], wait[t])
  BY <1>1, <1>5, Moved DEF RunHook
<1> QED BY <1>1, <1>2, <1>3, <1>4, <1>5, <1>6, TransitionGoesOn DEF HookPcs

LEMMA ObjectMovedKeeps ==
  ASSUME IInv, NEW t \in Tasks, ObjectMoved(t)
  PROVE  IInv'
<1>1. PICK m \in Transitions :
        /\ Does(t, m)
        /\ \/ /\ Succeeded(t) /\ SetState(t, cur[t], ToState[m])
              /\ pc' = Set(pc, t, "next") /\ todo' = Set(todo, t, Tail(todo[t]))
           \/ /\ HookFailed(t) /\ SetState(t, cur[t], "Failed")
              /\ pc' = Set(pc, t, "broken") /\ todo' = Set(todo, t, <<>>)
        /\ UNCHANGED <<prog, cur, hook, wait>> /\ RegistryRest /\ AppRest
  BY DEF ObjectMoved
<1>2. ToState[m] \in States /\ "Failed" \in States
  BY DEF ToState, States, Transitions
<1>3. SoundData
  BY <1>1, <1>2, StateData
<1>4. active' = active /\ pc[t] \in HookPcs
  BY <1>1 DEF AppRest, state, Succeeded, HookFailed, HookPcs
<1>5. pc[t] # "idle" /\ Walks(t) /\ cur[t] \in Nat
  BY <1>1, <1>4 DEF HookPcs, Walks, IInv, TypedTasks
<1>6. todo[t] \in Seq(Listed) /\ todo[t] # <<>>
  BY <1>1, <1>4, <1>5 DEF IInv, TaskInv, ListInv, HookPcs
<1>7. Tail(todo[t]) \in Seq(Listed) /\ <<>> \in Seq(Listed)
  BY <1>6
<1>8. CASE pc' = Set(pc, t, "next") /\ todo' = Set(todo, t, Tail(todo[t]))
  <2>1. After(t, prog[t], "next", cur[t], Tail(todo[t]), wait[t])
    BY <1>1, <1>5, <1>8, Moved
  <2> QED BY <1>1, <1>3, <1>4, <1>5, <1>7, <2>1, TransitionGoesOn
<1>9. CASE pc' = Set(pc, t, "broken") /\ todo' = Set(todo, t, <<>>)
  <2>1. After(t, prog[t], "broken", cur[t], <<>>, wait[t])
    BY <1>1, <1>5, <1>9, Moved
  <2> QED BY <1>1, <1>3, <1>4, <1>5, <1>7, <2>1, TransitionGoesOn
<1> QED BY <1>1, <1>8, <1>9

LEMMA TransitionEndsKeeps ==
  ASSUME IInv, NEW t \in Tasks, TransitionEnds(t)
  PROVE  IInv'
<1>1. PICK m \in Transitions :
        /\ Does(t, m) /\ pc[t] # "idle" /\ active' = FALSE /\ Return(t) /\ UNCHANGED regVars
  BY DEF TransitionEnds, At
<1> QED BY <1>1, NoData, Transiting, ReturnStep
-----------------------------------------------------------------------------
(* Observers and callbacks.                                                *)

\* Subscriptions change, nothing else.
LEMMA WatchData ==
  ASSUME IInv, UNCHANGED <<registry, leases>>, TypedWatch', WatchInv'
  PROVE  SoundData
<1>1. SameObjects /\ SameEdges /\ TypedReg'
  BY DEF IInv, SameObjects, SameEdges, TypedReg, registry, Ids
<1> QED BY <1>1, DataKept, SameIsOld DEF SoundData, GoodData

LEMMA CallbackKeeps ==
  ASSUME IInv, NEW t \in Tasks, Callback(t)
  PROVE  IInv'
<1>1. PICK k : DispatchBegin(t, k)
  BY DEF Callback
<1>2. TypedWatch /\ WatchInv
  BY DEF IInv
<1>3. UNCHANGED <<registry, leases, nextToken, revoked>>
  BY <1>1 DEF DispatchBegin
<1>4. /\ DOMAIN callback' = Tasks /\ DOMAIN observers' = DOMAIN observers
      /\ observers' \in [DOMAIN observers ->
                         [observer : Nat, target : Nat, active : BOOLEAN, inFlight : Int]]
      /\ \A j \in DOMAIN observers : observers'[j].active = observers[j].active
  <2>1. CASE k \in DOMAIN observers /\ observers[k].active
    <3>1. observers' = [observers EXCEPT ![k].inFlight = @ + 1]
          /\ callback' = [callback EXCEPT ![t] = k]
      BY <1>1, <2>1 DEF DispatchBegin
    <3> QED BY <1>2, <2>1, <3>1 DEF TypedWatch
  <2>2. CASE ~(k \in DOMAIN observers /\ observers[k].active)
    BY <1>1, <1>2, <2>2 DEF DispatchBegin, TypedWatch
  <2> QED BY <2>1, <2>2
<1>5. TypedWatch' /\ WatchInv'
  BY <1>2, <1>3, <1>4 DEF TypedWatch, WatchInv
<1>6. SoundData
  BY <1>3, <1>5, WatchData
<1> QED BY <1>6, NobodysStep DEF Callback, AppVars, locals, state

LEMMA CallbackEndsKeeps ==
  ASSUME IInv, NEW t \in Tasks, CallbackEnds(t)
  PROVE  IInv'
<1>1. TypedWatch /\ WatchInv
  BY DEF IInv
<1>2. UNCHANGED <<registry, leases, nextToken, revoked>>
  BY DEF CallbackEnds, DispatchEnd
<1>3. /\ DOMAIN callback' = Tasks /\ DOMAIN observers' = DOMAIN observers
      /\ observers' \in [DOMAIN observers ->
                         [observer : Nat, target : Nat, active : BOOLEAN, inFlight : Int]]
      /\ \A j \in DOMAIN observers : observers'[j].active = observers[j].active
  <2>1. callback' = [callback EXCEPT ![t] = 0]
    BY DEF CallbackEnds, DispatchEnd
  <2>2. CASE callback[t] \in DOMAIN observers
    <3>1. observers' = [observers EXCEPT ![callback[t]].inFlight = @ - 1]
      BY <2>2 DEF CallbackEnds, DispatchEnd
    <3> QED BY <1>1, <2>1, <2>2, <3>1 DEF TypedWatch
  <2>3. CASE callback[t] \notin DOMAIN observers
    BY <1>1, <2>1, <2>3 DEF CallbackEnds, DispatchEnd, TypedWatch
  <2> QED BY <2>2, <2>3
<1>4. TypedWatch' /\ WatchInv'
  BY <1>1, <1>2, <1>3 DEF TypedWatch, WatchInv
<1>5. SoundData
  BY <1>2, <1>4, WatchData
<1> QED BY <1>5, NobodysStep DEF CallbackEnds, AppVars, locals, state

\* A subscription is added, revoked, or its record erased.
LEMMA SubscribeData ==
  ASSUME IInv, NEW i \in Nat, NEW j \in Nat, Subscribe(i, j), UNCHANGED <<registry, leases, callback>>
  PROVE  SoundData
<1>1. TypedWatch /\ WatchInv
  BY DEF IInv
<1>2. TypedWatch'
  BY <1>1 DEF TypedWatch, Subscribe
<1>3. WatchInv'
  BY <1>1 DEF TypedWatch, WatchInv, Subscribe
<1> QED BY <1>2, <1>3, WatchData

LEMMA DeactivateWatch ==
  ASSUME IInv, NEW K \in SUBSET DOMAIN observers, Deactivate(K), DOMAIN callback' = DOMAIN callback
  PROVE  TypedWatch' /\ WatchInv'
<1>1. TypedWatch /\ WatchInv
  BY DEF IInv
<1>2. TypedWatch'
  BY <1>1 DEF TypedWatch, Deactivate, Deactivated
<1>3. WatchInv'
  BY <1>1 DEF TypedWatch, WatchInv, Deactivate, Deactivated
<1> QED BY <1>2, <1>3

LEMMA EraseData ==
  ASSUME IInv, NEW K, Erase(K), UNCHANGED <<registry, leases, callback>>
  PROVE  SoundData
<1>1. TypedWatch /\ WatchInv
  BY DEF IInv
<1>2. TypedWatch'
  BY <1>1 DEF TypedWatch, Erase, Restrict
<1>3. WatchInv'
  BY <1>1 DEF TypedWatch, WatchInv, Erase, Restrict
<1> QED BY <1>2, <1>3, WatchData

-----------------------------------------------------------------------------
(* Calls about observers and the shutdown request.                         *)

Modest == {"Install", "Bind", "Unbind", "Observe", "Revoke", "RequestShutdown", "WaitShutdown"}

LEMMA ModestCall ==
  ASSUME NEW t \in Tasks, NEW d \in Modest, Does(t, d)
  PROVE  /\ ~Does(t, "Stop") /\ ~Does(t, "Uninstall") /\ ~Moves(t) /\ \A i : ~Closing(t, i)
         /\ \A m \in Transitions : ~Does(t, m)
         /\ prog[t] # <<>> /\ Op(t).do = d
  BY DEF Does, Moves, Closing, Transitions, Modest

LEMMA ModestReturns ==
  ASSUME IInv, NEW t \in Tasks, SoundData, NEW d \in Modest, Does(t, d), Return(t),
         active' = active
  PROVE  IInv'
<1>1. active' \in BOOLEAN
  BY DEF IInv
<1> QED BY <1>1, ModestCall, ReturnStep

LEMMA ModestGoesOn ==
  ASSUME IInv, NEW t \in Tasks, SoundData, NEW d \in Modest, Does(t, d), active' = active,
         NEW p, NEW c \in Nat, NEW l, NEW w, After(t, prog[t], p, c, l, w),
         p \notin {"unbind", "unbound", "idle", "declare", "declared"}, Place(d, Op(t).kind, p)
  PROVE  IInv'
<1>1. active' \in BOOLEAN
  BY DEF IInv
<1> QED BY <1>1, ModestCall, PlainStep

LEMMA ObjectsAreIds ==
  ASSUME IInv, NEW o
  PROVE  Subjects(o) \subseteq Ids /\ Targets(o) \subseteq Ids /\ Ids \subseteq Nat
  BY DEF IInv, TypedReg, Subjects, Targets, Placed, Named, OfKind

LEMMA ObserveKeeps ==
  ASSUME IInv, NEW t \in Tasks, Observe(t)
  PROVE  IInv'
<1>1. active' = active /\ Does(t, "Observe") /\ Return(t) /\ UNCHANGED <<registry, leases, callback>>
  BY DEF Observe, AppRest, state
<1>2. SoundData
  <2>1. CASE UNCHANGED watching
    <3>1. TypedWatch' /\ WatchInv'
      BY <1>1, <2>1, WatchKept
    <3> QED BY <1>1, <3>1, WatchData
  <2>2. CASE \E p \in Subjects(Op(t)) \X Targets(Op(t)) : Subscribe(p[1], p[2])
    <3>1. PICK i \in Subjects(Op(t)), j \in Targets(Op(t)) : Subscribe(i, j)
      BY <2>2
    <3>2. i \in Nat /\ j \in Nat
      BY ObjectsAreIds
    <3> QED BY <1>1, <3>1, <3>2, SubscribeData
  <2> QED BY <2>1, <2>2 DEF Observe
<1> QED BY <1>1, <1>2, ModestReturns DEF Modest

LEMMA RevokeKeeps ==
  ASSUME IInv, NEW t \in Tasks, Revoke(t)
  PROVE  IInv'
<1>1. active' = active /\ Does(t, "Revoke") /\ UNCHANGED <<registry, leases, callback>>
  BY DEF Revoke, AppRest, state
<1>2. CASE Return(t) /\ UNCHANGED watching
  <2>1. TypedWatch' /\ WatchInv'
    BY <1>1, <1>2, WatchKept
  <2>2. SoundData
    BY <1>1, <2>1, WatchData
  <2> QED BY <1>1, <1>2, <2>2, ModestReturns DEF Modest
<1>3. CASE ~(Return(t) /\ UNCHANGED watching)
  <2>1. PICK k \in DOMAIN observers :
          /\ Deactivate({k}) /\ pc' = Set(pc, t, "revoke") /\ wait' = Set(wait, t, {k})
          /\ UNCHANGED <<prog, cur, hook, todo>>
    BY <1>3 DEF Revoke
  <2>2. TypedWatch' /\ WatchInv'
    BY <1>1, <2>1, DeactivateWatch
  <2>3. SoundData
    BY <1>1, <2>2, WatchData
  <2>4. cur[t] \in Nat
    BY DEF IInv, TypedTasks
  <2>5. After(t, prog[t], "revoke", cur[t], todo[t], {k})
    BY <2>1, <2>4, Moved
  <2>6. Place("Revoke", Op(t).kind, "revoke") /\ "revoke" \notin {"unbind", "unbound", "idle"}
    BY DEF Place
  <2> QED BY <1>1, <2>3, <2>4, <2>5, <2>6, ModestGoesOn DEF Modest
<1> QED BY <1>2, <1>3

LEMMA CallWaits ==
  ASSUME IInv, NEW t \in Tasks, pc[t] \in {"revoke", "revoked", "waitShutdown", "leaveWait"}
  PROVE  \/ Does(t, "Revoke") /\ pc[t] \in {"revoke", "revoked"}
         \/ Does(t, "WaitShutdown") /\ pc[t] \in {"waitShutdown", "leaveWait"}
<1>1. pc[t] # "idle" /\ ~Listing(t)
  BY DEF Listing
<1> QED BY <1>1, CallPlace DEF Place, HookPcs, ClosingPcs, Does

LEMMA RevokeWaitsKeeps ==
  ASSUME IInv, NEW t \in Tasks, RevokeWaits(t)
  PROVE  IInv'
<1>1. SoundData /\ active' = active
  BY NoData DEF RevokeWaits, AppRest, state
<1>2. Does(t, "Revoke") /\ cur[t] \in Nat
  BY CallWaits DEF RevokeWaits, At, IInv, TypedTasks
<1>3. After(t, prog[t], "revoked", cur[t], todo[t], wait[t])
  BY <1>2, Moved DEF RevokeWaits, Go, Keep
<1>4. Place("Revoke", Op(t).kind, "revoked") /\ "revoked" \notin {"unbind", "unbound", "idle"}
  BY DEF Place
<1> QED BY <1>1, <1>2, <1>3, <1>4, ModestGoesOn DEF Modest

LEMMA EraseObserverKeeps ==
  ASSUME IInv, NEW t \in Tasks, EraseObserver(t)
  PROVE  IInv'
<1>1. SoundData /\ active' = active
  BY EraseData DEF EraseObserver, AppRest, state
<1>2. Does(t, "Revoke")
  BY CallWaits DEF EraseObserver, At
<1> QED BY <1>1, <1>2, ModestReturns DEF EraseObserver, Modest

LEMMA ShutdownKeeps ==
  ASSUME IInv, NEW t \in Tasks, ShutdownSteps(t)
  PROVE  IInv'
<1>1. SoundData /\ active' = active
  BY NoData DEF ShutdownSteps, RequestShutdown, WaitShutdown, ShutdownWaitEnds, LeaveWait, AppRest, state
<1>2. cur[t] \in Nat
  BY DEF IInv, TypedTasks
<1>3. ASSUME NEW p \in {"waitShutdown", "leaveWait"}, Does(t, "WaitShutdown"), Go(t, p)
      PROVE  IInv'
  <2>1. After(t, prog[t], p, cur[t], todo[t], wait[t])
    BY <1>2, <1>3, Moved DEF Go, Keep
  <2>2. Place("WaitShutdown", Op(t).kind, p) /\ p \notin {"unbind", "unbound", "idle"}
    BY <1>3 DEF Place
  <2> QED BY <1>1, <1>2, <1>3, <2>1, <2>2, ModestGoesOn DEF Modest
<1>4. CASE RequestShutdown(t)
  BY <1>1, <1>4, ModestReturns DEF RequestShutdown, Modest
<1>5. CASE WaitShutdown(t)
  <2>1. CASE Return(t)
    BY <1>1, <1>5, <2>1, ModestReturns DEF WaitShutdown, Modest
  <2>2. CASE Go(t, "waitShutdown")
    BY <1>3, <1>5, <2>2 DEF WaitShutdown
  <2> QED BY <1>5, <2>1, <2>2 DEF WaitShutdown
<1>6. CASE ShutdownWaitEnds(t)
  BY <1>3, <1>6, CallWaits DEF ShutdownWaitEnds, At
<1>7. CASE LeaveWait(t)
  <2>1. Does(t, "WaitShutdown")
    BY <1>7, CallWaits DEF LeaveWait, At
  <2> QED BY <1>1, <1>7, <2>1, ModestReturns DEF LeaveWait, Modest
<1> QED BY <1>4, <1>5, <1>6, <1>7 DEF ShutdownSteps

-----------------------------------------------------------------------------
(* Edges.                                                                  *)

LEMMA EdgeKnown ==
  ASSUME IInv, NEW e \in edges
  PROVE  /\ e \in Edges /\ e.gen \in Nat /\ e.subj \in Nat /\ e.comp \in Nat
         /\ Handle(e) \in issued /\ e.comp \in Ids /\ e.borrows = leases[Handle(e)]
         /\ e.gen < nextGen /\ e.subj < nextId
<1>1. e \in Edges /\ Handle(e) \in issued /\ e.comp \in Ids /\ e.borrows = leases[Handle(e)]
  BY DEF IInv, TypedEdges, LeaseInv
<1>2. e.subj < nextId /\ Handle(e).gen < nextGen
  BY <1>1 DEF IInv, UserInv, LeaseInv
<1> QED BY <1>1, <1>2 DEF Edges, Handle

\* Some edges are retired.
LEMMA RetireData ==
  ASSUME IInv, NEW E, edges' = Retire(E), UNCHANGED <<nextGen, issued, leases>>, OldObjects,
         TypedReg', UNCHANGED <<watching, DOMAIN callback>>
  PROVE  /\ GoodData
         /\ \A f \in edges' : \E e \in edges :
              OldEdge(e, f) /\ f.borrows = e.borrows /\ (e \in E => f.retiring)
<1>1. ASSUME NEW f \in edges'
      PROVE  \E e \in edges : /\ f \in Edges /\ f = [e EXCEPT !.retiring = f.retiring]
                              /\ (e.retiring \/ e \in E => f.retiring)
  <2>1. PICK e \in edges : f = IF e \in E THEN [e EXCEPT !.retiring = TRUE] ELSE e
    BY DEF Retire
  <2>2. e \in Edges
    BY EdgeKnown
  <2> QED BY <2>1, <2>2 DEF Edges
<1>2. ASSUME NEW f \in edges'
      PROVE  \E e \in edges : /\ OldEdge(e, f) /\ f.borrows = e.borrows /\ (e \in E => f.retiring)
                              /\ f \in Edges /\ Handle(f) = Handle(e)
  <2>1. PICK e \in edges : /\ f \in Edges /\ f = [e EXCEPT !.retiring = f.retiring]
                           /\ (e.retiring \/ e \in E => f.retiring)
    BY <1>1
  <2>2. e \in Edges
    BY EdgeKnown
  <2>3. /\ f.gen = e.gen /\ f.subj = e.subj /\ f.comp = e.comp /\ f.ofService = e.ofService
        /\ f.borrows = e.borrows
    BY <2>1, <2>2 DEF Edges
  <2> QED BY <2>1, <2>3 DEF OldEdge, Handle
<1>3. ObjectsOnward /\ EdgesOnward
  BY <1>2, ObjectsStay DEF EdgesOnward
<1>4. TypedEdges'
  BY <1>2 DEF IInv, TypedEdges
<1>5. UserInv'
  <2> SUFFICES ASSUME NEW f \in edges'
               PROVE  /\ f.subj < nextId'
                      /\ f.subj \in Ids' => (f.ofService <=> reg'[f.subj].kind = "Service")
                      /\ f.ofService => f.subj \in Ids'
                      /\ reg'[f.comp].kind = "Component"
    <3>1. \A f \in edges' : \E e \in edges : f.subj = e.subj /\ f.comp = e.comp
      BY <1>2 DEF OldEdge
    <3>2. Ordered'
      BY <3>1, StaysOrdered DEF IInv, UserInv
    <3> QED BY <3>2 DEF UserInv
  <2>1. PICK e \in edges : f.subj = e.subj /\ f.ofService = e.ofService /\ f.comp = e.comp
    BY <1>2 DEF OldEdge
  <2>2. e.comp \in Ids
    BY EdgeKnown
  <2> QED BY <2>1, <2>2 DEF IInv, UserInv, OldObjects
<1>6. LeaseInv'
  <2>1. ASSUME NEW f \in edges'
        PROVE  Handle(f) \in issued /\ f.comp \in Ids /\ f.borrows = leases[Handle(f)]
    BY <1>2, EdgeKnown DEF OldEdge
  <2>2. ASSUME NEW f \in edges', NEW g \in edges', f.gen = g.gen PROVE f = g
    <3>1. PICK d \in edges : f = IF d \in E THEN [d EXCEPT !.retiring = TRUE] ELSE d
      BY DEF Retire
    <3>2. PICK e \in edges : g = IF e \in E THEN [e EXCEPT !.retiring = TRUE] ELSE e
      BY DEF Retire
    <3>3. d \in Edges /\ e \in Edges
      BY EdgeKnown
    <3>4. d.gen = f.gen /\ e.gen = g.gen
      BY <3>1, <3>2, <3>3 DEF Edges
    <3>5. d = e
      BY <2>2, <3>4 DEF IInv, LeaseInv
    <3> QED BY <3>1, <3>2, <3>5
  <2>3. ASSUME NEW h \in issued, leases[h] > 0, h.comp \in Ids
        PROVE  \E f \in edges' : Handle(f) = h
    <3>1. PICK e \in edges : Handle(e) = h
      BY <2>3 DEF IInv, LeaseInv
    <3>2. PICK f : f = IF e \in E THEN [e EXCEPT !.retiring = TRUE] ELSE e
      OBVIOUS
    <3>3. f \in edges' /\ e \in Edges
      BY <3>2, EdgeKnown DEF Retire
    <3>4. Handle(f) = Handle(e)
      BY <3>2, <3>3 DEF Edges, Handle
    <3> QED BY <3>1, <3>3, <3>4
  <2> QED BY <2>1, <2>2, <2>3 DEF LeaseInv, IInv, OldObjects
<1>7. TypedWatch' /\ WatchInv'
  BY WatchKept
<1> QED BY <1>2, <1>3, <1>4, <1>5, <1>6, <1>7 DEF GoodData

\* Edges that nobody has borrowed are erased.
LEMMA FewerEdges ==
  ASSUME IInv, edges' \subseteq edges, \A e \in edges \ edges' : e.borrows = 0,
         UNCHANGED <<nextGen, issued, leases>>, SameObjects, TypedReg',
         UNCHANGED <<watching, DOMAIN callback>>
  PROVE  SoundData
<1>1. ObjectsOnward /\ EdgesOnward
  BY ObjectsStay, SameIsOld DEF EdgesOnward, OldEdge
<1>2. TypedEdges' /\ UserInv'
  <2>1. Ordered'
    BY StaysOrdered DEF IInv, UserInv
  <2>2. \A e \in edges : e.comp \in Ids
    BY EdgeKnown
  <2> QED BY <2>1, <2>2 DEF IInv, TypedEdges, UserInv, SameObjects
<1>3. ASSUME NEW h \in issued, leases[h] > 0, h.comp \in Ids
      PROVE  \E f \in edges' : Handle(f) = h
  <2>1. PICK e \in edges : Handle(e) = h
    BY <1>3 DEF IInv, LeaseInv
  <2>2. e.borrows # 0
    BY <1>3, <2>1, EdgeKnown
  <2> QED BY <2>1, <2>2
<1>4. LeaseInv'
  BY <1>3 DEF IInv, LeaseInv, SameObjects
<1>5. TypedWatch' /\ WatchInv'
  BY WatchKept
<1> QED BY <1>1, <1>2, <1>4, <1>5 DEF SoundData, GoodData

\* A binding is made, between objects that nobody closes and to a component that
\* does not lead back.
LEMMA BindData ==
  ASSUME IInv, NEW s \in Ids, NEW c \in Ids, Bindable(s, c), BindLocked(s, c),
         reg[c].kind = "Component", reg[s].kind = "Component" => s \notin Reach(c),
         UNCHANGED <<reg, nextId, watching, DOMAIN callback>>
  PROVE  SoundData
<1> DEFINE h == [comp |-> c, subj |-> s, gen |-> nextGen]
           n == [gen |-> nextGen, subj |-> s, comp |-> c, ofService |-> reg[s].kind = "Service",
                 retiring |-> FALSE, borrows |-> 0]
<1>1. /\ edges' = edges \cup {n} /\ issued' = issued \cup {h} /\ nextGen' = nextGen + 1
      /\ leases' = [x \in issued \cup {h} |-> IF x = h THEN 0 ELSE leases[x]]
  BY DEF BindLocked
<1>2. /\ Ids' = Ids /\ IInv
      /\ nextGen \in Nat /\ Ids \subseteq Nat /\ s < nextId /\ c < nextId /\ nextId \in Nat
  BY DEF Ids, IInv, TypedReg, TypedEdges
<1>3. n \in Edges /\ Handle(n) = h /\ h \in [comp : Nat, subj : Nat, gen : Nat]
  BY <1>2 DEF Edges, Handle
<1>4. n.gen = nextGen /\ n.subj = s /\ n.comp = c /\ n.ofService = (reg[s].kind = "Service")
      /\ n.borrows = 0 /\ h.gen = nextGen /\ h.comp = c
  OBVIOUS
<1> HIDE DEF h, n
<1>5. SameObjects /\ TypedReg'
  BY <1>2 DEF SameObjects, IInv, TypedReg
<1>6. NewEdge(n)
  BY <1>4 DEF NewEdge, Bindable, SubjectOpen
<1>7. ObjectsOnward /\ EdgesOnward
  <2>1. ObjectsOnward
    BY <1>1, <1>2 DEF ObjectsOnward
  <2>2. EdgesOnward
    BY <1>1, <1>6 DEF EdgesOnward, OldEdge
  <2> QED BY <2>1, <2>2
<1>8. h \notin issued /\ \A k \in issued : k.gen # nextGen
  BY <1>2, <1>4 DEF IInv, LeaseInv
<1>9. /\ leases' \in [issued' -> Nat] /\ leases'[h] = 0
      /\ \A k \in issued : leases'[k] = leases[k]
  BY <1>1, <1>8 DEF IInv, TypedEdges
<1>10. TypedEdges'
  BY <1>1, <1>2, <1>3, <1>9 DEF IInv, TypedEdges
<1>11. UserInv'
  <2>1. /\ IsFiniteSet(Ids)
        /\ \A e \in edges : e.comp \in Ids /\ reg[e.comp].kind = "Component"
    BY EdgeKnown DEF IInv, TypedReg, UserInv
  <2>2. PICK C : Closed(C) /\ c \in C /\ s \notin C
    <3>1. CASE reg[s].kind = "Component"
      BY <2>1, <3>1, ReachClosed
    <3>2. CASE reg[s].kind # "Component"
      <4> DEFINE C == {i \in Ids : reg[i].kind = "Component"}
      <4>1. Closed(C) /\ c \in C /\ s \notin C
        BY <2>1, <3>2 DEF Closed
      <4> QED BY <4>1
    <3> QED BY <3>1, <3>2
  <2>3. Ordered'
    BY <1>1, <1>4, <2>2, OneMoreOrdered DEF IInv, UserInv
  <2>4. \A e \in edges : /\ e.subj < nextId
                         /\ e.subj \in Ids => (e.ofService <=> reg[e.subj].kind = "Service")
                         /\ e.ofService => e.subj \in Ids
    BY DEF IInv, UserInv
  <2> QED BY <1>1, <1>2, <1>4, <2>1, <2>3, <2>4 DEF UserInv
<1>12. LeaseInv'
  <2>1. \A j, k \in issued' : j.gen = k.gen => j = k
    BY <1>1, <1>4, <1>8 DEF IInv, LeaseInv
  <2>2. \A k \in issued' : k.gen < nextGen' /\ k.comp < nextId'
    <3>1. \A k \in issued : k.gen < nextGen + 1 /\ k.comp < nextId
      BY <1>2 DEF LeaseInv, IInv, TypedEdges
    <3> QED BY <1>1, <1>2, <1>4, <3>1
  <2>3. \A e \in edges' : Handle(e) \in issued' /\ e.comp \in Ids' /\ e.borrows = leases'[Handle(e)]
    BY <1>1, <1>2, <1>3, <1>4, <1>9, EdgeKnown
  <2>4. \A e, f \in edges' : e.gen = f.gen => e = f
    <3>1. \A e \in edges : e.gen # nextGen
      BY <1>2, EdgeKnown
    <3> QED BY <1>1, <1>4, <3>1 DEF IInv, LeaseInv
  <2>5. \A k \in issued' : leases'[k] > 0 /\ k.comp \in Ids' => \E e \in edges' : Handle(e) = k
    BY <1>1, <1>2, <1>9 DEF IInv, LeaseInv
  <2> QED BY <2>1, <2>2, <2>3, <2>4, <2>5 DEF LeaseInv
<1>13. TypedWatch' /\ WatchInv'
  BY WatchKept
<1> QED BY <1>5, <1>7, <1>10, <1>11, <1>12, <1>13 DEF SoundData, GoodData


\* A borrow is counted, or counted back.
LEMMA CountedData ==
  ASSUME IInv, NEW h \in issued, h.comp \in Ids, NEW d \in {1, -1}, Counted(h.comp, h.gen, d),
         leases' = [leases EXCEPT ![h] = leases[h] + d], leases[h] + d >= 0,
         d = 1 => \E e \in Edge(h.gen) : ~e.retiring,
         UNCHANGED <<nextId, nextGen, issued, watching, DOMAIN callback>>
  PROVE  SoundData
<1>1. leases \in [issued -> Nat] /\ edges \subseteq Edges /\ TypedReg
  BY DEF IInv, TypedEdges
<1>2. leases' \in [issued -> Nat] /\ leases'[h] = leases[h] + d
      /\ \A k \in issued : k # h => leases'[k] = leases[k]
  BY <1>1
<1>3. SameObjects /\ TypedReg' /\ Ids' = Ids
  <2>1. reg' = [reg EXCEPT ![h.comp].borrows = @ + d]
    BY DEF Counted
  <2>2. Ids' = Ids /\ reg' \in [Ids -> Entries]
    <3>1. PICK n : reg' = [reg EXCEPT ![h.comp].borrows = n] /\ n = reg[h.comp].borrows + d
      BY <2>1
    <3>2. n \in Int
      BY <1>1, <3>1 DEF TypedReg, Entries
    <3>3. reg' = [reg EXCEPT ![h.comp].borrows = n]
      BY <3>1
    <3> QED BY <1>1, <3>2, <3>3 DEF TypedReg, Ids, Entries
  <2>3. \A j \in Ids : /\ reg'[j].kind = reg[j].kind
                       /\ reg'[j].op = reg[j].op /\ reg'[j].gate = reg[j].gate
    BY <1>1, <2>1 DEF TypedReg, Entries
  <2> QED BY <1>1, <2>2, <2>3 DEF SameObjects, TypedReg
<1>4. ASSUME NEW e \in edges, e.gen = h.gen PROVE Handle(e) = h
  BY <1>4, EdgeKnown DEF IInv, LeaseInv, Handle
<1>5. ASSUME NEW e \in edges,
             NEW f, f = IF e.gen = h.gen THEN [e EXCEPT !.borrows = @ + d] ELSE e
      PROVE  /\ f \in Edges /\ Handle(f) = Handle(e) /\ f.gen = e.gen /\ f.subj = e.subj
             /\ f.comp = e.comp /\ f.ofService = e.ofService /\ f.retiring = e.retiring
             /\ f.borrows = leases'[Handle(f)] /\ (e.gen # h.gen => f = e)
  <2>1. CASE e.gen # h.gen
    <3>1. Handle(e) # h /\ e \in Edges /\ e.borrows = leases[Handle(e)] /\ Handle(e) \in issued
      BY <2>1, EdgeKnown DEF Handle
    <3> QED BY <1>2, <1>5, <2>1, <3>1
  <2>2. CASE e.gen = h.gen
    <3>1. e \in Edges /\ Handle(e) = h /\ e.borrows = leases[h]
      BY <1>4, <2>2, EdgeKnown
    <3>2. f = [e EXCEPT !.borrows = e.borrows + d] /\ e.borrows + d \in Int
      BY <1>5, <2>2, <3>1 DEF Edges
    <3>3. f \in Edges /\ f.gen = e.gen /\ f.subj = e.subj /\ f.comp = e.comp
          /\ f.ofService = e.ofService /\ f.retiring = e.retiring /\ f.borrows = e.borrows + d
      BY <3>1, <3>2 DEF Edges
    <3> QED BY <1>2, <2>2, <3>1, <3>3 DEF Handle
  <2> QED BY <2>1, <2>2
<1>6. edges' = {IF e.gen = h.gen THEN [e EXCEPT !.borrows = @ + d] ELSE e : e \in edges}
  BY DEF Counted
<1>7. EdgesOnward
  <2> SUFFICES ASSUME NEW f \in edges' PROVE \E e \in edges : OldEdge(e, f)
    BY DEF EdgesOnward
  <2>1. PICK e \in edges : f = IF e.gen = h.gen THEN [e EXCEPT !.borrows = @ + d] ELSE e
    BY <1>6
  <2>2. e.retiring /\ e.borrows = 0 => e.gen # h.gen
    <3> SUFFICES ASSUME e.retiring, e.borrows = 0, e.gen = h.gen PROVE FALSE
      OBVIOUS
    <3>1. leases[h] = 0
      BY <1>4, EdgeKnown
    <3>2. PICK g \in edges : g.gen = h.gen /\ ~g.retiring
      BY <3>1 DEF Edge
    <3>3. g = e
      BY <3>2 DEF IInv, LeaseInv
    <3> QED BY <3>2, <3>3
  <2>3. /\ f.gen = e.gen /\ f.subj = e.subj /\ f.comp = e.comp /\ f.ofService = e.ofService
        /\ f.retiring = e.retiring /\ (e.gen # h.gen => f = e)
    BY <1>5, <2>1
  <2> QED BY <2>2, <2>3 DEF OldEdge
<1>8. ObjectsOnward
  BY <1>3, ObjectsStay, SameIsOld
<1>9. TypedEdges'
  BY <1>2, <1>5, <1>6 DEF IInv, TypedEdges
<1>10. UserInv'
  <2> SUFFICES ASSUME NEW f \in edges'
               PROVE  /\ f.subj < nextId'
                      /\ f.subj \in Ids' => (f.ofService <=> reg'[f.subj].kind = "Service")
                      /\ f.ofService => f.subj \in Ids'
                      /\ reg'[f.comp].kind = "Component"
    <3>1. \A f \in edges' : \E e \in edges : f.subj = e.subj /\ f.comp = e.comp
      BY <1>5, <1>6
    <3>2. Ordered'
      BY <3>1, StaysOrdered DEF IInv, UserInv
    <3> QED BY <3>2 DEF UserInv
  <2>1. PICK e \in edges : f.subj = e.subj /\ f.ofService = e.ofService /\ f.comp = e.comp
    BY <1>5, <1>6
  <2>2. e.comp \in Ids
    BY EdgeKnown
  <2> QED BY <1>3, <2>1, <2>2 DEF IInv, UserInv, SameObjects
<1>11. LeaseInv'
  <2>1. ASSUME NEW f \in edges'
        PROVE  Handle(f) \in issued /\ f.comp \in Ids /\ f.borrows = leases'[Handle(f)]
    BY <1>5, <1>6, EdgeKnown
  <2>2. ASSUME NEW f \in edges', NEW g \in edges', f.gen = g.gen PROVE f = g
    <3>1. PICK e \in edges : f = IF e.gen = h.gen THEN [e EXCEPT !.borrows = @ + d] ELSE e
      BY <1>6
    <3>2. PICK k \in edges : g = IF k.gen = h.gen THEN [k EXCEPT !.borrows = @ + d] ELSE k
      BY <1>6
    <3>3. e.gen = k.gen
      BY <1>5, <2>2, <3>1, <3>2
    <3>4. e = k
      BY <3>3 DEF IInv, LeaseInv
    <3> QED BY <3>1, <3>2, <3>4
  <2>3. ASSUME NEW k \in issued, leases'[k] > 0, k.comp \in Ids
        PROVE  \E f \in edges' : Handle(f) = k
    <3>1. PICK e \in edges : Handle(e) = k
      <4>1. CASE k = h /\ d = 1
        BY <1>4, <4>1 DEF Edge
      <4>2. CASE ~(k = h /\ d = 1)
        <5>1. leases[k] > 0
          BY <1>1, <1>2, <2>3, <4>2
        <5> QED BY <2>3, <5>1 DEF IInv, LeaseInv
      <4> QED BY <4>1, <4>2
    <3>2. PICK f : f = IF e.gen = h.gen THEN [e EXCEPT !.borrows = @ + d] ELSE e
      OBVIOUS
    <3>3. f \in edges' /\ Handle(f) = Handle(e)
      BY <1>5, <1>6, <3>2
    <3> QED BY <3>1, <3>3
  <2> QED BY <1>3, <2>1, <2>2, <2>3 DEF IInv, LeaseInv, SameObjects
<1>12. TypedWatch' /\ WatchInv'
  BY WatchKept
<1> QED BY <1>3, <1>7, <1>8, <1>9, <1>10, <1>11, <1>12 DEF SoundData, GoodData

LEMMA UserBorrowsKeeps ==
  ASSUME IInv, NEW h \in issued, UserBorrows(h)
  PROVE  IInv'
<1>1. PICK e \in Edge(h.gen) : Acquire(h.comp, e)
  BY DEF UserBorrows, Borrow
<1>2. e.gen = h.gen /\ ~e.retiring /\ Counted(h.comp, h.gen, 1)
  BY <1>1 DEF Acquire, Edge
<1>3. leases[h] \in Nat
  BY DEF IInv, TypedEdges
<1>4. /\ leases' = [leases EXCEPT ![h] = leases[h] + 1] /\ leases[h] + 1 >= 0 /\ h.comp \in Ids
      /\ UNCHANGED <<nextId, nextGen, issued, watching, DOMAIN callback>>
  BY <1>3 DEF UserBorrows, Borrow
<1>5. 1 \in {1, -1} /\ \E x \in Edge(h.gen) : ~x.retiring
  BY <1>1, <1>2
<1>6. SoundData
  BY <1>2, <1>4, <1>5, CountedData
<1> QED BY <1>6, NobodysStep DEF UserBorrows, AppVars, locals, state

LEMMA UserReleasesKeeps ==
  ASSUME IInv, NEW h \in issued, UserReleases(h)
  PROVE  IInv'
<1>1. leases[h] \in Nat /\ leases[h] > 0
  BY DEF IInv, TypedEdges, UserReleases, Release
<1>2. CASE h.comp \in Ids
  <2>5. PICK d \in {1, -1} : d # 1 /\ d = -1
    OBVIOUS
  <2>6. leases[h] + d = leases[h] - 1
    BY <1>1, <2>5
  <2>7. leases' = [leases EXCEPT ![h] = leases[h] - 1]
    BY DEF UserReleases, Release
  <2>1. leases' = [leases EXCEPT ![h] = leases[h] + d] /\ leases[h] + d >= 0
    <3>1. leases[h] - 1 >= 0
      BY <1>1
    <3> QED BY <2>6, <2>7, <3>1
  <2>2. Counted(h.comp, h.gen, d)
    BY <1>2, <2>5 DEF UserReleases, Release
  <2>3. UNCHANGED <<nextId, nextGen, issued, watching, DOMAIN callback>>
    BY DEF UserReleases, Release
  <2>4. SoundData
    BY <1>2, <2>1, <2>2, <2>3, <2>5, CountedData
  <2> QED BY <2>4, NobodysStep DEF UserReleases, AppVars, locals, state
<1>3. CASE h.comp \notin Ids
  <2>1. UNCHANGED <<reg, edges, nextId, nextGen, issued, watching, callback>>
        /\ leases' = [leases EXCEPT ![h] = leases[h] - 1]
    BY <1>3 DEF UserReleases, Release
  <2>2. leases' \in [issued -> Nat] /\ \A k \in issued : k # h => leases'[k] = leases[k]
    BY <1>1, <2>1 DEF IInv, TypedEdges
  <2>3. SameObjects /\ TypedReg' /\ Ids' = Ids
    BY <2>1 DEF SameObjects, IInv, TypedReg, Ids
  <2>4. ObjectsOnward /\ EdgesOnward
    BY <2>1, <2>3, ObjectsStay, SameIsOld DEF EdgesOnward, OldEdge
  <2>5. TypedEdges' /\ UserInv'
    <3>1. Ordered'
      BY <2>1, StaysOrdered DEF IInv, UserInv
    <3> QED BY <2>1, <2>2, <2>3, <3>1 DEF IInv, TypedEdges, UserInv
  <2>6. LeaseInv'
    <3>1. ASSUME NEW e \in edges PROVE e.borrows = leases'[Handle(e)]
      <4>1. Handle(e) \in issued /\ Handle(e).comp \in Ids /\ e.borrows = leases[Handle(e)]
        BY EdgeKnown DEF Handle
      <4> QED BY <1>3, <2>2, <4>1
    <3> QED BY <1>3, <2>1, <2>2, <2>3, <3>1 DEF IInv, LeaseInv
  <2>7. TypedWatch' /\ WatchInv'
    BY <2>1, WatchKept
  <2>8. SoundData
    BY <2>3, <2>4, <2>5, <2>6, <2>7 DEF SoundData, GoodData
  <2> QED BY <2>8, NobodysStep DEF UserReleases, AppVars, locals, state
<1> QED BY <1>2, <1>3

-----------------------------------------------------------------------------
(* Bind and unbind.                                                        *)

LEMMA BindKeeps ==
  ASSUME IInv, NEW t \in Tasks, Bind(t)
  PROVE  IInv'
<1>1. active' = active /\ Does(t, "Bind") /\ UNCHANGED <<reg, nextId, watching, callback>>
  BY DEF Bind, AppRest, state
<1>2. SoundData
  <2>1. CASE UNCHANGED <<edges, nextGen, issued, leases>>
    <3>1. UNCHANGED regVars
      BY <2>1 DEF Bind, regVars, registry
    <3> QED BY <3>1, NoData
  <2>2. CASE \E p \in Subjects(Op(t)) \X Targets(Op(t)) :
               ~FormsCycle(p[1], p[2]) /\ Bindable(p[1], p[2]) /\ BindLocked(p[1], p[2])
    <3>1. PICK s \in Subjects(Op(t)), c \in Targets(Op(t)) :
            ~FormsCycle(s, c) /\ Bindable(s, c) /\ BindLocked(s, c)
      BY <2>2
    <3>2. s \in Ids /\ c \in Ids /\ reg[c].kind = "Component"
      BY ObjectsAreIds DEF Targets, Placed, Named, OfKind
    <3>3. reg[s].kind = "Component" => s \notin Reach(c)
      BY <3>1 DEF FormsCycle
    <3> QED BY <1>1, <3>1, <3>2, <3>3, BindData
  <2> QED BY <2>1, <2>2 DEF Bind
<1>3. CASE Return(t)
  BY <1>1, <1>2, <1>3, ModestReturns DEF Modest
<1>4. ASSUME NEW s \in Subjects(Op(t)), pc' = Set(pc, t, "changed"), cur' = Set(cur, t, s),
             UNCHANGED <<prog, hook, todo, wait>>
      PROVE  IInv'
  <2>1. s \in Nat
    BY ObjectsAreIds
  <2>2. After(t, prog[t], "changed", s, todo[t], wait[t])
    BY <1>4, <2>1, Moved
  <2>3. Place("Bind", Op(t).kind, "changed")
    BY DEF Place
  <2> QED BY <1>1, <1>2, <2>1, <2>2, <2>3, ModestGoesOn DEF Modest
<1> QED BY <1>3, <1>4 DEF Bind

LEMMA DeclareKeeps ==
  ASSUME IInv, NEW t \in Tasks, Declare(t)
  PROVE  IInv'
<1>1. Does(t, "Install") /\ cur[t] \in Nat /\ active' = active
  BY CallInstalls DEF Declare, At, AppRest, state, IInv, TypedTasks
<1>2. UNCHANGED <<reg, nextId, watching, deliver, callback, prog, cur, hook, wait>>
  BY DEF Declare
<1>3. pc[t] = "declare" /\ Known(cur[t], "Service")
  BY <1>1 DEF Declare, At, IInv, TaskInv, TargetInv
<1>4. SoundData
  <2>1. CASE UNCHANGED <<edges, nextGen, issued, leases>>
    BY <1>2, <2>1, NoData DEF regVars, registry
  <2>2. CASE \E c \in Placed(0, Head(todo[t])) :
               cur[t] \in Ids /\ Bindable(cur[t], c) /\ BindLocked(cur[t], c)
    <3>1. PICK c \in Placed(0, Head(todo[t])) :
            cur[t] \in Ids /\ Bindable(cur[t], c) /\ BindLocked(cur[t], c)
      BY <2>2
    <3>2. c \in Ids /\ reg[c].kind = "Component"
      BY DEF Placed, Named, OfKind
    <3>3. reg[cur[t]].kind = "Service"
      BY <1>3, <3>1 DEF Known
    <3> QED BY <1>2, <3>1, <3>2, <3>3, BindData
  <2> QED BY <2>1, <2>2 DEF Declare
<1>6. CASE pc' = Set(pc, t, "declared") /\ todo' = Set(todo, t, Tail(todo[t]))
  <2>1. After(t, prog[t], "declared", cur[t], Tail(todo[t]), wait[t])
    BY <1>1, <1>2, <1>6, Moved
  <2>2. cur[t] < nextId' /\ (cur[t] \in Ids' => reg'[cur[t]].kind = "Service")
    BY <1>2, <1>3 DEF Known, Ids
  <2> QED BY <1>1, <1>4, <2>1, <2>2, InstallGoesOn
<1>7. CASE pc' = Set(pc, t, "install") /\ todo' = todo
  <2>1. After(t, prog[t], "install", cur[t], todo[t], wait[t])
    BY <1>1, <1>2, <1>7, Moved
  <2> QED BY <1>1, <1>4, <2>1, InstallGoesOn
<1>8. ASSUME NEW l, pc' = Set(pc, t, "rollback"), todo' = Set(todo, t, l)
      PROVE  IInv'
  <2>1. After(t, prog[t], "rollback", cur[t], l, wait[t])
    BY <1>1, <1>2, <1>8, Moved
  <2> QED BY <1>1, <1>4, <2>1, InstallGoesOn
<1> QED BY <1>6, <1>7, <1>8 DEF Declare

LEMMA DeclaredKeeps ==
  ASSUME IInv, NEW t \in Tasks, Declared(t)
  PROVE  IInv'
<1>1. SoundData /\ active' = active /\ UNCHANGED <<reg, nextId>>
  BY NoData DEF Declared, AppRest, state, regVars, registry
<1>2. Does(t, "Install") /\ pc[t] = "declared"
  BY CallInstalls DEF Declared, Goto, At
<1>3. cur[t] \in Nat
  BY DEF IInv, TypedTasks
<1>4. After(t, prog[t], "declare", cur[t], todo[t], wait[t])
  BY <1>3, Moved DEF Declared, Goto, Keep, Set
<1>5. cur[t] < nextId' /\ (cur[t] \in Ids' => reg'[cur[t]].kind = "Service")
  BY <1>1, <1>2 DEF IInv, TaskInv, TargetInv, Known, Ids
<1> QED BY <1>1, <1>2, <1>3, <1>4, <1>5, InstallGoesOn

\* Min of a set of numbers is in it.
LEMMA MinInSet ==
  ASSUME NEW S, S \subseteq Nat, S # {}
  PROVE  Min(S) \in S
<1> QED BY LeastNumber DEF Min

\* An unbind waits for edges that are retiring.
LEMMA UnbindGoesOn ==
  ASSUME IInv, NEW t \in Tasks, SoundData, NEW d \in {"Install", "Unbind"}, Does(t, d),
         active' = active, NEW p \in {"unbind", "unbound"}, NEW c, NEW l, NEW w,
         After(t, prog[t], p, c, l, w),
         \A g \in w : g \in Nat /\ g < nextGen',
         \A e \in edges' : e.gen \in w => e.retiring /\ (p = "unbound" => e.borrows = 0)
  PROVE  IInv'
<1>1. /\ ~Does(t, "Stop") /\ ~Does(t, "Uninstall") /\ ~Moves(t) /\ \A i : ~Closing(t, i)
      /\ \A m \in Transitions : ~Does(t, m)
      /\ prog[t] # <<>> /\ Op(t).do = d
  BY ModestCall DEF Modest
<1>2. /\ \A m : Does(t, m)' <=> Does(t, m)
      /\ Op(t)' = Op(t)
  BY DEF After, Does, Op
<1>3. ~Moves(t)' /\ \A i : ~Closing(t, i)'
  BY <1>1, <1>2 DEF Moves, Closing
<1>4. PlaceInv(t)'
  BY <1>1, <1>2 DEF After, PlaceInv, Place
<1>5. UnbindInv(t)'
  BY DEF After, UnbindInv
<1>6. TargetInv(t)'
  BY <1>1, <1>2 DEF After, TargetInv
<1>7. TaskInv(t)'
  BY <1>1, <1>2, <1>4, <1>5, <1>6 DEF TaskInv, ListInv, HeldInv, EdgesInv, UnusedInv,
    Works, Walks
<1>8. Others(t) /\ TypedTasks' /\ active' \in BOOLEAN
  BY DEF After, IInv
<1>9. LifeInv'
  BY <1>1, <1>3, <1>8, LifeKept
<1> QED BY <1>1, <1>3, <1>7, <1>8, <1>9, QuietStep

LEMMA UnbindEdgesKeeps ==
  ASSUME IInv, NEW t \in Tasks, NEW d \in {"Install", "Unbind"}, Does(t, d),
         NEW E \in SUBSET edges, E # {}, UnbindEdges(t, E), UnbindRest
  PROVE  IInv'
<1> DEFINE w == IF ActiveOf(E) = {} THEN FirstRetiring(E) ELSE {e.gen : e \in ActiveOf(E)}
<1>1. /\ edges' = Retire(ActiveOf(E)) /\ pc' = Set(pc, t, "unbind") /\ wait' = Set(wait, t, w)
      /\ UNCHANGED <<prog, hook, todo>>
      /\ UNCHANGED <<reg, nextId, nextGen, issued, leases, watching, deliver, callback>>
      /\ active' = active
  BY DEF UnbindEdges, UnbindRest, AppRest, state
<1>2. ASSUME NEW g \in w
      PROVE  \E e \in E : e.gen = g /\ (e.retiring \/ e \in ActiveOf(E))
  <2>1. CASE ActiveOf(E) = {}
    <3>1. {e.gen : e \in E} \subseteq Nat /\ {e.gen : e \in E} # {}
      BY EdgeKnown
    <3>2. g = Min({e.gen : e \in E})
      BY <1>2, <2>1 DEF FirstRetiring
    <3>3. g \in {e.gen : e \in E}
      BY <3>1, <3>2, MinInSet
    <3> QED BY <2>1, <3>3 DEF ActiveOf
  <2>2. CASE ActiveOf(E) # {}
    BY <1>2, <2>2 DEF ActiveOf
  <2> QED BY <2>1, <2>2
<1> HIDE DEF w
<1>3. SameObjects /\ TypedReg' /\ UNCHANGED <<watching, DOMAIN callback>>
  BY <1>1 DEF SameObjects, IInv, TypedReg, Ids
<1>4. /\ SoundData
      /\ \A f \in edges' : \E e \in edges :
           OldEdge(e, f) /\ f.borrows = e.borrows /\ (e \in ActiveOf(E) => f.retiring)
  BY <1>1, <1>3, RetireData, SameIsOld DEF SoundData
<1>5. \A g \in w : g \in Nat /\ g < nextGen'
  BY <1>1, <1>2, EdgeKnown
<1>6. ASSUME NEW f \in edges', f.gen \in w PROVE f.retiring
  <2>1. PICK e \in edges : /\ f.gen = e.gen /\ (e.retiring => f.retiring)
                           /\ (e \in ActiveOf(E) => f.retiring)
    BY <1>4 DEF OldEdge
  <2>2. PICK k \in E : k.gen = f.gen /\ (k.retiring \/ k \in ActiveOf(E))
    BY <1>2, <1>6
  <2>3. k = e
    BY <2>1, <2>2 DEF IInv, LeaseInv
  <2> QED BY <2>1, <2>2, <2>3
<1>7. PICK s \in Nat : cur' = Set(cur, t, s)
  BY DEF UnbindEdges, IInv, TypedEdges, Edges
<1>8. After(t, prog[t], "unbind", s, todo[t], w)
  BY <1>1, <1>7, Moved
<1> QED BY <1>1, <1>4, <1>5, <1>6, <1>8, UnbindGoesOn

\* An unbind ends in its own call, or in the roll-back of an install.
LEMMA UnbindEndsKeeps ==
  ASSUME IInv, NEW t \in Tasks, NEW d \in {"Install", "Bind", "Unbind"}, Does(t, d),
         SoundData, UnbindEnds(t), active' = active
  PROVE  IInv'
<1>1. CASE Does(t, "Install")
  <2>1. /\ pc' = Set(pc, t, "rollback") /\ todo' = Set(todo, t, Tail(todo[t]))
        /\ UNCHANGED <<prog, cur, hook, wait>>
    BY <1>1 DEF UnbindEnds
  <2>2. cur[t] \in Nat
    BY DEF IInv, TypedTasks
  <2>3. After(t, prog[t], "rollback", cur[t], Tail(todo[t]), wait[t])
    BY <2>1, <2>2, Moved
  <2> QED BY <1>1, <2>2, <2>3, InstallGoesOn
<1>2. CASE ~Does(t, "Install")
  BY <1>2, ModestReturns DEF UnbindEnds, Modest
<1> QED BY <1>1, <1>2

LEMMA UnbindKeeps ==
  ASSUME IInv, NEW t \in Tasks, Unbind(t)
  PROVE  IInv'
<1> DEFINE E == UNION {Between(s, c) : s \in Subjects(Op(t)), c \in Targets(Op(t))}
<1>1. Does(t, "Unbind") /\ active' = active /\ E \subseteq edges
  BY DEF Unbind, UnbindRest, AppRest, state, Between, EdgesTo, EdgesOf
<1>2. CASE E = {}
  <2>1. SoundData
    BY <1>2, NoData DEF Unbind, UnbindRest, regVars, registry
  <2> QED BY <1>1, <1>2, <2>1, ModestReturns DEF Unbind, Modest
<1>3. CASE E # {}
  <2>1. UnbindEdges(t, E) /\ UnbindRest
    BY <1>3 DEF Unbind
  <2> HIDE DEF E
  <2> QED BY <1>1, <1>3, <2>1, UnbindEdgesKeeps
<1> QED BY <1>2, <1>3

LEMMA RollbackKeeps ==
  ASSUME IInv, NEW t \in Tasks, Rollback(t)
  PROVE  IInv'
<1> DEFINE E == UNION {Between(cur[t], c) : c \in Placed(0, Head(todo[t]))}
<1>1. Does(t, "Install") /\ active' = active /\ E \subseteq edges
  BY CallInstalls DEF Rollback, At, UnbindRest, AppRest, state, Between, EdgesTo, EdgesOf
<1>2. CASE E = {}
  <2>1. SoundData
    BY <1>2, NoData DEF Rollback, UnbindRest, regVars, registry
  <2> QED BY <1>1, <1>2, <2>1, UnbindEndsKeeps DEF Rollback
<1>3. CASE E # {}
  <2>1. UnbindEdges(t, E) /\ UnbindRest
    BY <1>3 DEF Rollback
  <2> HIDE DEF E
  <2> QED BY <1>1, <1>3, <2>1, UnbindEdgesKeeps
<1> QED BY <1>2, <1>3

LEMMA CallUnbinds ==
  ASSUME IInv, NEW t \in Tasks, pc[t] \in {"unbind", "unbound"}
  PROVE  \E d \in {"Install", "Unbind"} : Does(t, d)
<1>1. pc[t] # "idle" /\ ~Listing(t)
  BY DEF Listing
<1> QED BY <1>1, CallPlace DEF Place, HookPcs, ClosingPcs, Does

LEMMA EdgeDrainedKeeps ==
  ASSUME IInv, NEW t \in Tasks, EdgeDrained(t)
  PROVE  IInv'
<1>1. SoundData /\ active' = active /\ UNCHANGED <<edges, nextGen>>
  BY NoData DEF EdgeDrained, AppRest, state, regVars, registry
<1>2. PICK d \in {"Install", "Unbind"} : Does(t, d)
  BY CallUnbinds DEF EdgeDrained, At
<1>3. cur[t] \in Nat
  BY DEF IInv, TypedTasks
<1>4. After(t, prog[t], "unbound", cur[t], todo[t], wait[t])
  BY <1>3, Moved DEF EdgeDrained, Go, Keep
<1>5. /\ \A g \in wait[t] : g \in Nat /\ g < nextGen
      /\ \A e \in edges : e.gen \in wait[t] => e.retiring /\ e.borrows = 0
  BY DEF EdgeDrained, At, Drained, IInv, TaskInv, UnbindInv
<1> QED BY <1>1, <1>2, <1>4, <1>5, UnbindGoesOn

LEMMA UnbindLateKeeps ==
  ASSUME IInv, NEW t \in Tasks, UnbindLate(t)
  PROVE  IInv'
<1>1. SoundData /\ active' = active
  BY NoData DEF UnbindLate, AppRest, state
<1>2. PICK d \in {"Install", "Unbind"} : Does(t, d)
  BY CallUnbinds DEF UnbindLate, At
<1> QED BY <1>1, <1>2, UnbindEndsKeeps DEF UnbindLate

LEMMA EraseEdgeKeeps ==
  ASSUME IInv, NEW t \in Tasks, EraseEdge(t)
  PROVE  IInv'
<1>1. PICK g \in wait[t] : edges' = edges \ {e \in Edge(g) : e.retiring}
  BY DEF EraseEdge, EraseBinding
<1>2. PICK d \in {"Install", "Unbind"} : Does(t, d)
  BY CallUnbinds DEF EraseEdge, At
<1>3. \A e \in edges : e.gen \in wait[t] => e.borrows = 0
  BY DEF EraseEdge, At, IInv, TaskInv, UnbindInv
<1>4. UNCHANGED <<reg, nextId, nextGen, issued, leases, watching, callback, active>>
  BY DEF EraseEdge, UnbindRest, AppRest, state
<1>5. SameObjects /\ TypedReg'
  BY <1>4 DEF SameObjects, IInv, TypedReg, Ids
<1>6. SoundData
  BY <1>1, <1>3, <1>4, <1>5, FewerEdges DEF Edge
<1>7. CASE Go(t, "changed")
  <2>1. After(t, prog[t], "changed", cur[t], todo[t], wait[t])
    BY <1>7, Moved DEF Go, Keep, IInv, TypedTasks
  <2>2. cur[t] \in Nat
    BY DEF IInv, TypedTasks
  <2>3. CASE d = "Install"
    BY <1>2, <1>4, <1>6, <2>1, <2>2, <2>3, InstallGoesOn
  <2>4. CASE d = "Unbind"
    <3>1. Place("Unbind", Op(t).kind, "changed")
      BY DEF Place
    <3> QED BY <1>2, <1>4, <1>6, <2>1, <2>2, <2>4, <3>1, ModestGoesOn DEF Modest
  <2> QED BY <2>3, <2>4
<1>8. CASE UnbindEnds(t)
  BY <1>2, <1>4, <1>6, <1>8, UnbindEndsKeeps
<1> QED BY <1>7, <1>8 DEF EraseEdge

LEMMA BindingChangedKeeps ==
  ASSUME IInv, NEW t \in Tasks, BindingChanged(t)
  PROVE  IInv'
<1>1. SoundData /\ active' = active
  BY NoData DEF BindingChanged, AppRest, state
<1>2. pc[t] = "changed" /\ pc[t] # "idle" /\ ~Listing(t)
  BY DEF BindingChanged, At, Listing
<1>3. PICK d \in {"Install", "Bind", "Unbind"} : Does(t, d)
  BY <1>2, CallPlace DEF Place, HookPcs, ClosingPcs, Does
<1> QED BY <1>1, <1>3, UnbindEndsKeeps DEF BindingChanged

-----------------------------------------------------------------------------
(* New objects.                                                            *)

LEMMA CreatedData ==
  ASSUME IInv, NEW k \in Kinds, NEW n \in STRING, NEW o \in Nat, NEW s \in States,
         Created(k, n, o, s),
         UNCHANGED <<edges, nextGen, issued, leases, watching, deliver, callback>>
  PROVE  /\ GoodData /\ Ids' = Ids \cup {nextId} /\ nextId \notin Ids
         /\ reg'[nextId].op = FALSE /\ \A i \in Ids : reg'[i] = reg[i]
<1>1. /\ IsFiniteSet(Ids) /\ Ids \subseteq Nat /\ reg \in [Ids -> Entries] /\ nextId \in Nat
      /\ \A i \in Ids : i < nextId
  BY DEF IInv, TypedReg
<1>2. nextId \notin Ids /\ nextId' = nextId + 1
  BY <1>1 DEF Created
<1>3. /\ reg' = [i \in Ids \cup {nextId} |-> IF i = nextId THEN Entry(k, n, o, s) ELSE reg[i]]
      /\ Entry(k, n, o, s) \in Entries /\ Entry(k, n, o, s).op = FALSE
  BY DEF Created, Entry, Entries
<1>4. /\ Ids' = Ids \cup {nextId} /\ reg'[nextId].op = FALSE /\ reg' \in [Ids' -> Entries]
      /\ \A i \in Ids : reg'[i] = reg[i]
  BY <1>1, <1>2, <1>3 DEF Ids
<1>5. TypedReg'
  <2>1. IsFiniteSet(Ids')
    BY <1>1, <1>4, FS_AddElement
  <2>2. Ids' \subseteq Nat /\ nextId' \in Nat /\ \A i \in Ids' : i < nextId'
    BY <1>1, <1>2, <1>4
  <2> QED BY <1>4, <2>1, <2>2 DEF TypedReg
<1>6. nextGen \in Nat
  BY DEF IInv, TypedEdges
<1>7. ObjectsOnward
  <2>1. nextId' >= nextId /\ nextId' \in Nat /\ nextGen' >= nextGen /\ nextGen' \in Nat
    BY <1>1, <1>2, <1>6
  <2>2. \A i \in Ids' : i \in Ids \/ (i >= nextId /\ i \in Nat)
    BY <1>1, <1>4
  <2> QED BY <1>4, <2>1, <2>2 DEF ObjectsOnward
<1>8. EdgesOnward /\ TypedEdges'
  BY DEF EdgesOnward, OldEdge, IInv, TypedEdges
<1>9. UserInv'
  <2>1. ASSUME NEW e \in edges
        PROVE  /\ e.subj < nextId' /\ e.subj # nextId
               /\ e.subj \in Ids => (e.ofService <=> reg[e.subj].kind = "Service")
               /\ e.ofService => e.subj \in Ids
               /\ e.comp \in Ids /\ reg[e.comp].kind = "Component"
    BY <1>1, <1>2, EdgeKnown DEF IInv, UserInv
  <2>2. Ordered'
    BY StaysOrdered DEF IInv, UserInv
  <2> QED BY <1>4, <2>1, <2>2 DEF UserInv
<1>10. LeaseInv'
  <2>1. \A h \in issued : h.comp < nextId' /\ h.comp # nextId
    BY <1>1, <1>2 DEF IInv, LeaseInv, TypedEdges
  <2> QED BY <1>4, <2>1 DEF IInv, LeaseInv, Handle
<1>11. TypedWatch' /\ WatchInv'
  BY WatchKept
<1> QED BY <1>2, <1>4, <1>5, <1>7, <1>8, <1>9, <1>10, <1>11 DEF GoodData

\* Nobody works on an object that is new.
LEMMA CreatedStep ==
  ASSUME IInv, NEW t \in Tasks, Does(t, "Install"), Others(t), TypedTasks', TaskInv(t)',
         \A i : ~Closing(t, i)', ~Moves(t)', active' = active,
         GoodData, Ids' = Ids \cup {nextId}, nextId \notin Ids, reg'[nextId].op = FALSE,
         \A i \in Ids : reg'[i] = reg[i]
  PROVE  IInv'
<1>1. /\ ~Moves(t) /\ \A i : ~Closing(t, i)
      /\ active' \in BOOLEAN
  BY Installing DEF IInv
<1>2. ASSUME NEW u \in Tasks, NEW i PROVE Closing(u, i)' <=> Closing(u, i)
  <2>1. CASE u = t
    BY <1>1, <2>1
  <2>2. CASE u # t
    <3>1. prog'[u] = prog[u] /\ pc'[u] = pc[u] /\ cur'[u] = cur[u] /\ todo'[u] = todo[u]
      BY <2>2 DEF Others
    <3> QED BY <3>1 DEF Closing, Does, Op, Kind
  <2> QED BY <2>1, <2>2
<1>3. ASSUME NEW u \in Tasks PROVE ~Closing(u, nextId)
  <2> SUFFICES ASSUME Closing(u, nextId) PROVE FALSE
    OBVIOUS
  <2>1. Works(u) /\ cur[u] = nextId
    BY DEF Closing, Works
  <2>2. Known(cur[u], Kind(u))
    BY <2>1, TargetKnown DEF IInv, TaskInv
  <2> QED BY <2>1, <2>2 DEF Known, IInv, TypedReg
<1>4. OpInv'
  <2>1. ASSUME NEW i \in Ids' PROVE reg'[i].op <=> \E u \in Tasks : Closing(u, i)'
    BY <1>2, <1>3 DEF IInv, OpInv
  <2>2. ASSUME NEW i \in Ids', NEW u \in Tasks, NEW v \in Tasks, Closing(u, i)', Closing(v, i)'
        PROVE  u = v
    BY <1>2, <1>3, <2>2 DEF IInv, OpInv
  <2> QED BY <2>1, <2>2 DEF OpInv
<1>5. LifeInv'
  BY <1>1, LifeKept
<1> QED BY <1>1, <1>4, <1>5, Assembled DEF GoodData

LEMMA CreateObjectKeeps ==
  ASSUME IInv, NEW t \in Tasks, CreateObject(t)
  PROVE  IInv'
<1>1. Does(t, "Install") /\ active' = active
  BY CallInstalls DEF CreateObject, At, AppRest, state
<1>2. Op(t) \in Calls /\ cur[t] \in Nat /\ nextId \in Nat
  BY <1>1 DEF Does, Op, IInv, TypedTasks, TypedReg
<1>3. Op(t).kind \in {"Service", "Component"} /\ Op(t).name \in STRING /\ Op(t).do = "Install"
  BY <1>1, <1>2 DEF CreateObject, Calls, Does
<1>4. Op(t).kind \in Kinds /\ "Installing" \in States
  BY <1>3 DEF Kinds, States
<1>5. /\ GoodData /\ Ids' = Ids \cup {nextId} /\ nextId \notin Ids
      /\ reg'[nextId].op = FALSE /\ \A i \in Ids : reg'[i] = reg[i]
  BY <1>2, <1>3, <1>4, CreatedData DEF CreateObject
<1>6. PICK p \in {"declare", "install"} : pc' = Set(pc, t, p)
  BY DEF CreateObject
<1>7. After(t, prog[t], p, nextId, Op(t).uses, wait[t])
  BY <1>2, <1>6, Moved DEF CreateObject
<1>8. p \notin {"unbind", "unbound"} /\ Place(Op(t).do, Op(t).kind, p)
  BY <1>3 DEF Place
<1>9. p = "declare" => nextId < nextId' /\ (nextId \in Ids' => reg'[nextId].kind = "Service")
  <2>1. p = "declare" => Op(t).kind = "Service"
    BY <1>6 DEF CreateObject, Set, IInv, TypedTasks
  <2>2. nextId' = nextId + 1 /\ reg'[nextId].kind = Op(t).kind
    BY DEF CreateObject, Created, Entry
  <2> QED BY <1>2, <2>1, <2>2
<1>10. TaskInv(t)' /\ \A i : ~Closing(t, i)'
  BY <1>1, <1>7, <1>8, <1>9, Installing, PlainTask
<1>11. ~Moves(t)' /\ Others(t) /\ TypedTasks'
  BY <1>1, <1>7, Installing DEF After, Moves, Does, Op
<1> QED BY <1>1, <1>5, <1>10, <1>11, CreatedStep

LEMMA CreateActorTypeKeeps ==
  ASSUME IInv, NEW t \in Tasks, CreateActorType(t)
  PROVE  IInv'
<1>1. Does(t, "Install") /\ active' = active /\ Return(t)
  BY CallInstalls DEF CreateActorType, At, AppRest, state
<1>2. Op(t) \in Calls
  BY <1>1 DEF Does, Op, IInv, TypedTasks
<1>3. Op(t).kind = "Actor" /\ Op(t).name \in STRING
  BY <1>2 DEF CreateActorType, Calls
<1>4. Op(t).kind \in Kinds /\ "Installed" \in States /\ 0 \in Nat
  BY <1>3 DEF Kinds, States
<1>5. /\ GoodData /\ Ids' = Ids \cup {nextId} /\ nextId \notin Ids
      /\ reg'[nextId].op = FALSE /\ \A i \in Ids : reg'[i] = reg[i]
  BY <1>3, <1>4, CreatedData DEF CreateActorType
<1>6. Others(t) /\ TypedTasks' /\ pc'[t] = "idle"
  BY <1>1, Returned DEF Does
<1>7. TaskInv(t)' /\ ~Moves(t)' /\ \A i : ~Closing(t, i)'
  BY <1>6, IdleTask
<1> QED BY <1>1, <1>5, <1>6, <1>7, CreatedStep

-----------------------------------------------------------------------------
(* Stop, from object to object.                                            *)

\* The operation on an object is taken and given back.
LEMMA OpTaken ==
  ASSUME IInv, NEW t \in Tasks, Others(t), Ids' = Ids, NEW i \in Ids, ~reg[i].op,
         reg'[i].op = TRUE, \A j \in Ids : j # i => reg'[j].op = reg[j].op,
         \A j \in Ids : ~Closing(t, j), \A j \in Ids : Closing(t, j)' <=> j = i
  PROVE  OpInv'
<1>1. ASSUME NEW u \in Tasks, u # t, NEW j \in Ids PROVE Closing(u, j)' <=> Closing(u, j)
  <2>1. prog'[u] = prog[u] /\ pc'[u] = pc[u] /\ cur'[u] = cur[u] /\ todo'[u] = todo[u]
    BY <1>1 DEF Others
  <2> QED BY <2>1 DEF Closing, Does, Op, Kind
<1>2. ASSUME NEW u \in Tasks PROVE ~Closing(u, i)
  BY DEF IInv, OpInv
<1>3. ASSUME NEW j \in Ids PROVE reg'[j].op <=> \E u \in Tasks : Closing(u, j)'
  <2>1. CASE j = i
    BY <2>1
  <2>2. CASE j # i
    <3>1. reg[j].op <=> \E u \in Tasks : Closing(u, j)
      BY DEF IInv, OpInv
    <3>2. ~Closing(t, j) /\ ~Closing(t, j)' /\ reg'[j].op = reg[j].op
      BY <2>2
    <3> QED BY <1>1, <3>1, <3>2
  <2> QED BY <2>1, <2>2
<1>4. ASSUME NEW j \in Ids, NEW u \in Tasks, NEW v \in Tasks, Closing(u, j)', Closing(v, j)'
      PROVE  u = v
  <2>1. CASE j = i
    BY <1>1, <1>2, <1>4, <2>1
  <2>2. CASE j # i
    <3>1. u # t /\ v # t
      BY <1>4, <2>2
    <3> QED BY <1>1, <1>4, <3>1 DEF IInv, OpInv
  <2> QED BY <2>1, <2>2
<1> QED BY <1>3, <1>4 DEF OpInv

LEMMA OpFreed ==
  ASSUME IInv, NEW t \in Tasks, Others(t), Ids' = Ids, NEW i \in Ids, Closing(t, i),
         reg'[i].op = FALSE, \A j \in Ids : j # i => reg'[j].op = reg[j].op,
         \A j \in Ids : ~Closing(t, j)'
  PROVE  OpInv'
<1>1. ASSUME NEW u \in Tasks, u # t, NEW j \in Ids PROVE Closing(u, j)' <=> Closing(u, j)
  <2>1. prog'[u] = prog[u] /\ pc'[u] = pc[u] /\ cur'[u] = cur[u] /\ todo'[u] = todo[u]
    BY <1>1 DEF Others
  <2> QED BY <2>1 DEF Closing, Does, Op, Kind
<1>2. ASSUME NEW u \in Tasks, u # t PROVE ~Closing(u, i)
  BY <1>2 DEF IInv, OpInv
<1>3. ASSUME NEW j \in Ids PROVE reg'[j].op <=> \E u \in Tasks : Closing(u, j)'
  <2>1. CASE j = i
    BY <1>1, <1>2, <2>1
  <2>2. CASE j # i
    <3>1. reg[j].op <=> \E u \in Tasks : Closing(u, j)
      BY DEF IInv, OpInv
    <3>2. ~Closing(t, j) /\ ~Closing(t, j)' /\ reg'[j].op = reg[j].op
      BY <2>2 DEF Closing
    <3> QED BY <1>1, <3>1, <3>2
  <2> QED BY <2>1, <2>2
<1>4. ASSUME NEW j \in Ids, NEW u \in Tasks, NEW v \in Tasks, Closing(u, j)', Closing(v, j)'
      PROVE  u = v
  <2>1. u # t /\ v # t
    BY <1>4
  <2> QED BY <1>1, <1>4, <2>1 DEF IInv, OpInv
<1> QED BY <1>3, <1>4 DEF OpInv

\* The list of a Stop.
LEMMA StopList ==
  ASSUME IInv, NEW t \in Tasks, Does(t, "Stop"), pc[t] \notin {"idle", "snapshot"}
  PROVE  /\ prog[t] # <<>> /\ Op(t).do = "Stop" /\ todo[t] \in Seq(Listed) /\ Moves(t)
         /\ \A k \in 1..Len(todo[t]) : Known(todo[t][k].id, todo[t][k].kind)
         /\ pc[t] # "next" => todo[t] # <<>> /\ cur[t] = Head(todo[t]).id
<1>1. Walks(t) /\ Moves(t)
  BY DEF Walks, Moves
<1> QED BY <1>1 DEF IInv, TaskInv, ListInv, Does

LEMMA FirstListed ==
  ASSUME IInv, NEW t \in Tasks, Does(t, "Stop"), pc[t] \notin {"idle", "snapshot"},
         todo[t] # <<>>
  PROVE  /\ Head(todo[t]) \in Listed /\ Head(todo[t]).id \in Nat
         /\ Head(todo[t]).kind \in Closables /\ Kind(t) = Head(todo[t]).kind
         /\ Known(Head(todo[t]).id, Kind(t))
<1>1. /\ todo[t] \in Seq(Listed)
      /\ \A k \in 1..Len(todo[t]) : Known(todo[t][k].id, todo[t][k].kind)
  BY StopList
<1>2. 1 \in 1..Len(todo[t]) /\ Head(todo[t]) = todo[t][1] /\ Head(todo[t]) \in Listed
  BY <1>1
<1> QED BY <1>1, <1>2 DEF Listed, Kind

\* Between two objects a Stop only has its list.
LEMMA NextTask ==
  ASSUME IInv, NEW t \in Tasks, Does(t, "Stop"), ObjectsOnward, NEW l \in Seq(Listed), NEW c, NEW w,
         After(t, prog[t], "next", c, l, w),
         \A k \in 1..Len(l) : Known(l[k].id, l[k].kind)
  PROVE  TaskInv(t)' /\ Moves(t)' /\ \A i : ~Closing(t, i)'
<1>1. /\ \A d : Does(t, d)' <=> Does(t, d)
      /\ ~Does(t, "Uninstall") /\ prog[t] # <<>>
  BY DEF After, Does, Op
<1>2. PlaceInv(t)'
  BY <1>1 DEF After, PlaceInv, Listing
<1>3. ASSUME NEW k \in 1..Len(l) PROVE Known(l[k].id, l[k].kind)'
  <2>1. l[k] \in Listed
    BY ElementOfSeq
  <2>2. l[k].id \in Nat /\ Known(l[k].id, l[k].kind) /\ nextId \in Nat
    BY <2>1 DEF Listed, IInv, TypedReg
  <2> QED BY <2>2 DEF Known, ObjectsOnward
<1>4. ListInv(t)'
  BY <1>1, <1>3 DEF After, ListInv, HookPcs
<1>5. TargetInv(t)' /\ HeldInv(t)' /\ EdgesInv(t)' /\ UnbindInv(t)' /\ UnusedInv(t)'
  BY <1>1 DEF After, TargetInv, HeldInv, EdgesInv, UnbindInv, UnusedInv, Works
<1>6. Moves(t)' /\ \A i : ~Closing(t, i)'
  BY <1>1 DEF After, Moves, Closing
<1> QED BY <1>2, <1>4, <1>5, <1>6 DEF TaskInv

\* On to the next object.
LEMMA InTurnGoesOn ==
  ASSUME IInv, NEW t \in Tasks, Does(t, "Stop"), ObjectsOnward, InTurn(t),
         pc[t] \notin {"idle", "snapshot"}, todo[t] # <<>>
  PROVE  /\ TaskInv(t)' /\ Moves(t)' /\ \A i : ~Closing(t, i)'
         /\ Others(t) /\ TypedTasks' /\ Moves(t)
<1>1. /\ todo[t] \in Seq(Listed) /\ Moves(t)
      /\ \A k \in 1..Len(todo[t]) : Known(todo[t][k].id, todo[t][k].kind)
  BY StopList
<1>2. /\ Tail(todo[t]) \in Seq(Listed) /\ Len(Tail(todo[t])) = Len(todo[t]) - 1
      /\ Len(todo[t]) \in Nat
  BY <1>1
<1>3. \A k \in 1..Len(Tail(todo[t])) :
        k + 1 \in 1..Len(todo[t]) /\ Tail(todo[t])[k] = todo[t][k + 1]
  BY <1>1, <1>2
<1>4. \A k \in 1..Len(Tail(todo[t])) : Known(Tail(todo[t])[k].id, Tail(todo[t])[k].kind)
  BY <1>1, <1>3
<1>5. cur[t] \in Nat
  BY DEF IInv, TypedTasks
<1>6. After(t, prog[t], "next", cur[t], Tail(todo[t]), wait[t])
  BY <1>5, Moved DEF InTurn
<1>7. TaskInv(t)' /\ Moves(t)' /\ \A i : ~Closing(t, i)'
  BY <1>2, <1>4, <1>6, NextTask
<1> QED BY <1>1, <1>6, <1>7 DEF After

LEMMA StopBeginsKeeps ==
  ASSUME IInv, NEW t \in Tasks, StopBegins(t)
  PROVE  IInv'
<1>1. /\ Does(t, "Stop") /\ pc[t] = "idle" /\ SoundData /\ prog[t] # <<>>
      /\ \A i : ~Closing(t, i)
      /\ ~Moves(t) /\ cur[t] \in Nat
  BY NoData DEF StopBegins, At, Does, Closing, Moves, IInv, TypedTasks
<1>2. CASE Return(t) /\ UNCHANGED active
  <2>1. active' \in BOOLEAN
    BY <1>2 DEF IInv
  <2> QED BY <1>1, <1>2, <2>1, ReturnStep
<1>3. CASE ~active /\ active' = TRUE /\ Go(t, "snapshot")
  <2>1. After(t, prog[t], "snapshot", cur[t], todo[t], wait[t])
    BY <1>1, <1>3, Moved DEF Go, Keep
  <2>2. \A d : Does(t, d)' <=> Does(t, d)
    BY <2>1 DEF After, Does, Op
  <2>3. ~Does(t, "Uninstall")
    BY <1>1 DEF Does
  <2>4. /\ PlaceInv(t)' /\ ListInv(t)' /\ TargetInv(t)' /\ HeldInv(t)' /\ EdgesInv(t)'
        /\ UnbindInv(t)' /\ UnusedInv(t)'
    BY <1>1, <2>1, <2>2, <2>3 DEF After, PlaceInv, Listing, ListInv, Walks, TargetInv, HeldInv,
      EdgesInv, UnbindInv, UnusedInv, Works
  <2>5. TaskInv(t)' /\ Moves(t)' /\ \A i : ~Closing(t, i)'
    BY <1>1, <2>1, <2>2, <2>4 DEF After, TaskInv, Moves, Closing
  <2>6. Others(t) /\ TypedTasks' /\ active' \in BOOLEAN
    BY <1>3, <2>1 DEF After
  <2>7. LifeInv'
    BY <1>3, <2>5, <2>6, LifeBegins
  <2> QED BY <1>1, <2>5, <2>6, <2>7, QuietStep
<1> QED BY <1>2, <1>3 DEF StopBegins, TakesLifecycle

LEMMA StopSnapshotKeeps ==
  ASSUME IInv, NEW t \in Tasks, StopSnapshot(t)
  PROVE  IInv'
<1>1. SoundData /\ active' = active /\ Does(t, "Stop") /\ pc[t] = "snapshot" /\ cur[t] \in Nat
  BY NoData DEF StopSnapshot, AppRest, state, Goto, At, IInv, TypedTasks
<1>2. PICK q \in [1..Cardinality(Closable) -> Closable] : todo' = Set(todo, t, Objects(q))
  BY DEF StopSnapshot, Listings
<1>3. Cardinality(Closable) \in Nat
  BY FewObjects DEF Closable
<1>4. /\ Objects(q) \in Seq(Listed)
      /\ \A k \in 1..Len(Objects(q)) : Known(Objects(q)[k].id, Objects(q)[k].kind)
  BY <1>2, <1>3, ObjectsListed
<1>5. After(t, prog[t], "next", cur[t], Objects(q), wait[t])
  BY <1>1, <1>2, Moved DEF StopSnapshot, Goto, Set
<1>6. ObjectsOnward
  BY <1>1 DEF SoundData, GoodData
<1>7. TaskInv(t)' /\ Moves(t)' /\ \A i : ~Closing(t, i)'
  BY <1>1, <1>4, <1>5, <1>6, NextTask
<1>8. Moves(t) /\ \A i : ~Closing(t, i)
  BY <1>1 DEF Moves, Closing
<1>9. Others(t) /\ TypedTasks' /\ active' \in BOOLEAN
  BY <1>1, <1>5 DEF After, IInv
<1>10. LifeInv'
  BY <1>1, <1>7, <1>8, <1>9, LifeKept
<1> QED BY <1>1, <1>7, <1>8, <1>9, <1>10, QuietStep

LEMMA StopSkipsKeeps ==
  ASSUME IInv, NEW t \in Tasks, StopSkips(t)
  PROVE  IInv'
<1>1. /\ SoundData /\ active' = active /\ Does(t, "Stop") /\ pc[t] = "next" /\ InTurn(t)
      /\ todo[t] # <<>>
  BY NoData DEF StopSkips, InLine, AppRest, state, At
<1>2. ObjectsOnward /\ \A i : ~Closing(t, i)
  BY <1>1 DEF SoundData, GoodData, Closing
<1>3. /\ TaskInv(t)' /\ Moves(t)' /\ \A i : ~Closing(t, i)'
      /\ Others(t) /\ TypedTasks' /\ Moves(t)
  BY <1>1, <1>2, InTurnGoesOn
<1>4. LifeInv' /\ active' \in BOOLEAN
  BY <1>1, <1>3, LifeKept DEF IInv
<1> QED BY <1>1, <1>2, <1>3, <1>4, QuietStep

LEMMA StopEndsKeeps ==
  ASSUME IInv, NEW t \in Tasks, StopEnds(t)
  PROVE  IInv'
<1>1. /\ SoundData /\ active' = FALSE /\ Does(t, "Stop") /\ pc[t] = "next" /\ Return(t)
      /\ prog[t] # <<>>
  BY NoData DEF StopEnds, At, Does
<1>2. Moves(t) /\ \A i : ~Closing(t, i)
  BY <1>1 DEF Moves, Closing
<1> QED BY <1>1, <1>2, ReturnStep

-----------------------------------------------------------------------------
(* An object is closed.                                                    *)

Ended == {"scan", "sweep", "swept"}
Closes(t) == Does(t, "Stop") \/ Does(t, "Uninstall")

LEMMA CloserKnown ==
  ASSUME IInv, NEW t \in Tasks, Closes(t), pc[t] \notin {"idle", "snapshot", "next"}
  PROVE  /\ prog[t] # <<>> /\ Place(Op(t).do, Kind(t), pc[t]) /\ Kind(t) \in Closables
         /\ Known(cur[t], Kind(t)) /\ cur[t] \in Nat
         /\ Does(t, "Stop") => Moves(t) /\ todo[t] # <<>>
         /\ Does(t, "Uninstall") => ~Moves(t) /\ ~Does(t, "Stop") /\ Kind(t) = Op(t).kind
         /\ pc[t] \notin Ended => Works(t)
         /\ pc[t] \notin Ended /\ Kind(t) # "Actor" => cur[t] \in Ids
<1>1. prog[t] # <<>> /\ Place(Op(t).do, Kind(t), pc[t])
  BY CallPlace DEF Listing
<1>2. pc[t] \notin Ended => Works(t)
  BY DEF Works, Ended, Closes
<1>3. pc[t] \notin Ended /\ Kind(t) # "Actor" => cur[t] \in Ids
  BY <1>2 DEF IInv, TaskInv, HeldInv
<1>4. CASE Does(t, "Stop")
  <2>1. todo[t] # <<>> /\ cur[t] = Head(todo[t]).id /\ Moves(t)
    BY <1>4, StopList
  <2>2. Kind(t) \in Closables /\ Known(cur[t], Kind(t)) /\ cur[t] \in Nat
    BY <1>4, <2>1, FirstListed
  <2>3. ~Does(t, "Uninstall")
    BY <1>4 DEF Does
  <2> QED BY <1>1, <1>2, <1>3, <2>1, <2>2, <2>3
<1>5. CASE ~Does(t, "Stop")
  <2>1. Does(t, "Uninstall") /\ ~Moves(t) /\ Kind(t) = Op(t).kind
    BY <1>5 DEF Closes, Does, Moves, Transitions, Kind
  <2>2. Known(cur[t], Kind(t)) /\ cur[t] \in Nat
    BY <2>1 DEF IInv, TaskInv, TargetInv, TypedTasks
  <2>3. Op(t) \in Calls
    BY <2>1 DEF Does, Op, IInv, TypedTasks
  <2>4. Kind(t) \in Closables
    BY <2>1, <2>3 DEF Calls, Does, Closables
  <2> QED BY <1>1, <1>2, <1>3, <1>5, <2>1, <2>2, <2>4
<1> QED BY <1>4, <1>5

\* What a task owes that closes an object and goes on with it.
LEMMA CloserTask ==
  ASSUME IInv, NEW t \in Tasks, Closes(t), NEW p, NEW c \in Nat, NEW w,
         After(t, prog[t], p, c, todo[t], w), prog[t] # <<>>,
         p \notin {"idle", "snapshot", "next", "unbind", "unbound"},
         Place(Op(t).do, Kind(t), p),
         Known(c, Kind(t))', ObjectsOnward,
         Does(t, "Stop") => /\ pc[t] \notin {"idle", "snapshot"} /\ todo[t] # <<>>
                            /\ c = Head(todo[t]).id,
         p \notin Ended /\ Kind(t) # "Actor" => c \in Ids',
         p \notin Ended /\ Kind(t) = "Service" =>
           /\ p \notin {"retire", "abort"} => \A e \in edges' : e.subj = c => e.retiring
           /\ p = "drain" => \A e \in edges' : e.subj = c => e.gen \in w
           /\ p \in DrainedPlaces(t) => \A e \in edges' : e.subj = c => e.borrows = 0
           /\ p \in ErasedPlaces(t) => \A e \in edges' : e.subj # c,
         p \notin Ended /\ Does(t, "Uninstall") /\ Kind(t) = "Component" =>
           reg'[c].gate /\ \A e \in edges' : e.comp # c
  PROVE  /\ TaskInv(t)' /\ (Moves(t)' <=> Does(t, "Stop"))
         /\ \A i : Closing(t, i)' <=> /\ c = i /\ p \notin Ended
                                      /\ Kind(t) = "Actor" => Does(t, "Uninstall")
<1>1. /\ \A d : Does(t, d)' <=> Does(t, d)
      /\ Op(t)' = Op(t) /\ Kind(t)' = Kind(t)
  BY DEF After, Does, Op, Kind
<1>2. /\ pc'[t] = p /\ cur'[t] = c /\ todo'[t] = todo[t] /\ wait'[t] = w /\ prog'[t] = prog[t]
  BY DEF After
<1>3. Works(t)' <=> p \notin Ended
  BY <1>1, <1>2 DEF Works, Closes, Ended
<1>4. PlaceInv(t)'
  BY <1>1, <1>2 DEF PlaceInv
<1>5. TargetInv(t)'
  <2>1. ~Does(t, "Install")'
    BY <1>1 DEF Closes, Does
  <2> QED BY <1>1, <1>2, <2>1 DEF TargetInv, Kind, Does
<1>6. ListInv(t)'
  <2>1. CASE Does(t, "Stop")
    <3>1. /\ todo[t] \in Seq(Listed) /\ nextId \in Nat
          /\ \A k \in 1..Len(todo[t]) : Known(todo[t][k].id, todo[t][k].kind)
      BY <2>1, StopList DEF IInv, TypedReg
    <3>2. ASSUME NEW k \in 1..Len(todo[t]) PROVE Known(todo[t][k].id, todo[t][k].kind)'
      <4>1. todo[t][k] \in Listed
        BY <3>1, ElementOfSeq
      <4>2. todo[t][k].id \in Nat
        BY <4>1 DEF Listed
      <4>3. PICK i, k2 : i = todo[t][k].id /\ k2 = todo[t][k].kind
        OBVIOUS
      <4>4. Known(i, k2) /\ i \in Nat
        BY <3>1, <4>2, <4>3
      <4>5. Known(i, k2)'
        BY <3>1, <4>4 DEF Known, ObjectsOnward
      <4> QED BY <1>2, <4>3, <4>5
    <3> QED BY <1>1, <1>2, <2>1, <3>1, <3>2 DEF ListInv
  <2>2. CASE ~Does(t, "Stop")
    <3>1. Does(t, "Uninstall")
      BY <2>2 DEF Closes
    <3>2. ~Walks(t)'
      BY <1>1, <2>2, <3>1 DEF Walks, Transitions, Does
    <3> QED BY <3>2 DEF ListInv
  <2> QED BY <2>1, <2>2
<1>7. HeldInv(t)'
  BY <1>1, <1>2, <1>3 DEF HeldInv
<1>8. EdgesInv(t)'
  <2> SUFFICES ASSUME p \notin Ended, Kind(t) = "Service"
               PROVE  /\ p \notin {"retire", "abort"} => \A e \in EdgesOf(c)' : e.retiring
                      /\ p = "drain" => \A e \in EdgesOf(c)' : e.gen \in w
                      /\ p \in DrainedPlaces(t) => \A e \in EdgesOf(c)' : e.borrows = 0
                      /\ p \in ErasedPlaces(t) => EdgesOf(c)' = {}
    BY <1>1, <1>2, <1>3 DEF EdgesInv, DrainedPlaces, ErasedPlaces, EdgesOf
  <2> QED BY DEF EdgesOf
<1>9. UnbindInv(t)'
  BY <1>2 DEF UnbindInv
<1>10. UnusedInv(t)'
  BY <1>1, <1>2, <1>3 DEF UnusedInv, EdgesTo
<1>11. Moves(t)' <=> Does(t, "Stop")
  <2>1. Moves(t)' <=> \E d \in Transitions \cup {"Stop"} : Does(t, d)
    BY <1>1, <1>2 DEF Moves
  <2>2. \A d \in Transitions : ~Does(t, d)
    BY DEF Closes, Does, Transitions
  <2> QED BY <2>1, <2>2
<1>12. \A i : Closing(t, i)' <=> /\ c = i /\ p \notin Ended
                                 /\ Kind(t) = "Actor" => Does(t, "Uninstall")
  BY <1>1, <1>2 DEF Closing, Ended, Closes
<1> QED BY <1>4, <1>5, <1>6, <1>7, <1>8, <1>9, <1>10, <1>11, <1>12 DEF TaskInv

\* It goes on with the same object.
LEMMA CloserGoesOn ==
  ASSUME IInv, NEW t \in Tasks, Closes(t), pc[t] \notin {"idle", "snapshot", "next"},
         SoundData, active' = active, NEW p, NEW w, After(t, prog[t], p, cur[t], todo[t], w),
         p \notin {"idle", "snapshot", "next", "unbind", "unbound"},
         Place(Op(t).do, Kind(t), p), p \in Ended <=> pc[t] \in Ended,
         \A f \in edges' : \E e \in edges : f.comp = e.comp,
         p \notin Ended /\ Kind(t) = "Service" =>
           /\ p \notin {"retire", "abort"} => \A e \in edges' : e.subj = cur[t] => e.retiring
           /\ p = "drain" => \A e \in edges' : e.subj = cur[t] => e.gen \in w
           /\ p \in DrainedPlaces(t) => \A e \in edges' : e.subj = cur[t] => e.borrows = 0
           /\ p \in ErasedPlaces(t) => \A e \in edges' : e.subj # cur[t]
  PROVE  IInv'
<1>1. /\ prog[t] # <<>> /\ Known(cur[t], Kind(t)) /\ cur[t] \in Nat
      /\ Does(t, "Stop") => Moves(t) /\ todo[t] # <<>>
      /\ Does(t, "Uninstall") => ~Moves(t) /\ ~Does(t, "Stop")
      /\ pc[t] \notin Ended => Works(t)
      /\ pc[t] \notin Ended /\ Kind(t) # "Actor" => cur[t] \in Ids
  BY CloserKnown
<1>2. SameObjects /\ Ids' = Ids /\ ObjectsOnward
  BY DEF SoundData, GoodData, SameObjects
<1>3. Known(cur[t], Kind(t))'
  <2>1. PICK c, k : c = cur[t] /\ k = Kind(t)
    OBVIOUS
  <2>2. cur'[t] = c /\ Kind(t)' = k
    BY <2>1 DEF After, Kind, Does, Op
  <2>3. Known(c, k)'
    BY <1>1, <1>2, <2>1 DEF Known, SameObjects
  <2> QED BY <2>2, <2>3
<1>4. Does(t, "Stop") => /\ pc[t] \notin {"idle", "snapshot"} /\ todo[t] # <<>>
                         /\ cur[t] = Head(todo[t]).id
  BY StopList
<1>5. p \notin Ended /\ Does(t, "Uninstall") /\ Kind(t) = "Component" =>
        reg'[cur[t]].gate /\ \A e \in edges' : e.comp # cur[t]
  <2> SUFFICES ASSUME p \notin Ended, Does(t, "Uninstall"), Kind(t) = "Component"
               PROVE  reg'[cur[t]].gate /\ \A e \in edges' : e.comp # cur[t]
    OBVIOUS
  <2>1. Works(t) /\ cur[t] \in Ids
    BY <1>1
  <2>2. reg[cur[t]].gate /\ EdgesTo(cur[t]) = {}
    BY <2>1 DEF IInv, TaskInv, UnusedInv
  <2> QED BY <1>2, <2>1, <2>2 DEF SameObjects, EdgesTo
<1>6. /\ TaskInv(t)' /\ (Moves(t)' <=> Does(t, "Stop"))
      /\ \A i : Closing(t, i)' <=> /\ cur[t] = i /\ p \notin Ended
                                   /\ Kind(t) = "Actor" => Does(t, "Uninstall")
  <2>1. PICK c \in Nat : c = cur[t] /\ Known(c, Kind(t))'
    <3>1. PICK c, k : c = cur[t] /\ k = Kind(t)
      OBVIOUS
    <3>2. cur'[t] = c /\ Kind(t)' = k
      BY <3>1 DEF After, Kind, Does, Op
    <3> QED BY <1>1, <1>3, <3>1, <3>2
  <2> QED BY <1>1, <1>2, <1>4, <1>5, <2>1, CloserTask
<1>7. \A i : Closing(t, i)' <=> Closing(t, i)
  BY <1>6 DEF Closing, Closes, Ended
<1>8. Others(t) /\ TypedTasks' /\ active' \in BOOLEAN
  BY DEF After, IInv
<1>9. Moves(t) <=> Does(t, "Stop")
  BY <1>1 DEF Closes
<1>10. LifeInv'
  BY <1>6, <1>8, <1>9, LifeKept
<1> QED BY <1>6, <1>7, <1>8, <1>10, QuietStep

-----------------------------------------------------------------------------
(* From step to step of the operation.                                     *)

LEMMA Paths ==
  ASSUME NEW t \in Tasks, Closes(t), Kind(t) \in Closables
  PROVE  Path(t) = IF Does(t, "Stop")
                   THEN IF Kind(t) = "Service" THEN StopService
                        ELSE IF Kind(t) = "Component" THEN StopComponent ELSE StopActor
                   ELSE IF Kind(t) = "Service" THEN UninstallService
                        ELSE IF Kind(t) = "Component" THEN UninstallComponent ELSE UninstallActor
<1>1. Does(t, "Stop") => Op(t).do = "Stop"
  BY DEF Does
<1>2. ~Does(t, "Stop") => Op(t).do = "Uninstall"
  BY DEF Does, Closes
<1> QED BY <1>1, <1>2 DEF Path, Closables

LEMMA NextOnPath ==
  ASSUME NEW t \in Tasks, NEW q, Path(t) = q, NEW p, NEW k \in DOMAIN q, q[k] = p,
         \A j \in DOMAIN q : q[j] = p => j = k, Proceed(t, p)
  PROVE  IF q[1 + k] = "OnStop" THEN RunHook(t, cur[t], "OnStop")
         ELSE pc' = Set(pc, t, q[1 + k]) /\ UNCHANGED <<cur, hook>>
<1>1. k = CHOOSE j \in DOMAIN q : q[j] = p
  OBVIOUS
<1> QED BY <1>1 DEF Proceed

\* The table of the steps behind a step.
Behind(d, k, p) ==
  CASE p = "drain" -> IF d = "Stop" THEN "settle" ELSE "erase"
    [] p = "erase" -> IF d = "Stop" THEN "uninstall" ELSE "settle"
    [] p = "unborrow" -> "settle"
    [] p = "OnStop" -> IF d = "Stop" /\ k = "Service" THEN "erase" ELSE "uninstall"

LEMMA Proceeds ==
  ASSUME IInv, NEW t \in Tasks, Closes(t), NEW p, Proceed(t, p),
         UNCHANGED <<prog, todo, wait>>, cur[t] \in Nat,
         \/ Kind(t) = "Service" /\ p \in {"drain", "erase", "OnStop"}
         \/ Kind(t) = "Component" /\ p \in {"unborrow", "OnStop"}
  PROVE  After(t, prog[t], Behind(Op(t).do, Kind(t), p), cur[t], todo[t], wait[t])
<1>1. /\ Does(t, "Stop") => Op(t).do = "Stop"
      /\ ~Does(t, "Stop") => Op(t).do = "Uninstall"
  BY DEF Does, Closes
<1>2. ASSUME NEW n, Behind(Op(t).do, Kind(t), p) = n, pc' = Set(pc, t, n), UNCHANGED cur
      PROVE  After(t, prog[t], n, cur[t], todo[t], wait[t])
  BY <1>2, Moved
<1>3. ASSUME RunHook(t, cur[t], "OnStop")
      PROVE  After(t, prog[t], "settle", cur[t], todo[t], wait[t])
  BY <1>3, Moved DEF RunHook
<1>4. CASE Does(t, "Stop") /\ Kind(t) = "Service"
  <2> DEFINE q == StopService
  <2>1. Path(t) = q
    BY <1>4, Paths DEF Closables
  <2>2. DOMAIN q = 1..6 /\ q[2] = "drain" /\ q[3] = "OnStop" /\ q[4] = "erase" /\ q[5] = "uninstall"
        /\ q[1] = "gather" /\ q[6] = "remove"
    BY DEF StopService
  <2> HIDE DEF q
  <2>3. CASE p = "drain"
    <3>1. RunHook(t, cur[t], "OnStop")
      BY <2>1, <2>2, <2>3, NextOnPath
    <3> QED BY <1>1, <1>3, <1>4, <2>3, <3>1 DEF Behind
  <2>4. CASE p = "erase"
    <3>1. pc' = Set(pc, t, "uninstall") /\ UNCHANGED cur
      BY <2>1, <2>2, <2>4, NextOnPath
    <3>2. Behind(Op(t).do, Kind(t), p) = "uninstall"
      BY <1>1, <1>4, <2>4 DEF Behind
    <3> QED BY <1>2, <3>1, <3>2
  <2>5. CASE p = "OnStop"
    <3>1. pc' = Set(pc, t, "erase") /\ UNCHANGED cur
      BY <2>1, <2>2, <2>5, NextOnPath
    <3>2. Behind(Op(t).do, Kind(t), p) = "erase"
      BY <1>1, <1>4, <2>5 DEF Behind
    <3> QED BY <1>2, <3>1, <3>2
  <2> QED BY <1>4, <2>3, <2>4, <2>5
<1>5. CASE Kind(t) = "Component"
  <2> DEFINE q == StopComponent
  <2>1. Path(t) = q
    BY <1>5, Paths DEF Closables, StopComponent, UninstallComponent
  <2>2. DOMAIN q = 1..4 /\ q[1] = "unborrow" /\ q[2] = "OnStop" /\ q[3] = "uninstall"
        /\ q[4] = "remove"
    BY DEF StopComponent
  <2> HIDE DEF q
  <2>3. CASE p = "unborrow"
    <3>1. RunHook(t, cur[t], "OnStop")
      BY <2>1, <2>2, <2>3, NextOnPath
    <3> QED BY <1>1, <1>3, <1>5, <2>3, <3>1 DEF Behind
  <2>4. CASE p = "OnStop"
    <3>1. pc' = Set(pc, t, "uninstall") /\ UNCHANGED cur
      BY <2>1, <2>2, <2>4, NextOnPath
    <3>2. Behind(Op(t).do, Kind(t), p) = "uninstall"
      BY <1>1, <1>5, <2>4 DEF Behind
    <3> QED BY <1>2, <3>1, <3>2
  <2> QED BY <1>5, <2>3, <2>4
<1>6. CASE ~Does(t, "Stop") /\ Kind(t) = "Service"
  <2> DEFINE q == UninstallService
  <2>1. Path(t) = q
    BY <1>6, Paths DEF Closables
  <2>2. DOMAIN q = 1..6 /\ q[2] = "drain" /\ q[3] = "erase" /\ q[4] = "OnStop" /\ q[5] = "uninstall"
        /\ q[1] = "retire" /\ q[6] = "remove"
    BY DEF UninstallService
  <2> HIDE DEF q
  <2>3. CASE p = "drain"
    <3>1. pc' = Set(pc, t, "erase") /\ UNCHANGED cur
      BY <2>1, <2>2, <2>3, NextOnPath
    <3>2. Behind(Op(t).do, Kind(t), p) = "erase"
      BY <1>1, <1>6, <2>3 DEF Behind
    <3> QED BY <1>2, <3>1, <3>2
  <2>4. CASE p = "erase"
    <3>1. RunHook(t, cur[t], "OnStop")
      BY <2>1, <2>2, <2>4, NextOnPath
    <3> QED BY <1>1, <1>3, <1>6, <2>4, <3>1 DEF Behind
  <2>5. CASE p = "OnStop"
    <3>1. pc' = Set(pc, t, "uninstall") /\ UNCHANGED cur
      BY <2>1, <2>2, <2>5, NextOnPath
    <3>2. Behind(Op(t).do, Kind(t), p) = "uninstall"
      BY <1>1, <1>6, <2>5 DEF Behind
    <3> QED BY <1>2, <3>1, <3>2
  <2> QED BY <1>6, <2>3, <2>4, <2>5
<1> QED BY <1>4, <1>5, <1>6

\* Where an operation is that works on bindings or borrows.
LEMMA CloserPlace ==
  ASSUME IInv, NEW t \in Tasks,
         pc[t] \in {"gather", "retire", "drain", "erase", "unborrow", "uninstall", "remove",
                    "abort", "removeType"} \cup Ended
  PROVE  /\ Closes(t) /\ pc[t] \notin {"idle", "snapshot", "next"}
         /\ pc[t] = "gather" => Does(t, "Stop") /\ Kind(t) = "Service"
         /\ pc[t] = "retire" => Does(t, "Uninstall") /\ Kind(t) = "Service"
         /\ pc[t] \in {"drain", "erase"} => Kind(t) = "Service"
         /\ pc[t] = "unborrow" => Kind(t) = "Component"
         /\ pc[t] = "removeType" => Does(t, "Uninstall") /\ Kind(t) = "Actor"
         /\ pc[t] \in {"uninstall", "abort"} => Kind(t) \in {"Service", "Component"}
<1>1. pc[t] # "idle" /\ ~Listing(t) /\ pc[t] \notin {"idle", "snapshot", "next"}
  BY DEF Listing, Ended
<1>2. Place(Op(t).do, Kind(t), pc[t]) /\ prog[t] # <<>>
  BY <1>1, CallPlace
<1>3. Op(t).do \in {"Stop", "Uninstall"} => Closes(t)
  BY <1>2 DEF Closes, Does
<1> QED BY <1>1, <1>2, <1>3 DEF Place, HookPcs, ClosingPcs, Ended, Does

\* What a service being closed can say of its edges.
LEMMA ServiceEdges ==
  ASSUME IInv, NEW t \in Tasks, Closes(t), Kind(t) = "Service",
         pc[t] \notin {"idle", "snapshot", "next"} \cup Ended
  PROVE  /\ pc[t] \notin {"retire", "abort"} => \A e \in edges : e.subj = cur[t] => e.retiring
         /\ pc[t] = "drain" => \A e \in edges : e.subj = cur[t] => e.gen \in wait[t]
         /\ pc[t] \in DrainedPlaces(t) => \A e \in edges : e.subj = cur[t] => e.borrows = 0
         /\ pc[t] \in ErasedPlaces(t) => \A e \in edges : e.subj # cur[t]
<1>1. Works(t)
  BY CloserKnown DEF Ended
<1> QED BY <1>1 DEF IInv, TaskInv, EdgesInv, EdgesOf

LEMMA GatherEdgesKeeps ==
  ASSUME IInv, NEW t \in Tasks, GatherEdges(t)
  PROVE  IInv'
<1>1. /\ SoundData /\ active' = active /\ pc[t] = "gather" /\ UNCHANGED edges
  BY NoData DEF GatherEdges, AppRest, state, Goto, At, regVars, registry
<1>2. Closes(t) /\ Does(t, "Stop") /\ Kind(t) = "Service"
  BY <1>1, CloserPlace
<1>3. cur[t] \in Nat /\ \A e \in edges : e.subj = cur[t] => e.retiring
  BY <1>1, <1>2, ServiceEdges DEF IInv, TypedTasks, Ended
<1> DEFINE w == {e.gen : e \in {x \in EdgesOf(cur[t]) : x.retiring}}
<1>4. \A e \in edges : e.subj = cur[t] => e.gen \in w
  BY <1>3 DEF EdgesOf
<1>5. After(t, prog[t], "drain", cur[t], todo[t], w)
  BY <1>3, Moved DEF GatherEdges, Goto, Set
<1>6. Place(Op(t).do, Kind(t), "drain")
  BY <1>2 DEF Place, Does
<1>7. "drain" \notin DrainedPlaces(t) /\ "drain" \notin ErasedPlaces(t) /\ "drain" \notin Ended
      /\ pc[t] \notin Ended
  BY <1>1 DEF DrainedPlaces, ErasedPlaces, Ended, HookPcs
<1> HIDE DEF w
<1> QED BY <1>1, <1>2, <1>3, <1>4, <1>5, <1>6, <1>7, CloserGoesOn

LEMMA RetireEdgesKeeps ==
  ASSUME IInv, NEW t \in Tasks, RetireEdges(t)
  PROVE  IInv'
<1>1. /\ active' = active /\ pc[t] = "retire" /\ edges' = Retire(EdgesOf(cur[t]))
      /\ UNCHANGED <<reg, nextId, nextGen, issued, leases, watching, callback>>
  BY DEF RetireEdges, AppRest, state, Goto, At
<1>2. Closes(t) /\ Does(t, "Uninstall") /\ Kind(t) = "Service"
  BY <1>1, CloserPlace
<1>3. SameObjects /\ OldObjects /\ TypedReg'
  BY <1>1, SameIsOld DEF SameObjects, IInv, TypedReg, Ids
<1>4. /\ GoodData
      /\ \A f \in edges' : \E e \in edges :
           OldEdge(e, f) /\ f.borrows = e.borrows /\ (e \in EdgesOf(cur[t]) => f.retiring)
  BY <1>1, <1>3, RetireData
<1> DEFINE w == {e.gen : e \in EdgesOf(cur[t])}
<1>5. ASSUME NEW f \in edges'
      PROVE  /\ \E e \in edges : f.comp = e.comp
             /\ f.subj = cur[t] => f.retiring /\ f.gen \in w
  <2>1. PICK e \in edges : OldEdge(e, f) /\ (e \in EdgesOf(cur[t]) => f.retiring)
    BY <1>4
  <2> QED BY <2>1 DEF OldEdge, EdgesOf
<1>6. cur[t] \in Nat
  BY DEF IInv, TypedTasks
<1>7. After(t, prog[t], "drain", cur[t], todo[t], w)
  BY <1>6, Moved DEF RetireEdges, Goto, Set
<1>8. Place(Op(t).do, Kind(t), "drain")
  BY <1>2 DEF Place, Does
<1>9. "drain" \notin DrainedPlaces(t) /\ "drain" \notin ErasedPlaces(t) /\ "drain" \notin Ended
      /\ pc[t] \notin Ended
  BY <1>1 DEF DrainedPlaces, ErasedPlaces, Ended, HookPcs
<1>10. SoundData
  BY <1>3, <1>4 DEF SoundData
<1> HIDE DEF w
<1> QED BY <1>1, <1>2, <1>5, <1>7, <1>8, <1>9, <1>10, CloserGoesOn


LEMMA EdgesDrainedKeeps ==
  ASSUME IInv, NEW t \in Tasks, EdgesDrained(t)
  PROVE  IInv'
<1>1. /\ SoundData /\ active' = active /\ pc[t] = "drain" /\ UNCHANGED edges /\ Drained(wait[t])
  BY NoData DEF EdgesDrained, AppRest, state, At, regVars, registry
<1>2. Closes(t) /\ Kind(t) = "Service" /\ cur[t] \in Nat
  BY <1>1, CloserPlace DEF IInv, TypedTasks
<1>3. \A e \in edges : e.subj = cur[t] => e.retiring /\ e.borrows = 0
  BY <1>1, <1>2, ServiceEdges DEF Ended, Drained
<1>4. PICK p : p = Behind(Op(t).do, Kind(t), "drain")
  OBVIOUS
<1>5. After(t, prog[t], p, cur[t], todo[t], wait[t])
  BY <1>1, <1>2, <1>4, Proceeds DEF EdgesDrained
<1>6. IF Does(t, "Stop") THEN p = "settle" ELSE p = "erase" /\ Does(t, "Uninstall")
  BY <1>2, <1>4 DEF Behind, Does, Closes
<1>7. Place(Op(t).do, Kind(t), p) /\ p \notin {"idle", "snapshot", "next", "unbind", "unbound"}
  BY <1>2, <1>6 DEF Place, Does, ClosingPcs, HookPcs
<1>8. p \notin ErasedPlaces(t) /\ p \notin Ended /\ pc[t] \notin Ended /\ p # "drain"
  BY <1>1, <1>6 DEF ErasedPlaces, Ended, HookPcs
<1> QED BY <1>1, <1>2, <1>3, <1>5, <1>7, <1>8, CloserGoesOn

LEMMA EraseEdgesKeeps ==
  ASSUME IInv, NEW t \in Tasks, EraseEdges(t)
  PROVE  IInv'
<1>1. /\ active' = active /\ pc[t] = "erase"
      /\ edges' = edges \ {e \in EdgesOf(cur[t]) : e.retiring}
      /\ UNCHANGED <<reg, nextId, nextGen, issued, leases, watching, callback, prog, todo, wait>>
      /\ Proceed(t, "erase")
  BY DEF EraseEdges, EraseSubjectBindings, AppRest, state, At
<1>2. Closes(t) /\ Kind(t) = "Service" /\ cur[t] \in Nat
  BY <1>1, CloserPlace DEF IInv, TypedTasks
<1>3. \A e \in edges : e.subj = cur[t] => e.retiring /\ e.borrows = 0
  BY <1>1, <1>2, ServiceEdges DEF Ended, DrainedPlaces
<1>4. edges' \subseteq edges /\ \A e \in edges' : e.subj # cur[t]
  BY <1>1, <1>3 DEF EdgesOf
<1>5. \A e \in edges \ edges' : e.borrows = 0
  BY <1>1, <1>3 DEF EdgesOf
<1>6. SameObjects /\ TypedReg'
  BY <1>1 DEF SameObjects, IInv, TypedReg, Ids
<1>7. SoundData
  BY <1>1, <1>4, <1>5, <1>6, FewerEdges
<1>8. PICK p : p = Behind(Op(t).do, Kind(t), "erase")
  OBVIOUS
<1>9. After(t, prog[t], p, cur[t], todo[t], wait[t])
  BY <1>1, <1>2, <1>8, Proceeds
<1>10. IF Does(t, "Stop") THEN p = "uninstall" ELSE p = "settle" /\ Does(t, "Uninstall")
  BY <1>2, <1>8 DEF Behind, Does, Closes
<1>11. Place(Op(t).do, Kind(t), p) /\ p \notin {"idle", "snapshot", "next", "unbind", "unbound"}
  BY <1>2, <1>10 DEF Place, Does, ClosingPcs, HookPcs
<1>12. p \notin Ended /\ pc[t] \notin Ended /\ p # "drain"
  BY <1>1, <1>10 DEF Ended
<1> QED BY <1>1, <1>2, <1>4, <1>7, <1>9, <1>11, <1>12, CloserGoesOn

LEMMA ComponentDrainedKeeps ==
  ASSUME IInv, NEW t \in Tasks, ComponentDrained(t)
  PROVE  IInv'
<1>1. SoundData /\ active' = active /\ pc[t] = "unborrow" /\ UNCHANGED edges
  BY NoData DEF ComponentDrained, AppRest, state, At, regVars, registry
<1>2. Closes(t) /\ Kind(t) = "Component" /\ cur[t] \in Nat
  BY <1>1, CloserPlace DEF IInv, TypedTasks
<1>3. Behind(Op(t).do, Kind(t), "unborrow") = "settle"
  BY DEF Behind
<1>4. After(t, prog[t], "settle", cur[t], todo[t], wait[t])
  BY <1>1, <1>2, <1>3, Proceeds DEF ComponentDrained
<1>5. Place(Op(t).do, Kind(t), "settle") /\ "settle" \notin Ended /\ pc[t] \notin Ended
  BY <1>1, <1>2 DEF Place, Does, ClosingPcs, HookPcs, Ended, Closes
<1> QED BY <1>1, <1>2, <1>4, <1>5, CloserGoesOn

\* An operation that gave up, or whose wait was too long.
LEMMA AbortGoesOn ==
  ASSUME IInv, NEW t \in Tasks, Closes(t), Kind(t) \in {"Service", "Component"},
         UNCHANGED regVars, active' = active, Go(t, "abort"),
         pc[t] \notin {"idle", "snapshot", "next"} \cup Ended
  PROVE  IInv'
<1>1. SoundData /\ UNCHANGED edges /\ cur[t] \in Nat
  BY NoData DEF regVars, registry, IInv, TypedTasks
<1>2. After(t, prog[t], "abort", cur[t], todo[t], wait[t])
  BY <1>1, Moved DEF Go, Keep
<1>3. Place(Op(t).do, Kind(t), "abort")
  BY DEF Place, Does, ClosingPcs, Closes
<1>4. "abort" \notin DrainedPlaces(t) /\ "abort" \notin ErasedPlaces(t) /\ "abort" \notin Ended
  BY DEF DrainedPlaces, ErasedPlaces, Ended, HookPcs
<1> QED BY <1>1, <1>2, <1>3, <1>4, CloserGoesOn

LEMMA HookPlace ==
  ASSUME IInv, NEW t \in Tasks, Closes(t), pc[t] \in HookPcs
  PROVE  Kind(t) \in {"Service", "Component"}
<1>1. pc[t] # "idle" /\ ~Listing(t)
  BY DEF Listing, HookPcs
<1>2. Place(Op(t).do, Kind(t), pc[t])
  BY <1>1, CallPlace
<1>3. Op(t).do \in {"Stop", "Uninstall"}
  BY DEF Closes, Does
<1> QED BY <1>2, <1>3 DEF Place, HookPcs, Transitions

LEMMA DrainLateKeeps ==
  ASSUME IInv, NEW t \in Tasks, DrainLate(t)
  PROVE  IInv'
<1>1. /\ pc[t] \in {"drain", "unborrow"} /\ Go(t, "abort") /\ UNCHANGED regVars /\ active' = active
  BY DEF DrainLate, At, AppRest, state
<1>2. Closes(t) /\ Kind(t) \in {"Service", "Component"}
  BY <1>1, CloserPlace
<1> QED BY <1>1, <1>2, AbortGoesOn DEF Ended

LEMMA OnStopFailedKeeps ==
  ASSUME IInv, NEW t \in Tasks, OnStopFailed(t)
  PROVE  IInv'
<1>1. /\ pc[t] \in HookPcs /\ Go(t, "abort") /\ UNCHANGED regVars /\ active' = active /\ Closes(t)
  BY DEF OnStopFailed, Succeeded, HookFailed, HookPcs, AppRest, state, Closes
<1>2. Kind(t) \in {"Service", "Component"}
  BY <1>1, HookPlace
<1>3. pc[t] \notin {"idle", "snapshot", "next"} \cup Ended
  BY <1>1 DEF HookPcs, Ended
<1> QED BY <1>1, <1>2, <1>3, AbortGoesOn

LEMMA OnStopDoneKeeps ==
  ASSUME IInv, NEW t \in Tasks, OnStopDone(t)
  PROVE  IInv'
<1>1. /\ SoundData /\ active' = active /\ pc[t] \in HookPcs /\ UNCHANGED <<edges, prog, todo, wait>>
      /\ Closes(t) /\ cur[t] \in Nat /\ Proceed(t, "OnStop")
  BY NoData DEF OnStopDone, AppRest, state, Succeeded, HookPcs, regVars, registry, Closes,
    IInv, TypedTasks
<1>2. Kind(t) \in {"Service", "Component"}
  BY <1>1, HookPlace
<1>3. PICK p : p = Behind(Op(t).do, Kind(t), "OnStop")
  OBVIOUS
<1>4. After(t, prog[t], p, cur[t], todo[t], wait[t])
  BY <1>1, <1>2, <1>3, Proceeds
<1>5. Does(t, "Stop") <=> Op(t).do = "Stop"
  BY <1>1 DEF Does, Closes
<1>6. p = IF Does(t, "Stop") /\ Kind(t) = "Service" THEN "erase" ELSE "uninstall"
  BY <1>3, <1>5 DEF Behind
<1>7. Place(Op(t).do, Kind(t), p) /\ p \notin {"idle", "snapshot", "next", "unbind", "unbound"}
  BY <1>1, <1>2, <1>6 DEF Place, Does, ClosingPcs, Closes
<1>8. p \notin Ended /\ pc[t] \notin Ended /\ p # "drain" /\ pc[t] \notin {"idle", "snapshot", "next"}
      /\ pc[t] \notin {"retire", "abort"}
  BY <1>1, <1>6 DEF Ended, HookPcs
<1>9. ASSUME Kind(t) = "Service"
      PROVE  /\ \A e \in edges : e.subj = cur[t] => e.retiring
             /\ p \in DrainedPlaces(t) => \A e \in edges : e.subj = cur[t] => e.borrows = 0
             /\ p \in ErasedPlaces(t) => \A e \in edges : e.subj # cur[t]
  <2>1. Does(t, "Stop") => pc[t] \in DrainedPlaces(t)
    BY <1>1 DEF DrainedPlaces
  <2>2. ~Does(t, "Stop") => pc[t] \in ErasedPlaces(t)
    BY <1>1 DEF ErasedPlaces
  <2>3. IF Does(t, "Stop") THEN p \notin ErasedPlaces(t) ELSE p \notin DrainedPlaces(t)
    BY <1>6, <1>9 DEF DrainedPlaces, ErasedPlaces, HookPcs
  <2> QED BY <1>1, <1>8, <1>9, <2>1, <2>2, <2>3, ServiceEdges
<1> QED BY <1>1, <1>4, <1>7, <1>8, <1>9, CloserGoesOn

LEMMA OnUninstallKeeps ==
  ASSUME IInv, NEW t \in Tasks, ServiceOnUninstall(t) \/ ComponentOnUninstall(t)
  PROVE  IInv'
<1>1. /\ SoundData /\ active' = active /\ pc[t] = "uninstall" /\ UNCHANGED edges
      /\ cur[t] \in Nat
  BY NoData DEF ServiceOnUninstall, ComponentOnUninstall, AppRest, state, Goto, At, regVars,
    registry, IInv, TypedTasks
<1>2. Closes(t) /\ Kind(t) \in {"Service", "Component"}
  BY <1>1, CloserPlace
<1>3. After(t, prog[t], "remove", cur[t], todo[t], wait[t])
  BY <1>1, Moved DEF ServiceOnUninstall, ComponentOnUninstall, Goto, Keep, Set
<1>4. Place(Op(t).do, Kind(t), "remove") /\ "remove" \notin Ended /\ pc[t] \notin Ended
  BY <1>1, <1>2 DEF Place, Does, ClosingPcs, Ended, Closes
<1>5. Kind(t) = "Service" => /\ \A e \in edges : e.subj = cur[t] => e.retiring
                             /\ \A e \in edges : e.subj # cur[t]
  <2>1. "uninstall" \in ErasedPlaces(t)
    BY DEF ErasedPlaces
  <2> QED BY <1>1, <1>2, <1>4, <2>1, ServiceEdges
<1>6. "remove" \notin DrainedPlaces(t)
  BY DEF DrainedPlaces, HookPcs
<1> QED BY <1>1, <1>2, <1>3, <1>4, <1>5, <1>6, CloserGoesOn

LEMMA SweepKeeps ==
  ASSUME IInv, NEW t \in Tasks, ScanObservers(t) \/ ObserversDone(t)
  PROVE  IInv'
<1>1. SoundData
  <2>1. CASE ScanObservers(t)
    BY <2>1, EraseData DEF ScanObservers
  <2>2. CASE ObserversDone(t)
    BY <2>2, NoData DEF ObserversDone
  <2> QED BY <2>1, <2>2
<1>2. /\ active' = active /\ pc[t] \in Ended /\ UNCHANGED edges /\ cur[t] \in Nat
      /\ (Go(t, "sweep") \/ Go(t, "swept"))
  BY DEF ScanObservers, ObserversDone, AppRest, state, At, regVars, registry, IInv, TypedTasks,
    Ended
<1>3. Closes(t) /\ pc[t] \notin {"idle", "snapshot", "next"}
  BY <1>2, CloserPlace
<1>4. PICK p \in {"sweep", "swept"} : Go(t, p)
  BY <1>2
<1>5. After(t, prog[t], p, cur[t], todo[t], wait[t])
  BY <1>2, <1>4, Moved DEF Go, Keep
<1>6. Place(Op(t).do, Kind(t), pc[t])
  BY <1>3, CloserKnown
<1>7. Place(Op(t).do, Kind(t), p) /\ p \in Ended
  BY <1>2, <1>3, <1>6 DEF Place, ClosingPcs, Ended, HookPcs, Closes, Does
<1>8. p \notin {"idle", "snapshot", "next", "unbind", "unbound"}
  OBVIOUS
<1> QED BY <1>1, <1>2, <1>3, <1>5, <1>7, <1>8, CloserGoesOn

-----------------------------------------------------------------------------
(* An object is taken, kept after all, or removed.                         *)

\* The flags of one entry are set, never the gate opened.
LEMMA FlagsData ==
  ASSUME IInv, NEW i \in Ids, NEW g \in BOOLEAN, NEW o \in BOOLEAN, NEW p \in BOOLEAN,
         NEW s \in States, reg[i].gate => g,
         reg' = [reg EXCEPT ![i].gate = g, ![i].op = o, ![i].phase = p, ![i].state = s],
         nextId' = nextId
  PROVE  /\ OldObjects /\ TypedReg' /\ Ids' = Ids /\ reg'[i].op = o /\ reg'[i].gate = g
         /\ \A j \in Ids : j # i => reg'[j].op = reg[j].op
<1>1. TypedReg
  BY DEF IInv
<1>2. Ids' = Ids /\ reg' \in [Ids -> Entries]
  BY <1>1 DEF TypedReg, Ids, Entries
<1>3. /\ reg'[i].kind = reg[i].kind /\ reg'[i].op = o /\ reg'[i].gate = g
      /\ \A j \in Ids : j # i => reg'[j] = reg[j]
  BY <1>1 DEF TypedReg, Entries
<1>4. /\ \A j \in Ids : reg'[j].kind = reg[j].kind /\ (reg[j].gate => reg'[j].gate)
      /\ \A j \in Ids : j # i => reg'[j].op = reg[j].op
  BY <1>3
<1> QED BY <1>1, <1>2, <1>3, <1>4 DEF OldObjects, TypedReg

\* A Stop marks the object it takes, and leaves its gate as it is.
LEMMA StoppingData ==
  ASSUME IInv, NEW i \in Ids, reg' = StoppingNow(i), nextId' = nextId
  PROVE  /\ OldObjects /\ TypedReg' /\ Ids' = Ids /\ reg'[i].op = TRUE
         /\ \A j \in Ids : j # i => reg'[j].op = reg[j].op
<1>1. TypedReg
  BY DEF IInv
<1>2. PICK g : g = reg[i].gate
  OBVIOUS
<1>3. g \in BOOLEAN /\ (reg[i].gate => g)
  BY <1>1, <1>2 DEF TypedReg, Entries
<1>4. reg' = [reg EXCEPT ![i].gate = g, ![i].op = TRUE, ![i].phase = TRUE,
                         ![i].state = "Stopping"]
  BY <1>1, <1>2 DEF StoppingNow, TypedReg, Entries
<1>5. "Stopping" \in States /\ TRUE \in BOOLEAN
  BY DEF States
<1> QED BY ONLY IInv, i \in Ids, nextId' = nextId, <1>3, <1>4, <1>5, FlagsData

\* A Stop takes its next object.
LEMMA StopTakes ==
  ASSUME IInv, NEW t \in Tasks, Does(t, "Stop"), pc[t] = "next", todo[t] # <<>>,
         NEW i, i = Head(todo[t]).id, i \in Ids, ~reg[i].op,
         NEW p, After(t, prog[t], p, i, todo[t], wait[t]),
         \/ Kind(t) = "Service" /\ p = "gather"
         \/ Kind(t) = "Component" /\ p = "unborrow",
         GoodData, OldObjects, Ids' = Ids, reg'[i].op = TRUE,
         \A j \in Ids : j # i => reg'[j].op = reg[j].op,
         Kind(t) = "Service" => \A f \in edges' : f.subj = i => f.retiring, active' = active
  PROVE  IInv'
<1>1. /\ Known(i, Kind(t)) /\ i \in Nat /\ prog[t] # <<>> /\ Op(t).do = "Stop" /\ Moves(t)
      /\ ~Does(t, "Uninstall") /\ ObjectsOnward /\ EdgesOnward
  BY FirstListed, StopList DEF Does, GoodData
<1>2. Place(Op(t).do, Kind(t), p) /\ p \notin Ended
      /\ p \notin {"idle", "snapshot", "next", "unbind", "unbound"}
  BY <1>1 DEF Place, ClosingPcs, Ended
<1>3. Known(i, Kind(t))'
  <2>1. PICK k : k = Kind(t)
    OBVIOUS
  <2>2. Kind(t)' = k
    BY <2>1 DEF After, Kind, Does, Op
  <2>3. Known(i, k)'
    BY <1>1, <2>1 DEF Known, OldObjects
  <2> QED BY <2>2, <2>3
<1>4. p \notin DrainedPlaces(t) /\ p \notin ErasedPlaces(t) /\ p # "drain"
  BY DEF DrainedPlaces, ErasedPlaces, HookPcs
<1>5. /\ TaskInv(t)' /\ (Moves(t)' <=> Does(t, "Stop"))
      /\ \A j : Closing(t, j)' <=> /\ i = j /\ p \notin Ended
                                   /\ Kind(t) = "Actor" => Does(t, "Uninstall")
  <2>1. Closes(t) /\ i \in Nat /\ prog[t] # <<>>
    BY <1>1 DEF Closes
  <2>2. Does(t, "Stop") => /\ pc[t] \notin {"idle", "snapshot"} /\ todo[t] # <<>>
                           /\ i = Head(todo[t]).id
    OBVIOUS
  <2>3. p \notin Ended /\ Kind(t) # "Actor" => i \in Ids'
    OBVIOUS
  <2>4. p \notin Ended /\ Kind(t) = "Service" =>
          /\ p \notin {"retire", "abort"} => \A e \in edges' : e.subj = i => e.retiring
          /\ p = "drain" => \A e \in edges' : e.subj = i => e.gen \in wait[t]
          /\ p \in DrainedPlaces(t) => \A e \in edges' : e.subj = i => e.borrows = 0
          /\ p \in ErasedPlaces(t) => \A e \in edges' : e.subj # i
    BY <1>4
  <2>5. p \notin Ended /\ Does(t, "Uninstall") /\ Kind(t) = "Component" =>
          reg'[i].gate /\ \A e \in edges' : e.comp # i
    BY <1>1
  <2> QED BY ONLY IInv, t \in Tasks, After(t, prog[t], p, i, todo[t], wait[t]), <1>1, <1>2, <1>3,
             <2>1, <2>2, <2>3, <2>4, <2>5, CloserTask
<1>6. \A j \in Ids : Closing(t, j)' <=> j = i
  BY <1>2, <1>5
<1>7. \A j \in Ids : ~Closing(t, j)
  BY DEF Closing
<1>8. Others(t) /\ TypedTasks' /\ active' \in BOOLEAN
  BY DEF After, IInv
<1>9. OpInv'
  BY <1>6, <1>7, <1>8, OpTaken
<1>10. LifeInv'
  BY <1>1, <1>5, <1>8, LifeKept
<1> QED BY <1>1, <1>5, <1>8, <1>9, <1>10, Assembled DEF GoodData

LEMMA InLineKnown ==
  ASSUME IInv, NEW t \in Tasks, NEW k, InLine(t, k)
  PROVE  /\ Does(t, "Stop") /\ pc[t] = "next" /\ todo[t] # <<>> /\ Kind(t) = k
         /\ Head(todo[t]).id \in Nat /\ Known(Head(todo[t]).id, k)
<1>1. Does(t, "Stop") /\ pc[t] = "next" /\ todo[t] # <<>> /\ Head(todo[t]).kind = k
  BY DEF InLine, At
<1> QED BY <1>1, FirstListed

LEMMA DestroyServiceKeeps ==
  ASSUME IInv, NEW t \in Tasks, DestroyService(t)
  PROVE  IInv'
<1>1. PICK i : i = Head(todo[t]).id
  OBVIOUS
<1>2. /\ InLine(t, "Service") /\ i \in Ids /\ ~reg[i].op /\ reg' = StoppingNow(i)
      /\ edges' = Retire(EdgesOf(i)) /\ ToClose(t) /\ active' = active
      /\ UNCHANGED <<nextId, nextGen, issued, leases, watching, callback>>
  BY <1>1 DEF DestroyService, Stoppable, Announce, AppRest, state
<1>3. /\ Does(t, "Stop") /\ pc[t] = "next" /\ todo[t] # <<>> /\ Kind(t) = "Service" /\ i \in Nat
  BY <1>1, <1>2, InLineKnown
<1>4. /\ OldObjects /\ TypedReg' /\ Ids' = Ids /\ reg'[i].op = TRUE
      /\ \A j \in Ids : j # i => reg'[j].op = reg[j].op
  BY <1>2, StoppingData
<1>5. /\ GoodData
      /\ \A f \in edges' : \E e \in edges : OldEdge(e, f) /\ (e \in EdgesOf(i) => f.retiring)
  BY <1>2, <1>4, RetireData
<1>6. \A f \in edges' : f.subj = i => f.retiring
  BY <1>5 DEF OldEdge, EdgesOf
<1>7. Head(Path(t)) = "gather"
  BY <1>3, Paths DEF Closes, Closables, StopService
<1>8. After(t, prog[t], "gather", i, todo[t], wait[t])
  BY <1>1, <1>2, <1>3, <1>7, Moved DEF ToClose
<1>9. PICK p : p = "gather"
  OBVIOUS
<1>10. After(t, prog[t], p, i, todo[t], wait[t])
  BY <1>8, <1>9
<1>11. \/ Kind(t) = "Service" /\ p = "gather"
       \/ Kind(t) = "Component" /\ p = "unborrow"
  BY <1>3, <1>9
<1>12. Kind(t) = "Service" => \A f \in edges' : f.subj = i => f.retiring
  BY <1>6
<1>13. GoodData /\ ~reg[i].op /\ i \in Ids /\ active' = active
  BY <1>2, <1>5
<1>14. Does(t, "Stop") /\ pc[t] = "next" /\ todo[t] # <<>>
  BY <1>3
<1> QED BY ONLY IInv, t \in Tasks, <1>1, <1>4, <1>10, <1>11, <1>12, <1>13, <1>14, StopTakes

LEMMA DestroyComponentKeeps ==
  ASSUME IInv, NEW t \in Tasks, DestroyComponent(t)
  PROVE  IInv'
<1>1. PICK i : i = Head(todo[t]).id
  OBVIOUS
<1>2. /\ InLine(t, "Component") /\ i \in Ids /\ ~reg[i].op /\ reg' = StoppingNow(i)
      /\ ToClose(t) /\ active' = active
      /\ UNCHANGED <<nextId, edges, nextGen, issued, leases, watching, callback>>
  BY <1>1 DEF DestroyComponent, Stoppable, Announce, AppRest, state, RegistryRest
<1>3. /\ Does(t, "Stop") /\ pc[t] = "next" /\ todo[t] # <<>> /\ Kind(t) = "Component" /\ i \in Nat
  BY <1>1, <1>2, InLineKnown
<1>4. /\ OldObjects /\ TypedReg' /\ Ids' = Ids /\ reg'[i].op = TRUE
      /\ \A j \in Ids : j # i => reg'[j].op = reg[j].op
  BY <1>2, StoppingData
<1>5. TypedWatch' /\ WatchInv'
  BY <1>2, WatchKept
<1>6. GoodData
  BY <1>2, <1>4, <1>5, DataKept DEF GoodData, SameEdges
<1>7. Head(Path(t)) = "unborrow"
  BY <1>3, Paths DEF Closes, Closables, StopComponent
<1>8. After(t, prog[t], "unborrow", i, todo[t], wait[t])
  BY <1>1, <1>2, <1>3, <1>7, Moved DEF ToClose
<1>9. PICK p : p = "unborrow"
  OBVIOUS
<1>10. /\ After(t, prog[t], p, i, todo[t], wait[t])
       /\ \/ Kind(t) = "Service" /\ p = "gather"
          \/ Kind(t) = "Component" /\ p = "unborrow"
       /\ Kind(t) = "Service" => \A f \in edges' : f.subj = i => f.retiring
  BY <1>3, <1>8, <1>9
<1>11. GoodData /\ ~reg[i].op /\ i \in Ids /\ active' = active
  BY <1>2, <1>6
<1> QED BY ONLY IInv, t \in Tasks, <1>1, <1>3, <1>4, <1>10, <1>11, StopTakes

LEMMA DestroyActorKeeps ==
  ASSUME IInv, NEW t \in Tasks, DestroyActor(t)
  PROVE  IInv'
<1>1. PICK i : i = Head(todo[t]).id
  OBVIOUS
<1>2. InLine(t, "Actor") /\ ToClose(t) /\ active' = active /\ SoundData
  BY NoData DEF DestroyActor, AppRest, state
<1>3. /\ Does(t, "Stop") /\ pc[t] = "next" /\ todo[t] # <<>> /\ Kind(t) = "Actor" /\ i \in Nat
      /\ Known(i, "Actor")
  BY <1>1, <1>2, InLineKnown
<1>4. /\ prog[t] # <<>> /\ Op(t).do = "Stop" /\ Moves(t) /\ ~Does(t, "Uninstall")
  BY <1>3, StopList DEF Does
<1>5. Head(Path(t)) = "remove"
  BY <1>3, Paths DEF Closes, Closables, StopActor
<1>6. After(t, prog[t], "remove", i, todo[t], wait[t])
  BY <1>1, <1>2, <1>3, <1>5, Moved DEF ToClose
<1>7. Place(Op(t).do, Kind(t), "remove") /\ ObjectsOnward /\ SameObjects
  BY <1>2, <1>3, <1>4 DEF Place, SoundData, GoodData
<1>8. Known(i, Kind(t))'
  <2>1. Kind(t)' = "Actor"
    BY <1>3, <1>6 DEF After, Kind, Does, Op
  <2>2. Known(i, "Actor")'
    BY <1>3, <1>7 DEF Known, SameObjects
  <2> QED BY <2>1, <2>2
<1>9. /\ TaskInv(t)' /\ (Moves(t)' <=> Does(t, "Stop"))
      /\ \A j : Closing(t, j)' <=> /\ i = j /\ "remove" \notin Ended
                                   /\ Kind(t) = "Actor" => Does(t, "Uninstall")
  <2>1. Closes(t) /\ "remove" \notin {"idle", "snapshot", "next", "unbind", "unbound"}
    BY <1>3 DEF Closes
  <2>2. Does(t, "Stop") => /\ pc[t] \notin {"idle", "snapshot"} /\ todo[t] # <<>>
                           /\ i = Head(todo[t]).id
    BY <1>1, <1>3
  <2>3. Kind(t) # "Service" /\ Kind(t) # "Component" /\ ~(Kind(t) # "Actor")
    BY <1>3
  <2> QED BY ONLY IInv, t \in Tasks, <1>3, <1>4, <1>6, <1>7, <1>8, <2>1, <2>2, <2>3, CloserTask
<1>10. \A j : ~Closing(t, j)' /\ ~Closing(t, j)
  BY <1>3, <1>4, <1>9 DEF Closing
<1>11. Others(t) /\ TypedTasks' /\ active' \in BOOLEAN
  BY <1>2, <1>6 DEF After, IInv
<1>12. LifeInv'
  BY <1>2, <1>3, <1>4, <1>9, <1>11, LifeKept
<1> QED BY <1>2, <1>9, <1>10, <1>11, <1>12, QuietStep


LEMMA UninstallBeginsKeeps ==
  ASSUME IInv, NEW t \in Tasks, UninstallBegins(t)
  PROVE  IInv'
<1> DEFINE found == IF Op(t).kind = "Component"
                    THEN UNION {Placed(i, Op(t).name) : i \in Owners(Op(t))}
                    ELSE Named(Op(t).kind, Op(t).name)
<1>1. /\ Does(t, "Uninstall") /\ pc[t] = "idle" /\ prog[t] # <<>> /\ active' = active
      /\ ~Does(t, "Stop") /\ RegistryRest /\ cur[t] \in Nat
      /\ ~Moves(t) /\ \A i : ~Closing(t, i)
  BY DEF UninstallBegins, At, Does, AppRest, state, Moves, Closing, IInv, TypedTasks
<1>2. CASE Return(t) /\ UNCHANGED <<reg, deliver, callback>>
  <2>1. SoundData
    BY <1>1, <1>2, NoData DEF RegistryRest, regVars, registry
  <2>2. active' \in BOOLEAN
    BY <1>1 DEF IInv
  <2> QED BY <1>1, <1>2, <2>1, <2>2, ReturnStep
<1>3. ASSUME NEW i \in found, IsFree(i),
             reg' = [reg EXCEPT ![i].gate = TRUE, ![i].op = TRUE,
                                ![i].phase = reg[i].kind # "Actor", ![i].state = "Uninstalling"],
             Announce(t, i), cur' = Set(cur, t, i), pc' = Set(pc, t, Head(Path(t))),
             UNCHANGED <<prog, hook, todo, wait>>
      PROVE  IInv'
  <2>1. i \in Ids /\ reg[i].kind = Op(t).kind
    BY DEF Placed, Named, OfKind
  <2> HIDE DEF found
  <2>2. Op(t) \in Calls
    BY <1>1 DEF Op, IInv, TypedTasks
  <2>3. Kind(t) = Op(t).kind /\ Kind(t) \in Closables /\ Op(t).do = "Uninstall"
    BY <1>1, <2>2 DEF Calls, Closables, Kind, Does
  <2>4. /\ OldObjects /\ TypedReg' /\ Ids' = Ids /\ reg'[i].op = TRUE /\ reg'[i].gate = TRUE
        /\ \A j \in Ids : j # i => reg'[j].op = reg[j].op
    <3>1. PICK p \in BOOLEAN : p = (reg[i].kind # "Actor")
      OBVIOUS
    <3>2. reg' = [reg EXCEPT ![i].gate = TRUE, ![i].op = TRUE, ![i].phase = p,
                             ![i].state = "Uninstalling"]
      BY <1>3, <3>1
    <3>3. nextId' = nextId /\ "Uninstalling" \in States
      BY <1>1 DEF RegistryRest, States
    <3> QED BY <2>1, <3>2, <3>3, FlagsData
  <2>5. TypedWatch' /\ WatchInv'
    BY <1>1, <1>3, WatchKept DEF RegistryRest, watching, Announce
  <2>6. GoodData /\ ObjectsOnward /\ UNCHANGED edges
    BY <1>1, <2>4, <2>5, DataKept DEF GoodData, SameEdges, RegistryRest
  <2>7. PICK p : p = Head(Path(t))
    OBVIOUS
  <2>8. p = IF Kind(t) = "Service" THEN "retire"
            ELSE IF Kind(t) = "Component" THEN "unborrow" ELSE "removeType"
    BY <1>1, <2>3, <2>7, Paths DEF Closes, UninstallService, UninstallComponent, UninstallActor
  <2>9. i \in Nat /\ i < nextId
    BY <2>1 DEF IInv, TypedReg
  <2>10. After(t, prog[t], p, i, todo[t], wait[t])
    BY <1>3, <2>7, <2>9, Moved
  <2>11. Known(i, Kind(t))'
    <3>1. PICK k : k = Kind(t)
      OBVIOUS
    <3>2. Kind(t)' = k
      BY <2>10, <3>1 DEF After, Kind, Does, Op
    <3>3. Known(i, k)'
      BY <2>1, <2>3, <2>4, <2>9, <3>1 DEF Known, OldObjects
    <3> QED BY <3>2, <3>3
  <2>12. Place(Op(t).do, Kind(t), p) /\ p \notin Ended
         /\ p \notin {"idle", "snapshot", "next", "unbind", "unbound"}
    BY <2>3, <2>8 DEF Place, Ended, Closables
  <2>13. p \notin Ended /\ Kind(t) = "Service" =>
           /\ p \notin {"retire", "abort"} => \A e \in edges' : e.subj = i => e.retiring
           /\ p = "drain" => \A e \in edges' : e.subj = i => e.gen \in wait[t]
           /\ p \in DrainedPlaces(t) => \A e \in edges' : e.subj = i => e.borrows = 0
           /\ p \in ErasedPlaces(t) => \A e \in edges' : e.subj # i
    BY <2>8 DEF DrainedPlaces, ErasedPlaces, HookPcs
  <2>14. p \notin Ended /\ Does(t, "Uninstall") /\ Kind(t) = "Component" =>
           reg'[i].gate /\ \A e \in edges' : e.comp # i
    BY <1>3, <2>1, <2>3, <2>4, <2>6 DEF IsFree, EdgesTo
  <2>15. Closes(t) /\ (Kind(t) # "Actor" => i \in Ids')
    BY <1>1, <2>1, <2>4 DEF Closes
  <2>16. /\ TaskInv(t)' /\ (Moves(t)' <=> Does(t, "Stop"))
         /\ \A j : Closing(t, j)' <=> /\ i = j /\ p \notin Ended
                                      /\ Kind(t) = "Actor" => Does(t, "Uninstall")
    BY ONLY IInv, t \in Tasks, <1>1, <2>6, <2>9, <2>10, <2>11, <2>12, <2>13, <2>14, <2>15, CloserTask
  <2>17. \A j \in Ids : Closing(t, j)' <=> j = i
    BY <1>1, <2>12, <2>16
  <2>18. Others(t) /\ TypedTasks' /\ active' \in BOOLEAN
    BY <1>1, <2>10 DEF After, IInv
  <2>19. ~reg[i].op
    BY <1>3 DEF IsFree
  <2>20. OpInv'
    BY <1>1, <2>1, <2>4, <2>17, <2>18, <2>19, OpTaken
  <2>21. LifeInv'
    BY <1>1, <2>16, <2>18, LifeKept
  <2> QED BY <2>4, <2>6, <2>16, <2>18, <2>20, <2>21, Assembled DEF GoodData
<1> QED BY <1>2, <1>3 DEF UninstallBegins

\* The operation ends, in its own call or for the next object of a Stop.
LEMMA Finishes ==
  ASSUME IInv, NEW t \in Tasks, Closes(t), pc[t] \notin {"idle", "snapshot", "next"},
         ObjectsOnward, Finish(t), active' = active
  PROVE  /\ TaskInv(t)' /\ Others(t) /\ TypedTasks' /\ LifeInv'
         /\ \A i : ~Closing(t, i)'
<1>1. /\ prog[t] # <<>>
      /\ Does(t, "Stop") => Moves(t) /\ todo[t] # <<>>
      /\ Does(t, "Uninstall") => ~Moves(t) /\ ~Does(t, "Stop")
  BY CloserKnown
<1>2. CASE Does(t, "Stop")
  <2>1. /\ TaskInv(t)' /\ Moves(t)' /\ \A i : ~Closing(t, i)'
        /\ Others(t) /\ TypedTasks' /\ Moves(t)
    BY <1>1, <1>2, InTurnGoesOn DEF Finish
  <2>2. LifeInv'
    BY <2>1, LifeKept
  <2> QED BY <2>1, <2>2
<1>3. CASE ~Does(t, "Stop")
  <2>1. Return(t) /\ ~Moves(t)
    BY <1>1, <1>3 DEF Finish, Closes
  <2>2. Others(t) /\ TypedTasks' /\ pc'[t] = "idle"
    BY <1>1, <2>1, Returned
  <2>3. TaskInv(t)' /\ ~Moves(t)' /\ \A i : ~Closing(t, i)'
    BY <2>2, IdleTask
  <2>4. LifeInv'
    BY <2>1, <2>2, <2>3, LifeKept
  <2> QED BY <2>2, <2>3, <2>4
<1> QED BY <1>2, <1>3

LEMMA AbortDestroyKeeps ==
  ASSUME IInv, NEW t \in Tasks, AbortDestroy(t)
  PROVE  IInv'
<1>1. PICK i : i = cur[t]
  OBVIOUS
<1>2. pc[t] = "abort" /\ active' = active /\ Finish(t) /\ RegistryRest
  BY DEF AbortDestroy, At, AppRest, state
<1>3. /\ Closes(t) /\ pc[t] \notin {"idle", "snapshot", "next"}
      /\ Kind(t) \in {"Service", "Component"}
  BY <1>2, CloserPlace
<1>4. i \in Ids /\ Closing(t, i)
  BY <1>1, <1>2, <1>3, CloserKnown DEF Ended, Closing, Closes
<1>5. PICK s \in {"StopIncomplete", "UninstallIncomplete"} :
        reg' = [reg EXCEPT ![i].phase = TRUE, ![i].op = FALSE, ![i].state = s]
  BY <1>1, <1>4 DEF AbortDestroy
<1>6. reg[i].gate \in BOOLEAN
  BY <1>4 DEF IInv, TypedReg, Entries
<1>7. reg' = [reg EXCEPT ![i].gate = reg[i].gate, ![i].op = FALSE, ![i].phase = TRUE, ![i].state = s]
  BY <1>4, <1>5 DEF IInv, TypedReg, Entries
<1>8. nextId' = nextId /\ s \in States
  BY <1>2, <1>5 DEF RegistryRest, States
<1>9. /\ OldObjects /\ TypedReg' /\ Ids' = Ids /\ reg'[i].op = FALSE
      /\ \A j \in Ids : j # i => reg'[j].op = reg[j].op
  BY <1>4, <1>6, <1>7, <1>8, FlagsData
<1>10. TypedWatch' /\ WatchInv'
  BY <1>1, <1>2, <1>4, WatchKept DEF RegistryRest, watching, AbortDestroy, Announce
<1>11. GoodData /\ ObjectsOnward /\ EdgesOnward
  BY <1>2, <1>9, <1>10, DataKept DEF GoodData, SameEdges, RegistryRest
<1>12. /\ TaskInv(t)' /\ Others(t) /\ TypedTasks' /\ LifeInv'
       /\ \A j : ~Closing(t, j)'
  BY <1>2, <1>3, <1>11, Finishes
<1>13. OpInv'
  BY <1>4, <1>9, <1>12, OpFreed
<1>14. active' \in BOOLEAN
  BY <1>2 DEF IInv
<1> QED BY <1>9, <1>11, <1>12, <1>13, <1>14, Assembled DEF GoodData

LEMMA EraseObserversKeeps ==
  ASSUME IInv, NEW t \in Tasks, EraseObservers(t)
  PROVE  IInv'
<1>1. pc[t] = "swept" /\ active' = active /\ Finish(t) /\ SoundData
  BY EraseData DEF EraseObservers, At, AppRest, state
<1>2. /\ Closes(t) /\ pc[t] \notin {"idle", "snapshot", "next"}
  BY <1>1, CloserPlace DEF Ended
<1>3. ObjectsOnward /\ active' \in BOOLEAN
  BY <1>1 DEF SoundData, GoodData, IInv
<1>4. /\ TaskInv(t)' /\ Others(t) /\ TypedTasks' /\ LifeInv'
      /\ \A j : ~Closing(t, j)'
  BY <1>1, <1>2, <1>3, Finishes
<1>5. \A j : ~Closing(t, j)
  BY <1>1 DEF Closing
<1> QED BY <1>1, <1>3, <1>4, <1>5, QuietStep

\* An entry goes, with the edges to it.  A service that goes has none itself.
LEMMA RemovedData ==
  ASSUME IInv, NEW i, Removed(i), UNCHANGED <<nextId, nextGen, issued, leases>>,
         TypedWatch', WatchInv', \A e \in edges : e.subj = i => ~e.ofService
  PROVE  GoodData /\ Ids' = Ids \ {i} /\ \A j \in Ids' : reg'[j] = reg[j]
<1>1. TypedReg /\ UserInv /\ LeaseInv /\ TypedEdges
  BY DEF IInv
<1>2. /\ Ids' = Ids \ {i} /\ edges' \subseteq edges /\ \A e \in edges' : e.comp # i
      /\ \A j \in Ids' : reg'[j] = reg[j]
      /\ reg' \in [Ids' -> Entries]
  BY <1>1 DEF Removed, Restrict, Ids, EdgesTo, TypedReg
<1>3. TypedReg'
  <2>1. IsFiniteSet(Ids')
    BY <1>1, <1>2, FS_Subset DEF TypedReg
  <2> QED BY <1>1, <1>2, <2>1 DEF TypedReg
<1>4. ObjectsOnward /\ EdgesOnward
  <2>1. nextId' >= nextId /\ nextId' \in Nat /\ nextGen' >= nextGen /\ nextGen' \in Nat
    BY <1>1 DEF TypedReg, TypedEdges
  <2>2. ObjectsOnward
    BY <1>2, <2>1 DEF ObjectsOnward
  <2>3. EdgesOnward
    BY <1>2 DEF EdgesOnward, OldEdge
  <2> QED BY <2>2, <2>3
<1>5. TypedEdges'
  BY <1>1, <1>2 DEF TypedEdges
<1>6. UserInv'
  <2>1. ASSUME NEW e \in edges'
        PROVE  /\ e.subj < nextId
               /\ e.subj \in Ids' => (e.ofService <=> reg'[e.subj].kind = "Service")
               /\ e.ofService => e.subj \in Ids'
               /\ reg'[e.comp].kind = "Component"
    <3>1. /\ e \in edges /\ e.subj < nextId
          /\ e.subj \in Ids => (e.ofService <=> reg[e.subj].kind = "Service")
          /\ e.ofService => e.subj \in Ids
          /\ e.comp \in Ids' /\ reg[e.comp].kind = "Component"
      BY <1>1, <1>2 DEF UserInv, LeaseInv
    <3> QED BY <1>2, <3>1
  <2>2. Ordered'
    BY <1>1, <1>2, StaysOrdered DEF UserInv
  <2> QED BY <2>1, <2>2 DEF UserInv
<1>7. LeaseInv'
  <2>1. \A e \in edges' : Handle(e) \in issued /\ e.comp \in Ids' /\ e.borrows = leases[Handle(e)]
    BY <1>1, <1>2 DEF LeaseInv
  <2>2. ASSUME NEW h \in issued, leases[h] > 0, h.comp \in Ids'
        PROVE  \E e \in edges' : Handle(e) = h
    <3>1. PICK e \in edges : Handle(e) = h
      BY <1>1, <1>2, <2>2 DEF LeaseInv
    <3>2. e.comp # i
      BY <1>2, <2>2, <3>1 DEF Handle
    <3> QED BY <3>1, <3>2 DEF Removed, EdgesTo
  <2> QED BY <1>1, <1>2, <2>1, <2>2 DEF LeaseInv
<1> QED BY <1>2, <1>3, <1>4, <1>5, <1>6, <1>7 DEF GoodData

\* Who removes a service or component is the one that closes it.
LEMMA RemovedStep ==
  ASSUME IInv, NEW t \in Tasks, Closes(t), pc[t] \in {"remove", "removeType"}, GoodData,
         NEW i, i = cur[t], Ids' = Ids \ {i}, \A j \in Ids' : reg'[j] = reg[j],
         Others(t), TypedTasks', TaskInv(t)', LifeInv', \A j : ~Closing(t, j)',
         active' = active
  PROVE  IInv'
<1>1. Known(i, Kind(t)) /\ (Kind(t) # "Actor" => Closing(t, i))
  BY CloserKnown DEF Ended, Closing, Closes
<1>2. \A j \in Ids : j \notin Ids' =>
        reg[j].kind = "Actor" \/ \A u \in Tasks : u # t => ~Closing(u, j)
  <2> SUFFICES ASSUME i \in Ids, reg[i].kind # "Actor", NEW u \in Tasks, Closing(u, i) PROVE u = t
    OBVIOUS
  <2>1. Closing(t, i)
    BY <1>1 DEF Known
  <2> QED BY <2>1 DEF IInv, OpInv
<1>3. \A j \in Ids' : Closing(t, j)' <=> Closing(t, j)
  BY DEF Closing
<1>4. OpInv'
  BY <1>3, OpKept
<1>5. active' \in BOOLEAN
  BY DEF IInv
<1> QED BY <1>2, <1>4, <1>5, Assembled DEF GoodData

\* No binding of a service is left when the service goes.
LEMMA NobodysEdges ==
  ASSUME IInv, NEW t \in Tasks, Closes(t), pc[t] \in {"remove", "removeType"}
  PROVE  \A e \in edges : e.subj = cur[t] => ~e.ofService
<1> SUFFICES ASSUME NEW e \in edges, e.subj = cur[t], e.ofService PROVE FALSE
  OBVIOUS
<1>1. cur[t] \in Ids /\ reg[cur[t]].kind = "Service"
  BY DEF IInv, UserInv
<1>2. Known(cur[t], Kind(t))
  BY CloserKnown
<1>3. Kind(t) = "Service"
  BY <1>1, <1>2 DEF Known
<1>4. pc[t] = "remove" /\ pc[t] \notin Ended
  BY <1>3, CloserPlace DEF Ended
<1> QED BY <1>3, <1>4, ServiceEdges DEF ErasedPlaces

LEMMA FinishDestroyKeeps ==
  ASSUME IInv, NEW t \in Tasks, FinishDestroy(t)
  PROVE  IInv'
<1>1. PICK i : i = cur[t]
  OBVIOUS
<1>2. /\ pc[t] = "remove" /\ Deactivate(TokensOf(i)) /\ Removed(i) /\ active' = active
      /\ UNCHANGED <<nextId, nextGen, issued, leases, callback>>
  BY <1>1 DEF FinishDestroy, At, AppRest, state
<1>3. /\ Closes(t) /\ pc[t] \notin {"idle", "snapshot", "next"} /\ pc[t] \notin Ended
  BY <1>2, CloserPlace DEF Ended
<1>4. /\ prog[t] # <<>> /\ Place(Op(t).do, Kind(t), "remove") /\ Known(i, Kind(t)) /\ i \in Nat
      /\ Does(t, "Stop") => Moves(t) /\ todo[t] # <<>>
      /\ Does(t, "Uninstall") => ~Moves(t) /\ ~Does(t, "Stop")
  BY <1>1, <1>2, <1>3, CloserKnown
<1>5. TypedWatch' /\ WatchInv'
  <2>1. TokensOf(i) \in SUBSET DOMAIN observers
    BY DEF TokensOf
  <2> QED BY <1>2, <2>1, DeactivateWatch
<1>6. GoodData /\ Ids' = Ids \ {i} /\ \A j \in Ids' : reg'[j] = reg[j]
  BY <1>1, <1>2, <1>3, <1>5, NobodysEdges, RemovedData
<1>7. PICK w : wait' = Set(wait, t, w)
  BY DEF FinishDestroy
<1>8. After(t, prog[t], "scan", i, todo[t], w)
  BY <1>1, <1>4, <1>7, Moved DEF FinishDestroy
<1>9. Known(i, Kind(t))'
  <2>1. PICK k : k = Kind(t)
    OBVIOUS
  <2>2. Kind(t)' = k
    BY <1>8, <2>1 DEF After, Kind, Does, Op
  <2>3. Known(i, k)'
    BY <1>2, <1>4, <1>6, <2>1 DEF Known
  <2> QED BY <2>2, <2>3
<1>10. Place(Op(t).do, Kind(t), "scan") /\ "scan" \in Ended
  BY <1>3, <1>4 DEF Place, ClosingPcs, HookPcs, Closes, Does, Ended
<1>11. Does(t, "Stop") => /\ pc[t] \notin {"idle", "snapshot"} /\ todo[t] # <<>>
                          /\ i = Head(todo[t]).id
  BY <1>1, <1>3, StopList
<1>12. ObjectsOnward /\ "scan" \notin {"idle", "snapshot", "next", "unbind", "unbound"}
  BY <1>6 DEF GoodData
<1>13. /\ TaskInv(t)' /\ (Moves(t)' <=> Does(t, "Stop"))
       /\ \A j : Closing(t, j)' <=> /\ i = j /\ "scan" \notin Ended
                                    /\ Kind(t) = "Actor" => Does(t, "Uninstall")
  BY ONLY IInv, t \in Tasks, <1>3, <1>4, <1>8, <1>9, <1>10, <1>11, <1>12, CloserTask
<1>14. \A j : ~Closing(t, j)'
  BY <1>10, <1>13
<1>15. Others(t) /\ TypedTasks'
  BY <1>8 DEF After
<1>16. LifeInv'
  BY <1>2, <1>3, <1>4, <1>13, <1>15, LifeKept DEF Closes
<1> QED BY <1>1, <1>2, <1>3, <1>6, <1>13, <1>14, <1>15, <1>16, RemovedStep

LEMMA FinishActorTypeKeeps ==
  ASSUME IInv, NEW t \in Tasks, FinishActorType(t)
  PROVE  IInv'
<1>1. PICK i : i = cur[t]
  OBVIOUS
<1>2. /\ pc[t] = "removeType" /\ Removed(i) /\ active' = active /\ Return(t)
      /\ UNCHANGED <<nextId, nextGen, issued, leases, watching, callback>>
  BY <1>1 DEF FinishActorType, At, AppRest, state
<1>3. /\ Closes(t) /\ Does(t, "Uninstall") /\ pc[t] \notin {"idle", "snapshot", "next"}
  BY <1>2, CloserPlace
<1>4. prog[t] # <<>> /\ ~Moves(t)
  BY <1>3, CloserKnown
<1>5. TypedWatch' /\ WatchInv'
  BY <1>2, WatchKept
<1>6. GoodData /\ Ids' = Ids \ {i} /\ \A j \in Ids' : reg'[j] = reg[j]
  BY <1>1, <1>2, <1>3, <1>5, NobodysEdges, RemovedData
<1>7. Others(t) /\ TypedTasks' /\ pc'[t] = "idle"
  BY <1>2, <1>4, Returned
<1>8. TaskInv(t)' /\ ~Moves(t)' /\ \A j : ~Closing(t, j)'
  BY <1>7, IdleTask
<1>9. LifeInv'
  BY <1>2, <1>4, <1>7, <1>8, LifeKept
<1> QED BY <1>1, <1>2, <1>3, <1>6, <1>7, <1>8, <1>9, RemovedStep
-----------------------------------------------------------------------------
(* The whole system.                                                       *)

LEMMA InitIInv ==
  ASSUME Init
  PROVE  IInv
<1>1. /\ reg = [i \in {1} |-> AppEntry] /\ nextId = 2 /\ edges = {} /\ nextGen = 1
      /\ issued = {} /\ leases = [h \in {} |-> 0] /\ observers = [k \in {} |-> 0]
      /\ nextToken = 1 /\ revoked = {} /\ callback = [t \in Tasks |-> 0]
      /\ active = FALSE /\ prog \in Programs
      /\ pc = [t \in Tasks |-> "idle"] /\ cur = [t \in Tasks |-> 0]
      /\ todo = [t \in Tasks |-> <<>>] /\ wait = [t \in Tasks |-> {}]
  BY DEF Init, RegistryInit
<1>2. Ids = {1} /\ reg[1].op = FALSE /\ AppEntry \in Entries
  BY <1>1 DEF Ids, AppEntry, Entry, Entries, Kinds, States
<1>3. TypedReg
  <2>1. IsFiniteSet({1})
    BY FS_Singleton
  <2> QED BY <1>1, <1>2, <2>1 DEF TypedReg
<1>4. TypedEdges
  BY <1>1 DEF TypedEdges
<1>5. TypedTasks
  BY <1>1, ProgramsAssumption DEF TypedTasks
<1>6. TypedWatch /\ WatchInv
  BY <1>1 DEF TypedWatch, WatchInv
<1>7. ASSUME NEW t \in Tasks PROVE TaskInv(t) /\ ~Moves(t) /\ \A i : ~Closing(t, i)
  BY <1>1 DEF TaskInv, PlaceInv, TargetInv, ListInv, HeldInv, EdgesInv, UnbindInv, UnusedInv,
    Works, Moves, Closing, Walks
<1>8. UserInv /\ LeaseInv
  BY <1>1 DEF UserInv, LeaseInv, Ordered
<1>9. OpInv /\ LifeInv
  BY <1>1, <1>2, <1>7 DEF OpInv, LifeInv
<1> QED BY <1>1, <1>3, <1>4, <1>5, <1>6, <1>7, <1>8, <1>9 DEF IInv

LEMMA CloseKeeps ==
  ASSUME IInv, NEW t \in Tasks, CloseSteps(t)
  PROVE  IInv'
  BY StopBeginsKeeps, StopSnapshotKeeps, DestroyServiceKeeps, DestroyComponentKeeps,
     DestroyActorKeeps, StopSkipsKeeps, StopEndsKeeps, UninstallBeginsKeeps, GatherEdgesKeeps,
     RetireEdgesKeeps, EdgesDrainedKeeps, EraseEdgesKeeps, ComponentDrainedKeeps, DrainLateKeeps,
     OnStopFailedKeeps, OnStopDoneKeeps, OnUninstallKeeps, AbortDestroyKeeps, FinishDestroyKeeps,
     FinishActorTypeKeeps, SweepKeeps, EraseObserversKeeps
  DEF CloseSteps

LEMMA InstallKeeps ==
  ASSUME IInv, NEW t \in Tasks, InstallSteps(t)
  PROVE  IInv'
  BY InstallBeginsKeeps, CreateRefusedKeeps, CreateObjectKeeps, CreateActorTypeKeeps, DeclareKeeps,
     DeclaredKeeps, RollbackKeeps, OnInstallKeeps, InstallFailsKeeps, IfRunningKeeps, StartInstalledKeeps,
     InstallEndsKeeps
  DEF InstallSteps

LEMMA StepKeeps ==
  ASSUME IInv, NEW t \in Tasks, Step(t)
  PROVE  IInv'
<1>1. CASE HookSteps(t)
  BY <1>1, SettleKeeps, SettledKeeps, EnterHookKeeps, HookRefusedKeeps, HookLateKeeps DEF HookSteps
<1>2. CASE TransitionSteps(t)
  BY <1>2, TransitionBeginsKeeps, SnapshotKeeps, NextObjectKeeps, ObjectMovedKeeps,
     TransitionEndsKeeps DEF TransitionSteps
<1>3. CASE BindSteps(t)
  BY <1>3, BindKeeps, UnbindKeeps, EdgeDrainedKeeps, UnbindLateKeeps, EraseEdgeKeeps,
    BindingChangedKeeps DEF BindSteps
<1>4. CASE ObserverSteps(t)
  BY <1>4, ObserveKeeps, RevokeKeeps, RevokeWaitsKeeps, EraseObserverKeeps DEF ObserverSteps
<1> QED BY <1>1, <1>2, <1>3, <1>4, InstallKeeps, CloseKeeps, ShutdownKeeps, CallbackKeeps,
           CallbackEndsKeeps DEF Step

LEMMA NextKeeps ==
  ASSUME IInv, [Next]_vars
  PROVE  IInv'
<1>1. CASE UNCHANGED vars
  <2>1. UNCHANGED <<regVars, prog, pc, cur, todo, wait, active>>
    BY <1>1 DEF vars, locals, state
  <2> QED BY <2>1, NoData, NobodysStep
<1>2. CASE Next
  <2>1. CASE AllDone
    BY <1>1, <2>1 DEF AllDone
  <2> QED BY <1>2, <2>1, StepKeeps, HookEndsKeeps, UserBorrowsKeeps, UserReleasesKeeps DEF Next
<1> QED BY <1>1, <1>2

\* What an operation relies on holds for every program and every interleaving.
THEOREM AppInvariance == Spec => []IInv
<1>1. Init => IInv
  BY InitIInv
<1>2. IInv /\ [Next]_vars => IInv'
  BY NextKeeps
<1> QED BY <1>1, <1>2, PTL DEF Spec


-----------------------------------------------------------------------------
(* What follows for the properties.                                        *)

\* A service takes the bindings it holds with it (NoDanglingBinding): whoever
\* removes it has retired, drained and erased all of them, and none is added
\* meanwhile.  Nothing is said of those a component holds.
THEOREM BindingsEndWithService == Spec => []NoDanglingBinding
<1>1. IInv => NoDanglingBinding
  BY DEF IInv, UserInv, NoDanglingBinding
<1> QED BY <1>1, AppInvariance, PTL

LEMMA InvUnused ==
  ASSUME IInv
  PROVE  ClosedUnused
<1> SUFFICES ASSUME NEW t \in Tasks, NEW h \in issued, Closes(t), pc[t] \in DrainedPcs,
                    cur[t] \in Ids,
                    \/ Kind(t) = "Service" /\ h.subj = cur[t] /\ h.comp \in Ids
                    \/ Kind(t) = "Component" /\ Does(t, "Uninstall") /\ h.comp = cur[t]
             PROVE  leases[h] = 0
  BY DEF ClosedUnused, Closes
<1>1. leases[h] \in Nat /\ h.comp \in Ids
  BY DEF IInv, TypedEdges
<1>2. ASSUME leases[h] # 0 PROVE FALSE
  <2>1. PICK e \in edges : Handle(e) = h
    BY <1>1, <1>2 DEF IInv, LeaseInv
  <2>2. e.subj = h.subj /\ e.comp = h.comp /\ e.borrows = leases[h]
    BY <2>1, EdgeKnown DEF Handle
  <2>3. pc[t] \notin {"idle", "snapshot", "next"} \cup Ended
    BY DEF DrainedPcs, Ended
  <2>4. CASE Kind(t) = "Service" /\ h.subj = cur[t]
    <3>1. pc[t] \in DrainedPlaces(t) \/ pc[t] \in ErasedPlaces(t)
      BY DEF DrainedPcs, DrainedPlaces, ErasedPlaces, HookPcs
    <3> QED BY <1>2, <2>2, <2>3, <2>4, <3>1, ServiceEdges
  <2>5. CASE Kind(t) = "Component" /\ Does(t, "Uninstall") /\ h.comp = cur[t]
    <3>1. Works(t)
      BY <2>3, CloserKnown
    <3>2. EdgesTo(cur[t]) = {}
      BY <2>5, <3>1 DEF IInv, TaskInv, UnusedInv
    <3> QED BY <2>2, <2>5, <3>2 DEF EdgesTo
  <2> QED BY <2>4, <2>5
<1> QED BY <1>2

\* Behind its drain a service that is stopped or uninstalled has no borrow of a
\* registered component, and a component that is uninstalled is lent to nobody
\* (ClosedUnused).  A component that Stop closes may be lent again.
THEOREM DrainedStaysUnused == Spec => []ClosedUnused
<1>1. IInv => ClosedUnused
  BY InvUnused
<1> QED BY <1>1, AppInvariance, PTL

LEMMA OneOrNone ==
  ASSUME NEW S, NEW b \in BOOLEAN, b <=> S # {}, \A x, y \in S : x = y
  PROVE  Cardinality(S) = IF b THEN 1 ELSE 0
<1>1. CASE S = {}
  BY <1>1, FS_EmptySet
<1>2. CASE S # {}
  <2>1. PICK x : x \in S
    BY <1>2
  <2>2. S = {x}
    BY <2>1
  <2> QED BY <1>2, <2>2, FS_Singleton
<1> QED BY <1>1, <1>2

LEMMA InvOneOperation ==
  ASSUME IInv
  PROVE  OneOperation
<1>1. ASSUME NEW i \in Ids
      PROVE  Cardinality({t \in Tasks : Closing(t, i)}) = IF reg[i].op THEN 1 ELSE 0
  <2>1. reg[i].op \in BOOLEAN
    BY DEF IInv, TypedReg, Entries
  <2>2. reg[i].op <=> {t \in Tasks : Closing(t, i)} # {}
    BY DEF IInv, OpInv
  <2>3. \A t, u \in {t \in Tasks : Closing(t, i)} : t = u
    BY DEF IInv, OpInv
  <2> QED BY <2>1, <2>2, <2>3, OneOrNone
<1>2. Cardinality({t \in Tasks : Moves(t)}) = IF active THEN 1 ELSE 0
  <2>1. active \in BOOLEAN /\ (active <=> {t \in Tasks : Moves(t)} # {})
    BY DEF IInv, LifeInv
  <2>2. \A t, u \in {t \in Tasks : Moves(t)} : t = u
    BY DEF IInv, LifeInv
  <2> QED BY <2>1, <2>2, OneOrNone
<1> QED BY <1>1, <1>2 DEF OneOperation, Moves

\* op_in_progress stands for exactly one Stop or Uninstall of the object, and
\* m_lifecycle_active for exactly one transition or Stop of the App (OneOperation),
\* through every failure, deadline and refusal.
THEOREM FlagsHaveAnOwner == Spec => []OneOperation
<1>1. IInv => OneOperation
  BY InvOneOperation
<1> QED BY <1>1, AppInvariance, PTL

\* Only the dispatch of an event starts a callback.
LEMMA Callers ==
  ASSUME IInv, [Next]_vars, NEW t \in Tasks, callback'[t] # callback[t], callback'[t] # 0
  PROVE  Callback(t)
<1>1. ASSUME NEW u \in Tasks, Step(u), callback' # callback PROVE Callback(u) \/ CallbackEnds(u)
  <2>1. CASE HookSteps(u)
    BY <1>1, <2>1 DEF HookSteps, Settle, Settled, EnterHook, HookRefused, HookLate, regVars
  <2>2. CASE InstallSteps(u)
    BY <1>1, <2>2 DEF InstallSteps, InstallBegins, CreateRefused, CreateObject, CreateActorType,
      Declare, Declared, Rollback, UnbindRest, OnInstall, InstallFails, IfRunning, StartInstalled,
      InstallEnds, SetState, Announce, regVars
  <2>3. CASE TransitionSteps(u)
    BY <1>1, <2>3 DEF TransitionSteps, TransitionBegins, Snapshot, NextObject, ObjectMoved,
      TransitionEnds, SetState, Announce, regVars
  <2>4. CASE CloseSteps(u)
    BY <1>1, <2>4 DEF CloseSteps, StopBegins, StopSnapshot, DestroyService, DestroyComponent,
      DestroyActor, StopSkips, StopEnds, UninstallBegins, GatherEdges, RetireEdges, EdgesDrained,
      EraseEdges, ComponentDrained, DrainLate, OnStopFailed, OnStopDone, ServiceOnUninstall,
      ComponentOnUninstall, AbortDestroy, FinishDestroy, FinishActorType, ScanObservers,
      ObserversDone, EraseObservers, Announce, regVars
  <2>5. CASE BindSteps(u)
    BY <1>1, <2>5 DEF BindSteps, Bind, Unbind, EdgeDrained, UnbindLate, EraseEdge, BindingChanged,
      UnbindRest,
      regVars
  <2>6. CASE ObserverSteps(u) \/ ShutdownSteps(u)
    BY <1>1, <2>6 DEF ObserverSteps, Observe, Revoke, RevokeWaits, EraseObserver, ShutdownSteps,
      RequestShutdown, WaitShutdown, ShutdownWaitEnds, LeaveWait, regVars
  <2> QED BY <1>1, <2>1, <2>2, <2>3, <2>4, <2>5, <2>6 DEF Step
<1>2. PICK u \in Tasks : Callback(u) \/ CallbackEnds(u)
  <2>1. CASE \E u \in Tasks : Step(u)
    BY <1>1, <2>1
  <2>2. CASE ~ \E u \in Tasks : Step(u)
    BY <2>2 DEF Next, vars, regVars, HookEnds, UserBorrows, UserReleases, Borrow, Release, AllDone
  <2> QED BY <2>1, <2>2
<1>3. DOMAIN callback = Tasks
  BY DEF IInv, TypedWatch
<1>4. CASE CallbackEnds(u)
  BY <1>3, <1>4 DEF CallbackEnds, DispatchEnd
<1>5. CASE Callback(u)
  <2>1. u = t
    BY <1>3, <1>5 DEF Callback, DispatchBegin
  <2> QED BY <1>5, <2>1
<1> QED BY <1>2, <1>4, <1>5

\* No callback of a revoked subscription starts (NoLateCallback), even for an
\* event that was taken before it was revoked.
THEOREM RevokedStaysSilent == Spec => NoLateCallback
<1>1. ASSUME IInv, [Next]_vars, NEW t \in Tasks, callback'[t] # callback[t], callback'[t] # 0
      PROVE  callback'[t] \notin revoked
  <2>1. PICK k : DispatchBegin(t, k)
    BY <1>1, Callers DEF Callback
  <2>2. k \in DOMAIN observers /\ observers[k].active /\ callback'[t] = k
    BY <1>1, <2>1 DEF DispatchBegin, IInv, TypedWatch
  <2> QED BY <1>1, <2>2 DEF IInv, WatchInv
<1>2. IInv /\ [Next]_vars => [\A t \in Tasks : callback'[t] # callback[t] /\ callback'[t] # 0
                                               => callback'[t] \notin revoked]_vars
  BY <1>1
<1> QED BY <1>2, AppInvariance, PTL DEF Spec, NoLateCallback


\* Components never depend on themselves (DependenciesAcyclic): a bind looks at all
\* that its target leads to, and the bindings a service declares lead to components.
THEOREM NoCircle == Spec => []DependenciesAcyclic
<1>1. IInv => DependenciesAcyclic
  BY OrderedIsAcyclic DEF IInv, TypedReg, UserInv, LeaseInv
<1> QED BY <1>1, AppInvariance, PTL

-----------------------------------------------------------------------------
(* Counters.                                                               *)

\* Hooks that run, and tasks whose hook was refused and is still counted.
HooksOf(i) == {r \in running : r.id = i}
Refused == {t \in Tasks : pc[t] = "refused"}
RefusedAt(i) == {t \in Tasks : pc[t] = "refused" /\ cur[t] = i}

\* A hook that names a task is the one the task waits for.
HookRecords ==
  /\ IsFiniteSet(running) /\ DOMAIN slot = Tasks
  /\ \A r \in running : /\ DOMAIN r = {"id", "hook", "task", "nr"}
                        /\ r.id \in Nat /\ r.id < nextId
                        /\ r.task # 0 => /\ r.task \in Tasks
                                         /\ pc[r.task] = "await" /\ slot[r.task] = "none"
  /\ \A r, q \in running : r.task # 0 /\ q.task = r.task => q = r
HooksInv ==
  /\ HookRecords
  /\ IsFiniteSet(Refused) /\ \A t \in Refused : cur[t] < nextId
  /\ \A i \in Ids : reg[i].hooks = Cardinality(HooksOf(i)) + Cardinality(RefusedAt(i))

Lent(i) == {h \in issued : h.comp = i}
BorrowsInv ==
  /\ IsFiniteSet(issued)
  /\ \A i \in Ids : reg[i].borrows = SumFunctionOnSet(leases, Lent(i))

LimitsInv ==
  /\ Cardinality(Ids) <= MaxObjects
  /\ IsFiniteSet(edges) /\ Cardinality(edges) <= MaxBindings
  /\ IsFiniteSet(DOMAIN observers) /\ Cardinality(ActiveTokens) <= MaxObservers

\* Tokens are never used again, so a callback that outlives its record is counted
\* on no other one.
CallersOf(k) == {t \in Tasks : callback[t] = k}
FlightInv ==
  /\ nextToken > 0 /\ \A k \in DOMAIN observers : k > 0
  /\ IsFiniteSet({t \in Tasks : callback[t] # 0})
  /\ \A t \in Tasks : callback[t] \in Nat /\ callback[t] < nextToken
  /\ \A k \in DOMAIN observers : observers[k].inFlight = Cardinality(CallersOf(k))

AppStates == {"Created", "Starting", "Running", "Paused", "Stopping", "Stopped", "StopIncomplete"}

CountInv == HooksInv /\ BorrowsInv /\ LimitsInv /\ FlightInv /\ app \in AppStates

-----------------------------------------------------------------------------
(* What a step does to the counters of the objects.                        *)

\* No object is new, and none is counted differently.
SameCounts ==
  /\ nextId' = nextId /\ Ids' \subseteq Ids
  /\ \A i \in Ids' : reg'[i].hooks = reg[i].hooks /\ reg'[i].borrows = reg[i].borrows
OneMore ==
  /\ nextId' = nextId + 1 /\ HasRoomForObject /\ Ids' = Ids \cup {nextId}
  /\ reg'[nextId].hooks = 0 /\ reg'[nextId].borrows = 0
  /\ \A i \in Ids : reg'[i].hooks = reg[i].hooks /\ reg'[i].borrows = reg[i].borrows
Uncounted == SameCounts \/ OneMore

\* What they mean for each of the counters.
SameHooks ==
  /\ nextId' \in Nat /\ nextId' >= nextId
  /\ \A i \in Ids' : \/ i \in Ids /\ reg'[i].hooks = reg[i].hooks
                     \/ i = nextId /\ reg'[i].hooks = 0
SameBorrows ==
  \A i \in Ids' : \/ i \in Ids /\ reg'[i].borrows = reg[i].borrows
                  \/ i = nextId /\ reg'[i].borrows = 0

LEMMA UncountedKeeps ==
  ASSUME IInv, Uncounted
  PROVE  SameHooks /\ SameBorrows
<1>1. nextId \in Nat
  BY DEF IInv, TypedReg
<1>2. CASE SameCounts
  BY <1>1, <1>2 DEF SameCounts, SameHooks, SameBorrows
<1>3. CASE OneMore
  <2>1. \A i \in Ids' : i \in Ids \/ i = nextId
    BY <1>3 DEF OneMore
  <2>2. nextId' \in Nat /\ nextId' >= nextId
    BY <1>1, <1>3 DEF OneMore
  <2> QED BY <1>3, <2>1, <2>2 DEF OneMore, SameHooks, SameBorrows
<1> QED BY <1>2, <1>3 DEF Uncounted

LEMMA SameReg ==
  ASSUME UNCHANGED <<reg, nextId>>
  PROVE  SameCounts
  BY DEF SameCounts, Ids

\* An entry is changed, but not its counters.
LEMMA EntryCounts ==
  ASSUME IInv, nextId' = nextId, NEW i, NEW e, reg' = [reg EXCEPT ![i] = e],
         i \in Ids => e.hooks = reg[i].hooks /\ e.borrows = reg[i].borrows
  PROVE  SameCounts
<1>1. DOMAIN reg' = DOMAIN reg
  OBVIOUS
<1>2. \A j \in Ids : reg'[j] = IF j = i THEN e ELSE reg[j]
  BY DEF Ids
<1> QED BY <1>1, <1>2 DEF SameCounts, Ids

LEMMA StateCounts ==
  ASSUME IInv, NEW t, NEW i, NEW s, SetState(t, i, s), nextId' = nextId
  PROVE  SameCounts
<1>1. CASE i \in Ids
  <2>1. reg[i] \in Entries
    BY <1>1 DEF IInv, TypedReg
  <2>2. PICK e : e = [reg[i] EXCEPT !.state = s]
    OBVIOUS
  <2>3. e.hooks = reg[i].hooks /\ e.borrows = reg[i].borrows
    BY <2>1, <2>2 DEF Entries
  <2>4. reg' = [reg EXCEPT ![i] = e]
    BY <1>1, <2>2 DEF SetState
  <2> QED BY <2>3, <2>4, EntryCounts
<1>2. CASE i \notin Ids
  BY <1>2, SameReg DEF SetState
<1> QED BY <1>1, <1>2

LEMMA CreatedCounts ==
  ASSUME IInv, NEW k, NEW n, NEW o, NEW s, Created(k, n, o, s), HasRoomForObject
  PROVE  OneMore
  BY DEF IInv, TypedReg, Created, OneMore, Ids, Entry

LEMMA RemovedCounts ==
  ASSUME IInv, NEW i, Removed(i), nextId' = nextId
  PROVE  SameCounts
  BY DEF Removed, Restrict, SameCounts, Ids

LEMMA HookCounts ==
  ASSUME IInv, NEW t \in Tasks, HookSteps(t)
  PROVE  SameCounts \/ EnterHook(t) \/ HookRefused(t)
<1>1. CASE HookLate(t)
  BY <1>1, SameReg DEF HookLate, regVars, registry
<1>2. CASE Settle(t) \/ Settled(t)
  <2>1. CASE UNCHANGED reg
    BY <1>2, <2>1, SameReg DEF Settle, Settled
  <2>2. CASE reg' # reg
    <3>1. cur[t] \in Ids /\ reg[cur[t]] \in Entries
      BY <1>2, <2>2 DEF Settle, Settled, IInv, TypedReg
    <3>2. PICK w : reg' = [reg EXCEPT ![cur[t]].waiter = w]
      BY <1>2, <2>2 DEF Settle, Settled
    <3>3. PICK e : e = [reg[cur[t]] EXCEPT !.waiter = w]
      OBVIOUS
    <3>4. e.hooks = reg[cur[t]].hooks /\ e.borrows = reg[cur[t]].borrows
      BY <3>1, <3>3 DEF Entries
    <3>5. reg' = [reg EXCEPT ![cur[t]] = e] /\ nextId' = nextId
      BY <1>2, <3>1, <3>2, <3>3 DEF Settle, Settled
    <3> QED BY <3>4, <3>5, EntryCounts
  <2> QED BY <2>1, <2>2
<1> QED BY <1>1, <1>2 DEF HookSteps

LEMMA InstallCounts ==
  ASSUME IInv, NEW t \in Tasks, InstallSteps(t)
  PROVE  Uncounted
<1>1. CASE InstallBegins(t) \/ CreateRefused(t) \/ Declare(t) \/ Declared(t) \/ Rollback(t) \/ IfRunning(t)
  BY <1>1, SameReg DEF InstallBegins, CreateRefused, Declare, Declared, Rollback, UnbindRest, IfRunning,
    regVars, registry, Uncounted
<1>2. CASE CreateObject(t) \/ CreateActorType(t)
  BY <1>2, CreatedCounts DEF CreateObject, CreateActorType, Uncounted
<1>3. CASE OnInstall(t) \/ InstallFails(t) \/ StartInstalled(t) \/ InstallEnds(t)
  BY <1>3, StateCounts DEF OnInstall, InstallFails, StartInstalled, InstallEnds, RegistryRest,
    Uncounted
<1> QED BY <1>1, <1>2, <1>3 DEF InstallSteps

LEMMA TransitionCounts ==
  ASSUME IInv, NEW t \in Tasks, TransitionSteps(t)
  PROVE  SameCounts
<1>1. CASE TransitionBegins(t) \/ Snapshot(t) \/ TransitionEnds(t)
  BY <1>1, SameReg DEF TransitionBegins, Snapshot, TransitionEnds, regVars, registry
<1>2. CASE NextObject(t)
  <2>1. UNCHANGED <<reg, nextId>> \/ (nextId' = nextId /\ SetState(t, Head(todo[t]).id, "Starting"))
    BY <1>2 DEF NextObject, RegistryRest
  <2> QED BY <2>1, SameReg, StateCounts
<1>3. CASE ObjectMoved(t)
  <2>1. nextId' = nextId /\ \E s : SetState(t, cur[t], s)
    BY <1>3 DEF ObjectMoved, RegistryRest
  <2> QED BY <2>1, StateCounts
<1> QED BY <1>1, <1>2, <1>3 DEF TransitionSteps

\* The first section of a stop.
LEMMA StoppingCounts ==
  ASSUME IInv, NEW i \in Ids, reg' = StoppingNow(i), nextId' = nextId
  PROVE  SameCounts
<1>1. reg[i] \in Entries
  BY DEF IInv, TypedReg
<1>2. PICK e : e = [reg[i] EXCEPT !.op = TRUE, !.phase = TRUE, !.state = "Stopping"]
  OBVIOUS
<1>3. e.hooks = reg[i].hooks /\ e.borrows = reg[i].borrows
  BY <1>1, <1>2 DEF Entries
<1>4. reg' = [reg EXCEPT ![i] = e]
  BY <1>2 DEF StoppingNow
<1> QED BY <1>3, <1>4, EntryCounts

LEMMA CloseCounts ==
  ASSUME IInv, NEW t \in Tasks, CloseSteps(t)
  PROVE  SameCounts
<1>1. CASE \/ StopBegins(t) \/ StopSnapshot(t) \/ DestroyActor(t) \/ StopSkips(t) \/ StopEnds(t)
           \/ GatherEdges(t) \/ RetireEdges(t) \/ EdgesDrained(t) \/ EraseEdges(t)
  BY <1>1, SameReg DEF StopBegins, StopSnapshot, DestroyActor, StopSkips, StopEnds, GatherEdges,
    RetireEdges, EdgesDrained, EraseEdges, regVars, registry
<1>2. CASE \/ ComponentDrained(t) \/ DrainLate(t) \/ OnStopFailed(t) \/ OnStopDone(t)
           \/ ServiceOnUninstall(t) \/ ComponentOnUninstall(t)
           \/ ScanObservers(t) \/ ObserversDone(t) \/ EraseObservers(t)
  BY <1>2, SameReg DEF ComponentDrained, DrainLate, OnStopFailed, OnStopDone, ServiceOnUninstall,
    ComponentOnUninstall, ScanObservers, ObserversDone, EraseObservers, regVars, registry
<1>3. CASE DestroyService(t) \/ DestroyComponent(t)
  BY <1>3, StoppingCounts DEF DestroyService, DestroyComponent, Stoppable, RegistryRest
<1>4. CASE FinishDestroy(t) \/ FinishActorType(t)
  BY <1>4, RemovedCounts DEF FinishDestroy, FinishActorType
<1>5. CASE UninstallBegins(t)
  <2>1. CASE UNCHANGED reg
    BY <1>5, <2>1, SameReg DEF UninstallBegins, RegistryRest
  <2>2. CASE reg' # reg
    <3>1. PICK i : reg' = [reg EXCEPT ![i].gate = TRUE, ![i].op = TRUE,
                                      ![i].phase = reg[i].kind # "Actor",
                                      ![i].state = "Uninstalling"]
      BY <1>5, <2>2 DEF UninstallBegins
    <3>2. i \in Ids
      BY <1>5, <2>2, <3>1 DEF IInv, TypedReg, Ids
    <3>3. reg[i] \in Entries
      BY <3>2 DEF IInv, TypedReg
    <3>4. PICK e : e = [reg[i] EXCEPT !.gate = TRUE, !.op = TRUE, !.phase = reg[i].kind # "Actor",
                                      !.state = "Uninstalling"]
      OBVIOUS
    <3>5. e.hooks = reg[i].hooks /\ e.borrows = reg[i].borrows
      BY <3>3, <3>4 DEF Entries
    <3>6. reg' = [reg EXCEPT ![i] = e] /\ nextId' = nextId
      BY <1>5, <3>1, <3>4 DEF UninstallBegins, RegistryRest
    <3> QED BY <3>5, <3>6, EntryCounts
  <2> QED BY <2>1, <2>2
<1>6. CASE AbortDestroy(t)
  <2>1. CASE cur[t] \notin Ids
    BY <1>6, <2>1, SameReg DEF AbortDestroy, RegistryRest
  <2>2. CASE cur[t] \in Ids
    <3> DEFINE s == IF Does(t, "Stop") THEN "StopIncomplete" ELSE "UninstallIncomplete"
    <3>1. reg[cur[t]] \in Entries
      BY <2>2 DEF IInv, TypedReg
    <3>2. PICK e : e = [reg[cur[t]] EXCEPT !.phase = TRUE, !.op = FALSE, !.state = s]
      OBVIOUS
    <3>3. e.hooks = reg[cur[t]].hooks /\ e.borrows = reg[cur[t]].borrows
      BY <3>1, <3>2 DEF Entries
    <3>4. reg' = [reg EXCEPT ![cur[t]] = e] /\ nextId' = nextId
      BY <1>6, <2>2, <3>2 DEF AbortDestroy, RegistryRest
    <3> QED BY <3>3, <3>4, EntryCounts
  <2> QED BY <2>1, <2>2
<1> QED BY <1>1, <1>2, <1>3, <1>4, <1>5, <1>6 DEF CloseSteps

LEMMA OtherCounts ==
  ASSUME IInv, NEW t \in Tasks,
         \/ BindSteps(t) \/ ObserverSteps(t) \/ ShutdownSteps(t) \/ Callback(t) \/ CallbackEnds(t)
  PROVE  SameCounts
<1>1. UNCHANGED <<reg, nextId>>
  <2>1. CASE BindSteps(t)
    BY <2>1 DEF BindSteps, Bind, Unbind, EdgeDrained, UnbindLate, EraseEdge, BindingChanged,
      UnbindRest, regVars,
      registry
  <2>2. CASE ObserverSteps(t)
    BY <2>2 DEF ObserverSteps, Observe, Revoke, RevokeWaits, EraseObserver, regVars, registry
  <2>3. CASE ShutdownSteps(t)
    BY <2>3 DEF ShutdownSteps, RequestShutdown, WaitShutdown, ShutdownWaitEnds, LeaveWait, regVars,
      registry
  <2>4. CASE Callback(t) \/ CallbackEnds(t)
    BY <2>4 DEF Callback, CallbackEnds, DispatchBegin, DispatchEnd, registry
  <2> QED BY <2>1, <2>2, <2>3, <2>4
<1> QED BY <1>1, SameReg

LEMMA StepCounts ==
  ASSUME IInv, NEW t \in Tasks, Step(t)
  PROVE  Uncounted \/ EnterHook(t) \/ HookRefused(t)
  BY HookCounts, InstallCounts, TransitionCounts, CloseCounts, OtherCounts DEF Step, Uncounted
-----------------------------------------------------------------------------
(* What a step does to the hooks.                                          *)

\* The task waits for no hook that is counted.
Unhooked(t) ==
  /\ UNCHANGED hooks
  /\ \A u \in Tasks : u # t => pc'[u] = pc[u] /\ cur'[u] = cur[u]
  /\ pc[t] # "refused" /\ pc'[t] # "refused" /\ (pc[t] = "await" => slot[t] # "none")

\* Only the task moves, and not to where its hook is refused.
Turns(t) ==
  /\ \A u \in Tasks : u # t => pc'[u] = pc[u] /\ cur'[u] = cur[u]
  /\ pc'[t] = pc[t] \/ pc'[t] # "refused"

LEMMA TurnsUnhooked ==
  ASSUME IInv, NEW t \in Tasks, Turns(t), UNCHANGED hooks, pc[t] # "refused",
         pc[t] = "await" => slot[t] # "none"
  PROVE  Unhooked(t)
  BY DEF Turns, Unhooked

LEMMA TurnsTo ==
  ASSUME IInv, NEW t \in Tasks, NEW p, NEW c, pc' = pc \/ (pc' = Set(pc, t, p) /\ p # "refused"),
         cur' = cur \/ cur' = Set(cur, t, c)
  PROVE  Turns(t)
<1>1. DOMAIN pc = Tasks /\ DOMAIN cur = Tasks
  BY DEF IInv, TypedTasks
<1> QED BY <1>1 DEF Turns, Set

LEMMA ReturnTurns ==
  ASSUME IInv, NEW t \in Tasks, Return(t)
  PROVE  Turns(t)
  BY TurnsTo DEF Return

LEMMA GoTurns ==
  ASSUME IInv, NEW t \in Tasks, NEW p, Go(t, p), p # "refused"
  PROVE  Turns(t)
  BY TurnsTo DEF Go, Keep

LEMMA HookTurns ==
  ASSUME IInv, NEW t \in Tasks, NEW i, NEW h, RunHook(t, i, h)
  PROVE  Turns(t)
  BY TurnsTo DEF RunHook

LEMMA UnbindTurns ==
  ASSUME IInv, NEW t \in Tasks, NEW E, UnbindEdges(t, E) \/ UnbindEnds(t)
  PROVE  Turns(t)
<1>1. CASE UnbindEdges(t, E)
  <2>1. PICK s : cur' = Set(cur, t, s)
    BY <1>1 DEF UnbindEdges
  <2> QED BY <1>1, <2>1, TurnsTo DEF UnbindEdges
<1>2. CASE UnbindEnds(t)
  BY <1>2, TurnsTo, ReturnTurns DEF UnbindEnds
<1> QED BY <1>1, <1>2

LEMMA AtUnhooked ==
  ASSUME IInv, NEW t \in Tasks, Turns(t), UNCHANGED hooks, pc[t] \notin {"refused", "await"}
  PROVE  Unhooked(t)
  BY TurnsUnhooked

LEMMA SucceededUnhooked ==
  ASSUME IInv, NEW t \in Tasks, Turns(t), UNCHANGED hooks, Succeeded(t) \/ HookFailed(t)
  PROVE  Unhooked(t)
  BY TurnsUnhooked DEF Succeeded, HookFailed

LEMMA HookUnhooked ==
  ASSUME IInv, NEW t \in Tasks, Settle(t) \/ Settled(t)
  PROVE  Unhooked(t)
<1>1. Turns(t)
  <2>1. PICK p : pc' = Set(pc, t, p) /\ p # "refused"
    BY DEF Settle, Settled, Goto, Set
  <2> QED BY <2>1, TurnsTo DEF Settle, Settled, Keep
<1> QED BY <1>1, AtUnhooked DEF Settle, Settled, Goto, At, hooks

LEMMA InstallUnhooked ==
  ASSUME IInv, NEW t \in Tasks, InstallSteps(t)
  PROVE  Unhooked(t)
<1>1. CASE InstallBegins(t)
  <2>1. Turns(t)
    BY TurnsTo, <1>1, ReturnTurns DEF InstallBegins
  <2> QED BY <1>1, <2>1, AtUnhooked DEF InstallBegins, At, AppRest
<1>2. CASE CreateRefused(t) \/ CreateActorType(t)
  BY <1>2, ReturnTurns, AtUnhooked DEF CreateRefused, CreateActorType, At, AppRest
<1>3. CASE CreateObject(t)
  <2>1. Turns(t)
    <3>1. PICK p : pc' = Set(pc, t, p) /\ p # "refused"
      BY <1>3 DEF CreateObject
    <3> QED BY <1>3, <3>1, TurnsTo DEF CreateObject
  <2> QED BY <1>3, <2>1, AtUnhooked DEF CreateObject, At, AppRest
<1>4. CASE Declare(t)
  <2>1. Turns(t)
    <3>1. \/ pc' = Set(pc, t, "declared") \/ pc' = Set(pc, t, "install")
          \/ pc' = Set(pc, t, "rollback")
      BY <1>4 DEF Declare
    <3>2. cur' = cur
      BY <1>4 DEF Declare
    <3> QED BY <3>1, <3>2, TurnsTo
  <2> QED BY <1>4, <2>1, AtUnhooked DEF Declare, At, AppRest
<1>5. CASE Rollback(t)
  <2>1. Turns(t)
    <3>1. \E E : UnbindEdges(t, E) \/ UnbindEnds(t)
      BY <1>5 DEF Rollback
    <3> QED BY <3>1, UnbindTurns
  <2> QED BY <1>5, <2>1, AtUnhooked DEF Rollback, UnbindRest, At, AppRest
<1>6. CASE OnInstall(t)
  <2>1. Turns(t)
    <3>1. pc' = Set(pc, t, "ifRunning") /\ cur' = cur
      BY <1>6 DEF OnInstall, Goto, Keep, Set
    <3> QED BY <3>1, TurnsTo
  <2> QED BY <1>6, <2>1, AtUnhooked DEF OnInstall, Goto, At, AppRest
<1>7. CASE InstallFails(t)
  BY <1>7, ReturnTurns, AtUnhooked DEF InstallFails, At, AppRest
<1>8. CASE IfRunning(t)
  BY <1>8, ReturnTurns, GoTurns, AtUnhooked DEF IfRunning, At, AppRest
<1>9. CASE StartInstalled(t)
  BY <1>9, HookTurns, AtUnhooked DEF StartInstalled, At, AppRest
<1>10. CASE InstallEnds(t)
  BY <1>10, ReturnTurns, SucceededUnhooked DEF InstallEnds, AppRest
<1>11. CASE Declared(t)
  <2>1. Turns(t)
    <3>1. pc' = Set(pc, t, "declare") /\ cur' = cur
      BY <1>11 DEF Declared, Goto, Keep, Set
    <3> QED BY <3>1, TurnsTo
  <2> QED BY <1>11, <2>1, AtUnhooked DEF Declared, Goto, At, AppRest
<1> QED BY <1>1, <1>2, <1>3, <1>4, <1>5, <1>6, <1>7, <1>8, <1>9, <1>10, <1>11 DEF InstallSteps

LEMMA TransitionUnhooked ==
  ASSUME IInv, NEW t \in Tasks, TransitionSteps(t)
  PROVE  Unhooked(t)
<1>1. CASE TransitionBegins(t)
  BY <1>1, ReturnTurns, GoTurns, AtUnhooked DEF TransitionBegins, At
<1>2. CASE Snapshot(t)
  <2>1. Turns(t)
    BY <1>2, TurnsTo DEF Snapshot, Goto, Set
  <2> QED BY <1>2, <2>1, AtUnhooked DEF Snapshot, Goto, At, AppRest
<1>3. CASE NextObject(t)
  BY <1>3, HookTurns, AtUnhooked DEF NextObject, At, AppRest
<1>4. CASE ObjectMoved(t)
  <2>1. Turns(t)
    BY TurnsTo, <1>4 DEF ObjectMoved
  <2> QED BY <1>4, <2>1, SucceededUnhooked DEF ObjectMoved, AppRest
<1>5. CASE TransitionEnds(t)
  BY <1>5, ReturnTurns, AtUnhooked DEF TransitionEnds, At
<1> QED BY <1>1, <1>2, <1>3, <1>4, <1>5 DEF TransitionSteps

LEMMA OtherUnhooked ==
  ASSUME IInv, NEW t \in Tasks, BindSteps(t) \/ ObserverSteps(t) \/ ShutdownSteps(t)
  PROVE  Unhooked(t)
<1>1. CASE Observe(t) \/ EraseObserver(t) \/ RequestShutdown(t) \/ LeaveWait(t)
  BY <1>1, ReturnTurns, AtUnhooked DEF Observe, EraseObserver, RequestShutdown, LeaveWait,
    At, AppRest
<1>2. CASE EdgeDrained(t) \/ RevokeWaits(t) \/ WaitShutdown(t) \/ ShutdownWaitEnds(t)
  BY <1>2, ReturnTurns, GoTurns, AtUnhooked DEF EdgeDrained, RevokeWaits, WaitShutdown,
    ShutdownWaitEnds, At, AppRest
<1>3. CASE Unbind(t) \/ UnbindLate(t) \/ EraseEdge(t) \/ BindingChanged(t)
  <2>1. Turns(t)
    <3>1. CASE Go(t, "changed")
      BY <3>1, GoTurns
    <3>2. CASE ~Go(t, "changed")
      <4>1. Return(t) \/ \E E : UnbindEdges(t, E) \/ UnbindEnds(t)
        BY <1>3, <3>2 DEF Unbind, UnbindLate, EraseEdge, BindingChanged
      <4> QED BY <4>1, ReturnTurns, UnbindTurns
    <3> QED BY <3>1, <3>2
  <2> QED BY <1>3, <2>1, AtUnhooked DEF Unbind, UnbindLate, EraseEdge, BindingChanged,
      UnbindRest,
      At, AppRest
<1>4. CASE Revoke(t)
  <2>1. Turns(t)
    BY TurnsTo, <1>4, ReturnTurns DEF Revoke
  <2> QED BY <1>4, <2>1, AtUnhooked DEF Revoke, At, AppRest
<1>5. CASE Bind(t)
  <2>1. Turns(t)
    BY <1>5, TurnsTo, ReturnTurns DEF Bind
  <2> QED BY <1>5, <2>1, AtUnhooked DEF Bind, At, AppRest
<1> QED BY <1>1, <1>2, <1>3, <1>4, <1>5 DEF BindSteps, ObserverSteps, ShutdownSteps

\* The first step of an operation on an object.
LEMMA FirstStep ==
  ASSUME NEW t \in Tasks, Closes(t), Kind(t) \in Closables
  PROVE  Head(Path(t)) # "refused"
  BY Paths DEF StopService, StopComponent, StopActor, UninstallService, UninstallComponent,
     UninstallActor

LEMMA FinishTurns ==
  ASSUME IInv, NEW t \in Tasks, Finish(t)
  PROVE  Turns(t)
<1>1. CASE InTurn(t)
  BY <1>1, TurnsTo DEF InTurn
<1>2. CASE Return(t)
  BY <1>2, ReturnTurns
<1> QED BY <1>1, <1>2 DEF Finish

LEMMA ProceedTurns ==
  ASSUME IInv, NEW t \in Tasks, NEW p, Proceed(t, p), UNCHANGED <<prog, todo, wait>>, Closes(t),
         \/ Kind(t) = "Service" /\ p \in {"drain", "erase", "OnStop"}
         \/ Kind(t) = "Component" /\ p \in {"unborrow", "OnStop"}
  PROVE  Turns(t)
<1>1. cur[t] \in Nat
  BY DEF IInv, TypedTasks
<1>2. PICK n : n = Behind(Op(t).do, Kind(t), p)
  OBVIOUS
<1>3. n # "refused"
  BY <1>2 DEF Behind
<1>4. After(t, prog[t], n, cur[t], todo[t], wait[t])
  BY <1>1, <1>2, Proceeds
<1> QED BY <1>3, <1>4 DEF After, Others, Turns

LEMMA CloseUnhooked ==
  ASSUME IInv, NEW t \in Tasks, CloseSteps(t)
  PROVE  Unhooked(t)
<1>1. CASE StopBegins(t) \/ StopEnds(t)
  BY <1>1, ReturnTurns, GoTurns, AtUnhooked DEF StopBegins, StopEnds, At
<1>2. CASE StopSnapshot(t) \/ GatherEdges(t) \/ RetireEdges(t)
  <2>1. (pc' = Set(pc, t, "next") \/ pc' = Set(pc, t, "drain")) /\ cur' = cur
    BY <1>2 DEF StopSnapshot, GatherEdges, RetireEdges, Goto, Set
  <2>2. Turns(t)
    BY <2>1, TurnsTo
  <2> QED BY <1>2, <2>2, AtUnhooked DEF StopSnapshot, GatherEdges, RetireEdges, Goto, At, AppRest
<1>3. CASE DestroyService(t) \/ DestroyComponent(t) \/ DestroyActor(t)
  <2>1. \E k \in Closables : InLine(t, k)
    BY <1>3 DEF DestroyService, DestroyComponent, DestroyActor, Closables
  <2>2. ToClose(t) /\ UNCHANGED hooks
    BY <1>3 DEF DestroyService, DestroyComponent, DestroyActor, AppRest
  <2>3. pc[t] = "next" /\ Closes(t) /\ Kind(t) \in Closables
    BY <2>1 DEF InLine, Closes, Kind, At
  <2>4. Head(Path(t)) # "refused"
    BY <2>3, FirstStep
  <2>5. Turns(t)
    BY <2>2, <2>4, TurnsTo DEF ToClose
  <2> QED BY <2>2, <2>3, <2>5, AtUnhooked
<1>4. CASE StopSkips(t)
  <2>1. Turns(t)
    BY <1>4, TurnsTo DEF StopSkips, InTurn
  <2> QED BY <1>4, <2>1, AtUnhooked DEF StopSkips, InLine, At, AppRest
<1>5. CASE UninstallBegins(t)
  <2>1. CASE Return(t)
    BY <1>5, <2>1, ReturnTurns, AtUnhooked DEF UninstallBegins, At, AppRest
  <2>2. CASE ~Return(t)
    <3>1. Does(t, "Uninstall") /\ ~Does(t, "Stop") /\ Op(t) \in Calls
      <4>1. Does(t, "Uninstall") /\ prog[t] # <<>>
        BY <1>5 DEF UninstallBegins, Does
      <4>2. ~Does(t, "Stop")
        BY <4>1 DEF Does
      <4>3. Op(t) \in Calls
        BY <4>1 DEF Op, IInv, TypedTasks
      <4> QED BY <4>1, <4>2, <4>3
    <3>2. Closes(t) /\ Kind(t) \in Closables
      <4>1. Kind(t) = Op(t).kind /\ Op(t).do = "Uninstall"
        BY <3>1 DEF Kind, Does
      <4> QED BY <3>1, <4>1 DEF Calls, Closables, Closes
    <3>3. Head(Path(t)) # "refused"
      BY <3>2, FirstStep
    <3>4. pc' = Set(pc, t, Head(Path(t))) /\ \E c : cur' = Set(cur, t, c)
      BY <1>5, <2>2 DEF UninstallBegins
    <3>5. Turns(t)
      BY <3>3, <3>4, TurnsTo
    <3> QED BY <1>5, <3>5, AtUnhooked DEF UninstallBegins, At, AppRest
  <2> QED BY <2>1, <2>2
<1>6. CASE EdgesDrained(t) \/ EraseEdges(t) \/ ComponentDrained(t)
  <2>1. /\ pc[t] \in {"drain", "erase", "unborrow"} /\ UNCHANGED <<hooks, prog, todo, wait>>
        /\ Proceed(t, pc[t])
    BY <1>6 DEF EdgesDrained, EraseEdges, ComponentDrained, At, AppRest
  <2>2. /\ Closes(t) /\ (pc[t] \in {"drain", "erase"} => Kind(t) = "Service")
        /\ pc[t] = "unborrow" => Kind(t) = "Component"
    BY <2>1, CloserPlace
  <2>3. Turns(t)
    BY <2>1, <2>2, ProceedTurns
  <2> QED BY <2>1, <2>3, AtUnhooked
<1>7. CASE DrainLate(t) \/ ObserversDone(t) \/ ScanObservers(t)
  BY <1>7, GoTurns, AtUnhooked DEF DrainLate, ObserversDone, ScanObservers, At, AppRest
<1>8. CASE OnStopFailed(t)
  BY <1>8, GoTurns, SucceededUnhooked DEF OnStopFailed, AppRest
<1>9. CASE OnStopDone(t)
  <2>1. /\ pc[t] \in HookPcs /\ UNCHANGED <<hooks, prog, todo, wait>> /\ Closes(t)
        /\ Succeeded(t) /\ Proceed(t, "OnStop")
    BY <1>9 DEF OnStopDone, AppRest, Succeeded, HookPcs, Closes
  <2>2. Kind(t) \in {"Service", "Component"}
    BY <2>1, HookPlace
  <2>3. Turns(t)
    BY <2>1, <2>2, ProceedTurns
  <2> QED BY <2>1, <2>3, SucceededUnhooked
<1>10. CASE ServiceOnUninstall(t) \/ ComponentOnUninstall(t)
  <2>1. pc' = Set(pc, t, "remove") /\ cur' = cur /\ pc[t] = "uninstall" /\ UNCHANGED hooks
    BY <1>10 DEF ServiceOnUninstall, ComponentOnUninstall, Goto, At, Keep, Set, AppRest
  <2> QED BY <2>1, TurnsTo, AtUnhooked
<1>11. CASE AbortDestroy(t) \/ EraseObservers(t)
  BY <1>11, FinishTurns, AtUnhooked DEF AbortDestroy, EraseObservers, At, AppRest
<1>12. CASE FinishDestroy(t) \/ FinishActorType(t)
  <2>1. Turns(t)
    <3>1. CASE FinishDestroy(t)
      <4>1. pc' = Set(pc, t, "scan") /\ cur' = cur
        BY <3>1 DEF FinishDestroy
      <4> QED BY <4>1, TurnsTo
    <3>2. CASE FinishActorType(t)
      BY <3>2, ReturnTurns DEF FinishActorType
    <3> QED BY <1>12, <3>1, <3>2
  <2> QED BY <1>12, <2>1, AtUnhooked DEF FinishDestroy, FinishActorType, At, AppRest
<1> QED BY <1>1, <1>2, <1>3, <1>4, <1>5, <1>6, <1>7, <1>8, <1>9, <1>10, <1>11, <1>12 DEF CloseSteps

LEMMA StepHooks ==
  ASSUME IInv, NEW t \in Tasks, Step(t)
  PROVE  \/ Unhooked(t) \/ EnterHook(t) \/ HookRefused(t) \/ HookLate(t)
         \/ UNCHANGED <<pc, cur, hooks>>
<1>1. CASE Callback(t) \/ CallbackEnds(t)
  BY <1>1 DEF Callback, CallbackEnds, AppVars, locals
<1> QED BY <1>1, HookUnhooked, InstallUnhooked, TransitionUnhooked, CloseUnhooked, OtherUnhooked
       DEF Step, HookSteps
-----------------------------------------------------------------------------
(* What a step does to the bindings, the subscriptions and the state.      *)

NoNewEdge ==
  /\ UNCHANGED <<issued, leases>>
  /\ edges' \subseteq edges \/ \E E : edges' = Retire(E)
NewBinding == /\ \E s, c : Bindable(s, c) /\ BindLocked(s, c)
              /\ UNCHANGED <<reg, nextId>>

LEMMA StepEdges ==
  ASSUME IInv, NEW t \in Tasks, Step(t)
  PROVE  NoNewEdge \/ NewBinding
<1> USE DEF NoNewEdge
<1>1. CASE HookSteps(t)
  BY <1>1 DEF HookSteps, Settle, Settled, EnterHook, HookRefused, HookLate, regVars, registry
<1>2. CASE InstallSteps(t)
  <2>1. CASE InstallBegins(t) \/ CreateRefused(t) \/ IfRunning(t) \/ CreateObject(t)
             \/ CreateActorType(t)
    BY <2>1 DEF InstallBegins, CreateRefused, CreateObject, CreateActorType, IfRunning, regVars,
      registry
  <2>2. CASE Declare(t)
    BY <2>2 DEF Declare, NewBinding
  <2>3. CASE Rollback(t)
    BY <2>3 DEF Rollback, UnbindEdges, UnbindRest
  <2>4. CASE OnInstall(t) \/ InstallFails(t) \/ StartInstalled(t) \/ InstallEnds(t)
    BY <2>4 DEF OnInstall, InstallFails, StartInstalled, InstallEnds, RegistryRest
  <2>5. CASE Declared(t)
    BY <2>5 DEF Declared, regVars, registry
  <2> QED BY <1>2, <2>1, <2>2, <2>3, <2>4, <2>5 DEF InstallSteps
<1>3. CASE TransitionSteps(t)
  BY <1>3 DEF TransitionSteps, TransitionBegins, Snapshot, NextObject, ObjectMoved, TransitionEnds,
    RegistryRest, regVars, registry
<1>4. CASE CloseSteps(t)
  <2>1. CASE \/ StopBegins(t) \/ StopSnapshot(t) \/ DestroyActor(t) \/ StopSkips(t) \/ StopEnds(t)
             \/ GatherEdges(t) \/ EdgesDrained(t) \/ DestroyComponent(t) \/ UninstallBegins(t)
    BY <2>1 DEF StopBegins, StopSnapshot, DestroyActor, StopSkips, StopEnds, GatherEdges,
      EdgesDrained, DestroyComponent, UninstallBegins, RegistryRest, regVars, registry
  <2>2. CASE \/ ComponentDrained(t) \/ DrainLate(t) \/ OnStopFailed(t) \/ OnStopDone(t)
             \/ ServiceOnUninstall(t) \/ ComponentOnUninstall(t) \/ AbortDestroy(t)
             \/ ScanObservers(t) \/ ObserversDone(t) \/ EraseObservers(t)
    BY <2>2 DEF ComponentDrained, DrainLate, OnStopFailed, OnStopDone, ServiceOnUninstall,
      ComponentOnUninstall, ScanObservers, ObserversDone, EraseObservers, AbortDestroy,
      RegistryRest, regVars, registry
  <2>3. CASE DestroyService(t) \/ RetireEdges(t)
    BY <2>3 DEF DestroyService, RetireEdges
  <2>4. CASE EraseEdges(t) \/ FinishDestroy(t) \/ FinishActorType(t)
    BY <2>4 DEF EraseEdges, EraseSubjectBindings, FinishDestroy, FinishActorType, Removed
  <2> QED BY <1>4, <2>1, <2>2, <2>3, <2>4 DEF CloseSteps
<1>5. CASE BindSteps(t)
  <2>1. CASE Bind(t)
    BY <2>1 DEF Bind, NewBinding
  <2>2. CASE Unbind(t)
    BY <2>2 DEF Unbind, UnbindEdges, UnbindRest
  <2>3. CASE EdgeDrained(t) \/ UnbindLate(t) \/ BindingChanged(t)
    BY <2>3 DEF EdgeDrained, UnbindLate, BindingChanged, regVars, registry
  <2>4. CASE EraseEdge(t)
    BY <2>4 DEF EraseEdge, EraseBinding, UnbindRest
  <2> QED BY <1>5, <2>1, <2>2, <2>3, <2>4 DEF BindSteps
<1>6. CASE ObserverSteps(t) \/ ShutdownSteps(t)
  BY <1>6 DEF ObserverSteps, Observe, Revoke, RevokeWaits, EraseObserver, ShutdownSteps,
    RequestShutdown, WaitShutdown, ShutdownWaitEnds, LeaveWait, regVars, registry
<1>7. CASE Callback(t) \/ CallbackEnds(t)
  BY <1>7 DEF Callback, CallbackEnds, DispatchBegin, DispatchEnd, registry
<1> QED BY <1>1, <1>2, <1>3, <1>4, <1>5, <1>6, <1>7 DEF Step

\* No callback begins or ends.
Resubscribed ==
  /\ UNCHANGED callback
  /\ \/ UNCHANGED <<observers, nextToken>>
     \/ \E K : Deactivate(K) \/ Erase(K)
     \/ \E i, j : i \in Nat /\ j \in Nat /\ Subscribe(i, j)

LEMMA StepWatches ==
  ASSUME IInv, NEW t \in Tasks, Step(t)
  PROVE  Resubscribed \/ Callback(t) \/ CallbackEnds(t)
<1> USE DEF Resubscribed
<1>1. CASE HookSteps(t)
  BY <1>1 DEF HookSteps, Settle, Settled, EnterHook, HookRefused, HookLate, regVars, watching
<1>2. CASE InstallSteps(t)
  BY <1>2 DEF InstallSteps, InstallBegins, CreateRefused, CreateObject, CreateActorType, Declare,
    Declared, Rollback, UnbindRest, OnInstall, InstallFails, IfRunning, StartInstalled, InstallEnds,
    SetState, Announce, RegistryRest, regVars, watching
<1>3. CASE TransitionSteps(t)
  BY <1>3 DEF TransitionSteps, TransitionBegins, Snapshot, NextObject, ObjectMoved, TransitionEnds,
    SetState, Announce, RegistryRest, regVars, watching
<1>4. CASE CloseSteps(t)
  <2>1. CASE \/ StopBegins(t) \/ StopSnapshot(t) \/ DestroyActor(t) \/ StopSkips(t) \/ StopEnds(t)
             \/ GatherEdges(t) \/ EdgesDrained(t) \/ DestroyComponent(t) \/ UninstallBegins(t)
             \/ DestroyService(t) \/ RetireEdges(t) \/ EraseEdges(t) \/ FinishActorType(t)
    BY <2>1 DEF StopBegins, StopSnapshot, DestroyActor, StopSkips, StopEnds, GatherEdges,
      EdgesDrained, DestroyComponent, UninstallBegins, RegistryRest, regVars, watching,
      DestroyService, RetireEdges, EraseEdges, FinishActorType, Announce
  <2>2. CASE \/ ComponentDrained(t) \/ DrainLate(t) \/ OnStopFailed(t) \/ OnStopDone(t)
             \/ ServiceOnUninstall(t) \/ ComponentOnUninstall(t) \/ AbortDestroy(t)
             \/ ObserversDone(t)
    BY <2>2 DEF ComponentDrained, DrainLate, OnStopFailed, OnStopDone, ServiceOnUninstall,
      ComponentOnUninstall, ObserversDone, AbortDestroy, Announce, RegistryRest, regVars, watching
  <2>3. CASE ScanObservers(t) \/ EraseObservers(t) \/ FinishDestroy(t)
    BY <2>3 DEF ScanObservers, EraseObservers, FinishDestroy
  <2> QED BY <1>4, <2>1, <2>2, <2>3 DEF CloseSteps
<1>5. CASE BindSteps(t)
  BY <1>5 DEF BindSteps, Bind, Unbind, EdgeDrained, UnbindLate, EraseEdge, BindingChanged,
      UnbindRest, regVars,
    watching
<1>6. CASE ObserverSteps(t)
  <2>1. CASE Observe(t)
    <3>1. UNCHANGED watching \/ \E p \in Subjects(Op(t)) \X Targets(Op(t)) : Subscribe(p[1], p[2])
      BY <2>1 DEF Observe
    <3>2. Subjects(Op(t)) \subseteq Nat /\ Targets(Op(t)) \subseteq Nat
      BY ObjectsAreIds DEF IInv, TypedReg
    <3> QED BY <2>1, <3>1, <3>2 DEF Observe, watching
  <2>2. CASE Revoke(t)
    BY <2>2 DEF Revoke, watching
  <2>3. CASE RevokeWaits(t) \/ EraseObserver(t)
    BY <2>3 DEF RevokeWaits, EraseObserver, regVars, watching
  <2> QED BY <1>6, <2>1, <2>2, <2>3 DEF ObserverSteps
<1>7. CASE ShutdownSteps(t)
  BY <1>7 DEF ShutdownSteps, RequestShutdown, WaitShutdown, ShutdownWaitEnds, LeaveWait, regVars,
    watching
<1> QED BY <1>1, <1>2, <1>3, <1>4, <1>5, <1>6, <1>7 DEF Step

LEMMA StepState ==
  ASSUME IInv, app \in AppStates, NEW t \in Tasks, Step(t)
  PROVE  app' \in AppStates
<1>1. CASE HookSteps(t)
  BY <1>1 DEF HookSteps, Settle, Settled, EnterHook, HookRefused, HookLate, state
<1>2. CASE InstallSteps(t)
  BY <1>2 DEF InstallSteps, InstallBegins, CreateRefused, CreateObject, CreateActorType, Declare,
    Declared, Rollback, UnbindRest, OnInstall, InstallFails, IfRunning, StartInstalled, InstallEnds,
    AppRest, state
<1>3. CASE TransitionSteps(t)
  BY <1>3 DEF TransitionSteps, TransitionBegins, Snapshot, NextObject, ObjectMoved, TransitionEnds,
    AppRest, state, AppStates, Transitions, ToState
<1>4. CASE CloseSteps(t)
  <2>1. CASE \/ StopBegins(t) \/ StopSnapshot(t) \/ DestroyActor(t) \/ StopSkips(t) \/ StopEnds(t)
             \/ GatherEdges(t) \/ EdgesDrained(t) \/ DestroyComponent(t) \/ UninstallBegins(t)
             \/ DestroyService(t) \/ RetireEdges(t) \/ EraseEdges(t) \/ FinishActorType(t)
    BY <2>1 DEF StopBegins, StopSnapshot, DestroyActor, StopSkips, StopEnds, GatherEdges,
      EdgesDrained, DestroyComponent, UninstallBegins, DestroyService, RetireEdges, EraseEdges,
      FinishActorType, AppRest, state, AppStates
  <2>2. CASE \/ ComponentDrained(t) \/ DrainLate(t) \/ OnStopFailed(t) \/ OnStopDone(t)
             \/ ServiceOnUninstall(t) \/ ComponentOnUninstall(t) \/ AbortDestroy(t)
             \/ ObserversDone(t) \/ ScanObservers(t) \/ EraseObservers(t) \/ FinishDestroy(t)
    BY <2>2 DEF ComponentDrained, DrainLate, OnStopFailed, OnStopDone, ServiceOnUninstall,
      ComponentOnUninstall, ObserversDone, AbortDestroy, ScanObservers, EraseObservers,
      FinishDestroy, AppRest, state
  <2> QED BY <1>4, <2>1, <2>2 DEF CloseSteps
<1>5. CASE BindSteps(t) \/ ObserverSteps(t) \/ ShutdownSteps(t)
  BY <1>5 DEF BindSteps, Bind, Unbind, EdgeDrained, UnbindLate, EraseEdge, BindingChanged,
      UnbindRest,
    ObserverSteps, Observe, Revoke, RevokeWaits, EraseObserver, ShutdownSteps, RequestShutdown,
    WaitShutdown, ShutdownWaitEnds, LeaveWait, AppRest, state
<1>6. CASE Callback(t) \/ CallbackEnds(t)
  BY <1>6 DEF Callback, CallbackEnds, AppVars, state
<1> QED BY <1>1, <1>2, <1>3, <1>4, <1>5, <1>6 DEF Step
-----------------------------------------------------------------------------
(* The limits.                                                             *)

LEMMA InitCount ==
  ASSUME Init
  PROVE  CountInv
<1> USE DEF Init, RegistryInit
<1>1. Ids = {1} /\ reg[1].hooks = 0 /\ reg[1].borrows = 0 /\ nextId = 2
  BY DEF Ids, AppEntry, Entry
<1>2. HooksInv
  <2>1. HooksOf(1) = {} /\ RefusedAt(1) = {} /\ Refused = {}
    BY DEF HooksOf, RefusedAt, Refused
  <2>2. HookRecords
    BY FS_EmptySet DEF HookRecords
  <2>3. Cardinality(HooksOf(1)) = 0 /\ Cardinality(RefusedAt(1)) = 0 /\ IsFiniteSet(Refused)
    BY <2>1, FS_EmptySet
  <2>4. \A t \in Refused : cur[t] < nextId
    BY <2>1
  <2> QED BY <1>1, <2>2, <2>3, <2>4 DEF HooksInv
<1>3. BorrowsInv
  <2>1. Lent(1) = {}
    BY DEF Lent
  <2> QED BY <1>1, <2>1, FS_EmptySet, SumNone DEF BorrowsInv
<1>4. LimitsInv
  <2>1. ActiveTokens = {} /\ DOMAIN observers = {}
    BY DEF ActiveTokens
  <2>2. Cardinality(Ids) = 1
    BY <1>1, FS_Singleton
  <2> QED BY <2>1, <2>2, FS_EmptySet, RegistryLimits DEF LimitsInv
<1>5. FlightInv
  <2>1. {t \in Tasks : callback[t] # 0} = {} /\ DOMAIN observers = {}
    OBVIOUS
  <2>2. IsFiniteSet({t \in Tasks : callback[t] # 0})
    BY <2>1, FS_EmptySet
  <2>3. \A t \in Tasks : callback[t] \in Nat /\ callback[t] < nextToken
    OBVIOUS
  <2> QED BY <2>1, <2>2, <2>3 DEF FlightInv
<1> QED BY <1>2, <1>3, <1>4, <1>5 DEF CountInv, AppStates

LEMMA ImageIsNoLarger ==
  ASSUME NEW S, IsFiniteSet(S), NEW f, DOMAIN f = S, NEW T, T = {f[x] : x \in S}, NEW g,
         g = [x \in S |-> f[x]]
  PROVE  IsFiniteSet(T) /\ Cardinality(T) <= Cardinality(S)
<1>1. g \in Surjection(S, T)
  BY DEF Surjection
<1> QED BY <1>1, FS_Surjection

LEMMA ObjectsWithinLimit ==
  ASSUME IInv, LimitsInv, Uncounted
  PROVE  Cardinality(Ids') <= MaxObjects
<1>1. IsFiniteSet(Ids) /\ Cardinality(Ids) \in Nat /\ MaxObjects \in Nat
  BY FS_CardinalityType, RegistryLimits DEF IInv, TypedReg
<1>2. CASE SameCounts
  <2>1. IsFiniteSet(Ids') /\ Cardinality(Ids') <= Cardinality(Ids)
    BY <1>1, <1>2, FS_Subset DEF SameCounts
  <2> QED BY <1>1, <2>1, FS_CardinalityType DEF LimitsInv
<1>3. CASE OneMore
  <2>1. Ids' = Ids \cup {nextId} /\ Cardinality(Ids) < MaxObjects
    BY <1>3 DEF OneMore, HasRoomForObject
  <2>2. Cardinality(Ids \cup {nextId}) = IF nextId \in Ids THEN Cardinality(Ids)
                                         ELSE Cardinality(Ids) + 1
    BY <1>1, FS_AddElement
  <2> QED BY <1>1, <2>1, <2>2
<1> QED BY <1>2, <1>3 DEF Uncounted

\* Every edge is still one, changed or not.
LEMMA EdgesChanged ==
  ASSUME IInv, LimitsInv, NEW f, DOMAIN f = edges, edges' = {f[e] : e \in edges}
  PROVE  IsFiniteSet(edges') /\ Cardinality(edges') <= MaxBindings
<1>1. PICK T : T = edges'
  OBVIOUS
<1>2. PICK g : g = [x \in edges |-> f[x]]
  OBVIOUS
<1>3. IsFiniteSet(T) /\ Cardinality(T) <= Cardinality(edges)
  BY <1>1, <1>2, ImageIsNoLarger DEF LimitsInv
<1> QED BY <1>1, <1>3, FS_CardinalityType, RegistryLimits DEF LimitsInv

LEMMA EdgesWithinLimit ==
  ASSUME IInv, LimitsInv,
         NoNewEdge \/ NewBinding \/ UNCHANGED edges \/ \E c, g, d : Counted(c, g, d)
  PROVE  IsFiniteSet(edges') /\ Cardinality(edges') <= MaxBindings
<1>1. /\ IsFiniteSet(edges) /\ Cardinality(edges) \in Nat /\ MaxBindings \in Nat
      /\ Cardinality(edges) <= MaxBindings
  BY FS_CardinalityType, RegistryLimits DEF LimitsInv
<1>2. CASE edges' \subseteq edges
  <2>1. IsFiniteSet(edges') /\ Cardinality(edges') <= Cardinality(edges)
    BY <1>1, <1>2, FS_Subset
  <2> QED BY <1>1, <2>1, FS_CardinalityType
<1>3. ASSUME NEW E, edges' = Retire(E)
      PROVE  IsFiniteSet(edges') /\ Cardinality(edges') <= MaxBindings
  <2>1. PICK f : f = [e \in edges |-> IF e \in E THEN [e EXCEPT !.retiring = TRUE] ELSE e]
    OBVIOUS
  <2>2. DOMAIN f = edges /\ edges' = {f[e] : e \in edges}
    BY <1>3, <2>1 DEF Retire
  <2> QED BY <2>2, EdgesChanged
<1>4. ASSUME NEW c, NEW g, NEW d, Counted(c, g, d)
      PROVE  IsFiniteSet(edges') /\ Cardinality(edges') <= MaxBindings
  <2>1. PICK f : f = [e \in edges |-> IF e.gen = g THEN [e EXCEPT !.borrows = @ + d] ELSE e]
    OBVIOUS
  <2>2. DOMAIN f = edges /\ edges' = {f[e] : e \in edges}
    BY <1>4, <2>1 DEF Counted
  <2> QED BY <2>2, EdgesChanged
<1>5. CASE NewBinding
  <2>1. PICK s, c : Bindable(s, c) /\ BindLocked(s, c)
    BY <1>5 DEF NewBinding
  <2>2. PICK n : edges' = edges \cup {n}
    BY <2>1 DEF BindLocked
  <2>3. Cardinality(edges) < MaxBindings
    BY <2>1 DEF Bindable
  <2>4. /\ IsFiniteSet(edges \cup {n})
        /\ Cardinality(edges \cup {n}) = IF n \in edges THEN Cardinality(edges)
                                         ELSE Cardinality(edges) + 1
    BY <1>1, FS_AddElement
  <2> QED BY <1>1, <2>2, <2>3, <2>4
<1> QED BY <1>2, <1>3, <1>4, <1>5 DEF NoNewEdge
-----------------------------------------------------------------------------
(* Subscriptions and callbacks.                                            *)

\* The records a callback's beginning or end changes: those that are there, as
\* active as they were, with one callback more or less of one of them.
Recount(k, d) ==
  \/ k \in DOMAIN observers /\ observers' = [observers EXCEPT ![k].inFlight = @ + d]
  \/ k \notin DOMAIN observers /\ observers' = observers

LEMMA Recounted ==
  ASSUME IInv, NEW k, NEW d \in Int, Recount(k, d)
  PROVE  /\ DOMAIN observers' = DOMAIN observers /\ ActiveTokens' = ActiveTokens
         /\ \A j \in DOMAIN observers :
              observers'[j].inFlight = observers[j].inFlight + (IF j = k THEN d ELSE 0)
<1>0. \A j \in DOMAIN observers : observers[j].inFlight \in Int
  BY DEF IInv, TypedWatch
<1>1. CASE k \in DOMAIN observers
  <2>1. observers[k] \in [observer : Nat, target : Nat, active : BOOLEAN, inFlight : Int]
    BY <1>1 DEF IInv, TypedWatch
  <2>2. PICK e : e = [observers[k] EXCEPT !.inFlight = observers[k].inFlight + d]
    OBVIOUS
  <2>3. e.active = observers[k].active /\ e.inFlight = observers[k].inFlight + d
    BY <2>1, <2>2
  <2>4. observers' = [observers EXCEPT ![k] = e]
    BY <1>1, <2>2 DEF Recount
  <2>5. DOMAIN observers' = DOMAIN observers
    BY <2>4
  <2>6. \A j \in DOMAIN observers : observers'[j] = IF j = k THEN e ELSE observers[j]
    BY <2>4
  <2>7. ActiveTokens' = ActiveTokens
    BY <2>3, <2>5, <2>6 DEF ActiveTokens
  <2> QED BY <1>0, <2>3, <2>5, <2>6, <2>7
<1>2. CASE k \notin DOMAIN observers
  <2>1. observers' = observers
    BY <1>2 DEF Recount
  <2> QED BY <1>0, <1>2, <2>1 DEF ActiveTokens
<1> QED BY <1>1, <1>2

LEMMA BeginsRecount ==
  ASSUME IInv, NEW t \in Tasks, NEW k, DispatchBegin(t, k)
  PROVE  \/ UNCHANGED <<observers, nextToken, callback>>
         \/ /\ Recount(k, 1) /\ k \in DOMAIN observers /\ nextToken' = nextToken
            /\ callback[t] = 0 /\ callback' = [callback EXCEPT ![t] = k]
  BY DEF DispatchBegin, Recount

LEMMA EndsRecount ==
  ASSUME IInv, NEW t \in Tasks, DispatchEnd(t)
  PROVE  /\ Recount(callback[t], -1) /\ nextToken' = nextToken
         /\ callback[t] # 0 /\ callback' = [callback EXCEPT ![t] = 0]
  BY DEF DispatchEnd, Recount

\* Records that stay keep their count, and no new one is counted.
LEMMA ResubscribedRecords ==
  ASSUME IInv, LimitsInv, FlightInv, Resubscribed
  PROVE  /\ IsFiniteSet(DOMAIN observers') /\ Cardinality(ActiveTokens') <= MaxObservers
         /\ nextToken' \in Nat /\ nextToken' >= nextToken
         /\ \A j \in DOMAIN observers' :
              \/ j \in DOMAIN observers /\ observers'[j].inFlight = observers[j].inFlight
              \/ j = nextToken /\ observers'[j].inFlight = 0
<1>1. /\ IsFiniteSet(DOMAIN observers) /\ IsFiniteSet(ActiveTokens) /\ nextToken \in Nat
      /\ Cardinality(ActiveTokens) \in Nat /\ Cardinality(ActiveTokens) <= MaxObservers
      /\ MaxObservers \in Nat
  <2>1. IsFiniteSet(DOMAIN observers) /\ ActiveTokens \subseteq DOMAIN observers
    BY DEF LimitsInv, ActiveTokens
  <2>2. IsFiniteSet(ActiveTokens)
    BY <2>1, FS_Subset
  <2> QED BY <2>1, <2>2, FS_CardinalityType, RegistryLimits DEF LimitsInv, IInv, TypedWatch
<1>2. ASSUME ActiveTokens' \subseteq ActiveTokens
      PROVE  Cardinality(ActiveTokens') <= MaxObservers
  <2>1. IsFiniteSet(ActiveTokens') /\ Cardinality(ActiveTokens') <= Cardinality(ActiveTokens)
    BY <1>1, <1>2, FS_Subset
  <2> QED BY <1>1, <2>1, FS_CardinalityType
<1>3. CASE UNCHANGED <<observers, nextToken>>
  <2>1. ActiveTokens' = ActiveTokens
    BY <1>3 DEF ActiveTokens
  <2> QED BY <1>1, <1>3, <2>1
<1>4. ASSUME NEW K, Deactivate(K)
      PROVE  /\ DOMAIN observers' = DOMAIN observers /\ ActiveTokens' \subseteq ActiveTokens
             /\ nextToken' = nextToken
             /\ \A j \in DOMAIN observers : observers'[j].inFlight = observers[j].inFlight
  <2>1. \A j \in DOMAIN observers :
          observers[j] \in [observer : Nat, target : Nat, active : BOOLEAN, inFlight : Int]
    BY DEF IInv, TypedWatch
  <2>2. DOMAIN observers' = DOMAIN observers /\ nextToken' = nextToken
    BY <1>4 DEF Deactivate, Deactivated
  <2>3. \A j \in DOMAIN observers :
          observers'[j] = observers[j] \/ observers'[j] = [observers[j] EXCEPT !.active = FALSE]
    BY <1>4 DEF Deactivate, Deactivated
  <2>4. \A j \in DOMAIN observers :
          /\ observers'[j].inFlight = observers[j].inFlight
          /\ observers'[j].active => observers[j].active
    BY <2>1, <2>3
  <2> QED BY <2>2, <2>4 DEF ActiveTokens
<1>5. ASSUME NEW K, Erase(K)
      PROVE  /\ DOMAIN observers' \subseteq DOMAIN observers /\ ActiveTokens' \subseteq ActiveTokens
             /\ nextToken' = nextToken
             /\ \A j \in DOMAIN observers' : observers'[j].inFlight = observers[j].inFlight
  BY <1>5 DEF Erase, Restrict, ActiveTokens
<1>6. ASSUME NEW i, NEW j, Subscribe(i, j)
      PROVE  /\ IsFiniteSet(DOMAIN observers') /\ Cardinality(ActiveTokens') <= MaxObservers
             /\ nextToken' = nextToken + 1
             /\ \A k \in DOMAIN observers' :
                  \/ k \in DOMAIN observers /\ observers'[k].inFlight = observers[k].inFlight
                  \/ k = nextToken /\ observers'[k].inFlight = 0
  <2>1. DOMAIN observers' = DOMAIN observers \cup {nextToken} /\ nextToken' = nextToken + 1
    BY <1>6 DEF Subscribe
  <2>2. \A k \in DOMAIN observers' :
          observers'[k] = IF k = nextToken
                          THEN [observer |-> i, target |-> j, active |-> TRUE, inFlight |-> 0]
                          ELSE observers[k]
    BY <1>6 DEF Subscribe
  <2>3. ActiveTokens' \subseteq ActiveTokens \cup {nextToken}
    BY <2>1, <2>2 DEF ActiveTokens
  <2>4. /\ IsFiniteSet(ActiveTokens \cup {nextToken})
        /\ Cardinality(ActiveTokens \cup {nextToken}) <= MaxObservers
        /\ Cardinality(ActiveTokens \cup {nextToken}) \in Nat
    <3>1. /\ IsFiniteSet(ActiveTokens \cup {nextToken})
          /\ Cardinality(ActiveTokens \cup {nextToken}) =
               IF nextToken \in ActiveTokens THEN Cardinality(ActiveTokens)
               ELSE Cardinality(ActiveTokens) + 1
      BY <1>1, FS_AddElement
    <3>2. Cardinality(ActiveTokens) < MaxObservers
      BY <1>6 DEF Subscribe
    <3> QED BY <1>1, <3>1, <3>2
  <2>5. IsFiniteSet(ActiveTokens') /\ Cardinality(ActiveTokens') <= MaxObservers
    <3>1. IsFiniteSet(ActiveTokens')
          /\ Cardinality(ActiveTokens') <= Cardinality(ActiveTokens \cup {nextToken})
      BY <2>3, <2>4, FS_Subset
    <3> QED BY <1>1, <2>4, <3>1, FS_CardinalityType
  <2>6. IsFiniteSet(DOMAIN observers')
    BY <1>1, <2>1, FS_AddElement
  <2> QED BY <2>1, <2>2, <2>5, <2>6
<1>7. ASSUME NEW K, Deactivate(K) \/ Erase(K)
      PROVE  /\ IsFiniteSet(DOMAIN observers') /\ Cardinality(ActiveTokens') <= MaxObservers
             /\ nextToken' = nextToken
             /\ \A j \in DOMAIN observers' :
                  j \in DOMAIN observers /\ observers'[j].inFlight = observers[j].inFlight
  <2>1. DOMAIN observers' \subseteq DOMAIN observers /\ ActiveTokens' \subseteq ActiveTokens
    BY <1>4, <1>5, <1>7
  <2>2. IsFiniteSet(DOMAIN observers')
    BY <1>1, <2>1, FS_Subset
  <2> QED BY <1>2, <1>4, <1>5, <1>7, <2>1, <2>2
<1> QED BY <1>1, <1>3, <1>6, <1>7 DEF Resubscribed

LEMMA ResubscribedCounts ==
  ASSUME IInv, LimitsInv, FlightInv, Resubscribed
  PROVE  FlightInv'
<1>1. /\ nextToken' \in Nat /\ nextToken' >= nextToken /\ nextToken \in Nat
      /\ \A j \in DOMAIN observers' :
           \/ j \in DOMAIN observers /\ observers'[j].inFlight = observers[j].inFlight
           \/ j = nextToken /\ observers'[j].inFlight = 0
  BY ResubscribedRecords DEF IInv, TypedWatch
<1>2. callback' = callback
  BY DEF Resubscribed
<1>3. CallersOf(nextToken) = {}
  BY <1>1 DEF FlightInv, CallersOf
<1>4. ASSUME NEW j \in DOMAIN observers'
      PROVE  j > 0 /\ observers'[j].inFlight = Cardinality({t \in Tasks : callback'[t] = j})
  <2>1. CASE j \in DOMAIN observers /\ observers'[j].inFlight = observers[j].inFlight
    BY <1>2, <2>1 DEF FlightInv, CallersOf
  <2>2. CASE j = nextToken /\ observers'[j].inFlight = 0
    <3>1. {t \in Tasks : callback'[t] = j} = {}
      BY <1>2, <1>3, <2>2 DEF CallersOf
    <3>2. Cardinality({t \in Tasks : callback'[t] = j}) = 0
      BY <3>1, FS_EmptySet
    <3> QED BY <2>2, <3>2 DEF FlightInv
  <2> QED BY <1>1, <2>1, <2>2
<1>5. \A t \in Tasks : callback'[t] \in Nat /\ callback'[t] < nextToken'
  BY <1>1, <1>2 DEF FlightInv
<1>6. IsFiniteSet({t \in Tasks : callback'[t] # 0}) /\ nextToken' > 0
  BY <1>1, <1>2 DEF FlightInv
<1> QED BY <1>4, <1>5, <1>6 DEF FlightInv, CallersOf
\* A callback that begins or ends is one caller more or less of its token.
LEMMA CallbackCounts ==
  ASSUME IInv, LimitsInv, FlightInv, NEW t \in Tasks, Callback(t) \/ CallbackEnds(t)
  PROVE  /\ FlightInv'
         /\ IsFiniteSet(DOMAIN observers') /\ Cardinality(ActiveTokens') <= MaxObservers
<1>1. DOMAIN callback = Tasks /\ nextToken \in Nat /\ DOMAIN observers \subseteq Nat
  BY DEF IInv, TypedWatch
<1>2. IsFiniteSet({u \in Tasks : callback[u] # 0})
  BY DEF FlightInv
<1>3. \A j \in DOMAIN observers : /\ j > 0 /\ j < nextToken /\ j \in Nat /\ j # 0
                                  /\ observers[j].inFlight = Cardinality(CallersOf(j))
  <2>1. \A j \in DOMAIN observers : j > 0 /\ j < nextToken /\ j \in Nat
    BY <1>1 DEF FlightInv, IInv, WatchInv
  <2>2. \A j \in DOMAIN observers : j # 0
    BY <2>1
  <2> QED BY <2>1, <2>2 DEF FlightInv
<1>4. \A j \in DOMAIN observers : IsFiniteSet(CallersOf(j)) /\ Cardinality(CallersOf(j)) \in Nat
  <2>1. SUFFICES ASSUME NEW j \in DOMAIN observers
                 PROVE  IsFiniteSet(CallersOf(j)) /\ Cardinality(CallersOf(j)) \in Nat
    OBVIOUS
  <2>2. CallersOf(j) \subseteq {u \in Tasks : callback[u] # 0}
    <3>1. j # 0
      BY <1>3
    <3> QED BY <3>1 DEF CallersOf
  <2>3. IsFiniteSet(CallersOf(j))
    BY <1>2, <2>2, FS_Subset
  <2> QED BY <2>3, FS_CardinalityType
<1>5. CASE UNCHANGED <<observers, nextToken, callback>>
  <2>1. ActiveTokens' = ActiveTokens
    BY <1>5 DEF ActiveTokens
  <2> QED BY <1>5, <2>1 DEF FlightInv, LimitsInv, CallersOf
<1>6. ASSUME NEW k, Recount(k, 1), k \in DOMAIN observers, nextToken' = nextToken,
             callback[t] = 0, callback' = [callback EXCEPT ![t] = k]
      PROVE  /\ FlightInv'
             /\ IsFiniteSet(DOMAIN observers') /\ Cardinality(ActiveTokens') <= MaxObservers
  <2>1. /\ DOMAIN observers' = DOMAIN observers /\ ActiveTokens' = ActiveTokens
        /\ \A j \in DOMAIN observers :
             observers'[j].inFlight = observers[j].inFlight + (IF j = k THEN 1 ELSE 0)
    BY <1>6, Recounted
  <2>2. \A u \in Tasks : callback'[u] = IF u = t THEN k ELSE callback[u]
    BY <1>1, <1>6
  <2>3. ASSUME NEW j \in DOMAIN observers
        PROVE  observers'[j].inFlight = Cardinality({u \in Tasks : callback'[u] = j})
    <3>1. CASE j = k
      <4>1. {u \in Tasks : callback'[u] = j} = CallersOf(j) \cup {t} /\ t \notin CallersOf(j)
        <5>1. j # 0
          BY <1>3
        <5> QED BY <1>6, <2>2, <3>1, <5>1 DEF CallersOf
      <4>2. Cardinality(CallersOf(j) \cup {t}) = Cardinality(CallersOf(j)) + 1
        BY <1>4, <4>1, FS_AddElement
      <4> QED BY <1>3, <2>1, <3>1, <4>1, <4>2
    <3>2. CASE j # k
      <4>1. {u \in Tasks : callback'[u] = j} = CallersOf(j)
        <5>1. j # 0
          BY <1>3
        <5> QED BY <1>6, <2>2, <3>2, <5>1 DEF CallersOf
      <4>2. observers'[j].inFlight = observers[j].inFlight + 0
        BY <2>1, <3>2
      <4>3. observers[j].inFlight = Cardinality(CallersOf(j)) /\ Cardinality(CallersOf(j)) \in Nat
        BY <1>3, <1>4
      <4> QED BY <4>1, <4>2, <4>3
    <3> QED BY <3>1, <3>2
  <2>4. IsFiniteSet({u \in Tasks : callback'[u] # 0})
    <3>1. {u \in Tasks : callback'[u] # 0} = {u \in Tasks : callback[u] # 0} \cup {t}
      BY <1>3, <1>6, <2>2
    <3> QED BY <1>2, <3>1, FS_AddElement
  <2>5. \A u \in Tasks : callback'[u] \in Nat /\ callback'[u] < nextToken'
    BY <1>3, <1>6, <2>2 DEF FlightInv
  <2>6. nextToken' > 0 /\ \A j \in DOMAIN observers' : j > 0
    BY <1>3, <1>6, <2>1 DEF FlightInv
  <2> QED BY <2>1, <2>3, <2>4, <2>5, <2>6 DEF FlightInv, LimitsInv, CallersOf
<1>7. ASSUME Recount(callback[t], -1), nextToken' = nextToken,
             callback[t] # 0, callback' = [callback EXCEPT ![t] = 0]
      PROVE  /\ FlightInv'
             /\ IsFiniteSet(DOMAIN observers') /\ Cardinality(ActiveTokens') <= MaxObservers
  <2>1. /\ DOMAIN observers' = DOMAIN observers /\ ActiveTokens' = ActiveTokens
        /\ \A j \in DOMAIN observers :
             observers'[j].inFlight
               = observers[j].inFlight + (IF j = callback[t] THEN -1 ELSE 0)
    BY <1>7, Recounted
  <2>2. \A u \in Tasks : callback'[u] = IF u = t THEN 0 ELSE callback[u]
    BY <1>1, <1>7
  <2>3. ASSUME NEW j \in DOMAIN observers
        PROVE  observers'[j].inFlight = Cardinality({u \in Tasks : callback'[u] = j})
    <3>1. CASE j = callback[t]
      <4>1. {u \in Tasks : callback'[u] = j} = CallersOf(j) \ {t} /\ t \in CallersOf(j)
        BY <1>3, <1>7, <2>2, <3>1 DEF CallersOf
      <4>2. Cardinality(CallersOf(j) \ {t}) = Cardinality(CallersOf(j)) - 1
        BY <1>4, <4>1, FS_RemoveElement
      <4> QED BY <1>3, <1>4, <2>1, <3>1, <4>1, <4>2
    <3>2. CASE j # callback[t]
      <4>1. {u \in Tasks : callback'[u] = j} = CallersOf(j)
        <5>1. j # 0
          BY <1>3
        <5> QED BY <1>7, <2>2, <3>2, <5>1 DEF CallersOf
      <4>2. observers'[j].inFlight = observers[j].inFlight + 0
        BY <2>1, <3>2
      <4>3. observers[j].inFlight = Cardinality(CallersOf(j)) /\ Cardinality(CallersOf(j)) \in Nat
        BY <1>3, <1>4
      <4> QED BY <4>1, <4>2, <4>3
    <3> QED BY <3>1, <3>2
  <2>4. IsFiniteSet({u \in Tasks : callback'[u] # 0})
    <3>1. {u \in Tasks : callback'[u] # 0} \subseteq {u \in Tasks : callback[u] # 0}
      BY <2>2
    <3> QED BY <1>2, <3>1, FS_Subset
  <2>5. nextToken > 0
    BY DEF FlightInv
  <2>6. \A u \in Tasks : callback'[u] \in Nat /\ callback'[u] < nextToken'
    BY <1>1, <1>7, <2>2, <2>5 DEF FlightInv
  <2>7. nextToken' > 0 /\ \A j \in DOMAIN observers' : j > 0
    BY <1>3, <1>7, <2>1, <2>5
  <2> QED BY <2>1, <2>3, <2>4, <2>6, <2>7 DEF FlightInv, LimitsInv, CallersOf
<1>8. CASE Callback(t)
  <2>1. PICK k : DispatchBegin(t, k)
    BY <1>8 DEF Callback
  <2> QED BY <1>5, <1>6, <2>1, BeginsRecount
<1>9. CASE CallbackEnds(t)
  <2>1. DispatchEnd(t)
    BY <1>9 DEF CallbackEnds
  <2> QED BY <1>7, <2>1, EndsRecount
<1> QED BY <1>8, <1>9

-----------------------------------------------------------------------------
(* Borrows.                                                                *)

\* Every handle is counted in numbers.
LEMMA LentNumbers ==
  ASSUME IInv, BorrowsInv, NEW i
  PROVE  IsFiniteSet(Lent(i)) /\ Numbers(leases, Lent(i)) /\ Lent(i) \subseteq issued
<1>1. Lent(i) \subseteq issued
  BY DEF Lent
<1>2. IsFiniteSet(Lent(i))
  BY <1>1, FS_Subset DEF BorrowsInv
<1>3. \A h \in Lent(i) : leases[h] \in Nat
  BY <1>1 DEF IInv, TypedEdges
<1> QED BY <1>1, <1>2, <1>3 DEF Numbers

\* An object that is new was never lent.
LEMMA KeptBorrows ==
  ASSUME IInv, BorrowsInv, SameBorrows, UNCHANGED <<issued, leases>>
  PROVE  BorrowsInv'
<1>1. IsFiniteSet(issued')
  BY DEF BorrowsInv
<1>2. ASSUME NEW i \in Ids'
      PROVE  reg'[i].borrows = SumFunctionOnSet(leases', {h \in issued' : h.comp = i})
  <2>1. CASE i \in Ids /\ reg'[i].borrows = reg[i].borrows
    BY <2>1 DEF BorrowsInv, Lent
  <2>2. CASE i = nextId /\ reg'[i].borrows = 0
    <3>1. \A h \in issued : h.comp < nextId /\ nextId \in Nat
      BY DEF IInv, LeaseInv, TypedReg
    <3>2. {h \in issued' : h.comp = i} = {}
      BY <2>2, <3>1
    <3> QED BY <2>2, <3>2, SumNone
  <2> QED BY <2>1, <2>2 DEF SameBorrows
<1> QED BY <1>1, <1>2 DEF BorrowsInv, Lent

LEMMA BindingBorrows ==
  ASSUME IInv, BorrowsInv, NewBinding, Uncounted, nextId' = nextId
  PROVE  BorrowsInv'
<1>1. PICK s, c : BindLocked(s, c)
  BY DEF NewBinding
<1>2. PICK h : h = [comp |-> c, subj |-> s, gen |-> nextGen]
  OBVIOUS
<1>3. h.gen = nextGen /\ h.comp = c
  BY <1>2
<1>4. issued' = issued \cup {h} /\ leases' = [x \in issued \cup {h} |-> IF x = h THEN 0 ELSE leases[x]]
  BY <1>1, <1>2 DEF BindLocked
<1>5. h \notin issued
  BY <1>3 DEF IInv, LeaseInv, TypedEdges
<1>6. IsFiniteSet(issued')
  BY <1>4, FS_AddElement DEF BorrowsInv
<1>7. ASSUME NEW i \in Ids'
      PROVE  reg'[i].borrows = SumFunctionOnSet(leases', {x \in issued' : x.comp = i})
  <2>1. i \in Ids /\ reg'[i].borrows = SumFunctionOnSet(leases, Lent(i))
    <3>1. SameCounts
      BY DEF Uncounted, OneMore, IInv, TypedReg
    <3> QED BY <3>1 DEF SameCounts, BorrowsInv
  <2>2. IsFiniteSet(Lent(i)) /\ Numbers(leases, Lent(i)) /\ Lent(i) \subseteq issued
    BY LentNumbers
  <2>3. \A x \in Lent(i) : leases'[x] = leases[x]
    BY <1>4, <1>5, <2>2
  <2>4. SumFunctionOnSet(leases', Lent(i)) = SumFunctionOnSet(leases, Lent(i))
    BY <2>2, <2>3, SumAgrees
  <2>5. CASE c # i
    <3>1. {x \in issued' : x.comp = i} = Lent(i)
      BY <1>3, <1>4, <2>5 DEF Lent
    <3> QED BY <2>1, <2>4, <3>1
  <2>6. CASE c = i
    <3>1. PICK K : K = {x \in issued' : x.comp = i}
      OBVIOUS
    <3>2. K = Lent(i) \cup {h} /\ h \notin Lent(i)
      BY <1>3, <1>4, <1>5, <2>2, <2>6, <3>1 DEF Lent
    <3>3. leases'[h] = 0
      BY <1>4
    <3>4. IsFiniteSet(K) /\ Numbers(leases', K) /\ h \in K
      BY <2>2, <2>3, <3>2, <3>3, FS_AddElement DEF Numbers
    <3>5. K \ {h} = Lent(i)
      BY <3>2
    <3>6. SumFunctionOnSet(leases', K) = SumFunctionOnSet(leases', Lent(i)) + leases'[h]
      BY <3>4, <3>5, SumRemove
    <3>7. SumFunctionOnSet(leases, Lent(i)) \in Nat
      BY <2>2, SumNumber
    <3> QED BY <2>1, <2>4, <3>1, <3>3, <3>6, <3>7
  <2> QED BY <2>5, <2>6
<1> QED BY <1>6, <1>7 DEF BorrowsInv, Lent
\* A lease is made or given up: the borrows of its component follow.
LEMMA LeaseCounts ==
  ASSUME IInv, BorrowsInv, NEW h \in issued, NEW d \in Int, NEW n \in Nat, n = leases[h] + d,
         leases' = [leases EXCEPT ![h] = n], issued' = issued, nextId' = nextId,
         h.comp \in Ids => \E g : Counted(h.comp, g, d), h.comp \notin Ids => reg' = reg
  PROVE  BorrowsInv' /\ Ids' = Ids /\ SameHooks
<1>1. /\ \A i \in Ids : reg[i] \in Entries
      /\ leases \in [issued -> Nat] /\ nextId \in Nat
  BY DEF IInv, TypedReg, TypedEdges
<1>2. \A x \in issued : leases'[x] = IF x = h THEN n ELSE leases[x]
  BY <1>1
<1>3. /\ Ids' = Ids
      /\ \A i \in Ids : /\ reg'[i].hooks = reg[i].hooks
                        /\ reg'[i].borrows = reg[i].borrows + (IF i = h.comp THEN d ELSE 0)
  <2>1. CASE h.comp \in Ids
    <3>1. reg' = [reg EXCEPT ![h.comp].borrows = @ + d]
      BY <2>1 DEF Counted
    <3>2. PICK e : e = [reg[h.comp] EXCEPT !.borrows = reg[h.comp].borrows + d]
      OBVIOUS
    <3>3. e.hooks = reg[h.comp].hooks /\ e.borrows = reg[h.comp].borrows + d
      BY <1>1, <2>1, <3>2 DEF Entries
    <3>4. DOMAIN reg' = DOMAIN reg /\ \A i \in Ids : reg'[i] = IF i = h.comp THEN e ELSE reg[i]
      BY <2>1, <3>1, <3>2 DEF Ids
    <3>5. \A i \in Ids : reg[i].borrows \in Int
      BY <1>1 DEF Entries
    <3> QED BY <3>3, <3>4, <3>5 DEF Ids
  <2>2. CASE h.comp \notin Ids
    <3>1. reg' = reg /\ \A i \in Ids : i # h.comp /\ reg[i].borrows \in Int
      BY <1>1, <2>2 DEF Entries
    <3> QED BY <3>1 DEF Ids
  <2> QED BY <2>1, <2>2
<1>4. ASSUME NEW i \in Ids
      PROVE  reg'[i].borrows = SumFunctionOnSet(leases', {x \in issued' : x.comp = i})
  <2>1. IsFiniteSet(Lent(i)) /\ Numbers(leases, Lent(i)) /\ Lent(i) \subseteq issued
    BY LentNumbers
  <2>2. {x \in issued' : x.comp = i} = Lent(i)
    BY DEF Lent
  <2>3. reg[i].borrows = SumFunctionOnSet(leases, Lent(i))
    BY DEF BorrowsInv
  <2>4. SumFunctionOnSet(leases, Lent(i)) \in Nat
    BY <2>1, SumNumber
  <2>5. CASE i = h.comp
    <3>1. h \in Lent(i)
      BY <2>5 DEF Lent
    <3>2. PICK f, g, K : f = leases /\ g = leases' /\ K = Lent(i)
      OBVIOUS
    <3>3. g[h] = f[h] + d /\ \A k \in K : k # h => g[k] = f[k]
      BY <1>2, <2>1, <3>2
    <3>6. Numbers(f, K) /\ Numbers(g, K) /\ IsFiniteSet(K) /\ h \in K
      BY <1>1, <1>2, <2>1, <3>1, <3>2 DEF Numbers
    <3>7. SumFunctionOnSet(g, K) = SumFunctionOnSet(f, K) + d
      BY ONLY d \in Int, <3>3, <3>6, SumChange
    <3>4. SumFunctionOnSet(leases', Lent(i)) = SumFunctionOnSet(leases, Lent(i)) + d
      BY <3>2, <3>7
    <3>5. reg'[i].borrows = reg[i].borrows + d
      BY <1>3, <2>5
    <3> QED BY <2>2, <2>3, <3>4, <3>5
  <2>6. CASE i # h.comp
    <3>1. \A k \in Lent(i) : leases'[k] = leases[k]
      BY <1>2, <2>1, <2>6 DEF Lent
    <3>2. PICK f, g, K : f = leases /\ g = leases' /\ K = Lent(i)
      OBVIOUS
    <3>3. Numbers(f, K) /\ IsFiniteSet(K) /\ \A k \in K : g[k] = f[k]
      BY <2>1, <3>1, <3>2
    <3>4. SumFunctionOnSet(g, K) = SumFunctionOnSet(f, K)
      BY ONLY <3>3, SumAgrees
    <3>5. reg'[i].borrows = reg[i].borrows + 0 /\ reg[i].borrows \in Nat
      BY <1>3, <2>3, <2>4, <2>6
    <3>6. reg'[i].borrows = reg[i].borrows
      BY <3>5
    <3> QED BY <2>2, <2>3, <3>2, <3>4, <3>6
  <2> QED BY <2>5, <2>6
<1>5. BorrowsInv'
  BY <1>3, <1>4 DEF BorrowsInv, Lent
<1> QED BY <1>1, <1>3, <1>5 DEF SameHooks

LEMMA UserCounts ==
  ASSUME IInv, BorrowsInv, NEW h \in issued, UserBorrows(h) \/ UserReleases(h)
  PROVE  /\ BorrowsInv' /\ Ids' = Ids /\ SameHooks
         /\ UNCHANGED edges \/ \E c, g, d : Counted(c, g, d)
<1>1. leases[h] \in Nat
  BY DEF IInv, TypedEdges
<1>2. CASE UserBorrows(h)
  <2>1. h.comp \in Ids /\ issued' = issued /\ nextId' = nextId
    BY <1>2 DEF UserBorrows, Borrow
  <2>2. PICK e : Acquire(h.comp, e)
    BY <1>2 DEF UserBorrows, Borrow
  <2>3. Counted(h.comp, e.gen, 1)
    BY <2>2 DEF Acquire
  <2>4. PICK d \in Int, n \in Nat : d = 1 /\ n = leases[h] + d
    BY <1>1
  <2>5. leases' = [leases EXCEPT ![h] = n]
    BY <1>2, <2>4 DEF UserBorrows, Borrow
  <2>6. (h.comp \in Ids => \E g : Counted(h.comp, g, d)) /\ (h.comp \notin Ids => reg' = reg)
    BY <2>1, <2>3, <2>4
  <2>7. BorrowsInv' /\ Ids' = Ids /\ SameHooks
    BY <2>1, <2>4, <2>5, <2>6, LeaseCounts
  <2> QED BY <2>3, <2>7
<1>3. CASE UserReleases(h)
  <2>1. leases[h] > 0 /\ issued' = issued /\ nextId' = nextId
    BY <1>3 DEF UserReleases, Release
  <2>2. /\ h.comp \in Ids => Counted(h.comp, h.gen, -1)
        /\ h.comp \notin Ids => UNCHANGED <<reg, edges>>
    BY <1>3 DEF UserReleases, Release
  <2>3. PICK d, n : d = -1 /\ d \in Int /\ n = leases[h] - 1
    OBVIOUS
  <2>4. n \in Nat /\ n = leases[h] + d
    BY <1>1, <2>1, <2>3
  <2>5. leases' = [leases EXCEPT ![h] = n]
    BY <1>3, <2>3 DEF UserReleases, Release
  <2>6. (h.comp \in Ids => \E g : Counted(h.comp, g, d)) /\ (h.comp \notin Ids => reg' = reg)
    BY <2>2, <2>3
  <2>7. BorrowsInv' /\ Ids' = Ids /\ SameHooks
    BY <2>1, <2>3, <2>4, <2>5, <2>6, LeaseCounts
  <2> QED BY <2>2, <2>7
<1> QED BY <1>2, <1>3
-----------------------------------------------------------------------------
(* Hooks.                                                                  *)

\* Nobody's hook is counted otherwise.
LEMMA UnhookedCounts ==
  ASSUME IInv, HooksInv, SameHooks, NEW t,
         Unhooked(t) \/ UNCHANGED <<pc, cur, hooks>>
  PROVE  HooksInv'
<1>1. slot' = slot /\ running' = running /\ nextId \in Nat /\ nextId' \in Nat /\ nextId' >= nextId
  BY DEF Unhooked, hooks, SameHooks, IInv, TypedReg
<1>2. \A u \in Tasks : /\ pc'[u] = "refused" <=> pc[u] = "refused"
                       /\ pc[u] = "refused" => cur'[u] = cur[u]
                       /\ pc[u] = "await" /\ slot[u] = "none" => pc'[u] = "await"
  BY DEF Unhooked
<1>3. HookRecords'
  <2>1. \A r \in running : r.id \in Nat /\ r.id < nextId'
    BY <1>1 DEF HooksInv, HookRecords
  <2>2. \A r \in running : r.task # 0 => /\ r.task \in Tasks
                                         /\ pc'[r.task] = "await" /\ slot[r.task] = "none"
    BY <1>2 DEF HooksInv, HookRecords
  <2> QED BY <1>1, <2>1, <2>2 DEF HooksInv, HookRecords
<1>4. {u \in Tasks : pc'[u] = "refused"} = Refused
  BY <1>2 DEF Refused
<1>5. \A i : {u \in Tasks : pc'[u] = "refused" /\ cur'[u] = i} = RefusedAt(i)
  BY <1>2 DEF RefusedAt
<1>6. \A u \in Refused : cur'[u] = cur[u] /\ cur[u] < nextId /\ cur[u] \in Nat
  BY <1>2 DEF Refused, HooksInv, IInv, TypedTasks
<1>7. ASSUME NEW i \in Ids'
      PROVE  reg'[i].hooks = Cardinality({r \in running : r.id = i}) + Cardinality(RefusedAt(i))
  <2>1. CASE i \in Ids /\ reg'[i].hooks = reg[i].hooks
    BY <2>1 DEF HooksInv, HooksOf
  <2>2. CASE i = nextId /\ reg'[i].hooks = 0
    <3>1. {r \in running : r.id = i} = {}
      BY <1>1, <2>2 DEF HooksInv, HookRecords
    <3>2. RefusedAt(i) = {}
      BY <1>1, <2>2 DEF HooksInv, Refused, RefusedAt
    <3>3. Cardinality({r \in running : r.id = i}) = 0 /\ Cardinality(RefusedAt(i)) = 0
      BY <3>1, <3>2, FS_EmptySet
    <3> QED BY <2>2, <3>3
  <2> QED BY <2>1, <2>2 DEF SameHooks
<1>8. \A u \in Refused : cur'[u] < nextId'
  BY <1>1, <1>6
<1>9. IsFiniteSet(Refused)
  BY DEF HooksInv
<1>10. Refused' = Refused /\ \A i : {u \in Tasks : pc'[u] = "refused" /\ cur'[u] = i} = RefusedAt(i)
  BY <1>4, <1>5 DEF Refused
<1> QED BY <1>1, <1>3, <1>7, <1>8, <1>9, <1>10 DEF HooksInv, HooksOf, RefusedAt

\* What is counted of an object is finite.
LEMMA HooksFinite ==
  ASSUME HooksInv, NEW i
  PROVE  /\ IsFiniteSet(HooksOf(i)) /\ Cardinality(HooksOf(i)) \in Nat
         /\ IsFiniteSet(RefusedAt(i)) /\ Cardinality(RefusedAt(i)) \in Nat
<1>1. HooksOf(i) \subseteq running /\ RefusedAt(i) \subseteq Refused
  BY DEF HooksOf, RefusedAt, Refused
<1>2. IsFiniteSet(HooksOf(i)) /\ IsFiniteSet(RefusedAt(i))
  BY <1>1, FS_Subset DEF HooksInv, HookRecords
<1> QED BY <1>2, FS_CardinalityType

\* One hook more or less of an object, if it is there.
Rehooked(i, d) ==
  /\ Ids' = Ids /\ nextId' = nextId
  /\ \A j \in Ids : /\ reg'[j].hooks = reg[j].hooks + (IF j = i THEN d ELSE 0)
                    /\ reg'[j].borrows = reg[j].borrows

LEMMA EntryRehooked ==
  ASSUME IInv, NEW i \in Ids, NEW d \in Int, NEW e, reg' = [reg EXCEPT ![i] = e], nextId' = nextId,
         e.hooks = reg[i].hooks + d, e.borrows = reg[i].borrows
  PROVE  Rehooked(i, d)
<1>1. \A j \in Ids : reg[j].hooks \in Int
  BY DEF IInv, TypedReg, Entries
<1>2. Ids' = Ids /\ \A j \in Ids : reg'[j] = IF j = i THEN e ELSE reg[j]
  BY DEF Ids
<1>3. \A j \in Ids : reg'[j].hooks = reg[j].hooks + (IF j = i THEN d ELSE 0)
  BY <1>1, <1>2
<1> QED BY <1>2, <1>3 DEF Rehooked

LEMMA NotedRehooks ==
  ASSUME IInv, NEW i, NEW d, d = -1, reg' = Noted(i), nextId' = nextId
  PROVE  Rehooked(i, d)
<1>1. CASE i \in Ids
  <2>1. reg[i] \in Entries
    BY <1>1 DEF IInv, TypedReg
  <2>2. PICK n, w : reg' = [reg EXCEPT ![i].hooks = n, ![i].waiter = w] /\ n = reg[i].hooks - 1
    BY <1>1 DEF Noted
  <2>3. PICK e : e = [reg[i] EXCEPT !.hooks = n, !.waiter = w]
    OBVIOUS
  <2>4. e.hooks = n /\ e.borrows = reg[i].borrows
    BY <2>1, <2>3 DEF Entries
  <2>5. reg' = [reg EXCEPT ![i] = e]
    BY <1>1, <2>2, <2>3
  <2>6. d \in Int /\ e.hooks = reg[i].hooks + d
    BY <2>1, <2>2, <2>4 DEF Entries
  <2> QED BY <1>1, <2>4, <2>5, <2>6, EntryRehooked
<1>2. CASE i \notin Ids
  <2>1. \A j \in Ids : j # i /\ reg[j].hooks \in Int
    BY <1>2 DEF IInv, TypedReg, Entries
  <2>2. reg' = reg
    BY <1>2 DEF Noted
  <2>3. Ids' = Ids
    BY <2>2 DEF Ids
  <2>4. \A j \in Ids : reg'[j].hooks = reg[j].hooks + (IF j = i THEN d ELSE 0)
    BY <2>1, <2>2
  <2> QED BY <2>2, <2>3, <2>4 DEF Rehooked
<1> QED BY <1>1, <1>2

\* Then the two parts of the count are one more or less together.
LEMMA RehookedCounts ==
  ASSUME IInv, HooksInv, HookRecords', NEW i, NEW d \in Int, Rehooked(i, d),
         IsFiniteSet(Refused'), \A t \in Refused' : cur'[t] < nextId,
         NEW D, NEW E,
         \A j \in Ids : D[j] = {r \in running' : r.id = j},
         \A j \in Ids : E[j] = {t \in Tasks : pc'[t] = "refused" /\ cur'[t] = j},
         \A j \in Ids : j # i => D[j] = HooksOf(j) /\ E[j] = RefusedAt(j),
         i \in Ids => Cardinality(D[i]) + Cardinality(E[i])
                        = Cardinality(HooksOf(i)) + Cardinality(RefusedAt(i)) + d
  PROVE  HooksInv'
<1>1. Ids' = Ids /\ nextId' = nextId
  BY DEF Rehooked
<1>2. ASSUME NEW j \in Ids
      PROVE  reg'[j].hooks = Cardinality({r \in running' : r.id = j})
                             + Cardinality({t \in Tasks : pc'[t] = "refused" /\ cur'[t] = j})
  <2>1. reg[j].hooks = Cardinality(HooksOf(j)) + Cardinality(RefusedAt(j))
    BY DEF HooksInv
  <2>2. Cardinality(HooksOf(j)) \in Nat /\ Cardinality(RefusedAt(j)) \in Nat
    BY HooksFinite
  <2>3. reg'[j].hooks = reg[j].hooks + (IF j = i THEN d ELSE 0)
    BY DEF Rehooked
  <2>4. reg'[j].hooks = Cardinality(D[j]) + Cardinality(E[j])
    BY <2>1, <2>2, <2>3
  <2> QED BY <2>4
<1> QED BY <1>1, <1>2 DEF HooksInv, HooksOf, RefusedAt
LEMMA RehookedKeeps ==
  ASSUME IInv, NEW i, NEW d, Rehooked(i, d)
  PROVE  SameBorrows /\ Ids' = Ids
  BY DEF Rehooked, SameBorrows

LEMMA SameKeeps ==
  ASSUME IInv, UNCHANGED <<reg, nextId>>
  PROVE  SameHooks /\ SameBorrows /\ Ids' = Ids
<1>1. Uncounted
  BY SameReg DEF Uncounted
<1> QED BY <1>1, UncountedKeeps DEF Ids

\* The hook is one that runs, or one that was refused.
LEMMA EnterHookCounts ==
  ASSUME IInv, HooksInv, NEW t \in Tasks, EnterHook(t)
  PROVE  HooksInv' /\ SameBorrows /\ Ids' = Ids
<1>0. PICK i : i = cur[t]
  OBVIOUS
<1>1. pc[t] = "enter" /\ cur' = cur /\ nextId' = nextId /\ DOMAIN pc = Tasks /\ i \in Nat
  BY <1>0 DEF EnterHook, At, Keep, IInv, TypedTasks
<1>2. CASE i \notin Ids
  <2>1. reg' = reg /\ UNCHANGED hooks /\ pc' = Set(pc, t, "hookOk")
    BY <1>0, <1>2 DEF EnterHook
  <2>2. Unhooked(t)
    BY <1>1, <2>1 DEF Unhooked, Set
  <2> QED BY <1>1, <2>1, <2>2, SameKeeps, UnhookedCounts
<1>3. CASE i \in Ids
  <2>1. reg[i] \in Entries
    BY <1>3 DEF IInv, TypedReg
  <2>2. PICK d \in Int : d = 1
    OBVIOUS
  <2>3. PICK e : e = [reg[i] EXCEPT !.hooks = reg[i].hooks + d]
    OBVIOUS
  <2>4. e.hooks = reg[i].hooks + d /\ e.borrows = reg[i].borrows
    BY <2>1, <2>3 DEF Entries
  <2>5. reg' = [reg EXCEPT ![i] = e]
    BY <1>0, <1>3, <2>2, <2>3 DEF EnterHook
  <2>6. Rehooked(i, d)
    BY <1>1, <1>3, <2>4, <2>5, EntryRehooked
  <2>7. PICK D : D = [j \in Ids |-> {r \in running' : r.id = j}]
    OBVIOUS
  <2>8. PICK E : E = [j \in Ids |-> {u \in Tasks : pc'[u] = "refused" /\ cur'[u] = j}]
    OBVIOUS
  <2>9. /\ IsFiniteSet(HooksOf(i)) /\ Cardinality(HooksOf(i)) \in Nat
        /\ IsFiniteSet(RefusedAt(i)) /\ Cardinality(RefusedAt(i)) \in Nat
    BY HooksFinite
  <2>10. \A j \in Ids : D[j] = {r \in running' : r.id = j}
    BY <2>7
  <2>11. \A j \in Ids : E[j] = {u \in Tasks : pc'[u] = "refused" /\ cur'[u] = j}
    BY <2>8
  <2>12. ASSUME NEW m, running' = running \cup {[id |-> i, hook |-> hook[t], task |-> t, nr |-> m]},
                pc' = Set(pc, t, "await"), slot' = Set(slot, t, "none")
         PROVE  HooksInv'
    <3>1. PICK n : n = [id |-> i, hook |-> hook[t], task |-> t, nr |-> m]
      OBVIOUS
    <3>2. /\ n.id = i /\ n.task = t /\ DOMAIN n = {"id", "hook", "task", "nr"} /\ t # 0
          /\ running' = running \cup {n}
      BY <2>12, <3>1, NobodyIsNoTask
    <3>3. \A r \in running : r.task # t
      BY <1>1, <3>2 DEF HooksInv, HookRecords
    <3>4. \A u \in Tasks : /\ pc'[u] = IF u = t THEN "await" ELSE pc[u]
                           /\ slot'[u] = IF u = t THEN "none" ELSE slot[u]
      BY <1>1, <2>12 DEF Set, HooksInv, HookRecords
    <3>5. HookRecords'
      <4>1. IsFiniteSet(running') /\ DOMAIN slot' = Tasks
        BY <2>12, <3>2, FS_AddElement DEF HooksInv, HookRecords, Set
      <4>2. i < nextId
        BY <1>3 DEF IInv, TypedReg
      <4>3. ASSUME NEW r \in running'
            PROVE  /\ DOMAIN r = {"id", "hook", "task", "nr"} /\ r.id \in Nat /\ r.id < nextId'
                   /\ r.task # 0 => /\ r.task \in Tasks
                                    /\ pc'[r.task] = "await" /\ slot'[r.task] = "none"
        <5>1. CASE r = n
          BY <1>1, <3>2, <3>4, <4>2, <5>1
        <5>2. CASE r \in running
          BY <1>1, <3>3, <3>4, <5>2 DEF HooksInv, HookRecords
        <5> QED BY <3>2, <5>1, <5>2
      <4>4. \A r, q \in running' : r.task # 0 /\ q.task = r.task => q = r
        BY <3>2, <3>3 DEF HooksInv, HookRecords
      <4> QED BY <4>1, <4>3, <4>4 DEF HookRecords
    <3>6. \A u \in Tasks : pc'[u] = "refused" <=> pc[u] = "refused"
      BY <1>1, <3>4
    <3>7. \A j \in Ids : E[j] = RefusedAt(j)
      BY <1>1, <2>11, <3>6 DEF RefusedAt
    <3>8. \A j \in Ids : j # i => D[j] = HooksOf(j)
      BY <2>10, <3>2 DEF HooksOf
    <3>9. D[i] = HooksOf(i) \cup {n} /\ n \notin HooksOf(i)
      BY <1>3, <2>10, <3>2, <3>3 DEF HooksOf
    <3>10. Cardinality(D[i]) = Cardinality(HooksOf(i)) + 1
      BY <2>9, <3>9, FS_AddElement
    <3>11. Cardinality(D[i]) + Cardinality(E[i])
             = Cardinality(HooksOf(i)) + Cardinality(RefusedAt(i)) + d
      BY <1>3, <2>2, <2>9, <3>7, <3>10
    <3>12. Refused' = Refused /\ cur' = cur
      BY <1>1, <3>6 DEF Refused
    <3>13. IsFiniteSet(Refused') /\ \A u \in Refused' : cur'[u] < nextId
      BY <3>12 DEF HooksInv
    <3> QED BY <2>6, <2>10, <2>11, <3>5, <3>7, <3>8, <3>11, <3>13, RehookedCounts
  <2>13. ASSUME pc' = Set(pc, t, "refused"), UNCHANGED hooks
         PROVE  HooksInv'
    <3>1. \A u \in Tasks : pc'[u] = IF u = t THEN "refused" ELSE pc[u]
      BY <1>1, <2>13 DEF Set
    <3>2. slot' = slot /\ running' = running
      BY <2>13 DEF hooks
    <3>3. HookRecords'
      <4>1. \A r \in running : r.task # 0 => r.task # t
        BY <1>1 DEF HooksInv, HookRecords
      <4>2. \A r \in running : r.task # 0 => /\ r.task \in Tasks
                                             /\ pc'[r.task] = "await" /\ slot[r.task] = "none"
        BY <3>1, <4>1 DEF HooksInv, HookRecords
      <4> QED BY <1>1, <3>2, <4>2 DEF HooksInv, HookRecords
    <3>4. Refused' = Refused \cup {t}
      BY <3>1 DEF Refused
    <3>5. i < nextId
      BY <1>3 DEF IInv, TypedReg
    <3>6. IsFiniteSet(Refused') /\ \A u \in Refused' : cur'[u] < nextId
      BY <1>0, <1>1, <3>4, <3>5, FS_AddElement DEF HooksInv
    <3>7. \A j \in Ids : D[j] = HooksOf(j)
      BY <2>10, <3>2 DEF HooksOf
    <3>8. \A j \in Ids : j # i => E[j] = RefusedAt(j)
      BY <1>0, <1>1, <2>11, <3>1 DEF RefusedAt
    <3>9. E[i] = RefusedAt(i) \cup {t} /\ t \notin RefusedAt(i)
      BY <1>0, <1>1, <1>3, <2>11, <3>1 DEF RefusedAt
    <3>10. Cardinality(E[i]) = Cardinality(RefusedAt(i)) + 1
      BY <2>9, <3>9, FS_AddElement
    <3>11. Cardinality(D[i]) + Cardinality(E[i])
             = Cardinality(HooksOf(i)) + Cardinality(RefusedAt(i)) + d
      BY <1>3, <2>2, <2>9, <3>7, <3>10
    <3> QED BY <2>6, <2>10, <2>11, <3>3, <3>6, <3>7, <3>8, <3>11, RehookedCounts
  <2>14. HooksInv'
    <3>1. PICK m :
            \/ /\ pc' = Set(pc, t, "await") /\ slot' = Set(slot, t, "none")
               /\ running' = running \cup {[id |-> i, hook |-> hook[t], task |-> t, nr |-> m]}
            \/ pc' = Set(pc, t, "refused") /\ UNCHANGED hooks
      BY <1>0, <1>3 DEF EnterHook
    <3> QED BY <2>12, <2>13, <3>1
  <2> QED BY <2>6, <2>14, RehookedKeeps
<1> QED BY <1>2, <1>3

\* A refused hook is taken back.
LEMMA HookRefusedCounts ==
  ASSUME IInv, HooksInv, NEW t \in Tasks, HookRefused(t)
  PROVE  HooksInv' /\ SameBorrows /\ Ids' = Ids
<1>0. PICK i, d : i = cur[t] /\ d = -1
  OBVIOUS
<1>1. /\ pc[t] = "refused" /\ cur' = cur /\ nextId' = nextId /\ DOMAIN pc = Tasks /\ d \in Int
      /\ reg' = Noted(i) /\ UNCHANGED hooks /\ pc' = Set(pc, t, "hookFailed")
  BY <1>0 DEF HookRefused, Goto, At, Keep, IInv, TypedTasks, Set
<1>2. Rehooked(i, d)
  BY <1>0, <1>1, NotedRehooks
<1>3. PICK D : D = [j \in Ids |-> {r \in running' : r.id = j}]
  OBVIOUS
<1>4. PICK E : E = [j \in Ids |-> {u \in Tasks : pc'[u] = "refused" /\ cur'[u] = j}]
  OBVIOUS
<1>5. /\ IsFiniteSet(HooksOf(i)) /\ Cardinality(HooksOf(i)) \in Nat
      /\ IsFiniteSet(RefusedAt(i)) /\ Cardinality(RefusedAt(i)) \in Nat
  BY HooksFinite
<1>6. \A j \in Ids : D[j] = {r \in running' : r.id = j}
  BY <1>3
<1>7. \A j \in Ids : E[j] = {u \in Tasks : pc'[u] = "refused" /\ cur'[u] = j}
  BY <1>4
<1>8. \A u \in Tasks : pc'[u] = IF u = t THEN "hookFailed" ELSE pc[u]
  BY <1>1 DEF Set
<1>9. slot' = slot /\ running' = running
  BY <1>1 DEF hooks
<1>10. HookRecords'
  <2>1. \A r \in running : r.task # 0 => r.task # t
    BY <1>1 DEF HooksInv, HookRecords
  <2>2. \A r \in running : r.task # 0 => /\ r.task \in Tasks
                                         /\ pc'[r.task] = "await" /\ slot[r.task] = "none"
    BY <1>8, <2>1 DEF HooksInv, HookRecords
  <2> QED BY <1>1, <1>9, <2>2 DEF HooksInv, HookRecords
<1>11. Refused' \subseteq Refused
  BY <1>8 DEF Refused
<1>12. IsFiniteSet(Refused') /\ \A u \in Refused' : cur'[u] < nextId
  BY <1>1, <1>11, FS_Subset DEF HooksInv
<1>13. \A j \in Ids : D[j] = HooksOf(j)
  BY <1>6, <1>9 DEF HooksOf
<1>14. \A j \in Ids : j # i => E[j] = RefusedAt(j)
  BY <1>0, <1>1, <1>7, <1>8 DEF RefusedAt
<1>15. ASSUME i \in Ids
       PROVE  Cardinality(D[i]) + Cardinality(E[i])
                = Cardinality(HooksOf(i)) + Cardinality(RefusedAt(i)) + d
  <2>1. E[i] = RefusedAt(i) \ {t} /\ t \in RefusedAt(i)
    BY <1>0, <1>1, <1>7, <1>8, <1>15 DEF RefusedAt
  <2>2. Cardinality(E[i]) = Cardinality(RefusedAt(i)) - 1
    BY <1>5, <2>1, FS_RemoveElement
  <2> QED BY <1>0, <1>5, <1>13, <1>15, <2>2
<1>16. HooksInv'
  BY <1>1, <1>2, <1>6, <1>7, <1>10, <1>12, <1>13, <1>14, <1>15, RehookedCounts
<1> QED BY <1>2, <1>16, RehookedKeeps
\* A hook that runs comes to its end.
LEMMA HookEndsCounts ==
  ASSUME IInv, HooksInv, NEW r \in running, HookEnds(r)
  PROVE  HooksInv' /\ SameBorrows /\ Ids' = Ids
<1>0. PICK i, d : i = r.id /\ d = -1
  OBVIOUS
<1>1. /\ pc' = pc /\ cur' = cur /\ nextId' = nextId /\ d \in Int
      /\ reg' = Noted(i) /\ running' = running \ {r} /\ DOMAIN slot = Tasks
  BY <1>0 DEF HookEnds, locals, HooksInv, HookRecords
<1>2. Rehooked(i, d)
  BY <1>0, <1>1, NotedRehooks
<1>3. PICK D : D = [j \in Ids |-> {q \in running' : q.id = j}]
  OBVIOUS
<1>4. PICK E : E = [j \in Ids |-> {u \in Tasks : pc'[u] = "refused" /\ cur'[u] = j}]
  OBVIOUS
<1>5. /\ IsFiniteSet(HooksOf(i)) /\ Cardinality(HooksOf(i)) \in Nat
      /\ IsFiniteSet(RefusedAt(i)) /\ Cardinality(RefusedAt(i)) \in Nat
  BY HooksFinite
<1>6. \A j \in Ids : D[j] = {q \in running' : q.id = j}
  BY <1>3
<1>7. \A j \in Ids : E[j] = {u \in Tasks : pc'[u] = "refused" /\ cur'[u] = j}
  BY <1>4
<1>8. DOMAIN slot' = Tasks /\ \A u \in Tasks : u # r.task => slot'[u] = slot[u]
  BY <1>1 DEF HookEnds, SettleCoHookSlot, Set
<1>9. HookRecords'
  <2>1. IsFiniteSet(running')
    BY <1>1, FS_RemoveElement DEF HooksInv, HookRecords
  <2>2. \A q \in running' : q \in running /\ (q.task # 0 => q.task # r.task)
    BY <1>1 DEF HooksInv, HookRecords
  <2>3. \A q \in running' : q.task # 0 => /\ q.task \in Tasks
                                          /\ pc'[q.task] = "await" /\ slot'[q.task] = "none"
    BY <1>1, <1>8, <2>2 DEF HooksInv, HookRecords
  <2> QED BY <1>1, <1>8, <2>1, <2>2, <2>3 DEF HooksInv, HookRecords
<1>10. Refused' = Refused
  BY <1>1 DEF Refused
<1>11. IsFiniteSet(Refused') /\ \A u \in Refused' : cur'[u] < nextId
  BY <1>1, <1>10 DEF HooksInv
<1>12. \A j \in Ids : E[j] = RefusedAt(j)
  BY <1>1, <1>7 DEF RefusedAt
<1>13. \A j \in Ids : j # i => D[j] = HooksOf(j)
  BY <1>0, <1>1, <1>6 DEF HooksOf
<1>14. ASSUME i \in Ids
       PROVE  Cardinality(D[i]) + Cardinality(E[i])
                = Cardinality(HooksOf(i)) + Cardinality(RefusedAt(i)) + d
  <2>1. D[i] = HooksOf(i) \ {r} /\ r \in HooksOf(i)
    BY <1>0, <1>1, <1>6, <1>14 DEF HooksOf
  <2>2. Cardinality(D[i]) = Cardinality(HooksOf(i)) - 1
    BY <1>5, <2>1, FS_RemoveElement
  <2> QED BY <1>0, <1>5, <1>12, <1>14, <2>2
<1>15. HooksInv'
  BY <1>1, <1>2, <1>6, <1>7, <1>9, <1>11, <1>12, <1>13, <1>14, RehookedCounts
<1> QED BY <1>2, <1>15, RehookedKeeps

\* A hook nobody waits for any more keeps a record of its own.
LEMMA SomeNumberIsFree ==
  ASSUME NEW R, IsFiniteSet(R), NEW r, DOMAIN r = {"id", "hook", "task", "nr"}
  PROVE  \E n \in 1..(Cardinality(R) + 1) : [r EXCEPT !.task = 0, !.nr = n] \notin R
<1>0. PICK c \in Nat : c = Cardinality(R)
  BY FS_CardinalityType
<1>1. SUFFICES ASSUME \A n \in 1..(c + 1) : [r EXCEPT !.task = 0, !.nr = n] \in R
               PROVE  FALSE
  BY <1>0
<1>2. PICK f : f = [n \in 1..(c + 1) |-> [r EXCEPT !.task = 0, !.nr = n]]
  OBVIOUS
<1>3. f \in [1..(c + 1) -> R]
  BY <1>1, <1>2
<1>4. IsFiniteSet(1..(c + 1)) /\ Cardinality(1..(c + 1)) = c + 1
  BY FS_Interval
<1>5. Cardinality(R) < Cardinality(1..(c + 1))
  BY <1>0, <1>4
<1>6. PICK x \in 1..(c + 1), y \in 1..(c + 1) : x # y /\ f[x] = f[y]
  BY <1>3, <1>4, <1>5, FS_PigeonHole
<1>7. f[x].nr = x /\ f[y].nr = y
  BY <1>2
<1> QED BY <1>6, <1>7

LEMMA HookLateCounts ==
  ASSUME IInv, HooksInv, NEW t \in Tasks, HookLate(t)
  PROVE  HooksInv' /\ SameBorrows /\ Ids' = Ids
<1>0. t # 0
  BY NobodyIsNoTask
<1>1. /\ cur' = cur /\ nextId' = nextId /\ reg' = reg /\ slot' = slot
      /\ DOMAIN pc = Tasks /\ pc' = Set(pc, t, "hookFailed")
  BY DEF HookLate, Keep, IInv, TypedTasks, regVars, registry
<1>2. \A u \in Tasks : pc'[u] = IF u = t THEN "hookFailed" ELSE pc[u]
  BY <1>1 DEF Set
<1>3. SameHooks /\ SameBorrows /\ Ids' = Ids
  BY <1>1, SameKeeps
<1>4. CASE pc[t] = "settling"
  <2>1. UNCHANGED hooks
    BY <1>1, <1>4 DEF HookLate, hooks
  <2>2. Unhooked(t)
    BY <1>1, <1>2, <1>4, <2>1 DEF Unhooked
  <2> QED BY <1>3, <2>2, UnhookedCounts
<1>5. CASE pc[t] # "settling"
  <2>1. pc[t] = "await" /\ slot[t] = "none"
    BY <1>5 DEF HookLate
  <2>2. running' = {IF r.task = t
                    THEN [r EXCEPT !.task = 0,
                            !.nr = CHOOSE n \in 1..(Cardinality(running) + 1) :
                                     [r EXCEPT !.task = 0, !.nr = n] \notin running]
                    ELSE r : r \in running}
    BY <1>5 DEF HookLate
  <2>3. PICK D : D = [j \in Ids |-> {q \in running' : q.id = j}]
    OBVIOUS
  <2>4. PICK E : E = [j \in Ids |-> {u \in Tasks : pc'[u] = "refused" /\ cur'[u] = j}]
    OBVIOUS
  <2>5. \A j \in Ids : D[j] = {q \in running' : q.id = j}
    BY <2>3
  <2>6. \A j \in Ids : E[j] = {u \in Tasks : pc'[u] = "refused" /\ cur'[u] = j}
    BY <2>4
  <2>7. \A j \in Ids : E[j] = RefusedAt(j)
    BY <1>1, <1>2, <2>1, <2>6 DEF RefusedAt
  <2>8. Refused' = Refused
    BY <1>2, <2>1 DEF Refused
  <2>9. IsFiniteSet(Refused') /\ \A u \in Refused' : cur'[u] < nextId
    BY <1>1, <2>8 DEF HooksInv
  <2>10. IsFiniteSet(running)
    BY DEF HooksInv, HookRecords
  <2>11. CASE \E r \in running : r.task = t
    <3>1. PICK r \in running : r.task = t
      BY <2>11
    <3>2. DOMAIN r = {"id", "hook", "task", "nr"} /\ r.id \in Nat /\ r.id < nextId
      BY DEF HooksInv, HookRecords
    <3>3. PICK m : m = CHOOSE n \in 1..(Cardinality(running) + 1) :
                         [r EXCEPT !.task = 0, !.nr = n] \notin running
      OBVIOUS
    <3>4. [r EXCEPT !.task = 0, !.nr = m] \notin running
      BY <2>10, <3>2, <3>3, SomeNumberIsFree
    <3>5. PICK q : q = [r EXCEPT !.task = 0, !.nr = m]
      OBVIOUS
    <3>6. q.id = r.id /\ q.task = 0 /\ DOMAIN q = {"id", "hook", "task", "nr"} /\ q \notin running
      BY <3>2, <3>4, <3>5
    <3>7. \A x \in running : x.task = t => x = r
      BY <1>0, <3>1 DEF HooksInv, HookRecords
    <3>8. running' = (running \ {r}) \cup {q}
      BY <2>2, <3>1, <3>3, <3>5, <3>7
    <3>9. PICK i, d : i = r.id /\ d = 0
      OBVIOUS
    <3>10. d \in Int /\ Rehooked(i, d)
      <4>1. \A j \in Ids : reg[j].hooks \in Int
        BY DEF IInv, TypedReg, Entries
      <4> QED BY <1>1, <1>3, <3>9, <4>1 DEF Rehooked
    <3>11. HookRecords'
      <4>1. IsFiniteSet(running')
        BY <2>10, <3>8, FS_RemoveElement, FS_AddElement
      <4>2. \A x \in running' : x = q \/ (x \in running /\ x.task # t)
        BY <3>7, <3>8
      <4>3. ASSUME NEW x \in running'
            PROVE  /\ DOMAIN x = {"id", "hook", "task", "nr"} /\ x.id \in Nat /\ x.id < nextId'
                   /\ x.task # 0 => /\ x.task \in Tasks
                                    /\ pc'[x.task] = "await" /\ slot'[x.task] = "none"
        <5>1. CASE x = q
          BY <1>1, <3>2, <3>6, <5>1
        <5>2. CASE x \in running /\ x.task # t
          BY <1>1, <1>2, <5>2 DEF HooksInv, HookRecords
        <5> QED BY <4>2, <5>1, <5>2
      <4>4. \A x, y \in running' : x.task # 0 /\ y.task = x.task => y = x
        BY <3>6, <4>2 DEF HooksInv, HookRecords
      <4>5. DOMAIN slot' = Tasks
        BY <1>1 DEF HooksInv, HookRecords
      <4> QED BY <4>1, <4>3, <4>4, <4>5 DEF HookRecords
    <3>12. \A j \in Ids : j # i => D[j] = HooksOf(j)
      BY <2>5, <3>6, <3>8, <3>9 DEF HooksOf
    <3>13. ASSUME i \in Ids
           PROVE  Cardinality(D[i]) + Cardinality(E[i])
                    = Cardinality(HooksOf(i)) + Cardinality(RefusedAt(i)) + d
      <4>1. /\ IsFiniteSet(HooksOf(i)) /\ Cardinality(HooksOf(i)) \in Nat
            /\ Cardinality(RefusedAt(i)) \in Nat
        BY HooksFinite
      <4>2. D[i] = (HooksOf(i) \ {r}) \cup {q} /\ r \in HooksOf(i) /\ q \notin HooksOf(i) \ {r}
        BY <2>5, <3>6, <3>8, <3>9, <3>13 DEF HooksOf
      <4>3. /\ IsFiniteSet(HooksOf(i) \ {r})
            /\ Cardinality(HooksOf(i) \ {r}) = Cardinality(HooksOf(i)) - 1
        BY <4>1, <4>2, FS_RemoveElement
      <4>4. Cardinality((HooksOf(i) \ {r}) \cup {q}) = Cardinality(HooksOf(i) \ {r}) + 1
        BY <4>2, <4>3, FS_AddElement
      <4>5. Cardinality(D[i]) = Cardinality(HooksOf(i))
        BY <4>1, <4>2, <4>3, <4>4
      <4> QED BY <2>7, <3>9, <3>13, <4>1, <4>5
    <3>14. HooksInv'
      BY <1>1, <2>5, <2>6, <2>7, <2>9, <3>10, <3>11, <3>12, <3>13, RehookedCounts
    <3> QED BY <1>3, <3>14
  <2>12. CASE \A r \in running : r.task # t
    <3>1. running' = running
      BY <2>2, <2>12
    <3>2. PICK i, d : i = 0 /\ d = 0
      OBVIOUS
    <3>3. d \in Int /\ Rehooked(i, d)
      <4>1. \A j \in Ids : reg[j].hooks \in Int
        BY DEF IInv, TypedReg, Entries
      <4> QED BY <1>1, <1>3, <3>2, <4>1 DEF Rehooked
    <3>4. HookRecords'
      <4>1. \A r \in running : r.task # 0 => /\ r.task \in Tasks
                                             /\ pc'[r.task] = "await" /\ slot[r.task] = "none"
        BY <1>2, <2>12 DEF HooksInv, HookRecords
      <4> QED BY <1>1, <3>1, <4>1 DEF HooksInv, HookRecords
    <3>5. \A j \in Ids : D[j] = HooksOf(j)
      BY <2>5, <3>1 DEF HooksOf
    <3>6. ASSUME i \in Ids
          PROVE  Cardinality(D[i]) + Cardinality(E[i])
                   = Cardinality(HooksOf(i)) + Cardinality(RefusedAt(i)) + d
      <4>1. Cardinality(HooksOf(i)) \in Nat /\ Cardinality(RefusedAt(i)) \in Nat
        BY HooksFinite
      <4> QED BY <2>7, <3>2, <3>5, <3>6, <4>1
    <3>7. HooksInv'
      BY <1>1, <2>5, <2>6, <2>7, <2>9, <3>3, <3>4, <3>5, <3>6, RehookedCounts
    <3> QED BY <1>3, <3>7
  <2> QED BY <2>11, <2>12
<1> QED BY <1>4, <1>5
-----------------------------------------------------------------------------
(* All of them together.                                                   *)

LEMMA StepKeepsCounts ==
  ASSUME IInv, CountInv, NEW t \in Tasks, Step(t)
  PROVE  CountInv'
<1>1. HooksInv /\ BorrowsInv /\ LimitsInv /\ FlightInv /\ app \in AppStates
  BY DEF CountInv
<1>2. Uncounted \/ EnterHook(t) \/ HookRefused(t)
  BY StepCounts
<1>3. EnterHook(t) \/ HookRefused(t) => HooksInv' /\ SameBorrows /\ Ids' = Ids
  BY <1>1, EnterHookCounts, HookRefusedCounts
<1>4. Uncounted => SameHooks /\ SameBorrows
  BY UncountedKeeps
<1>5. HooksInv'
  <2>1. CASE Uncounted
    BY <1>1, <1>3, <1>4, <2>1, StepHooks, UnhookedCounts, HookLateCounts
  <2> QED BY <1>2, <1>3, <2>1
<1>6. BorrowsInv'
  <2>1. CASE NoNewEdge
    BY <1>1, <1>2, <1>3, <1>4, <2>1, KeptBorrows DEF NoNewEdge
  <2>2. CASE NewBinding
    <3>1. Uncounted /\ nextId' = nextId
      BY <2>2, SameReg DEF NewBinding, Uncounted
    <3> QED BY <1>1, <2>2, <3>1, BindingBorrows
  <2> QED BY <2>1, <2>2, StepEdges
<1>7. IsFiniteSet(edges') /\ Cardinality(edges') <= MaxBindings
  BY <1>1, StepEdges, EdgesWithinLimit
<1>8. Cardinality(Ids') <= MaxObjects
  <2>1. CASE Uncounted
    BY <1>1, <2>1, ObjectsWithinLimit
  <2>2. CASE Ids' = Ids
    BY <1>1, <2>2 DEF LimitsInv
  <2> QED BY <1>2, <1>3, <2>1, <2>2
<1>9. /\ FlightInv'
      /\ IsFiniteSet(DOMAIN observers') /\ Cardinality(ActiveTokens') <= MaxObservers
  BY <1>1, StepWatches, ResubscribedRecords, ResubscribedCounts, CallbackCounts
<1>10. app' \in AppStates
  BY <1>1, StepState
<1> QED BY <1>5, <1>6, <1>7, <1>8, <1>9, <1>10 DEF CountInv, LimitsInv

\* Nothing the limits or the callbacks go by is touched.
LEMMA StillWatched ==
  ASSUME IInv, LimitsInv, FlightInv, UNCHANGED <<observers, nextToken, callback>>
  PROVE  /\ FlightInv'
         /\ IsFiniteSet(DOMAIN observers') /\ Cardinality(ActiveTokens') <= MaxObservers
<1>1. Resubscribed
  BY DEF Resubscribed
<1> QED BY <1>1, ResubscribedRecords, ResubscribedCounts

LEMMA HookEndsKeepsCounts ==
  ASSUME IInv, CountInv, NEW r \in running, HookEnds(r)
  PROVE  CountInv'
<1>1. HooksInv /\ BorrowsInv /\ LimitsInv /\ FlightInv /\ app \in AppStates
  BY DEF CountInv
<1>2. UNCHANGED <<edges, issued, leases, observers, nextToken, callback, app>>
  BY DEF HookEnds, watching, state
<1>3. HooksInv' /\ SameBorrows /\ Ids' = Ids
  BY <1>1, HookEndsCounts
<1>4. BorrowsInv'
  BY <1>1, <1>2, <1>3, KeptBorrows
<1>5. FlightInv' /\ IsFiniteSet(DOMAIN observers') /\ Cardinality(ActiveTokens') <= MaxObservers
  BY <1>1, <1>2, StillWatched
<1> QED BY <1>1, <1>2, <1>3, <1>4, <1>5 DEF CountInv, LimitsInv

LEMMA UserKeepsCounts ==
  ASSUME IInv, CountInv, NEW h \in issued, UserBorrows(h) \/ UserReleases(h)
  PROVE  CountInv'
<1>1. HooksInv /\ BorrowsInv /\ LimitsInv /\ FlightInv /\ app \in AppStates
  BY DEF CountInv
<1>2. UNCHANGED <<observers, nextToken, callback, app, pc, cur, hooks>>
  BY DEF UserBorrows, UserReleases, Borrow, Release, AppVars, watching, state, locals
<1>3. /\ BorrowsInv' /\ Ids' = Ids /\ SameHooks
      /\ UNCHANGED edges \/ \E c, g, d : Counted(c, g, d)
  BY <1>1, UserCounts
<1>4. HooksInv'
  BY <1>1, <1>2, <1>3, UnhookedCounts
<1>5. IsFiniteSet(edges') /\ Cardinality(edges') <= MaxBindings
  BY <1>1, <1>3, EdgesWithinLimit
<1>6. FlightInv' /\ IsFiniteSet(DOMAIN observers') /\ Cardinality(ActiveTokens') <= MaxObservers
  BY <1>1, <1>2, StillWatched
<1> QED BY <1>1, <1>2, <1>3, <1>4, <1>5, <1>6 DEF CountInv, LimitsInv

LEMMA NextCounts ==
  ASSUME IInv, CountInv, [Next]_vars
  PROVE  CountInv'
<1>1. ASSUME UNCHANGED vars
      PROVE  CountInv'
  <2>1. /\ HooksInv /\ BorrowsInv /\ LimitsInv /\ FlightInv /\ app \in AppStates
    BY DEF CountInv
  <2>2. /\ UNCHANGED <<reg, nextId, edges, issued, leases, observers, nextToken, callback>>
        /\ UNCHANGED <<app, pc, cur, hooks>>
    BY <1>1 DEF vars, regVars, registry, watching, state, locals
  <2>3. SameHooks /\ SameBorrows /\ Ids' = Ids
    BY <2>2, SameKeeps
  <2>4. HooksInv'
    BY <2>1, <2>2, <2>3, UnhookedCounts
  <2>5. BorrowsInv'
    BY <2>1, <2>2, <2>3, KeptBorrows
  <2>6. FlightInv' /\ IsFiniteSet(DOMAIN observers') /\ Cardinality(ActiveTokens') <= MaxObservers
    BY <2>1, <2>2, StillWatched
  <2> QED BY <2>1, <2>2, <2>3, <2>4, <2>5, <2>6 DEF CountInv, LimitsInv
<1>2. CASE Next
  BY <1>1, <1>2, StepKeepsCounts, HookEndsKeepsCounts, UserKeepsCounts DEF Next, AllDone
<1> QED BY <1>1, <1>2

\* The counters are what CountersAgree says.
LEMMA InvCounters ==
  ASSUME IInv, CountInv
  PROVE  CountersAgree
<1>1. HooksInv /\ BorrowsInv /\ LimitsInv /\ FlightInv /\ app \in AppStates
  BY DEF CountInv
<1>2. ASSUME NEW i \in Ids
      PROVE  /\ reg[i].borrows = SumFunctionOnSet(leases, {h \in issued : h.comp = i})
             /\ reg[i].borrows \in Nat
             /\ reg[i].hooks = Cardinality({r \in running : r.id = i})
                               + Cardinality({t \in Tasks : pc[t] = "refused" /\ cur[t] = i})
             /\ reg[i].hooks \in Nat
  <2>1. IsFiniteSet(Lent(i)) /\ Numbers(leases, Lent(i))
    BY <1>1, LentNumbers
  <2>2. reg[i].borrows = SumFunctionOnSet(leases, Lent(i)) /\ reg[i].borrows \in Nat
    BY <1>1, <2>1, SumNumber DEF BorrowsInv
  <2>3. /\ reg[i].hooks = Cardinality(HooksOf(i)) + Cardinality(RefusedAt(i))
        /\ reg[i].hooks \in Nat
    BY <1>1, HooksFinite DEF HooksInv
  <2> QED BY <2>2, <2>3 DEF Lent, HooksOf, RefusedAt
<1>3. ASSUME NEW e \in edges
      PROVE  e.comp \in Ids /\ e.gen < nextGen /\ e.borrows \in Nat
  <2>1. Handle(e) \in issued /\ e.comp \in Ids /\ e.borrows = leases[Handle(e)]
    BY DEF IInv, LeaseInv
  <2>2. Handle(e).gen < nextGen
    BY <2>1 DEF IInv, LeaseInv
  <2> QED BY <2>1, <2>2 DEF Handle, IInv, TypedEdges
<1>4. ASSUME NEW k \in DOMAIN observers
      PROVE  k < nextToken /\ observers[k].inFlight \in Nat
  <2>1. k < nextToken /\ k # 0
    BY <1>1 DEF IInv, WatchInv, FlightInv
  <2>2. CallersOf(k) \subseteq {t \in Tasks : callback[t] # 0}
    BY <2>1 DEF CallersOf
  <2>3. IsFiniteSet(CallersOf(k))
    BY <1>1, <2>2, FS_Subset DEF FlightInv
  <2> QED BY <1>1, <2>1, <2>3, FS_CardinalityType DEF FlightInv
<1>5. ASSUME NEW i \in Ids
      PROVE  /\ i < nextId /\ reg[i].kind \in Kinds /\ reg[i].state \in States
             /\ {reg[i].op, reg[i].gate, reg[i].phase} \subseteq BOOLEAN
  <2>1. reg[i] \in Entries /\ i < nextId
    BY DEF IInv, TypedReg
  <2> QED BY <2>1 DEF Entries
<1>6. TypeOK
  BY <1>1, <1>2, <1>3, <1>4, <1>5 DEF TypeOK, LimitsInv, AppStates, IInv
<1>7. ASSUME NEW h \in issued
      PROVE  /\ \A e \in Edge(h.gen) : e.borrows = leases[h]
             /\ leases[h] > 0 /\ h.comp \in Ids => Edge(h.gen) # {}
  <2>1. ASSUME NEW e \in edges, e.gen = h.gen
        PROVE  e.borrows = leases[h]
    <3>1. Handle(e) \in issued /\ Handle(e).gen = h.gen /\ e.borrows = leases[Handle(e)]
      BY <2>1 DEF IInv, LeaseInv, Handle
    <3>2. Handle(e) = h
      BY <3>1 DEF IInv, LeaseInv
    <3> QED BY <3>1, <3>2
  <2>2. ASSUME leases[h] > 0, h.comp \in Ids
        PROVE  \E e \in edges : e.gen = h.gen
    <3>1. PICK e \in edges : Handle(e) = h
      BY <2>2 DEF IInv, LeaseInv
    <3> QED BY <3>1 DEF Handle
  <2> QED BY <2>1, <2>2 DEF Edge
<1> QED BY <1>2, <1>6, <1>7 DEF CountersAgree

\* At every moment the borrows of a component and of an edge are the leases that
\* are out, hooks_in_flight is the number of hooks that are on their way, and there
\* are no more objects, bindings and active subscriptions than AppOptions allows:
\* also for an object that was bound, closed or hooked by several operations at
\* once (AcquireBorrowLocked, ReleaseBorrow, NoteHookSettled, CreateEntryLocked,
\* BindLocked, Observe).
THEOREM CountersMatch == Spec => []CountersAgree
<1>1. Init => CountInv
  BY InitCount
<1>2. IInv /\ CountInv /\ [Next]_vars => CountInv'
  BY NextCounts
<1>3. IInv /\ CountInv => CountersAgree
  BY InvCounters
<1> QED BY <1>1, <1>2, <1>3, AppInvariance, PTL DEF Spec
=============================================================================
