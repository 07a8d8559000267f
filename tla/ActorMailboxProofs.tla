-------------------------- MODULE ActorMailboxProofs --------------------------
(***************************************************************************)
(* The mailbox for any number of tasks and coroutines and any capacity.    *)
(*                                                                         *)
(* OneDrain alone is not kept by the steps a proof has to look at one by   *)
(* one: that the queue is well typed, that a waiting task keeps the right  *)
(* to execute alive and that nothing is lost are needed together.  IInv is *)
(* their conjunction.                                                      *)
(***************************************************************************)
EXTENDS ActorMailbox, TLAPS

IInv == TypeOK /\ OneDrain /\ NoOrphan /\ AcceptanceOrder

\* Moving the head of the waiting tasks behind the started ones changes nothing
\* in their concatenation (the step from m_queue to the handler, _Drain).
LEMMA MoveHead ==
  ASSUME NEW S, NEW s \in Seq(S), NEW q \in Seq(S), q # <<>>
  PROVE  /\ Head(q) \in S /\ Tail(q) \in Seq(S) /\ Len(Tail(q)) = Len(q) - 1
         /\ Append(s, Head(q)) \in Seq(S)
         /\ Append(s, Head(q)) \o Tail(q) = s \o q
  OBVIOUS

\* A task that joins the queue joins the concatenation at its end (TryEnqueue).
LEMMA AppendBehind ==
  ASSUME NEW S, NEW s \in Seq(S), NEW q \in Seq(S), NEW t \in S
  PROVE  /\ Append(q, t) \in Seq(S) /\ Len(Append(q, t)) = Len(q) + 1
         /\ Append(q, t) # <<>>
         /\ s \o Append(q, t) = Append(s \o q, t)
  OBVIOUS

LEMMA InitInv == Init => IInv
<1> SUFFICES ASSUME Init PROVE IInv
  OBVIOUS
<1> USE DEF Init
<1>1. TypeOK
  <2>1. queue \in Seq(Tasks) /\ accepted \in Seq(Tasks) /\ started \in Seq(Tasks)
    OBVIOUS
  <2>2. Len(queue) <= Capacity
    <3>1. Len(queue) = 0
      OBVIOUS
    <3> QED BY <3>1, CapacityAssumption
  <2> QED BY <2>1, <2>2 DEF TypeOK
<1>2. OneDrain /\ NoOrphan
  BY DEF OneDrain, NoOrphan, Alive
<1>3. AcceptanceOrder
  BY DEF AcceptanceOrder
<1> QED BY <1>1, <1>2, <1>3 DEF IInv

\* The tasks that join a mailbox (TryEnqueue).
LEMMA EnqueueBehindInv ==
  ASSUME IInv, NEW t \in Tasks, EnqueueBehind(t)
  PROVE  IInv'
<1> USE DEF EnqueueBehind, IInv
<1>1. /\ Append(queue, t) \in Seq(Tasks) /\ Len(Append(queue, t)) = Len(queue) + 1
      /\ Append(accepted, t) \in Seq(Tasks)
      /\ started \o Append(queue, t) = Append(started \o queue, t)
  BY AppendBehind DEF TypeOK
<1>2. TypeOK'
  <2>1. Len(queue) \in Nat /\ Len(queue) < Capacity
    BY DEF TypeOK, Admits
  <2> QED BY <1>1, <2>1, CapacityAssumption DEF TypeOK
<1>3. OneDrain' /\ NoOrphan'
  BY DEF OneDrain, NoOrphan, Alive
<1>4. AcceptanceOrder'
  BY <1>1 DEF AcceptanceOrder
<1> QED BY <1>2, <1>3, <1>4

LEMMA EnqueueFirstInv ==
  ASSUME IInv, NEW t \in Tasks, NEW c \in Coroutines, EnqueueFirst(t, c)
  PROVE  IInv'
<1> USE DEF EnqueueFirst, IInv
<1>1. /\ Append(queue, t) \in Seq(Tasks) /\ Len(Append(queue, t)) = Len(queue) + 1
      /\ Append(accepted, t) \in Seq(Tasks)
      /\ started \o Append(queue, t) = Append(started \o queue, t)
  BY AppendBehind DEF TypeOK
<1>2. TypeOK'
  <2>1. Len(queue) \in Nat /\ Len(queue) < Capacity
    BY DEF TypeOK, Admits
  <2> QED BY <1>1, <2>1, CapacityAssumption DEF TypeOK
<1>3. OneDrain'
  <2>1. \A d \in Coroutines : drain[d] = "off"
    BY DEF OneDrain, Alive
  <2>2. drain' = [d \in Coroutines |-> IF d = c THEN "loop" ELSE drain[d]]
    BY DEF TypeOK
  <2> QED BY <2>1, <2>2 DEF OneDrain, Alive
<1>4. NoOrphan'
  BY DEF NoOrphan
<1>5. AcceptanceOrder'
  BY <1>1 DEF AcceptanceOrder
<1> QED BY <1>2, <1>3, <1>4, <1>5

\* The steps of a drain coroutine (_Drain).
LEMMA DrainTakeInv ==
  ASSUME IInv, NEW c \in Coroutines, DrainTake(c)
  PROVE  IInv'
<1> USE DEF DrainTake, Taken, IInv
<1>1. /\ Head(queue) \in Tasks /\ Tail(queue) \in Seq(Tasks)
      /\ Len(Tail(queue)) = Len(queue) - 1
      /\ Append(started, Head(queue)) \in Seq(Tasks)
      /\ Append(started, Head(queue)) \o Tail(queue) = started \o queue
  BY MoveHead DEF TypeOK
<1>2. TypeOK'
  <2>1. Len(queue) \in Nat
    BY DEF TypeOK
  <2> QED BY <1>1, <2>1, CapacityAssumption DEF TypeOK
<1>3. \A d \in Coroutines : Alive(d)' <=> Alive(d)
  BY DEF TypeOK, Alive
<1>4. OneDrain' /\ NoOrphan'
  BY <1>3 DEF OneDrain, NoOrphan
<1>5. AcceptanceOrder'
  BY <1>1 DEF AcceptanceOrder
<1> QED BY <1>2, <1>4, <1>5

LEMMA DrainStopInv ==
  ASSUME IInv, NEW c \in Coroutines, DrainStop(c)
  PROVE  IInv'
<1> USE DEF DrainStop, IInv
<1>1. TypeOK'
  BY DEF TypeOK
<1>2. OneDrain'
  <2>1. \A d \in Coroutines : d # c => ~Alive(d)
    BY DEF OneDrain, Alive
  <2>2. \A d \in Coroutines : ~Alive(d)'
    BY <2>1 DEF TypeOK, Alive
  <2> QED BY <2>2 DEF OneDrain
<1>3. NoOrphan' /\ AcceptanceOrder'
  BY DEF NoOrphan, AcceptanceOrder
<1> QED BY <1>1, <1>2, <1>3

LEMMA TaskEndsInv ==
  ASSUME IInv, NEW c \in Coroutines, TaskEnds(c)
  PROVE  IInv'
<1> USE DEF TaskEnds, IInv
<1>1. TypeOK'
  BY DEF TypeOK
<1>2. \A d \in Coroutines : Alive(d)' <=> Alive(d)
  BY DEF TypeOK, Alive
<1>3. OneDrain' /\ NoOrphan' /\ AcceptanceOrder'
  BY <1>2 DEF OneDrain, NoOrphan, AcceptanceOrder
<1> QED BY <1>1, <1>3

\* A refused task leaves everything as it was.
LEMMA StutterInv ==
  ASSUME IInv, UNCHANGED vars
  PROVE  IInv'
<1> USE DEF vars, IInv
<1>1. TypeOK'
  BY DEF TypeOK
<1>2. OneDrain' /\ NoOrphan' /\ AcceptanceOrder'
  BY DEF OneDrain, NoOrphan, AcceptanceOrder, Alive
<1> QED BY <1>1, <1>2

LEMMA NextInv == IInv /\ [Next]_vars => IInv'
<1> SUFFICES ASSUME IInv, [Next]_vars PROVE IInv'
  OBVIOUS
<1>1. CASE Close
  BY <1>1 DEF Close, IInv, TypeOK, OneDrain, NoOrphan, AcceptanceOrder, Alive
<1>2. ASSUME NEW t \in Tasks, TryEnqueue(t) PROVE IInv'
  <2>1. CASE EnqueueBehind(t)
    BY <2>1, EnqueueBehindInv
  <2>2. CASE \E c \in Coroutines : EnqueueFirst(t, c)
    BY <2>2, EnqueueFirstInv
  <2>3. CASE EnqueueUnavailable(t) \/ EnqueueRefused(t)
    <3>1. UNCHANGED vars
      BY <2>3 DEF EnqueueUnavailable, RolledBack, EnqueueRefused, vars
    <3> QED BY <3>1, StutterInv
  <2> QED BY <1>2, <2>1, <2>2, <2>3 DEF TryEnqueue
<1>3. ASSUME NEW c \in Coroutines, Drain(c) PROVE IInv'
  BY <1>3, DrainTakeInv, DrainStopInv, TaskEndsInv DEF Drain
<1>4. CASE UNCHANGED vars
  BY <1>4, StutterInv
<1> QED BY <1>1, <1>2, <1>3, <1>4 DEF Next

\* IInv is an invariant of the mailbox.
THEOREM Invariance == Spec => []IInv
  BY InitInv, NextInv, PTL DEF Spec

\* Every variable keeps its type and no more than mailbox_capacity tasks wait,
\* for every capacity (TryEnqueue).
THEOREM TypeCorrect == Spec => []TypeOK
<1>1. IInv => TypeOK
  BY DEF IInv
<1> QED BY <1>1, Invariance, PTL

\* At most one drain coroutine exists, and exactly while m_draining is set: two
\* handlers of one actor never overlap (TryEnqueue, _Drain).
THEOREM SingleDrain == Spec => []OneDrain
<1>1. IInv => OneDrain
  BY DEF IInv
<1> QED BY <1>1, Invariance, PTL

\* No waiting task is ever without a coroutine that will take it (_Drain).
THEOREM NothingOrphaned == Spec => []NoOrphan
<1>1. IInv => NoOrphan
  BY DEF IInv
<1> QED BY <1>1, Invariance, PTL

\* Tasks start in the order of their acceptance, none twice, none dropped.
THEOREM OrderKept == Spec => []AcceptanceOrder
<1>1. IInv => AcceptanceOrder
  BY DEF IInv
<1> QED BY <1>1, Invariance, PTL

-----------------------------------------------------------------------------
(* The mailbox implements the serial server, its liveness apart.           *)

TaskHeld == \A c \in Coroutines : drain[c] = "task" => task[c] \in Tasks

\* A coroutine that executes holds a task: the slot is never empty (_Drain).
LEMMA HeldInv == Spec => []TaskHeld
<1>1. Init => TaskHeld
  BY DEF Init, TaskHeld
<1>2. IInv /\ TaskHeld /\ [Next]_vars => TaskHeld'
  <2> SUFFICES ASSUME IInv, TaskHeld, [Next]_vars PROVE TaskHeld'
    OBVIOUS
  <2> USE DEF IInv, TypeOK, TaskHeld
  <2>1. CASE Close \/ UNCHANGED vars
    BY <2>1 DEF Close, vars
  <2>2. ASSUME NEW t \in Tasks, TryEnqueue(t) PROVE TaskHeld'
    BY <2>2 DEF TryEnqueue, EnqueueBehind, EnqueueFirst, EnqueueUnavailable, EnqueueRefused, vars
  <2>3. ASSUME NEW c \in Coroutines, DrainTake(c) PROVE TaskHeld'
    <3>1. Head(queue) \in Tasks
      BY <2>3, MoveHead DEF DrainTake
    <3> QED BY <2>3, <3>1 DEF DrainTake, Taken
  <2>4. ASSUME NEW c \in Coroutines, DrainStop(c) \/ TaskEnds(c) PROVE TaskHeld'
    BY <2>4 DEF DrainStop, TaskEnds
  <2> QED BY <2>1, <2>2, <2>3, <2>4 DEF Next, Drain
<1> QED BY <1>1, <1>2, Invariance, PTL DEF Spec

\* The executing coroutine is found by the refinement mapping.
LEMMA CurrentIs ==
  ASSUME OneDrain, NEW c \in Coroutines, drain[c] = "task"
  PROVE  Current = task[c]
<1>1. \A d \in Coroutines : drain[d] = "task" => d = c
  BY DEF OneDrain, Alive
<1> QED BY <1>1 DEF Current

LEMMA CurrentIdle ==
  ASSUME \A c \in Coroutines : drain[c] # "task"
  PROVE  Current = NoTask
  BY DEF Current

\* The mapping depends on nothing but the drain coroutines and their tasks.
LEMMA CurrentSame ==
  ASSUME UNCHANGED <<drain, task>>
  PROVE  Current' = Current
  BY DEF Current

LEMMA ServerStep ==
  ASSUME IInv, TaskHeld, [Next]_vars, IInv'
  PROVE  [Server!Next]_(Server!vars)
<1> USE DEF Server!vars, Server!Next
<1>1. CASE Close \/ UNCHANGED vars
  BY <1>1, CurrentSame DEF Close, vars
<1>2. ASSUME NEW t \in Tasks, EnqueueBehind(t) PROVE Server!Accept(t)
  BY <1>2, CurrentSame DEF EnqueueBehind, Server!Accept
<1>3. ASSUME NEW t \in Tasks, NEW c \in Coroutines, EnqueueFirst(t, c) PROVE Server!Accept(t)
  <2>1. \A d \in Coroutines : drain[d] = "off"
    BY <1>3 DEF EnqueueFirst, IInv, OneDrain, Alive
  <2>2. \A d \in Coroutines : drain'[d] # "task"
    BY <1>3, <2>1 DEF EnqueueFirst, IInv, TypeOK
  <2>3. Current = NoTask
    BY <2>1, CurrentIdle
  <2>4. Current' = NoTask
    BY <2>2 DEF Current
  <2> QED BY <1>3, <2>3, <2>4 DEF EnqueueFirst, Server!Accept
<1>4. ASSUME NEW t \in Tasks, EnqueueUnavailable(t) \/ EnqueueRefused(t)
      PROVE UNCHANGED <<queue, Current>>
  BY <1>4, CurrentSame DEF EnqueueUnavailable, EnqueueRefused, RolledBack, vars
<1>5. ASSUME NEW c \in Coroutines, DrainTake(c) PROVE Server!Start
  <2>1. \A d \in Coroutines : drain[d] # "task"
    BY <1>5 DEF DrainTake, IInv, OneDrain, Alive
  <2>2. Current = NoTask
    BY <2>1, CurrentIdle
  <2>3. drain'[c] = "task" /\ task'[c] = Head(queue)
    BY <1>5 DEF DrainTake, Taken, IInv, TypeOK
  <2>4. \A d \in Coroutines : drain'[d] = "task" => d = c
    BY <1>5, <2>1 DEF DrainTake, IInv, TypeOK
  <2>5. Current' = Head(queue)
    BY <2>3, <2>4 DEF Current
  <2> QED BY <1>5, <2>2, <2>5 DEF DrainTake, Server!Start
<1>6. ASSUME NEW c \in Coroutines, DrainStop(c) PROVE UNCHANGED <<queue, Current>>
  <2>1. \A d \in Coroutines : drain[d] # "task"
    BY <1>6 DEF DrainStop, IInv, OneDrain, Alive
  <2>2. \A d \in Coroutines : drain'[d] # "task"
    BY <1>6, <2>1 DEF DrainStop, IInv, TypeOK
  <2> QED BY <1>6, <2>1, <2>2 DEF DrainStop, Current
<1>7. ASSUME NEW c \in Coroutines, TaskEnds(c) PROVE Server!Finish
  <2>1. Current = task[c] /\ task[c] \in Tasks
    BY <1>7, CurrentIs DEF TaskEnds, TaskHeld, IInv
  <2>2. \A d \in Coroutines : drain[d] = "task" => d = c
    BY <1>7 DEF TaskEnds, IInv, OneDrain, Alive
  <2>3. \A d \in Coroutines : drain'[d] # "task"
    BY <1>7, <2>2 DEF TaskEnds, IInv, TypeOK
  <2>4. Current' = NoTask
    BY <2>3 DEF Current
  <2> QED BY <1>7, <2>1, <2>4, NoTaskAssumption DEF TaskEnds, Server!Finish
<1> QED BY <1>1, <1>2, <1>3, <1>4, <1>5, <1>6, <1>7 DEF Next, TryEnqueue, Drain

\* Every step of the mailbox is a step of the serial server or changes nothing
\* it can see: tasks are served one at a time in the order of acceptance.
THEOREM ServesSerially == Spec => Server!Init /\ [][Server!Next]_(Server!vars)
<1>1. Init => Server!Init
  <2> SUFFICES ASSUME Init PROVE Server!Init
    OBVIOUS
  <2>1. \A c \in Coroutines : drain[c] # "task"
    BY DEF Init
  <2> QED BY <2>1, CurrentIdle DEF Init, Server!Init
<1>2. IInv /\ IInv' /\ TaskHeld /\ [Next]_vars => [Server!Next]_(Server!vars)
  BY ServerStep
<1> QED BY <1>1, <1>2, Invariance, HeldInv, PTL DEF Spec
=============================================================================
