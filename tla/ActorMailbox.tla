---------------------------- MODULE ActorMailbox ----------------------------
(***************************************************************************)
(* The mailbox of one actor (ActorMailbox.cc): a bounded queue of waiting  *)
(* tasks and the drain coroutine that executes them one after the other.   *)
(* m_mtx protects the queue and both flags, so TryEnqueue, Close and the   *)
(* head of the _Drain loop are one action each; the handler runs between   *)
(* two of them, outside the lock, for as long as it likes.                 *)
(*                                                                         *)
(* Nothing here says that there is one drain coroutine: each successful    *)
(* registration starts one, and the properties have to show the rest.      *)
(***************************************************************************)
EXTENDS Integers, Sequences

CONSTANTS
  Tasks,       \* tasks callers may submit, each once
  Coroutines,  \* names for drain coroutines
  Capacity,    \* m_capacity: tasks that may wait
  NoTask

ASSUME CapacityAssumption == Capacity \in Nat \ {0}
ASSUME NoTaskAssumption == NoTask \notin Tasks

VARIABLES
  queue,      \* m_queue
  draining,   \* m_draining
  closed,     \* m_closed
  drain,      \* drain[c]: "off", "loop" (before the lock) or "task"
  task,       \* task[c]: the task coroutine c took from the queue
  accepted,   \* history: accepted tasks, in order
  started     \* history: tasks taken for execution, in order

vars == <<queue, draining, closed, drain, task, accepted, started>>

Init ==
  /\ queue = <<>>
  /\ draining = FALSE
  /\ closed = FALSE
  /\ drain = [c \in Coroutines |-> "off"]
  /\ task = [c \in Coroutines |-> NoTask]
  /\ accepted = <<>>
  /\ started = <<>>

Submitted(t) == \E i \in 1..Len(accepted) : accepted[i] = t
\* Mutant: one task too many waits.
AdmitsOneMore(t) == ~Submitted(t) /\ ~closed /\ Len(queue) <= Capacity
Admits(t) == ~Submitted(t) /\ ~closed /\ Len(queue) < Capacity

\* The queue after a registration the scheduler refused: pop_back.
\* Mutant: the task stays in the queue.
RolledBackNot(t) == Append(queue, t)
RolledBack(t) == queue

\* A drain coroutine is alive: the task only joins the queue.
EnqueueBehind(t) ==
  /\ Admits(t) /\ draining
  /\ queue' = Append(queue, t)
  /\ accepted' = Append(accepted, t)
  /\ UNCHANGED <<draining, closed, drain, task, started>>

\* Mutant: the edge from idle to active is not checked.
EnqueueFirstAlways(t, c) ==
  /\ Admits(t)
  /\ queue' = Append(queue, t)
  /\ accepted' = Append(accepted, t)
  /\ drain[c] = "off"
  /\ drain' = [drain EXCEPT ![c] = "loop"]
  /\ draining' = TRUE
  /\ UNCHANGED <<closed, task, started>>

\* Idle: the task starts a drain coroutine.
EnqueueFirst(t, c) ==
  /\ Admits(t) /\ ~draining
  /\ queue' = Append(queue, t)
  /\ accepted' = Append(accepted, t)
  /\ drain[c] = "off"
  /\ drain' = [drain EXCEPT ![c] = "loop"]
  /\ draining' = TRUE
  /\ UNCHANGED <<closed, task, started>>

\* Idle, and the scheduler registers no coroutine: RuntimeUnavailable.
EnqueueUnavailable(t) ==
  /\ Admits(t) /\ ~draining
  /\ queue' = RolledBack(t)
  /\ UNCHANGED <<draining, closed, drain, task, accepted, started>>

\* Closed or Overloaded: the caller learns it, nothing changes.
EnqueueRefused(t) ==
  /\ ~Submitted(t)
  /\ closed \/ Len(queue) >= Capacity
  /\ UNCHANGED vars

TryEnqueue(t) ==
  \/ EnqueueBehind(t) \/ EnqueueUnavailable(t) \/ EnqueueRefused(t)
  \/ \E c \in Coroutines : EnqueueFirst(t, c)

\* Mutant: the newest task is taken.
TakenLast == queue[Len(queue)]
Taken == Head(queue)

DrainTake(c) ==
  /\ drain[c] = "loop" /\ queue # <<>>
  /\ task' = [task EXCEPT ![c] = Taken]
  /\ queue' = Tail(queue)
  /\ drain' = [drain EXCEPT ![c] = "task"]
  /\ started' = Append(started, Taken)
  /\ UNCHANGED <<draining, closed, accepted>>

\* Mutant: the coroutine returns and still holds the right to execute.
DrainStopHolding(c) ==
  /\ drain[c] = "loop" /\ queue = <<>>
  /\ drain' = [drain EXCEPT ![c] = "off"]
  /\ UNCHANGED <<queue, draining, closed, task, accepted, started>>

\* The queue is empty: the right to execute is given up under the same lock.
DrainStop(c) ==
  /\ drain[c] = "loop" /\ queue = <<>>
  /\ draining' = FALSE
  /\ drain' = [drain EXCEPT ![c] = "off"]
  /\ UNCHANGED <<queue, closed, task, accepted, started>>

\* Mutant: an exception of the handler ends the coroutine.
TaskThrowsOut(c) ==
  /\ drain[c] = "task"
  /\ task' = [task EXCEPT ![c] = NoTask]
  /\ drain' = [drain EXCEPT ![c] = "off"]
  /\ UNCHANGED <<queue, draining, closed, accepted, started>>

\* The handler returns or throws; the exception goes to m_on_abnormal and
\* either way the loop goes on.
TaskEnds(c) ==
  /\ drain[c] = "task"
  /\ task' = [task EXCEPT ![c] = NoTask]
  /\ drain' = [drain EXCEPT ![c] = "loop"]
  /\ UNCHANGED <<queue, draining, closed, accepted, started>>

\* Close stops admission and leaves everything accepted where it is.
Close ==
  /\ closed' = TRUE
  /\ UNCHANGED <<queue, draining, drain, task, accepted, started>>

Drain(c) == DrainTake(c) \/ DrainStop(c) \/ TaskEnds(c)

Next ==
  \/ Close
  \/ \E t \in Tasks : TryEnqueue(t)
  \/ \E c \in Coroutines : Drain(c)

\* The scheduler runs every registered coroutine and handlers end; callers owe
\* nothing.
Fairness == \A c \in Coroutines : WF_vars(Drain(c))

Spec == Init /\ [][Next]_vars
FairSpec == Spec /\ Fairness
-----------------------------------------------------------------------------
(* Properties.                                                             *)

TypeOK ==
  /\ queue \in Seq(Tasks) /\ Len(queue) <= Capacity
  /\ draining \in BOOLEAN
  /\ closed \in BOOLEAN
  /\ drain \in [Coroutines -> {"off", "loop", "task"}]
  /\ task \in [Coroutines -> Tasks \cup {NoTask}]
  /\ accepted \in Seq(Tasks)
  /\ started \in Seq(Tasks)

Alive(c) == drain[c] # "off"

\* m_draining is the right to execute: while it is set one coroutine exists and
\* only one, so two handlers of the actor never overlap, across every stop and
\* restart of the drain (TryEnqueue, _Drain).
OneDrain ==
  /\ \A c, d \in Coroutines : Alive(c) /\ Alive(d) => c = d
  /\ draining <=> \E c \in Coroutines : Alive(c)

\* A waiting task always has a coroutine that will come for it: the last check
\* of the queue and the release of m_draining cannot lose a task that is
\* enqueued between them, nor does a refused registration leave one behind.
NoOrphan == queue # <<>> => draining

\* Tasks start in the order they were accepted, none twice and none dropped:
\* what has started followed by what waits is what was accepted.
AcceptanceOrder == started \o queue = accepted

\* Every accepted task is started and the actor returns to idle behind it, also
\* after Close ("已接纳的等待项仍由 drain 消费完", ActorMailbox.hpp).
AcceptedRuns ==
  \A t \in Tasks : Submitted(t) ~> /\ \E i \in 1..Len(started) : started[i] = t
                                   /\ \A c \in Coroutines : task[c] # t

\* The mailbox is the serial server: the queue waits, the one coroutine that
\* holds a task executes it.
Current == IF \E c \in Coroutines : drain[c] = "task"
           THEN task[CHOOSE c \in Coroutines : drain[c] = "task"]
           ELSE NoTask

Server == INSTANCE SerialServer WITH pending <- queue, current <- Current, Idle <- NoTask
ImplementsSerialServer == Server!Spec
=============================================================================
