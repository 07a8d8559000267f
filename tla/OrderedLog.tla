----------------------------- MODULE OrderedLog -----------------------------
(***************************************************************************)
(* What an ordered entry point promises its callers, without grants,       *)
(* caches or eviction.                                                     *)
(*                                                                         *)
(* Every ordered stream is a log.  A request is executed by appending it   *)
(* at the next free position; its terminal reply is written once; every    *)
(* later request for a used position is answered from what that position   *)
(* already holds and never executes anything.                              *)
(***************************************************************************)
EXTENDS Naturals, Sequences

CONSTANTS
  Streams,   \* ordered streams (actor key, producer id, producer epoch)
  Requests,  \* request contents: request id together with digest
  Replies,   \* terminal replies: [for |-> request, outcome |-> ...]
  Positions  \* sequence numbers a request may carry

VARIABLES
  log,       \* log[s]: requests executed on s, in order
  outcome,   \* outcome[s]: terminal reply of each finished position
  answer     \* the last decision handed to a caller

vars == <<log, outcome, answer>>

Empty == [n \in {} |-> n]

Init ==
  /\ log = [s \in Streams |-> <<>>]
  /\ outcome = [s \in Streams |-> Empty]
  /\ answer = [kind |-> "None"]

Used(s, n) == n \in 1..Len(log[s])

\* A session switch starts the stream again from an empty log.
NewSession(s) ==
  /\ log' = [log EXCEPT ![s] = <<>>]
  /\ outcome' = [outcome EXCEPT ![s] = Empty]
  /\ answer' = [kind |-> "None"]

\* Only the next position of the log can be executed.
Execute(s, req) ==
  /\ log' = [log EXCEPT ![s] = Append(@, req)]
  /\ answer' = [kind |-> "Execute", stream |-> s, seq |-> Len(log[s]) + 1]
  /\ UNCHANGED outcome

\* A position receives one terminal reply, produced for its own request.
Finish(s, n, reply) ==
  /\ Used(s, n) /\ n \notin DOMAIN outcome[s]
  /\ reply.for = log[s][n]
  /\ outcome' = [outcome EXCEPT ![s] =
       [m \in DOMAIN @ \cup {n} |-> IF m = n THEN reply ELSE @[m]]]
  /\ answer' = [kind |-> "Completed", stream |-> s, seq |-> n]
  /\ UNCHANGED log

\* The terminal reply of the position, to the request that took it.
Replay(s, n, req) ==
  /\ Used(s, n) /\ n \in DOMAIN outcome[s] /\ log[s][n] = req
  /\ answer' = [kind |-> "Replay", stream |-> s, seq |-> n, req |-> req,
                reply |-> outcome[s][n]]
  /\ UNCHANGED <<log, outcome>>

\* A position that is neither used nor next: the caller learns which one is.
Gap(s, n) ==
  /\ ~Used(s, n) /\ n # Len(log[s]) + 1
  /\ answer' = [kind |-> "Gap", stream |-> s, seq |-> n,
                expected |-> Len(log[s]) + 1]
  /\ UNCHANGED <<log, outcome>>

\* A refusal leaves the log alone and tells the caller the truth about the
\* position.  A forgotten reply and a caller without a grant are the
\* implementation's to decide.
MayRefuse(kind, s, n, req) ==
  CASE kind = "InProgress" -> /\ Used(s, n) /\ n \notin DOMAIN outcome[s]
                              /\ log[s][n] = req
    [] kind = "Conflict"   -> Used(s, n) /\ log[s][n] # req
    [] kind = "Expired"    -> Used(s, n) /\ n \in DOMAIN outcome[s]
    [] OTHER               -> TRUE

Refuse(kind, s, n, req) ==
  /\ MayRefuse(kind, s, n, req)
  /\ answer' = [kind |-> kind, stream |-> s, seq |-> n, req |-> req]
  /\ UNCHANGED <<log, outcome>>

\* Anything that answers no ordered request.
Quiet ==
  /\ answer' = [kind |-> "None"]
  /\ UNCHANGED <<log, outcome>>

RefusalKinds == {"Rejected", "InProgress", "Conflict", "Expired"}

Next ==
  \/ Quiet
  \/ \E s \in Streams :
       \/ NewSession(s)
       \/ \E req \in Requests : Execute(s, req)
       \/ \E n \in Positions :
            \/ \E reply \in Replies : Finish(s, n, reply)
            \/ Gap(s, n)
            \/ \E req \in Requests :
                 \/ Replay(s, n, req)
                 \/ \E kind \in RefusalKinds : Refuse(kind, s, n, req)

Spec == Init /\ [][Next]_vars
=============================================================================
