--------------------------- MODULE OrderedSession ----------------------------
(***************************************************************************)
(* The sending side of ordered calls (OrderedSession.cc): the process-wide *)
(* registry of sessions, which holds weak pointers only, the sequences and *)
(* tickets of a session, and the rule of first sends.                      *)
(*                                                                         *)
(* OpenImpl and the destructor need s_registry_mtx, and OpenImpl owns the  *)
(* session it looks at while it compares grants, so both are sequences of  *)
(* steps of a thread.  prepare and BindForSend run under the mutex of the  *)
(* session and are one step each.                                          *)
(*                                                                         *)
(* A session is the number of its instance (instance_id_).  It lives while *)
(* a thread holds it: `held` is the pointer the user keeps, `temp` the one *)
(* that OpenImpl or a call has locked.                                     *)
(***************************************************************************)
EXTENDS Naturals, Sequences, SequencesExt, Thinning

CONSTANTS
  Threads,   \* coroutines that open and use sessions
  Openable,    \* [stream : stream id of five fields, peer : peer_principal]
  Contents,  \* OrderedTicket::BoundContent
  LastSeq    \* numeric_limits<uint64_t>::max()

ASSUME SessionAssumption == LastSeq \in Nat \ {0} /\ 0 \notin Threads

VARIABLES
  mutex,     \* owner of s_registry_mtx, 0 if none
  registry,  \* s_registry: sessions in order of creation
  sessions,  \* state of every instance ever created
  held,      \* the session a thread keeps, 0 if none
  temp,      \* the session a thread has locked for one operation, 0 if none
  open       \* where a thread is inside OpenImpl or the destructor

sessionVars == <<mutex, registry, sessions, held, temp, open>>

Instances == DOMAIN sessions
Lives(s) == \E t \in Threads : held[t] = s \/ temp[t] = s
OnlyOwner(t, s) == \A u \in Threads \ {t} : held[u] # s /\ temp[u] # s

Outside == [at |-> "outside"]
Fresh(g) == [grant |-> g, next |-> 1, exhausted |-> FALSE, watermark |-> 0,
             bound |-> [n \in {} |-> n]]

SessionInit ==
  /\ mutex = 0 /\ registry = <<>> /\ sessions = <<>>
  /\ held = [t \in Threads |-> 0] /\ temp = [t \in Threads |-> 0]
  /\ open = [t \in Threads |-> Outside]
-----------------------------------------------------------------------------
(* Open.                                                                   *)

Enter(t, at) == open' = [open EXCEPT ![t] = [@ EXCEPT !.at = at]]
ReturnFromOpen(t) == open' = [open EXCEPT ![t] = Outside] /\ mutex' = 0

\* The mutex is taken and the scan of the registry begins.  A thread keeps one
\* session at a time (bound of the model).
OpenLocks(t, g) ==
  /\ open[t] = Outside /\ mutex = 0 /\ held[t] = 0 /\ temp[t] = 0
  /\ mutex' = t
  /\ open' = [open EXCEPT ![t] = [at |-> "scan", grant |-> g, index |-> 1]]
  /\ UNCHANGED <<registry, sessions, held, temp>>

\* The entry under the index: a session that is alive is locked, the entry of
\* one that is gone is erased.
OpenScans(t) ==
  /\ open[t].at = "scan" /\ open[t].index <= Len(registry)
  /\ LET s == registry[open[t].index]
     IN  IF Lives(s)
         THEN /\ temp' = [temp EXCEPT ![t] = s] /\ Enter(t, "compare")
              /\ UNCHANGED registry
         ELSE /\ registry' = RemoveAt(registry, open[t].index)
              /\ UNCHANGED <<temp, open>>
  /\ UNCHANGED <<mutex, sessions, held>>

\* The same complete grant: the session is shared.
OpenShares(t) ==
  /\ open[t].at = "compare" /\ sessions[temp[t]].grant = open[t].grant
  /\ held' = [held EXCEPT ![t] = temp[t]] /\ temp' = [temp EXCEPT ![t] = 0]
  /\ ReturnFromOpen(t)
  /\ UNCHANGED <<registry, sessions>>

SameStream(t) == sessions[temp[t]].grant.stream = open[t].grant.stream

\* The locked pointer goes out of scope before the mutex is released.  If the
\* other owners have let go meanwhile, the destructor runs here and locks the
\* mutex this thread already holds.
LocksItself(t) ==
  /\ open[t].at = "compare" /\ sessions[temp[t]].grant # open[t].grant
  /\ OnlyOwner(t, temp[t])
  /\ temp' = [temp EXCEPT ![t] = 0] /\ Enter(t, "stuck")
  /\ UNCHANGED <<mutex, registry, sessions, held>>

\* The same stream for another peer: StreamRejected.
OpenRejected(t) ==
  /\ open[t].at = "compare" /\ sessions[temp[t]].grant # open[t].grant
  /\ ~OnlyOwner(t, temp[t]) /\ SameStream(t)
  /\ temp' = [temp EXCEPT ![t] = 0]
  /\ ReturnFromOpen(t)
  /\ UNCHANGED <<registry, sessions, held>>

\* Another stream: on to the next entry.
OpenPasses(t) ==
  /\ open[t].at = "compare" /\ ~SameStream(t) /\ ~OnlyOwner(t, temp[t])
  /\ temp' = [temp EXCEPT ![t] = 0]
  /\ open' = [open EXCEPT ![t].at = "scan", ![t].index = @ + 1]
  /\ UNCHANGED <<mutex, registry, sessions, held>>

\* Mutant: the scan is skipped.
ScannedAtOnce(t) == TRUE

Scanned(t) == open[t].index > Len(registry)

\* No live session has the stream: a new one is registered.
OpenCreates(t) ==
  LET s == Len(sessions) + 1
  IN  /\ open[t].at = "scan" /\ Scanned(t)
      /\ sessions' = Append(sessions, Fresh(open[t].grant))
      /\ registry' = Append(registry, s)
      /\ held' = [held EXCEPT ![t] = s]
      /\ ReturnFromOpen(t)
      /\ UNCHANGED temp

OpenSteps(t) ==
  \/ OpenScans(t) \/ OpenShares(t) \/ LocksItself(t)
  \/ OpenRejected(t) \/ OpenPasses(t) \/ OpenCreates(t)
-----------------------------------------------------------------------------
(* The end of a session.                                                   *)

\* Destroying the last pointer runs the destructor in this thread.
LetGo(t, s) ==
  IF OnlyOwner(t, s) /\ s \notin {held'[t], temp'[t]}
  THEN open' = [open EXCEPT ![t] = [at |-> "destroy"]]
  ELSE UNCHANGED open

\* The user destroys its pointer.
Drop(t) ==
  /\ open[t] = Outside /\ held[t] # 0 /\ temp[t] = 0
  /\ held' = [held EXCEPT ![t] = 0] /\ UNCHANGED temp
  /\ LetGo(t, held[t])
  /\ UNCHANGED <<mutex, registry, sessions>>

\* The entries of dead sessions are swept.
Sweeps == Thinned(registry, {s \in Instances : ~Lives(s)}, registry')

\* ~OrderedSession gives the place of its grant back.
Destroy(t) ==
  /\ open[t].at = "destroy" /\ mutex = 0
  /\ Sweeps
  /\ open' = [open EXCEPT ![t] = Outside]
  /\ UNCHANGED <<mutex, sessions, held, temp>>
-----------------------------------------------------------------------------
(* Tickets.                                                                *)

\* tickets_ holds those of 1..Issued(s).
Issued(s) == IF sessions[s].exhausted THEN LastSeq ELSE sessions[s].next - 1

\* Mutant: the counter wraps to 1.
AdvanceWraps(r) == [r EXCEPT !.next = IF @ = LastSeq THEN 1 ELSE @ + 1]

\* The last sequence closes the session for prepare.
Advance(r) == IF r.next = LastSeq THEN [r EXCEPT !.exhausted = TRUE]
                                  ELSE [r EXCEPT !.next = @ + 1]

\* prepare hands out sequence sessions[s].next.
Prepare(s) ==
  /\ ~sessions[s].exhausted
  /\ sessions' = [sessions EXCEPT ![s] = Advance(@)]
  /\ UNCHANGED <<mutex, registry, held, temp, open>>

IsSent(s, n) == n \in DOMAIN sessions[s].bound

\* Mutant: a ticket that was sent is sent again whatever the content.
VerdictResends(s, n, c) ==
  IF IsSent(s, n) THEN "Ok"
  ELSE IF n = sessions[s].watermark + 1 THEN "Ok" ELSE "SequenceGap"

\* A ticket is first sent behind all smaller ones and always with one content.
Verdict(s, n, c) ==
  CASE IsSent(s, n) /\ sessions[s].bound[n] = c          -> "Ok"
    [] IsSent(s, n) /\ sessions[s].bound[n] # c          -> "SequenceConflict"
    [] ~IsSent(s, n) /\ n = sessions[s].watermark + 1    -> "Ok"
    [] OTHER                                             -> "SequenceGap"

\* BindForSend of a ticket this session issued, when its verdict is Ok.
BindForSend(s, n, c) ==
  /\ Verdict(s, n, c) = "Ok"
  /\ sessions' = IF IsSent(s, n) THEN sessions
       ELSE [sessions EXCEPT ![s].watermark = @ + 1,
               ![s].bound = [m \in DOMAIN @ \cup {n} |-> IF m = n THEN c ELSE @[m]]]
-----------------------------------------------------------------------------
(* Properties.                                                             *)

\* A thread waits for the registry mutex it holds itself (OpenImpl).
LockedItself == \E t \in Threads : open[t].at = "stuck"

\* "At most one live sender per stream in the process" (OrderedSession.hpp):
\* live sessions have different streams and stay in the registry, each once,
\* while others open, share and destroy sessions; the registry names the dead
\* only until somebody sweeps it.
SingleSender ==
  /\ \A s, r \in Instances : Lives(s) /\ Lives(r) /\ s # r =>
       sessions[s].grant.stream # sessions[r].grant.stream
  /\ \A s \in Instances : Lives(s) => \E k \in 1..Len(registry) : registry[k] = s
  /\ \A j, k \in 1..Len(registry) : registry[j] = registry[k] => j = k

\* The tickets that were sent are exactly those up to the watermark, and they
\* were all issued: no first send skips a ticket (BindForSend), whichever
\* coroutine sends it, and none repeats a sequence at the end of the space.
FirstSendsInOrder ==
  \A s \in Instances :
    /\ DOMAIN sessions[s].bound = 1..sessions[s].watermark
    /\ sessions[s].watermark <= Issued(s) /\ Issued(s) <= LastSeq
=============================================================================
