-------------------------- MODULE DynamicRouteTable --------------------------
(***************************************************************************)
(* The table of routes that a discovery provider publishes                 *)
(* (DynamicRouteTable.cc).  Every operation runs under m_mtx and is one    *)
(* step.  observed_at is kept as the age of the view; revisions are stored *)
(* by the code and compared by nobody, so they are left out.               *)
(***************************************************************************)
EXTENDS Naturals, Sequences, SequencesExt

CONSTANTS
  Services,    \* logical service names
  StaleLimit   \* m_stale_limit, in ticks of the model's clock

ASSUME StaleLimitAssumption == StaleLimit \in Nat

VARIABLE
  entries      \* m_entries: [endpoints, age, cursor, unavailable] of each service
               \* published so far

HasService(s) == s \in DOMAIN entries

\* An endpoint that is listed twice is kept where it came first.
Once(list) ==
  FoldLeft(LAMBDA kept, e : IF Contains(kept, e) THEN kept ELSE Append(kept, e),
           <<>>, list)

\* Mutant: the cursor starts again with every snapshot.
CursorRestarts(s, view) == 0

\* The cursor goes on if the view is the one already there.
Cursor(s, view) ==
  IF HasService(s) /\ entries[s].endpoints = view THEN entries[s].cursor ELSE 0

\* Replace: the whole view, however old its revision, and it is fresh.
Replace(s, list) ==
  LET view == Once(list)
      entry == [endpoints |-> view, age |-> 0, cursor |-> Cursor(s, view),
                unavailable |-> FALSE]
  IN  entries' = [x \in DOMAIN entries \cup {s} |-> IF x = s THEN entry ELSE entries[x]]

\* Resolve answers with an error otherwise.
Resolvable(s) ==
  /\ HasService(s) /\ ~entries[s].unavailable
  /\ entries[s].endpoints # <<>>
  /\ entries[s].age <= StaleLimit

\* Resolve: the endpoint under the cursor, which moves on.
Picked(s) == entries[s].endpoints[1 + (entries[s].cursor % Len(entries[s].endpoints))]
Resolve(s) ==
  /\ Resolvable(s)
  /\ entries' = [entries EXCEPT ![s].cursor = @ + 1]

MarkUnavailable(s) ==
  entries' = IF HasService(s)
             THEN [entries EXCEPT ![s].unavailable = TRUE, ![s].endpoints = <<>>]
             ELSE entries

\* Time passes; an age beyond the limit is all the same.
Tick == entries' = [s \in DOMAIN entries |->
          [entries[s] EXCEPT !.age = IF @ > StaleLimit THEN @ ELSE @ + 1]]
=============================================================================
