------------------------- MODULE MCOrderedDelivery ---------------------------
(* Openable and the programs of the threads for OrderedDelivery.              *)
EXTENDS OrderedDelivery

Grant == [stream |-> "orders", peer |-> "alice"]
Conflicting == [stream |-> "orders", peer |-> "bob"]
Elsewhere == [stream |-> "events", peer |-> "alice"]
MCGrants == {Grant, Conflicting, Elsewhere}

Open(g) == [do |-> "Open", grant |-> g]
Prepares == [do |-> "Prepare"]
Drops == [do |-> "Drop"]
Withdraws == [do |-> "Withdraw"]
Call(k, c) == [do |-> "Call", stamp |-> k, content |-> c]
Publishes(list) == [do |-> "Publish", list |-> list]

\* Two threads share a session and its stamps; the space ends at two.
Pipelining == <<
  <<Open(Grant), Prepares, Prepares, Prepares, Call(1, "a"), Call(2, "a"), Drops>>,
  <<Call(2, "b")>>>>

\* The session ends and is opened again under the same grant.
Reopening == <<
  <<Open(Grant), Prepares, Call(1, "a"), Drops, Call(1, "a")>>,
  <<Open(Grant), Prepares, Call(2, "b")>>>>

\* Sessions come and go while others are opened.
Opening == <<
  <<Open(Grant), Drops, Open(Elsewhere), Drops, Open(Grant), Drops>>,
  <<Open(Grant), Drops, Open(Conflicting), Prepares, Drops, Open(Elsewhere), Drops>>>>

\* Retries of one call under a changing view.
Routing == <<
  <<Open(Grant), Prepares, Call(1, "a"), Call(1, "a"), Call(1, "a")>>,
  <<Withdraws, Publishes(<<"e1", "e2", "e1">>), Publishes(<<"e1", "e2", "e1">>), Withdraws,
    Publishes(<<"e2">>)>>>>

\* Calls while the discovery component comes and goes ...
Do(op) == [do |-> op]
Discovering == <<
  <<Open(Grant), Prepares, Call(1, "a")>>,
  <<Do("Create"), Do("Start"), Do("Close")>>>>

\* ... and all its operations.
Registering == <<
  <<>>,
  <<Do("Create"), Do("Start"), Do("Register"), Do("Deregister"), Do("Start"), Do("Close"),
    Do("Close")>>>>

\* A session ends while another stream is opened.
Crossing == <<<<Open(Grant), Drops>>, <<Open(Elsewhere)>>>>

\* One call, which may fail on its way.
Calling == <<<<Open(Grant), Prepares, Call(1, "a")>>, <<>>>>

MCViews == {<<"e1", "e2">>, <<>>}
MCPrograms ==
  {[ops |-> Pipelining, profile |-> "tcp"], [ops |-> Reopening, profile |-> "legacy"]}
  \cup {[ops |-> p, profile |-> "proto"] : p \in {Opening, Routing, Discovering, Registering}}
CrossingPrograms == {[ops |-> Crossing, profile |-> "proto"]}
CallingPrograms == {[ops |-> Calling, profile |-> "proto"]}
DiscoveringPrograms == {[ops |-> Discovering, profile |-> "proto"]}
=============================================================================
