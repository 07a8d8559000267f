-------------------------- MODULE MCInboundDispatch --------------------------
(* Two sequences of one producer that does not wait for replies; the first   *)
(* is sent twice.                                                            *)
EXTENDS InboundDispatch

Call(n, content, copy) == [seq |-> n, content |-> content, copy |-> copy]

First == Call(1, "a", 1)
Retry == Call(1, "a", 2)
Last == Call(2, "b", 1)
MCCalls == {First, Retry, Last}

Scenario(isOrdered, first, retry, last) ==
  [ordered |-> isOrdered,
   form |-> [c \in MCCalls |-> CASE c = First -> first [] c = Retry -> retry [] c = Last -> last]]

Keyed == Scenario(TRUE, "keyed", "keyed", "keyed")

OrderScenarios == {Keyed}

\* The ordered service alone and beside another kind of call; the concurrent
\* service at its limit; refused envelopes; a service without ordered ingress.
MCScenarios ==
  {Keyed}
  \cup {Scenario(TRUE, "keyed", "keyed", f) : f \in {"keyless", "unstamped", "inline"}}
  \cup {Scenario(TRUE, "inline", "inline", "inline"),
        Scenario(TRUE, "malformed", "unknown", "schema"),
        Scenario(TRUE, "headless", "headless", "inline"),
        Scenario(FALSE, "keyed", "keyed", "malformed")}
=============================================================================
