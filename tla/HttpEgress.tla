------------------------------ MODULE HttpEgress ------------------------------
(***************************************************************************)
(* HttpEgress (RpcHttpBridge.cc): what is behind a call that was routed.   *)
(* The profile is fixed with the egress.  Two profiles send through the    *)
(* clients of the host; the TCP client is made by the first callers, each  *)
(* in its own coroutine and outside m_mtx, and must still be one.          *)
(***************************************************************************)
EXTENDS Naturals

VARIABLES
  profile,  \* RpcEgressProfile of the egress
  client    \* m_rpc_client or the client of the host: how many there have been

egressVars == <<profile, client>>

\* LegacyHeaders, ProtoWireV1 and TcpV1.
Profiles == {"legacy", "proto", "tcp"}

EgressInit(p) ==
  /\ p \in Profiles /\ profile = p
  /\ client = IF p = "tcp" THEN 0 ELSE 1

\* m_rpc_client is copied under m_mtx.
HasClient == client > 0

\* Mutant: the client that was made is installed without a second look.
InstalledBlindly == client' = client + 1 /\ UNCHANGED profile

\* The client a coroutine has made is installed unless there is one by now.
Installed ==
  /\ client' = IF HasClient THEN client ELSE 1
  /\ UNCHANGED profile

\* The legacy profile checks the limits of the host itself, first those of the
\* request and then those of the response; for the others infra does.
ChecksLimits == profile = "legacy"
=============================================================================
