--------------------------- MODULE RedisNetResource ----------------------------
(***************************************************************************)
(* Resources with a network engine of their own (RedisNetResource.hpp).    *)
(* Create starts the engine in a thread, Close seals the resource, asks    *)
(* the engine to stop and joins the thread.  Anybody who has the resource  *)
(* may close it; who finds it sealed returns at once.                      *)
(***************************************************************************)

CONSTANT Engined   \* resources of this kind

ASSUME EnginedAssumption == "none" \notin Engined

VARIABLES
  engine,    \* "none", "running", "stopped"; only a joined engine is stopped
  sealedBy   \* "nobody", "run" or "user": whose Close set m_closed

engineVars == <<engine, sealedBy>>

EngineInit ==
  /\ engine = [r \in Engined |-> "none"]
  /\ sealedBy = [r \in Engined |-> "nobody"]

\* Create succeeds; when it fails, it joins the engine it has started.
EngineCreated(r) ==
  /\ engine' = IF r \in Engined THEN [engine EXCEPT ![r] = "running"] ELSE engine
  /\ UNCHANGED sealedBy

Sealed(r) == sealedBy[r] # "nobody"

\* Close of the resources in R at the end of run, from m_closed to the join.
EnginesClosed(R) ==
  LET now == {r \in Engined \cap R : ~Sealed(r)}
  IN  /\ engine' = [r \in Engined |-> IF r \in now THEN "stopped" ELSE engine[r]]
      /\ sealedBy' = [r \in Engined |-> IF r \in now THEN "run" ELSE sealedBy[r]]

\* A user closes: m_closed under the mutex, the join outside of it.
UserSeals(r) ==
  /\ engine[r] = "running" /\ ~Sealed(r)
  /\ sealedBy' = [sealedBy EXCEPT ![r] = "user"] /\ UNCHANGED engine

UserJoins(r) ==
  /\ engine[r] = "running" /\ sealedBy[r] = "user"
  /\ engine' = [engine EXCEPT ![r] = "stopped"] /\ UNCHANGED sealedBy
==============================================================================
