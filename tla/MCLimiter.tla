----------------------------- MODULE MCLimiter -----------------------------
(***************************************************************************)
(* A deployment without a global limit: the default tenant is not limited  *)
(* at all.  "acme" has a limit of its own.  "slow" has a burst and no rate,*)
(* which validateRateLimit accepts as long as enabled is not set: its      *)
(* bucket is never refilled.                                               *)
(***************************************************************************)
EXTENDS Limiter

Cfg(on, rpm, burst) == [enabled |-> on, requestsPerMinute |-> rpm, burst |-> burst]

MCTenant == {"default", "acme", "slow"}
MCDefaultCfg == Cfg(FALSE, 0, 0)
MCTenantCfg == [t \in {"acme", "slow"} |->
                  IF t = "acme" THEN Cfg(TRUE, 45, 2) ELSE Cfg(FALSE, 0, 2)]
=============================================================================
