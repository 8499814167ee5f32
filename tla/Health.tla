------------------------------- MODULE Health -------------------------------
(***************************************************************************)
(* control/health.py over the registry that control/hermes_projection.py   *)
(* projects: the capabilities of the pinned Hermes, each enabled, without  *)
(* required configuration, and dependent on the agent alone.               *)
(***************************************************************************)

\* CAPABILITY_SPECS: the permissions of a capability's descriptor.
Permitted ==
    [files    |-> {"local.read", "local.write.reversible", "local.delete"},
     terminal |-> {"local.read", "local.write.reversible", "local.delete"},
     browser  |-> {"network.read", "external.send"},
     memory   |-> {"local.read", "local.write.reversible", "local.delete"},
     mcp      |-> {"network.read", "external.send", "credential.use"},
     computer_use |-> {"local.read", "screen.capture", "input.control", "local.delete",
                       "external.send", "credential.use", "finance.transact"}]

Capabilities == DOMAIN Permitted

HealthStates == {"unknown", "starting", "healthy", "degraded", "unavailable", "blocked",
                 "misconfigured", "disabled"}

\* An outcome a probe may have.
ProbeStates == HealthStates \ {"unknown", "starting"}

HardFailures == {"unavailable", "misconfigured", "disabled", "blocked"}

\* _derive_state, for a capability that is enabled and configured.  probe is
\* "none" if there is no outcome.
DeriveState(available, dependency, probe) ==
    IF ~available \/ dependency \in HardFailures THEN "unavailable"
    ELSE IF probe \in {"disabled", "misconfigured"} THEN probe
    ELSE IF probe \in {"unavailable", "blocked"} THEN "unavailable"
    ELSE IF dependency # "healthy" \/ probe = "degraded" THEN "degraded"
    ELSE "healthy"

=============================================================================
