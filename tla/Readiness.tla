------------------------------ MODULE Readiness ------------------------------
(***************************************************************************)
(* control/computer_use.py: what HermesComputerUseReadinessProbe finds on  *)
(* the host, and what readiness and health make of it.  The host is what   *)
(* its commands would answer; each of them may also fail or time out.      *)
(* Explanations are left out.                                              *)
(***************************************************************************)

\* What `permissions status` says of one permission: a named state, a boolean,
\* or nothing; several spellings of a state are one.
RawGrants == {"granted", "denied", "not_determined", "restart_required",
              "true", "false", "missing"}

\* "fails" stands for an error, a timeout, a bad exit status or bad JSON.
Hosts == [platform : {"darwin", "other"},
          resolver : {"fails", "nothing", "binary"},
          app      : {"absent", "foreign", "invalid", "unverified", "other_team", "signed"},
          manifest : {"fails", "old", "silent", "partial", "current"},
          answers  : BOOLEAN,
          accessibility : RawGrants, screen : RawGrants, capturable : BOOLEAN]

CONSTANT Enabled        \* the probe is enabled

ASSUME ReadinessAssumption == Enabled \in BOOLEAN

----------------------------------------------------------------------------
\* _permission_state, _permission_statuses

StateOf(raw) ==
    CASE raw = "true" -> "granted"
      [] raw = "false" -> "unknown"     \* not told from not_determined
      [] raw = "missing" -> "unavailable"
      [] OTHER -> raw

Unavailable == [accessibility |-> "unavailable", screen |-> "unavailable"]

PermissionStatuses(host) ==
    IF ~host.answers THEN Unavailable
    ELSE [accessibility |-> StateOf(host.accessibility),
          screen |-> IF StateOf(host.screen) = "granted" /\ ~host.capturable
                     THEN "restart_required" ELSE StateOf(host.screen)]

\* _inspect_driver_identity
IdentityReady(host) == host.app = "signed"

\* inspect: what is not looked at is as if it were not there.
Looked(host) == Enabled /\ host.platform = "darwin" /\ host.resolver = "binary"

Inspect(host) ==
    [enabled     |-> Enabled,
     platform    |-> host.platform = "darwin",
     available   |-> Looked(host),
     reachable   |-> Looked(host) /\ host.manifest # "fails",
     contract    |-> Looked(host) /\ host.manifest = "current",
     identity    |-> Looked(host) /\ IdentityReady(host),
     permissions |-> IF Looked(host) THEN PermissionStatuses(host) ELSE Unavailable]

----------------------------------------------------------------------------
\* ComputerUseReadiness

AllGranted(permissions) == \A kind \in DOMAIN permissions : permissions[kind] = "granted"

Ready(r) ==
    /\ r.enabled /\ r.platform
    /\ r.available /\ r.reachable /\ r.contract /\ r.identity
    /\ AllGranted(r.permissions)

HealthProbe(r) ==
    IF ~r.enabled THEN "disabled"
    ELSE IF ~r.platform \/ ~r.available \/ ~r.reachable THEN "unavailable"
    ELSE IF ~r.contract \/ ~r.identity THEN "misconfigured"
    ELSE IF ~AllGranted(r.permissions) THEN "unavailable"
    ELSE "healthy"

=============================================================================
