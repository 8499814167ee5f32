----------------------------- MODULE Permissions -----------------------------
(***************************************************************************)
(* PermissionRiskEngine of control/permissions.py over the proposals that  *)
(* control/codec.py decodes.  A proposal names its scopes and risks; what  *)
(* the wire leaves out has the default of the decoder.  The wording of a   *)
(* decision is left out, its outcome and action classes are kept.          *)
(***************************************************************************)
EXTENDS FiniteSets

CONSTANTS Apps,         \* names of applications
          NoApp         \* no application is named

ASSUME AppsAssumption == NoApp \notin Apps

Classes == {"read_only", "reversible_local", "destructive", "external_communication",
            "credential_sensitive", "financial_high_risk"}

AlwaysConfirm == Classes \ {"read_only", "reversible_local"}
NeverUnattended == AlwaysConfirm

Scopes == {"local.read", "network.read", "screen.capture", "local.write.reversible",
           "input.control", "local.delete", "external.send", "credential.use",
           "finance.transact"}

ClassOf(scope) ==
    CASE scope \in {"local.read", "network.read", "screen.capture"} -> "read_only"
      [] scope \in {"local.write.reversible", "input.control"} -> "reversible_local"
      [] scope = "local.delete" -> "destructive"
      [] scope = "external.send" -> "external_communication"
      [] scope = "credential.use" -> "credential_sensitive"
      [] scope = "finance.transact" -> "financial_high_risk"

SensitiveScopes == {"screen.capture", "input.control"}

\* Any other string is an unknown scope; one stands for all.
UnknownScope == "unknown"

\* The computer-use actions by the scope they require; "none" stands for a
\* missing or unsupported one.
Listing   == {"list_apps", "list_windows", "wait"}
Capturing == {"capture"}
Mutating  == {"click", "double_click", "right_click", "middle_click", "drag", "scroll",
              "type", "key", "set_value", "focus_app"}
InnerActions == Listing \cup Capturing \cup Mutating

RequiredScope(inner) ==
    CASE inner \in Listing -> "local.read"
      [] inner \in Capturing -> "screen.capture"
      [] inner \in Mutating -> "input.control"

----------------------------------------------------------------------------
\* Proposals

\* A flag of the wire format and what the decoder takes it to be when it is
\* left out.
FlagDefault ==
    [target_within_workspace    |-> TRUE,  reversible      |-> TRUE,
     ambiguous                  |-> FALSE, sensitive_scope |-> FALSE,
     remote_disclosure          |-> FALSE, unattended      |-> FALSE,
     approval_surface_available |-> TRUE,  upstream_denied |-> FALSE]

Flags == DOMAIN FlagDefault

Proposals ==
    [tool : {"computer_use", "other"}, inner : InnerActions \cup {"none"},
     app : Apps \cup {NoApp}, resolved : Apps \cup {NoApp}, foreground : Apps \cup {NoApp},
     scopes : SUBSET (Scopes \cup {UnknownScope}), hints : SUBSET Classes,
     declared : SUBSET Flags]    \* the flags that are not at their default

Holds(proposal, flag) ==
    IF flag \in proposal.declared THEN ~FlagDefault[flag] ELSE FlagDefault[flag]

----------------------------------------------------------------------------
\* evaluate

Declared(proposal) == {ClassOf(s) : s \in proposal.scopes \cap Scopes} \cup proposal.hints

\* Mutant: of classes that overlap the mildest counts.
ClassesWeakest(proposal) ==
    LET all == Declared(proposal)
    IN  IF all \cap AlwaysConfirm = all THEN all ELSE all \ AlwaysConfirm

\* _classify
ClassesOf(proposal) == Declared(proposal)

\* _computer_use_denials
ComputerUseDenied(proposal) ==
    \/ proposal.tool # "computer_use"
    \/ proposal.inner \notin InnerActions
    \/ RequiredScope(proposal.inner) \notin proposal.scopes
    \/ /\ proposal.inner \in Mutating
       /\ \/ proposal.app = NoApp \/ proposal.resolved # proposal.app
          \/ proposal.foreground = NoApp
          \/ Holds(proposal, "unattended")

\* permitted are the permissions of the capability's descriptor.
Denied(computerUse, permitted, proposal) ==
    \/ computerUse /\ ComputerUseDenied(proposal)
    \/ Holds(proposal, "upstream_denied")
    \/ ~(proposal.scopes \subseteq Scopes)
    \/ ~(proposal.scopes \subseteq permitted)
    \/ proposal.scopes = {} /\ proposal.hints = {}
    \/ Holds(proposal, "unattended") /\ ClassesOf(proposal) \cap NeverUnattended # {}

NeedsConfirmation(proposal) ==
    \/ ClassesOf(proposal) \cap AlwaysConfirm # {}
    \/ Holds(proposal, "sensitive_scope") \/ proposal.scopes \cap SensitiveScopes # {}
    \/ Holds(proposal, "remote_disclosure")
    \/ /\ "reversible_local" \in ClassesOf(proposal)
       /\ \/ ~Holds(proposal, "target_within_workspace")
          \/ ~Holds(proposal, "reversible")
          \/ Holds(proposal, "ambiguous")

Evaluate(computerUse, permitted, proposal) ==
    IF Denied(computerUse, permitted, proposal) THEN "must_be_denied"
    ELSE IF ~NeedsConfirmation(proposal) THEN "may_proceed"
    ELSE IF Holds(proposal, "approval_surface_available") THEN "requires_confirmation"
    ELSE "must_be_denied"

\* _binding_fingerprint: what an approval is bound to.  Risks and flags are not
\* part of it: they are judged afresh each time.
Bound(capability, proposal) ==
    [capability |-> capability, tool |-> proposal.tool, inner |-> proposal.inner,
     app |-> proposal.app, resolved |-> proposal.resolved,
     foreground |-> proposal.foreground, scopes |-> proposal.scopes]

=============================================================================
