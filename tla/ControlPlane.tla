---------------------------- MODULE ControlPlane ----------------------------
(***************************************************************************)
(* control/control_plane.py as its callers see it: a function of the typed *)
(* request and of the world outside (capability registry, health probes,   *)
(* upstream denials, model routes).  The world drifts on its own, so two   *)
(* evaluations of one request need not agree; every caller evaluates it    *)
(* afresh, never from a cache.                                             *)
(*                                                                         *)
(* What registry, health, permission engine and router compute from a      *)
(* world is abstracted to three tables.  PolicyOf[w][q] is the outcome of  *)
(* the permission decision, or "refused" when check_policy raises          *)
(* ControlPlaneError and "faulted" when it raises another RuntimeError or  *)
(* a ValueError; InvocationOf[w][q] is Nothing when the router raises      *)
(* RoutingError.                                                           *)
(***************************************************************************)
EXTENDS Binding

CONSTANTS Requests,       \* typed control requests
          OwnerOf,        \* the principal a request names
          Worlds,         \* states of the world outside the control plane
          Invocations,    \* Hermes invocation projections
          PolicyOf, FingerprintOf, InvocationOf

Outcomes == {"may_proceed", "requires_confirmation", "must_be_denied"}

ASSUME ControlPlaneAssumption ==
    /\ OwnerOf \in [Requests -> Principals]
    /\ PolicyOf \in [Worlds -> [Requests -> Outcomes \cup {"refused", "faulted"}]]
    /\ FingerprintOf \in [Worlds -> [Requests -> Fingerprints]]
    /\ InvocationOf \in [Worlds -> [Requests -> Invocations \cup {Nothing}]]
    /\ Nothing \notin Requests /\ Nothing \notin Principals
    /\ Nothing \notin Fingerprints /\ Nothing \notin Invocations

VARIABLE world

Outcome(q) == PolicyOf[world][q]

Route(q) == InvocationOf[world][q]

\* check_policy: the decision and its fingerprint, no invocation yet.
Checked(q) == [outcome     |-> Outcome(q),
               fingerprint |-> FingerprintOf[world][q],
               invocation  |-> Nothing]

\* _prepare_route: the same result with the routed invocation.
Routed(q) == [Checked(q) EXCEPT !.invocation = Route(q)]

\* The result a request has before its policy was first checked.
Unchecked == [outcome |-> "unchecked", fingerprint |-> Nothing, invocation |-> Nothing]

ControlResults == [outcome     : Outcomes \cup {"unchecked"},
                   fingerprint : Fingerprints \cup {Nothing},
                   invocation  : Invocations \cup {Nothing}]

\* Health, registry, upstream denials or model candidates change outside.
Drift == world' \in Worlds \ {world}

=============================================================================
