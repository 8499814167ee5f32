------------------------------- MODULE Attempt -------------------------------
(***************************************************************************)
(* One attempt is one authenticated prepare call: the RequestLifecycle     *)
(* object it creates, with the request, the control-plane result and the   *)
(* approval that travel with it through the pending-consent record and the *)
(* gate's prepared record, which hold references to the same objects.  A   *)
(* client may send one request ID many times; each time is a new attempt.  *)
(***************************************************************************)
EXTENDS RequestState, ControlPlane

CONSTANTS Attempts,
          RequestIds,
          Envelopes,      \* the IPC envelopes clients send
          Malformed       \* a payload the decoder refuses

ASSUME AttemptAssumption ==
    /\ Envelopes \subseteq [operation : {"prepare", "execute"},
                            rid       : RequestIds,
                            sender    : Principals,
                            authentic : BOOLEAN,
                            content   : Requests \cup {Malformed},
                            approval  : ApprovalIds \cup {Nothing}]
    /\ Malformed \notin Requests
    /\ Nothing \notin Attempts /\ Nothing \notin RequestIds
    /\ Nothing \notin ApprovalIds /\ Nothing \notin Envelopes

VARIABLES request,        \* the envelope of an attempt, Nothing before it starts
          lifecycle,
          bound,          \* the control-plane result the attempt carries
          approvalOf      \* the approval it presents or was granted

attemptVars == <<request, lifecycle, bound, approvalOf>>

AttemptTypeOK ==
    /\ request \in [Attempts -> Envelopes \cup {Nothing}]
    /\ lifecycle \in [Attempts -> RequestStates]
    /\ bound \in [Attempts -> ControlResults]
    /\ approvalOf \in [Attempts -> ApprovalIds \cup {Nothing}]

AttemptInit ==
    /\ request = [a \in Attempts |-> Nothing]
    /\ lifecycle = [a \in Attempts |-> "received"]
    /\ bound = [a \in Attempts |-> Unchecked]
    /\ approvalOf = [a \in Attempts |-> Nothing]

Transition(a, s) == lifecycle' = [lifecycle EXCEPT ![a] = s]

Rid(a) == request[a].rid

Content(a) == request[a].content

Owner(a) == OwnerOf[Content(a)]

\* An envelope that passes authentication, decoding and the identity check.
Accepted(e) ==
    /\ e.authentic
    /\ e.content # Malformed
    /\ e.sender = OwnerOf[e.content]

=============================================================================
