---------------------------- MODULE RequestState ----------------------------
(***************************************************************************)
(* The request lifecycle of control/request_state.py: its states and the   *)
(* table of legal transitions.  A RequestLifecycle object raises           *)
(* IllegalRequestTransition on a move outside the table, so a module that  *)
(* assigns a lifecycle has to stay inside CanTransition.                   *)
(***************************************************************************)

RequestStates ==
    {"received", "authenticated", "policy_checked", "awaiting_approval",
     "approved", "prepared", "executing", "completed", "denied", "failed"}

Terminal == {"completed", "denied", "failed"}

\* _LEGAL_TRANSITIONS, as a relation; a terminal state has no successor.
LegalTransitions ==
    ({"received"}          \X {"authenticated", "denied", "failed"}) \cup
    ({"authenticated"}     \X {"policy_checked", "denied", "failed"}) \cup
    ({"policy_checked"}    \X {"awaiting_approval", "approved", "denied", "failed"}) \cup
    ({"awaiting_approval"} \X {"approved", "denied", "failed"}) \cup
    ({"approved"}          \X {"prepared", "denied", "failed"}) \cup
    ({"prepared"}          \X {"executing", "denied"}) \cup
    ({"executing"}         \X {"completed", "denied", "failed"})

CanTransition(s, t) == <<s, t>> \in LegalTransitions

=============================================================================
