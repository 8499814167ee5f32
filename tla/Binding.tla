------------------------------- MODULE Binding -------------------------------
(***************************************************************************)
(* What an approval is bound to: the names the components share.           *)
(***************************************************************************)
CONSTANTS Principals,     \* (caller_id, session_id) pairs, always compared together
          Fingerprints,   \* binding fingerprints of exact actions
          ApprovalIds,
          Nothing         \* Python's None, wherever a value may be absent

=============================================================================
