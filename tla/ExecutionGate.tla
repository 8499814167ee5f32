---------------------------- MODULE ExecutionGate ----------------------------
(***************************************************************************)
(* ExecutionGate of control/execution.py: the table of prepared records,   *)
(* keyed by request ID, behind one lock.  register_prepared does its       *)
(* checks and reads the clock before taking the lock.  execute keeps the   *)
(* lock over the whole revalidation, which re-evaluates policy, health     *)
(* probes and route, and releases it for the adapter call.                 *)
(*                                                                         *)
(* A record leaves the table only when a later registration finds its TTL  *)
(* over, whatever its lifecycle is then; the thread that executes it keeps *)
(* its own reference.  The audit ledger is reduced to what its failure     *)
(* does to control flow (see ControlRuntime).                              *)
(***************************************************************************)
EXTENDS Approvals, Attempt, FiniteSets

CONSTANTS Threads, PreparationTtl, MaxPrepared

ASSUME GateAssumption ==
    /\ PreparationTtl \in Nat \ {0}
    /\ MaxPrepared \in Nat \ {0}
    /\ Nothing \notin Threads

VARIABLES prepared,      \* _prepared
          gateHolder     \* the thread inside _lock across steps, or Nothing

gateVars == <<prepared, gateHolder>>

Empty == [attempt |-> Nothing, expires |-> 0]

GateRecords == {Empty} \cup [attempt : Attempts, expires : Nat]

GateTypeOK ==
    /\ prepared \in [RequestIds -> GateRecords]
    /\ gateHolder \in Threads \cup {Nothing}

GateInit ==
    /\ prepared = [r \in RequestIds |-> Empty]
    /\ gateHolder = Nothing

\* _require_matching_approval
ApprovalMatches(a) ==
    /\ approvalOf[a] # Nothing
    /\ LET approval == Current(approvalOf[a]) IN
        /\ approval.state = "consumed"
        /\ clock < approval.expires
        /\ approval.fingerprint = bound[a].fingerprint
        /\ approval.owner = Owner(a)

\* register_prepared up to the clock reading: what may be registered at all.
MayRegister(a) ==
    /\ lifecycle[a] = "prepared"
    /\ bound[a].invocation # Nothing
    /\ IF bound[a].outcome = "requires_confirmation"
       THEN ApprovalMatches(a)
       ELSE approvalOf[a] = Nothing

\* The locked part of register_prepared.  Records whose TTL is over at "now"
\* go first, even if the registration is then refused.
RegisterPrepared(a, now, accepted) ==
    LET live == [r \in RequestIds |-> IF now >= prepared[r].expires THEN Empty
                                      ELSE prepared[r]]
    IN  /\ gateHolder = Nothing
        /\ accepted <=>
             /\ live[Rid(a)] = Empty
             /\ Cardinality({r \in RequestIds : live[r] # Empty}) < MaxPrepared
        /\ prepared' = IF accepted
                       THEN [live EXCEPT ![Rid(a)] =
                                [attempt |-> a, expires |-> now + PreparationTtl]]
                       ELSE live
        /\ UNCHANGED gateHolder

\* The part of _revalidation_error that precedes the control plane: TTL,
\* identity and approval.  q is the request the execute envelope carries.
StillAuthorized(a, q) ==
    /\ clock < prepared[Rid(a)].expires
    /\ OwnerOf[q] = Owner(a)
    /\ bound[a].outcome = "requires_confirmation" => ApprovalMatches(a)

\* Mutant: the fresh route is not compared with the prepared one.
StillAsPreparedUnrouted(a, q) ==
    Outcome(q) = bound[a].outcome /\ Checked(q).fingerprint = bound[a].fingerprint

\* The part that evaluates the control plane and compares: same outcome, same
\* fingerprint, same invocation.  A control-plane error is never an outcome.
StillAsPrepared(a, q) == Routed(q) = bound[a]

=============================================================================
