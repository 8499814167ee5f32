------------------------- MODULE AutomationAuthority -------------------------
(***************************************************************************)
(* AutomationAuthority of control/automation.py: the durable ledger of     *)
(* grants and admission receipts.  An advisory file lock lets one process  *)
(* at a time open it; opening it marks the receipts a dead process left in *)
(* flight as unknown.                                                      *)
(*                                                                         *)
(* stopped, grants and receipts are the SQLite tables and survive crashes. *)
(* faulted and active belong to the open authority of the process that     *)
(* holds the lock.  A transaction runs under the authority's lock, so it   *)
(* is one step; one that fails for another reason than a denial changes no *)
(* table and latches the authority (Fault).                                *)
(***************************************************************************)
EXTENDS AutomationConsent

CONSTANTS Executions,     \* Hermes' execution identifiers
          Occurrences,    \* scheduled instants
          LeaseTime,      \* 10 seconds, the longest a lease may last
          MaxGrants, MaxReceipts,
          LedgerMayFail

Grants == [version : JobVersions, config : Configs, owner : Principals,
           until : Deadlines, revoked : BOOLEAN]

ASSUME AuthorityAssumption ==
    /\ LeaseTime \in Nat \ {0}
    /\ MaxGrants \in Nat \ {0} /\ MaxReceipts \in Nat \ {0}
    /\ LedgerMayFail \in BOOLEAN
    /\ Nothing \notin Jobs \cup Occurrences
    /\ Nothing \notin Jobs \X Occurrences /\ Nothing \notin Grants
    /\ IsFiniteSet(Jobs) /\ IsFiniteSet(Executions)

VARIABLES holder,      \* the process that holds authorization.lock
          faulted,     \* _faulted of the open authority
          active,      \* _active, the leases it has out
          stopped, grants, receipts

ledger        == <<stopped, grants, receipts>>
authorityVars == <<holder, faulted, active, ledger>>

NoReceipt == [state |-> "none", job |-> Nothing, occurrence |-> Nothing]

Receipts == [state : {"inflight", "spent", "unknown"}, job : Jobs, occurrence : Occurrences]

LedgerTypeOK ==
    /\ stopped \in BOOLEAN
    /\ grants \in [Jobs -> Grants \cup {Nothing}]
    /\ receipts \in [Executions -> Receipts \cup {NoReceipt}]

AuthorityTypeOK ==
    /\ LedgerTypeOK
    /\ holder \in {"none", "runtime", "worker"}
    /\ faulted \in BOOLEAN /\ active \in Nat

AuthorityInit ==
    /\ stopped = FALSE
    /\ grants = [j \in Jobs |-> Nothing]
    /\ receipts = [e \in Executions |-> NoReceipt]
    /\ holder = "none" /\ faulted = FALSE /\ active = 0

----------------------------------------------------------------------------

\* The part of __init__ that recovers from a crash.
Recover == receipts' = [e \in Executions |->
                           IF receipts[e].state = "inflight"
                           THEN [receipts[e] EXCEPT !.state = "unknown"]
                           ELSE receipts[e]]

\* The lock is taken without waiting: a second process fails to open.
Open(process) ==
    /\ holder = "none"
    /\ holder' = process
    /\ faulted' = FALSE /\ active' = 0
    /\ Recover

Close == holder' = "none" /\ faulted' = FALSE /\ active' = 0

Fault == LedgerMayFail /\ ~faulted /\ faulted' = TRUE

\* binding() raises unless the end of validity is ahead and within a day.
BindingValid(until) == clock < until /\ until <= clock + Validity

\* Mutant: activation does not look at the stop.
MayActivateStopped(j, owner) ==
    /\ grants[j] # Nothing => grants[j].owner = owner
    /\ grants[j] = Nothing => Cardinality({k \in Jobs : grants[k] # Nothing}) < MaxGrants

\* The checks of activate() before it consumes the approval.
MayActivate(j, owner) ==
    /\ ~stopped
    /\ grants[j] # Nothing => grants[j].owner = owner
    /\ grants[j] = Nothing => Cardinality({k \in Jobs : grants[k] # Nothing}) < MaxGrants

StoreGrant(j, version, c, owner, until) ==
    grants' = [grants EXCEPT ![j] = [version |-> version, config |-> c, owner |-> owner,
                                     until |-> until, revoked |-> FALSE]]

\* revoke_if_owner: no row is not an error, another owner's row is.
MayRevoke(j, owner) == grants[j] = Nothing \/ grants[j].owner = owner

RevokeGrant(j) ==
    grants' = IF grants[j] = Nothing THEN grants ELSE [grants EXCEPT ![j].revoked = TRUE]

GlobalStop == stopped' = TRUE

\* Mutant: the replay check compares execution identifiers only.
ReplayedById(e, j, o) == receipts[e] # NoReceipt

\* An execution, or an occurrence of the job, that was admitted before.
Replayed(e, j, o) ==
    \/ receipts[e] # NoReceipt
    \/ \E d \in Executions : receipts[d] # NoReceipt /\ receipts[d].job = j
                                /\ receipts[d].occurrence = o

\* Mutant: the job's fingerprint is not compared.
GrantInForceAnyVersion(j, version, c) ==
    /\ grants[j] # Nothing
    /\ ~grants[j].revoked /\ clock < grants[j].until
    /\ grants[j].config = c

\* The grant of a job, neither revoked nor over, for the job and configuration
\* as they are fingerprinted now.
GrantInForce(j, version, c) ==
    /\ grants[j] # Nothing
    /\ ~grants[j].revoked /\ clock < grants[j].until
    /\ grants[j].version = version /\ grants[j].config = c

MayAdmit(e, j, o, version, c) ==
    /\ ~stopped
    /\ GrantInForce(j, version, c)
    /\ Cardinality({d \in Executions : receipts[d] # NoReceipt}) < MaxReceipts
    /\ ~Replayed(e, j, o)

StoreReceipt(e, j, o) ==
    receipts' = [receipts EXCEPT ![e] = [state |-> "inflight", job |-> j, occurrence |-> o]]

SpendReceipt(e) ==
    receipts' = [receipts EXCEPT ![e].state = IF receipts[e] = NoReceipt THEN @ ELSE "spent"]

LeaseEnd(j) == IF grants[j].until < clock + LeaseTime THEN grants[j].until
               ELSE clock + LeaseTime

=============================================================================
