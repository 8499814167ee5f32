-------------------------- MODULE AutomationConsent --------------------------
(***************************************************************************)
(* AutomationConsentCoordinator of control/automation_management.py: the   *)
(* bounded table of pending activations.  It has the shape of the control  *)
(* core's coordinator but touches no request lifecycle.  Each operation    *)
(* reads the clock right before it takes the lock; both are one step here. *)
(***************************************************************************)
EXTENDS Approvals, HermesCron, FiniteSets

CONSTANTS ConsentIds, RequestIds, ConsentTtl, MaxPending,
          Validity      \* 24 hours, the longest a grant may last

ASSUME AutomationConsentAssumption ==
    /\ ConsentTtl \in Nat \ {0}
    /\ MaxPending \in Nat \ {0}
    /\ Validity \in Nat \ {0}
    /\ Nothing \notin ConsentIds \cup RequestIds

VARIABLES consents,     \* _records, by their random consent_id
          requestIds    \* _request_ids

\* Bound: no validity ends later, because the clock stops at MaxClock.
Deadlines == 0..(MaxClock + Validity)

\* What binding() digests: the exact job, profile configuration, principal and
\* end of validity a user is asked to sign.
Bindings == [job : Jobs, version : JobVersions, config : Configs,
             owner : Principals, until : Deadlines]

ASSUME BindingsAssumption == Bindings \subseteq Fingerprints

\* "gone" is a record that was dropped from the table.
ConsentStates == {"none", "pending", "approved", "rejected", "expired", "gone"}

NoConsent == [state |-> "none", rid |-> Nothing, binding |-> Nothing, created |-> 0]

ConsentRecords == [state   : ConsentStates,
                   rid     : RequestIds \cup {Nothing},
                   binding : Bindings \cup {Nothing},
                   created : Nat]

AutomationConsentTypeOK ==
    /\ consents \in [ConsentIds -> ConsentRecords]
    /\ requestIds \subseteq RequestIds

AutomationConsentInit ==
    /\ consents = [c \in ConsentIds |-> NoConsent]
    /\ requestIds = {}

Recorded == {c \in ConsentIds : consents[c].state \notin {"none", "gone"}}

\* _current_locked
CurrentConsent(c) ==
    IF consents[c].state = "pending" /\ clock >= consents[c].created + ConsentTtl
    THEN [consents[c] EXCEPT !.state = "expired"]
    ELSE consents[c]

IsPending(c) == CurrentConsent(c).state = "pending"

\* The record a full table drops: the oldest that is no longer pending.
Evictions ==
    LET finished == {c \in Recorded : ~IsPending(c)}
    IN  IF Cardinality(Recorded) >= MaxPending /\ finished # {}
        THEN {{c} : c \in {d \in finished : \A e \in finished :
                                consents[d].created <= consents[e].created}}
        ELSE {{}}

\* register, under a fresh consent_id; a refusal keeps expiries and evictions.
Register(r, binding) ==
    \E c \in ConsentIds, evicted \in Evictions :
        LET kept    == [d \in ConsentIds |-> IF d \in evicted
                                             THEN [NoConsent EXCEPT !.state = "gone"]
                                             ELSE CurrentConsent(d)]
            keptIds == requestIds \ {consents[d].rid : d \in evicted}
        IN  /\ consents[c].state = "none"
            /\ IF r \notin keptIds /\ Cardinality(Recorded \ evicted) < MaxPending
               THEN /\ consents' = [kept EXCEPT ![c] =
                            [state |-> "pending", rid |-> r, binding |-> binding, created |-> clock]]
                    /\ requestIds' = keptIds \cup {r}
               ELSE consents' = kept /\ requestIds' = keptIds

\* A lookup stores the expiry it finds.
Look(c) == consents' = [consents EXCEPT ![c] = CurrentConsent(c)] /\ UNCHANGED requestIds

\* decide, for a record that is still pending.
Decide(c, decision) ==
    /\ consents' = [consents EXCEPT ![c].state =
                        IF decision = "approve" THEN "approved" ELSE "rejected"]
    /\ UNCHANGED requestIds

\* The table lives in memory only.
ForgetConsents ==
    /\ consents' = [c \in ConsentIds |-> IF consents[c].state = "none" THEN NoConsent
                                         ELSE [NoConsent EXCEPT !.state = "gone"]]
    /\ requestIds' = {}

=============================================================================
