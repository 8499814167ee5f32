------------------------------- MODULE Consent -------------------------------
(***************************************************************************)
(* ConsentCoordinator of control/consent.py: the bounded table of pending  *)
(* consent records.  The random consent_id is unique per record and is     *)
(* represented by the attempt the record was made for.                     *)
(*                                                                         *)
(* Every operation reads the clock before it takes the coordinator's lock; *)
(* "now" below is that reading, possibly older than the clock.             *)
(***************************************************************************)
EXTENDS Attempt, Naturals, FiniteSets

CONSTANTS ConsentTtl, MaxPending

ASSUME ConsentAssumption ==
    /\ ConsentTtl \in Nat \ {0}
    /\ MaxPending \in Nat \ {0}

VARIABLES consents,      \* _records
          requestIds     \* _request_ids: IDs that may not register again

consentVars == <<consents, requestIds>>

ConsentStates == {"none", "pending", "approved", "rejected", "expired"}

NoConsent == [state |-> "none", created |-> 0]

ConsentRecords == [state : ConsentStates, created : Nat]

ConsentTypeOK ==
    /\ consents \in [Attempts -> ConsentRecords]
    /\ requestIds \subseteq RequestIds

ConsentInit ==
    /\ consents = [a \in Attempts |-> NoConsent]
    /\ requestIds = {}

Recorded == {a \in Attempts : consents[a].state # "none"}

\* _current_locked on one record.
CurrentConsent(a, now) ==
    IF consents[a].state = "pending" /\ now >= consents[a].created + ConsentTtl
    THEN [consents[a] EXCEPT !.state = "expired"]
    ELSE consents[a]

IsPending(a, now) == CurrentConsent(a, now).state = "pending"

\* The records register drops: the oldest one that is no longer pending when
\* the table is full.  The table never exceeds its bound, so one is enough.
Evictions(now) ==
    LET finished == {b \in Recorded : ~IsPending(b, now)}
        oldest   == {b \in finished : \A c \in finished :
                                        consents[b].created <= consents[c].created}
    IN  IF Cardinality(Recorded) >= MaxPending /\ finished # {}
        THEN {{b} : b \in oldest}
        ELSE {{}}

\* Mutant: an eviction forgets the record but not its request ID.
RegisterLeaky(a, now, accepted) ==
    \E evicted \in Evictions(now) :
        LET kept == [b \in Attempts |-> IF b \in evicted THEN NoConsent
                                        ELSE CurrentConsent(b, now)]
        IN  /\ accepted <=> /\ Rid(a) \notin requestIds
                            /\ Cardinality(Recorded \ evicted) < MaxPending
            /\ IF accepted
               THEN /\ consents' = [kept EXCEPT ![a] = [state |-> "pending", created |-> now]]
                    /\ requestIds' = requestIds \cup {Rid(a)}
               ELSE consents' = kept /\ UNCHANGED requestIds

\* register: expire overdue records, make room, then add the record of a or
\* refuse it; a refusal keeps the expiries and the eviction.
Register(a, now, accepted) ==
    \E evicted \in Evictions(now) :
        LET kept    == [b \in Attempts |-> IF b \in evicted THEN NoConsent
                                           ELSE CurrentConsent(b, now)]
            keptIds == requestIds \ {Rid(b) : b \in evicted}
        IN  /\ accepted <=> /\ Rid(a) \notin keptIds
                            /\ Cardinality(Recorded \ evicted) < MaxPending
            /\ IF accepted
               THEN /\ consents' = [kept EXCEPT ![a] = [state |-> "pending", created |-> now]]
                    /\ requestIds' = keptIds \cup {Rid(a)}
               ELSE /\ consents' = kept
                    /\ requestIds' = keptIds

\* get, for a record that is still pending.
FindPending(a, now) == IsPending(a, now) /\ UNCHANGED consents

\* _require_pending_locked raises: a lookup of an expired record also denies
\* the request that still waits for it.
NotPending(a, now) ==
    /\ a \in Recorded
    /\ ~IsPending(a, now)
    /\ consents' = [consents EXCEPT ![a] = CurrentConsent(a, now)]
    /\ IF CurrentConsent(a, now).state = "expired" /\ lifecycle[a] = "awaiting_approval"
       THEN Transition(a, "denied")
       ELSE UNCHANGED lifecycle

\* decide, for a record that is still pending.
Decide(a, decision, now) ==
    /\ IsPending(a, now)
    /\ consents' = [consents EXCEPT ![a].state =
                        IF decision = "approve" THEN "approved" ELSE "rejected"]

=============================================================================
