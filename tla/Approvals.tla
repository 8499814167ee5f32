------------------------------ MODULE Approvals ------------------------------
(***************************************************************************)
(* control/approvals.py: the in-memory store of one-time approvals.  Every *)
(* operation is one critical section of the store's lock, and looks the    *)
(* record up through _current, which turns an approval whose deadline has  *)
(* passed to "expired" - lazily, so a record nobody looks at keeps its old *)
(* state.  An operation that is refused still leaves that mark behind.     *)
(*                                                                         *)
(* The clock is time.monotonic, cut at MaxClock for model checking.        *)
(***************************************************************************)
EXTENDS Binding, Naturals

CONSTANTS ApprovalTtl, MaxClock

ASSUME ApprovalsAssumption ==
    /\ ApprovalTtl \in Nat \ {0}
    /\ MaxClock \in Nat
    /\ Nothing \notin ApprovalIds

VARIABLES clock, approvals

ApprovalStates == {"unissued", "issued", "available", "consumed", "expired", "revoked"}

Unissued == [state |-> "unissued", fingerprint |-> Nothing, owner |-> Nothing, expires |-> 0]

ApprovalRecords == [state       : ApprovalStates,
                    fingerprint : Fingerprints \cup {Nothing},
                    owner       : Principals \cup {Nothing},
                    expires     : Nat]

ApprovalsTypeOK ==
    /\ clock \in Nat
    /\ approvals \in [ApprovalIds -> ApprovalRecords]

StoreInit ==
    /\ clock = 0
    /\ approvals = [id \in ApprovalIds |-> Unissued]

Tick ==
    /\ clock < MaxClock
    /\ clock' = clock + 1
    /\ UNCHANGED approvals

----------------------------------------------------------------------------

\* Mutant: a lookup that never compares the deadline.
CurrentUndated(id) == approvals[id]

\* _current: the record of id, expired if its deadline has passed.
Current(id) ==
    IF approvals[id].state \in {"issued", "available"} /\ clock >= approvals[id].expires
    THEN [approvals[id] EXCEPT !.state = "expired"]
    ELSE approvals[id]

\* Moves the current record of id to state s when the operation may proceed,
\* and only leaves the expiry mark when it raises ApprovalError.
Move(id, s, may) ==
    approvals' = [approvals EXCEPT ![id] = IF may THEN [Current(id) EXCEPT !.state = s]
                                           ELSE Current(id)]

Issue(id, fingerprint, owner) ==
    /\ approvals[id].state = "unissued"
    /\ approvals' = [approvals EXCEPT ![id] =
                        [state |-> "issued", fingerprint |-> fingerprint,
                         owner |-> owner, expires |-> clock + ApprovalTtl]]

CanMakeAvailable(id) == Current(id).state = "issued"

MakeAvailable(id) == Move(id, "available", CanMakeAvailable(id))

\* Mutant: consume does not refuse a consumed approval.
CanConsumeAgain(id, fingerprint, owner) ==
    /\ Current(id).state \in {"available", "consumed"}
    /\ Current(id).fingerprint = fingerprint
    /\ Current(id).owner = owner

\* An approval is consumed only by the exact action and principal it names.
CanConsume(id, fingerprint, owner) ==
    /\ Current(id).state = "available"
    /\ Current(id).fingerprint = fingerprint
    /\ Current(id).owner = owner

\* Mutant: consume returns the consumed record but does not store it.
ConsumeUnstored(id, fingerprint, owner) ==
    Move(id, "available", CanConsume(id, fingerprint, owner))

Consume(id, fingerprint, owner) ==
    Move(id, "consumed", CanConsume(id, fingerprint, owner))

\* Mutant: consumed is missing from the states revoke refuses.
CanRevokeConsumed(id) == Current(id).state \in {"issued", "available", "consumed"}

CanRevoke(id) == Current(id).state \in {"issued", "available"}

Revoke(id) == Move(id, "revoked", CanRevoke(id))

\* get: a lookup, which marks an overdue approval like every other one.
Get(id) == approvals' = [approvals EXCEPT ![id] = Current(id)]

----------------------------------------------------------------------------
\* The store on its own, driven by any caller.

StoreOperation(id) ==
    \/ \E fingerprint \in Fingerprints, owner \in Principals :
          \/ Issue(id, fingerprint, owner)
          \/ Consume(id, fingerprint, owner)
    \/ MakeAvailable(id)
    \/ Revoke(id)
    \/ Get(id)

StoreNext ==
    \/ Tick
    \/ /\ \E id \in ApprovalIds : StoreOperation(id)
       /\ UNCHANGED clock

StoreSpec == StoreInit /\ [][StoreNext]_<<clock, approvals>>

----------------------------------------------------------------------------
\* Properties

\* An approval is used up only while it is available and its deadline has not
\* passed, however long ago the store last looked at it.
ConsumedInTime ==
    [][\A id \in ApprovalIds :
        approvals[id].state # "consumed" /\ approvals'[id].state = "consumed" =>
            approvals[id].state = "available" /\ clock < approvals[id].expires]_<<clock, approvals>>

\* One-time: a consumed, expired or revoked approval stays what it is, and no
\* operation ever rebinds an approval to another action, principal or deadline.
ApprovalsStay ==
    [][\A id \in ApprovalIds : approvals[id].state # "unissued" =>
        /\ approvals[id].state \in {"consumed", "expired", "revoked"} =>
              approvals'[id] = approvals[id]
        /\ approvals'[id] = [approvals[id] EXCEPT !.state = approvals'[id].state]
        /\ approvals'[id].state # "unissued"]_<<clock, approvals>>

=============================================================================
