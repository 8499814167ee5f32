--------------------------- MODULE ControlRuntime ---------------------------
(***************************************************************************)
(* The control core: SecureControlRequestHandler (control/request_state.py)*)
(* and TrustedConsentRequestHandler (control/consent.py) as the threads    *)
(* that run them over the shared approval store, consent coordinator and   *)
(* execution gate.                                                         *)
(*                                                                         *)
(* Workers are the threads that serve prepare and execute: the normal      *)
(* socket's and those of voice turns.  Consenter is the one thread of the  *)
(* trusted consent socket.  A step of a thread runs to its next access of  *)
(* something another thread can change: the clock, the world or a locked   *)
(* table.  Replies and audit records are left out, except that the ledger  *)
(* may raise when it records a registration or a start (AuditMayFail).     *)
(***************************************************************************)
EXTENDS Consent, ExecutionGate

CONSTANTS Workers, Consenter,
          Inbox,              \* the envelopes each worker may be sent
          SurfaceApprovals,   \* approvals another trusted surface hands to clients
          AuditMayFail

\* The consent socket tells nobody the random identifiers of its own approvals.
ASSUME RuntimeAssumption ==
    /\ Threads = Workers \cup {Consenter}
    /\ Consenter \notin Workers
    /\ Inbox \in [Workers -> SUBSET Envelopes]
    /\ SurfaceApprovals \subseteq ApprovalIds
    /\ \A e \in Envelopes : e.approval \in SurfaceApprovals \cup {Nothing}
    /\ AuditMayFail \in BOOLEAN

VARIABLES pc,         \* where each thread is
          cur,        \* the attempt it works on
          handling,   \* the request an execute envelope carried
          stamp,      \* its last clock reading
          signed,     \* history: the signed decision taken on an attempt
          dispatches  \* history: Hermes calls made for an attempt

threadVars == <<pc, cur, handling, stamp>>
history    == <<signed, dispatches>>
envVars    == <<clock, world>>
vars == <<envVars, approvals, consentVars, gateVars, attemptVars, threadVars, history>>

PrepareSteps == {"decode", "branch", "prepare", "register_consent", "consume",
                 "prepare_confirmed", "register_check", "register", "deny"}
ExecuteSteps == {"revalidate", "run", "ran", "unrun"}
ConsentSteps == {"get", "decide", "reject", "issue", "make_available"}
Steps        == PrepareSteps \cup ExecuteSteps \cup ConsentSteps \cup {"idle"}

ThreadTypeOK ==
    /\ pc \in [Threads -> Steps]
    /\ cur \in [Threads -> Attempts \cup {Nothing}]
    /\ handling \in [Threads -> Requests \cup {Nothing}]
    /\ stamp \in [Threads -> Nat]

HistoryTypeOK ==
    /\ signed \in [Attempts -> {"none", "approve", "reject"}]
    /\ dispatches \in [Attempts -> Nat]

TypeOK ==
    /\ ApprovalsTypeOK /\ world \in Worlds
    /\ AttemptTypeOK /\ ConsentTypeOK /\ GateTypeOK
    /\ ThreadTypeOK /\ HistoryTypeOK

Init ==
    /\ StoreInit /\ world \in Worlds
    /\ AttemptInit /\ ConsentInit /\ GateInit
    /\ pc = [t \in Threads |-> "idle"]
    /\ cur = [t \in Threads |-> Nothing]
    /\ handling = [t \in Threads |-> Nothing]
    /\ stamp = [t \in Threads |-> 0]
    /\ signed = [a \in Attempts |-> "none"]
    /\ dispatches = [a \in Attempts |-> 0]

----------------------------------------------------------------------------
\* Control flow of one thread.

Go(t, step) ==
    /\ pc' = [pc EXCEPT ![t] = step]
    /\ UNCHANGED <<cur, handling, stamp>>

\* Continue at a step that first reads the clock, then waits for a lock.
GoStamped(t, step) ==
    /\ pc' = [pc EXCEPT ![t] = step]
    /\ stamp' = [stamp EXCEPT ![t] = clock]
    /\ UNCHANGED <<cur, handling>>

Begin(t, step, a, q) ==
    /\ pc' = [pc EXCEPT ![t] = step]
    /\ cur' = [cur EXCEPT ![t] = a]
    /\ handling' = [handling EXCEPT ![t] = q]
    /\ stamp' = [stamp EXCEPT ![t] = clock]

\* The handler returns; its locals are gone.
Done(t) ==
    /\ pc' = [pc EXCEPT ![t] = "idle"]
    /\ cur' = [cur EXCEPT ![t] = Nothing]
    /\ handling' = [handling EXCEPT ![t] = Nothing]
    /\ stamp' = [stamp EXCEPT ![t] = 0]

At(t, step) == pc[t] = step

Finish(t, s) == Transition(cur[t], s) /\ Done(t)

Advance(t, s, step) == Transition(cur[t], s) /\ Go(t, step)

\* A move another thread may have overtaken: outside the table it raises
\* IllegalRequestTransition, and the call ends with the lifecycle as it was.
FinishIfLegal(t, s) ==
    IF CanTransition(lifecycle[cur[t]], s) THEN Finish(t, s) ELSE Done(t) /\ UNCHANGED lifecycle

Bind(t, result) == bound' = [bound EXCEPT ![cur[t]] = result]

----------------------------------------------------------------------------
\* prepare on the normal socket

\* A prepare envelope opens an attempt; a wrong credential ends it at once.
Receive(t) ==
    /\ At(t, "idle")
    /\ \E e \in Inbox[t], a \in Attempts :
        /\ e.operation = "prepare" /\ request[a] = Nothing
        /\ request' = [request EXCEPT ![a] = e]
        /\ IF e.authentic
           THEN Transition(a, "authenticated") /\ Begin(t, "decode", a, Nothing)
           ELSE Transition(a, "denied") /\ UNCHANGED threadVars
    /\ UNCHANGED <<envVars, approvals, consentVars, gateVars, bound, approvalOf, history>>

\* Decode, compare identities, evaluate policy.
CheckPolicy(t) ==
    /\ At(t, "decode")
    /\ LET a == cur[t] IN
        \/ /\ Content(a) = Malformed
           /\ Finish(t, "failed")
           /\ UNCHANGED bound
        \/ /\ Content(a) # Malformed
           /\ ~Accepted(request[a]) \/ Outcome(Content(a)) = "refused"
           /\ Finish(t, "denied")
           /\ UNCHANGED bound
        \/ /\ Accepted(request[a])
           /\ Outcome(Content(a)) = "faulted"
           /\ Finish(t, "failed")
           /\ UNCHANGED bound
        \/ /\ Accepted(request[a])
           /\ Outcome(Content(a)) \in Outcomes
           /\ Advance(t, "policy_checked", "branch")
           /\ Bind(t, Checked(Content(a)))
    /\ UNCHANGED <<envVars, approvals, consentVars, gateVars, request, approvalOf, history>>

\* Follow the outcome: deny, prepare directly, or wait for approval.  An
\* approval the envelope presents is tried, otherwise consent is asked for.
Branch(t) ==
    /\ At(t, "branch")
    /\ LET a == cur[t] IN
        \/ /\ bound[a].outcome = "must_be_denied"
           /\ Finish(t, "denied")
           /\ UNCHANGED approvalOf
        \/ /\ bound[a].outcome = "may_proceed"
           /\ Advance(t, "approved", "prepare")
           /\ UNCHANGED approvalOf
        \/ /\ bound[a].outcome = "requires_confirmation"
           /\ Transition(a, "awaiting_approval")
           /\ approvalOf' = [approvalOf EXCEPT ![a] = request[a].approval]
           /\ IF request[a].approval = Nothing
              THEN GoStamped(t, "register_consent")
              ELSE Go(t, "consume")
    /\ UNCHANGED <<envVars, approvals, consentVars, gateVars, request, bound, history>>

\* control_plane.prepare evaluates policy again and routes.  A fault other
\* than its own errors leaves the handler with the request still approved.
PrepareDirect(t) ==
    /\ At(t, "prepare")
    /\ LET q == Content(cur[t]) IN
        \/ /\ Outcome(q) = "may_proceed" /\ Route(q) # Nothing
           /\ Bind(t, Routed(q))
           /\ Advance(t, "prepared", "register_check")
        \/ /\ Outcome(q) = "may_proceed" /\ Route(q) = Nothing
           /\ Finish(t, "failed")
           /\ UNCHANGED bound
        \/ /\ Outcome(q) \in {"refused", "must_be_denied", "requires_confirmation"}
           /\ Finish(t, "denied")
           /\ UNCHANGED bound
        \/ /\ Outcome(q) = "faulted"
           /\ Done(t)
           /\ UNCHANGED <<lifecycle, bound>>
    /\ UNCHANGED <<envVars, approvals, consentVars, gateVars, request, approvalOf, history>>

\* The prepare call ends here, with a consent record or without.
RegisterConsent(t) ==
    /\ At(t, "register_consent")
    /\ \/ /\ Register(cur[t], stamp[t], TRUE)
          /\ Done(t)
          /\ UNCHANGED lifecycle
       \/ /\ Register(cur[t], stamp[t], FALSE)
          /\ Finish(t, "denied")
    /\ UNCHANGED <<envVars, approvals, gateVars, request, bound, approvalOf, history>>

----------------------------------------------------------------------------
\* A signed decision on the consent socket

\* get: a decision arrives for a record; one that is not pending any more, or
\* that fails the identity or signature check, ends the call.
ReceiveDecision ==
    /\ At(Consenter, "idle")
    /\ \E a \in Recorded : Begin(Consenter, "get", a, Nothing)
    /\ UNCHANGED <<envVars, approvals, consentVars, gateVars, attemptVars, history>>

\* Mutant: the handler goes on with the record it looked up, undecided.
LookupConsentUndecided(t) ==
    /\ At(t, "get")
    /\ LET a == cur[t] IN
        \/ FindPending(a, stamp[t]) /\ Go(t, "issue") /\ UNCHANGED lifecycle
        \/ NotPending(a, stamp[t]) /\ Done(t)
        \/ a \notin Recorded /\ Done(t) /\ UNCHANGED <<consents, lifecycle>>
    /\ UNCHANGED <<envVars, approvals, requestIds, gateVars, request, bound, approvalOf, history>>

LookupConsent(t) ==
    /\ At(t, "get")
    /\ LET a == cur[t] IN
        \/ /\ FindPending(a, stamp[t])
           /\ GoStamped(t, "decide") \/ Done(t)
           /\ UNCHANGED lifecycle
        \/ /\ NotPending(a, stamp[t])
           /\ Done(t)
        \/ /\ a \notin Recorded           \* evicted in the meantime
           /\ Done(t)
           /\ UNCHANGED <<consents, lifecycle>>
    /\ UNCHANGED <<envVars, approvals, requestIds, gateVars, request, bound, approvalOf, history>>

\* Mutant: the handler does not look at the decision it recorded.
DecideConsentIgnored(t) ==
    /\ At(t, "decide")
    /\ LET a == cur[t] IN
        \/ \E decision \in {"approve", "reject"} :
            /\ Decide(a, decision, stamp[t])
            /\ signed' = [signed EXCEPT ![a] = decision]
            /\ Go(t, "issue")
            /\ UNCHANGED lifecycle
        \/ NotPending(a, stamp[t]) /\ Done(t) /\ UNCHANGED signed
        \/ a \notin Recorded /\ Done(t) /\ UNCHANGED <<consents, lifecycle, signed>>
    /\ UNCHANGED <<envVars, approvals, requestIds, gateVars, request, bound, approvalOf, dispatches>>

DecideConsent(t) ==
    /\ At(t, "decide")
    /\ LET a == cur[t] IN
        \/ \E decision \in {"approve", "reject"} :
            /\ Decide(a, decision, stamp[t])
            /\ signed' = [signed EXCEPT ![a] = decision]
            /\ Go(t, IF decision = "approve" THEN "issue" ELSE "reject")
            /\ UNCHANGED lifecycle
        \/ /\ NotPending(a, stamp[t])
           /\ Done(t)
           /\ UNCHANGED signed
        \/ /\ a \notin Recorded
           /\ Done(t)
           /\ UNCHANGED <<consents, lifecycle, signed>>
    /\ UNCHANGED <<envVars, approvals, requestIds, gateVars, request, bound, approvalOf, dispatches>>

RejectConsent(t) ==
    /\ At(t, "reject")
    /\ Finish(t, "denied")
    /\ UNCHANGED <<envVars, approvals, consentVars, gateVars, request, bound, approvalOf, history>>

\* The approval of a signed consent, under an identifier nobody else knows.
IssueApproval(t) ==
    /\ At(t, "issue")
    /\ LET a == cur[t] IN
        \E id \in ApprovalIds \ SurfaceApprovals :
            /\ Issue(id, bound[a].fingerprint, Owner(a))
            /\ approvalOf' = [approvalOf EXCEPT ![a] = id]
    /\ Go(t, "make_available")
    /\ UNCHANGED <<envVars, consentVars, gateVars, request, lifecycle, bound, history>>

MakeApprovalAvailable(t) ==
    /\ At(t, "make_available")
    /\ LET id == approvalOf[cur[t]] IN
        /\ MakeAvailable(id)
        /\ IF CanMakeAvailable(id)
           THEN Go(t, "consume") /\ UNCHANGED lifecycle
           ELSE Finish(t, "denied")
    /\ UNCHANGED <<envVars, consentVars, gateVars, request, bound, approvalOf, history>>

----------------------------------------------------------------------------
\* What both sockets do with an approval

ConsumeApproval(t) ==
    /\ At(t, "consume")
    /\ LET a  == cur[t]
           id == approvalOf[a]
       IN  /\ Consume(id, bound[a].fingerprint, Owner(a))
           /\ IF CanConsume(id, bound[a].fingerprint, Owner(a))
              THEN Advance(t, "approved", "prepare_confirmed")
              ELSE Finish(t, "denied")
    /\ UNCHANGED <<envVars, consentVars, gateVars, request, bound, approvalOf, history>>

\* control_plane.prepare_confirmed: policy once more, against the approval.
Confirmed(a) ==
    /\ Outcome(Content(a)) = "requires_confirmation"
    /\ Checked(Content(a)).fingerprint = approvals[approvalOf[a]].fingerprint
    /\ Owner(a) = approvals[approvalOf[a]].owner

\* Confirm, then route.  The two handlers differ in what they catch: the consent
\* handler denies on every error, the normal one fails on a routing error and
\* leaves the request approved on a fault.
PrepareConfirmed(t) ==
    /\ At(t, "prepare_confirmed")
    /\ LET a == cur[t]
           q == Content(a)
       IN  \/ /\ Confirmed(a) /\ Route(q) # Nothing
              /\ Bind(t, Routed(q))
              /\ Advance(t, "prepared", "register_check")
           \/ /\ Confirmed(a) /\ Route(q) = Nothing
              /\ Finish(t, IF t = Consenter THEN "denied" ELSE "failed")
              /\ UNCHANGED bound
           \/ /\ ~Confirmed(a) /\ (Outcome(q) # "faulted" \/ t = Consenter)
              /\ Finish(t, "denied")
              /\ UNCHANGED bound
           \/ /\ Outcome(q) = "faulted" /\ t # Consenter
              /\ Done(t)
              /\ UNCHANGED <<lifecycle, bound>>
    /\ UNCHANGED <<envVars, approvals, consentVars, gateVars, request, approvalOf, history>>

\* A refused registration: the normal handler denies the request, the consent
\* handler leaves it prepared.
NotRegistered(t) ==
    IF t = Consenter THEN Done(t) /\ UNCHANGED lifecycle ELSE Finish(t, "denied")

CheckRegistration(t) ==
    /\ At(t, "register_check")
    /\ LET a == cur[t] IN
        /\ IF approvalOf[a] = Nothing THEN UNCHANGED approvals ELSE Get(approvalOf[a])
        /\ IF MayRegister(a) THEN GoStamped(t, "register") /\ UNCHANGED lifecycle
           ELSE NotRegistered(t)
    /\ UNCHANGED <<envVars, consentVars, gateVars, request, bound, approvalOf, history>>

\* The insertion.  The audit record that follows it, outside the lock, may raise:
\* as an OSError it ends the call like a success; as a ValueError it is taken for
\* a refused registration, though the record stays in the table.
RegisterExecution(t) ==
    /\ At(t, "register")
    /\ \/ RegisterPrepared(cur[t], stamp[t], TRUE) /\ Done(t) /\ UNCHANGED lifecycle
       \/ /\ AuditMayFail /\ t # Consenter
          /\ RegisterPrepared(cur[t], stamp[t], TRUE)
          /\ Go(t, "deny") /\ UNCHANGED lifecycle
       \/ RegisterPrepared(cur[t], stamp[t], FALSE) /\ NotRegistered(t)
    /\ UNCHANGED <<envVars, approvals, consentVars, request, bound, approvalOf, history>>

\* The handler denies a request that is on the table: another thread may be
\* executing it by now, or have executed it.
DenyRegistered(t) ==
    /\ At(t, "deny") /\ FinishIfLegal(t, "denied")
    /\ UNCHANGED <<envVars, approvals, consentVars, gateVars, request, bound, approvalOf, history>>

----------------------------------------------------------------------------
\* execute on the normal socket

\* Admission under the gate's lock.  An envelope the handler refuses, a request
\* ID without a record and a record that is no longer prepared change nothing.
Admit(t) ==
    /\ At(t, "idle") /\ gateHolder = Nothing
    /\ \E e \in Inbox[t] :
        /\ e.operation = "execute" /\ Accepted(e)
        /\ prepared[e.rid] # Empty
        /\ LET a == prepared[e.rid].attempt IN
            /\ lifecycle[a] = "prepared"
            /\ IF StillAuthorized(a, e.content)
               THEN /\ Begin(t, "revalidate", a, e.content)
                    /\ gateHolder' = t
                    /\ UNCHANGED lifecycle
               ELSE /\ Transition(a, "denied")
                    /\ UNCHANGED <<threadVars, gateHolder>>
    /\ UNCHANGED <<envVars, approvals, consentVars, prepared, request, bound, approvalOf, history>>

\* Mutant: a denial returns without releasing the lock.
RevalidateLocked(t) ==
    /\ At(t, "revalidate")
    /\ \/ /\ StillAsPrepared(cur[t], handling[t])
          /\ CanTransition(lifecycle[cur[t]], "executing")
          /\ Advance(t, "executing", "run")
          /\ gateHolder' = Nothing
       \/ FinishIfLegal(t, "denied") /\ UNCHANGED gateHolder
    /\ UNCHANGED <<envVars, approvals, consentVars, prepared, request, bound, approvalOf, history>>

\* The end of the revalidation releases the lock, which the thread that denies a
\* registered request does not take: a start may come too late, like a denial.
\* The target validator may refuse whatever the control plane says.  If the ledger
\* cannot record the start, the exception leaves the lifecycle executing and
\* nothing runs.
Revalidate(t) ==
    /\ At(t, "revalidate")
    /\ gateHolder' = Nothing
    /\ \/ /\ StillAsPrepared(cur[t], handling[t])
          /\ CanTransition(lifecycle[cur[t]], "executing")
          /\ Advance(t, "executing", "run")
       \/ /\ AuditMayFail
          /\ StillAsPrepared(cur[t], handling[t])
          /\ FinishIfLegal(t, "executing")
       \/ FinishIfLegal(t, "denied")
    /\ UNCHANGED <<envVars, approvals, consentVars, prepared, request, bound, approvalOf, history>>

\* The adapter, outside the lock: it refuses the projection, or calls Hermes.
Run(t) ==
    /\ At(t, "run")
    /\ \/ /\ dispatches' = [dispatches EXCEPT ![cur[t]] = @ + 1]
          /\ Go(t, "ran")
       \/ /\ Go(t, "unrun")
          /\ UNCHANGED dispatches
    /\ UNCHANGED <<envVars, approvals, consentVars, gateVars, attemptVars, signed>>

\* Mutant: a refusal of the adapter leaves the lifecycle executing.
CompleteUnrecorded(t) ==
    /\ gateHolder = Nothing
    /\ \/ At(t, "ran") /\ \E s \in Terminal : FinishIfLegal(t, s)
       \/ At(t, "unrun") /\ Done(t) /\ UNCHANGED lifecycle
    /\ UNCHANGED <<envVars, approvals, consentVars, gateVars, request, bound, approvalOf, history>>

\* Mutant: a request whose call failed is prepared again, for another try.
CompleteRetrying(t) ==
    /\ gateHolder = Nothing
    /\ At(t, "ran") \/ At(t, "unrun")
    /\ \E s \in {"completed", "denied", "prepared"} : Finish(t, s)
    /\ UNCHANGED <<envVars, approvals, consentVars, gateVars, request, bound, approvalOf, history>>

\* The adapter's result under the gate's lock again.
Complete(t) ==
    /\ gateHolder = Nothing
    /\ \/ At(t, "ran") /\ \E s \in Terminal : FinishIfLegal(t, s)
       \/ At(t, "unrun") /\ \E s \in {"denied", "failed"} : FinishIfLegal(t, s)
    /\ UNCHANGED <<envVars, approvals, consentVars, gateVars, request, bound, approvalOf, history>>

----------------------------------------------------------------------------
\* The environment

\* Another trusted surface issues, activates or revokes an approval a client
\* may then present.
SurfaceOperation ==
    /\ \E id \in SurfaceApprovals :
        \/ \E q \in Requests : Issue(id, FingerprintOf[world][q], OwnerOf[q])
        \/ CanMakeAvailable(id) /\ MakeAvailable(id)
        \/ CanRevoke(id) /\ Revoke(id)
    /\ UNCHANGED <<envVars, consentVars, gateVars, attemptVars, threadVars, history>>

Environment ==
    \/ /\ Tick
       /\ UNCHANGED <<world, consentVars, gateVars, attemptVars, threadVars, history>>
    \/ /\ Drift
       /\ UNCHANGED <<clock, approvals, consentVars, gateVars, attemptVars, threadVars, history>>
    \/ SurfaceOperation

\* A thread with work in hand, apart from the requests clients choose to send.
Continue(t) ==
    \/ CheckPolicy(t) \/ Branch(t) \/ PrepareDirect(t) \/ RegisterConsent(t)
    \/ LookupConsent(t) \/ DecideConsent(t) \/ RejectConsent(t)
    \/ IssueApproval(t) \/ MakeApprovalAvailable(t) \/ ConsumeApproval(t)
    \/ PrepareConfirmed(t) \/ CheckRegistration(t) \/ RegisterExecution(t)
    \/ DenyRegistered(t) \/ Revalidate(t) \/ Run(t) \/ Complete(t)

Next ==
    \/ \E t \in Workers : Receive(t) \/ Admit(t)
    \/ ReceiveDecision
    \/ \E t \in Threads : Continue(t)
    \/ Environment

Spec == Init /\ [][Next]_vars

\* Each thread keeps running and the adapter call returns.
FairSpec == Spec /\ \A t \in Threads : WF_vars(Continue(t))

----------------------------------------------------------------------------
\* The inductive invariant: who may move which lifecycle.

\* In these steps the thread moves the lifecycle of its attempt, before the gate
\* nobody else; while it looks a consent up, or is about to deny what another
\* thread may execute, it holds no more than a reference.
Owning     == Steps \ {"idle", "get", "decide", "deny"}
BeforeGate == Owning \ ExecuteSteps

\* The lifecycle state of an attempt whose owner is at this step.
StateAt(step) ==
    CASE step = "decode" -> "authenticated"
      [] step = "branch" -> "policy_checked"
      [] step \in {"prepare", "prepare_confirmed"} -> "approved"
      [] step \in {"register_check", "register", "revalidate"} -> "prepared"
      [] step \in {"run", "ran", "unrun"} -> "executing"
      [] OTHER -> "awaiting_approval"

Owns(t, a) == pc[t] \in Owning /\ cur[t] = a

Started(a) == request[a] # Nothing /\ Accepted(request[a])

\* The state a thread finds its attempt in: the one its step calls for, unless a
\* handler whose ledger failed has denied it under its execution.
Placed(t) ==
    LET at == lifecycle[cur[t]] IN
    /\ pc[t] \in BeforeGate => at = StateAt(pc[t])
    /\ pc[t] \in ExecuteSteps => at = StateAt(pc[t]) \/ (AuditMayFail /\ at = "denied")
    /\ pc[t] = "deny" => AuditMayFail /\ at \in {"prepared", "executing"} \cup Terminal

\* A busy thread holds a started attempt, in such a state.
Custody ==
    \A t \in Threads : pc[t] # "idle" =>
        /\ cur[t] \in Attempts
        /\ request[cur[t]] # Nothing
        /\ pc[t] # "decode" => Started(cur[t])
        /\ Placed(t)

\* No attempt has two owners.
SoleOwner ==
    \A t, u \in Threads :
        pc[t] \in Owning /\ pc[u] \in Owning /\ cur[t] = cur[u] => t = u

\* Nobody prepares an attempt that a thread is about to deny.
LateDenial ==
    \A t, u \in Threads : pc[t] = "deny" /\ cur[t] = cur[u] => pc[u] \notin BeforeGate

\* An unused attempt appears nowhere.
Untouched ==
    \A a \in Attempts : request[a] = Nothing =>
        lifecycle[a] = "received" /\ consents[a].state = "none"

\* A consent not decided yet belongs to a request nobody works on.
ConsentCustody ==
    \A a \in Attempts : consents[a].state # "none" =>
        /\ Started(a)
        /\ consents[a].state \in {"pending", "expired"} => \A t \in Threads : ~Owns(t, a)
        /\ consents[a].state = "pending" => lifecycle[a] = "awaiting_approval"
        /\ consents[a].state = "expired" => lifecycle[a] \in {"awaiting_approval", "denied"}

\* The gate's lock is held exactly during a revalidation, and its records
\* belong to attempts that have left preparation.
GateCustody ==
    /\ \A t \in Threads : gateHolder = t <=> pc[t] = "revalidate"
    /\ \A r \in RequestIds : prepared[r].attempt # Nothing =>
          LET a == prepared[r].attempt IN
          /\ Started(a) /\ Rid(a) = r
          /\ lifecycle[a] \in {"prepared", "executing"} \cup Terminal
          /\ \A t \in Threads : Owns(t, a) => pc[t] \in ExecuteSteps

\* Hermes was called only for requests that started, and not yet for one whose
\* thread is about to call.
DispatchCustody ==
    \A a \in Attempts :
        /\ dispatches[a] <= 1
        /\ dispatches[a] > 0 => lifecycle[a] \in {"executing"} \cup Terminal
        /\ \A t \in Threads : pc[t] = "run" /\ cur[t] = a => dispatches[a] = 0

AllCustody ==
    /\ Custody /\ SoleOwner /\ LateDenial /\ Untouched
    /\ ConsentCustody /\ GateCustody /\ DispatchCustody

IInv == TypeOK /\ AllCustody

----------------------------------------------------------------------------
\* What an authorisation rests on, from the decision to the call and after it.

Filed(a) == \E r \in RequestIds : prepared[r].attempt = a

Executed(a) == \E t \in Threads : pc[t] \in ExecuteSteps /\ cur[t] = a

Authorized(a) ==
    \/ lifecycle[a] \in {"approved", "prepared", "executing"}
    \/ dispatches[a] > 0
    \/ Filed(a) \/ Executed(a)

\* The user signed for this attempt, or its client had the approval from elsewhere.
Granted(a) ==
    IF approvalOf[a] \in SurfaceApprovals THEN request[a].approval = approvalOf[a]
    ELSE signed[a] = "approve"

\* Policy let it proceed, or an approval of exactly its action was spent on it.
Backed(a) ==
    IF approvalOf[a] = Nothing THEN bound[a].outcome = "may_proceed"
    ELSE /\ bound[a].outcome = "requires_confirmation"
         /\ approvals[approvalOf[a]].state = "consumed"
         /\ approvals[approvalOf[a]].fingerprint = bound[a].fingerprint
         /\ approvals[approvalOf[a]].owner = Owner(a)
         /\ Granted(a)

\* Every authorisation is backed, and a refusal is never overtaken by one.
AttemptAuthority(a) ==
    /\ lifecycle[a] \in {"received", "authenticated", "policy_checked"} =>
          approvalOf[a] = Nothing /\ signed[a] = "none"
    /\ lifecycle[a] = "awaiting_approval" => bound[a].outcome = "requires_confirmation"
    /\ Authorized(a) => Backed(a)
    /\ Authorized(a) /\ lifecycle[a] # "approved" => bound[a].invocation # Nothing
    /\ signed[a] = "reject" =>
          dispatches[a] = 0 /\ lifecycle[a] \in {"awaiting_approval", "denied"}
    /\ consents[a].state = "rejected" => signed[a] = "reject"
    /\ consents[a].state \in {"pending", "expired"} => signed[a] = "none" /\ dispatches[a] = 0

\* What a thread has established before the step it is at.
ThreadAuthority(t) ==
    LET a == cur[t] IN
    /\ pc[t] = "register_consent" => signed[a] = "none"
    /\ pc[t] = "prepare" => approvalOf[a] = Nothing
    /\ pc[t] = "prepare_confirmed" => approvalOf[a] # Nothing
    /\ pc[t] = "issue" => signed[a] = "approve"
    /\ pc[t] \in {"make_available", "consume"} => approvalOf[a] # Nothing /\ Granted(a)
    /\ pc[t] \in Owning /\ signed[a] = "reject" => pc[t] = "reject"

\* No two authorisations rest on one approval.
SoleGrant ==
    \A a, b \in Attempts :
        Authorized(a) /\ Authorized(b) /\ approvalOf[a] = approvalOf[b] =>
            a = b \/ approvalOf[a] = Nothing

AuthorityInv ==
    /\ \A a \in Attempts : AttemptAuthority(a)
    /\ \A t \in Threads : ThreadAuthority(t)
    /\ SoleGrant

----------------------------------------------------------------------------
\* Properties

Dispatched(a) == dispatches[a] > 0

\* A Hermes call that policy allows only on confirmation was confirmed: by a
\* signed approval of this very attempt, or by an approval its client had from
\* another trusted surface.  Either way the approval is consumed and names the
\* action that ran and its principal - although confirmation and execution are
\* calls of two threads and policy is evaluated three times in between, in a
\* world that may drift.
ConfirmedBeforeDispatch ==
    \A a \in Attempts :
        Dispatched(a) /\ bound[a].outcome = "requires_confirmation" =>
            LET id == approvalOf[a] IN
            /\ id # Nothing
            /\ IF id \in SurfaceApprovals THEN request[a].approval = id
               ELSE signed[a] = "approve"
            /\ approvals[id].state = "consumed"
            /\ approvals[id].fingerprint = bound[a].fingerprint
            /\ approvals[id].owner = Owner(a)

\* One prepared request is dispatched once, however execute calls of several
\* threads race, retry, or meet the pruning of its record.
DispatchedOnce == \A a \in Attempts : dispatches[a] <= 1

\* One approval never pays for two Hermes calls, even when a client presents
\* it with two requests for the same action.
OneDispatchPerApproval ==
    \A a, b \in Attempts :
        /\ Dispatched(a) /\ Dispatched(b) /\ a # b
        /\ approvalOf[a] # Nothing
        => approvalOf[a] # approvalOf[b]

\* "No" is final: once the user rejected a consent, or it expired undecided,
\* its request is never dispatched, whatever else is registered, evicted or
\* retried under the same request ID.
RefusedConsentNeverRuns ==
    \A a \in Attempts :
        signed[a] = "reject" \/ consents[a].state \in {"expired", "rejected"} =>
            /\ ~Dispatched(a)
            /\ lifecycle[a] \in {"awaiting_approval", "denied"}

\* The coordinator's two tables agree: _request_ids holds exactly the request
\* IDs of the records, no two records share one, the bound holds, and a
\* record that can still be decided belongs to a request that still waits.
ConsentTablesAgree ==
    /\ requestIds = {Rid(a) : a \in Recorded}
    /\ \A a, b \in Recorded : Rid(a) = Rid(b) => a = b
    /\ Cardinality(Recorded) <= MaxPending
    /\ \A a \in Attempts : consents[a].state = "pending" =>
          lifecycle[a] = "awaiting_approval" /\ signed[a] = "none"

\* The gate's table holds only what was authorised: each record is filed under
\* its own request ID, has left preparation, and carries a routed invocation
\* and, if policy asked for it, a consumed approval for exactly that action.
GateRecordsAuthorized ==
    \A r \in RequestIds : prepared[r] # Empty =>
        LET a == prepared[r].attempt IN
        /\ Rid(a) = r
        /\ lifecycle[a] \in {"prepared", "executing", "completed", "denied", "failed"}
        /\ bound[a].invocation # Nothing
        /\ bound[a].outcome # "must_be_denied"
        /\ bound[a].outcome = "requires_confirmation" =>
              /\ approvals[approvalOf[a]].state = "consumed"
              /\ approvals[approvalOf[a]].fingerprint = bound[a].fingerprint

\* An execution belongs to one thread: a request the adapter is running or has
\* run is executing, or denied under it by a handler whose ledger failed, and no
\* second thread executes it; the gate's lock is held exactly during a
\* revalidation.
OneRunner ==
    /\ \A t \in Threads : pc[t] \in {"run", "ran", "unrun"} =>
          /\ \/ lifecycle[cur[t]] = "executing"
             \/ AuditMayFail /\ lifecycle[cur[t]] = "denied"
          /\ \A u \in Threads \ {t} : pc[u] \in ExecuteSteps => cur[u] # cur[t]
    /\ \A t \in Threads : gateHolder = t <=> pc[t] = "revalidate"

\* The control plane, asked now, decides and routes request q as attempt a was
\* prepared, and allows it: outright, or by the approval a has consumed.
AllowedNow(a, q) ==
    /\ OwnerOf[q] = Owner(a)
    /\ Routed(q) = bound[a] /\ Route(q) # Nothing
    /\ IF approvalOf[a] = Nothing THEN Outcome(q) = "may_proceed"
       ELSE LET approval == approvals[approvalOf[a]] IN
            /\ Outcome(q) = "requires_confirmation"
            /\ approval.state = "consumed"
            /\ approval.fingerprint = FingerprintOf[world][q]
            /\ approval.owner = OwnerOf[q]

\* Nothing starts on a stale decision: the request an execution was asked with
\* is still allowed, and routed as it was prepared, at the moment it starts -
\* not when it was prepared, confirmed or admitted, in worlds that may differ.
StartsAsPrepared ==
    [][\A a \in Attempts :
        lifecycle[a] = "prepared" /\ lifecycle'[a] = "executing" =>
            \E t \in Threads : /\ pc[t] = "revalidate" /\ cur[t] = a
                              /\ AllowedNow(a, handling[t])]_vars

\* Every lifecycle change any thread makes is in the table, also when consent and
\* gate share the object.
LegalLifecycle ==
    [][\A a \in Attempts :
        lifecycle'[a] # lifecycle[a] => CanTransition(lifecycle[a], lifecycle'[a])]_vars

\* A thread whose next move of its lifecycle raises IllegalRequestTransition.
Overtaken(t) ==
    LET at == lifecycle[cur[t]] IN
    \/ pc[t] = "deny" /\ ~CanTransition(at, "denied")
    \/ pc[t] = "revalidate" /\ at # "prepared"
    \/ pc[t] \in {"run", "ran", "unrun"} /\ at # "executing"

\* While the ledger can be written no handler ever raises it: only the denial of
\* a request that is on the table already races its execution.
NobodyOvertaken == AuditMayFail \/ \A t \in Threads : ~Overtaken(t)

\* A wait for the gate's lock, a revalidation or an adapter call never keeps a
\* call from returning.
EveryCallReturns == \A t \in Threads : pc[t] # "idle" ~> pc[t] = "idle"

\* An execution the adapter runs ends: its outcome is recorded on every path of
\* the adapter.
ExecutionsEnd ==
    \A a \in Attempts :
        (\E t \in Threads : pc[t] = "run" /\ cur[t] = a) ~> lifecycle[a] \in Terminal

\* The core implements the authorisation contract: an attempt is granted when
\* its lifecycle becomes approved, and a consumed approval is a spent grant.
PhaseOf(a) ==
    CASE lifecycle[a] \in {"approved", "prepared"} -> "granted"
      [] lifecycle[a] = "executing" -> "running"
      [] lifecycle[a] \in Terminal -> "closed"
      [] OTHER -> "open"

GrantOf(a) == IF PhaseOf(a) \in {"granted", "running"} THEN approvalOf[a] ELSE Nothing

Spent == {id \in ApprovalIds : approvals[id].state = "consumed"}

Authorization == INSTANCE OneShotAuthorization WITH
    Grants <- ApprovalIds,
    None   <- Nothing,
    phase  <- [a \in Attempts |-> PhaseOf(a)],
    grant  <- [a \in Attempts |-> GrantOf(a)],
    spent  <- Spent

\* See OneShotAuthorization.
ImplementsOneShotAuthorization == Authorization!AuthSpec

=============================================================================
