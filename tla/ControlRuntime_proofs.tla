------------------------ MODULE ControlRuntime_proofs ------------------------
(***************************************************************************)
(* Theorems about the approval store, whoever calls it, and about          *)
(* ControlRuntime, for every value of the constants.                       *)
(***************************************************************************)
EXTENDS ControlRuntime, TLAPS

----------------------------------------------------------------------------
\* The approval store on its own, whoever calls it

\* A lookup changes nothing but the state, and only by expiring an approval
\* whose deadline has passed.
LEMMA CurrentFacts ==
    ASSUME ApprovalsTypeOK, NEW id \in ApprovalIds
    PROVE  /\ Current(id) \in ApprovalRecords
           /\ Current(id) = [approvals[id] EXCEPT !.state = Current(id).state]
           /\ \/ Current(id) = approvals[id]
              \/ /\ approvals[id].state \in {"issued", "available"}
                 /\ Current(id).state = "expired"
           /\ Current(id).state = "available" =>
                 approvals[id].state = "available" /\ clock < approvals[id].expires
  BY DEF ApprovalsTypeOK, ApprovalRecords, ApprovalStates, Current

\* What one operation does to the store: it issues a fresh approval, moves the
\* current record of an approval along its lifecycle, or only looks it up.
StoreStep(id) ==
    LET new == approvals'[id]
        old == Current(id)
    IN  /\ approvals' = [approvals EXCEPT ![id] = new]
        /\ new \in ApprovalRecords
        /\ \/ approvals[id].state = "unissued" /\ new.state = "issued"
           \/ new = old
           \/ /\ new = [old EXCEPT !.state = new.state]
              /\ \/ old.state = "issued" /\ new.state \in {"available", "revoked"}
                 \/ old.state = "available" /\ new.state \in {"consumed", "revoked"}

LEMMA OperationStep ==
    ASSUME ApprovalsTypeOK, NEW id \in ApprovalIds, StoreOperation(id)
    PROVE  StoreStep(id)
  <1> USE DEF ApprovalsTypeOK
  <1>1. ASSUME NEW fingerprint \in Fingerprints, NEW owner \in Principals,
               Issue(id, fingerprint, owner)
        PROVE  StoreStep(id)
    <2>1. clock + ApprovalTtl \in Nat
      BY ApprovalsAssumption
    <2> QED
      BY <1>1, <2>1 DEF Issue, StoreStep, ApprovalRecords, ApprovalStates
  <1>2. ASSUME NEW s \in ApprovalStates, NEW may \in BOOLEAN, Move(id, s, may),
               may => \/ Current(id).state = "issued" /\ s \in {"available", "revoked"}
                      \/ Current(id).state = "available" /\ s \in {"consumed", "revoked"}
        PROVE  StoreStep(id)
    <2>1. [Current(id) EXCEPT !.state = s] \in ApprovalRecords
      BY CurrentFacts DEF ApprovalRecords
    <2> QED
      BY <1>2, <2>1, CurrentFacts DEF Move, StoreStep, ApprovalRecords
  <1>3. CASE Get(id)
    BY <1>3, CurrentFacts DEF Get, StoreStep
  <1>4. CASE MakeAvailable(id)
    <2>1. Move(id, "available", CanMakeAvailable(id)) /\ CanMakeAvailable(id) \in BOOLEAN
      BY <1>4 DEF MakeAvailable, CanMakeAvailable
    <2> QED
      BY <1>2, <2>1 DEF CanMakeAvailable, ApprovalStates
  <1>5. CASE Revoke(id)
    <2>1. Move(id, "revoked", CanRevoke(id)) /\ CanRevoke(id) \in BOOLEAN
      BY <1>5 DEF Revoke, CanRevoke
    <2> QED
      BY <1>2, <2>1 DEF CanRevoke, ApprovalStates
  <1>6. ASSUME NEW fingerprint \in Fingerprints, NEW owner \in Principals,
               Consume(id, fingerprint, owner)
        PROVE  StoreStep(id)
    <2> DEFINE may == CanConsume(id, fingerprint, owner)
    <2>1. Move(id, "consumed", may) /\ may \in BOOLEAN
      BY <1>6 DEF Consume, CanConsume
    <2>2. may => Current(id).state = "available"
      BY DEF CanConsume
    <2>3. "consumed" \in ApprovalStates
      BY DEF ApprovalStates
    <2> HIDE DEF may
    <2> QED
      BY <1>2, <2>1, <2>2, <2>3
  <1> QED
    BY <1>1, <1>3, <1>4, <1>5, <1>6 DEF StoreOperation

\* Every step is such a step of one approval, or leaves the approvals alone.
LEMMA NextStep ==
    ASSUME ApprovalsTypeOK, [StoreNext]_<<clock, approvals>>
    PROVE  \/ UNCHANGED approvals /\ clock' \in Nat
           \/ clock' = clock /\ \E id \in ApprovalIds : StoreStep(id)
  BY OperationStep DEF StoreNext, Tick, ApprovalsTypeOK

LEMMA TypeStep ==
    ASSUME ApprovalsTypeOK, [StoreNext]_<<clock, approvals>>
    PROVE  ApprovalsTypeOK'
  BY NextStep DEF StoreStep, ApprovalsTypeOK

\* The store stays well typed.
THEOREM ApprovalsTypeCorrectness == StoreSpec => []ApprovalsTypeOK
  <1>1. StoreInit => ApprovalsTypeOK
    BY DEF StoreInit, ApprovalsTypeOK, Unissued, ApprovalRecords, ApprovalStates
  <1> QED
    BY <1>1, TypeStep, PTL DEF StoreSpec

\* approvals.py, consume: nobody spends an approval after its deadline, for any
\* number of approvals and any interleaving of callers.
THEOREM NoLateConsumption == StoreSpec => ConsumedInTime
  <1> DEFINE InTime ==
        \A id \in ApprovalIds :
            approvals[id].state # "consumed" /\ approvals'[id].state = "consumed" =>
                approvals[id].state = "available" /\ clock < approvals[id].expires
  <1>1. ASSUME ApprovalsTypeOK, [StoreNext]_<<clock, approvals>>
        PROVE  InTime
    <2>1. ASSUME NEW id \in ApprovalIds, StoreStep(id) PROVE InTime
      BY <1>1, <2>1, CurrentFacts DEF StoreStep, ApprovalsTypeOK, ApprovalRecords
    <2> QED
      BY <1>1, <2>1, NextStep
  <1> QED
    BY <1>1, ApprovalsTypeCorrectness, PTL DEF StoreSpec, ConsumedInTime

\* approvals.py: final states are final and a binding is for life.
THEOREM OneTimeApprovals == StoreSpec => ApprovalsStay
  <1> DEFINE Stay ==
        \A id \in ApprovalIds : approvals[id].state # "unissued" =>
            /\ approvals[id].state \in {"consumed", "expired", "revoked"} =>
                  approvals'[id] = approvals[id]
            /\ approvals'[id] = [approvals[id] EXCEPT !.state = approvals'[id].state]
            /\ approvals'[id].state # "unissued"
  <1>1. ASSUME ApprovalsTypeOK, [StoreNext]_<<clock, approvals>>
        PROVE  Stay
    <2>1. ASSUME NEW id \in ApprovalIds, StoreStep(id) PROVE Stay
      BY <1>1, <2>1, CurrentFacts DEF StoreStep, ApprovalsTypeOK, ApprovalRecords
    <2>2. CASE UNCHANGED approvals
      BY <1>1, <2>2 DEF ApprovalsTypeOK, ApprovalRecords
    <2> QED
      BY <1>1, <2>1, <2>2, NextStep
  <1> QED
    BY <1>1, ApprovalsTypeCorrectness, PTL DEF StoreSpec, ApprovalsStay

----------------------------------------------------------------------------
\* The core: threads over the store

USE DEF envVars, consentVars, gateVars, attemptVars, threadVars, history

----------------------------------------------------------------------------
\* What the components' operators return

\* A lookup in the approval store yields a record of the store's type.
LEMMA CurrentType ==
    ASSUME ApprovalsTypeOK, NEW id \in ApprovalIds
    PROVE  /\ Current(id) \in ApprovalRecords
           /\ Current(id).fingerprint = approvals[id].fingerprint
           /\ Current(id).owner = approvals[id].owner
  BY DEF ApprovalsTypeOK, ApprovalRecords, ApprovalStates, Current

\* Moving an approval keeps the store well typed.
LEMMA MoveType ==
    ASSUME ApprovalsTypeOK, NEW id \in ApprovalIds, NEW s \in ApprovalStates,
           NEW may \in BOOLEAN, Move(id, s, may)
    PROVE  approvals' \in [ApprovalIds -> ApprovalRecords]
  <1>1. Current(id) \in ApprovalRecords
    BY CurrentType
  <1>2. [Current(id) EXCEPT !.state = s] \in ApprovalRecords
    BY <1>1 DEF ApprovalRecords
  <1> QED
    BY <1>1, <1>2 DEF Move, ApprovalsTypeOK

\* The control plane's results are well typed in every world.
LEMMA ResultType ==
    ASSUME world \in Worlds, NEW q \in Requests
    PROVE  /\ Outcome(q) \in Outcomes \cup {"refused", "faulted"}
           /\ Outcome(q) \in Outcomes => Checked(q) \in ControlResults
           /\ Outcome(q) \in Outcomes => Routed(q) \in ControlResults
           /\ FingerprintOf[world][q] \in Fingerprints
           /\ OwnerOf[q] \in Principals
  <1>1. /\ PolicyOf[world][q] \in Outcomes \cup {"refused", "faulted"}
        /\ FingerprintOf[world][q] \in Fingerprints
        /\ InvocationOf[world][q] \in Invocations \cup {Nothing}
        /\ OwnerOf[q] \in Principals
    BY ControlPlaneAssumption
  <1> QED
    BY <1>1 DEF Outcome, Checked, Routed, Route, ControlResults

\* A record of the coordinator keeps its type when it expires.
LEMMA CurrentConsentType ==
    ASSUME ConsentTypeOK, NEW a \in Attempts, NEW now \in Nat
    PROVE  /\ CurrentConsent(a, now) \in ConsentRecords
           /\ CurrentConsent(a, now).created = consents[a].created
           /\ consents[a].state # "pending" => CurrentConsent(a, now) = consents[a]
           /\ CurrentConsent(a, now).state \in {consents[a].state, "expired"}
           /\ CurrentConsent(a, now).state = "none" => consents[a].state = "none"
           /\ CurrentConsent(a, now).state = "expired" => consents[a].state \in {"pending", "expired"}
  BY DEF ConsentTypeOK, ConsentRecords, ConsentStates, CurrentConsent

----------------------------------------------------------------------------
\* Steps of a thread that owns its attempt and is still preparing it

\* If such a step changes no lifecycle but its own attempt's, and either ends
\* the call or goes on to a step that expects the new state, custody of every
\* attempt is preserved, as far as the consent and gate tables do not change.
LEMMA OwnerStep ==
    ASSUME IInv, NEW t \in Threads, pc[t] \in BeforeGate,
           NEW step \in BeforeGate \cup {"idle", "deny"},
           pc' = [pc EXCEPT ![t] = step],
           cur' = IF step = "idle" THEN [cur EXCEPT ![t] = Nothing] ELSE cur,
           lifecycle' \in [Attempts -> RequestStates],
           \A a \in Attempts \ {cur[t]} : lifecycle'[a] = lifecycle[a],
           step \in BeforeGate => step # "decode" /\ lifecycle'[cur[t]] = StateAt(step),
           step = "deny" => AuditMayFail /\ lifecycle'[cur[t]] = "prepared",
           pc[t] = "decode" /\ step # "idle" => Started(cur[t]),
           UNCHANGED <<request, gateHolder, dispatches>>
    PROVE  /\ Custody' /\ SoleOwner' /\ LateDenial' /\ DispatchCustody'
           /\ UNCHANGED consents => Untouched' /\ ConsentCustody'
           /\ UNCHANGED prepared => GateCustody'
  <1> USE DEF Owns, AllCustody
  <1>0. /\ pc \in [Threads -> Steps] /\ cur \in [Threads -> Attempts \cup {Nothing}]
        /\ pc[t] \in Owning /\ pc[t] # "idle" /\ cur[t] \in Attempts
        /\ request[cur[t]] # Nothing
        /\ pc[t] \notin {"revalidate", "run", "ran", "unrun"}
        /\ step \notin {"revalidate", "run", "ran", "unrun"}
        /\ "deny" \notin Owning /\ pc[t] # "deny" /\ "idle" \notin BeforeGate
        /\ BeforeGate \subseteq Owning /\ ExecuteSteps \subseteq Owning
    BY DEF Steps, IInv, TypeOK, ThreadTypeOK, Custody, BeforeGate, Owning, ExecuteSteps
  <1>1. \A u \in Threads \ {t} : pc'[u] = pc[u] /\ cur'[u] = cur[u]
    BY <1>0
  <1>2. pc'[t] = step /\ (step # "idle" => cur'[t] = cur[t])
    BY <1>0
  <1>3. \A u \in Threads, a \in Attempts : Owns(u, a)' => Owns(u, a)
    BY <1>0, <1>1, <1>2, Zenon DEF BeforeGate, Owning
  <1>4. Custody'
    <2> SUFFICES ASSUME NEW u \in Threads, pc'[u] # "idle"
                 PROVE  /\ cur'[u] \in Attempts
                        /\ request[cur'[u]] # Nothing
                        /\ pc'[u] # "decode" => Started(cur'[u])
                        /\ Placed(u)'
      BY DEF Custody, Started
    <2>1. CASE u = t
      <3>1. pc'[u] = step /\ step # "idle" /\ cur'[u] = cur[t]
        BY <1>2, <2>1
      <3>2. Placed(u)'
        BY <1>0, <3>1 DEF Placed, ExecuteSteps
      <3> QED
        BY <1>0, <1>2, <2>1, <3>1, <3>2 DEF IInv, Custody, Started
    <2>2. CASE u # t
      <3>1. pc[u] \in Owning \cup {"deny"} => cur[u] # cur[t]
        BY <1>0, <2>2 DEF IInv, SoleOwner, LateDenial
      <3>2. pc'[u] = pc[u] /\ cur'[u] = cur[u] /\ pc[u] # "idle" /\ cur[u] \in Attempts /\ Placed(u)
        BY <1>1, <2>2 DEF IInv, Custody
      <3>3. pc[u] \in Owning \cup {"deny"} => lifecycle'[cur[u]] = lifecycle[cur[u]]
        BY <3>1, <3>2
      <3>4. Placed(u)'
        BY <1>0, <3>2, <3>3 DEF Placed
      <3> QED
        BY <1>0, <1>1, <2>2, <3>4 DEF IInv, Custody, Started
    <2> QED
      BY <2>1, <2>2
  <1>4a. SoleOwner'
    <2> SUFFICES ASSUME NEW u \in Threads, NEW v \in Threads, pc'[u] \in Owning,
                        pc'[v] \in Owning, cur'[u] = cur'[v]
                 PROVE  u = v
      BY DEF SoleOwner
    <2>1. cur'[u] \in Attempts
      BY <1>4 DEF Custody, Owning
    <2> QED
      BY <1>3, <2>1 DEF IInv, SoleOwner
  <1>4b. LateDenial'
    <2> SUFFICES ASSUME NEW u \in Threads, NEW v \in Threads, pc'[u] = "deny",
                        cur'[u] = cur'[v], pc'[v] \in BeforeGate
                 PROVE  FALSE
      BY DEF LateDenial
    <2>1. cur'[u] \in Attempts
      BY <1>4 DEF Custody
    <2>2. Owns(v, cur'[u])
      BY <1>0, <1>3, <2>1
    <2>3. pc[v] \in BeforeGate /\ cur[v] = cur'[u]
      BY <1>0, <1>1, <1>2, <2>2
    <2>4. CASE u = t
      <3>1. v # t
        BY <1>0, <1>2, <2>4
      <3> QED
        BY <1>0, <1>2, <2>3, <2>4, <3>1 DEF IInv, SoleOwner
    <2>5. CASE u # t
      BY <1>1, <2>3, <2>5 DEF IInv, LateDenial
    <2> QED
      BY <2>4, <2>5
  <1>5. UNCHANGED consents => Untouched'
    BY <1>0 DEF IInv, Untouched
  <1>6. UNCHANGED consents => ConsentCustody'
    BY <1>0, <1>3 DEF IInv, ConsentCustody, Started
  <1>7. ASSUME UNCHANGED prepared PROVE GateCustody'
    <2>1. \A u \in Threads : gateHolder' = u <=> pc'[u] = "revalidate"
      BY <1>0, <1>1, <1>2 DEF IInv, GateCustody
    <2>2. ASSUME NEW r \in RequestIds, prepared[r].attempt # Nothing
          PROVE  LET a == prepared[r].attempt IN
                 /\ Started(a) /\ Rid(a) = r
                 /\ lifecycle'[a] \in {"prepared", "executing"} \cup Terminal
                 /\ \A u \in Threads : Owns(u, a)' => pc'[u] \in ExecuteSteps
      <3> DEFINE a == prepared[r].attempt
      <3>1. a \in Attempts
        BY <2>2 DEF IInv, TypeOK, GateTypeOK, GateRecords, Empty
      <3>2. /\ Started(a) /\ Rid(a) = r
            /\ lifecycle[a] \in {"prepared", "executing"} \cup Terminal
            /\ \A u \in Threads : Owns(u, a) => pc[u] \in ExecuteSteps
        BY <2>2 DEF IInv, GateCustody
      <3>3. a # cur[t]
        BY <1>0, <3>2 DEF ExecuteSteps
      <3>4. ASSUME NEW u \in Threads, Owns(u, a)' PROVE pc'[u] \in ExecuteSteps
        <4>1. Owns(u, a) /\ u # t
          BY <1>3, <1>7, <3>1, <3>3, <3>4
        <4> QED
          BY <1>1, <3>2, <4>1
      <3> QED
        BY <3>1, <3>2, <3>3, <3>4
    <2> QED
      BY <1>7, <2>1, <2>2 DEF GateCustody, Started, Rid
  <1>8. DispatchCustody'
    <2>1. lifecycle[cur[t]] \notin {"executing"} \cup Terminal
      <3>1. lifecycle[cur[t]] = StateAt(pc[t])
        BY <1>0 DEF IInv, Custody, Placed
      <3>2. StateAt(pc[t]) \notin {"executing"} \cup Terminal
        BY <1>0 DEF StateAt, Terminal
      <3> QED
        BY <3>1, <3>2
    <2> QED
      BY <1>0, <1>1, <1>2, <2>1 DEF IInv, DispatchCustody
  <1> QED
    BY <1>4, <1>4a, <1>4b, <1>5, <1>6, <1>7, <1>8

\* The steps a call can go on to, and the states they expect.
LEMMA StepFacts ==
    /\ \A step \in {"branch", "prepare", "register_consent", "consume", "prepare_confirmed",
                     "register_check", "register", "reject", "issue", "make_available"} :
          step \in BeforeGate \ {"decode"}
    /\ "decode" \in BeforeGate /\ "idle" \notin BeforeGate /\ "deny" \notin BeforeGate
    /\ StateAt("branch") = "policy_checked" /\ StateAt("prepare") = "approved"
    /\ StateAt("register_consent") = "awaiting_approval"
    /\ StateAt("consume") = "awaiting_approval"
    /\ StateAt("reject") = "awaiting_approval" /\ StateAt("issue") = "awaiting_approval"
    /\ StateAt("make_available") = "awaiting_approval"
    /\ StateAt("prepare_confirmed") = "approved"
    /\ StateAt("register_check") = "prepared" /\ StateAt("register") = "prepared"
  BY DEF BeforeGate, Owning, Steps, PrepareSteps, ExecuteSteps, ConsentSteps, StateAt

\* The three ways such a step leaves its thread: it ends the call in some
\* state, goes on to the step of the state it reached, or just returns.
LEMMA FinishStep ==
    ASSUME IInv, NEW t \in Threads, pc[t] \in BeforeGate, NEW s \in RequestStates,
           Finish(t, s),
           UNCHANGED <<request, consents, prepared, gateHolder, dispatches>>
    PROVE  AllCustody' /\ ThreadTypeOK' /\ lifecycle' \in [Attempts -> RequestStates]
  <1>1. lifecycle' = [lifecycle EXCEPT ![cur[t]] = s]
    BY DEF Finish, Transition
  <1>2. lifecycle' \in [Attempts -> RequestStates]
    BY <1>1 DEF IInv, TypeOK, AttemptTypeOK
  <1>3. \A a \in Attempts \ {cur[t]} : lifecycle'[a] = lifecycle[a]
    BY <1>1 DEF IInv, TypeOK, AttemptTypeOK
  <1>4. /\ pc' = [pc EXCEPT ![t] = "idle"] /\ cur' = [cur EXCEPT ![t] = Nothing]
        /\ handling' = [handling EXCEPT ![t] = Nothing] /\ stamp' = [stamp EXCEPT ![t] = 0]
    BY DEF Finish, Done
  <1>5. ThreadTypeOK'
    BY <1>4 DEF IInv, TypeOK, ThreadTypeOK, Steps
  <1>6. AllCustody'
    BY <1>2, <1>3, <1>4, OwnerStep, StepFacts DEF AllCustody
  <1> QED
    BY <1>2, <1>5, <1>6

LEMMA AdvanceStep ==
    ASSUME IInv, NEW t \in Threads, pc[t] \in BeforeGate,
           NEW step \in BeforeGate \ {"decode"}, NEW s \in RequestStates, s = StateAt(step),
           pc[t] = "decode" => Started(cur[t]),
           Transition(cur[t], s), Go(t, step) \/ GoStamped(t, step),
           UNCHANGED <<request, consents, prepared, gateHolder, dispatches>>
    PROVE  AllCustody' /\ ThreadTypeOK' /\ lifecycle' \in [Attempts -> RequestStates]
  <1>1. lifecycle' = [lifecycle EXCEPT ![cur[t]] = s]
    BY DEF Transition
  <1>2. lifecycle' \in [Attempts -> RequestStates]
    BY <1>1 DEF IInv, TypeOK, AttemptTypeOK
  <1>3. \A a \in Attempts \ {cur[t]} : lifecycle'[a] = lifecycle[a]
    BY <1>1 DEF IInv, TypeOK, AttemptTypeOK
  <1>4. step # "idle" /\ step \in Steps /\ pc[t] # "idle"
    BY DEF BeforeGate, Owning
  <1>5. pc' = [pc EXCEPT ![t] = step] /\ cur' = cur /\ handling' = handling
    BY DEF Go, GoStamped
  <1>6. stamp' \in [Threads -> Nat]
    BY DEF Go, GoStamped, IInv, TypeOK, ThreadTypeOK, ApprovalsTypeOK
  <1>7. ThreadTypeOK'
    BY <1>4, <1>5, <1>6 DEF IInv, TypeOK, ThreadTypeOK
  <1>8. cur[t] \in Attempts
    BY <1>4 DEF IInv, AllCustody, Custody
  <1>9. lifecycle'[cur[t]] = StateAt(step)
    BY <1>1, <1>8 DEF IInv, TypeOK, AttemptTypeOK
  <1>10. AllCustody'
    BY <1>2, <1>3, <1>4, <1>5, <1>9, OwnerStep, StepFacts DEF AllCustody
  <1> QED
    BY <1>2, <1>7, <1>10

LEMMA ReturnStep ==
    ASSUME IInv, NEW t \in Threads, pc[t] \in BeforeGate, Done(t),
           UNCHANGED <<lifecycle, request, consents, prepared, gateHolder, dispatches>>
    PROVE  AllCustody' /\ ThreadTypeOK'
  <1>1. /\ pc' = [pc EXCEPT ![t] = "idle"] /\ cur' = [cur EXCEPT ![t] = Nothing]
        /\ handling' = [handling EXCEPT ![t] = Nothing] /\ stamp' = [stamp EXCEPT ![t] = 0]
    BY DEF Done
  <1>2. ThreadTypeOK'
    BY <1>1 DEF IInv, TypeOK, ThreadTypeOK, Steps
  <1>3. lifecycle' \in [Attempts -> RequestStates]
    BY DEF IInv, TypeOK, AttemptTypeOK
  <1>4. AllCustody'
    BY <1>1, <1>3, OwnerStep, StepFacts DEF AllCustody
  <1> QED
    BY <1>2, <1>4

\* What a thread that prepares a decoded request may rely on.
LEMMA OwnerFacts ==
    ASSUME IInv, NEW t \in Threads, pc[t] \in BeforeGate \ {"decode"}
    PROVE  /\ cur[t] \in Attempts
           /\ Started(cur[t]) /\ request[cur[t]] \in Envelopes
           /\ Content(cur[t]) \in Requests /\ Rid(cur[t]) \in RequestIds
           /\ Owner(cur[t]) \in Principals
           /\ lifecycle[cur[t]] = StateAt(pc[t])
  <1>1. /\ cur[t] \in Attempts /\ Started(cur[t]) /\ lifecycle[cur[t]] = StateAt(pc[t])
    BY DEF IInv, AllCustody, Custody, Placed, BeforeGate, Owning
  <1>2. request[cur[t]] \in Envelopes
    BY <1>1 DEF Started, IInv, TypeOK, AttemptTypeOK
  <1>3. Content(cur[t]) \in Requests /\ Rid(cur[t]) \in RequestIds
    BY <1>1, <1>2, AttemptAssumption DEF Started, Accepted, Content, Rid
  <1>4. Owner(cur[t]) \in Principals
    BY <1>3, ControlPlaneAssumption DEF Owner
  <1> QED
    BY <1>1, <1>2, <1>3, <1>4

----------------------------------------------------------------------------
\* The prepare call

LEMMA CheckPolicyInv ==
    ASSUME IInv, NEW t \in Threads, CheckPolicy(t)
    PROVE  IInv'
  <1> DEFINE a == cur[t]
             q == Content(a)
  <1>1. /\ pc[t] = "decode" /\ pc[t] \in BeforeGate
        /\ a \in Attempts /\ request[a] # Nothing /\ request[a] \in Envelopes
    BY DEF CheckPolicy, At, IInv, TypeOK, AttemptTypeOK, AllCustody, Custody,
           BeforeGate, Owning, Steps, PrepareSteps, ExecuteSteps
  <1>2. UNCHANGED <<clock, world, approvals, consents, requestIds, prepared, gateHolder,
                    request, approvalOf, signed, dispatches>>
    BY DEF CheckPolicy
  <1>3. ASSUME NEW s \in {"denied", "failed"}, Finish(t, s), UNCHANGED bound
        PROVE  IInv'
    BY <1>1, <1>2, <1>3, FinishStep
       DEF IInv, TypeOK, RequestStates, ApprovalsTypeOK, AttemptTypeOK, ConsentTypeOK,
           GateTypeOK, HistoryTypeOK
  <1>4. ASSUME Accepted(request[a]), Outcome(q) \in Outcomes,
               Advance(t, "policy_checked", "branch"), Bind(t, Checked(q))
        PROVE  IInv'
    <2>1. Started(a) /\ q \in Requests
      BY <1>1, <1>4, AttemptAssumption DEF Started, Accepted, Content
    <2>2. Checked(q) \in ControlResults
      BY <1>4, <2>1, ResultType DEF IInv, TypeOK
    <2>3. bound' \in [Attempts -> ControlResults]
      BY <1>4, <2>2 DEF Bind, IInv, TypeOK, AttemptTypeOK
    <2>4. AllCustody' /\ ThreadTypeOK' /\ lifecycle' \in [Attempts -> RequestStates]
      <3>1. /\ "branch" \in BeforeGate \ {"decode"} /\ "policy_checked" \in RequestStates
            /\ StateAt("branch") = "policy_checked"
        BY DEF BeforeGate, Owning, Steps, PrepareSteps, ExecuteSteps, StateAt, RequestStates
      <3> QED
        BY <1>1, <1>2, <1>4, <2>1, <3>1, AdvanceStep DEF Advance
    <2> QED
      BY <1>2, <2>3, <2>4
         DEF IInv, TypeOK, ApprovalsTypeOK, AttemptTypeOK, ConsentTypeOK, GateTypeOK, HistoryTypeOK
  <1> QED
    BY <1>3, <1>4 DEF CheckPolicy

LEMMA BranchInv ==
    ASSUME IInv, NEW t \in Threads, Branch(t)
    PROVE  IInv'
  <1> DEFINE a == cur[t]
  <1> USE DEF RequestStates
  <1>1. pc[t] = "branch"
    BY DEF Branch, At
  <1>2. /\ pc[t] \in BeforeGate /\ a \in Attempts /\ request[a] \in Envelopes /\ Started(a)
    BY <1>1, StepFacts, OwnerFacts
  <1>3. UNCHANGED <<clock, world, approvals, consents, requestIds, prepared, gateHolder,
                    request, bound, signed, dispatches>>
    BY DEF Branch
  <1>4. approvalOf' \in [Attempts -> ApprovalIds \cup {Nothing}]
    <2>1. request[a].approval \in ApprovalIds \cup {Nothing}
      BY <1>2, AttemptAssumption
    <2> QED
      BY <2>1 DEF Branch, IInv, TypeOK, AttemptTypeOK
  <1>5. AllCustody' /\ ThreadTypeOK' /\ lifecycle' \in [Attempts -> RequestStates]
    <2>1. CASE Finish(t, "denied")
      BY <1>2, <1>3, <2>1, FinishStep
    <2>2. CASE Advance(t, "approved", "prepare")
      BY <1>1, <1>2, <1>3, <2>2, StepFacts, AdvanceStep DEF Advance
    <2>3. CASE Transition(a, "awaiting_approval") /\ GoStamped(t, "register_consent")
      BY <1>1, <1>2, <1>3, <2>3, StepFacts, AdvanceStep
    <2>4. CASE Transition(a, "awaiting_approval") /\ Go(t, "consume")
      BY <1>1, <1>2, <1>3, <2>4, StepFacts, AdvanceStep
    <2> QED
      BY <2>1, <2>2, <2>3, <2>4 DEF Branch
  <1> QED
    BY <1>3, <1>4, <1>5
       DEF IInv, TypeOK, ApprovalsTypeOK, AttemptTypeOK, ConsentTypeOK, GateTypeOK, HistoryTypeOK

\* Preparation, direct or confirmed: the result is bound with its route, or the
\* call ends without one.
LEMMA PreparationInv ==
    ASSUME IInv, NEW t \in Threads, PrepareDirect(t) \/ PrepareConfirmed(t)
    PROVE  IInv'
  <1> DEFINE a == cur[t]
             q == Content(a)
  <1> USE DEF RequestStates
  <1>1. pc[t] \in {"prepare", "prepare_confirmed"}
    BY DEF PrepareDirect, PrepareConfirmed, At
  <1>2. pc[t] \in BeforeGate \ {"decode"} /\ a \in Attempts /\ Started(a) /\ q \in Requests
    BY <1>1, StepFacts, OwnerFacts
  <1>3. UNCHANGED <<clock, world, approvals, consents, requestIds, prepared, gateHolder,
                    request, approvalOf, signed, dispatches>>
    BY DEF PrepareDirect, PrepareConfirmed
  <1>4. \/ /\ Outcome(q) \in Outcomes
           /\ Bind(t, Routed(q)) /\ Advance(t, "prepared", "register_check")
        \/ /\ UNCHANGED bound
           /\ \/ \E s \in {"denied", "failed"} : Finish(t, s)
              \/ Done(t) /\ UNCHANGED lifecycle
    BY DEF PrepareDirect, PrepareConfirmed, Confirmed, Outcomes
  <1>5. bound' \in [Attempts -> ControlResults]
    BY <1>2, <1>4, ResultType DEF Bind, IInv, TypeOK, AttemptTypeOK
  <1>6. AllCustody' /\ ThreadTypeOK' /\ lifecycle' \in [Attempts -> RequestStates]
    <2>1. CASE Advance(t, "prepared", "register_check")
      BY <1>2, <1>3, <2>1, StepFacts, AdvanceStep DEF Advance
    <2>2. ASSUME NEW s \in {"denied", "failed"}, Finish(t, s)
          PROVE  AllCustody' /\ ThreadTypeOK' /\ lifecycle' \in [Attempts -> RequestStates]
      BY <1>2, <1>3, <2>2, FinishStep
    <2>3. CASE Done(t) /\ UNCHANGED lifecycle
      BY <1>2, <1>3, <2>3, ReturnStep DEF IInv, TypeOK, AttemptTypeOK
    <2> QED
      BY <1>4, <2>1, <2>2, <2>3
  <1> QED
    BY <1>3, <1>5, <1>6
       DEF IInv, TypeOK, ApprovalsTypeOK, AttemptTypeOK, ConsentTypeOK, GateTypeOK, HistoryTypeOK

----------------------------------------------------------------------------
\* The approval of a consent or of another surface

LEMMA ApprovalStepsInv ==
    ASSUME IInv, NEW t \in Threads,
           RejectConsent(t) \/ MakeApprovalAvailable(t) \/ ConsumeApproval(t)
    PROVE  IInv'
  <1> DEFINE a  == cur[t]
             id == approvalOf[a]
  <1> USE DEF RequestStates
  <1>1. pc[t] \in {"reject", "make_available", "consume"}
    BY DEF RejectConsent, MakeApprovalAvailable, ConsumeApproval, At
  <1>2. pc[t] \in BeforeGate \ {"decode"} /\ a \in Attempts /\ lifecycle[a] = "awaiting_approval"
    BY <1>1, StepFacts, OwnerFacts
  <1>3. UNCHANGED <<clock, world, consents, requestIds, prepared, gateHolder,
                    request, bound, approvalOf, signed, dispatches>>
    BY DEF RejectConsent, MakeApprovalAvailable, ConsumeApproval
  <1>4. approvals' \in [ApprovalIds -> ApprovalRecords]
    <2>1. CASE UNCHANGED approvals
      BY <2>1 DEF IInv, TypeOK, ApprovalsTypeOK
    <2>2. CASE id \in ApprovalIds
      <3>1. ASSUME NEW s \in {"available", "consumed"}, NEW may \in BOOLEAN, Move(id, s, may)
            PROVE  approvals' \in [ApprovalIds -> ApprovalRecords]
        BY <2>2, <3>1, MoveType DEF ApprovalStates, IInv, TypeOK
      <3> QED
        BY <2>1, <3>1 DEF RejectConsent, MakeApprovalAvailable, ConsumeApproval, MakeAvailable,
                          Consume, CanMakeAvailable, CanConsume
    <2>3. CASE id \notin ApprovalIds
      BY <2>1, <2>3 DEF RejectConsent, MakeApprovalAvailable, ConsumeApproval, MakeAvailable,
                        Consume, Move, IInv, TypeOK, ApprovalsTypeOK
    <2> QED
      BY <2>2, <2>3
  <1>5. AllCustody' /\ ThreadTypeOK' /\ lifecycle' \in [Attempts -> RequestStates]
    <2>1. CASE Finish(t, "denied")
      BY <1>2, <1>3, <2>1, FinishStep
    <2>2. CASE Go(t, "consume") /\ UNCHANGED lifecycle
      <3>1. Transition(a, "awaiting_approval")
        BY <1>2, <2>2 DEF Transition, IInv, TypeOK, AttemptTypeOK
      <3> QED
        BY <1>2, <1>3, <2>2, <3>1, StepFacts, AdvanceStep
    <2>3. CASE Advance(t, "approved", "prepare_confirmed")
      BY <1>2, <1>3, <2>3, StepFacts, AdvanceStep DEF Advance
    <2> QED
      BY <2>1, <2>2, <2>3 DEF RejectConsent, MakeApprovalAvailable, ConsumeApproval
  <1> QED
    BY <1>3, <1>4, <1>5
       DEF IInv, TypeOK, ApprovalsTypeOK, AttemptTypeOK, ConsentTypeOK, GateTypeOK, HistoryTypeOK

LEMMA IssueApprovalInv ==
    ASSUME IInv, NEW t \in Threads, IssueApproval(t)
    PROVE  IInv'
  <1> DEFINE a == cur[t]
  <1> USE DEF RequestStates
  <1>1. pc[t] = "issue"
    BY DEF IssueApproval, At
  <1>2. /\ pc[t] \in BeforeGate \ {"decode"} /\ a \in Attempts
        /\ lifecycle[a] = "awaiting_approval" /\ Owner(a) \in Principals
    BY <1>1, StepFacts, OwnerFacts
  <1>3. /\ UNCHANGED <<clock, world, consents, requestIds, prepared, gateHolder,
                       request, lifecycle, bound, signed, dispatches>>
        /\ Go(t, "make_available")
    BY DEF IssueApproval
  <1>4. /\ approvals' \in [ApprovalIds -> ApprovalRecords]
        /\ approvalOf' \in [Attempts -> ApprovalIds \cup {Nothing}]
    <2> PICK id \in ApprovalIds \ SurfaceApprovals :
             /\ Issue(id, bound[a].fingerprint, Owner(a))
             /\ approvalOf' = [approvalOf EXCEPT ![a] = id]
      BY DEF IssueApproval
    <2>1. bound[a].fingerprint \in Fingerprints \cup {Nothing}
      BY <1>2 DEF IInv, TypeOK, AttemptTypeOK, ControlResults
    <2>2. clock + ApprovalTtl \in Nat
      BY ApprovalsAssumption DEF IInv, TypeOK, ApprovalsTypeOK
    <2> QED
      BY <1>2, <2>1, <2>2 DEF Issue, IInv, TypeOK, ApprovalsTypeOK, AttemptTypeOK,
                              ApprovalRecords, ApprovalStates
  <1>5. AllCustody' /\ ThreadTypeOK' /\ lifecycle' \in [Attempts -> RequestStates]
    <2>1. Transition(a, "awaiting_approval")
      BY <1>2, <1>3 DEF Transition, IInv, TypeOK, AttemptTypeOK
    <2> QED
      BY <1>2, <1>3, <2>1, StepFacts, AdvanceStep
  <1> QED
    BY <1>3, <1>4, <1>5
       DEF IInv, TypeOK, ApprovalsTypeOK, AttemptTypeOK, ConsentTypeOK, GateTypeOK, HistoryTypeOK

----------------------------------------------------------------------------
\* Registration with the gate and with the consent coordinator

LEMMA CheckRegistrationInv ==
    ASSUME IInv, NEW t \in Threads, CheckRegistration(t)
    PROVE  IInv'
  <1> DEFINE a == cur[t]
  <1> USE DEF RequestStates
  <1>1. pc[t] = "register_check"
    BY DEF CheckRegistration, At
  <1>2. pc[t] \in BeforeGate \ {"decode"} /\ a \in Attempts /\ lifecycle[a] = "prepared"
    BY <1>1, StepFacts, OwnerFacts
  <1>3. UNCHANGED <<clock, world, consents, requestIds, prepared, gateHolder,
                    request, bound, approvalOf, signed, dispatches>>
    BY DEF CheckRegistration
  <1>4. approvals' \in [ApprovalIds -> ApprovalRecords]
    <2>1. approvalOf[a] \in ApprovalIds \cup {Nothing}
      BY <1>2 DEF IInv, TypeOK, AttemptTypeOK
    <2>2. approvalOf[a] # Nothing => Current(approvalOf[a]) \in ApprovalRecords
      BY <2>1, CurrentType DEF IInv, TypeOK
    <2> QED
      BY <2>1, <2>2 DEF CheckRegistration, Get, IInv, TypeOK, ApprovalsTypeOK
  <1>5. AllCustody' /\ ThreadTypeOK' /\ lifecycle' \in [Attempts -> RequestStates]
    <2>1. CASE Finish(t, "denied")
      BY <1>2, <1>3, <2>1, FinishStep
    <2>2. CASE GoStamped(t, "register") /\ UNCHANGED lifecycle
      <3>1. Transition(a, "prepared")
        BY <1>2, <2>2 DEF Transition, IInv, TypeOK, AttemptTypeOK
      <3> QED
        BY <1>2, <1>3, <2>2, <3>1, StepFacts, AdvanceStep
    <2>3. CASE Done(t) /\ UNCHANGED lifecycle
      BY <1>2, <1>3, <2>3, ReturnStep DEF IInv, TypeOK, AttemptTypeOK
    <2> QED
      BY <2>1, <2>2, <2>3 DEF CheckRegistration, NotRegistered
  <1> QED
    BY <1>3, <1>4, <1>5
       DEF IInv, TypeOK, ApprovalsTypeOK, AttemptTypeOK, ConsentTypeOK, GateTypeOK, HistoryTypeOK

\* The gate's table changes only by dropping records and by filing the attempt
\* under its own request ID, when its thread lets go of it or is about to deny it.
LEMMA RegisterExecutionInv ==
    ASSUME IInv, NEW t \in Threads, RegisterExecution(t)
    PROVE  IInv'
  <1> DEFINE a == cur[t]
  <1> USE DEF RequestStates
  <1>1. pc[t] = "register"
    BY DEF RegisterExecution, At
  <1>2. /\ pc[t] \in BeforeGate \ {"decode"} /\ a \in Attempts /\ Started(a)
        /\ lifecycle[a] = "prepared" /\ Rid(a) \in RequestIds
    BY <1>1, StepFacts, OwnerFacts
  <1>3. /\ UNCHANGED <<clock, world, approvals, consents, requestIds, gateHolder,
                       request, bound, approvalOf, signed, dispatches>>
        /\ gateHolder = Nothing
    BY DEF RegisterExecution, RegisterPrepared
  <1>4. PICK step \in {"idle", "deny"} :
           /\ pc' = [pc EXCEPT ![t] = step]
           /\ cur' = IF step = "idle" THEN [cur EXCEPT ![t] = Nothing] ELSE cur
           /\ handling' \in {handling, [handling EXCEPT ![t] = Nothing]}
           /\ stamp' \in {stamp, [stamp EXCEPT ![t] = 0]}
           /\ step = "deny" => AuditMayFail /\ lifecycle' = lifecycle
    BY DEF RegisterExecution, NotRegistered, Finish, Done, Go
  <1>5. \/ lifecycle' = lifecycle
        \/ lifecycle' = [lifecycle EXCEPT ![a] = "denied"]
    BY DEF RegisterExecution, NotRegistered, Finish, Transition
  <1>6. ThreadTypeOK' /\ lifecycle' \in [Attempts -> RequestStates]
    BY <1>4, <1>5 DEF IInv, TypeOK, ThreadTypeOK, Steps, PrepareSteps, AttemptTypeOK
  <1>7. PICK slot \in [RequestIds -> GateRecords] :
           /\ prepared' = slot
           /\ \A r \in RequestIds :
                 slot[r].attempt # Nothing =>
                    \/ slot[r] = prepared[r]
                    \/ r = Rid(a) /\ slot[r].attempt = a
    <2> DEFINE now  == stamp[t]
               live == [r \in RequestIds |-> IF now >= prepared[r].expires THEN Empty
                                             ELSE prepared[r]]
               mine == [attempt |-> a, expires |-> now + PreparationTtl]
    <2>1. now \in Nat /\ now + PreparationTtl \in Nat
      BY GateAssumption DEF IInv, TypeOK, ThreadTypeOK
    <2>2. live \in [RequestIds -> GateRecords]
      BY DEF IInv, TypeOK, GateTypeOK, GateRecords, Empty
    <2>3. mine \in GateRecords /\ mine.attempt = a
      BY <1>2, <2>1 DEF GateRecords
    <2>4. \/ prepared' = live
          \/ prepared' = [live EXCEPT ![Rid(a)] = mine]
      BY DEF RegisterExecution, RegisterPrepared
    <2>5. prepared' \in [RequestIds -> GateRecords]
      BY <2>2, <2>3, <2>4
    <2>6. \A r \in RequestIds : live[r].attempt # Nothing => live[r] = prepared[r]
      BY DEF Empty
    <2> QED
      BY <1>2, <2>2, <2>3, <2>4, <2>5, <2>6
  <1>8. /\ \A u \in Threads \ {t} : pc'[u] = pc[u] /\ cur'[u] = cur[u]
        /\ \A u \in Threads, b \in Attempts : Owns(u, b)' => u # t /\ b # a /\ Owns(u, b)
        /\ \A b \in Attempts \ {a} : lifecycle'[b] = lifecycle[b]
        /\ lifecycle'[a] \in {"prepared", "denied"}
    <2>1. \A u \in Threads \ {t} : pc'[u] = pc[u] /\ cur'[u] = cur[u]
      BY <1>4
    <2>2. pc'[t] \in {"idle", "deny"}
      BY <1>4 DEF IInv, TypeOK, ThreadTypeOK
    <2>3. \A u \in Threads, b \in Attempts : Owns(u, b)' => u # t /\ Owns(u, b)
      BY <2>1, <2>2 DEF Owns, Owning
    <2>4. \A u \in Threads \ {t} : ~Owns(u, a)
      BY <1>1, <1>2 DEF Owns, IInv, AllCustody, SoleOwner, BeforeGate
    <2>5. /\ \A b \in Attempts \ {a} : lifecycle'[b] = lifecycle[b]
          /\ lifecycle'[a] \in {"prepared", "denied"}
      BY <1>2, <1>5 DEF IInv, TypeOK, AttemptTypeOK
    <2> QED
      BY <2>1, <2>3, <2>4, <2>5
  <1>9. GateCustody'
    <2>1. \A u \in Threads : gateHolder' = u <=> pc'[u] = "revalidate"
      BY <1>1, <1>3, <1>4, <1>8 DEF IInv, TypeOK, ThreadTypeOK, AllCustody, GateCustody
    <2>2. ASSUME NEW r \in RequestIds, slot[r].attempt # Nothing
          PROVE  /\ Started(slot[r].attempt) /\ Rid(slot[r].attempt) = r
                 /\ lifecycle'[slot[r].attempt] \in {"prepared", "executing"} \cup Terminal
                 /\ \A u \in Threads : Owns(u, slot[r].attempt)' => pc'[u] \in ExecuteSteps
      <3>1. slot[r].attempt \in Attempts
        BY <2>2 DEF GateRecords, Empty
      <3>2. CASE slot[r].attempt = a /\ r = Rid(a)
        BY <1>2, <1>8, <3>2 DEF Terminal
      <3>3. CASE slot[r] = prepared[r]
        BY <1>8, <2>2, <3>1, <3>3 DEF IInv, AllCustody, GateCustody, Terminal
      <3> QED
        BY <1>7, <2>2, <3>2, <3>3
    <2> QED
      BY <1>3, <1>7, <2>1, <2>2 DEF GateCustody, Started, Rid
  <1>10. Custody' /\ SoleOwner' /\ LateDenial' /\ Untouched' /\ ConsentCustody' /\ DispatchCustody'
    BY <1>1, <1>2, <1>3, <1>4, <1>6, <1>8, OwnerStep, StepFacts
  <1> QED
    BY <1>3, <1>6, <1>7, <1>9, <1>10
       DEF IInv, TypeOK, AllCustody, ApprovalsTypeOK, AttemptTypeOK, ConsentTypeOK, GateTypeOK,
           HistoryTypeOK

\* Registering a consent expires and evicts records of others, and may file the
\* attempt its thread lets go of.
LEMMA RegisterConsentInv ==
    ASSUME IInv, NEW t \in Threads, RegisterConsent(t)
    PROVE  IInv'
  <1> DEFINE a == cur[t]
             now == stamp[t]
  <1> USE DEF RequestStates
  <1>1. pc[t] = "register_consent"
    BY DEF RegisterConsent, At
  <1>2. /\ pc[t] \in BeforeGate \ {"decode"} /\ a \in Attempts /\ Started(a)
        /\ lifecycle[a] = "awaiting_approval" /\ Rid(a) \in RequestIds
    BY <1>1, StepFacts, OwnerFacts
  <1>3. UNCHANGED <<clock, world, approvals, prepared, gateHolder,
                    request, bound, approvalOf, signed, dispatches>>
    BY DEF RegisterConsent
  <1>4. /\ pc' = [pc EXCEPT ![t] = "idle"] /\ cur' = [cur EXCEPT ![t] = Nothing]
        /\ handling' = [handling EXCEPT ![t] = Nothing] /\ stamp' = [stamp EXCEPT ![t] = 0]
    BY DEF RegisterConsent, Finish, Done
  <1>5. \/ lifecycle' = lifecycle /\ Register(a, now, TRUE)
        \/ lifecycle' = [lifecycle EXCEPT ![a] = "denied"] /\ Register(a, now, FALSE)
    BY DEF RegisterConsent, Finish, Transition
  <1>6. /\ ThreadTypeOK' /\ lifecycle' \in [Attempts -> RequestStates]
        /\ \A b \in Attempts \ {a} : lifecycle'[b] = lifecycle[b]
    BY <1>2, <1>4, <1>5 DEF IInv, TypeOK, ThreadTypeOK, Steps, AttemptTypeOK
  <1>7. Custody' /\ SoleOwner' /\ LateDenial' /\ DispatchCustody' /\ GateCustody'
    BY <1>2, <1>3, <1>4, <1>6, OwnerStep, StepFacts
  <1>8. now \in Nat
    BY DEF IInv, TypeOK, ThreadTypeOK
  <1>9. PICK evicted \in Evictions(now) :
           /\ \/ consents' = [b \in Attempts |-> IF b \in evicted THEN NoConsent
                                                 ELSE CurrentConsent(b, now)]
              \/ /\ lifecycle' = lifecycle
                 /\ consents' = [[b \in Attempts |-> IF b \in evicted THEN NoConsent
                                                     ELSE CurrentConsent(b, now)]
                                 EXCEPT ![a] = [state |-> "pending", created |-> now]]
           /\ requestIds' \subseteq requestIds \cup {Rid(a)}
    BY <1>5 DEF Register
  <1>10. \A b \in Attempts : NoConsent \in ConsentRecords /\ CurrentConsent(b, now) \in ConsentRecords
    BY <1>8, CurrentConsentType DEF NoConsent, ConsentRecords, ConsentStates, IInv, TypeOK
  <1>11. [state |-> "pending", created |-> now] \in ConsentRecords
    BY <1>8 DEF ConsentRecords, ConsentStates
  <1> DEFINE kept == [b \in Attempts |-> IF b \in evicted THEN NoConsent
                                         ELSE CurrentConsent(b, now)]
             mine == [state |-> "pending", created |-> now]
  <1>12. /\ kept \in [Attempts -> ConsentRecords]
         /\ \/ consents' = kept
            \/ lifecycle' = lifecycle /\ consents' = [kept EXCEPT ![a] = mine]
    BY <1>9, <1>10
  <1>13. /\ ConsentTypeOK'
         /\ \A b \in Attempts :
            \/ consents'[b].state \in {"none", consents[b].state}
            \/ consents[b].state = "pending" /\ consents'[b].state = "expired"
            \/ b = a /\ consents'[b].state = "pending" /\ lifecycle' = lifecycle
    <2>1. \A b \in Attempts :
            \/ kept[b].state \in {"none", consents[b].state}
            \/ consents[b].state = "pending" /\ kept[b].state = "expired"
      BY DEF NoConsent, CurrentConsent, IInv, TypeOK, ConsentTypeOK, ConsentRecords
    <2>2. requestIds' \subseteq RequestIds
      BY <1>2, <1>9 DEF IInv, TypeOK, ConsentTypeOK
    <2>3. CASE consents' = kept
      BY <1>12, <2>1, <2>2, <2>3 DEF ConsentTypeOK
    <2>4. CASE lifecycle' = lifecycle /\ consents' = [kept EXCEPT ![a] = mine]
      <3> HIDE DEF kept
      <3>1. consents' \in [Attempts -> ConsentRecords]
        BY <1>2, <1>11, <1>12, <2>4
      <3>2. \A b \in Attempts : consents'[b] = IF b = a THEN mine ELSE kept[b]
        BY <1>2, <1>12, <2>4
      <3> QED
        BY <2>1, <2>2, <2>4, <3>1, <3>2 DEF ConsentTypeOK
    <2> QED
      BY <1>12, <2>3, <2>4
  <1>14. \A u \in Threads, b \in Attempts : Owns(u, b)' => b # a /\ Owns(u, b)
    <2>1. \A u \in Threads \ {t} : pc'[u] = pc[u] /\ cur'[u] = cur[u]
      BY <1>4
    <2>2. pc'[t] = "idle"
      BY <1>4 DEF IInv, TypeOK, ThreadTypeOK
    <2>3. \A u \in Threads, b \in Attempts : Owns(u, b)' => u # t /\ Owns(u, b)
      BY <2>1, <2>2 DEF Owns, Owning
    <2>4. \A u \in Threads \ {t} : ~Owns(u, a)
      BY <1>1, <1>2 DEF Owns, IInv, AllCustody, SoleOwner, BeforeGate
    <2> QED
      BY <2>3, <2>4
  <1>15. consents[a].state \notin {"pending", "expired"}
    BY <1>2 DEF IInv, AllCustody, ConsentCustody, Owns, BeforeGate
  <1>16. Untouched'
    BY <1>2, <1>3, <1>6, <1>13 DEF IInv, AllCustody, Untouched, Started
  <1>17. ConsentCustody'
    <2> SUFFICES ASSUME NEW b \in Attempts, consents'[b].state # "none"
                 PROVE  /\ Started(b)
                        /\ consents'[b].state \in {"pending", "expired"} =>
                              \A u \in Threads : ~Owns(u, b)'
                        /\ consents'[b].state = "pending" => lifecycle'[b] = "awaiting_approval"
                        /\ consents'[b].state = "expired" =>
                              lifecycle'[b] \in {"awaiting_approval", "denied"}
      BY <1>3 DEF ConsentCustody, Started
    <2>1. CASE b = a
      BY <1>2, <1>13, <1>14, <1>15, <2>1
    <2>2. CASE b # a
      BY <1>6, <1>13, <1>14, <2>2 DEF IInv, AllCustody, ConsentCustody
    <2> QED
      BY <2>1, <2>2
  <1> QED
    BY <1>3, <1>6, <1>7, <1>13, <1>16, <1>17
       DEF IInv, TypeOK, AllCustody, ApprovalsTypeOK, AttemptTypeOK, GateTypeOK, HistoryTypeOK

----------------------------------------------------------------------------
\* The signed decision

\* A thread that owns nothing may pick up or drop a reference, and mark an
\* overdue consent and deny the request that waits for it.
LEMMA BystanderStep ==
    ASSUME IInv, NEW t \in Threads, pc[t] \in {"idle", "get", "decide"},
           NEW step \in {"idle", "get", "decide"}, NEW c,
           pc' = [pc EXCEPT ![t] = step], cur' = [cur EXCEPT ![t] = c],
           step # "idle" => c \in Attempts /\ Started(c),
           \A b \in Attempts :
              \/ lifecycle'[b] = lifecycle[b]
              \/ /\ lifecycle[b] = "awaiting_approval" /\ lifecycle'[b] = "denied"
                 /\ consents[b].state \in {"pending", "expired"}
                 /\ consents'[b].state = "expired",
           \A b \in Attempts :
              \/ consents'[b].state = consents[b].state
              \/ consents[b].state = "pending" /\ consents'[b].state = "expired",
           UNCHANGED <<request, prepared, gateHolder, dispatches>>
    PROVE  AllCustody'
  <1>0. pc \in [Threads -> Steps] /\ cur \in [Threads -> Attempts \cup {Nothing}]
    BY DEF IInv, TypeOK, ThreadTypeOK
  <1>1. /\ \A u \in Threads \ {t} : pc'[u] = pc[u] /\ cur'[u] = cur[u]
        /\ pc'[t] = step /\ cur'[t] = c
        /\ pc[t] \notin Owning /\ step \notin Owning
    BY <1>0 DEF Owning
  <1>2. \A u \in Threads : pc'[u] \in Owning => u # t /\ pc'[u] = pc[u] /\ cur'[u] = cur[u]
    BY <1>1
  <1>3. \A u \in Threads, b \in Attempts : Owns(u, b)' => Owns(u, b)
    BY <1>1 DEF Owns
  <1>4. \A u \in Threads, b \in Attempts : Owns(u, b) => lifecycle'[b] = lifecycle[b]
    BY DEF IInv, AllCustody, ConsentCustody
  <1>5. Custody'
    <2> SUFFICES ASSUME NEW u \in Threads, pc'[u] # "idle"
                 PROVE  /\ cur'[u] \in Attempts
                        /\ request[cur'[u]] # Nothing
                        /\ pc'[u] # "decode" => Started(cur'[u])
                        /\ Placed(u)'
      BY DEF Custody, Started
    <2>1. CASE u = t
      BY <1>1, <2>1 DEF Started, Placed, BeforeGate, ExecuteSteps
    <2>2. CASE u # t
      <3>1. pc'[u] = pc[u] /\ cur'[u] = cur[u] /\ pc[u] # "idle" /\ cur[u] \in Attempts /\ Placed(u)
        BY <1>1, <2>2 DEF IInv, AllCustody, Custody
      <3>2. pc[u] \in Owning => lifecycle'[cur[u]] = lifecycle[cur[u]]
        BY <1>4, <3>1 DEF Owns
      <3>3. pc[u] = "deny" => lifecycle'[cur[u]] = lifecycle[cur[u]]
        BY <3>1 DEF Placed, Terminal
      <3>4. BeforeGate \subseteq Owning /\ ExecuteSteps \subseteq Owning
        BY DEF BeforeGate, Owning, Steps, ExecuteSteps
      <3>5. Placed(u)'
        BY <3>1, <3>2, <3>3, <3>4 DEF Placed
      <3> QED
        BY <3>1, <3>5 DEF IInv, AllCustody, Custody, Started
    <2> QED
      BY <2>1, <2>2
  <1>6. SoleOwner' /\ LateDenial'
    BY <1>1, <1>2 DEF IInv, AllCustody, SoleOwner, LateDenial, BeforeGate
  <1>7. Untouched'
    BY DEF IInv, AllCustody, Untouched
  <1>8. ConsentCustody'
    BY <1>3 DEF IInv, AllCustody, ConsentCustody, Started
  <1>9. GateCustody'
    <2>1. \A u \in Threads : gateHolder' = u <=> pc'[u] = "revalidate"
      BY <1>1 DEF IInv, AllCustody, GateCustody
    <2>2. ASSUME NEW r \in RequestIds, prepared[r].attempt # Nothing
          PROVE  /\ Started(prepared[r].attempt) /\ Rid(prepared[r].attempt) = r
                 /\ lifecycle'[prepared[r].attempt] \in {"prepared", "executing"} \cup Terminal
                 /\ \A u \in Threads : Owns(u, prepared[r].attempt)' => pc'[u] \in ExecuteSteps
      <3> DEFINE a == prepared[r].attempt
      <3>1. a \in Attempts
        BY <2>2 DEF IInv, TypeOK, GateTypeOK, GateRecords, Empty
      <3>2. /\ Started(a) /\ Rid(a) = r
            /\ lifecycle[a] \in {"prepared", "executing"} \cup Terminal
            /\ \A u \in Threads : Owns(u, a) => pc[u] \in ExecuteSteps
        BY <2>2 DEF IInv, AllCustody, GateCustody
      <3>3. lifecycle'[a] \in {"prepared", "executing"} \cup Terminal
        BY <3>1, <3>2 DEF Terminal
      <3>4. ASSUME NEW u \in Threads, Owns(u, a)' PROVE pc'[u] \in ExecuteSteps
        BY <1>2, <1>3, <3>1, <3>2, <3>4 DEF Owns
      <3> QED
        BY <3>2, <3>3, <3>4
    <2> QED
      BY <2>1, <2>2 DEF GateCustody, Started, Rid
  <1>10. DispatchCustody'
    <2>1. \A b \in Attempts : lifecycle[b] \in {"executing"} \cup Terminal => lifecycle'[b] = lifecycle[b]
      BY DEF Terminal
    <2> QED
      BY <1>1, <2>1 DEF IInv, AllCustody, DispatchCustody
  <1> QED
    BY <1>5, <1>6, <1>7, <1>8, <1>9, <1>10 DEF AllCustody

LEMMA ReceiveDecisionInv ==
    ASSUME IInv, ReceiveDecision
    PROVE  IInv'
  <1> PICK a \in Recorded : Begin(Consenter, "get", a, Nothing)
    BY DEF ReceiveDecision
  <1>1. /\ Consenter \in Threads /\ pc[Consenter] = "idle" /\ a \in Attempts /\ Started(a)
    BY RuntimeAssumption DEF ReceiveDecision, At, Recorded, IInv, AllCustody, ConsentCustody
  <1>2. UNCHANGED <<envVars, approvals, consentVars, gateVars, attemptVars, history>>
    BY DEF ReceiveDecision
  <1>3. AllCustody'
    BY <1>1, <1>2, BystanderStep DEF Begin
  <1>4. ThreadTypeOK'
    BY <1>1 DEF Begin, IInv, TypeOK, ThreadTypeOK, ApprovalsTypeOK, Steps, ConsentSteps
  <1> QED
    BY <1>2, <1>3, <1>4
       DEF IInv, TypeOK, ApprovalsTypeOK, AttemptTypeOK, ConsentTypeOK, GateTypeOK, HistoryTypeOK

\* A lookup that finds the record pending, overdue, decided or gone.
LEMMA LookupInv ==
    ASSUME IInv, NEW t \in Threads, pc[t] \in {"get", "decide"},
           \/ /\ FindPending(cur[t], stamp[t]) /\ UNCHANGED lifecycle
              /\ GoStamped(t, "decide") \/ Done(t)
           \/ NotPending(cur[t], stamp[t]) /\ Done(t)
           \/ UNCHANGED <<consents, lifecycle>> /\ Done(t),
           UNCHANGED <<clock, world, approvals, requestIds, prepared, gateHolder,
                       request, bound, approvalOf, signed, dispatches>>
    PROVE  IInv'
  <1> DEFINE a   == cur[t]
             now == stamp[t]
  <1>1. a \in Attempts /\ Started(a) /\ now \in Nat
    BY DEF IInv, AllCustody, Custody, TypeOK, ThreadTypeOK
  <1>2. \/ UNCHANGED <<consents, lifecycle>>
        \/ /\ consents' = [consents EXCEPT ![a] = CurrentConsent(a, now)]
           /\ \/ UNCHANGED lifecycle
              \/ /\ CurrentConsent(a, now).state = "expired"
                 /\ lifecycle[a] = "awaiting_approval"
                 /\ lifecycle' = [lifecycle EXCEPT ![a] = "denied"]
    BY DEF FindPending, NotPending, Transition
  <1>3. CurrentConsent(a, now) \in ConsentRecords
    BY <1>1, CurrentConsentType DEF IInv, TypeOK
  <1>4. ConsentTypeOK' /\ lifecycle' \in [Attempts -> RequestStates]
    BY <1>1, <1>2, <1>3 DEF IInv, TypeOK, ConsentTypeOK, AttemptTypeOK, RequestStates
  <1>5. \A b \in Attempts :
           \/ consents'[b].state = consents[b].state
           \/ consents[b].state = "pending" /\ consents'[b].state = "expired"
    BY <1>1, <1>2 DEF CurrentConsent, IInv, TypeOK, ConsentTypeOK, ConsentRecords
  <1>6. \A b \in Attempts :
           \/ lifecycle'[b] = lifecycle[b]
           \/ /\ lifecycle[b] = "awaiting_approval" /\ lifecycle'[b] = "denied"
              /\ consents[b].state \in {"pending", "expired"}
              /\ consents'[b].state = "expired"
    BY <1>1, <1>2 DEF CurrentConsent, IInv, TypeOK, ConsentTypeOK, ConsentRecords, AttemptTypeOK
  <1>7. PICK step \in {"idle", "decide"}, c \in {a, Nothing} :
           /\ pc' = [pc EXCEPT ![t] = step] /\ cur' = [cur EXCEPT ![t] = c]
           /\ step # "idle" => c = a
    <2>1. cur = [cur EXCEPT ![t] = a]
      BY DEF IInv, TypeOK, ThreadTypeOK
    <2> QED
      BY <2>1 DEF GoStamped, Done
  <1>8. AllCustody'
    BY <1>1, <1>5, <1>6, <1>7, BystanderStep
  <1>9. ThreadTypeOK'
    BY <1>1, <1>7 DEF GoStamped, Done, IInv, TypeOK, ThreadTypeOK, ApprovalsTypeOK, Steps, ConsentSteps
  <1> QED
    BY <1>4, <1>8, <1>9
       DEF IInv, TypeOK, ApprovalsTypeOK, AttemptTypeOK, GateTypeOK, HistoryTypeOK

\* A signed decision makes its thread the owner of the request that waited.
LEMMA DecideConsentInv ==
    ASSUME IInv, NEW t \in Threads, LookupConsent(t) \/ DecideConsent(t)
    PROVE  IInv'
  <1> DEFINE a == cur[t]
  <1>1. pc[t] \in {"get", "decide"}
    BY DEF LookupConsent, DecideConsent, At
  <1>2. UNCHANGED <<clock, world, approvals, requestIds, prepared, gateHolder,
                    request, bound, approvalOf, dispatches>>
    BY DEF LookupConsent, DecideConsent
  <1>3. ASSUME NEW decision \in {"approve", "reject"}, DecideConsent(t),
               Decide(a, decision, stamp[t]),
               signed' = [signed EXCEPT ![a] = decision],
               Go(t, IF decision = "approve" THEN "issue" ELSE "reject"),
               UNCHANGED lifecycle
        PROVE  IInv'
    <2> DEFINE step    == IF decision = "approve" THEN "issue" ELSE "reject"
               outcome == IF decision = "approve" THEN "approved" ELSE "rejected"
    <2>1. a \in Attempts /\ Started(a)
      BY <1>1 DEF IInv, AllCustody, Custody
    <2>2. consents[a].state = "pending"
      BY <1>3, <2>1 DEF Decide, IsPending, CurrentConsent, IInv, TypeOK, ConsentTypeOK,
                        ConsentRecords
    <2>3. consents' = [consents EXCEPT ![a].state = outcome]
      BY <1>3 DEF Decide
    <2>4. ConsentTypeOK'
      BY <1>2, <2>1, <2>3 DEF IInv, TypeOK, ConsentTypeOK, ConsentRecords, ConsentStates
    <2>5. \A b \in Attempts : consents'[b].state = IF b = a THEN outcome ELSE consents[b].state
      BY <2>1, <2>3 DEF IInv, TypeOK, ConsentTypeOK, ConsentRecords
    <2>6. /\ pc' = [pc EXCEPT ![t] = step] /\ cur' = cur
          /\ handling' = handling /\ stamp' = stamp
      BY <1>3 DEF Go
    <2>7. /\ ThreadTypeOK' /\ HistoryTypeOK'
      BY <1>2, <1>3, <2>6 DEF IInv, TypeOK, ThreadTypeOK, HistoryTypeOK, Steps, ConsentSteps
    <2>8. /\ pc'[t] = step /\ step \in Owning /\ StateAt(step) = "awaiting_approval"
          /\ step # "idle" /\ step # "decode" /\ step \notin ExecuteSteps
          /\ \A u \in Threads \ {t} : pc'[u] = pc[u]
      BY <2>6 DEF IInv, TypeOK, ThreadTypeOK, Owning, Steps, ConsentSteps, ExecuteSteps, StateAt
    <2>9. /\ lifecycle[a] = "awaiting_approval"
          /\ \A u \in Threads : ~Owns(u, a)
          /\ \A u \in Threads : pc[u] = "deny" => cur[u] # a
      BY <2>1, <2>2 DEF IInv, AllCustody, ConsentCustody, Custody, Placed, Terminal
    <2>10. Custody'
      <3>1. \A u \in Threads : Placed(u)' <=> IF u = t THEN TRUE ELSE Placed(u)
        BY <1>3, <2>6, <2>8, <2>9 DEF Placed, BeforeGate
      <3> QED
        BY <1>2, <1>3, <2>1, <2>6, <2>8, <2>9, <3>1 DEF IInv, AllCustody, Custody, Started
    <2>11. SoleOwner' /\ LateDenial'
      <3>1. SoleOwner'
        BY <2>6, <2>8, <2>9 DEF IInv, AllCustody, SoleOwner, Owns
      <3>2. LateDenial'
        BY <2>6, <2>8, <2>9 DEF IInv, AllCustody, LateDenial, Owning
      <3> QED
        BY <3>1, <3>2
    <2>12. Untouched'
      BY <1>2, <1>3, <2>1, <2>5 DEF IInv, AllCustody, Untouched, Started
    <2>13. ConsentCustody'
      BY <1>2, <1>3, <2>1, <2>2, <2>5, <2>6, <2>8 DEF IInv, AllCustody, ConsentCustody, Started, Owns
    <2>14. GateCustody'
      <3>1. \A u \in Threads : gateHolder' = u <=> pc'[u] = "revalidate"
        BY <1>1, <1>2, <2>8 DEF IInv, AllCustody, GateCustody, ExecuteSteps
      <3>2. ASSUME NEW r \in RequestIds, prepared[r].attempt # Nothing
            PROVE  /\ prepared[r].attempt # a
                   /\ \A u \in Threads : Owns(u, prepared[r].attempt)' => pc'[u] \in ExecuteSteps
        <4>1. prepared[r].attempt # a
          BY <2>9, <3>2 DEF IInv, AllCustody, GateCustody, Terminal
        <4> QED
          BY <1>2, <2>6, <2>8, <3>2, <4>1 DEF IInv, AllCustody, GateCustody, Owns
      <3> QED
        BY <1>2, <1>3, <3>1, <3>2 DEF IInv, AllCustody, GateCustody, Started, Rid
    <2>15. DispatchCustody'
      BY <1>2, <1>3, <2>6, <2>8 DEF IInv, AllCustody, DispatchCustody, ExecuteSteps
    <2> QED
      BY <1>2, <1>3, <2>4, <2>7, <2>10, <2>11, <2>12, <2>13, <2>14, <2>15
         DEF IInv, TypeOK, AllCustody, ApprovalsTypeOK, AttemptTypeOK, GateTypeOK
  <1>4. CASE LookupConsent(t)
    BY <1>1, <1>2, <1>4, LookupInv DEF LookupConsent
  <1>5. CASE DecideConsent(t)
    BY <1>1, <1>2, <1>3, <1>5, LookupInv DEF DecideConsent
  <1> QED
    BY <1>4, <1>5

----------------------------------------------------------------------------
\* The calls that start on the normal socket

\* A fresh attempt appears nowhere, so nobody else can hold it.
LEMMA ReceiveInv ==
    ASSUME IInv, NEW t \in Workers, Receive(t)
    PROVE  IInv'
  <1> USE DEF RequestStates
  <1>0. t \in Threads /\ pc[t] = "idle"
    BY RuntimeAssumption DEF Receive, At
  <1>1. PICK e \in Inbox[t], a \in Attempts :
           /\ request[a] = Nothing
           /\ request' = [request EXCEPT ![a] = e]
           /\ \/ Transition(a, "authenticated") /\ Begin(t, "decode", a, Nothing)
              \/ Transition(a, "denied") /\ UNCHANGED threadVars
    BY DEF Receive
  <1>2. UNCHANGED <<envVars, approvals, consentVars, gateVars, bound, approvalOf, history>>
    BY DEF Receive
  <1>3. e \in Envelopes /\ e # Nothing
    BY <1>1, RuntimeAssumption, AttemptAssumption
  <1>4. /\ request' \in [Attempts -> Envelopes \cup {Nothing}]
        /\ \A b \in Attempts : request'[b] = IF b = a THEN e ELSE request[b]
    BY <1>1, <1>3 DEF IInv, TypeOK, AttemptTypeOK
  <1>5. PICK s \in {"authenticated", "denied"} :
           /\ lifecycle' = [lifecycle EXCEPT ![a] = s]
           /\ \/ Begin(t, "decode", a, Nothing) /\ s = "authenticated"
              \/ UNCHANGED threadVars
    BY <1>1 DEF Transition
  <1>6. /\ lifecycle' \in [Attempts -> RequestStates]
        /\ \A b \in Attempts : lifecycle'[b] = IF b = a THEN s ELSE lifecycle[b]
    BY <1>5 DEF IInv, TypeOK, AttemptTypeOK
  <1>7. ThreadTypeOK'
    BY <1>0, <1>5 DEF Begin, IInv, TypeOK, ThreadTypeOK, ApprovalsTypeOK, Steps, PrepareSteps
  <1>8. /\ lifecycle[a] = "received" /\ consents[a].state = "none"
        /\ \A u \in Threads : pc[u] # "idle" => cur[u] # a
        /\ \A r \in RequestIds : prepared[r].attempt # a
    BY <1>1, AttemptAssumption
       DEF IInv, AllCustody, Custody, Untouched, GateCustody, Started
  <1>9. \A u \in Threads : \/ pc'[u] = pc[u] /\ cur'[u] = cur[u]
                           \/ u = t /\ pc'[u] = "decode" /\ cur'[u] = a /\ s = "authenticated"
    BY <1>0, <1>5 DEF Begin, IInv, TypeOK, ThreadTypeOK
  <1>10. Custody'
    <2> SUFFICES ASSUME NEW u \in Threads, pc'[u] # "idle"
                 PROVE  /\ cur'[u] \in Attempts
                        /\ request'[cur'[u]] # Nothing
                        /\ pc'[u] # "decode" => request'[cur'[u]] # Nothing /\ Accepted(request'[cur'[u]])
                        /\ Placed(u)'
      BY DEF Custody, Started, Accepted
    <2>1. CASE pc'[u] = pc[u] /\ cur'[u] = cur[u]
      <3>1. pc[u] # "idle" /\ cur[u] \in Attempts \ {a} /\ Placed(u)
        BY <1>8, <2>1 DEF IInv, AllCustody, Custody
      <3>2. Placed(u)'
        BY <1>6, <2>1, <3>1 DEF Placed
      <3> QED
        BY <1>4, <1>6, <1>8, <2>1, <3>1, <3>2 DEF IInv, AllCustody, Custody, Started
    <2>2. CASE pc'[u] = "decode" /\ cur'[u] = a /\ s = "authenticated"
      <3>1. Placed(u)'
        BY <1>6, <2>2 DEF Placed, StateAt, ExecuteSteps
      <3> QED
        BY <1>3, <1>4, <1>6, <2>2, <3>1
    <2> QED
      BY <1>9, <2>1, <2>2
  <1>11. SoleOwner' /\ LateDenial'
    BY <1>8, <1>9 DEF IInv, AllCustody, SoleOwner, LateDenial, Owning, BeforeGate
  <1>12. Untouched'
    BY <1>2, <1>3, <1>4, <1>6 DEF IInv, AllCustody, Untouched
  <1>13. \A b \in Attempts \ {a} : Started(b)' <=> Started(b)
    BY <1>4 DEF Started, Accepted
  <1>14. \A b \in Attempts \ {a}, u \in Threads : Owns(u, b)' => Owns(u, b) /\ pc'[u] = pc[u]
    BY <1>9 DEF Owns
  <1>15. ConsentCustody'
    BY <1>2, <1>6, <1>8, <1>13, <1>14 DEF IInv, AllCustody, ConsentCustody
  <1>16. GateCustody'
    <2>1. \A u \in Threads : gateHolder' = u <=> pc'[u] = "revalidate"
      BY <1>0, <1>2, <1>9 DEF IInv, AllCustody, GateCustody
    <2>2. ASSUME NEW r \in RequestIds, prepared[r].attempt # Nothing
          PROVE  /\ prepared[r].attempt \in Attempts \ {a}
                 /\ request'[prepared[r].attempt] = request[prepared[r].attempt]
                 /\ lifecycle'[prepared[r].attempt] = lifecycle[prepared[r].attempt]
      BY <1>4, <1>6, <1>8, <2>2 DEF IInv, TypeOK, GateTypeOK, GateRecords, Empty
    <2> QED
      BY <1>2, <1>13, <1>14, <2>1, <2>2 DEF IInv, AllCustody, GateCustody, Rid
  <1>17. DispatchCustody'
    <2>1. dispatches[a] = 0
      BY <1>8 DEF IInv, AllCustody, DispatchCustody, TypeOK, HistoryTypeOK, Terminal
    <2> QED
      BY <1>2, <1>6, <1>8, <1>9, <2>1 DEF IInv, AllCustody, DispatchCustody
  <1> QED
    BY <1>2, <1>4, <1>6, <1>7, <1>10, <1>11, <1>12, <1>15, <1>16, <1>17
       DEF IInv, TypeOK, AllCustody, ApprovalsTypeOK, AttemptTypeOK, ConsentTypeOK, GateTypeOK,
           HistoryTypeOK

\* A prepared record nobody holds: its owners are in execution, a runner's
\* request is executing, and a revalidation would hold the lock.
LEMMA AdmitInv ==
    ASSUME IInv, NEW t \in Workers, Admit(t)
    PROVE  IInv'
  <1> USE DEF RequestStates
  <1>0. t \in Threads /\ pc[t] = "idle" /\ gateHolder = Nothing /\ t # Nothing
    BY RuntimeAssumption, GateAssumption DEF Admit, At
  <1>1. PICK e \in Inbox[t] :
           LET a == prepared[e.rid].attempt IN
           /\ prepared[e.rid] # Empty /\ lifecycle[a] = "prepared" /\ Accepted(e)
           /\ \/ Begin(t, "revalidate", a, e.content) /\ gateHolder' = t /\ UNCHANGED lifecycle
              \/ Transition(a, "denied") /\ UNCHANGED <<threadVars, gateHolder>>
    BY DEF Admit
  <1>2. UNCHANGED <<envVars, approvals, consentVars, prepared, request, bound, approvalOf, history>>
    BY DEF Admit
  <1> DEFINE a == prepared[e.rid].attempt
  <1>3. e \in Envelopes /\ e.rid \in RequestIds /\ e.content \in Requests
    BY <1>1, RuntimeAssumption, AttemptAssumption DEF Accepted
  <1>4. a \in Attempts
    BY <1>1, <1>3 DEF IInv, TypeOK, GateTypeOK, GateRecords
  <1>5. /\ Started(a) /\ Rid(a) = e.rid
        /\ \A u \in Threads : ~Owns(u, a)
    <2>1. a # Nothing
      BY <1>4, AttemptAssumption
    <2>2. ASSUME NEW u \in Threads, Owns(u, a) PROVE FALSE
      <3>1. pc[u] \in ExecuteSteps
        BY <1>3, <2>1, <2>2 DEF IInv, AllCustody, GateCustody
      <3>2. StateAt(pc[u]) = "prepared"
        BY <1>1, <2>2, <3>1 DEF Owns, Owning, IInv, AllCustody, Custody, Placed
      <3>3. pc[u] = "revalidate"
        BY <3>1, <3>2 DEF ExecuteSteps, StateAt
      <3> QED
        BY <1>0, <3>3, GateAssumption DEF IInv, AllCustody, GateCustody
    <2> QED
      BY <1>3, <2>1, <2>2 DEF IInv, AllCustody, GateCustody
  <1>6. lifecycle[a] = "prepared" /\ consents[a].state \notin {"pending", "expired"}
    BY <1>1, <1>4 DEF IInv, AllCustody, ConsentCustody
  <1>7. CASE Begin(t, "revalidate", a, e.content) /\ gateHolder' = t /\ UNCHANGED lifecycle
    <2>1. ThreadTypeOK'
      BY <1>0, <1>3, <1>4, <1>7
         DEF Begin, IInv, TypeOK, ThreadTypeOK, ApprovalsTypeOK, Steps, ExecuteSteps
    <2>2. /\ \A u \in Threads \ {t} : pc'[u] = pc[u] /\ cur'[u] = cur[u]
          /\ pc'[t] = "revalidate" /\ cur'[t] = a
      BY <1>0, <1>7 DEF Begin, IInv, TypeOK, ThreadTypeOK
    <2>3. /\ "revalidate" \in Owning \cap ExecuteSteps /\ StateAt("revalidate") = "prepared"
          /\ pc[t] \notin Owning /\ "revalidate" \notin BeforeGate
      BY <1>0 DEF Owning, Steps, ExecuteSteps, StateAt, BeforeGate
    <2>4. Custody'
      <3>1. \A u \in Threads : Placed(u)' <=> IF u = t THEN TRUE ELSE Placed(u)
        BY <1>6, <1>7, <2>2, <2>3 DEF Placed
      <3> QED
        BY <1>2, <1>4, <1>5, <1>6, <1>7, <2>2, <2>3, <3>1 DEF IInv, AllCustody, Custody, Started
    <2>5. SoleOwner' /\ LateDenial'
      <3>1. SoleOwner'
        BY <1>5, <2>2 DEF IInv, AllCustody, SoleOwner, Owns
      <3>2. LateDenial'
        BY <2>2, <2>3 DEF IInv, AllCustody, LateDenial
      <3> QED
        BY <3>1, <3>2
    <2>6. Untouched'
      BY <1>2, <1>7 DEF IInv, AllCustody, Untouched
    <2>7. ConsentCustody'
      <3> QED
        BY <1>2, <1>6, <1>7, <2>2 DEF IInv, AllCustody, ConsentCustody, Started, Owns
    <2>8. GateCustody'
      <3>1. \A u \in Threads : gateHolder' = u <=> pc'[u] = "revalidate"
        BY <1>0, <1>7, <2>2, GateAssumption DEF IInv, AllCustody, GateCustody
      <3>2. \A r \in RequestIds, u \in Threads :
               prepared[r].attempt # Nothing /\ Owns(u, prepared[r].attempt)' => pc'[u] \in ExecuteSteps
        BY <1>2, <2>2, <2>3 DEF IInv, AllCustody, GateCustody, Owns
      <3> QED
        BY <1>2, <1>7, <3>1, <3>2 DEF IInv, AllCustody, GateCustody, Started, Rid
    <2>9. DispatchCustody'
      BY <1>2, <1>7, <2>2 DEF IInv, AllCustody, DispatchCustody
    <2> QED
      BY <1>0, <1>2, <1>7, <2>1, <2>4, <2>5, <2>6, <2>7, <2>8, <2>9
         DEF IInv, TypeOK, AllCustody, ApprovalsTypeOK, AttemptTypeOK, ConsentTypeOK,
             GateTypeOK, HistoryTypeOK
  <1>8. CASE Transition(a, "denied") /\ UNCHANGED <<threadVars, gateHolder>>
    <2>1. lifecycle' = [lifecycle EXCEPT ![a] = "denied"]
      BY <1>8 DEF Transition
    <2>2. /\ lifecycle' \in [Attempts -> RequestStates]
          /\ \A b \in Attempts : lifecycle'[b] = IF b = a THEN "denied" ELSE lifecycle[b]
      BY <1>4, <2>1 DEF IInv, TypeOK, AttemptTypeOK
    <2>3. Custody' /\ SoleOwner' /\ LateDenial'
      <3>1. SoleOwner' /\ LateDenial'
        BY <1>8 DEF IInv, AllCustody, SoleOwner, LateDenial
      <3>2. ASSUME NEW u \in Threads, pc[u] # "idle" PROVE Placed(u)'
        <4>1. Placed(u) /\ cur[u] \in Attempts
          BY <3>2 DEF IInv, AllCustody, Custody
        <4>2. BeforeGate \subseteq Owning /\ ExecuteSteps \subseteq Owning
          BY DEF BeforeGate, Owning, Steps, ExecuteSteps
        <4>3. pc[u] \in Owning => cur[u] # a
          BY <1>5 DEF Owns
        <4> QED
          BY <1>8, <2>2, <4>1, <4>2, <4>3 DEF Placed, Terminal
      <3>3. Custody'
        BY <1>2, <1>8, <3>2 DEF IInv, AllCustody, Custody, Started
      <3> QED
        BY <3>1, <3>3
    <2>4. Untouched'
      BY <1>2, <1>5, <2>2 DEF IInv, AllCustody, Untouched, Started
    <2>5. ConsentCustody'
      BY <1>2, <1>6, <1>8, <2>2 DEF IInv, AllCustody, ConsentCustody, Started, Owns
    <2>6. GateCustody'
      <3>1. \A r \in RequestIds : prepared[r].attempt # Nothing =>
               lifecycle'[prepared[r].attempt] \in {"prepared", "executing"} \cup Terminal
        BY <2>2 DEF Terminal, IInv, TypeOK, GateTypeOK, GateRecords, Empty, AllCustody, GateCustody
      <3> QED
        BY <1>2, <1>8, <3>1 DEF IInv, AllCustody, GateCustody, Started, Rid, Owns
    <2>7. DispatchCustody'
      BY <1>2, <1>8, <2>2 DEF IInv, AllCustody, DispatchCustody, Terminal
    <2> QED
      BY <1>2, <1>8, <2>2, <2>3, <2>4, <2>5, <2>6, <2>7
         DEF IInv, TypeOK, AllCustody, ApprovalsTypeOK, AttemptTypeOK, ConsentTypeOK,
             GateTypeOK, ThreadTypeOK, HistoryTypeOK
  <1> QED
    BY <1>1, <1>7, <1>8

----------------------------------------------------------------------------
\* Execution

\* From revalidation to the end the lifecycle of the attempt only moves from
\* prepared to executing and on to a terminal state, and the call to Hermes is
\* made once, by the step that leaves "run".
LEMMA ExecutionStep ==
    ASSUME IInv, NEW t \in Threads, pc[t] \in ExecuteSteps,
           NEW step \in {"run", "ran", "unrun", "idle"}, NEW s \in {"executing"} \cup Terminal,
           pc' = [pc EXCEPT ![t] = step],
           cur' = IF step = "idle" THEN [cur EXCEPT ![t] = Nothing] ELSE cur,
           lifecycle' = [lifecycle EXCEPT ![cur[t]] = s],
           step # "idle" => s = "executing" \/ (AuditMayFail /\ s = "denied"),
           step = "run" => pc[t] = "revalidate" /\ lifecycle[cur[t]] = "prepared",
           gateHolder' = IF pc[t] = "revalidate" THEN Nothing ELSE gateHolder,
           \/ UNCHANGED dispatches
           \/ pc[t] = "run" /\ dispatches' = [dispatches EXCEPT ![cur[t]] = @ + 1],
           UNCHANGED <<request, consents, prepared, signed>>
    PROVE  AllCustody' /\ lifecycle' \in [Attempts -> RequestStates] /\ HistoryTypeOK'
  <1>0. /\ pc \in [Threads -> Steps] /\ cur \in [Threads -> Attempts \cup {Nothing}]
        /\ pc[t] \in Owning /\ cur[t] \in Attempts /\ Started(cur[t])
        /\ t # Nothing
        /\ BeforeGate \subseteq Owning /\ ExecuteSteps \subseteq Owning
    <2>1. /\ pc[t] \in Owning /\ pc[t] \notin {"idle", "decode"}
          /\ BeforeGate \subseteq Owning /\ ExecuteSteps \subseteq Owning
      BY DEF Owning, Steps, ExecuteSteps, BeforeGate
    <2> QED
      BY <2>1, GateAssumption DEF IInv, TypeOK, ThreadTypeOK, AllCustody, Custody
  <1>1. /\ \A u \in Threads \ {t} : pc'[u] = pc[u] /\ cur'[u] = cur[u]
        /\ pc'[t] = step /\ (step # "idle" => cur'[t] = cur[t])
    BY <1>0
  <1>2. /\ lifecycle' \in [Attempts -> RequestStates]
        /\ \A a \in Attempts : lifecycle'[a] = IF a = cur[t] THEN s ELSE lifecycle[a]
    BY <1>0 DEF IInv, TypeOK, AttemptTypeOK, RequestStates, Terminal
  <1>3. \A u \in Threads \ {t} : ~Owns(u, cur[t])
    BY <1>0 DEF IInv, AllCustody, SoleOwner, Owns
  <1>4. \A u \in Threads, a \in Attempts :
           Owns(u, a)' => Owns(u, a) /\ (u = t => pc'[u] \in ExecuteSteps)
    BY <1>0, <1>1 DEF Owns, Owning, ExecuteSteps
  <1>5. Custody'
    <2> SUFFICES ASSUME NEW u \in Threads, pc'[u] # "idle"
                 PROVE  /\ cur'[u] \in Attempts
                        /\ request[cur'[u]] # Nothing
                        /\ pc'[u] # "decode" => Started(cur'[u])
                        /\ Placed(u)'
      BY DEF Custody, Started
    <2>1. CASE u = t
      <3>1. pc'[u] = step /\ step \in {"run", "ran", "unrun"} /\ cur'[u] = cur[t] /\ lifecycle'[cur[t]] = s
        BY <1>0, <1>1, <1>2, <2>1
      <3>2. step \notin BeforeGate /\ step # "deny" /\ StateAt(step) = "executing"
        BY <3>1 DEF BeforeGate, ExecuteSteps, StateAt
      <3>3. Placed(u)'
        BY <3>1, <3>2 DEF Placed
      <3> QED
        BY <1>0, <1>1, <1>2, <2>1, <3>1, <3>3 DEF Started
    <2>2. CASE u # t
      <3>1. pc'[u] = pc[u] /\ cur'[u] = cur[u] /\ pc[u] # "idle" /\ cur[u] \in Attempts /\ Placed(u)
        BY <1>1, <2>2 DEF IInv, AllCustody, Custody
      <3>2. pc[u] \in Owning => lifecycle'[cur[u]] = lifecycle[cur[u]]
        BY <1>2, <1>3, <2>2, <3>1 DEF Owns
      <3>3. Placed(u)'
        BY <1>0, <1>2, <3>1, <3>2 DEF Placed
      <3> QED
        BY <1>1, <2>2, <3>3 DEF IInv, AllCustody, Custody, Started
    <2> QED
      BY <2>1, <2>2
  <1>6. SoleOwner'
    <2> SUFFICES ASSUME NEW u \in Threads, NEW v \in Threads, pc'[u] \in Owning,
                        pc'[v] \in Owning, cur'[u] = cur'[v]
                 PROVE  u = v
      BY DEF SoleOwner
    <2>1. cur'[u] \in Attempts
      BY <1>5 DEF Custody, Owning
    <2> QED
      BY <1>4, <2>1 DEF IInv, AllCustody, SoleOwner, Owns
  <1>6a. LateDenial'
    <2>1. step \notin BeforeGate \cup {"deny"}
      BY DEF BeforeGate, Owning, ExecuteSteps
    <2> QED
      BY <1>1, <2>1 DEF IInv, AllCustody, LateDenial
  <1>7. Untouched'
    BY <1>0, <1>2 DEF IInv, AllCustody, Untouched, Started
  <1>8. ConsentCustody'
    BY <1>0, <1>2, <1>4 DEF IInv, AllCustody, ConsentCustody, Started, Owns
  <1>9. GateCustody'
    <2>1. \A u \in Threads : gateHolder' = u <=> pc'[u] = "revalidate"
      BY <1>0, <1>1, GateAssumption DEF IInv, AllCustody, GateCustody
    <2>2. ASSUME NEW r \in RequestIds, prepared[r].attempt # Nothing
          PROVE  /\ Started(prepared[r].attempt) /\ Rid(prepared[r].attempt) = r
                 /\ lifecycle'[prepared[r].attempt] \in {"prepared", "executing"} \cup Terminal
                 /\ \A u \in Threads : Owns(u, prepared[r].attempt)' => pc'[u] \in ExecuteSteps
      <3> DEFINE a == prepared[r].attempt
      <3>1. a \in Attempts
        BY <2>2 DEF IInv, TypeOK, GateTypeOK, GateRecords, Empty
      <3>2. /\ Started(a) /\ Rid(a) = r
            /\ lifecycle[a] \in {"prepared", "executing"} \cup Terminal
            /\ \A u \in Threads : Owns(u, a) => pc[u] \in ExecuteSteps
        BY <2>2 DEF IInv, AllCustody, GateCustody
      <3>3. ASSUME NEW u \in Threads, Owns(u, a)' PROVE pc'[u] \in ExecuteSteps
        <4>1. Owns(u, a) /\ (u = t => pc'[u] \in ExecuteSteps)
          BY <1>4, <3>1, <3>3
        <4> QED
          BY <1>1, <3>2, <4>1
      <3> QED
        BY <1>2, <3>1, <3>2, <3>3
    <2> QED
      BY <2>1, <2>2 DEF GateCustody, Started, Rid
  <1>10. HistoryTypeOK' /\ DispatchCustody'
    <2>1. \A u \in Threads, a \in Attempts : pc'[u] = "run" /\ cur'[u] = a =>
             dispatches[a] = 0 /\ (u = t => pc[t] = "revalidate")
      <3> SUFFICES ASSUME NEW u \in Threads, NEW a \in Attempts, pc'[u] = "run", cur'[u] = a
                   PROVE  dispatches[a] = 0 /\ (u = t => pc[t] = "revalidate")
        OBVIOUS
      <3>1. CASE u = t
        BY <1>0, <1>1, <3>1 DEF IInv, AllCustody, DispatchCustody, TypeOK, HistoryTypeOK, Terminal
      <3>2. CASE u # t
        BY <1>1, <3>2 DEF IInv, AllCustody, DispatchCustody
      <3> QED
        BY <3>1, <3>2
    <2>2. \A a \in Attempts :
             dispatches[a] > 0 => lifecycle'[a] \in {"executing"} \cup Terminal
      BY <1>2 DEF IInv, AllCustody, DispatchCustody
    <2>3. CASE UNCHANGED dispatches
      BY <2>1, <2>2, <2>3 DEF IInv, AllCustody, DispatchCustody, TypeOK, HistoryTypeOK
    <2>4. CASE pc[t] = "run" /\ dispatches' = [dispatches EXCEPT ![cur[t]] = @ + 1]
      <3>1. dispatches[cur[t]] = 0
        BY <1>0, <2>4 DEF IInv, AllCustody, DispatchCustody
      <3>2. /\ dispatches' \in [Attempts -> Nat] /\ dispatches'[cur[t]] = 1
            /\ \A a \in Attempts \ {cur[t]} : dispatches'[a] = dispatches[a]
        BY <1>0, <2>4, <3>1 DEF IInv, TypeOK, HistoryTypeOK
      <3>3. \A u \in Threads, a \in Attempts : pc'[u] = "run" /\ cur'[u] = a => a # cur[t]
        <4> SUFFICES ASSUME NEW u \in Threads, pc'[u] = "run", cur'[u] = cur[t]
                     PROVE  FALSE
          OBVIOUS
        <4>1. u # t
          BY <1>0, <2>1, <2>4
        <4> QED
          BY <1>1, <1>3, <4>1 DEF Owns, Owning, Steps, ExecuteSteps
      <3>4. lifecycle'[cur[t]] \in {"executing"} \cup Terminal
        BY <1>0, <1>2
      <3>5. DispatchCustody'
        BY <1>0, <2>1, <2>2, <3>2, <3>3, <3>4 DEF IInv, AllCustody, DispatchCustody
      <3> QED
        BY <3>2, <3>5, <1>0 DEF IInv, TypeOK, HistoryTypeOK
    <2> QED
      BY <2>3, <2>4
  <1> QED
    BY <1>2, <1>5, <1>6, <1>6a, <1>7, <1>8, <1>9, <1>10 DEF AllCustody

LEMMA ExecutionInv ==
    ASSUME IInv, NEW t \in Threads, Revalidate(t) \/ Run(t) \/ Complete(t)
    PROVE  IInv'
  <1> USE DEF RequestStates, Terminal
  <1>1. pc[t] \in ExecuteSteps
    BY DEF Revalidate, Run, Complete, At, ExecuteSteps
  <1>2. /\ UNCHANGED <<envVars, approvals, consentVars, prepared, request, bound, approvalOf>>
        /\ signed' = signed
    BY DEF Revalidate, Run, Complete
  <1>3. /\ gateHolder' = IF pc[t] = "revalidate" THEN Nothing ELSE gateHolder
        /\ \/ UNCHANGED dispatches
           \/ pc[t] = "run" /\ dispatches' = [dispatches EXCEPT ![cur[t]] = @ + 1]
    BY DEF Revalidate, Run, Complete, At
  <1>4. PICK step \in {"run", "ran", "unrun", "idle"}, s \in {"executing"} \cup Terminal :
           /\ pc' = [pc EXCEPT ![t] = step]
           /\ cur' = IF step = "idle" THEN [cur EXCEPT ![t] = Nothing] ELSE cur
           /\ lifecycle' = [lifecycle EXCEPT ![cur[t]] = s]
           /\ step # "idle" => s = "executing" \/ (AuditMayFail /\ s = "denied")
           /\ step = "run" => pc[t] = "revalidate" /\ lifecycle[cur[t]] = "prepared"
    <2> DEFINE at == lifecycle[cur[t]]
    <2>0. /\ lifecycle = [lifecycle EXCEPT ![cur[t]] = at]
          /\ pc[t] = "revalidate" => at \in {"prepared", "denied"}
          /\ pc[t] # "revalidate" => at = "executing" \/ (AuditMayFail /\ at = "denied")
      BY <1>1 DEF IInv, TypeOK, AttemptTypeOK, AllCustody, Custody, Placed, ExecuteSteps, StateAt
    <2>1. CASE Revalidate(t)
      <3>1. CASE Advance(t, "executing", "run") /\ CanTransition(at, "executing")
        <4>1. at = "prepared" /\ pc[t] = "revalidate"
          BY <2>0, <2>1, <3>1 DEF Revalidate, At, CanTransition, LegalTransitions
        <4> QED
          BY <3>1, <4>1 DEF Advance, Transition, Go
      <3>2. ASSUME NEW s \in {"executing", "denied"}, FinishIfLegal(t, s)
            PROVE  /\ pc' = [pc EXCEPT ![t] = "idle"] /\ cur' = [cur EXCEPT ![t] = Nothing]
                   /\ \E r \in {"executing"} \cup Terminal : lifecycle' = [lifecycle EXCEPT ![cur[t]] = r]
        <4>1. CanTransition(at, s) \/ at = "denied"
          BY <2>0, <2>1 DEF Revalidate, At, CanTransition, LegalTransitions
        <4> QED
          BY <2>0, <3>2, <4>1 DEF FinishIfLegal, Finish, Transition, Done
      <3> QED
        BY <2>1, <3>1, <3>2 DEF Revalidate
    <2>2. CASE Run(t)
      BY <2>0, <2>2 DEF Run, Go, At
    <2>3. CASE Complete(t)
      BY <2>0, <2>3 DEF Complete, At, FinishIfLegal, Finish, Transition, Done
    <2> QED
      BY <2>1, <2>2, <2>3
  <1>5. AllCustody' /\ lifecycle' \in [Attempts -> RequestStates] /\ HistoryTypeOK'
    BY <1>1, <1>2, <1>3, <1>4, ExecutionStep
  <1>6. ThreadTypeOK'
    <2>1. /\ handling' \in {handling, [handling EXCEPT ![t] = Nothing]}
          /\ stamp' \in {stamp, [stamp EXCEPT ![t] = 0]}
      BY DEF Revalidate, Run, Complete, Advance, FinishIfLegal, Finish, Go, Done
    <2> QED
      BY <1>4, <2>1 DEF IInv, TypeOK, ThreadTypeOK, Steps, ExecuteSteps
  <1> QED
    BY <1>2, <1>3, <1>5, <1>6
       DEF IInv, TypeOK, ApprovalsTypeOK, AttemptTypeOK, ConsentTypeOK, GateTypeOK

\* The denial of a request that is on the table: whoever executes it finds it
\* denied, and nobody else holds more than a reference.
LEMMA DenyRegisteredInv ==
    ASSUME IInv, NEW t \in Threads, DenyRegistered(t)
    PROVE  IInv'
  <1> DEFINE a == cur[t]
  <1> USE DEF RequestStates
  <1>1. /\ pc[t] = "deny" /\ a \in Attempts /\ Started(a) /\ AuditMayFail
        /\ lifecycle[a] \in {"prepared", "executing"} \cup Terminal
        /\ \A u \in Threads : cur[u] = a => pc[u] \notin BeforeGate
    BY DEF DenyRegistered, At, IInv, AllCustody, Custody, Placed, LateDenial
  <1>2. UNCHANGED <<envVars, approvals, consentVars, gateVars, request, bound, approvalOf, history>>
    BY DEF DenyRegistered
  <1>3. /\ pc' = [pc EXCEPT ![t] = "idle"] /\ cur' = [cur EXCEPT ![t] = Nothing]
        /\ handling' = [handling EXCEPT ![t] = Nothing] /\ stamp' = [stamp EXCEPT ![t] = 0]
        /\ lifecycle' \in {lifecycle, [lifecycle EXCEPT ![a] = "denied"]}
    BY DEF DenyRegistered, FinishIfLegal, Finish, Transition, Done
  <1>4. /\ ThreadTypeOK' /\ lifecycle' \in [Attempts -> RequestStates]
        /\ \A b \in Attempts \ {a} : lifecycle'[b] = lifecycle[b]
        /\ lifecycle'[a] \in {lifecycle[a], "denied"}
    BY <1>1, <1>3 DEF IInv, TypeOK, ThreadTypeOK, Steps, AttemptTypeOK
  <1>5. /\ \A u \in Threads \ {t} : pc'[u] = pc[u] /\ cur'[u] = cur[u]
        /\ pc'[t] = "idle"
    BY <1>3 DEF IInv, TypeOK, ThreadTypeOK
  <1>6. \A u \in Threads, b \in Attempts : Owns(u, b)' => Owns(u, b) /\ pc'[u] = pc[u]
    BY <1>5 DEF Owns, Owning
  <1>7. Custody'
    <2> SUFFICES ASSUME NEW u \in Threads, pc'[u] # "idle"
                 PROVE  cur'[u] \in Attempts /\ request[cur'[u]] # Nothing
                        /\ (pc'[u] # "decode" => Started(cur'[u])) /\ Placed(u)'
      BY <1>2 DEF Custody, Started
    <2>1. /\ u # t /\ pc'[u] = pc[u] /\ cur'[u] = cur[u] /\ pc[u] # "idle"
          /\ cur[u] \in Attempts /\ Placed(u)
      BY <1>5 DEF IInv, AllCustody, Custody
    <2>2. Placed(u)'
      BY <1>1, <1>4, <2>1 DEF Placed, Terminal
    <2> QED
      BY <2>1, <2>2 DEF IInv, AllCustody, Custody
  <1>8. SoleOwner' /\ LateDenial' /\ Untouched'
    <2>1. SoleOwner'
      BY <1>5 DEF IInv, AllCustody, SoleOwner, Owning
    <2>2. LateDenial'
      BY <1>5, StepFacts DEF IInv, AllCustody, LateDenial
    <2>3. Untouched'
      BY <1>1, <1>2, <1>4 DEF IInv, AllCustody, Untouched, Started
    <2> QED
      BY <2>1, <2>2, <2>3
  <1>9. ConsentCustody'
    BY <1>1, <1>2, <1>4, <1>6 DEF IInv, AllCustody, ConsentCustody, Started, Terminal
  <1>10. GateCustody'
    <2>1. \A u \in Threads : gateHolder' = u <=> pc'[u] = "revalidate"
      BY <1>1, <1>2, <1>5 DEF IInv, AllCustody, GateCustody
    <2>2. ASSUME NEW r \in RequestIds, prepared[r].attempt # Nothing
          PROVE  /\ prepared[r].attempt \in Attempts
                 /\ lifecycle'[prepared[r].attempt] \in {"prepared", "executing"} \cup Terminal
      <3>1. prepared[r].attempt \in Attempts
        BY <2>2 DEF IInv, TypeOK, GateTypeOK, GateRecords, Empty
      <3> QED
        BY <1>4, <2>2, <3>1 DEF IInv, AllCustody, GateCustody, Terminal
    <2> QED
      BY <1>2, <1>6, <2>1, <2>2 DEF IInv, AllCustody, GateCustody, Started, Rid
  <1>11. DispatchCustody'
    BY <1>2, <1>4, <1>5 DEF IInv, AllCustody, DispatchCustody, Terminal
  <1> QED
    BY <1>2, <1>4, <1>7, <1>8, <1>9, <1>10, <1>11
       DEF IInv, TypeOK, AllCustody, ApprovalsTypeOK, AttemptTypeOK, ConsentTypeOK, GateTypeOK,
           HistoryTypeOK

----------------------------------------------------------------------------
\* The environment

LEMMA EnvironmentInv ==
    ASSUME IInv, Environment
    PROVE  IInv'
  <1>1. UNCHANGED <<consentVars, gateVars, attemptVars, threadVars, history>>
    BY DEF Environment, SurfaceOperation
  <1>2. world' \in Worlds
    BY DEF Environment, SurfaceOperation, Drift, IInv, TypeOK
  <1>3. ApprovalsTypeOK'
    <2>1. CASE UNCHANGED <<clock, approvals>>
      BY <2>1 DEF IInv, TypeOK, ApprovalsTypeOK
    <2>2. CASE Tick
      BY <2>2 DEF Tick, IInv, TypeOK, ApprovalsTypeOK
    <2>3. CASE SurfaceOperation
      <3>1. clock' = clock
        BY <2>3 DEF SurfaceOperation
      <3>2. PICK id \in ApprovalIds :
               \/ \E q \in Requests : Issue(id, FingerprintOf[world][q], OwnerOf[q])
               \/ CanMakeAvailable(id) /\ MakeAvailable(id)
               \/ CanRevoke(id) /\ Revoke(id)
        BY <2>3, RuntimeAssumption DEF SurfaceOperation
      <3>3. ASSUME NEW q \in Requests, Issue(id, FingerprintOf[world][q], OwnerOf[q])
            PROVE  approvals' \in [ApprovalIds -> ApprovalRecords]
        <4>1. FingerprintOf[world][q] \in Fingerprints /\ OwnerOf[q] \in Principals
          BY ResultType DEF IInv, TypeOK
        <4>2. clock + ApprovalTtl \in Nat
          BY ApprovalsAssumption DEF IInv, TypeOK, ApprovalsTypeOK
        <4> QED
          BY <3>3, <4>1, <4>2 DEF Issue, IInv, TypeOK, ApprovalsTypeOK, ApprovalRecords, ApprovalStates
      <3>4. ASSUME NEW s \in {"available", "revoked"}, NEW may \in BOOLEAN, Move(id, s, may)
            PROVE  approvals' \in [ApprovalIds -> ApprovalRecords]
        BY <3>4, MoveType DEF ApprovalStates, IInv, TypeOK
      <3> QED
        BY <3>1, <3>2, <3>3, <3>4
           DEF MakeAvailable, Revoke, CanMakeAvailable, CanRevoke, ApprovalsTypeOK, IInv, TypeOK
    <2> QED
      BY <2>1, <2>2, <2>3 DEF Environment
  <1>4. AllCustody'
    BY <1>1 DEF IInv, AllCustody, Custody, Placed, SoleOwner, LateDenial, Untouched,
                ConsentCustody, GateCustody, DispatchCustody, Started, Owns, Rid
  <1> QED
    BY <1>1, <1>2, <1>3, <1>4
       DEF IInv, TypeOK, AttemptTypeOK, ConsentTypeOK, GateTypeOK, ThreadTypeOK, HistoryTypeOK

----------------------------------------------------------------------------
\* The theorems

LEMMA InitInv ==
    ASSUME Init
    PROVE  IInv
  <1> USE DEF Init, StoreInit, AttemptInit, ConsentInit, GateInit
  <1>1. TypeOK
    <2>1. ApprovalsTypeOK /\ AttemptTypeOK
      BY DEF ApprovalsTypeOK, ApprovalRecords, ApprovalStates, Unissued, AttemptTypeOK,
             RequestStates, Unchecked, ControlResults
    <2>2. ConsentTypeOK /\ GateTypeOK
      BY DEF ConsentTypeOK, ConsentRecords, ConsentStates, NoConsent, GateTypeOK, GateRecords
    <2>3. ThreadTypeOK /\ HistoryTypeOK
      BY DEF ThreadTypeOK, HistoryTypeOK, Steps
    <2> QED
      BY <2>1, <2>2, <2>3 DEF TypeOK
  <1>2. AllCustody
    <2>1. Custody /\ SoleOwner /\ LateDenial /\ Untouched /\ ConsentCustody /\ DispatchCustody
      BY DEF Custody, SoleOwner, LateDenial, Untouched, ConsentCustody, DispatchCustody, Owning,
             NoConsent
    <2>2. GateCustody
      BY GateAssumption DEF GateCustody, Empty
    <2> QED
      BY <2>1, <2>2 DEF AllCustody
  <1> QED
    BY <1>1, <1>2 DEF IInv

\* Every step preserves the invariant.
LEMMA StepInv ==
    ASSUME IInv, [Next]_vars
    PROVE  IInv'
  <1>1. ASSUME NEW t \in Workers, Receive(t) \/ Admit(t) PROVE IInv'
    BY <1>1, ReceiveInv, AdmitInv
  <1>2. CASE ReceiveDecision
    BY <1>2, ReceiveDecisionInv
  <1>3. ASSUME NEW t \in Threads, Continue(t) PROVE IInv'
    BY <1>3, CheckPolicyInv, BranchInv, PreparationInv, RegisterConsentInv, DecideConsentInv,
       ApprovalStepsInv, IssueApprovalInv, CheckRegistrationInv, RegisterExecutionInv,
       DenyRegisteredInv, ExecutionInv DEF Continue
  <1>4. CASE Environment
    BY <1>4, EnvironmentInv
  <1>5. CASE UNCHANGED vars
    BY <1>5 DEF vars, IInv, TypeOK, ApprovalsTypeOK, AttemptTypeOK, ConsentTypeOK, GateTypeOK,
                ThreadTypeOK, HistoryTypeOK, AllCustody, Custody, Placed, SoleOwner, LateDenial,
                Untouched, ConsentCustody, GateCustody, DispatchCustody, Started, Owns, Rid
  <1> QED
    BY <1>1, <1>2, <1>3, <1>4, <1>5 DEF Next

\* Who may move which lifecycle: in every reachable state each attempt has at
\* most one owning thread, in the lifecycle state its step calls for, and the
\* consent and gate tables file only attempts nobody is preparing.
THEOREM Invariance == Spec => []IInv
  <1>1. Init => IInv
    BY InitInv
  <1>2. IInv /\ [Next]_vars => IInv'
    BY StepInv
  <1> QED
    BY <1>1, <1>2, PTL DEF Spec

\* Type correctness of the approval store, the consent table, the gate's table,
\* the attempts and the threads.
THEOREM TypeCorrectness == Spec => []TypeOK
  <1>1. IInv => TypeOK
    BY DEF IInv
  <1> QED
    BY <1>1, Invariance, PTL

\* A prepared request is dispatched to Hermes at most once, for any number of
\* threads, requests, attempts and any sizes of the tables (execution.py,
\* execute: the lifecycle leaves "prepared" under the gate's lock).
THEOREM AtMostOneDispatch == Spec => []DispatchedOnce
  <1>1. IInv => DispatchedOnce
    BY DEF IInv, AllCustody, DispatchCustody, DispatchedOnce
  <1> QED
    BY <1>1, Invariance, PTL

\* An execution belongs to the thread that admitted it, although the adapter
\* call runs outside the gate's lock.
THEOREM SingleRunner == Spec => []OneRunner
  <1>1. ASSUME IInv PROVE OneRunner
    <2>1. ASSUME NEW t \in Threads, pc[t] \in {"run", "ran", "unrun"}
          PROVE  /\ \/ lifecycle[cur[t]] = "executing"
                    \/ AuditMayFail /\ lifecycle[cur[t]] = "denied"
                 /\ \A u \in Threads \ {t} : pc[u] \in ExecuteSteps => cur[u] # cur[t]
      <3>1. /\ pc[t] \in Owning /\ pc[t] \in ExecuteSteps /\ pc[t] # "idle"
            /\ StateAt(pc[t]) = "executing"
        BY <2>1 DEF Owning, Steps, ExecuteSteps, StateAt
      <3>2. \A u \in Threads : pc[u] \in ExecuteSteps => pc[u] \in Owning
        BY DEF Owning, Steps, ExecuteSteps
      <3> QED
        BY <1>1, <3>1, <3>2 DEF IInv, AllCustody, Custody, Placed, SoleOwner
    <2> QED
      BY <1>1, <2>1 DEF OneRunner, IInv, AllCustody, GateCustody
  <1> QED
    BY <1>1, Invariance, PTL

----------------------------------------------------------------------------
\* Legal lifecycle changes

LegalMoves ==
    \A a \in Attempts :
        lifecycle'[a] # lifecycle[a] => CanTransition(lifecycle[a], lifecycle'[a])

\* Before the gate an owner moves its attempt legally if the move is legal from
\* its step.
LEMMA OwnerMove ==
    ASSUME IInv, NEW t \in Threads, pc[t] \in BeforeGate, NEW s \in RequestStates,
           Transition(cur[t], s), CanTransition(StateAt(pc[t]), s)
    PROVE  LegalMoves
  <1>1. cur[t] \in Attempts /\ lifecycle[cur[t]] = StateAt(pc[t])
    BY DEF IInv, AllCustody, Custody, Placed, BeforeGate, Owning
  <1> QED
    BY <1>1 DEF LegalMoves, Transition, IInv, TypeOK, AttemptTypeOK

LEMMA StepLegal ==
    ASSUME IInv, [Next]_vars
    PROVE  LegalMoves
  <1> USE DEF RequestStates, Terminal
  <1>0. CASE UNCHANGED lifecycle
    BY <1>0 DEF LegalMoves
  <1>1. ASSUME NEW t \in Workers, Receive(t) PROVE LegalMoves
    <2>1. PICK a \in Attempts, s \in {"authenticated", "denied"} :
             request[a] = Nothing /\ Transition(a, s)
      BY <1>1 DEF Receive
    <2>2. lifecycle[a] = "received"
      BY <2>1 DEF IInv, AllCustody, Untouched
    <2> QED
      BY <2>1, <2>2 DEF LegalMoves, Transition, IInv, TypeOK, AttemptTypeOK, CanTransition,
                        LegalTransitions
  <1>2. ASSUME NEW t \in Workers, Admit(t) PROVE LegalMoves
    <2>1. PICK e \in Inbox[t] :
             /\ lifecycle[prepared[e.rid].attempt] = "prepared"
             /\ \/ Transition(prepared[e.rid].attempt, "denied")
                \/ UNCHANGED lifecycle
      BY <1>2 DEF Admit
    <2> QED
      BY <1>0, <2>1 DEF LegalMoves, Transition, IInv, TypeOK, AttemptTypeOK, CanTransition,
                        LegalTransitions
  <1>3. ASSUME NEW t \in Threads, NEW s \in RequestStates, pc[t] \in BeforeGate,
               Transition(cur[t], s), CanTransition(StateAt(pc[t]), s)
        PROVE  LegalMoves
    BY <1>3, OwnerMove
  <1>4. ASSUME NEW t \in Threads, CheckPolicy(t) \/ Branch(t) \/ PrepareDirect(t) PROVE LegalMoves
    <2>1. /\ pc[t] \in {"decode", "branch", "prepare"}
          /\ \/ UNCHANGED lifecycle
             \/ \E s \in RequestStates : Transition(cur[t], s) /\ CanTransition(StateAt(pc[t]), s)
      BY <1>4 DEF CheckPolicy, Branch, PrepareDirect, At, Finish, Advance, CanTransition,
                  LegalTransitions, StateAt
    <2> QED
      BY <1>0, <1>3, <2>1, StepFacts
  <1>5. ASSUME NEW t \in Threads,
               RegisterConsent(t) \/ RejectConsent(t) \/ IssueApproval(t)
                 \/ MakeApprovalAvailable(t) \/ ConsumeApproval(t)
        PROVE  LegalMoves
    <2>1. /\ pc[t] \in {"register_consent", "reject", "issue", "make_available", "consume"}
          /\ \/ UNCHANGED lifecycle
             \/ \E s \in {"denied", "approved"} : Transition(cur[t], s)
      BY <1>5 DEF RegisterConsent, RejectConsent, IssueApproval, MakeApprovalAvailable,
                  ConsumeApproval, At, Finish, Advance
    <2>2. \A s \in {"denied", "approved"} : CanTransition(StateAt(pc[t]), s)
      BY <2>1 DEF StateAt, CanTransition, LegalTransitions
    <2> QED
      BY <1>0, <1>3, <2>1, <2>2, StepFacts
  <1>6. ASSUME NEW t \in Threads,
               PrepareConfirmed(t) \/ CheckRegistration(t) \/ RegisterExecution(t)
        PROVE  LegalMoves
    <2>1. /\ pc[t] \in {"prepare_confirmed", "register_check", "register"}
          /\ \/ UNCHANGED lifecycle
             \/ \E s \in RequestStates : Transition(cur[t], s) /\ CanTransition(StateAt(pc[t]), s)
      BY <1>6 DEF PrepareConfirmed, CheckRegistration, RegisterExecution, NotRegistered, At,
                  Finish, Advance, CanTransition, LegalTransitions, StateAt
    <2> QED
      BY <1>0, <1>3, <2>1, StepFacts
  <1>7. ASSUME NEW t \in Threads,
               DenyRegistered(t) \/ Revalidate(t) \/ Run(t) \/ Complete(t)
        PROVE  LegalMoves
    <2>1. \/ UNCHANGED lifecycle
          \/ \E s \in RequestStates : Transition(cur[t], s) /\ CanTransition(lifecycle[cur[t]], s)
      BY <1>7 DEF DenyRegistered, Revalidate, Run, Complete, FinishIfLegal, Finish, Advance
    <2> QED
      BY <1>0, <2>1 DEF LegalMoves, Transition, IInv, TypeOK, AttemptTypeOK
  <1>8. ASSUME NEW t \in Threads, LookupConsent(t) \/ DecideConsent(t) PROVE LegalMoves
    <2>1. \/ UNCHANGED lifecycle
          \/ lifecycle[cur[t]] = "awaiting_approval" /\ Transition(cur[t], "denied")
      BY <1>8 DEF LookupConsent, DecideConsent, NotPending
    <2> QED
      BY <1>0, <2>1 DEF LegalMoves, Transition, IInv, TypeOK, AttemptTypeOK, CanTransition,
                        LegalTransitions
  <1>9. CASE ReceiveDecision \/ Environment \/ UNCHANGED vars
    BY <1>0, <1>9 DEF ReceiveDecision, Environment, SurfaceOperation, vars
  <1> QED
    BY <1>1, <1>2, <1>4, <1>5, <1>6, <1>7, <1>8, <1>9 DEF Next, Continue

\* No RequestLifecycle ever makes a move outside its table (request_state.py,
\* _LEGAL_TRANSITIONS), although the consent coordinator, the gate and two handlers
\* share the object without a lock of its own; and while the ledger can be written
\* no thread asks it for one, so that none of them raises.
THEOREM LifecycleLegality == Spec => LegalLifecycle /\ []NobodyOvertaken
  <1>1. IInv /\ [Next]_vars => [LegalMoves]_vars
    BY StepLegal
  <1>2. ASSUME IInv PROVE NobodyOvertaken
    <2> SUFFICES ASSUME ~AuditMayFail, NEW t \in Threads, Overtaken(t) PROVE FALSE
      BY DEF NobodyOvertaken
    <2>1. pc[t] \in {"deny", "revalidate", "run", "ran", "unrun"} /\ Placed(t)
      BY <1>2 DEF Overtaken, IInv, AllCustody, Custody
    <2> QED
      BY <2>1 DEF Overtaken, Placed, ExecuteSteps, StateAt
  <1>3. Spec => []NobodyOvertaken
    BY <1>2, Invariance, PTL
  <1> QED
    BY <1>1, <1>3, Invariance, PTL DEF Spec, LegalLifecycle, LegalMoves

=============================================================================
