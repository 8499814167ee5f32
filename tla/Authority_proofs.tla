-------------------------- MODULE Authority_proofs --------------------------
(***************************************************************************)
(* What the control core authorises, for every value of its constants: the *)
(* invariants about approvals, consents and the gate's records, on top of  *)
(* the custody invariant of ControlRuntime_proofs, and the refinement of   *)
(* the authorisation contract.                                             *)
(***************************************************************************)
EXTENDS ControlRuntime_proofs, FiniteSetTheorems

USE DEF envVars, consentVars, gateVars, attemptVars, threadVars, history

----------------------------------------------------------------------------
\* Approvals

ConsumedStays ==
    \A id \in ApprovalIds : approvals[id].state = "consumed" => approvals'[id] = approvals[id]

\* Moving an approval leaves every consumed one alone, unless it is moved by an
\* operation that does not look at its state.
LEMMA MoveStays ==
    ASSUME ApprovalsTypeOK, NEW id, NEW s, NEW may \in BOOLEAN, Move(id, s, may),
           id \in ApprovalIds => (may => Current(id).state # "consumed")
    PROVE  ConsumedStays
  <1>1. \A i \in ApprovalIds : approvals[i].state = "consumed" => Current(i) = approvals[i]
    BY DEF Current
  <1> QED
    BY <1>1 DEF Move, ConsumedStays, ApprovalsTypeOK

LEMMA StoreStays ==
    ASSUME ApprovalsTypeOK, NEW id,
           \/ \E f, o : Issue(id, f, o)
           \/ MakeAvailable(id)
           \/ Revoke(id)
           \/ Get(id)
           \/ \E f, o : Consume(id, f, o)
    PROVE  ConsumedStays
  <1>1. ASSUME NEW f, NEW o, Issue(id, f, o) PROVE ConsumedStays
    BY <1>1 DEF Issue, ConsumedStays, ApprovalsTypeOK
  <1>2. CASE MakeAvailable(id)
    <2>1. CanMakeAvailable(id) \in BOOLEAN /\ (CanMakeAvailable(id) => Current(id).state # "consumed")
      BY DEF CanMakeAvailable
    <2> QED
      BY <1>2, <2>1, MoveStays DEF MakeAvailable
  <1>3. CASE Revoke(id)
    <2>1. CanRevoke(id) \in BOOLEAN /\ (CanRevoke(id) => Current(id).state # "consumed")
      BY DEF CanRevoke
    <2> QED
      BY <1>3, <2>1, MoveStays DEF Revoke
  <1>4. CASE Get(id)
    <2>1. \A i \in ApprovalIds : approvals[i].state = "consumed" => Current(i) = approvals[i]
      BY DEF Current
    <2> QED
      BY <1>4, <2>1 DEF Get, ConsumedStays, ApprovalsTypeOK
  <1>5. ASSUME NEW f, NEW o, Consume(id, f, o) PROVE ConsumedStays
    <2>1. /\ CanConsume(id, f, o) \in BOOLEAN
          /\ CanConsume(id, f, o) => Current(id).state # "consumed"
      BY DEF CanConsume
    <2> QED
      BY <1>5, <2>1, MoveStays DEF Consume
  <1> QED
    BY <1>1, <1>2, <1>3, <1>4, <1>5

\* Only consume makes an approval consumed: one that could be, by the action and
\* the principal it names.
LEMMA SpentByConsume ==
    ASSUME ApprovalsTypeOK, NEW id \in ApprovalIds, NEW f, NEW o, Consume(id, f, o)
    PROVE  IF CanConsume(id, f, o)
           THEN /\ approvals[id].state = "available"
                /\ approvals'[id].state = "consumed"
                /\ approvals'[id].fingerprint = f
                /\ approvals'[id].owner = o
                /\ \A i \in ApprovalIds \ {id} : approvals'[i] = approvals[i]
           ELSE \A i \in ApprovalIds :
                   approvals'[i].state = "consumed" <=> approvals[i].state = "consumed"
  <1>1. /\ approvals[id] \in ApprovalRecords /\ Current(id) \in ApprovalRecords
        /\ Current(id).state \in {approvals[id].state, "expired"}
        /\ Current(id).state # approvals[id].state => approvals[id].state \in {"issued", "available"}
    BY CurrentType DEF ApprovalsTypeOK, Current, ApprovalRecords
  <1>2. CASE CanConsume(id, f, o)
    <2>1. approvals' = [approvals EXCEPT ![id] = [Current(id) EXCEPT !.state = "consumed"]]
      BY <1>2 DEF Consume, Move
    <2>2. Current(id).state = "available" /\ Current(id).fingerprint = f /\ Current(id).owner = o
      BY <1>2 DEF CanConsume
    <2>3. approvals'[id] = [Current(id) EXCEPT !.state = "consumed"]
      BY <2>1 DEF ApprovalsTypeOK
    <2>4. /\ approvals'[id].state = "consumed" /\ approvals'[id].fingerprint = f
          /\ approvals'[id].owner = o
      BY <1>1, <2>2, <2>3 DEF ApprovalRecords
    <2> QED
      BY <1>1, <1>2, <2>1, <2>2, <2>4 DEF ApprovalsTypeOK
  <1>3. CASE ~CanConsume(id, f, o)
    <2>1. approvals' = [approvals EXCEPT ![id] = Current(id)]
      BY <1>3 DEF Consume, Move
    <2> QED
      BY <1>1, <1>3, <2>1 DEF ApprovalsTypeOK
  <1> QED
    BY <1>2, <1>3

----------------------------------------------------------------------------
\* Steps that change one attempt only

\* What a step may do to the attempts it is not about.
Kept(b) ==
    /\ request'[b] = request[b] /\ lifecycle'[b] = lifecycle[b] /\ bound'[b] = bound[b]
    /\ approvalOf'[b] = approvalOf[b] /\ signed'[b] = signed[b]
    /\ dispatches'[b] = dispatches[b]
    /\ \/ consents'[b].state \in {consents[b].state, "none"}
       \/ consents[b].state = "pending" /\ consents'[b].state = "expired"
    /\ Filed(b)' => Filed(b)

LEMMA KeptAuthority ==
    ASSUME IInv, ConsumedStays, NEW b \in Attempts, Kept(b), AttemptAuthority(b),
           Executed(b)' => Authorized(b)
    PROVE  /\ AttemptAuthority(b)'
           /\ Authorized(b)' => Authorized(b)
           /\ Granted(b)' <=> Granted(b)
  <1>1. approvalOf[b] \in ApprovalIds \cup {Nothing}
    BY DEF IInv, TypeOK, AttemptTypeOK
  <1>2. Authorized(b)' => Authorized(b)
    BY DEF Kept, Authorized
  <1>3. Granted(b)' <=> Granted(b)
    BY DEF Kept, Granted
  <1>4. Backed(b) => Backed(b)'
    BY <1>1, <1>3 DEF Kept, Backed, ConsumedStays, Owner, Content
  <1>5. AttemptAuthority(b)'
    BY <1>2, <1>4 DEF Kept, AttemptAuthority
  <1> QED
    BY <1>2, <1>3, <1>5

\* A thread that executes after a step did so before, or has found an authorised
\* request to execute.
LEMMA RunnersKept ==
    ASSUME NEW b, \A u \in Threads : pc'[u] \in ExecuteSteps =>
              \/ pc'[u] = pc[u] /\ cur'[u] = cur[u]
              \/ Authorized(cur'[u])
    PROVE  Executed(b)' => Authorized(b)
  BY DEF Executed, Authorized

\* If a step keeps every other attempt and thread, what remains to be shown is
\* the authority of the attempt and of the thread it is about, and that a new
\* authorisation rests on an approval nobody has spent.
LEMMA OneAttemptStep ==
    ASSUME IInv, AuthorityInv, NEW t \in Threads, NEW a \in Attempts, ConsumedStays,
           \A b \in Attempts \ {a} : Kept(b),
           AttemptAuthority(a)', ThreadAuthority(t)',
           \A u \in Threads \ {t} :
              pc'[u] = pc[u] /\ cur'[u] = cur[u] /\ (pc[u] \in Owning => cur[u] # a),
           pc'[t] \notin ExecuteSteps,
           Authorized(a)' =>
              \/ approvalOf'[a] = Nothing
              \/ Authorized(a) /\ approvalOf'[a] = approvalOf[a]
              \/ approvals[approvalOf'[a]].state # "consumed"
    PROVE  AuthorityInv'
  <1>1. \A b \in Attempts \ {a} : /\ AttemptAuthority(b)'
                                  /\ Authorized(b)' => Authorized(b)
                                  /\ Granted(b)' <=> Granted(b)
    BY KeptAuthority, RunnersKept DEF AuthorityInv
  <1>2. ASSUME NEW u \in Threads \ {t} PROVE ThreadAuthority(u)'
    <2>1. CASE pc[u] \in Owning
      <3>1. cur[u] \in Attempts \ {a}
        BY <2>1 DEF IInv, AllCustody, Custody, Owning
      <3> QED
        BY <1>1, <2>1, <3>1 DEF AuthorityInv, ThreadAuthority, Kept
    <2>2. CASE pc[u] \notin Owning
      BY <2>2 DEF ThreadAuthority, Owning, Steps, PrepareSteps, ConsentSteps
    <2> QED
      BY <2>1, <2>2
  <1>3. SoleGrant'
    <2> SUFFICES ASSUME NEW b \in Attempts, NEW c \in Attempts, b # c,
                        Authorized(b)', Authorized(c)', approvalOf'[b] = approvalOf'[c]
                 PROVE  approvalOf'[b] = Nothing
      BY DEF SoleGrant
    <2>1. CASE b # a /\ c # a
      BY <1>1, <2>1 DEF AuthorityInv, SoleGrant, Kept
    <2>2. ASSUME NEW d \in Attempts \ {a}, Authorized(d)', Authorized(a)',
                 approvalOf'[d] = approvalOf'[a]
          PROVE  approvalOf'[d] = Nothing
      <3>1. Authorized(d) /\ AttemptAuthority(d) /\ approvalOf'[d] = approvalOf[d]
        BY <1>1, <2>2 DEF AuthorityInv, Kept
      <3>2. approvalOf[d] # Nothing => approvals[approvalOf[d]].state = "consumed"
        BY <3>1 DEF AttemptAuthority, Backed
      <3>3. CASE Authorized(a) /\ approvalOf'[a] = approvalOf[a]
        BY <2>2, <3>1, <3>3 DEF AuthorityInv, SoleGrant
      <3> QED
        BY <2>2, <3>1, <3>2, <3>3
    <2> QED
      BY <2>1, <2>2
  <1> QED
    BY <1>1, <1>2, <1>3 DEF AuthorityInv

\* The owner of an attempt before its execution.
LEMMA Preparing ==
    ASSUME IInv, AuthorityInv, NEW t \in Threads, pc[t] \in BeforeGate
    PROVE  LET a == cur[t] IN
           /\ a \in Attempts /\ request[a] # Nothing
           /\ lifecycle[a] = StateAt(pc[t])
           /\ approvalOf[a] \in ApprovalIds \cup {Nothing}
           /\ dispatches[a] = 0 /\ ~Filed(a)
           /\ \A u \in Threads \ {t} : pc[u] \in Owning => cur[u] # a
           /\ consents[a].state \notin {"pending", "expired"}
           /\ AttemptAuthority(a) /\ ThreadAuthority(t)
  <1> DEFINE a == cur[t]
  <1>1. /\ a \in Attempts /\ request[a] # Nothing /\ lifecycle[a] = StateAt(pc[t])
        /\ pc[t] \in Owning /\ pc[t] \notin ExecuteSteps
    BY DEF IInv, AllCustody, Custody, Placed, BeforeGate, Owning
  <1>2. approvalOf[a] \in ApprovalIds \cup {Nothing}
    BY <1>1 DEF IInv, TypeOK, AttemptTypeOK
  <1>3. StateAt(pc[t]) \notin {"executing"} \cup Terminal
    BY <1>1 DEF StateAt, Owning, Terminal, Steps, PrepareSteps, ConsentSteps, ExecuteSteps
  <1>4. dispatches[a] = 0
    BY <1>1, <1>3 DEF IInv, TypeOK, HistoryTypeOK, AllCustody, DispatchCustody
  <1>5. ~Filed(a)
    BY <1>1, AttemptAssumption DEF Filed, IInv, AllCustody, GateCustody, Owns
  <1>6. \A u \in Threads \ {t} : pc[u] \in Owning => cur[u] # a
    BY <1>1 DEF IInv, AllCustody, SoleOwner
  <1>7. consents[a].state \notin {"pending", "expired"}
    BY <1>1 DEF IInv, AllCustody, ConsentCustody, Owns
  <1> QED
    BY <1>1, <1>2, <1>4, <1>5, <1>6, <1>7 DEF AuthorityInv

\* A step of thread t that changes only its attempt and leaves the tables alone.
Alone(t, a) ==
    /\ \A b \in Attempts \ {a} :
          lifecycle'[b] = lifecycle[b] /\ bound'[b] = bound[b] /\ approvalOf'[b] = approvalOf[b]
    /\ \A u \in Threads \ {t} : pc'[u] = pc[u] /\ cur'[u] = cur[u]
    /\ pc'[t] \notin ExecuteSteps
    /\ UNCHANGED <<request, consents, prepared, signed, dispatches>>

\* Such a step of an owner before the execution, in terms of what it leaves in
\* its attempt: the new state, result and approval.
LEMMA OwnerAuthority ==
    ASSUME IInv, AuthorityInv, ConsumedStays, NEW t \in Threads, pc[t] \in BeforeGate,
           NEW a, cur[t] = a, Alone(t, a),
           lifecycle'[a] \notin {"received", "authenticated", "executing"},
           lifecycle'[a] = "policy_checked" => approvalOf'[a] = Nothing /\ signed[a] = "none",
           lifecycle'[a] = "awaiting_approval" => bound'[a].outcome = "requires_confirmation",
           lifecycle'[a] = "prepared" => bound'[a].invocation # Nothing,
           lifecycle'[a] \in {"approved", "prepared"} =>
              /\ Backed(a)'
              /\ \/ approvalOf'[a] = Nothing
                 \/ Authorized(a) /\ approvalOf'[a] = approvalOf[a]
                 \/ approvals[approvalOf'[a]].state # "consumed",
           signed[a] = "reject" => lifecycle'[a] \in {"awaiting_approval", "denied"},
           ThreadAuthority(t)'
    PROVE  AuthorityInv'
  <1>1. /\ a \in Attempts /\ dispatches[a] = 0 /\ ~Filed(a)
        /\ \A u \in Threads \ {t} : pc[u] \in Owning => cur[u] # a
        /\ consents[a].state \notin {"pending", "expired"}
        /\ AttemptAuthority(a)
    BY Preparing
  <1>2. \A b \in Attempts : Filed(b)' <=> Filed(b)
    BY DEF Alone, Filed
  <1>3. \A b \in Attempts \ {a} : Kept(b)
    BY <1>2 DEF Alone, Kept
  <1>4. dispatches'[a] = dispatches[a] /\ signed'[a] = signed[a] /\ consents'[a] = consents[a]
    BY DEF Alone
  <1>4a. ~Executed(a)'
    BY <1>1 DEF Executed, Alone, Owning, Steps, ExecuteSteps
  <1>5. Authorized(a)' <=> lifecycle'[a] \in {"approved", "prepared"}
    BY <1>1, <1>2, <1>4, <1>4a DEF Authorized
  <1>6. AttemptAuthority(a)'
    BY <1>1, <1>4, <1>5 DEF AttemptAuthority
  <1> QED
    BY <1>1, <1>3, <1>5, <1>6, OneAttemptStep DEF Alone

\* A step that changes no attempt.
LEMMA KeptStep ==
    ASSUME IInv, AuthorityInv, ConsumedStays, \A b \in Attempts : Kept(b),
           \A u \in Threads : ThreadAuthority(u)' \/ (pc'[u] = pc[u] /\ cur'[u] = cur[u]),
           \A u \in Threads : pc'[u] \in ExecuteSteps =>
              (pc'[u] = pc[u] /\ cur'[u] = cur[u]) \/ Authorized(cur'[u])
    PROVE  AuthorityInv'
  <1>1. \A b \in Attempts : /\ AttemptAuthority(b)'
                            /\ Authorized(b)' => Authorized(b)
                            /\ Granted(b)' <=> Granted(b)
                            /\ approvalOf'[b] = approvalOf[b] /\ signed'[b] = signed[b]
    BY KeptAuthority, RunnersKept DEF AuthorityInv, Kept
  <1>2. ASSUME NEW u \in Threads PROVE ThreadAuthority(u)'
    <2>1. CASE pc'[u] = pc[u] /\ cur'[u] = cur[u] /\ pc[u] \in Owning
      <3>1. cur[u] \in Attempts
        BY <2>1 DEF IInv, AllCustody, Custody, Owning
      <3> QED
        BY <1>1, <2>1, <3>1 DEF AuthorityInv, ThreadAuthority
    <2>2. CASE pc'[u] = pc[u] /\ pc[u] \notin Owning
      BY <2>2 DEF ThreadAuthority, Owning, Steps, PrepareSteps, ConsentSteps
    <2> QED
      BY <2>1, <2>2
  <1>3. SoleGrant'
    BY <1>1 DEF AuthorityInv, SoleGrant
  <1> QED
    BY <1>1, <1>2, <1>3 DEF AuthorityInv

\* A step that grants nothing.
LEMMA NothingGranted ==
    ASSUME IInv, AuthorityInv, UNCHANGED <<request, approvalOf, signed>>,
           \A b \in Attempts : AttemptAuthority(b)' /\ (Authorized(b)' => Authorized(b)),
           \A u \in Threads : ThreadAuthority(u)' \/ (pc'[u] = pc[u] /\ cur'[u] = cur[u])
    PROVE  AuthorityInv'
  <1>1. ASSUME NEW u \in Threads PROVE ThreadAuthority(u)'
    <2>1. CASE pc'[u] = pc[u] /\ cur'[u] = cur[u]
      BY <2>1 DEF AuthorityInv, ThreadAuthority, Granted
    <2> QED
      BY <2>1
  <1>2. SoleGrant'
    BY DEF AuthorityInv, SoleGrant
  <1> QED
    BY <1>1, <1>2 DEF AuthorityInv

LEMMA IdleAuthority ==
    ASSUME NEW t, pc'[t] \notin Owning
    PROVE  ThreadAuthority(t)'
  BY DEF ThreadAuthority, Owning, Steps, PrepareSteps, ConsentSteps

\* An owner that gives up: it refuses its request and returns.
LEMMA FinishAuthority ==
    ASSUME IInv, AuthorityInv, ConsumedStays, NEW t \in Threads, pc[t] \in BeforeGate,
           NEW s \in {"denied", "failed"}, Finish(t, s),
           s = "denied" \/ signed[cur[t]] # "reject",
           UNCHANGED <<request, bound, approvalOf, consents, prepared, signed, dispatches>>
    PROVE  AuthorityInv'
  <1> DEFINE a == cur[t]
  <1>1. a \in Attempts
    BY Preparing
  <1>2. /\ lifecycle' = [lifecycle EXCEPT ![a] = s]
        /\ pc' = [pc EXCEPT ![t] = "idle"] /\ cur' = [cur EXCEPT ![t] = Nothing]
    BY DEF Finish, Transition, Done
  <1>3. Alone(t, a) /\ lifecycle'[cur[t]] = s /\ pc'[t] = "idle"
    BY <1>1, <1>2 DEF Alone, ExecuteSteps, IInv, TypeOK, AttemptTypeOK, ThreadTypeOK
  <1>4. ThreadAuthority(t)'
    BY <1>3, IdleAuthority DEF Owning
  <1> QED
    BY <1>3, <1>4, OwnerAuthority

\* An owner that returns and leaves its request as it is.
LEMMA ReturnAuthority ==
    ASSUME IInv, AuthorityInv, ConsumedStays, NEW t \in Threads, Done(t),
           UNCHANGED <<request, lifecycle, bound, approvalOf, consents, prepared, signed, dispatches>>
    PROVE  AuthorityInv'
  <1>1. pc' = [pc EXCEPT ![t] = "idle"] /\ cur' = [cur EXCEPT ![t] = Nothing]
    BY DEF Done
  <1>2. \A b \in Attempts : Kept(b)
    BY DEF Kept, Filed
  <1>3. \A u \in Threads \ {t} : pc'[u] = pc[u] /\ cur'[u] = cur[u]
    BY <1>1 DEF IInv, TypeOK, ThreadTypeOK
  <1>4. pc'[t] \notin Owning \cup ExecuteSteps
    BY <1>1 DEF IInv, TypeOK, ThreadTypeOK, Owning, ExecuteSteps
  <1> QED
    BY <1>2, <1>3, <1>4, IdleAuthority, KeptStep

----------------------------------------------------------------------------
\* The prepare call

LEMMA CheckPolicyAuthority ==
    ASSUME IInv, AuthorityInv, NEW t \in Threads, CheckPolicy(t)
    PROVE  AuthorityInv'
  <1> DEFINE a == cur[t]
             q == Content(a)
  <1>1. pc[t] = "decode" /\ pc[t] \in BeforeGate
    BY StepFacts DEF CheckPolicy, At
  <1>2. /\ UNCHANGED <<approvals, request, approvalOf, consents, prepared, signed, dispatches>>
        /\ ConsumedStays
    BY DEF CheckPolicy, ConsumedStays
  <1>3. a \in Attempts /\ approvalOf[a] = Nothing /\ signed[a] = "none"
    BY <1>1, Preparing DEF AttemptAuthority, StateAt
  <1>4. ASSUME NEW s \in {"denied", "failed"}, Finish(t, s), UNCHANGED bound
        PROVE  AuthorityInv'
    BY <1>1, <1>2, <1>3, <1>4, FinishAuthority
  <1>5. CASE Advance(t, "policy_checked", "branch") /\ Bind(t, Checked(q))
    <2>1. /\ lifecycle' = [lifecycle EXCEPT ![a] = "policy_checked"]
          /\ bound' = [bound EXCEPT ![a] = Checked(q)]
          /\ pc' = [pc EXCEPT ![t] = "branch"] /\ cur' = cur
      BY <1>5 DEF Advance, Transition, Bind, Go
    <2>2. /\ Alone(t, a) /\ lifecycle'[cur[t]] = "policy_checked" /\ pc'[t] = "branch"
          /\ cur'[t] = cur[t] /\ signed'[cur[t]] = "none"
      BY <1>2, <1>3, <2>1 DEF Alone, ExecuteSteps, IInv, TypeOK, AttemptTypeOK, ThreadTypeOK
    <2>3. ThreadAuthority(t)'
      BY <2>2 DEF ThreadAuthority
    <2> QED
      BY <1>1, <1>2, <1>3, <2>2, <2>3, OwnerAuthority
  <1> QED
    BY <1>4, <1>5 DEF CheckPolicy

LEMMA BranchAuthority ==
    ASSUME IInv, AuthorityInv, NEW t \in Threads, NEW a, cur[t] = a, Branch(t)
    PROVE  AuthorityInv'
  <1>1. pc[t] = "branch" /\ pc[t] \in BeforeGate
    BY StepFacts DEF Branch, At
  <1>2. /\ UNCHANGED <<approvals, request, bound, consents, prepared, signed, dispatches>>
        /\ ConsumedStays
    BY DEF Branch, ConsumedStays
  <1>3. /\ a \in Attempts /\ approvalOf[a] = Nothing /\ signed[a] = "none"
        /\ request[a] \in Envelopes
    BY <1>1, Preparing DEF AttemptAuthority, StateAt, IInv, TypeOK, AttemptTypeOK
  <1>4. CASE Finish(t, "denied") /\ UNCHANGED approvalOf
    BY <1>1, <1>2, <1>4, FinishAuthority
  <1>5. CASE /\ bound[a].outcome = "may_proceed"
             /\ Advance(t, "approved", "prepare") /\ UNCHANGED approvalOf
    <2>1. /\ lifecycle' = [lifecycle EXCEPT ![a] = "approved"]
          /\ pc' = [pc EXCEPT ![t] = "prepare"] /\ cur' = cur
      BY <1>5 DEF Advance, Transition, Go
    <2>2. /\ Alone(t, a) /\ lifecycle'[a] = "approved" /\ pc'[t] = "prepare" /\ cur'[t] = a
          /\ approvalOf'[a] = Nothing /\ signed'[a] = "none"
          /\ bound'[a].outcome = "may_proceed"
      BY <1>2, <1>3, <1>5, <2>1 DEF Alone, ExecuteSteps, IInv, TypeOK, AttemptTypeOK, ThreadTypeOK
    <2>3. ThreadAuthority(t)' /\ Backed(a)'
      BY <2>2 DEF ThreadAuthority, Backed
    <2> QED
      BY <1>1, <1>2, <1>3, <2>2, <2>3, OwnerAuthority
  <1>6. CASE /\ bound[a].outcome = "requires_confirmation"
             /\ Transition(a, "awaiting_approval")
             /\ approvalOf' = [approvalOf EXCEPT ![a] = request[a].approval]
             /\ IF request[a].approval = Nothing
                THEN GoStamped(t, "register_consent")
                ELSE Go(t, "consume")
    <2> DEFINE step == IF request[a].approval = Nothing THEN "register_consent" ELSE "consume"
    <2>1. /\ lifecycle' = [lifecycle EXCEPT ![a] = "awaiting_approval"]
          /\ pc' = [pc EXCEPT ![t] = step] /\ cur' = cur
      BY <1>6 DEF Transition, Go, GoStamped
    <2>2. /\ Alone(t, a) /\ lifecycle'[a] = "awaiting_approval"
          /\ pc'[t] = step /\ cur'[t] = a
          /\ approvalOf'[a] = request[a].approval /\ signed'[a] = "none"
          /\ bound'[a].outcome = "requires_confirmation" /\ request'[a] = request[a]
      BY <1>2, <1>3, <1>6, <2>1 DEF Alone, ExecuteSteps, IInv, TypeOK, AttemptTypeOK, ThreadTypeOK
    <2>3. request[a].approval \in SurfaceApprovals \cup {Nothing}
      BY <1>3, RuntimeAssumption
    <2>4. ThreadAuthority(t)'
      BY <2>2, <2>3 DEF ThreadAuthority, Granted
    <2> QED
      BY <1>1, <1>2, <1>3, <2>2, <2>4, OwnerAuthority
  <1> QED
    BY <1>4, <1>5, <1>6 DEF Branch

\* What a preparation that succeeds leaves: the same decision with a route, for
\* the same approval.
LEMMA PreparationAuthority ==
    ASSUME IInv, AuthorityInv, NEW t \in Threads, NEW a, cur[t] = a,
           PrepareDirect(t) \/ PrepareConfirmed(t)
    PROVE  AuthorityInv'
  <1> DEFINE q == Content(a)
  <1>1. pc[t] \in {"prepare", "prepare_confirmed"} /\ pc[t] \in BeforeGate
    BY StepFacts DEF PrepareDirect, PrepareConfirmed, At
  <1>2. /\ UNCHANGED <<approvals, request, approvalOf, consents, prepared, signed, dispatches>>
        /\ ConsumedStays
    BY DEF PrepareDirect, PrepareConfirmed, ConsumedStays
  <1>3. /\ a \in Attempts /\ Authorized(a) /\ Backed(a) /\ ThreadAuthority(t)
        /\ lifecycle[a] = "approved" /\ signed[a] # "reject"
    BY <1>1, Preparing DEF AttemptAuthority, StateAt, Authorized
  <1>4. ASSUME NEW s \in {"denied", "failed"}, Finish(t, s), UNCHANGED bound
        PROVE  AuthorityInv'
    BY <1>1, <1>2, <1>3, <1>4, FinishAuthority
  <1>5. CASE Done(t) /\ UNCHANGED <<lifecycle, bound>>
    BY <1>2, <1>5, ReturnAuthority
  <1>6. ASSUME Bind(t, Routed(q)), Advance(t, "prepared", "register_check"), Route(q) # Nothing,
               \/ approvalOf[a] = Nothing /\ Outcome(q) = "may_proceed"
               \/ approvalOf[a] # Nothing /\ Confirmed(a)
        PROVE  AuthorityInv'
    <2>1. /\ lifecycle' = [lifecycle EXCEPT ![a] = "prepared"]
          /\ bound' = [bound EXCEPT ![a] = Routed(q)]
          /\ pc' = [pc EXCEPT ![t] = "register_check"] /\ cur' = cur
      BY <1>6 DEF Advance, Transition, Bind, Go
    <2>2. /\ Alone(t, a) /\ lifecycle'[a] = "prepared"
          /\ pc'[t] = "register_check" /\ cur'[t] = a
          /\ bound'[a] = Routed(q) /\ approvalOf'[a] = approvalOf[a]
      BY <1>2, <1>3, <2>1 DEF Alone, ExecuteSteps, IInv, TypeOK, AttemptTypeOK, ThreadTypeOK
    <2>3. /\ Routed(q).outcome = Outcome(q) /\ Routed(q).fingerprint = Checked(q).fingerprint
          /\ Routed(q).invocation = Route(q)
      BY DEF Routed, Checked
    <2>4. ThreadAuthority(t)'
      BY <1>2, <1>3, <2>2 DEF ThreadAuthority
    <2>5. Backed(a)'
      <3>1. Granted(a)' <=> Granted(a)
        BY <1>2 DEF Granted
      <3>2. Owner(a)' = Owner(a)
        BY <1>2 DEF Owner, Content
      <3> QED
        BY <1>2, <1>3, <1>6, <2>2, <2>3, <3>1, <3>2 DEF Backed, Confirmed
    <2> QED
      BY <1>1, <1>2, <1>3, <1>6, <2>2, <2>3, <2>4, <2>5, OwnerAuthority
  <1> QED
    <2>1. CASE PrepareDirect(t)
      <3>1. pc[t] = "prepare" /\ approvalOf[a] = Nothing
        BY <1>3, <2>1 DEF PrepareDirect, At, ThreadAuthority
      <3> QED
        BY <1>4, <1>5, <1>6, <2>1, <3>1 DEF PrepareDirect
    <2>2. CASE PrepareConfirmed(t)
      <3>1. pc[t] = "prepare_confirmed" /\ approvalOf[a] # Nothing
        BY <1>3, <2>2 DEF PrepareConfirmed, At, ThreadAuthority
      <3> QED
        BY <1>4, <1>5, <1>6, <2>2, <3>1 DEF PrepareConfirmed
    <2> QED
      BY <2>1, <2>2

----------------------------------------------------------------------------
\* The approval of a consent or of another surface

\* An owner that goes on and changes nothing of its attempt.
LEMMA GoOnAuthority ==
    ASSUME IInv, AuthorityInv, ConsumedStays, NEW t \in Threads,
           pc' = [pc EXCEPT ![t] = pc'[t]], UNCHANGED cur, ThreadAuthority(t)',
           pc'[t] \notin ExecuteSteps,
           UNCHANGED <<request, lifecycle, bound, approvalOf, consents, prepared, signed, dispatches>>
    PROVE  AuthorityInv'
  <1>1. \A b \in Attempts : Kept(b)
    BY DEF Kept, Filed
  <1>2. \A u \in Threads \ {t} : pc'[u] = pc[u] /\ cur'[u] = cur[u]
    BY DEF IInv, TypeOK, ThreadTypeOK
  <1> QED
    BY <1>1, <1>2, KeptStep

LEMMA ApprovalAuthority ==
    ASSUME IInv, AuthorityInv, NEW t \in Threads, NEW a, cur[t] = a,
           RejectConsent(t) \/ IssueApproval(t) \/ MakeApprovalAvailable(t)
    PROVE  AuthorityInv'
  <1>1. pc[t] \in {"reject", "issue", "make_available"} /\ pc[t] \in BeforeGate
    BY StepFacts DEF RejectConsent, IssueApproval, MakeApprovalAvailable, At
  <1>2. /\ UNCHANGED <<request, bound, consents, prepared, signed, dispatches>>
        /\ ~IssueApproval(t) => UNCHANGED approvalOf
    BY DEF RejectConsent, IssueApproval, MakeApprovalAvailable
  <1>3. /\ a \in Attempts /\ ThreadAuthority(t) /\ AttemptAuthority(a)
        /\ lifecycle[a] = "awaiting_approval"
    BY <1>1, Preparing DEF StateAt
  <1>4. ApprovalsTypeOK
    BY DEF IInv, TypeOK
  <1>5. ConsumedStays
    <2>1. CASE UNCHANGED approvals
      BY <2>1 DEF ConsumedStays
    <2>2. CASE IssueApproval(t)
      BY <1>4, <2>2, StoreStays DEF IssueApproval
    <2>3. CASE MakeApprovalAvailable(t)
      BY <1>4, <2>3, StoreStays DEF MakeApprovalAvailable
    <2> QED
      BY <2>1, <2>2, <2>3 DEF RejectConsent
  <1>6. CASE Finish(t, "denied") /\ UNCHANGED approvalOf
    BY <1>1, <1>2, <1>5, <1>6, FinishAuthority
  <1>7. CASE IssueApproval(t)
    <2>1. PICK id \in ApprovalIds \ SurfaceApprovals :
             /\ Issue(id, bound[a].fingerprint, Owner(a))
             /\ approvalOf' = [approvalOf EXCEPT ![a] = id]
      BY <1>7 DEF IssueApproval
    <2>2. pc' = [pc EXCEPT ![t] = "make_available"] /\ cur' = cur /\ UNCHANGED lifecycle
      BY <1>7 DEF IssueApproval, Go
    <2>3. /\ Alone(t, a) /\ lifecycle'[a] = "awaiting_approval"
          /\ pc'[t] = "make_available" /\ cur'[t] = a /\ approvalOf'[a] = id
      BY <1>2, <1>3, <2>1, <2>2 DEF Alone, ExecuteSteps, IInv, TypeOK, AttemptTypeOK, ThreadTypeOK
    <2>4. signed[a] = "approve"
      BY <1>3, <1>7 DEF IssueApproval, At, ThreadAuthority
    <2>5. ThreadAuthority(t)'
      BY <1>2, <2>1, <2>3, <2>4, ApprovalsAssumption DEF ThreadAuthority, Granted
    <2>6. bound'[a].outcome = "requires_confirmation"
      BY <1>2, <1>3 DEF AttemptAuthority
    <2> QED
      BY <1>1, <1>5, <2>3, <2>4, <2>5, <2>6, OwnerAuthority
  <1>8. CASE pc[t] = "make_available" /\ Go(t, "consume") /\ UNCHANGED <<lifecycle, approvalOf>>
    <2>1. /\ pc' = [pc EXCEPT ![t] = "consume"] /\ cur' = cur
      BY <1>8 DEF Go
    <2>2. pc'[t] = "consume" /\ cur'[t] = a
      BY <2>1 DEF IInv, TypeOK, ThreadTypeOK
    <2>3. approvalOf[a] # Nothing /\ Granted(a) /\ signed[a] # "reject"
      BY <1>3, <1>8 DEF ThreadAuthority, Owning, Steps, ConsentSteps
    <2>4. ThreadAuthority(t)'
      BY <1>2, <1>8, <2>2, <2>3 DEF ThreadAuthority, Granted
    <2> QED
      BY <1>2, <1>5, <1>8, <2>1, <2>2, <2>4, GoOnAuthority DEF ExecuteSteps
  <1> QED
    BY <1>1, <1>2, <1>6, <1>7, <1>8 DEF RejectConsent, MakeApprovalAvailable, At

LEMMA ConsumeAuthority ==
    ASSUME IInv, AuthorityInv, NEW t \in Threads, NEW a, cur[t] = a, ConsumeApproval(t)
    PROVE  AuthorityInv'
  <1> DEFINE id == approvalOf[a]
             may == CanConsume(id, bound[a].fingerprint, Owner(a))
  <1>1. pc[t] = "consume" /\ pc[t] \in BeforeGate
    BY StepFacts DEF ConsumeApproval, At
  <1>2. UNCHANGED <<request, bound, approvalOf, consents, prepared, signed, dispatches>>
    BY DEF ConsumeApproval
  <1>3. /\ a \in Attempts /\ id \in ApprovalIds /\ Granted(a) /\ signed[a] # "reject"
        /\ lifecycle[a] = "awaiting_approval" /\ bound[a].outcome = "requires_confirmation"
    <2>1. /\ a \in Attempts /\ id \in ApprovalIds \cup {Nothing} /\ lifecycle[a] = "awaiting_approval"
          /\ AttemptAuthority(a) /\ ThreadAuthority(t)
      BY <1>1, Preparing DEF StateAt
    <2> QED
      BY <1>1, <2>1 DEF AttemptAuthority, ThreadAuthority, BeforeGate
  <1>4. ApprovalsTypeOK /\ Consume(id, bound[a].fingerprint, Owner(a))
    BY DEF ConsumeApproval, IInv, TypeOK
  <1>5. ConsumedStays
    BY <1>4, StoreStays
  <1>6. CASE ~may
    BY <1>1, <1>2, <1>3, <1>5, <1>6, FinishAuthority DEF ConsumeApproval
  <1>7. CASE may
    <2>1. /\ lifecycle' = [lifecycle EXCEPT ![a] = "approved"]
          /\ pc' = [pc EXCEPT ![t] = "prepare_confirmed"] /\ cur' = cur
      BY <1>7 DEF ConsumeApproval, Advance, Transition, Go
    <2>2. /\ Alone(t, a) /\ lifecycle'[a] = "approved"
          /\ pc'[t] = "prepare_confirmed" /\ cur'[t] = a
      BY <1>2, <1>3, <2>1 DEF Alone, ExecuteSteps, IInv, TypeOK, AttemptTypeOK, ThreadTypeOK
    <2>3. /\ approvals[id].state = "available" /\ approvals'[id].state = "consumed"
          /\ approvals'[id].fingerprint = bound[a].fingerprint
          /\ approvals'[id].owner = Owner(a)
      BY <1>3, <1>4, <1>7, SpentByConsume
    <2>4. id # Nothing
      BY <1>3, ApprovalsAssumption
    <2>5. ThreadAuthority(t)'
      BY <1>2, <1>3, <2>2, <2>4 DEF ThreadAuthority
    <2>6. Backed(a)'
      <3>1. Granted(a)' <=> Granted(a)
        BY <1>2 DEF Granted
      <3>2. Owner(a)' = Owner(a) /\ approvalOf'[a] = id /\ bound'[a] = bound[a]
        BY <1>2 DEF Owner, Content
      <3> QED
        BY <1>3, <2>3, <2>4, <3>1, <3>2 DEF Backed
    <2> QED
      BY <1>1, <1>2, <1>3, <1>5, <2>2, <2>3, <2>5, <2>6, OwnerAuthority
  <1> QED
    BY <1>6, <1>7

LEMMA CheckRegistrationAuthority ==
    ASSUME IInv, AuthorityInv, NEW t \in Threads, CheckRegistration(t)
    PROVE  AuthorityInv'
  <1> DEFINE a == cur[t]
  <1>1. pc[t] = "register_check" /\ pc[t] \in BeforeGate
    BY StepFacts DEF CheckRegistration, At
  <1>2. UNCHANGED <<request, bound, approvalOf, consents, prepared, signed, dispatches>>
    BY DEF CheckRegistration
  <1>3. a \in Attempts /\ AttemptAuthority(a) /\ ThreadAuthority(t) /\ lifecycle[a] = "prepared"
    BY <1>1, Preparing DEF StateAt
  <1>4. ConsumedStays
    <2>1. ApprovalsTypeOK
      BY DEF IInv, TypeOK
    <2>2. CASE UNCHANGED approvals
      BY <2>2 DEF ConsumedStays
    <2> QED
      BY <2>1, <2>2, StoreStays DEF CheckRegistration
  <1>5. CASE Finish(t, "denied")
    BY <1>1, <1>2, <1>4, <1>5, FinishAuthority
  <1>6. CASE Done(t) /\ UNCHANGED lifecycle
    BY <1>2, <1>4, <1>6, ReturnAuthority
  <1>7. CASE GoStamped(t, "register") /\ UNCHANGED lifecycle
    <2>1. pc' = [pc EXCEPT ![t] = "register"] /\ cur' = cur
      BY <1>7 DEF GoStamped
    <2>2. pc'[t] = "register" /\ cur'[t] = a /\ signed[a] # "reject"
      BY <1>3, <2>1 DEF AttemptAuthority, IInv, TypeOK, ThreadTypeOK
    <2>3. ThreadAuthority(t)'
      BY <1>2, <2>2 DEF ThreadAuthority
    <2> QED
      BY <1>2, <1>4, <1>7, <2>1, <2>2, <2>3, GoOnAuthority DEF ExecuteSteps
  <1> QED
    BY <1>5, <1>6, <1>7 DEF CheckRegistration, NotRegistered

----------------------------------------------------------------------------
\* From the preparation to the end of the execution

\* A prepared request stays backed whatever becomes of it.
LEMMA StaysBacked ==
    ASSUME IInv, AuthorityInv, ConsumedStays, NEW a \in Attempts,
           \/ lifecycle[a] \in {"prepared", "executing"}
           \/ lifecycle[a] = "denied" /\ Executed(a),
           lifecycle'[a] \in {"prepared", "executing"} \cup Terminal,
           UNCHANGED <<request, bound, approvalOf, consents, signed>>
    PROVE  AttemptAuthority(a)' /\ Authorized(a) /\ signed[a] # "reject"
  <1>1. Authorized(a) /\ AttemptAuthority(a)
    BY DEF AuthorityInv, Authorized
  <1>2. /\ Backed(a) /\ bound[a].invocation # Nothing /\ signed[a] # "reject"
        /\ consents[a].state # "rejected"
    <2>1. Executed(a) => signed[a] # "reject"
      BY DEF AuthorityInv, ThreadAuthority, Executed, Owning, Steps, ExecuteSteps
    <2> QED
      BY <1>1, <2>1 DEF AttemptAuthority
  <1>3. approvalOf[a] \in ApprovalIds \cup {Nothing}
    BY DEF IInv, TypeOK, AttemptTypeOK
  <1>4. Backed(a)'
    <2>1. Granted(a)' <=> Granted(a)
      BY DEF Granted
    <2>2. Owner(a)' = Owner(a)
      BY DEF Owner, Content
    <2> QED
      BY <1>2, <1>3, <2>1, <2>2 DEF Backed, ConsumedStays
  <1>5. consents[a].state \notin {"pending", "expired"}
    BY DEF IInv, AllCustody, ConsentCustody, Executed, Owns, Owning, Steps, ExecuteSteps
  <1> QED
    BY <1>1, <1>2, <1>4, <1>5 DEF AttemptAuthority, Terminal

LEMMA RegisterExecutionAuthority ==
    ASSUME IInv, AuthorityInv, NEW t \in Threads, NEW a, cur[t] = a, RegisterExecution(t)
    PROVE  AuthorityInv'
  <1>1. pc[t] = "register" /\ pc[t] \in BeforeGate
    BY StepFacts DEF RegisterExecution, At
  <1>2. /\ UNCHANGED <<approvals, request, bound, approvalOf, consents, signed, dispatches>>
        /\ ConsumedStays
    BY DEF RegisterExecution, ConsumedStays
  <1>3. /\ a \in Attempts /\ lifecycle[a] = "prepared"
        /\ \A u \in Threads \ {t} : pc[u] \in Owning => cur[u] # a
    BY <1>1, Preparing DEF StateAt
  <1>4. /\ \/ pc' = [pc EXCEPT ![t] = "idle"] /\ cur' = [cur EXCEPT ![t] = Nothing]
           \/ pc' = [pc EXCEPT ![t] = "deny"] /\ cur' = cur
        /\ lifecycle' \in {lifecycle, [lifecycle EXCEPT ![a] = "denied"]}
    BY DEF RegisterExecution, NotRegistered, Finish, Transition, Done, Go
  <1>5. \A b \in Attempts \ {a} : Filed(b)' => Filed(b)
    <2> DEFINE live == [r \in RequestIds |-> IF stamp[t] >= prepared[r].expires THEN Empty
                                             ELSE prepared[r]]
               mine == [attempt |-> a, expires |-> stamp[t] + PreparationTtl]
    <2>1. prepared' \in {live, [live EXCEPT ![Rid(a)] = mine]}
      BY DEF RegisterExecution, RegisterPrepared
    <2>2. mine.attempt = a
      OBVIOUS
    <2>3. \A r \in RequestIds : live[r].attempt \in {prepared[r].attempt, Nothing}
      BY DEF Empty
    <2>4. live = [r \in RequestIds |-> live[r]]
      OBVIOUS
    <2> HIDE DEF live, mine
    <2>5. \A r \in RequestIds : prepared'[r] \in {live[r], mine}
      BY <2>1, <2>4
    <2> QED
      BY <2>2, <2>3, <2>5, AttemptAssumption DEF Filed
  <1>6. \A b \in Attempts \ {a} : Kept(b)
    BY <1>2, <1>3, <1>4, <1>5 DEF Kept, IInv, TypeOK, AttemptTypeOK
  <1>7. lifecycle'[a] \in {"prepared"} \cup Terminal
    BY <1>3, <1>4 DEF Terminal, IInv, TypeOK, AttemptTypeOK
  <1>8. AttemptAuthority(a)' /\ Authorized(a) /\ approvalOf'[a] = approvalOf[a]
    BY <1>2, <1>3, <1>7, StaysBacked
  <1>9. /\ \A u \in Threads \ {t} : pc'[u] = pc[u] /\ cur'[u] = cur[u]
        /\ pc'[t] \notin Owning \cup ExecuteSteps
    BY <1>4 DEF IInv, TypeOK, ThreadTypeOK, Owning, ExecuteSteps
  <1> QED
    BY <1>2, <1>3, <1>6, <1>8, <1>9, IdleAuthority, OneAttemptStep

\* The late denial of a request on the table, if the table of moves allows it.
LEMMA DenyRegisteredAuthority ==
    ASSUME IInv, AuthorityInv, NEW t \in Threads, NEW a, cur[t] = a, DenyRegistered(t)
    PROVE  AuthorityInv'
  <1>1. /\ UNCHANGED <<approvals, prepared, request, bound, approvalOf, consents, signed,
                       dispatches>>
        /\ ConsumedStays
    BY DEF DenyRegistered, ConsumedStays
  <1>2. /\ a \in Attempts /\ pc[t] = "deny"
        /\ lifecycle[a] \in {"prepared", "executing"} \cup Terminal
    BY DEF DenyRegistered, At, IInv, AllCustody, Custody, Placed
  <1>3. CASE Done(t) /\ UNCHANGED lifecycle
    BY <1>1, <1>3, ReturnAuthority
  <1>4. CASE Finish(t, "denied") /\ CanTransition(lifecycle[a], "denied")
    <2>1. lifecycle[a] \in {"prepared", "executing"}
      BY <1>2, <1>4 DEF CanTransition, LegalTransitions, Terminal
    <2>2. /\ pc' = [pc EXCEPT ![t] = "idle"] /\ cur' = [cur EXCEPT ![t] = Nothing]
          /\ lifecycle' = [lifecycle EXCEPT ![a] = "denied"]
      BY <1>4 DEF Finish, Transition, Done
    <2>3. lifecycle'[a] = "denied" /\ \A b \in Attempts \ {a} : lifecycle'[b] = lifecycle[b]
      BY <1>2, <2>2 DEF IInv, TypeOK, AttemptTypeOK
    <2>4. AttemptAuthority(a)' /\ Authorized(a)
      BY <1>1, <1>2, <2>1, <2>3, StaysBacked DEF Terminal
    <2>5. /\ \A u \in Threads \ {t} : pc'[u] = pc[u] /\ cur'[u] = cur[u]
          /\ pc'[t] \notin Owning \cup ExecuteSteps
      BY <2>2 DEF IInv, TypeOK, ThreadTypeOK, Owning, ExecuteSteps
    <2>6. \A b \in Attempts \ {a} : Kept(b)
      BY <1>1, <2>3 DEF Kept, Filed
    <2>7. \A b \in Attempts : AttemptAuthority(b)' /\ (Authorized(b)' => Authorized(b))
      BY <1>1, <2>4, <2>5, <2>6, KeptAuthority, RunnersKept DEF AuthorityInv
    <2> QED
      BY <1>1, <2>5, <2>7, IdleAuthority, NothingGranted
  <1> QED
    BY <1>3, <1>4 DEF DenyRegistered, FinishIfLegal

\* An envelope to execute takes a prepared record or refuses it.
LEMMA AdmitAuthority ==
    ASSUME IInv, AuthorityInv, NEW t \in Workers, Admit(t)
    PROVE  AuthorityInv'
  <1>0. t \in Threads /\ pc[t] = "idle"
    BY RuntimeAssumption DEF Admit, At
  <1>1. PICK e \in Inbox[t] :
           LET a == prepared[e.rid].attempt IN
           /\ prepared[e.rid] # Empty /\ lifecycle[a] = "prepared"
           /\ \/ Begin(t, "revalidate", a, e.content) /\ UNCHANGED lifecycle
              \/ Transition(a, "denied") /\ UNCHANGED threadVars
    BY DEF Admit
  <1>2. /\ UNCHANGED <<approvals, prepared, request, bound, approvalOf, consents, signed, dispatches>>
        /\ ConsumedStays
    BY DEF Admit, ConsumedStays
  <1>3. PICK a \in Attempts :
           /\ lifecycle[a] = "prepared"
           /\ \/ Begin(t, "revalidate", a, e.content) /\ UNCHANGED lifecycle
              \/ Transition(a, "denied") /\ UNCHANGED threadVars
    <2>1. e.rid \in RequestIds
      BY RuntimeAssumption, AttemptAssumption
    <2>2. prepared[e.rid].attempt \in Attempts
      BY <1>1, <2>1 DEF IInv, TypeOK, GateTypeOK, GateRecords
    <2> QED
      BY <1>1, <2>2
  <1>4. lifecycle'[a] \in {"prepared"} \cup Terminal
    BY <1>3 DEF Transition, Terminal, IInv, TypeOK, AttemptTypeOK
  <1>5. AttemptAuthority(a)' /\ Authorized(a) /\ signed[a] # "reject"
    BY <1>2, <1>3, <1>4, StaysBacked
  <1>6. \A b \in Attempts \ {a} : Kept(b)
    BY <1>2, <1>3 DEF Kept, Transition, Filed, IInv, TypeOK, AttemptTypeOK
  <1>7. CASE Begin(t, "revalidate", a, e.content) /\ UNCHANGED lifecycle
    <2>1. \A b \in Attempts : Kept(b)
      BY <1>2, <1>7 DEF Kept, Filed
    <2>2. /\ \A u \in Threads \ {t} : pc'[u] = pc[u] /\ cur'[u] = cur[u]
          /\ pc'[t] = "revalidate" /\ cur'[t] = a
      BY <1>0, <1>7 DEF Begin, IInv, TypeOK, ThreadTypeOK
    <2>3. ThreadAuthority(t)'
      BY <1>2, <1>5, <2>2 DEF ThreadAuthority
    <2> QED
      BY <1>2, <1>5, <2>1, <2>2, <2>3, KeptStep
  <1>8. CASE UNCHANGED threadVars
    <2>1. \A b \in Attempts : AttemptAuthority(b)' /\ (Authorized(b)' => Authorized(b))
      BY <1>2, <1>5, <1>6, <1>8, KeptAuthority, RunnersKept DEF AuthorityInv
    <2> QED
      BY <1>2, <1>8, <2>1, NothingGranted
  <1> QED
    BY <1>3, <1>7, <1>8

LEMMA ExecutionAuthority ==
    ASSUME IInv, AuthorityInv, NEW t \in Threads, NEW a, cur[t] = a,
           Revalidate(t) \/ Run(t) \/ Complete(t)
    PROVE  AuthorityInv'
  <1>1. pc[t] \in ExecuteSteps
    BY DEF Revalidate, Run, Complete, At, ExecuteSteps
  <1>2. /\ UNCHANGED <<approvals, prepared, request, bound, approvalOf, consents, signed>>
        /\ ConsumedStays
    BY DEF Revalidate, Run, Complete, ConsumedStays
  <1>3. /\ a \in Attempts /\ Executed(a)
        /\ lifecycle[a] \in {"prepared", "executing", "denied"}
    <2>1. pc[t] # "idle" /\ StateAt(pc[t]) \in {"prepared", "executing"}
      BY <1>1 DEF ExecuteSteps, StateAt
    <2> QED
      BY <1>1, <2>1 DEF IInv, AllCustody, Custody, Placed, Executed
  <1>4. /\ \/ UNCHANGED lifecycle
           \/ \E s \in {"executing"} \cup Terminal : lifecycle' = [lifecycle EXCEPT ![a] = s]
        /\ \/ UNCHANGED dispatches
           \/ dispatches' = [dispatches EXCEPT ![a] = @ + 1]
        /\ pc' = [pc EXCEPT ![t] = pc'[t]] /\ pc'[t] \in {"run", "ran", "unrun", "idle"}
        /\ pc'[t] # "idle" => cur' = cur
        /\ cur' \in {cur, [cur EXCEPT ![t] = Nothing]}
    <2>1. pc \in [Threads -> Steps]
      BY DEF IInv, TypeOK, ThreadTypeOK
    <2>2. CASE Revalidate(t)
      BY <2>1, <2>2 DEF Revalidate, Advance, FinishIfLegal, Finish, Transition, Go, Done, Terminal
    <2>3. CASE Run(t)
      BY <2>1, <2>3 DEF Run, Go
    <2>4. CASE Complete(t)
      BY <2>1, <2>4 DEF Complete, FinishIfLegal, Finish, Transition, Done, Terminal
    <2> QED
      BY <2>2, <2>3, <2>4
  <1>5. /\ lifecycle'[a] \in {"prepared", "executing"} \cup Terminal
        /\ \A b \in Attempts \ {a} : lifecycle'[b] = lifecycle[b] /\ dispatches'[b] = dispatches[b]
    BY <1>3, <1>4 DEF Terminal, IInv, TypeOK, AttemptTypeOK, HistoryTypeOK
  <1>6. AttemptAuthority(a)' /\ Authorized(a) /\ signed[a] # "reject"
    BY <1>2, <1>3, <1>5, StaysBacked
  <1>7. \A b \in Attempts \ {a} : Kept(b)
    BY <1>2, <1>5 DEF Kept, Filed
  <1>8. /\ \A u \in Threads \ {t} : pc'[u] = pc[u] /\ cur'[u] = cur[u]
        /\ pc'[t] \in ExecuteSteps => cur'[t] = a
    BY <1>4 DEF IInv, TypeOK, ThreadTypeOK, ExecuteSteps
  <1>9. \A b \in Attempts : AttemptAuthority(b)' /\ (Authorized(b)' => Authorized(b))
    BY <1>2, <1>6, <1>7, <1>8, KeptAuthority, RunnersKept DEF AuthorityInv
  <1>10. ThreadAuthority(t)'
    BY <1>2, <1>4, <1>6 DEF ThreadAuthority, Owning
  <1> QED
    BY <1>2, <1>8, <1>9, <1>10, NothingGranted

----------------------------------------------------------------------------
\* The consent

\* Registering a consent lets others expire or go, and may file an attempt
\* nobody has decided about.
LEMMA RegisterConsentAuthority ==
    ASSUME IInv, AuthorityInv, NEW t \in Threads, NEW a, cur[t] = a, RegisterConsent(t)
    PROVE  AuthorityInv'
  <1> DEFINE now == stamp[t]
  <1>1. pc[t] = "register_consent" /\ pc[t] \in BeforeGate
    BY StepFacts DEF RegisterConsent, At
  <1>2. /\ UNCHANGED <<approvals, prepared, request, bound, approvalOf, signed, dispatches>>
        /\ ConsumedStays
    BY DEF RegisterConsent, ConsumedStays
  <1>3. /\ a \in Attempts /\ lifecycle[a] = "awaiting_approval" /\ dispatches[a] = 0
        /\ ~Filed(a) /\ signed[a] = "none" /\ AttemptAuthority(a)
        /\ \A u \in Threads \ {t} : pc[u] \in Owning => cur[u] # a
    BY <1>1, Preparing DEF StateAt, ThreadAuthority
  <1>4. PICK evicted \in Evictions(now) :
           LET kept == [b \in Attempts |-> IF b \in evicted THEN NoConsent
                                           ELSE CurrentConsent(b, now)]
           IN  \/ /\ consents' = [kept EXCEPT ![a] = [state |-> "pending", created |-> now]]
                  /\ UNCHANGED lifecycle
               \/ /\ consents' = kept
                  /\ lifecycle' = [lifecycle EXCEPT ![a] = "denied"]
    BY DEF RegisterConsent, Register, Finish, Transition
  <1> DEFINE kept == [b \in Attempts |-> IF b \in evicted THEN NoConsent
                                         ELSE CurrentConsent(b, now)]
  <1>5. \A b \in Attempts :
           \/ kept[b].state \in {consents[b].state, "none"}
           \/ consents[b].state = "pending" /\ kept[b].state = "expired"
    BY DEF NoConsent, CurrentConsent, IInv, TypeOK, ConsentTypeOK, ConsentRecords
  <1>6. /\ \A b \in Attempts \ {a} : consents'[b] = kept[b] /\ lifecycle'[b] = lifecycle[b]
        /\ \/ consents'[a].state = "pending" /\ lifecycle'[a] = "awaiting_approval"
           \/ consents'[a] = kept[a] /\ lifecycle'[a] = "denied"
    <2>1. kept = [b \in Attempts |-> kept[b]]
      OBVIOUS
    <2>2. \/ /\ consents' = [kept EXCEPT ![a] = [state |-> "pending", created |-> now]]
             /\ UNCHANGED lifecycle
          \/ /\ consents' = kept
             /\ lifecycle' = [lifecycle EXCEPT ![a] = "denied"]
      BY <1>4
    <2> HIDE DEF kept
    <2> QED
      BY <1>3, <2>1, <2>2 DEF IInv, TypeOK, AttemptTypeOK
  <1> HIDE DEF kept
  <1>7. \A b \in Attempts \ {a} : Kept(b)
    BY <1>2, <1>5, <1>6 DEF Kept, Filed
  <1>8. /\ ~Authorized(a)'
        /\ \A u \in Threads \ {t} : pc'[u] = pc[u] /\ cur'[u] = cur[u]
        /\ pc'[t] \notin Owning \cup ExecuteSteps
    <2>1. /\ \A u \in Threads \ {t} : pc'[u] = pc[u] /\ cur'[u] = cur[u]
          /\ pc'[t] \notin Owning \cup ExecuteSteps
      BY DEF RegisterConsent, Finish, Done, IInv, TypeOK, ThreadTypeOK, Owning, ExecuteSteps
    <2>2. ~Executed(a)'
      BY <1>3, <2>1 DEF Executed, Owning, Steps, ExecuteSteps
    <2> QED
      BY <1>2, <1>3, <1>6, <2>1, <2>2 DEF Authorized, Filed
  <1>9. consents[a].state # "rejected"
    BY <1>3 DEF AttemptAuthority
  <1>10. AttemptAuthority(a)'
    BY <1>2, <1>3, <1>5, <1>6, <1>8, <1>9 DEF AttemptAuthority
  <1> QED
    BY <1>2, <1>3, <1>7, <1>8, <1>10, IdleAuthority, OneAttemptStep

\* A look at a record that is found overdue, decided or gone - or pending, and
\* then the thread goes on to decide it.
LEMMA LookupAuthority ==
    ASSUME IInv, AuthorityInv, NEW t \in Threads, NEW a, cur[t] = a, pc[t] \in {"get", "decide"},
           \/ FindPending(a, stamp[t]) /\ UNCHANGED lifecycle
           \/ NotPending(a, stamp[t])
           \/ UNCHANGED <<consents, lifecycle>>,
           GoStamped(t, "decide") \/ Done(t),
           UNCHANGED <<approvals, prepared, request, bound, approvalOf, signed, dispatches>>
    PROVE  AuthorityInv'
  <1>1. a \in Attempts /\ AttemptAuthority(a)
    BY DEF IInv, AllCustody, Custody, AuthorityInv
  <1>2. ConsumedStays
    BY DEF ConsumedStays
  <1>3. /\ \A b \in Attempts \ {a} : consents'[b] = consents[b] /\ lifecycle'[b] = lifecycle[b]
        /\ \/ consents'[a].state = consents[a].state
           \/ consents[a].state = "pending" /\ consents'[a].state = "expired"
        /\ \/ lifecycle'[a] = lifecycle[a]
           \/ /\ lifecycle[a] = "awaiting_approval" /\ lifecycle'[a] = "denied"
              /\ consents[a].state \in {"pending", "expired"}
    BY <1>1 DEF FindPending, NotPending, Transition, CurrentConsent, IInv, TypeOK, ConsentTypeOK,
                ConsentRecords, AttemptTypeOK
  <1>4. \A b \in Attempts \ {a} : Kept(b)
    BY <1>3 DEF Kept, Filed
  <1>5. /\ \A u \in Threads \ {t} : pc'[u] = pc[u] /\ cur'[u] = cur[u]
        /\ pc'[t] \notin Owning \cup ExecuteSteps
    BY DEF GoStamped, Done, IInv, TypeOK, ThreadTypeOK, Owning, ExecuteSteps
  <1>6. \A b \in Attempts : Executed(b)' => Executed(b)
    BY <1>5 DEF Executed
  <1>7. Authorized(a)' => Authorized(a) /\ Kept(a)
    <2>1. lifecycle[a] = "awaiting_approval" => ~Filed(a) /\ dispatches[a] = 0
      BY <1>1, AttemptAssumption DEF Filed, IInv, TypeOK, HistoryTypeOK, AllCustody, GateCustody,
                                     DispatchCustody, Terminal
    <2>2. lifecycle[a] = "awaiting_approval" => ~Executed(a)
      BY DEF Executed, IInv, AllCustody, Custody, Placed, StateAt, ExecuteSteps
    <2>3. CASE lifecycle'[a] = lifecycle[a]
      <3>1. Kept(a)
        BY <1>3, <2>3 DEF Kept, Filed
      <3> QED
        BY <1>1, <1>6, <2>3, <3>1 DEF Authorized, Kept
    <2>4. CASE lifecycle[a] = "awaiting_approval" /\ lifecycle'[a] = "denied"
      <3>1. ~Filed(a)' /\ dispatches'[a] = 0 /\ ~Executed(a)'
        BY <1>1, <1>6, <2>1, <2>2, <2>4 DEF Filed
      <3> QED
        BY <2>4, <3>1 DEF Authorized
    <2> QED
      BY <1>3, <2>3, <2>4
  <1>8. AttemptAuthority(a)'
    <2>1. CASE Kept(a)
      BY <1>1, <1>2, <1>6, <2>1, KeptAuthority DEF Authorized
    <2>2. CASE ~Kept(a)
      <3>1. lifecycle'[a] = "denied" /\ consents[a].state \in {"pending", "expired"}
        BY <1>3, <2>2 DEF Kept, Filed
      <3> QED
        BY <1>1, <1>3, <1>7, <2>2, <3>1 DEF AttemptAuthority
    <2> QED
      BY <2>1, <2>2
  <1>9. ASSUME NEW b \in Attempts
        PROVE  AttemptAuthority(b)' /\ (Authorized(b)' => Authorized(b))
    <2>1. CASE b = a
      BY <1>7, <1>8, <2>1
    <2>2. CASE b # a
      BY <1>2, <1>4, <1>6, <2>2, KeptAuthority DEF AuthorityInv, Authorized
    <2> QED
      BY <2>1, <2>2
  <1> QED
    BY <1>5, <1>9, IdleAuthority, NothingGranted

\* The decision of the user is recorded while nobody works on the request.
LEMMA DecideAuthority ==
    ASSUME IInv, AuthorityInv, NEW t \in Threads, NEW a, cur[t] = a,
           LookupConsent(t) \/ DecideConsent(t)
    PROVE  AuthorityInv'
  <1>1. pc[t] \in {"get", "decide"}
    BY DEF LookupConsent, DecideConsent, At
  <1>2. UNCHANGED <<approvals, prepared, request, bound, approvalOf, dispatches>>
    BY DEF LookupConsent, DecideConsent
  <1>3. ASSUME NEW decision \in {"approve", "reject"},
               Decide(a, decision, stamp[t]), UNCHANGED lifecycle,
               signed' = [signed EXCEPT ![a] = decision],
               Go(t, IF decision = "approve" THEN "issue" ELSE "reject")
        PROVE  AuthorityInv'
    <2>1. a \in Attempts /\ AttemptAuthority(a)
      BY <1>1 DEF IInv, AllCustody, Custody, AuthorityInv
    <2>2. consents[a].state = "pending"
      BY <1>3, <2>1 DEF Decide, IsPending, CurrentConsent, IInv, TypeOK, ConsentTypeOK,
                        ConsentRecords
    <2>3. /\ lifecycle[a] = "awaiting_approval" /\ dispatches[a] = 0
          /\ \A u \in Threads : pc[u] \in Owning => cur[u] # a
      BY <2>1, <2>2 DEF IInv, AllCustody, ConsentCustody, Owns, AttemptAuthority
    <2>4. ~Filed(a)
      BY <2>1, <2>3, AttemptAssumption DEF Filed, IInv, AllCustody, GateCustody, Terminal
    <2>5. /\ \A b \in Attempts \ {a} : consents'[b] = consents[b] /\ signed'[b] = signed[b]
          /\ signed'[a] = decision
          /\ consents'[a].state = IF decision = "approve" THEN "approved" ELSE "rejected"
      BY <1>3, <2>1 DEF Decide, IInv, TypeOK, ConsentTypeOK, ConsentRecords, HistoryTypeOK
    <2>6. \A b \in Attempts \ {a} : Kept(b)
      BY <1>2, <1>3, <2>5 DEF Kept, Filed
    <2>7. /\ \A u \in Threads \ {t} : pc'[u] = pc[u] /\ cur'[u] = cur[u]
          /\ pc'[t] = IF decision = "approve" THEN "issue" ELSE "reject"
          /\ cur'[t] = a /\ pc'[t] \notin ExecuteSteps
      BY <1>3 DEF Go, IInv, TypeOK, ThreadTypeOK, ExecuteSteps
    <2>8. ~Authorized(a)'
      <3>1. ~Executed(a)'
        BY <2>3, <2>7 DEF Executed, Owning, Steps, ExecuteSteps
      <3> QED
        BY <1>2, <1>3, <2>3, <2>4, <3>1 DEF Authorized, Filed
    <2>9. AttemptAuthority(a)'
      BY <1>2, <1>3, <2>1, <2>3, <2>5, <2>8 DEF AttemptAuthority
    <2>10. ThreadAuthority(t)'
      BY <2>5, <2>7 DEF ThreadAuthority
    <2>11. ConsumedStays
      BY <1>2 DEF ConsumedStays
    <2> QED
      BY <2>1, <2>3, <2>6, <2>7, <2>8, <2>9, <2>10, <2>11, OneAttemptStep
  <1>4. CASE LookupConsent(t)
    BY <1>1, <1>2, <1>4, LookupAuthority DEF LookupConsent
  <1>5. CASE DecideConsent(t)
    BY <1>1, <1>2, <1>3, <1>5, LookupAuthority DEF DecideConsent
  <1> QED
    BY <1>4, <1>5

LEMMA ReceiveDecisionAuthority ==
    ASSUME IInv, AuthorityInv, ReceiveDecision
    PROVE  AuthorityInv'
  <1>1. /\ UNCHANGED <<approvals, consents, prepared, request, lifecycle, bound, approvalOf,
                       signed, dispatches>>
        /\ ConsumedStays
    BY DEF ReceiveDecision, ConsumedStays
  <1>2. \A b \in Attempts : Kept(b)
    BY <1>1 DEF Kept, Filed
  <1>3. /\ \A u \in Threads \ {Consenter} : pc'[u] = pc[u] /\ cur'[u] = cur[u]
        /\ pc'[Consenter] \notin Owning \cup ExecuteSteps
    BY RuntimeAssumption DEF ReceiveDecision, Begin, IInv, TypeOK, ThreadTypeOK, Owning, ExecuteSteps
  <1> QED
    BY <1>1, <1>2, <1>3, IdleAuthority, KeptStep

----------------------------------------------------------------------------
\* A new attempt, and the environment

LEMMA ReceiveAuthority ==
    ASSUME IInv, AuthorityInv, NEW t \in Workers, Receive(t)
    PROVE  AuthorityInv'
  <1>0. t \in Threads /\ pc[t] = "idle"
    BY RuntimeAssumption DEF Receive, At
  <1>1. PICK e \in Inbox[t], a \in Attempts, s \in {"authenticated", "denied"} :
           /\ request[a] = Nothing
           /\ request' = [request EXCEPT ![a] = e]
           /\ lifecycle' = [lifecycle EXCEPT ![a] = s]
           /\ \/ s = "authenticated" /\ Begin(t, "decode", a, Nothing)
              \/ UNCHANGED threadVars
    BY DEF Receive, Transition
  <1>2. /\ UNCHANGED <<approvals, consents, prepared, bound, approvalOf, signed, dispatches>>
        /\ ConsumedStays
    BY DEF Receive, ConsumedStays
  <1>3. /\ lifecycle[a] = "received" /\ consents[a].state = "none" /\ dispatches[a] = 0
        /\ ~Filed(a)
        /\ \A u \in Threads : pc[u] # "idle" => cur[u] # a
    BY <1>1, AttemptAssumption
       DEF Filed, Started, IInv, TypeOK, HistoryTypeOK, AllCustody, Custody, Untouched, GateCustody,
           DispatchCustody, Terminal
  <1>4. AttemptAuthority(a) /\ approvalOf[a] = Nothing /\ signed[a] = "none"
    BY <1>3 DEF AuthorityInv, AttemptAuthority
  <1>5. \A b \in Attempts \ {a} : Kept(b)
    BY <1>1, <1>2 DEF Kept, Filed, IInv, TypeOK, AttemptTypeOK
  <1>6. lifecycle'[a] = s
    BY <1>1 DEF IInv, TypeOK, AttemptTypeOK
  <1>7. /\ \A u \in Threads \ {t} : pc'[u] = pc[u] /\ cur'[u] = cur[u]
        /\ pc'[t] \notin ExecuteSteps
    BY <1>0, <1>1 DEF Begin, IInv, TypeOK, ThreadTypeOK, ExecuteSteps
  <1>8. ~Authorized(a)'
    <2>1. ~Executed(a)'
      BY <1>3, <1>7 DEF Executed, ExecuteSteps
    <2> QED
      BY <1>2, <1>3, <1>6, <2>1 DEF Authorized, Filed
  <1>9. AttemptAuthority(a)'
    BY <1>2, <1>3, <1>4, <1>6, <1>8 DEF AttemptAuthority
  <1>10. ThreadAuthority(t)'
    <2>1. CASE Begin(t, "decode", a, Nothing)
      <3>1. pc'[t] = "decode" /\ cur'[t] = a
        BY <1>0, <2>1 DEF Begin, IInv, TypeOK, ThreadTypeOK
      <3> QED
        BY <1>2, <1>4, <3>1 DEF ThreadAuthority
    <2>2. CASE UNCHANGED threadVars
      BY <1>0, <2>2, IdleAuthority DEF Owning
    <2> QED
      BY <1>1, <2>1, <2>2
  <1>11. \A u \in Threads \ {t} : pc[u] \in Owning => cur[u] # a
    BY <1>3 DEF Owning
  <1> QED
    BY <1>0, <1>2, <1>5, <1>7, <1>8, <1>9, <1>10, <1>11, OneAttemptStep

LEMMA EnvironmentAuthority ==
    ASSUME IInv, AuthorityInv, Environment
    PROVE  AuthorityInv'
  <1>1. UNCHANGED <<consents, prepared, request, lifecycle, bound, approvalOf, signed,
                    dispatches, pc, cur>>
    BY DEF Environment, SurfaceOperation
  <1>2. ConsumedStays
    <2>1. ApprovalsTypeOK
      BY DEF IInv, TypeOK
    <2>2. CASE UNCHANGED approvals
      BY <2>2 DEF ConsumedStays
    <2>3. CASE SurfaceOperation
      BY <2>1, <2>3, StoreStays DEF SurfaceOperation
    <2> QED
      BY <2>2, <2>3 DEF Environment, Tick
  <1>3. \A b \in Attempts : Kept(b)
    BY <1>1 DEF Kept, Filed
  <1> QED
    BY <1>1, <1>2, <1>3, KeptStep

----------------------------------------------------------------------------
\* The authority invariant

LEMMA InitAuthority ==
    ASSUME Init
    PROVE  AuthorityInv
  <1> USE DEF Init, AttemptInit, ConsentInit, GateInit
  <1>1. \A a \in Attempts : ~Authorized(a)
    BY AttemptAssumption DEF Authorized, Filed, Executed, Empty, ExecuteSteps
  <1>2. \A a \in Attempts : AttemptAuthority(a)
    BY <1>1 DEF AttemptAuthority, NoConsent
  <1>3. \A t \in Threads : ThreadAuthority(t)
    BY DEF ThreadAuthority, Owning
  <1> QED
    BY <1>1, <1>2, <1>3 DEF AuthorityInv, SoleGrant

LEMMA StepAuthority ==
    ASSUME IInv, AuthorityInv, [Next]_vars
    PROVE  AuthorityInv'
  <1>1. ASSUME NEW t \in Workers, Receive(t) \/ Admit(t) PROVE AuthorityInv'
    BY <1>1, ReceiveAuthority, AdmitAuthority
  <1>2. CASE ReceiveDecision
    BY <1>2, ReceiveDecisionAuthority
  <1>3. ASSUME NEW t \in Threads, Continue(t) PROVE AuthorityInv'
    <2>1. PICK a : cur[t] = a
      OBVIOUS
    <2> QED
      BY <1>3, <2>1, CheckPolicyAuthority, BranchAuthority, PreparationAuthority,
         RegisterConsentAuthority, DecideAuthority, ApprovalAuthority, ConsumeAuthority,
         CheckRegistrationAuthority, RegisterExecutionAuthority, DenyRegisteredAuthority,
         ExecutionAuthority DEF Continue
  <1>4. CASE Environment
    BY <1>4, EnvironmentAuthority
  <1>5. CASE UNCHANGED vars
    <2>1. ConsumedStays /\ \A b \in Attempts : Kept(b)
      BY <1>5 DEF vars, ConsumedStays, Kept, Filed
    <2> QED
      BY <1>5, <2>1, KeptStep DEF vars
  <1> QED
    BY <1>1, <1>2, <1>3, <1>4, <1>5 DEF Next

\* What the control core authorises rests on policy or on one approval of its
\* own, from the decision to the call and after it, for any number of threads,
\* requests and approvals and any sizes of the tables.
THEOREM AuthorityInvariance == Spec => [](IInv /\ AuthorityInv)
  <1>1. Init => IInv /\ AuthorityInv
    BY InitInv, InitAuthority
  <1>2. (IInv /\ AuthorityInv) /\ [Next]_vars => (IInv /\ AuthorityInv)'
    BY StepInv, StepAuthority
  <1> QED
    BY <1>1, <1>2, PTL DEF Spec

\* A Hermes call that needs confirmation was confirmed: by a signature for this
\* attempt or an approval from another surface, consumed for exactly its action
\* (consent.py and request_state.py, whose handlers share nothing but the
\* approval store and the lifecycle).
THEOREM CallsAreConfirmed == Spec => []ConfirmedBeforeDispatch
  <1>1. ASSUME IInv, AuthorityInv PROVE ConfirmedBeforeDispatch
    <2>1. \A a \in Attempts : Dispatched(a) => Backed(a)
      BY <1>1 DEF AuthorityInv, AttemptAuthority, Authorized, Dispatched
    <2> QED
      BY <2>1 DEF ConfirmedBeforeDispatch, Backed, Granted
  <1> QED
    BY <1>1, AuthorityInvariance, PTL

\* approvals.py, consume: one approval never pays for two Hermes calls.
THEOREM ApprovalPaysOnce == Spec => []OneDispatchPerApproval
  <1>1. AuthorityInv => OneDispatchPerApproval
    BY DEF AuthorityInv, SoleGrant, OneDispatchPerApproval, Authorized, Dispatched
  <1> QED
    BY <1>1, AuthorityInvariance, PTL

\* consent.py, decide and the expiry of a record: a request whose consent was
\* rejected or ran out is never dispatched.
THEOREM RefusalIsFinal == Spec => []RefusedConsentNeverRuns
  <1>1. ASSUME IInv, AuthorityInv PROVE RefusedConsentNeverRuns
    <2> SUFFICES ASSUME NEW a \in Attempts,
                        signed[a] = "reject" \/ consents[a].state \in {"expired", "rejected"}
                 PROVE  ~Dispatched(a) /\ lifecycle[a] \in {"awaiting_approval", "denied"}
      BY DEF RefusedConsentNeverRuns
    <2>1. AttemptAuthority(a)
      BY <1>1 DEF AuthorityInv
    <2>2. CASE signed[a] = "reject"
      BY <2>1, <2>2 DEF AttemptAuthority, Dispatched
    <2>3. CASE consents[a].state = "expired"
      BY <1>1, <2>1, <2>3 DEF AttemptAuthority, Dispatched, IInv, AllCustody, ConsentCustody
    <2> QED
      BY <2>1, <2>2, <2>3 DEF AttemptAuthority
  <1> QED
    BY <1>1, AuthorityInvariance, PTL

\* execution.py, register_prepared: what is in the gate's table was authorised,
\* is routed and has left preparation.
THEOREM GateFilesAuthorized == Spec => []GateRecordsAuthorized
  <1>1. ASSUME IInv, AuthorityInv PROVE GateRecordsAuthorized
    <2> SUFFICES ASSUME NEW r \in RequestIds, prepared[r] # Empty, NEW a, a = prepared[r].attempt
                 PROVE  /\ Rid(a) = r
                        /\ lifecycle[a] \in {"prepared", "executing", "completed", "denied", "failed"}
                        /\ bound[a].invocation # Nothing
                        /\ bound[a].outcome # "must_be_denied"
                        /\ bound[a].outcome = "requires_confirmation" =>
                              /\ approvals[approvalOf[a]].state = "consumed"
                              /\ approvals[approvalOf[a]].fingerprint = bound[a].fingerprint
      BY DEF GateRecordsAuthorized
    <2>1. a \in Attempts /\ a # Nothing
      BY <1>1, AttemptAssumption DEF IInv, TypeOK, GateTypeOK, GateRecords
    <2>2. Rid(a) = r /\ lifecycle[a] \in {"prepared", "executing"} \cup Terminal
      BY <1>1, <2>1 DEF IInv, AllCustody, GateCustody
    <2>3. AttemptAuthority(a) /\ Authorized(a)
      BY <1>1, <2>1 DEF AuthorityInv, Authorized, Filed
    <2>4. Backed(a) /\ bound[a].invocation # Nothing
      BY <2>2, <2>3 DEF AttemptAuthority, Terminal
    <2> QED
      BY <2>2, <2>4 DEF Backed, Terminal
  <1> QED
    BY <1>1, AuthorityInvariance, PTL

----------------------------------------------------------------------------
\* The coordinator's tables

TablesInv ==
    /\ IsFiniteSet(Recorded)
    /\ requestIds = {Rid(a) : a \in Recorded}
    /\ \A a, b \in Recorded : Rid(a) = Rid(b) => a = b
    /\ Cardinality(Recorded) <= MaxPending

LEMMA QuietTables ==
    ASSUME TablesInv, Recorded' = Recorded, requestIds' = requestIds,
           \A b \in Recorded : request'[b] = request[b]
    PROVE  TablesInv'
  BY DEF TablesInv, Rid

\* An eviction takes a record and its request ID; a record is added only under
\* a request ID that is free, to a table that has room.
LEMMA RegisterTables ==
    ASSUME IInv, TablesInv, NEW a \in Attempts, NEW now, NEW accepted \in BOOLEAN,
           Register(a, now, accepted), UNCHANGED request
    PROVE  TablesInv'
  <1>1. PICK evicted \in Evictions(now) :
           LET kept    == [b \in Attempts |-> IF b \in evicted THEN NoConsent
                                              ELSE CurrentConsent(b, now)]
               keptIds == requestIds \ {Rid(b) : b \in evicted}
           IN  /\ accepted <=> /\ Rid(a) \notin keptIds
                               /\ Cardinality(Recorded \ evicted) < MaxPending
               /\ IF accepted
                  THEN /\ consents' = [kept EXCEPT ![a] = [state |-> "pending", created |-> now]]
                       /\ requestIds' = keptIds \cup {Rid(a)}
                  ELSE /\ consents' = kept
                       /\ requestIds' = keptIds
    BY DEF Register
  <1> DEFINE kept    == [b \in Attempts |-> IF b \in evicted THEN NoConsent
                                            ELSE CurrentConsent(b, now)]
             left    == Recorded \ evicted
             keptIds == requestIds \ {Rid(b) : b \in evicted}
  <1>2. evicted \subseteq Recorded
    BY DEF Evictions
  <1>3. IsFiniteSet(left) /\ Cardinality(left) <= MaxPending /\ Cardinality(left) \in Nat
    <2>1. /\ IsFiniteSet(left) /\ Cardinality(left) <= Cardinality(Recorded)
      BY FS_Subset DEF TablesInv
    <2>2. Cardinality(left) \in Nat /\ Cardinality(Recorded) \in Nat
      BY <2>1, FS_CardinalityType DEF TablesInv
    <2> QED
      BY <2>1, <2>2, ConsentAssumption DEF TablesInv
  <1>4. keptIds = {Rid(b) : b \in left}
    BY <1>2 DEF TablesInv
  <1>5. left = {b \in Attempts : kept[b].state # "none"}
    <2>1. ASSUME NEW b \in Attempts PROVE b \in left <=> kept[b].state # "none"
      BY DEF NoConsent, CurrentConsent, Recorded, IInv, TypeOK, ConsentTypeOK, ConsentRecords
    <2> QED
      BY <2>1 DEF Recorded
  <1>6. CASE accepted
    <2>1. /\ Rid(a) \notin keptIds /\ Cardinality(left) < MaxPending
          /\ consents' = [kept EXCEPT ![a] = [state |-> "pending", created |-> now]]
          /\ requestIds' = keptIds \cup {Rid(a)}
      BY <1>1, <1>6
    <2>2. kept = [b \in Attempts |-> kept[b]]
      OBVIOUS
    <2> HIDE DEF kept, keptIds
    <2>3. Recorded' = left \cup {a}
      <3>1. \A b \in Attempts : consents'[b].state # "none" <=> b \in left \cup {a}
        BY <1>5, <2>1, <2>2
      <3> QED
        BY <1>5, <3>1 DEF Recorded
    <2> HIDE DEF left
    <2>4. IsFiniteSet(left \cup {a}) /\ Cardinality(left \cup {a}) <= Cardinality(left) + 1
      BY <1>3, FS_AddElement
    <2>5. Cardinality(left \cup {a}) <= MaxPending
      <3>1. Cardinality(left \cup {a}) \in Nat
        BY <2>4, FS_CardinalityType
      <3> QED
        BY <1>3, <2>1, <2>4, <3>1, ConsentAssumption
    <2>6. \A b, c \in left \cup {a} : Rid(b) = Rid(c) => b = c
      <3>1. \A b, c \in left : Rid(b) = Rid(c) => b = c
        BY DEF TablesInv, left
      <3> QED
        BY <1>4, <2>1, <3>1
    <2>7. requestIds' = {Rid(b) : b \in left \cup {a}}
      BY <1>4, <2>1
    <2> QED
      BY <2>3, <2>4, <2>5, <2>6, <2>7 DEF TablesInv, Rid
  <1>7. CASE ~accepted
    <2>1. consents' = kept /\ requestIds' = keptIds
      BY <1>1, <1>7
    <2>2. Recorded' = left
      BY <1>5, <2>1 DEF Recorded
    <2>3. \A b, c \in left : Rid(b) = Rid(c) => b = c
      BY DEF TablesInv
    <2> HIDE DEF left, kept, keptIds
    <2> QED
      BY <1>3, <1>4, <2>1, <2>2, <2>3 DEF TablesInv, Rid
  <1> QED
    BY <1>6, <1>7

\* No other step adds or drops a record, or touches the request ID of one.
LEMMA StepTables ==
    ASSUME IInv, TablesInv, [Next]_vars
    PROVE  TablesInv'
  <1>1. ASSUME NEW t \in Threads, RegisterConsent(t) PROVE TablesInv'
    <2>1. cur[t] \in Attempts /\ UNCHANGED request
      BY <1>1 DEF RegisterConsent, At, IInv, AllCustody, Custody
    <2>2. Register(cur[t], stamp[t], TRUE) \/ Register(cur[t], stamp[t], FALSE)
      BY <1>1 DEF RegisterConsent
    <2> QED
      BY <2>1, <2>2, RegisterTables
  <1>2. ASSUME NEW t \in Threads, LookupConsent(t) \/ DecideConsent(t) PROVE TablesInv'
    <2>1. cur[t] \in Attempts /\ UNCHANGED <<request, requestIds>>
      BY <1>2 DEF LookupConsent, DecideConsent, At, IInv, AllCustody, Custody
    <2>2. \/ UNCHANGED consents
          \/ consents' = [consents EXCEPT ![cur[t]] = CurrentConsent(cur[t], stamp[t])]
          \/ \E s \in {"approved", "rejected"} :
                /\ consents[cur[t]].state = "pending"
                /\ consents' = [consents EXCEPT ![cur[t]].state = s]
      BY <1>2, <2>1 DEF LookupConsent, DecideConsent, FindPending, NotPending, Decide, IsPending,
                        CurrentConsent, IInv, TypeOK, ConsentTypeOK, ConsentRecords
    <2>3. ASSUME NEW b \in Attempts
          PROVE  consents'[b].state = "none" <=> consents[b].state = "none"
      BY <2>1, <2>2 DEF CurrentConsent, IInv, TypeOK, ConsentTypeOK, ConsentRecords
    <2> QED
      BY <2>1, <2>3, QuietTables DEF Recorded
  <1>3. ASSUME NEW t \in Workers, Receive(t) PROVE TablesInv'
    <2>1. PICK e \in Inbox[t], a \in Attempts :
             request[a] = Nothing /\ request' = [request EXCEPT ![a] = e]
      BY <1>3 DEF Receive
    <2>2. a \notin Recorded
      BY <2>1 DEF Recorded, IInv, AllCustody, Untouched
    <2>3. UNCHANGED <<consents, requestIds>>
      BY <1>3 DEF Receive
    <2> QED
      BY <2>1, <2>2, <2>3, QuietTables DEF Recorded, IInv, TypeOK, AttemptTypeOK
  <1>4. CASE UNCHANGED <<request, consents, requestIds>>
    BY <1>4, QuietTables DEF Recorded
  <1>5. ASSUME NEW t \in Threads,
               \/ CheckPolicy(t) \/ Branch(t) \/ PrepareDirect(t) \/ RejectConsent(t)
               \/ IssueApproval(t) \/ MakeApprovalAvailable(t) \/ ConsumeApproval(t)
               \/ PrepareConfirmed(t) \/ CheckRegistration(t) \/ RegisterExecution(t)
               \/ DenyRegistered(t) \/ Revalidate(t) \/ Run(t) \/ Complete(t) \/ Admit(t)
        PROVE  UNCHANGED <<request, consents, requestIds>>
    BY <1>5 DEF CheckPolicy, Branch, PrepareDirect, RejectConsent, IssueApproval,
                MakeApprovalAvailable, ConsumeApproval, PrepareConfirmed, CheckRegistration,
                RegisterExecution, DenyRegistered, Revalidate, Run, Complete, Admit
  <1>6. ReceiveDecision \/ Environment \/ UNCHANGED vars
           => UNCHANGED <<request, consents, requestIds>>
    BY DEF ReceiveDecision, Environment, SurfaceOperation, vars
  <1> QED
    BY <1>1, <1>2, <1>3, <1>4, <1>5, <1>6, RuntimeAssumption DEF Next, Continue

\* consent.py, register: the table of records and the set of their request IDs
\* agree, within the bound, through every expiry, eviction and refusal.
THEOREM TablesAgree == Spec => []ConsentTablesAgree
  <1>1. Init => TablesInv
    <2>1. Init => Recorded = {}
      BY DEF Init, ConsentInit, Recorded, NoConsent
    <2> QED
      BY <2>1, FS_EmptySet, ConsentAssumption DEF Init, ConsentInit, TablesInv
  <1>2. IInv /\ TablesInv /\ [Next]_vars => TablesInv'
    BY StepTables
  <1>3. ASSUME IInv, AuthorityInv, TablesInv PROVE ConsentTablesAgree
    BY <1>3 DEF ConsentTablesAgree, TablesInv, IInv, AllCustody, ConsentCustody, AuthorityInv,
                AttemptAuthority
  <1> QED
    BY <1>1, <1>2, <1>3, AuthorityInvariance, PTL DEF Spec

----------------------------------------------------------------------------
\* The authorisation contract

\* An attempt that stays open, or keeps its phase and its approval, takes no
\* step of the contract; every other legal move is one, if no approval is spent.
LEMMA ContractStep ==
    ASSUME NEW a \in Attempts,
           \A b \in Attempts \ {a} : PhaseOf(b)' = PhaseOf(b) /\ GrantOf(b)' = GrantOf(b),
           \/ /\ PhaseOf(a)' = PhaseOf(a) /\ GrantOf(a)' = GrantOf(a) /\ Spent' = Spent
           \/ /\ PhaseOf(a) = "open" /\ PhaseOf(a)' = "granted"
              /\ GrantOf(a)' = GrantOf(a) /\ Spent' = Spent
           \/ /\ PhaseOf(a) = "open" /\ PhaseOf(a)' = "granted"
              /\ GrantOf(a)' \in ApprovalIds \ Spent /\ Spent' = Spent \cup {GrantOf(a)'}
           \/ /\ PhaseOf(a) = "granted" /\ PhaseOf(a)' = "running"
              /\ GrantOf(a)' = GrantOf(a) /\ Spent' = Spent
           \/ /\ PhaseOf(a) # "closed" /\ PhaseOf(a)' = "closed"
              /\ GrantOf(a)' = Nothing /\ Spent' = Spent
    PROVE  [Authorization!AuthNext]_(Authorization!authVars)
  BY DEF Authorization!AuthNext, Authorization!authVars, Authorization!AuthorizeByPolicy,
         Authorization!AuthorizeByGrant, Authorization!Start, Authorization!Close

\* A step that spends no approval maps to the contract if it approves only what
\* policy lets proceed.
LEMMA MoveMaps ==
    ASSUME IInv, IInv', LegalMoves, Spent' = Spent, NEW a \in Attempts,
           \A b \in Attempts \ {a} : lifecycle'[b] = lifecycle[b] /\ approvalOf'[b] = approvalOf[b],
           \/ approvalOf'[a] = approvalOf[a]
           \/ PhaseOf(a) = "open" /\ PhaseOf(a)' = "open",
           lifecycle'[a] = "approved" => lifecycle[a] = "approved" \/ approvalOf'[a] = Nothing
    PROVE  [Authorization!AuthNext]_(Authorization!authVars)
  <1>1. \A b \in Attempts \ {a} : PhaseOf(b)' = PhaseOf(b) /\ GrantOf(b)' = GrantOf(b)
    BY DEF PhaseOf, GrantOf
  <1>2. lifecycle[a] \in RequestStates /\ lifecycle'[a] \in RequestStates
    BY DEF IInv, TypeOK, AttemptTypeOK
  <1>3. CASE lifecycle'[a] = lifecycle[a]
    <2>1. PhaseOf(a)' = PhaseOf(a)
      BY <1>3 DEF PhaseOf
    <2>2. GrantOf(a)' = GrantOf(a)
      BY <2>1 DEF GrantOf
    <2> QED
      BY <1>1, <2>1, <2>2, ContractStep
  <1>4. CASE lifecycle'[a] # lifecycle[a]
    <2>1. CanTransition(lifecycle[a], lifecycle'[a])
      BY <1>4 DEF LegalMoves
    <2>2. \/ PhaseOf(a)' = PhaseOf(a)
          \/ PhaseOf(a) = "open" /\ PhaseOf(a)' = "granted" /\ lifecycle'[a] = "approved"
          \/ PhaseOf(a) = "granted" /\ PhaseOf(a)' = "running"
          \/ PhaseOf(a) # "closed" /\ PhaseOf(a)' = "closed"
      BY <2>1 DEF CanTransition, LegalTransitions, PhaseOf, Terminal
    <2>3. PhaseOf(a)' = "closed" => GrantOf(a)' = Nothing
      BY DEF GrantOf
    <2>4. PhaseOf(a)' # "closed" => GrantOf(a)' = GrantOf(a)
      BY <1>4, <2>2 DEF GrantOf
    <2>5. PhaseOf(a) = "closed" => GrantOf(a) = Nothing
      BY DEF GrantOf
    <2> QED
      BY <1>1, <2>2, <2>3, <2>4, <2>5, ContractStep
  <1> QED
    BY <1>3, <1>4

\* A consumption that succeeds spends an approval nobody has spent.
LEMMA ConsumeMaps ==
    ASSUME IInv, IInv', AuthorityInv, LegalMoves, NEW t \in Threads, NEW a, cur[t] = a,
           ConsumeApproval(t)
    PROVE  [Authorization!AuthNext]_(Authorization!authVars)
  <1> DEFINE id == approvalOf[a]
             f  == bound[a].fingerprint
             o  == Owner(a)
  <1>0. pc[t] = "consume" /\ pc[t] \in BeforeGate
    BY StepFacts DEF ConsumeApproval, At
  <1>1. /\ a \in Attempts /\ id \in ApprovalIds /\ lifecycle[a] = "awaiting_approval"
        /\ lifecycle \in [Attempts -> RequestStates] /\ ApprovalsTypeOK
    BY <1>0, Preparing DEF StateAt, ThreadAuthority, IInv, TypeOK, AttemptTypeOK
  <1>2. Consume(id, f, o) /\ UNCHANGED approvalOf
    BY DEF ConsumeApproval
  <1>3. CASE CanConsume(id, f, o)
    <2>1. lifecycle' = [lifecycle EXCEPT ![a] = "approved"]
      BY <1>3 DEF ConsumeApproval, Advance, Transition
    <2>2. \A b \in Attempts \ {a} : PhaseOf(b)' = PhaseOf(b) /\ GrantOf(b)' = GrantOf(b)
      BY <1>1, <1>2, <2>1 DEF PhaseOf, GrantOf
    <2>3. PhaseOf(a) = "open" /\ PhaseOf(a)' = "granted"
      BY <1>1, <2>1 DEF PhaseOf, Terminal
    <2>4. GrantOf(a)' = id
      BY <1>2, <2>3 DEF GrantOf
    <2>5. id \notin Spent /\ Spent' = Spent \cup {id}
      BY <1>1, <1>2, <1>3, SpentByConsume DEF Spent
    <2> QED
      BY <1>1, <1>3, <2>2, <2>3, <2>4, <2>5, ContractStep
  <1>4. CASE ~CanConsume(id, f, o)
    <2>1. lifecycle' = [lifecycle EXCEPT ![a] = "denied"]
      BY <1>4 DEF ConsumeApproval, Finish, Transition
    <2>2. Spent' = Spent
      BY <1>1, <1>2, <1>4, SpentByConsume DEF Spent
    <2> QED
      BY <1>1, <1>2, <2>1, <2>2, MoveMaps
  <1> QED
    BY <1>3, <1>4

\* The store's other operations spend nothing.
LEMMA SpentStays ==
    ASSUME ApprovalsTypeOK, NEW id,
           \/ \E f, o : Issue(id, f, o)
           \/ MakeAvailable(id)
           \/ Revoke(id)
           \/ Get(id)
    PROVE  Spent' = Spent
  <1>1. ASSUME NEW i \in ApprovalIds
        PROVE  approvals'[i].state = "consumed" <=> approvals[i].state = "consumed"
    BY DEF Issue, MakeAvailable, CanMakeAvailable, Revoke, CanRevoke, Get, Move, Current,
           ApprovalsTypeOK, ApprovalRecords
  <1> QED
    BY <1>1 DEF Spent

LEMMA ContinueMaps ==
    ASSUME IInv, IInv', AuthorityInv, LegalMoves, NEW t \in Threads, NEW a, cur[t] = a,
           Continue(t)
    PROVE  [Authorization!AuthNext]_(Authorization!authVars)
  <1>1. a \in Attempts /\ ApprovalsTypeOK /\ lifecycle \in [Attempts -> RequestStates]
        /\ approvalOf \in [Attempts -> ApprovalIds \cup {Nothing}]
    <2>1. pc[t] # "idle"
      BY DEF Continue, CheckPolicy, Branch, PrepareDirect, RegisterConsent, LookupConsent,
             DecideConsent, RejectConsent, IssueApproval, MakeApprovalAvailable, ConsumeApproval,
             PrepareConfirmed, CheckRegistration, RegisterExecution, DenyRegistered, Revalidate,
             Run, Complete, At
    <2> QED
      BY <2>1 DEF IInv, TypeOK, AttemptTypeOK, AllCustody, Custody
  \* Steps that leave approvals alone and approve nothing.
  <1>2. ASSUME UNCHANGED <<approvals, approvalOf>>,
               \/ UNCHANGED lifecycle
               \/ \E s \in RequestStates \ {"approved"} : Transition(a, s)
        PROVE  [Authorization!AuthNext]_(Authorization!authVars)
    <2>1. Spent' = Spent
      BY <1>2 DEF Spent
    <2>2. \A b \in Attempts \ {a} : lifecycle'[b] = lifecycle[b]
      BY <1>1, <1>2 DEF Transition
    <2>3. lifecycle'[a] = "approved" => lifecycle[a] = "approved"
      BY <1>1, <1>2 DEF Transition
    <2> QED
      BY <1>1, <1>2, <2>1, <2>2, <2>3, MoveMaps
  <1>3. ASSUME \/ CheckPolicy(t) \/ PrepareDirect(t) \/ RegisterConsent(t) \/ LookupConsent(t)
               \/ DecideConsent(t) \/ RejectConsent(t) \/ PrepareConfirmed(t)
               \/ RegisterExecution(t) \/ DenyRegistered(t) \/ Revalidate(t) \/ Run(t) \/ Complete(t)
        PROVE  [Authorization!AuthNext]_(Authorization!authVars)
    <2>1. UNCHANGED <<approvals, approvalOf>>
      BY <1>3 DEF CheckPolicy, PrepareDirect, RegisterConsent, LookupConsent, DecideConsent,
                  RejectConsent, PrepareConfirmed, RegisterExecution, DenyRegistered, Revalidate,
                  Run, Complete
    <2>2. \/ UNCHANGED lifecycle
          \/ \E s \in RequestStates \ {"approved"} : Transition(a, s)
      <3> USE DEF RequestStates
      <3>1. CASE CheckPolicy(t) \/ PrepareDirect(t) \/ RegisterConsent(t) \/ RejectConsent(t)
        BY <3>1 DEF CheckPolicy, PrepareDirect, RegisterConsent, RejectConsent, Finish, Advance
      <3>2. CASE LookupConsent(t) \/ DecideConsent(t)
        BY <3>2 DEF LookupConsent, DecideConsent, NotPending
      <3>3. CASE PrepareConfirmed(t) \/ RegisterExecution(t)
        BY <3>3 DEF PrepareConfirmed, RegisterExecution, NotRegistered, Finish, Advance
      <3>4. CASE DenyRegistered(t) \/ Revalidate(t) \/ Run(t) \/ Complete(t)
        BY <3>4 DEF DenyRegistered, Revalidate, Run, Complete, FinishIfLegal, Finish, Advance,
                    Terminal
      <3> QED
        BY <1>3, <3>1, <3>2, <3>3, <3>4
    <2> QED
      BY <1>2, <2>1, <2>2
  <1>4. CASE Branch(t)
    <2>1. pc[t] = "branch" /\ pc[t] \in BeforeGate
      BY <1>4, StepFacts DEF Branch, At
    <2>2. lifecycle[a] = "policy_checked" /\ approvalOf[a] = Nothing
      BY <2>1, Preparing DEF StateAt, AttemptAuthority
    <2>3. Spent' = Spent
      BY <1>4 DEF Branch, Spent
    <2>4. CASE UNCHANGED approvalOf /\ \E s \in {"denied", "approved"} : Transition(a, s)
      BY <1>1, <2>2, <2>3, <2>4, MoveMaps DEF Transition
    <2>5. CASE /\ Transition(a, "awaiting_approval")
               /\ approvalOf' = [approvalOf EXCEPT ![a] = request[a].approval]
      <3>1. /\ lifecycle'[a] = "awaiting_approval"
            /\ \A b \in Attempts \ {a} :
                  lifecycle'[b] = lifecycle[b] /\ approvalOf'[b] = approvalOf[b]
        BY <1>1, <2>5 DEF Transition
      <3>2. PhaseOf(a) = "open" /\ PhaseOf(a)' = "open"
        BY <2>2, <3>1 DEF PhaseOf, Terminal
      <3> QED
        BY <1>1, <2>3, <3>1, <3>2, MoveMaps
    <2> QED
      BY <1>4, <2>4, <2>5 DEF Branch, Finish, Advance
  <1>5. CASE IssueApproval(t)
    <2>1. pc[t] = "issue" /\ pc[t] \in BeforeGate /\ UNCHANGED lifecycle
      BY <1>5, StepFacts DEF IssueApproval, At
    <2>2. lifecycle[a] = "awaiting_approval"
      BY <2>1, Preparing DEF StateAt
    <2>3. PICK id : /\ Issue(id, bound[a].fingerprint, Owner(a))
                    /\ approvalOf' = [approvalOf EXCEPT ![a] = id]
      BY <1>5 DEF IssueApproval
    <2>4. Spent' = Spent
      BY <1>1, <2>3, SpentStays
    <2>5. \A b \in Attempts \ {a} : lifecycle'[b] = lifecycle[b] /\ approvalOf'[b] = approvalOf[b]
      BY <1>1, <2>1, <2>3
    <2>6. PhaseOf(a) = "open" /\ PhaseOf(a)' = "open" /\ lifecycle'[a] # "approved"
      BY <2>1, <2>2 DEF PhaseOf, Terminal
    <2> QED
      BY <1>1, <2>4, <2>5, <2>6, MoveMaps
  <1>6. CASE MakeApprovalAvailable(t) \/ CheckRegistration(t)
    <2>1. UNCHANGED approvalOf
      BY <1>6 DEF MakeApprovalAvailable, CheckRegistration
    <2>2. UNCHANGED lifecycle \/ Transition(a, "denied")
      BY <1>6 DEF MakeApprovalAvailable, CheckRegistration, NotRegistered, Finish
    <2>3. Spent' = Spent
      <3>1. CASE UNCHANGED approvals
        BY <3>1 DEF Spent
      <3>2. CASE MakeAvailable(approvalOf[a]) \/ Get(approvalOf[a])
        BY <1>1, <3>2, SpentStays
      <3> QED
        BY <1>6, <3>1, <3>2 DEF MakeApprovalAvailable, CheckRegistration
    <2>4. /\ \A b \in Attempts \ {a} : lifecycle'[b] = lifecycle[b]
          /\ lifecycle'[a] \in {lifecycle[a], "denied"}
      BY <1>1, <2>2 DEF Transition
    <2> QED
      BY <1>1, <2>1, <2>3, <2>4, MoveMaps
  <1> QED
    BY <1>3, <1>4, <1>5, <1>6, ConsumeMaps DEF Continue

LEMMA StepMaps ==
    ASSUME IInv, IInv', AuthorityInv, LegalMoves, [Next]_vars
    PROVE  [Authorization!AuthNext]_(Authorization!authVars)
  <1>1. ASSUME NEW t \in Workers, Receive(t) \/ Admit(t)
        PROVE  [Authorization!AuthNext]_(Authorization!authVars)
    <2>1. UNCHANGED <<approvals, approvalOf>>
      BY <1>1 DEF Receive, Admit
    <2>2. Spent' = Spent
      BY <2>1 DEF Spent
    <2>3. PICK a \in Attempts :
             UNCHANGED lifecycle \/ \E s \in {"authenticated", "denied"} : Transition(a, s)
      <3>1. CASE Receive(t)
        BY <3>1 DEF Receive
      <3>2. CASE Admit(t)
        <4>1. PICK e \in Inbox[t] :
                 /\ prepared[e.rid] # Empty
                 /\ UNCHANGED lifecycle \/ Transition(prepared[e.rid].attempt, "denied")
          BY <3>2 DEF Admit
        <4>2. e.rid \in RequestIds
          BY <1>1, RuntimeAssumption, AttemptAssumption
        <4>3. prepared[e.rid].attempt \in Attempts
          BY <4>1, <4>2 DEF IInv, TypeOK, GateTypeOK, GateRecords
        <4> QED
          BY <4>1, <4>3
      <3> QED
        BY <1>1, <3>1, <3>2
    <2>4. /\ \A b \in Attempts \ {a} : lifecycle'[b] = lifecycle[b]
          /\ lifecycle'[a] \in {lifecycle[a], "authenticated", "denied"}
      BY <2>3 DEF Transition, IInv, TypeOK, AttemptTypeOK
    <2> QED
      BY <2>1, <2>2, <2>3, <2>4, MoveMaps
  <1>2. ASSUME NEW t \in Threads, Continue(t)
        PROVE  [Authorization!AuthNext]_(Authorization!authVars)
    <2>1. PICK a : cur[t] = a
      OBVIOUS
    <2> QED
      BY <1>2, <2>1, ContinueMaps
  <1>3. CASE ReceiveDecision \/ Environment \/ UNCHANGED vars
    <2>1. UNCHANGED <<lifecycle, approvalOf>>
      BY <1>3 DEF ReceiveDecision, Environment, SurfaceOperation, vars
    <2>2. Spent' = Spent
      <3>1. CASE UNCHANGED approvals
        BY <3>1 DEF Spent
      <3>2. CASE SurfaceOperation
        BY <3>2, SpentStays DEF SurfaceOperation, IInv, TypeOK
      <3> QED
        BY <1>3, <3>1, <3>2 DEF ReceiveDecision, Environment, Tick, vars
    <2>3. \A a \in Attempts : PhaseOf(a)' = PhaseOf(a) /\ GrantOf(a)' = GrantOf(a)
      BY <2>1 DEF PhaseOf, GrantOf
    <2> QED
      BY <2>2, <2>3 DEF Authorization!authVars
  <1> QED
    BY <1>1, <1>2, <1>3 DEF Next

\* The threads, tables and clocks of the core implement the contract of
\* OneShotAuthorization: an attempt is authorised once, by policy or by an
\* approval never spent before, and runs once, only while it is authorised.
THEOREM CoreImplementsContract == Spec => ImplementsOneShotAuthorization
  <1>1. Init => Authorization!AuthInit
    <2> SUFFICES ASSUME Init PROVE Authorization!AuthInit
      OBVIOUS
    <2>1. /\ \A a \in Attempts : PhaseOf(a) = "open" /\ GrantOf(a) = Nothing
          /\ Spent = {}
      BY DEF Init, AttemptInit, StoreInit, Unissued, PhaseOf, GrantOf, Spent, Terminal
    <2> QED
      BY <2>1 DEF Authorization!AuthInit
  <1>2. IInv /\ IInv' /\ AuthorityInv /\ [Next]_vars
           => [Authorization!AuthNext]_(Authorization!authVars)
    BY StepLegal, StepMaps
  <1> QED
    BY <1>1, <1>2, AuthorityInvariance, PTL
       DEF Spec, ImplementsOneShotAuthorization, Authorization!AuthSpec

----------------------------------------------------------------------------
\* The core uses the approval store only through its operations

\* A policy result, once there is one, names the action it is about.
ResultsNamed ==
    \A a \in Attempts : bound[a].outcome # "unchecked" => bound[a].fingerprint \in Fingerprints

LEMMA ResultsNamedStep ==
    ASSUME IInv, ResultsNamed, [Next]_vars
    PROVE  ResultsNamed'
  <1>1. CASE UNCHANGED bound
    BY <1>1 DEF ResultsNamed
  <1>2. ASSUME NEW t \in Threads, NEW q \in Requests, cur[t] \in Attempts,
               Bind(t, Checked(q)) \/ Bind(t, Routed(q))
        PROVE  ResultsNamed'
    <2>1. FingerprintOf[world][q] \in Fingerprints
      BY ResultType DEF IInv, TypeOK
    <2>2. \A b \in Attempts : bound'[b] = bound[b] \/ bound'[b].fingerprint \in Fingerprints
      BY <1>2, <2>1 DEF Bind, Checked, Routed, IInv, TypeOK, AttemptTypeOK
    <2> QED
      BY <2>2 DEF ResultsNamed
  <1>3. ASSUME NEW t \in Threads, CheckPolicy(t)
        PROVE  ResultsNamed'
    <2>1. cur[t] \in Attempts /\ request[cur[t]] \in Envelopes
      BY <1>3 DEF CheckPolicy, At, IInv, TypeOK, AttemptTypeOK, AllCustody, Custody
    <2>2. CASE Bind(t, Checked(Content(cur[t]))) /\ Accepted(request[cur[t]])
      <3>1. Content(cur[t]) \in Requests
        BY <2>1, <2>2, AttemptAssumption DEF Content, Accepted
      <3> QED
        BY <1>2, <2>1, <2>2, <3>1
    <2> QED
      BY <1>1, <1>3, <2>2 DEF CheckPolicy
  <1>4. ASSUME NEW t \in Threads, PrepareDirect(t) \/ PrepareConfirmed(t)
        PROVE  ResultsNamed'
    <2>1. cur[t] \in Attempts /\ Started(cur[t])
      BY <1>4 DEF PrepareDirect, PrepareConfirmed, At, IInv, AllCustody, Custody
    <2>2. Content(cur[t]) \in Requests
      BY <2>1, AttemptAssumption DEF Started, Content, Accepted, IInv, TypeOK, AttemptTypeOK
    <2>3. CASE Bind(t, Routed(Content(cur[t])))
      BY <1>2, <2>1, <2>2, <2>3
    <2> QED
      BY <1>1, <1>4, <2>3 DEF PrepareDirect, PrepareConfirmed
  <1>5. ASSUME NEW t \in Threads, Continue(t)
        PROVE  ResultsNamed'
    <2>1. \/ CheckPolicy(t) \/ PrepareDirect(t) \/ PrepareConfirmed(t)
          \/ UNCHANGED bound
      BY <1>5 DEF Continue, Branch, RegisterConsent, LookupConsent, DecideConsent, RejectConsent,
                  IssueApproval, MakeApprovalAvailable, ConsumeApproval, CheckRegistration,
                  RegisterExecution, DenyRegistered, Revalidate, Run, Complete
    <2> QED
      BY <1>1, <1>3, <1>4, <1>5, <2>1
  <1>6. ASSUME \/ \E t \in Workers : Receive(t) \/ Admit(t)
               \/ ReceiveDecision \/ Environment \/ UNCHANGED vars
        PROVE  UNCHANGED bound
    BY <1>6 DEF Receive, Admit, ReceiveDecision, Environment, SurfaceOperation, vars
  <1> QED
    BY <1>1, <1>5, <1>6 DEF Next

\* A step of a thread is one operation of the store, or none.
LEMMA ThreadUsesStore ==
    ASSUME IInv, AuthorityInv, ResultsNamed, NEW t \in Threads, Continue(t)
    PROVE  [StoreNext]_<<clock, approvals>>
  <1> DEFINE a == cur[t]
  <1>1. UNCHANGED clock
    BY DEF Continue, CheckPolicy, Branch, PrepareDirect, RegisterConsent, LookupConsent,
           DecideConsent, RejectConsent, IssueApproval, MakeApprovalAvailable, ConsumeApproval,
           PrepareConfirmed, CheckRegistration, RegisterExecution, DenyRegistered, Revalidate,
           Run, Complete
  <1>2. ASSUME NEW id \in ApprovalIds, StoreOperation(id)
        PROVE  [StoreNext]_<<clock, approvals>>
    BY <1>1, <1>2 DEF StoreNext
  <1>3. CASE UNCHANGED approvals
    BY <1>1, <1>3
  <1>4. ASSUME pc[t] \in {"issue", "make_available", "consume"}
        PROVE  /\ bound[a].fingerprint \in Fingerprints /\ Owner(a) \in Principals
               /\ pc[t] # "issue" => approvalOf[a] \in ApprovalIds
    <2>1. pc[t] \in BeforeGate /\ StateAt(pc[t]) = "awaiting_approval"
      BY <1>4 DEF BeforeGate, Owning, Steps, PrepareSteps, ConsentSteps, ExecuteSteps, StateAt
    <2>2. /\ a \in Attempts /\ lifecycle[a] = "awaiting_approval"
          /\ approvalOf[a] \in ApprovalIds \cup {Nothing}
          /\ AttemptAuthority(a) /\ ThreadAuthority(t)
      BY <2>1, Preparing
    <2>3. bound[a].fingerprint \in Fingerprints
      BY <2>2 DEF AttemptAuthority, ResultsNamed
    <2>4. Started(a)
      BY <1>4 DEF IInv, AllCustody, Custody
    <2>5. Content(a) \in Requests
      BY <2>2, <2>4, AttemptAssumption DEF Started, Content, Accepted, IInv, TypeOK, AttemptTypeOK
    <2>6. Owner(a) \in Principals
      BY <2>5, ControlPlaneAssumption DEF Owner
    <2> QED
      BY <1>4, <2>2, <2>3, <2>6 DEF ThreadAuthority
  <1>5. CASE IssueApproval(t)
    <2>1. PICK id \in ApprovalIds : Issue(id, bound[a].fingerprint, Owner(a))
      BY <1>5 DEF IssueApproval
    <2>2. StoreOperation(id)
      BY <1>4, <1>5, <2>1 DEF StoreOperation, IssueApproval, At
    <2> QED
      BY <1>2, <2>2
  <1>6. CASE MakeApprovalAvailable(t)
    <2>1. approvalOf[a] \in ApprovalIds /\ MakeAvailable(approvalOf[a])
      BY <1>4, <1>6 DEF MakeApprovalAvailable, At
    <2> QED
      BY <1>2, <2>1 DEF StoreOperation
  <1>7. CASE ConsumeApproval(t)
    <2>1. /\ bound[a].fingerprint \in Fingerprints /\ Owner(a) \in Principals
          /\ approvalOf[a] \in ApprovalIds
          /\ Consume(approvalOf[a], bound[a].fingerprint, Owner(a))
      BY <1>4, <1>7 DEF ConsumeApproval, At
    <2> QED
      BY <1>2, <2>1 DEF StoreOperation
  <1>8. CASE CheckRegistration(t)
    <2>1. pc[t] = "register_check" /\ pc[t] \in BeforeGate
      BY <1>8, StepFacts DEF CheckRegistration, At
    <2>2. approvalOf[a] \in ApprovalIds \cup {Nothing}
      BY <2>1, Preparing
    <2>3. CASE Get(approvalOf[a]) /\ approvalOf[a] # Nothing
      BY <1>2, <2>2, <2>3 DEF StoreOperation
    <2> QED
      BY <1>3, <1>8, <2>3 DEF CheckRegistration
  <1>9. \/ IssueApproval(t) \/ MakeApprovalAvailable(t) \/ ConsumeApproval(t)
        \/ CheckRegistration(t) \/ UNCHANGED approvals
    BY DEF Continue, CheckPolicy, Branch, PrepareDirect, RegisterConsent, LookupConsent,
           DecideConsent, RejectConsent, PrepareConfirmed, RegisterExecution, DenyRegistered,
           Revalidate, Run, Complete
  <1> QED
    BY <1>3, <1>5, <1>6, <1>7, <1>8, <1>9

LEMMA StepUsesStore ==
    ASSUME IInv, AuthorityInv, ResultsNamed, [Next]_vars
    PROVE  [StoreNext]_<<clock, approvals>>
  <1>1. CASE UNCHANGED <<clock, approvals>>
    BY <1>1
  <1>2. CASE Tick
    BY <1>2 DEF StoreNext
  <1>3. CASE SurfaceOperation
    <2>1. UNCHANGED clock
      BY <1>3 DEF SurfaceOperation
    <2>2. PICK id \in SurfaceApprovals :
             \/ \E q \in Requests : Issue(id, FingerprintOf[world][q], OwnerOf[q])
             \/ MakeAvailable(id) \/ Revoke(id)
      BY <1>3 DEF SurfaceOperation
    <2>3. \A q \in Requests : FingerprintOf[world][q] \in Fingerprints /\ OwnerOf[q] \in Principals
      BY ResultType DEF IInv, TypeOK
    <2>4. id \in ApprovalIds /\ StoreOperation(id)
      BY <2>2, <2>3, RuntimeAssumption DEF StoreOperation
    <2> QED
      BY <2>1, <2>4 DEF StoreNext
  <1>4. ASSUME \/ \E t \in Workers : Receive(t) \/ Admit(t)
               \/ ReceiveDecision \/ UNCHANGED vars
        PROVE  UNCHANGED <<clock, approvals>>
    BY <1>4 DEF Receive, Admit, ReceiveDecision, vars
  <1>5. CASE Environment
    BY <1>1, <1>2, <1>3, <1>5 DEF Environment
  <1>6. ASSUME NEW t \in Threads, Continue(t)
        PROVE  [StoreNext]_<<clock, approvals>>
    BY <1>6, ThreadUsesStore
  <1>7. \/ \E t \in Workers : Receive(t) \/ Admit(t)
        \/ \E t \in Threads : Continue(t)
        \/ ReceiveDecision \/ Environment \/ UNCHANGED vars
    BY DEF Next
  <1> QED
    BY <1>1, <1>4, <1>5, <1>6, <1>7

\* request_state.py, consent.py and execution.py touch an approval only through
\* ApprovalStore's operations: the core, with the other trusted surfaces, is one
\* of the callers the store's own theorems are about.
THEOREM CoreUsesStore == Spec => StoreSpec
  <1>1. Init => StoreInit /\ ResultsNamed
    BY DEF Init, AttemptInit, ResultsNamed, Unchecked
  <1>2. IInv /\ ResultsNamed /\ [Next]_vars => ResultsNamed'
    BY ResultsNamedStep
  <1>3. IInv /\ AuthorityInv /\ ResultsNamed /\ [Next]_vars => [StoreNext]_<<clock, approvals>>
    BY StepUsesStore
  <1> QED
    BY <1>1, <1>2, <1>3, AuthorityInvariance, PTL DEF Spec, StoreSpec

\* In the core too an approval is spent in time, and only once.
THEOREM CoreSpendsInTime == Spec => ConsumedInTime /\ ApprovalsStay
  BY CoreUsesStore, NoLateConsumption, OneTimeApprovals, PTL

----------------------------------------------------------------------------
\* What starts to execute is allowed then

\* An admitted execution carries a request of its attempt's principal.
Admitted ==
    \A t \in Threads : pc[t] = "revalidate" =>
        handling[t] \in Requests /\ OwnerOf[handling[t]] = Owner(cur[t])

LEMMA AdmittedStep ==
    ASSUME IInv, Admitted, [Next]_vars
    PROVE  Admitted'
  <1> SUFFICES ASSUME NEW t \in Threads, pc'[t] = "revalidate"
               PROVE  /\ handling'[t] \in Requests
                      /\ OwnerOf[handling'[t]] = Owner(cur[t])'
    BY DEF Admitted
  <1> USE DEF IInv, TypeOK, ThreadTypeOK
  <1> DEFINE Same == pc'[t] = pc[t] /\ cur'[t] = cur[t] /\ handling'[t] = handling[t]
             Carries == handling'[t] \in Requests /\ OwnerOf[handling'[t]] = Owner(cur[t])'
  <1>1. \A a \in Attempts : request[a] # Nothing => request'[a] = request[a]
    <2>1. CASE UNCHANGED request
      BY <2>1
    <2>2. ASSUME NEW u \in Workers, Receive(u)
          PROVE  \A a \in Attempts : request[a] # Nothing => request'[a] = request[a]
      <3>1. PICK a \in Attempts : /\ request[a] = Nothing
                                  /\ \E e : request' = [request EXCEPT ![a] = e]
        BY <2>2 DEF Receive
      <3> QED
        BY <3>1 DEF AttemptTypeOK
    <2>3. \/ \E u \in Workers : Receive(u)
          \/ UNCHANGED request
      BY DEF Next, Continue, CheckPolicy, Branch, PrepareDirect, RegisterConsent, LookupConsent,
             DecideConsent, RejectConsent, IssueApproval, MakeApprovalAvailable, ConsumeApproval,
             PrepareConfirmed, CheckRegistration, RegisterExecution, DenyRegistered, Revalidate,
             Run, Complete, Admit, ReceiveDecision, Environment, SurfaceOperation, vars
    <2> QED
      BY <2>1, <2>2, <2>3
  <1>2. CASE Same
    <2>1. cur[t] \in Attempts /\ request[cur[t]] # Nothing
      BY <1>2 DEF AllCustody, Custody
    <2> QED
      BY <1>1, <1>2, <2>1 DEF Admitted, Owner, Content
  <1>3. ASSUME NEW u \in Workers, Admit(u) PROVE Same \/ Carries
    <2>1. PICK e \in Inbox[u] :
             /\ Accepted(e) /\ prepared[e.rid] # Empty
             /\ LET a == prepared[e.rid].attempt IN
                   \/ StillAuthorized(a, e.content) /\ Begin(u, "revalidate", a, e.content)
                   \/ UNCHANGED threadVars
      BY <1>3 DEF Admit
    <2>2. UNCHANGED request /\ u \in Threads
      BY <1>3, RuntimeAssumption DEF Admit
    <2>3. e.content \in Requests
      BY <2>1, RuntimeAssumption, AttemptAssumption DEF Accepted
    <2> DEFINE a == prepared[e.rid].attempt
    <2>4. CASE StillAuthorized(a, e.content) /\ Begin(u, "revalidate", a, e.content)
      <3>1. OwnerOf[e.content] = Owner(a)
        BY <2>4 DEF StillAuthorized
      <3>2. cur' = [cur EXCEPT ![u] = a] /\ handling' = [handling EXCEPT ![u] = e.content]
            /\ pc' = [pc EXCEPT ![u] = "revalidate"]
        BY <2>4 DEF Begin
      <3> QED
        BY <2>2, <2>3, <3>1, <3>2 DEF Owner, Content
    <2> QED
      BY <2>1, <2>4
  <1>4. ASSUME NEW u \in Threads, Continue(u) PROVE Same
    <2>1. \/ \E s \in Steps \ {"revalidate"} : Go(u, s) \/ GoStamped(u, s)
          \/ Done(u)
      BY <1>4 DEF Continue, CheckPolicy, Branch, PrepareDirect, RegisterConsent, LookupConsent,
             DecideConsent, RejectConsent, IssueApproval, MakeApprovalAvailable, ConsumeApproval,
             PrepareConfirmed, CheckRegistration, RegisterExecution, NotRegistered,
             DenyRegistered, Revalidate, Run, Complete, FinishIfLegal, Finish, Advance, Steps, PrepareSteps, ConsentSteps, ExecuteSteps
    <2> QED
      BY <2>1 DEF Go, GoStamped, Done
  <1>5. ASSUME ReceiveDecision \/ \E u \in Workers : Receive(u) PROVE Same
    <2>1. PICK u \in Threads :
             \/ UNCHANGED threadVars
             \/ \E s \in {"get", "decode"} : \E a, q : Begin(u, s, a, q)
      BY <1>5, RuntimeAssumption DEF ReceiveDecision, Receive
    <2> QED
      BY <2>1 DEF Begin
  <1>6. ASSUME Environment \/ UNCHANGED vars PROVE Same
    BY <1>6 DEF Environment, SurfaceOperation, vars
  <1> QED
    BY <1>2, <1>3, <1>4, <1>5, <1>6 DEF Next

\* Only the end of a revalidation that found the request unchanged starts it.
LEMMA StartStep ==
    ASSUME IInv, [Next]_vars, NEW a \in Attempts,
           lifecycle[a] = "prepared", lifecycle'[a] = "executing"
    PROVE  \E t \in Threads : /\ pc[t] = "revalidate" /\ cur[t] = a
                              /\ StillAsPrepared(a, handling[t])
  <1>1. ASSUME NEW b, NEW s, s # "executing", Transition(b, s) PROVE FALSE
    BY <1>1 DEF Transition, IInv, TypeOK, AttemptTypeOK
  <1>2. CASE UNCHANGED lifecycle
    BY <1>2
  <1>3. ASSUME NEW t \in Threads, Revalidate(t)
        PROVE  pc[t] = "revalidate" /\ cur[t] = a /\ StillAsPrepared(a, handling[t])
    <2>1. /\ pc[t] = "revalidate"
          /\ \/ StillAsPrepared(cur[t], handling[t]) /\ Transition(cur[t], "executing")
             \/ Transition(cur[t], "denied")
             \/ UNCHANGED lifecycle
      BY <1>3 DEF Revalidate, At, Advance, FinishIfLegal, Finish
    <2>2. cur[t] = a
      BY <1>1, <2>1 DEF Transition, IInv, TypeOK, AttemptTypeOK
    <2> QED
      BY <1>1, <2>1, <2>2
  <1>4. ASSUME NEW t \in Threads, Continue(t), ~Revalidate(t)
        PROVE  UNCHANGED lifecycle \/ \E s : s # "executing" /\ Transition(cur[t], s)
    BY <1>4 DEF Continue, CheckPolicy, Branch, PrepareDirect, RegisterConsent, LookupConsent,
             DecideConsent, RejectConsent, IssueApproval, MakeApprovalAvailable, ConsumeApproval,
             PrepareConfirmed, CheckRegistration, RegisterExecution, NotRegistered, NotPending,
             DenyRegistered, Run, Complete, FinishIfLegal, Finish, Advance, Terminal
  <1>5. ASSUME NEW t \in Workers, Receive(t) \/ Admit(t)
        PROVE  UNCHANGED lifecycle \/ \E b, s : s # "executing" /\ Transition(b, s)
    BY <1>5 DEF Receive, Admit
  <1>6. ReceiveDecision \/ Environment \/ UNCHANGED vars => UNCHANGED lifecycle
    BY DEF ReceiveDecision, Environment, SurfaceOperation, vars
  <1> QED
    BY <1>1, <1>2, <1>3, <1>4, <1>5, <1>6 DEF Next

\* execution.py, _revalidation_error: the request an execution was asked with is
\* allowed, and routed as it was prepared, at the moment its lifecycle becomes
\* "executing", whatever the world did since it was prepared and confirmed.
THEOREM StartsAllowed == Spec => StartsAsPrepared
  <1>1. Init => Admitted
    BY DEF Init, Admitted
  <1>2. IInv /\ Admitted /\ [Next]_vars => Admitted'
    BY AdmittedStep
  <1> DEFINE Starts ==
        \A a \in Attempts :
            lifecycle[a] = "prepared" /\ lifecycle'[a] = "executing" =>
                \E t \in Threads : /\ pc[t] = "revalidate" /\ cur[t] = a
                                  /\ AllowedNow(a, handling[t])
  <1>3. ASSUME IInv, AuthorityInv, Admitted, [Next]_vars PROVE Starts
    <2> SUFFICES ASSUME NEW a \in Attempts, lifecycle[a] = "prepared", lifecycle'[a] = "executing"
                 PROVE  \E t \in Threads : /\ pc[t] = "revalidate" /\ cur[t] = a
                                           /\ AllowedNow(a, handling[t])
      OBVIOUS
    <2>1. PICK t \in Threads : /\ pc[t] = "revalidate" /\ cur[t] = a
                               /\ StillAsPrepared(a, handling[t])
      BY <1>3, StartStep
    <2> DEFINE q == handling[t]
    <2>2. q \in Requests /\ OwnerOf[q] = Owner(a)
      BY <1>3, <2>1 DEF Admitted
    <2>3. Backed(a) /\ bound[a].invocation # Nothing
      BY <1>3 DEF AuthorityInv, AttemptAuthority, Authorized
    <2>4. Routed(q) = bound[a]
      BY <2>1 DEF StillAsPrepared
    <2>5. /\ bound[a].outcome = Outcome(q) /\ bound[a].invocation = Route(q)
          /\ bound[a].fingerprint = FingerprintOf[world][q]
      BY <2>4 DEF Routed, Checked
    <2>6. AllowedNow(a, q)
      BY <2>2, <2>3, <2>4, <2>5 DEF AllowedNow, Backed
    <2> QED
      BY <2>1, <2>6
  <1> QED
    BY <1>1, <1>2, <1>3, AuthorityInvariance, PTL DEF Spec, StartsAsPrepared

=============================================================================
