--------------------------- MODULE Automation_proofs ---------------------------
(***************************************************************************)
(* Theorems about Automation, for every value of its constants.            *)
(***************************************************************************)
EXTENDS Automation, FiniteSetTheorems, TLAPS

USE DEF storeVars, cronVars, consentVars, ledger, authorityVars, history

----------------------------------------------------------------------------
\* The type invariant by component, and what the operators return

StoreType     == ApprovalsTypeOK /\ clock <= MaxClock
MainType      == main \in Calls
ConsenterType == consenter \in Decisions
WorkerType    == worker \in Workers
RunsType      == runs \in [Executions -> Runs]
HistoryType   == /\ leases \in [Jobs \X Occurrences -> Nat]
                 /\ signed \subseteq Bindings /\ stopReplied \in BOOLEAN

LEMMA TypeParts ==
    TypeOK <=> /\ StoreType /\ CronTypeOK /\ AutomationConsentTypeOK /\ AuthorityTypeOK
               /\ MainType /\ ConsenterType /\ WorkerType /\ RunsType /\ HistoryType
  BY DEF TypeOK, StoreType, MainType, ConsenterType, WorkerType, RunsType, HistoryType

\* An approval operation keeps the store well typed.
LEMMA MoveType ==
    ASSUME ApprovalsTypeOK, NEW id \in ApprovalIds, NEW s \in ApprovalStates,
           NEW may \in BOOLEAN, Move(id, s, may)
    PROVE  approvals' \in [ApprovalIds -> ApprovalRecords]
  <1>1. Current(id) \in ApprovalRecords
    BY DEF ApprovalsTypeOK, ApprovalRecords, ApprovalStates, Current
  <1>2. [Current(id) EXCEPT !.state = s] \in ApprovalRecords
    BY <1>1 DEF ApprovalRecords
  <1> QED
    BY <1>1, <1>2 DEF Move, ApprovalsTypeOK

\* An ending validity that may be asked for now is one of the deadlines.
LEMMA DeadlineFacts ==
    ASSUME StoreType
    PROVE  clock + Validity \in Deadlines /\ 0 \in Deadlines /\ clock \in Nat
  BY ApprovalsAssumption, AutomationConsentAssumption DEF StoreType, ApprovalsTypeOK, Deadlines

\* A step that leaves the tables alone keeps the authority well typed.
LEMMA AuthorityKept ==
    ASSUME AuthorityTypeOK, UNCHANGED ledger, holder' \in {"none", "runtime", "worker"},
           faulted' \in BOOLEAN, active' \in Nat
    PROVE  AuthorityTypeOK'
  BY DEF AuthorityTypeOK, LedgerTypeOK

\* Recovery turns receipts in flight into unknown ones and nothing else.
LEMMA RecoverFacts ==
    ASSUME LedgerTypeOK, Recover
    PROVE  /\ receipts' \in [Executions -> Receipts \cup {NoReceipt}]
           /\ \A e \in Executions :
                 /\ receipts'[e] # NoReceipt <=> receipts[e] # NoReceipt
                 /\ receipts'[e].job = receipts[e].job
                 /\ receipts'[e].occurrence = receipts[e].occurrence
  <1> SUFFICES ASSUME NEW e \in Executions
               PROVE  /\ receipts'[e] \in Receipts \cup {NoReceipt}
                      /\ receipts'[e] # NoReceipt <=> receipts[e] # NoReceipt
                      /\ receipts'[e].job = receipts[e].job
                      /\ receipts'[e].occurrence = receipts[e].occurrence
    BY DEF Recover
  <1>1. receipts'[e] = IF receipts[e].state = "inflight"
                       THEN [receipts[e] EXCEPT !.state = "unknown"] ELSE receipts[e]
    BY DEF Recover
  <1> QED
    BY <1>1 DEF LedgerTypeOK, Receipts, NoReceipt

\* Revoking a grant keeps the ledger well typed.
LEMMA RevokeType ==
    ASSUME LedgerTypeOK, NEW j \in Jobs, RevokeGrant(j)
    PROVE  grants' \in [Jobs -> Grants \cup {Nothing}]
  <1>1. CASE grants[j] = Nothing
    BY <1>1 DEF LedgerTypeOK, RevokeGrant
  <1>2. CASE grants[j] # Nothing
    <2>1. grants[j] \in Grants
      BY <1>2 DEF LedgerTypeOK
    <2>2. [grants[j] EXCEPT !.revoked = TRUE] \in Grants
      BY <2>1 DEF Grants
    <2> QED
      BY <1>2, <2>2 DEF LedgerTypeOK, RevokeGrant
  <1> QED
    BY <1>1, <1>2

\* Storing a grant for a signed binding keeps the ledger well typed.
LEMMA StoreGrantType ==
    ASSUME LedgerTypeOK, NEW b \in Bindings, NEW c \in Configs,
           StoreGrant(b.job, b.version, c, b.owner, b.until)
    PROVE  grants' \in [Jobs -> Grants \cup {Nothing}]
  <1>1. [version |-> b.version, config |-> c, owner |-> b.owner,
         until |-> b.until, revoked |-> FALSE] \in Grants
    BY DEF Bindings, Grants
  <1> QED
    BY <1>1 DEF LedgerTypeOK, StoreGrant, Bindings

\* A change of a job's state concerns that job, and only resuming enables it.
LEMMA SetJobFacts ==
    ASSUME CronTypeOK, NEW j, NEW s \in JobStates, SetJob(j, s)
    PROVE  /\ jobs' \in [Jobs -> JobRecords]
           /\ \A k \in Jobs : Enabled(k)' => Enabled(k) \/ s = "scheduled"
           /\ s # "scheduled" => j \notin Jobs \/ ~Enabled(j)'
           /\ \A k \in Jobs : jobs'[k].version = jobs[k].version
  <1>1. \A k \in Jobs : /\ jobs'[k] \in JobRecords
                        /\ jobs'[k].version = jobs[k].version
                        /\ jobs'[k].state = jobs[k].state \/ jobs'[k].state = s
                        /\ k = j => ~Exists(j) \/ jobs'[k].state = s
    BY DEF CronTypeOK, JobRecords, SetJob
  <1>2. jobs' \in [Jobs -> JobRecords]
    BY <1>1 DEF CronTypeOK, SetJob
  <1> QED
    BY <1>1, <1>2, jobs \in [Jobs -> JobRecords] DEF CronTypeOK, Enabled, Exists, SetJob

\* A record of the coordinator keeps its type and its binding when it expires.
LEMMA CurrentConsentFacts ==
    ASSUME AutomationConsentTypeOK, NEW c \in ConsentIds
    PROVE  /\ CurrentConsent(c) \in ConsentRecords
           /\ CurrentConsent(c).binding = consents[c].binding
           /\ CurrentConsent(c).rid = consents[c].rid
           /\ CurrentConsent(c).state \in {"none", "gone"} <=>
                 consents[c].state \in {"none", "gone"}
           /\ IsPending(c) => consents[c].state = "pending"
  BY DEF AutomationConsentTypeOK, ConsentRecords, ConsentStates, CurrentConsent, IsPending

\* What every registration keeps of the coordinator's table.
LEMMA RegisterFacts ==
    ASSUME AutomationConsentTypeOK, clock \in Nat,
           \A d \in Recorded : consents[d].binding \in Bindings,
           NEW r \in RequestIds, NEW b \in Bindings, Register(r, b)
    PROVE  /\ AutomationConsentTypeOK'
           /\ \A d \in Recorded' : consents'[d].binding \in Bindings
  <1> DEFINE kept(ev) == [d \in ConsentIds |-> IF d \in ev
                                               THEN [NoConsent EXCEPT !.state = "gone"]
                                               ELSE CurrentConsent(d)]
             new == [state |-> "pending", rid |-> r, binding |-> b, created |-> clock]
  <1>1. PICK c \in ConsentIds, ev \in Evictions :
           \/ /\ consents' = [kept(ev) EXCEPT ![c] = new]
              /\ requestIds' = (requestIds \ {consents[d].rid : d \in ev}) \cup {r}
           \/ /\ consents' = kept(ev)
              /\ requestIds' = requestIds \ {consents[d].rid : d \in ev}
    BY Zenon DEF Register
  <1>2. new \in ConsentRecords /\ new.binding \in Bindings
    BY DEF ConsentRecords, ConsentStates
  <1>3. ASSUME NEW d \in ConsentIds
        PROVE  /\ kept(ev)[d] \in ConsentRecords
               /\ kept(ev)[d].state \notin {"none", "gone"} => kept(ev)[d].binding \in Bindings
    BY <1>3, CurrentConsentFacts DEF Recorded, ConsentRecords, ConsentStates, NoConsent
  <1>4. requestIds' \subseteq RequestIds
    BY <1>1 DEF AutomationConsentTypeOK
  <1> HIDE DEF kept, new
  <1>5. \A d \in ConsentIds :
           /\ consents'[d] \in ConsentRecords
           /\ consents'[d].state \notin {"none", "gone"} => consents'[d].binding \in Bindings
    BY <1>1, <1>2, <1>3 DEF kept
  <1>6. consents' \in [ConsentIds -> ConsentRecords]
    BY <1>1, <1>5 DEF kept
  <1> QED
    BY <1>4, <1>5, <1>6 DEF AutomationConsentTypeOK, Recorded

----------------------------------------------------------------------------
\* Leases

\* While the worker does not have the ledger open, no lease is out.
LEMMA NoLeaseOut ==
    ASSUME AutomationInv, holder # "worker"
    PROVE  (\A e \in Executions : ~Working(e) /\ ~Leased(e)) /\ active = 0
  <1>1. \A e \in Executions : ~Working(e) /\ ~Leased(e)
    BY DEF AutomationInv, Custody, Working, Leased
  <1>2. {e \in Executions : Leased(e)} = {}
    BY <1>1
  <1> QED
    BY <1>1, <1>2, FS_EmptySet DEF AutomationInv, LeasesOnRecord

\* If no lease is out after a step that sets the counter to zero, the counter
\* is right.
LEMMA NoLeaseLeft ==
    ASSUME \A e \in Executions : ~Leased(e)', active' = 0
    PROVE  LeasesOnRecord'
  <1>1. {e \in Executions : Leased(e)}' = {}
    OBVIOUS
  <1> QED
    BY <1>1, FS_EmptySet DEF LeasesOnRecord

\* A step that neither starts nor ends a lease keeps the count.
LEMMA LeasesKept ==
    ASSUME AutomationInv, active' = active,
           \A e \in Executions : Leased(e)' <=> Leased(e),
           \A e \in Executions : Leased(e) =>
               /\ holder' = "worker" /\ receipts'[e] = receipts[e]
               /\ runs'[e].job = runs[e].job /\ runs'[e].occurrence = runs[e].occurrence
    PROVE  LeasesOnRecord'
  <1>1. {e \in Executions : Leased(e)}' = {e \in Executions : Leased(e)}
    OBVIOUS
  <1> QED
    BY <1>1 DEF AutomationInv, LeasesOnRecord

----------------------------------------------------------------------------
\* One lemma per action


LEMMA CheckStatusInv ==
    ASSUME AutomationInv, CheckStatus
    PROVE  AutomationInv'
  <1> USE DEF CheckStatus, ScopeOpens
  <1>1. AuthorityTypeOK'
    BY TypeParts, RecoverFacts DEF AutomationInv, AuthorityTypeOK, LedgerTypeOK,
           Grants, Receipts, NoReceipt
  <1>2. TypeOK'
    BY <1>1 DEF AutomationInv, TypeOK, CronTypeOK, AutomationConsentTypeOK, ApprovalsTypeOK
  <1>3. Custody'
    BY DEF AutomationInv, TypeOK, CronTypeOK, Custody, Phase, Working, Drained
  <1>4. Locals'
    BY DEF AutomationInv, TypeOK, CronTypeOK, Locals, Working, Recorded,
           AuthorityTypeOK, LedgerTypeOK, Grants, Receipts, NoReceipt
  <1>5. StopProgress'
    BY DEF AutomationInv, TypeOK, CronTypeOK, StopProgress, StopAllHolds, Enabled, JobRecords
  <1>6. LeasesOnRecord'
    BY NoLeaseOut, NoLeaseLeft DEF AutomationInv, Custody, Leased, Phase, Working
  <1>7. OneReceiptEach'
    BY RecoverFacts DEF AutomationInv, TypeOK, AuthorityTypeOK, OneReceiptEach, OccurrenceOnce
  <1> QED
    BY <1>2, <1>3, <1>4, <1>5, <1>6, <1>7 DEF AutomationInv

LEMMA CreateInv ==
    ASSUME AutomationInv, NEW j \in Jobs, NEW v \in JobVersions, Create(j, v)
    PROVE  AutomationInv'
  <1> USE DEF Create, ScopeOpens, ScopeDenied, CreateJob
  <1>1. CronTypeOK'
    BY TypeParts DEF AutomationInv, CronTypeOK, JobRecords, JobStates
  <1>2. AuthorityTypeOK'
    BY TypeParts, RecoverFacts DEF AutomationInv, AuthorityTypeOK, LedgerTypeOK,
           Grants, Receipts, NoReceipt
  <1>3. TypeOK'
    BY <1>1, <1>2 DEF AutomationInv, TypeOK, AutomationConsentTypeOK, ApprovalsTypeOK
  <1>4. Custody'
    BY DEF AutomationInv, TypeOK, CronTypeOK, Custody, Phase, Working, Drained
  <1>5. Locals'
    BY DEF AutomationInv, TypeOK, CronTypeOK, Locals, Working, Recorded, JobRecords,
           JobStates, AuthorityTypeOK, LedgerTypeOK, Grants, Receipts, NoReceipt
  <1>6. StopProgress'
    BY DEF AutomationInv, TypeOK, CronTypeOK, StopProgress, StopAllHolds, Enabled, JobRecords
  <1>7. LeasesOnRecord'
    <2>1. CASE holder = "worker"
      BY <2>1, LeasesKept DEF AutomationInv, TypeOK, Leased
    <2>2. CASE holder # "worker"
      BY <2>2, NoLeaseOut, NoLeaseLeft DEF AutomationInv, LeasesOnRecord, Leased
    <2> QED
      BY <2>1, <2>2
  <1>8. OneReceiptEach'
    BY RecoverFacts DEF AutomationInv, TypeOK, AuthorityTypeOK, OneReceiptEach, OccurrenceOnce
  <1> QED
    BY <1>3, <1>4, <1>5, <1>6, <1>7, <1>8 DEF AutomationInv

LEMMA LookupJobInv ==
    ASSUME AutomationInv, NEW op \in {"pause", "remove", "resume"}, NEW j \in Jobs, NEW p \in Principals,
           LookupJob(op, j, p)
    PROVE  AutomationInv'
  <1> USE DEF LookupJob, Idle, CallOf
  <1>1. MainType'
    BY TypeParts, DeadlineFacts DEF AutomationInv, MainType, Calls, Locals, CronTypeOK
  <1>2. TypeOK'
    BY <1>1 DEF AutomationInv, TypeOK, CronTypeOK, AutomationConsentTypeOK,
           AuthorityTypeOK, LedgerTypeOK, MainType, ApprovalsTypeOK
  <1>3. Custody'
    BY DEF AutomationInv, TypeOK, CronTypeOK, Custody, Phase, Working, Drained, Calls
  <1>4. Locals'
    BY DEF AutomationInv, TypeOK, CronTypeOK, Locals, Working, Recorded, MainType, Calls
  <1>5. StopProgress'
    BY DEF AutomationInv, TypeOK, CronTypeOK, StopProgress, StopAllHolds, Enabled,
           JobRecords, Calls
  <1>6. LeasesOnRecord'
    BY LeasesKept DEF AutomationInv, LeasesOnRecord, Leased
  <1>7. OneReceiptEach'
    BY DEF AutomationInv, TypeOK, CronTypeOK, OneReceiptEach, OccurrenceOnce, Calls
  <1> QED
    BY <1>2, <1>3, <1>4, <1>5, <1>6, <1>7 DEF AutomationInv

LEMMA RevokeForCallInv ==
    ASSUME AutomationInv, RevokeForCall
    PROVE  AutomationInv'
  <1> USE DEF RevokeForCall, ScopeOpens, ScopeDenied, RevokeGrant, Return, NoCall
  <1>1. AuthorityTypeOK'
    <2>1. LedgerTypeOK /\ main.job \in Jobs
      BY DEF AutomationInv, TypeOK, AuthorityTypeOK, Locals
    <2>2. grants' \in [Jobs -> Grants \cup {Nothing}]
      BY <2>1, RevokeType DEF LedgerTypeOK
    <2> QED
      BY <2>1, <2>2, RecoverFacts DEF AutomationInv, TypeOK, AuthorityTypeOK, LedgerTypeOK
  <1>2. MainType'
    BY TypeParts, DeadlineFacts DEF AutomationInv, MainType, Calls, Locals, CronTypeOK
  <1>3. TypeOK'
    BY <1>1, <1>2 DEF AutomationInv, TypeOK, CronTypeOK, AutomationConsentTypeOK,
           MainType, ApprovalsTypeOK
  <1>4. Custody'
    BY DEF AutomationInv, TypeOK, CronTypeOK, Custody, Phase, Working, Drained, Calls
  <1>5. Locals'
    BY DEF AutomationInv, TypeOK, CronTypeOK, Locals, Working, Recorded,
           AuthorityTypeOK, LedgerTypeOK, Grants, Receipts, NoReceipt, MainType, Calls
  <1>6. StopProgress'
    BY DEF AutomationInv, TypeOK, CronTypeOK, StopProgress, StopAllHolds, Enabled,
           JobRecords, Calls
  <1>7. LeasesOnRecord'
    <2>1. CASE holder = "worker"
      BY <2>1, LeasesKept DEF AutomationInv, TypeOK, Leased
    <2>2. CASE holder # "worker"
      BY <2>2, NoLeaseOut, NoLeaseLeft DEF AutomationInv, LeasesOnRecord, Leased
    <2> QED
      BY <2>1, <2>2
  <1>8. OneReceiptEach'
    BY RecoverFacts DEF AutomationInv, TypeOK, AuthorityTypeOK, OneReceiptEach, OccurrenceOnce
  <1> QED
    BY <1>3, <1>4, <1>5, <1>6, <1>7, <1>8 DEF AutomationInv

LEMMA ApplyCallInv ==
    ASSUME AutomationInv, ApplyCall
    PROVE  AutomationInv'
  <1> USE DEF ApplyCall, PauseJob, RemoveJob, Return, NoCall
  <1>1. CronTypeOK'
    BY TypeParts, SetJobFacts DEF AutomationInv, CronTypeOK, JobRecords, JobStates
  <1>2. MainType'
    BY TypeParts, DeadlineFacts DEF AutomationInv, MainType, Calls, Locals, CronTypeOK
  <1>3. TypeOK'
    BY <1>1, <1>2 DEF AutomationInv, TypeOK, AutomationConsentTypeOK, AuthorityTypeOK,
           LedgerTypeOK, MainType, ApprovalsTypeOK
  <1>4. Custody'
    BY DEF AutomationInv, TypeOK, CronTypeOK, Custody, Phase, Working, Drained, Calls
  <1>5. Locals'
    BY DEF AutomationInv, TypeOK, CronTypeOK, Locals, Working, Recorded, JobRecords,
           JobStates, MainType, Calls
  <1>6. StopProgress'
    <2>1. \A k \in Jobs : Enabled(k)' => Enabled(k)
      BY SetJobFacts DEF AutomationInv, TypeOK, JobStates, Enabled
    <2> QED
      BY <2>1 DEF AutomationInv, TypeOK, StopProgress, StopAllHolds, Calls
  <1>7. LeasesOnRecord'
    BY LeasesKept DEF AutomationInv, LeasesOnRecord, Leased
  <1>8. OneReceiptEach'
    BY DEF AutomationInv, TypeOK, CronTypeOK, OneReceiptEach, OccurrenceOnce, Calls
  <1> QED
    BY <1>3, <1>4, <1>5, <1>6, <1>7, <1>8 DEF AutomationInv

LEMMA RequestActivationInv ==
    ASSUME AutomationInv, RequestActivation
    PROVE  AutomationInv'
  <1> USE DEF RequestActivation, ScopeOpens, ScopeDenied, Return, NoCall
  <1>1. AuthorityTypeOK'
    BY TypeParts, RecoverFacts DEF AutomationInv, AuthorityTypeOK, LedgerTypeOK,
           Grants, Receipts, NoReceipt
  <1>2. AutomationConsentTypeOK'
    <2>1. CASE UNCHANGED consentVars
      BY <2>1 DEF AutomationInv, TypeOK, AutomationConsentTypeOK
    <2> DEFINE b == [job |-> main.job, version |-> main.seen.version, config |-> config,
                     owner |-> main.owner, until |-> main.until]
    <2>2. b \in Bindings /\ main.rid \in RequestIds
      BY DEF AutomationInv, TypeOK, CronTypeOK, Locals, Bindings, JobRecords, Calls
    <2>3. CASE Register(main.rid, b)
      BY <2>2, <2>3, RegisterFacts DEF AutomationInv, TypeOK, ApprovalsTypeOK, Locals
    <2> QED
      BY <2>1, <2>3
  <1>3. MainType'
    BY TypeParts, DeadlineFacts DEF AutomationInv, MainType, Calls, Locals, CronTypeOK
  <1>4. TypeOK'
    BY <1>1, <1>2, <1>3 DEF AutomationInv, TypeOK, CronTypeOK, MainType, ApprovalsTypeOK
  <1>5. Custody'
    BY DEF AutomationInv, TypeOK, CronTypeOK, Custody, Phase, Working, Drained, Calls
  <1>6. Locals'
    <2>1. CASE UNCHANGED consentVars
      BY <2>1 DEF AutomationInv, TypeOK, Locals, Recorded, Working
    <2> DEFINE b == [job |-> main.job, version |-> main.seen.version, config |-> config,
                     owner |-> main.owner, until |-> main.until]
    <2>2. b \in Bindings /\ main.rid \in RequestIds
      BY DEF AutomationInv, TypeOK, CronTypeOK, Locals, Bindings, JobRecords, Calls
    <2>3. CASE Register(main.rid, b)
      <3>1. \A d \in Recorded' : consents'[d].binding \in Bindings
        BY <2>2, <2>3, RegisterFacts DEF AutomationInv, TypeOK, ApprovalsTypeOK, Locals
      <3> QED
        BY <3>1 DEF AutomationInv, Locals, Working
    <2> QED
      BY <2>1, <2>3
  <1>7. StopProgress'
    BY DEF AutomationInv, TypeOK, CronTypeOK, StopProgress, StopAllHolds, Enabled,
           JobRecords, Calls
  <1>8. LeasesOnRecord'
    <2>1. CASE holder = "worker"
      BY <2>1, LeasesKept DEF AutomationInv, TypeOK, Leased
    <2>2. CASE holder # "worker"
      BY <2>2, NoLeaseOut, NoLeaseLeft DEF AutomationInv, LeasesOnRecord, Leased
    <2> QED
      BY <2>1, <2>2
  <1>9. OneReceiptEach'
    BY RecoverFacts DEF AutomationInv, TypeOK, AuthorityTypeOK, OneReceiptEach, OccurrenceOnce
  <1> QED
    BY <1>4, <1>5, <1>6, <1>7, <1>8, <1>9 DEF AutomationInv

LEMMA StopAllInv ==
    ASSUME AutomationInv, StopAll
    PROVE  AutomationInv'
  <1> USE DEF StopAll, ScopeOpens, GlobalStop, NoCall
  <1>1. AuthorityTypeOK'
    BY TypeParts, RecoverFacts DEF AutomationInv, AuthorityTypeOK, LedgerTypeOK,
           Grants, Receipts, NoReceipt
  <1>2. MainType'
    BY TypeParts, DeadlineFacts DEF AutomationInv, MainType, Calls, Locals, CronTypeOK
  <1>3. TypeOK'
    BY <1>1, <1>2 DEF AutomationInv, TypeOK, CronTypeOK, AutomationConsentTypeOK,
           MainType, ApprovalsTypeOK
  <1>4. Custody'
    BY DEF AutomationInv, TypeOK, CronTypeOK, Custody, Phase, Working, Drained, Calls
  <1>5. Locals'
    BY DEF AutomationInv, TypeOK, CronTypeOK, Locals, Working, Recorded,
           AuthorityTypeOK, LedgerTypeOK, Grants, Receipts, NoReceipt, MainType, Calls
  <1>6. StopProgress'
    <2>1. consenter.step # "resume" /\ main \in Calls /\ StopProgress
      BY DEF AutomationInv, TypeOK, Custody
    <2> QED
      BY <2>1 DEF StopProgress, StopAllHolds, Enabled, Calls
  <1>7. LeasesOnRecord'
    BY NoLeaseOut, NoLeaseLeft DEF AutomationInv, Custody, Leased, Phase, Working
  <1>8. OneReceiptEach'
    BY RecoverFacts DEF AutomationInv, TypeOK, AuthorityTypeOK, OneReceiptEach, OccurrenceOnce
  <1> QED
    BY <1>3, <1>4, <1>5, <1>6, <1>7, <1>8 DEF AutomationInv

LEMMA ListEnabledInv ==
    ASSUME AutomationInv, ListEnabled
    PROVE  AutomationInv'
  <1> USE DEF ListEnabled
  <1>1. MainType'
    <2> DEFINE s == {j \in Jobs : Enabled(j)}
    <2>1. s \in SUBSET Jobs
      OBVIOUS
    <2>2. main \in Calls
      BY DEF AutomationInv, TypeOK
    <2>3. main' = [main EXCEPT !.step = "pausing", !.todo = s]
      OBVIOUS
    <2> HIDE DEF s, ListEnabled
    <2> QED
      BY <2>1, <2>2, <2>3 DEF MainType, Calls
  <1>2. TypeOK'
    BY <1>1 DEF AutomationInv, TypeOK, CronTypeOK, AutomationConsentTypeOK,
           AuthorityTypeOK, LedgerTypeOK, MainType, ApprovalsTypeOK
  <1>3. Custody'
    BY DEF AutomationInv, TypeOK, CronTypeOK, Custody, Phase, Working, Drained, Calls
  <1>4. Locals'
    BY DEF AutomationInv, TypeOK, CronTypeOK, Locals, Working, Recorded, MainType, Calls
  <1>5. StopProgress'
    BY DEF AutomationInv, TypeOK, CronTypeOK, StopProgress, StopAllHolds, Enabled,
           JobRecords, Calls
  <1>6. LeasesOnRecord'
    BY LeasesKept DEF AutomationInv, LeasesOnRecord, Leased
  <1>7. OneReceiptEach'
    BY DEF AutomationInv, TypeOK, CronTypeOK, OneReceiptEach, OccurrenceOnce, Calls
  <1> QED
    BY <1>2, <1>3, <1>4, <1>5, <1>6, <1>7 DEF AutomationInv

LEMMA PauseListedInv ==
    ASSUME AutomationInv, PauseListed
    PROVE  AutomationInv'
  <1> USE DEF PauseListed, PauseJob, Return, NoCall
  <1>1. CronTypeOK'
    BY TypeParts, SetJobFacts DEF AutomationInv, CronTypeOK, JobRecords, JobStates
  <1>2. MainType'
    BY TypeParts, DeadlineFacts DEF AutomationInv, MainType, Calls, Locals, CronTypeOK
  <1>3. HistoryType'
    BY TypeParts DEF AutomationInv, HistoryType
  <1>4. TypeOK'
    BY <1>1, <1>2, <1>3 DEF AutomationInv, TypeOK, AutomationConsentTypeOK,
           AuthorityTypeOK, LedgerTypeOK, MainType, HistoryType, ApprovalsTypeOK
  <1>5. Custody'
    BY DEF AutomationInv, TypeOK, CronTypeOK, Custody, Phase, Working, Drained, Calls
  <1>6. Locals'
    BY DEF AutomationInv, TypeOK, CronTypeOK, Locals, Working, Recorded, JobRecords,
           JobStates, MainType, Calls
  <1>7. StopProgress'
    <2>1. stopped /\ CronTypeOK /\ main \in Calls /\ main.todo \subseteq Jobs
      BY DEF AutomationInv, TypeOK, StopProgress, Calls
    <2>2. CASE \E j \in main.todo : PauseJob(j) /\ main' = [main EXCEPT !.todo = @ \ {j}] /\ UNCHANGED stopReplied
      <3>1. PICK j \in main.todo : PauseJob(j) /\ main' = [main EXCEPT !.todo = @ \ {j}] /\ UNCHANGED stopReplied
        BY <2>2
      <3>2. (\A k \in Jobs : Enabled(k)' => Enabled(k)) /\ ~Enabled(j)'
        BY <2>1, <3>1, SetJobFacts DEF JobStates
      <3> QED
        BY <2>1, <3>1, <3>2 DEF AutomationInv, StopProgress, StopAllHolds, Calls
    <2>3. CASE main.todo = {} /\ main' = NoCall /\ UNCHANGED jobs
      BY <2>1, <2>3 DEF AutomationInv, StopProgress, StopAllHolds, Enabled
    <2> QED
      BY <2>2, <2>3
  <1>8. LeasesOnRecord'
    BY LeasesKept DEF AutomationInv, LeasesOnRecord, Leased
  <1>9. OneReceiptEach'
    BY DEF AutomationInv, TypeOK, CronTypeOK, OneReceiptEach, OccurrenceOnce, Calls
  <1> QED
    BY <1>4, <1>5, <1>6, <1>7, <1>8, <1>9 DEF AutomationInv

LEMMA FindConsentInv ==
    ASSUME AutomationInv, NEW c \in ConsentIds, FindConsent(c)
    PROVE  AutomationInv'
  <1> USE DEF FindConsent, Look, NoDecision
  <1>1. AutomationConsentTypeOK'
    BY CurrentConsentFacts, TypeParts DEF AutomationInv, AutomationConsentTypeOK
  <1>2. ConsenterType'
    BY TypeParts DEF AutomationInv, ConsenterType, Decisions, Locals, CronTypeOK
  <1>3. TypeOK'
    BY <1>1, <1>2 DEF AutomationInv, TypeOK, CronTypeOK, AuthorityTypeOK, LedgerTypeOK,
           ConsenterType, ApprovalsTypeOK
  <1>4. Custody'
    BY DEF AutomationInv, TypeOK, CronTypeOK, Custody, Phase, Working, Drained, Decisions
  <1>5. Locals'
    <2>1. \A d \in Recorded' : consents'[d].binding \in Bindings
      BY CurrentConsentFacts DEF AutomationInv, TypeOK, AutomationConsentTypeOK,
             Locals, Recorded
    <2> QED
      BY <2>1 DEF AutomationInv, TypeOK, Locals, Decisions, Working
  <1>6. StopProgress'
    BY DEF AutomationInv, TypeOK, CronTypeOK, StopProgress, StopAllHolds, Enabled,
           JobRecords, Decisions
  <1>7. LeasesOnRecord'
    BY LeasesKept DEF AutomationInv, LeasesOnRecord, Leased
  <1>8. OneReceiptEach'
    BY DEF AutomationInv, TypeOK, CronTypeOK, OneReceiptEach, OccurrenceOnce, Decisions
  <1> QED
    BY <1>3, <1>4, <1>5, <1>6, <1>7, <1>8 DEF AutomationInv

LEMMA VerifyAndDecideInv ==
    ASSUME AutomationInv, VerifyAndDecide
    PROVE  AutomationInv'
  <1> DEFINE c == consenter.consent
  <1>1. /\ consenter \in Decisions /\ c \in ConsentIds
        /\ CurrentConsent(c) \in ConsentRecords /\ consents[c] \in ConsentRecords
        /\ CurrentConsent(c).binding = consents[c].binding
    BY CurrentConsentFacts DEF VerifyAndDecide, AutomationInv, TypeOK, Locals,
           AutomationConsentTypeOK
  <1>2. IsPending(c) => c \in Recorded /\ consents[c].binding \in Bindings
    BY <1>1, CurrentConsentFacts DEF AutomationInv, TypeOK, Locals, Recorded
  <1>3. \/ /\ consenter' = NoDecision /\ UNCHANGED signed
           /\ \/ UNCHANGED consentVars
              \/ c \in Recorded /\ Look(c)
              \/ IsPending(c) /\ Decide(c, "reject")
        \/ /\ IsPending(c) /\ Decide(c, "approve")
           /\ consenter' = [consenter EXCEPT !.step = "lookup", !.asked = consents[c].binding]
           /\ signed' = signed \cup {consents[c].binding}
    BY DEF VerifyAndDecide, Answer
  <1> HIDE DEF c
  <1>4. /\ consenter' \in Decisions
        /\ \/ consenter'.step = "idle"
           \/ /\ consenter'.step = "lookup" /\ consenter'.consent \in ConsentIds
              /\ consenter'.asked \in Bindings
    <2>1. CASE consenter' = NoDecision
      BY <2>1 DEF Decisions, NoDecision
    <2>2. CASE /\ consents[c].binding \in Bindings
               /\ consenter' = [consenter EXCEPT !.step = "lookup", !.asked = consents[c].binding]
      <3>1. consenter' \in Decisions
        BY <1>1, <2>2 DEF Decisions
      <3> QED
        BY <1>1, <2>2, <3>1 DEF Decisions, c
    <2> QED
      BY <1>2, <1>3, <2>1, <2>2
  <1>5. /\ AutomationConsentTypeOK'
        /\ \A d \in Recorded' : consents'[d].binding \in Bindings
    <2>1. \/ consents' = consents
          \/ c \in Recorded /\ consents' = [consents EXCEPT ![c] = CurrentConsent(c)]
          \/ /\ c \in Recorded
             /\ \E s \in {"approved", "rejected"} : consents' = [consents EXCEPT ![c].state = s]
      BY <1>2, <1>3 DEF Look, Decide
    <2>2. \A s \in {"approved", "rejected"} :
             /\ [consents[c] EXCEPT !.state = s] \in ConsentRecords
             /\ [consents[c] EXCEPT !.state = s].binding = consents[c].binding
      BY <1>1 DEF ConsentRecords, ConsentStates
    <2>3. consents \in [ConsentIds -> ConsentRecords] /\ requestIds \subseteq RequestIds
      BY DEF AutomationInv, TypeOK, AutomationConsentTypeOK
    <2>4. \A d \in ConsentIds : /\ consents'[d] \in ConsentRecords
                                /\ \/ consents'[d] = consents[d]
                                   \/ d \in Recorded /\ consents'[d].binding = consents[d].binding
      BY <1>1, <2>1, <2>2, <2>3
    <2>5. consents' \in [ConsentIds -> ConsentRecords]
      BY <2>1, <2>3, <2>4
    <2>6. requestIds' = requestIds
      BY <1>3 DEF Look, Decide
    <2> QED
      BY <2>3, <2>4, <2>5, <2>6 DEF AutomationInv, AutomationConsentTypeOK, Locals, Recorded
  <1>6. /\ consenter.step = "verify" /\ signed' \subseteq Bindings
        /\ UNCHANGED <<storeVars, cronVars, authorityVars, main, worker, runs, leases, stopReplied>>
    BY <1>2, <1>3 DEF VerifyAndDecide, AutomationInv, TypeOK
  <1>7. TypeOK'
    BY <1>4, <1>5, <1>6 DEF AutomationInv, TypeOK, ApprovalsTypeOK, CronTypeOK,
           AuthorityTypeOK, LedgerTypeOK
  <1>8. Custody'
    BY <1>4, <1>6 DEF AutomationInv, Custody, Phase, Drained, Working
  <1>9. Locals'
    BY <1>4, <1>5, <1>6 DEF AutomationInv, Locals, Working
  <1>10. StopProgress'
    BY <1>4, <1>6 DEF AutomationInv, StopProgress, StopAllHolds, Enabled
  <1>11. LeasesOnRecord'
    BY <1>6, LeasesKept DEF AutomationInv, LeasesOnRecord, Leased
  <1>12. OneReceiptEach'
    BY <1>6 DEF AutomationInv, OneReceiptEach, OccurrenceOnce
  <1> QED
    BY <1>7, <1>8, <1>9, <1>10, <1>11, <1>12 DEF AutomationInv

LEMMA ReadJobInv ==
    ASSUME AutomationInv, ReadJob
    PROVE  AutomationInv'
  <1>1. /\ consenter \in Decisions /\ consenter.asked.job \in Jobs
        /\ jobs[consenter.asked.job] \in JobRecords
    BY DEF ReadJob, AutomationInv, TypeOK, CronTypeOK, Locals, Bindings
  <1>2. \/ consenter' = NoDecision
        \/ consenter' = [consenter EXCEPT !.step = "issue", !.seen = jobs[consenter.asked.job]]
    BY DEF ReadJob, Answer
  <1>3. /\ consenter' \in Decisions
        /\ \/ consenter'.step = "idle"
           \/ /\ consenter'.step = "issue" /\ consenter'.consent = consenter.consent
              /\ consenter'.asked = consenter.asked /\ consenter'.seen \in JobRecords
    <2>1. CASE consenter' = NoDecision
      BY <2>1 DEF Decisions, NoDecision
    <2>2. CASE consenter' = [consenter EXCEPT !.step = "issue", !.seen = jobs[consenter.asked.job]]
      <3>1. consenter' \in Decisions
        BY <1>1, <2>2 DEF Decisions
      <3> QED
        BY <1>1, <2>2, <3>1 DEF Decisions
    <2> QED
      BY <1>2, <2>1, <2>2
  <1>4. /\ consenter.step = "lookup"
        /\ UNCHANGED <<storeVars, cronVars, consentVars, authorityVars, main, worker, runs, history>>
    BY DEF ReadJob
  <1>5. TypeOK'
    BY <1>3, <1>4 DEF AutomationInv, TypeOK, ApprovalsTypeOK, CronTypeOK,
           AutomationConsentTypeOK, AuthorityTypeOK, LedgerTypeOK
  <1>6. Custody'
    BY <1>3, <1>4 DEF AutomationInv, Custody, Phase, Drained, Working
  <1>7. Locals'
    BY <1>3, <1>4 DEF AutomationInv, Locals, Recorded, Working
  <1>8. StopProgress'
    BY <1>3, <1>4 DEF AutomationInv, StopProgress, StopAllHolds, Enabled
  <1>9. LeasesOnRecord'
    BY <1>4, LeasesKept DEF AutomationInv, LeasesOnRecord, Leased
  <1>10. OneReceiptEach'
    BY <1>4 DEF AutomationInv, OneReceiptEach, OccurrenceOnce
  <1> QED
    BY <1>5, <1>6, <1>7, <1>8, <1>9, <1>10 DEF AutomationInv

LEMMA IssueApprovalInv ==
    ASSUME AutomationInv, IssueApproval
    PROVE  AutomationInv'
  <1> USE DEF IssueApproval
  <1>1. StoreType'
    <2>1. consenter.asked \in Fingerprints /\ consenter.asked.owner \in Principals
      BY BindingsAssumption DEF AutomationInv, Locals, Bindings
    <2>2. clock + ApprovalTtl \in Nat
      BY ApprovalsAssumption DEF AutomationInv, TypeOK, ApprovalsTypeOK
    <2>3. [state |-> "issued", fingerprint |-> consenter.asked, owner |-> consenter.asked.owner,
           expires |-> clock + ApprovalTtl] \in ApprovalRecords
      BY <2>1, <2>2 DEF ApprovalRecords, ApprovalStates
    <2> QED
      BY <2>3 DEF AutomationInv, TypeOK, StoreType, ApprovalsTypeOK, Issue
  <1>2. ConsenterType'
    BY TypeParts DEF AutomationInv, ConsenterType, Decisions, Locals, CronTypeOK
  <1>3. TypeOK'
    BY <1>1, <1>2 DEF AutomationInv, TypeOK, StoreType, CronTypeOK,
           AutomationConsentTypeOK, AuthorityTypeOK, LedgerTypeOK, ConsenterType
  <1>4. Custody'
    BY DEF AutomationInv, TypeOK, CronTypeOK, Custody, Phase, Working, Drained, Decisions
  <1>5. Locals'
    BY DEF AutomationInv, TypeOK, CronTypeOK, Locals, Working, Recorded, StoreType,
           ApprovalsTypeOK, ConsenterType, Decisions
  <1>6. StopProgress'
    BY DEF AutomationInv, TypeOK, CronTypeOK, StopProgress, StopAllHolds, Enabled,
           JobRecords, Decisions
  <1>7. LeasesOnRecord'
    BY LeasesKept DEF AutomationInv, LeasesOnRecord, Leased
  <1>8. OneReceiptEach'
    BY DEF AutomationInv, TypeOK, CronTypeOK, OneReceiptEach, OccurrenceOnce, Decisions
  <1> QED
    BY <1>3, <1>4, <1>5, <1>6, <1>7, <1>8 DEF AutomationInv

LEMMA MakeApprovalAvailableInv ==
    ASSUME AutomationInv, MakeApprovalAvailable
    PROVE  AutomationInv'
  <1> USE DEF MakeApprovalAvailable, GoOn, Answer, NoDecision
  <1>1. StoreType'
    <2>1. /\ ApprovalsTypeOK /\ clock <= MaxClock
          /\ consenter.approval \in ApprovalIds /\ "available" \in ApprovalStates
          /\ CanMakeAvailable(consenter.approval) \in BOOLEAN
      BY DEF AutomationInv, TypeOK, Locals, ApprovalStates, CanMakeAvailable
    <2>2. approvals' \in [ApprovalIds -> ApprovalRecords]
      BY <2>1, MoveType DEF MakeAvailable
    <2> QED
      BY <2>1, <2>2 DEF StoreType, ApprovalsTypeOK
  <1>2. ConsenterType'
    BY TypeParts DEF AutomationInv, ConsenterType, Decisions, Locals, CronTypeOK
  <1>3. TypeOK'
    BY <1>1, <1>2 DEF AutomationInv, TypeOK, StoreType, CronTypeOK,
           AutomationConsentTypeOK, AuthorityTypeOK, LedgerTypeOK, ConsenterType
  <1>4. Custody'
    BY DEF AutomationInv, TypeOK, CronTypeOK, Custody, Phase, Working, Drained, Decisions
  <1>5. Locals'
    BY DEF AutomationInv, TypeOK, CronTypeOK, Locals, Working, Recorded, StoreType,
           ApprovalsTypeOK, ConsenterType, Decisions
  <1>6. StopProgress'
    BY DEF AutomationInv, TypeOK, CronTypeOK, StopProgress, StopAllHolds, Enabled,
           JobRecords, Decisions
  <1>7. LeasesOnRecord'
    BY LeasesKept DEF AutomationInv, LeasesOnRecord, Leased
  <1>8. OneReceiptEach'
    BY DEF AutomationInv, TypeOK, CronTypeOK, OneReceiptEach, OccurrenceOnce, Decisions
  <1> QED
    BY <1>3, <1>4, <1>5, <1>6, <1>7, <1>8 DEF AutomationInv

LEMMA OpenAuthorityInv ==
    ASSUME AutomationInv, OpenAuthority
    PROVE  AutomationInv'
  <1> USE DEF OpenAuthority, Open, ScopeDenied, GoOn, Answer, NoDecision
  <1>1. AuthorityTypeOK'
    <2>1. /\ LedgerTypeOK /\ holder \in {"none", "runtime", "worker"}
          /\ faulted \in BOOLEAN /\ active \in Nat
      BY DEF AutomationInv, TypeOK, AuthorityTypeOK
    <2>2. receipts' \in [Executions -> Receipts \cup {NoReceipt}]
      BY <2>1, RecoverFacts DEF LedgerTypeOK
    <2>3. faulted' \in BOOLEAN
      BY <2>1, Zenon
    <2>4. holder' \in {"none", "runtime", "worker"} /\ active' \in Nat /\ UNCHANGED <<stopped, grants>>
      BY <2>1
    <2> HIDE DEF OpenAuthority
    <2> QED
      BY <2>1, <2>2, <2>3, <2>4 DEF AuthorityTypeOK, LedgerTypeOK
  <1>2. ConsenterType'
    BY TypeParts DEF AutomationInv, ConsenterType, Decisions, Locals, CronTypeOK
  <1>3. TypeOK'
    BY <1>1, <1>2 DEF AutomationInv, TypeOK, CronTypeOK, AutomationConsentTypeOK,
           ConsenterType, ApprovalsTypeOK
  <1>4. Custody'
    BY DEF AutomationInv, TypeOK, CronTypeOK, Custody, Phase, Working, Drained, Decisions
  <1>5. Locals'
    BY DEF AutomationInv, TypeOK, CronTypeOK, Locals, Working, Recorded,
           AuthorityTypeOK, LedgerTypeOK, Grants, Receipts, NoReceipt, ConsenterType,
           Decisions
  <1>6. StopProgress'
    BY DEF AutomationInv, TypeOK, CronTypeOK, StopProgress, StopAllHolds, Enabled,
           JobRecords, Decisions
  <1>7. LeasesOnRecord'
    <2>1. CASE holder = "worker"
      BY <2>1, LeasesKept DEF AutomationInv, TypeOK, Leased
    <2>2. CASE holder # "worker"
      BY <2>2, NoLeaseOut, NoLeaseLeft DEF AutomationInv, LeasesOnRecord, Leased
    <2> QED
      BY <2>1, <2>2
  <1>8. OneReceiptEach'
    BY RecoverFacts DEF AutomationInv, TypeOK, AuthorityTypeOK, OneReceiptEach, OccurrenceOnce
  <1> QED
    BY <1>3, <1>4, <1>5, <1>6, <1>7, <1>8 DEF AutomationInv

LEMMA RebindInv ==
    ASSUME AutomationInv, Rebind
    PROVE  AutomationInv'
  <1> DEFINE b == [consenter.asked EXCEPT !.version = consenter.seen.version, !.config = config]
  <1>1. consenter \in Decisions /\ b \in Bindings
    BY DEF Rebind, AutomationInv, TypeOK, CronTypeOK, Locals, Bindings, JobRecords
  <1>2. \/ consenter' = NoDecision /\ Close
        \/ /\ consenter' = [consenter EXCEPT !.step = "activate", !.bound = b]
           /\ UNCHANGED <<holder, faulted, active>>
    BY DEF Rebind, Answer
  <1> HIDE DEF b
  <1>3. /\ consenter' \in Decisions
        /\ \/ consenter'.step = "idle" /\ Close
           \/ /\ consenter'.step = "activate" /\ consenter'.consent = consenter.consent
              /\ consenter'.asked = consenter.asked /\ consenter'.seen = consenter.seen
              /\ consenter'.approval = consenter.approval /\ consenter'.bound \in Bindings
              /\ UNCHANGED <<holder, faulted, active>>
    <2>1. CASE consenter' = NoDecision /\ Close
      BY <2>1 DEF Decisions, NoDecision
    <2>2. CASE /\ consenter' = [consenter EXCEPT !.step = "activate", !.bound = b]
               /\ UNCHANGED <<holder, faulted, active>>
      <3>1. consenter' \in Decisions
        BY <1>1, <2>2 DEF Decisions
      <3> QED
        BY <1>1, <2>2, <3>1 DEF Decisions
    <2> QED
      BY <1>2, <2>1, <2>2
  <1>4. /\ consenter.step = "bind"
        /\ UNCHANGED <<storeVars, cronVars, consentVars, ledger, main, worker, runs, history>>
    BY DEF Rebind
  <1>5. TypeOK'
    <2>1. AuthorityTypeOK'
      <3>1. /\ AuthorityTypeOK /\ holder \in {"none", "runtime", "worker"}
            /\ faulted \in BOOLEAN /\ active \in Nat
        BY DEF AutomationInv, TypeOK, AuthorityTypeOK
      <3>2. faulted' \in BOOLEAN
        BY <1>3, <3>1, Zenon DEF Close
      <3> QED
        BY <1>3, <1>4, <3>1, <3>2, AuthorityKept DEF Close
    <2> QED
      BY <1>3, <1>4, <2>1 DEF AutomationInv, TypeOK, ApprovalsTypeOK, CronTypeOK,
             AutomationConsentTypeOK
  <1>6. Custody'
    BY <1>3, <1>4 DEF AutomationInv, Custody, Phase, Drained, Working, Close
  <1>7. Locals'
    BY <1>3, <1>4 DEF AutomationInv, Locals, Recorded, Working
  <1>8. StopProgress'
    BY <1>3, <1>4 DEF AutomationInv, StopProgress, StopAllHolds, Enabled
  <1>9. LeasesOnRecord'
    BY <1>3, <1>4, NoLeaseOut, NoLeaseLeft DEF AutomationInv, Custody, Leased, Close,
           LeasesOnRecord
  <1>10. OneReceiptEach'
    BY <1>4 DEF AutomationInv, OneReceiptEach, OccurrenceOnce
  <1> QED
    BY <1>5, <1>6, <1>7, <1>8, <1>9, <1>10 DEF AutomationInv

LEMMA ActivateInv ==
    ASSUME AutomationInv, Activate
    PROVE  AutomationInv'
  <1> USE DEF Activate, StoreGrant, Close, GoOn, Answer, NoDecision
  <1>1. StoreType'
    <2> DEFINE b == consenter.bound
    <2>1. /\ ApprovalsTypeOK /\ clock <= MaxClock
          /\ consenter.approval \in ApprovalIds /\ "consumed" \in ApprovalStates
          /\ CanConsume(consenter.approval, b, b.owner) \in BOOLEAN
      BY DEF AutomationInv, TypeOK, Locals, ApprovalStates, CanConsume
    <2>2. approvals' \in [ApprovalIds -> ApprovalRecords]
      <3>1. CASE Consume(consenter.approval, b, b.owner)
        BY <2>1, <3>1, MoveType DEF Consume
      <3> QED
        BY <2>1, <3>1 DEF ApprovalsTypeOK
    <2> QED
      BY <2>1, <2>2 DEF StoreType, ApprovalsTypeOK
  <1>2. AuthorityTypeOK'
    <2> DEFINE b == consenter.bound
    <2>1. /\ b \in Bindings /\ config \in Configs /\ LedgerTypeOK
          /\ holder \in {"none", "runtime", "worker"} /\ faulted \in BOOLEAN /\ active \in Nat
      BY DEF AutomationInv, TypeOK, CronTypeOK, AuthorityTypeOK, Locals
    <2>2. StoreGrant(b.job, b.version, config, b.owner, b.until) \/ UNCHANGED grants
      OBVIOUS
    <2>3. /\ \/ UNCHANGED <<holder, faulted, active>>
             \/ holder' = "none" /\ faulted' = FALSE /\ active' = 0
          /\ UNCHANGED <<stopped, receipts>>
      OBVIOUS
    <2>5. faulted' \in BOOLEAN
      BY <2>1, <2>3, Zenon
    <2> HIDE DEF Activate, StoreGrant
    <2>4. grants' \in [Jobs -> Grants \cup {Nothing}]
      BY <2>1, <2>2, StoreGrantType DEF LedgerTypeOK
    <2> QED
      BY <2>1, <2>3, <2>4, <2>5 DEF AuthorityTypeOK, LedgerTypeOK
  <1>3. ConsenterType'
    BY TypeParts DEF AutomationInv, ConsenterType, Decisions, Locals, CronTypeOK
  <1>4. TypeOK'
    BY <1>1, <1>2, <1>3 DEF AutomationInv, TypeOK, StoreType, CronTypeOK,
           AutomationConsentTypeOK, ConsenterType
  <1>5. Custody'
    BY DEF AutomationInv, TypeOK, CronTypeOK, Custody, Phase, Working, Drained, Decisions
  <1>6. Locals'
    BY DEF AutomationInv, TypeOK, CronTypeOK, Locals, Working, Recorded, StoreType,
           ApprovalsTypeOK, AuthorityTypeOK, LedgerTypeOK, Grants, Receipts, NoReceipt,
           ConsenterType, Decisions
  <1>7. StopProgress'
    BY DEF AutomationInv, TypeOK, Decisions, MayActivate, StopProgress, StopAllHolds, Enabled
  <1>8. LeasesOnRecord'
    BY NoLeaseOut, NoLeaseLeft DEF AutomationInv, Custody, Leased, Phase, Working
  <1>9. OneReceiptEach'
    BY DEF AutomationInv, TypeOK, CronTypeOK, OneReceiptEach, OccurrenceOnce, Decisions
  <1> QED
    BY <1>4, <1>5, <1>6, <1>7, <1>8, <1>9 DEF AutomationInv

LEMMA ResumeInv ==
    ASSUME AutomationInv, Resume
    PROVE  AutomationInv'
  <1> USE DEF Resume, ResumeJob, RevokeGrant, Close, Answer, NoDecision
  <1>1. CronTypeOK'
    BY TypeParts, SetJobFacts DEF AutomationInv, CronTypeOK, JobRecords, JobStates
  <1>2. AuthorityTypeOK'
    <2>1. LedgerTypeOK /\ consenter.asked.job \in Jobs
      BY DEF AutomationInv, TypeOK, AuthorityTypeOK, Locals, Bindings
    <2>2. grants' \in [Jobs -> Grants \cup {Nothing}]
      BY <2>1, RevokeType DEF LedgerTypeOK
    <2> QED
      BY <2>1, <2>2 DEF AuthorityTypeOK, LedgerTypeOK
  <1>3. ConsenterType'
    BY TypeParts DEF AutomationInv, ConsenterType, Decisions, Locals, CronTypeOK
  <1>4. TypeOK'
    BY <1>1, <1>2, <1>3 DEF AutomationInv, TypeOK, AutomationConsentTypeOK,
           ConsenterType, ApprovalsTypeOK
  <1>5. Custody'
    BY DEF AutomationInv, TypeOK, CronTypeOK, Custody, Phase, Working, Drained, Decisions
  <1>6. Locals'
    BY DEF AutomationInv, TypeOK, CronTypeOK, Locals, Working, Recorded, JobRecords,
           JobStates, AuthorityTypeOK, LedgerTypeOK, Grants, Receipts, NoReceipt,
           ConsenterType, Decisions
  <1>7. StopProgress'
    BY SetJobFacts DEF AutomationInv, TypeOK, CronTypeOK, StopProgress, StopAllHolds,
           Enabled, JobRecords, Decisions
  <1>8. LeasesOnRecord'
    BY NoLeaseOut, NoLeaseLeft DEF AutomationInv, Custody, Leased, Phase, Working
  <1>9. OneReceiptEach'
    BY DEF AutomationInv, TypeOK, CronTypeOK, OneReceiptEach, OccurrenceOnce, Decisions
  <1> QED
    BY <1>4, <1>5, <1>6, <1>7, <1>8, <1>9 DEF AutomationInv

LEMMA BindWorkerInv ==
    ASSUME AutomationInv, BindWorker
    PROVE  AutomationInv'
  <1> USE DEF BindWorker, Open, Phase
  <1>1. AuthorityTypeOK'
    BY TypeParts, RecoverFacts DEF AutomationInv, AuthorityTypeOK, LedgerTypeOK,
           Grants, Receipts, NoReceipt
  <1>2. WorkerType'
    BY DEF AutomationInv, TypeOK, CronTypeOK, WorkerType, Workers
  <1>3. TypeOK'
    BY <1>1, <1>2 DEF AutomationInv, TypeOK, CronTypeOK, AutomationConsentTypeOK,
           WorkerType, ApprovalsTypeOK
  <1>4. Custody'
    BY DEF AutomationInv, TypeOK, CronTypeOK, Custody, Phase, Working, Drained, Workers
  <1>5. Locals'
    BY DEF AutomationInv, TypeOK, CronTypeOK, Locals, Working, Recorded,
           AuthorityTypeOK, LedgerTypeOK, Grants, Receipts, NoReceipt, WorkerType, Workers
  <1>6. StopProgress'
    BY DEF AutomationInv, TypeOK, CronTypeOK, StopProgress, StopAllHolds, Enabled,
           JobRecords, Workers
  <1>7. LeasesOnRecord'
    BY NoLeaseOut, NoLeaseLeft DEF AutomationInv, Custody, Leased, Phase, Working
  <1>8. OneReceiptEach'
    BY RecoverFacts DEF AutomationInv, TypeOK, AuthorityTypeOK, OneReceiptEach, OccurrenceOnce
  <1> QED
    BY <1>3, <1>4, <1>5, <1>6, <1>7, <1>8 DEF AutomationInv

LEMMA SignalInv ==
    ASSUME AutomationInv, Signal
    PROVE  AutomationInv'
  <1> USE DEF Signal, Phase
  <1>1. WorkerType'
    BY TypeParts DEF AutomationInv, WorkerType, Workers
  <1>2. TypeOK'
    BY <1>1 DEF AutomationInv, TypeOK, CronTypeOK, AutomationConsentTypeOK,
           AuthorityTypeOK, LedgerTypeOK, WorkerType, ApprovalsTypeOK
  <1>3. Custody'
    BY DEF AutomationInv, TypeOK, CronTypeOK, Custody, Phase, Working, Drained, Workers
  <1>4. Locals'
    BY DEF AutomationInv, TypeOK, CronTypeOK, Locals, Working, Recorded, WorkerType, Workers
  <1>5. StopProgress'
    BY DEF AutomationInv, TypeOK, CronTypeOK, StopProgress, StopAllHolds, Enabled,
           JobRecords, Workers
  <1>6. LeasesOnRecord'
    BY LeasesKept DEF AutomationInv, LeasesOnRecord, Leased
  <1>7. OneReceiptEach'
    BY DEF AutomationInv, TypeOK, CronTypeOK, OneReceiptEach, OccurrenceOnce, Workers
  <1> QED
    BY <1>2, <1>3, <1>4, <1>5, <1>6, <1>7 DEF AutomationInv

LEMMA DispatchClosesInv ==
    ASSUME AutomationInv, DispatchCloses
    PROVE  AutomationInv'
  <1> USE DEF DispatchCloses, Phase
  <1>1. WorkerType'
    BY TypeParts DEF AutomationInv, WorkerType, Workers
  <1>2. TypeOK'
    BY <1>1 DEF AutomationInv, TypeOK, CronTypeOK, AutomationConsentTypeOK,
           AuthorityTypeOK, LedgerTypeOK, WorkerType, ApprovalsTypeOK
  <1>3. Custody'
    BY DEF AutomationInv, TypeOK, CronTypeOK, Custody, Phase, Working, Drained, Workers
  <1>4. Locals'
    BY DEF AutomationInv, TypeOK, CronTypeOK, Locals, Working, Recorded, WorkerType, Workers
  <1>5. StopProgress'
    BY DEF AutomationInv, TypeOK, CronTypeOK, StopProgress, StopAllHolds, Enabled,
           JobRecords, Workers
  <1>6. LeasesOnRecord'
    BY LeasesKept DEF AutomationInv, LeasesOnRecord, Leased
  <1>7. OneReceiptEach'
    BY DEF AutomationInv, TypeOK, CronTypeOK, OneReceiptEach, OccurrenceOnce, Workers
  <1> QED
    BY <1>2, <1>3, <1>4, <1>5, <1>6, <1>7 DEF AutomationInv

LEMMA DispatchInv ==
    ASSUME AutomationInv, NEW e \in Executions, NEW j \in Jobs, NEW o \in Occurrences,
           Dispatch(e, j, o)
    PROVE  AutomationInv'
  <1> USE DEF Dispatch, Phase, NoRun
  <1>1. RunsType'
    <2>1. jobs[j].version \in JobVersions /\ runs \in [Executions -> Runs]
      BY DEF AutomationInv, TypeOK, CronTypeOK, JobRecords
    <2>2. runs' = [runs EXCEPT ![e] = [NoRun EXCEPT !.step = "claimed", !.job = j,
                                          !.occurrence = o, !.version = jobs[j].version]]
      OBVIOUS
    <2> HIDE DEF Dispatch
    <2>3. [NoRun EXCEPT !.step = "claimed", !.job = j, !.occurrence = o,
                     !.version = jobs[j].version] \in Runs
      BY <2>1 DEF Runs
    <2> HIDE DEF NoRun
    <2> QED
      BY <2>1, <2>2, <2>3 DEF RunsType
  <1>2. TypeOK'
    BY <1>1 DEF AutomationInv, TypeOK, CronTypeOK, AutomationConsentTypeOK,
           AuthorityTypeOK, LedgerTypeOK, RunsType, ApprovalsTypeOK
  <1>3. Custody'
    BY DEF AutomationInv, TypeOK, CronTypeOK, Custody, Phase, Working, Drained, Runs
  <1>4. Locals'
    BY DEF AutomationInv, TypeOK, CronTypeOK, Locals, Working, Recorded, RunsType, Runs
  <1>5. StopProgress'
    BY DEF AutomationInv, TypeOK, CronTypeOK, StopProgress, StopAllHolds, Enabled,
           JobRecords, Runs
  <1>6. LeasesOnRecord'
    BY LeasesKept DEF AutomationInv, LeasesOnRecord, Leased, RunsType, TypeOK
  <1>7. OneReceiptEach'
    BY DEF AutomationInv, TypeOK, CronTypeOK, OneReceiptEach, OccurrenceOnce, Runs
  <1> QED
    BY <1>2, <1>3, <1>4, <1>5, <1>6, <1>7 DEF AutomationInv

LEMMA ServeInv ==
    ASSUME AutomationInv, Serve
    PROVE  AutomationInv'
  <1> USE DEF Serve, Phase, Close, NoWorker
  <1>1. AuthorityTypeOK'
    <2>1. /\ AuthorityTypeOK /\ holder \in {"none", "runtime", "worker"}
          /\ faulted \in BOOLEAN /\ active \in Nat
      BY DEF AutomationInv, TypeOK, AuthorityTypeOK
    <2>2. faulted' \in BOOLEAN
      BY <2>1, Zenon
    <2>3. holder' \in {"none", "runtime", "worker"} /\ active' \in Nat
      BY <2>1
    <2> QED
      BY <2>1, <2>2, <2>3, AuthorityKept
  <1>2. WorkerType'
    <2>1. worker \in Workers
      BY DEF AutomationInv, TypeOK
    <2>2. worker' = NoWorker \/ worker' = [worker EXCEPT !.phase = "serving"]
      OBVIOUS
    <2> HIDE DEF Serve
    <2>3. CASE worker' = NoWorker
      BY <2>3, Zenon DEF WorkerType, Workers
    <2>4. CASE worker' = [worker EXCEPT !.phase = "serving"]
      BY <2>1, <2>4 DEF WorkerType, Workers
    <2> QED
      BY <2>2, <2>3, <2>4
  <1>3. TypeOK'
    BY <1>1, <1>2 DEF AutomationInv, TypeOK, CronTypeOK, AutomationConsentTypeOK,
           WorkerType, ApprovalsTypeOK
  <1>4. Custody'
    BY DEF AutomationInv, TypeOK, CronTypeOK, Custody, Phase, Working, Drained, Workers
  <1>5. Locals'
    BY DEF AutomationInv, TypeOK, CronTypeOK, Locals, Working, Recorded,
           AuthorityTypeOK, LedgerTypeOK, Grants, Receipts, NoReceipt, WorkerType, Workers
  <1>6. StopProgress'
    BY DEF AutomationInv, TypeOK, CronTypeOK, StopProgress, StopAllHolds, Enabled,
           JobRecords, Workers
  <1>7. LeasesOnRecord'
    <2>1. CASE stopped
      BY <2>1, NoLeaseLeft DEF AutomationInv, Custody, Phase, Drained, Working, Leased
    <2>2. CASE ~stopped
      BY <2>2, LeasesKept DEF AutomationInv, LeasesOnRecord, Leased
    <2> QED
      BY <2>1, <2>2
  <1>8. OneReceiptEach'
    BY DEF AutomationInv, TypeOK, CronTypeOK, OneReceiptEach, OccurrenceOnce, Workers
  <1> QED
    BY <1>3, <1>4, <1>5, <1>6, <1>7, <1>8 DEF AutomationInv

LEMMA EndServingInv ==
    ASSUME AutomationInv, EndServing
    PROVE  AutomationInv'
  <1> USE DEF EndServing, Phase, GlobalStop, Fault
  <1>1. AuthorityTypeOK'
    BY TypeParts DEF AutomationInv, AuthorityTypeOK, LedgerTypeOK, Grants, Receipts, NoReceipt
  <1>2. WorkerType'
    BY TypeParts DEF AutomationInv, WorkerType, Workers
  <1>3. TypeOK'
    BY <1>1, <1>2 DEF AutomationInv, TypeOK, CronTypeOK, AutomationConsentTypeOK,
           WorkerType, ApprovalsTypeOK
  <1>4. Custody'
    BY DEF AutomationInv, TypeOK, CronTypeOK, Custody, Phase, Working, Drained, Workers
  <1>5. Locals'
    BY DEF AutomationInv, TypeOK, CronTypeOK, Locals, Working, Recorded,
           AuthorityTypeOK, LedgerTypeOK, Grants, Receipts, NoReceipt, WorkerType, Workers
  <1>6. StopProgress'
    BY DEF AutomationInv, TypeOK, Custody, Phase, StopProgress, StopAllHolds, Enabled, Workers
  <1>7. LeasesOnRecord'
    BY LeasesKept DEF AutomationInv, LeasesOnRecord, Leased, RunsType, TypeOK
  <1>8. OneReceiptEach'
    BY DEF AutomationInv, TypeOK, CronTypeOK, OneReceiptEach, OccurrenceOnce, Workers
  <1> QED
    BY <1>3, <1>4, <1>5, <1>6, <1>7, <1>8 DEF AutomationInv

LEMMA ShutdownInv ==
    ASSUME AutomationInv, Shutdown
    PROVE  AutomationInv'
  <1> USE DEF Shutdown, Phase, Close, GlobalStop, NoWorker, Drained
  <1>1. AuthorityTypeOK'
    BY TypeParts DEF AutomationInv, AuthorityTypeOK, LedgerTypeOK, Grants, Receipts, NoReceipt
  <1>2. WorkerType'
    BY TypeParts DEF AutomationInv, WorkerType, Workers
  <1>3. TypeOK'
    BY <1>1, <1>2 DEF AutomationInv, TypeOK, CronTypeOK, AutomationConsentTypeOK,
           WorkerType, ApprovalsTypeOK
  <1>4. Custody'
    BY DEF AutomationInv, TypeOK, CronTypeOK, Custody, Phase, Working, Drained, Workers
  <1>5. Locals'
    BY DEF AutomationInv, TypeOK, CronTypeOK, Locals, Working, Recorded,
           AuthorityTypeOK, LedgerTypeOK, Grants, Receipts, NoReceipt, WorkerType, Workers
  <1>6. StopProgress'
    BY DEF AutomationInv, TypeOK, Custody, Phase, StopProgress, StopAllHolds, Enabled, Workers
  <1>7. LeasesOnRecord'
    BY NoLeaseOut, NoLeaseLeft DEF AutomationInv, Custody, Leased, Phase, Working
  <1>8. OneReceiptEach'
    BY DEF AutomationInv, TypeOK, CronTypeOK, OneReceiptEach, OccurrenceOnce, Workers
  <1> QED
    BY <1>3, <1>4, <1>5, <1>6, <1>7, <1>8 DEF AutomationInv

LEMMA DrainTimeoutInv ==
    ASSUME AutomationInv, DrainTimeout
    PROVE  AutomationInv'
  <1> USE DEF DrainTimeout, Phase
  <1>1. WorkerType'
    BY TypeParts DEF AutomationInv, WorkerType, Workers
  <1>2. TypeOK'
    BY <1>1 DEF AutomationInv, TypeOK, CronTypeOK, AutomationConsentTypeOK,
           AuthorityTypeOK, LedgerTypeOK, WorkerType, ApprovalsTypeOK
  <1>3. Custody'
    BY DEF AutomationInv, TypeOK, CronTypeOK, Custody, Phase, Working, Drained, Workers
  <1>4. Locals'
    BY DEF AutomationInv, TypeOK, CronTypeOK, Locals, Working, Recorded, WorkerType, Workers
  <1>5. StopProgress'
    BY DEF AutomationInv, TypeOK, CronTypeOK, StopProgress, StopAllHolds, Enabled,
           JobRecords, Workers
  <1>6. LeasesOnRecord'
    BY LeasesKept DEF AutomationInv, LeasesOnRecord, Leased
  <1>7. OneReceiptEach'
    BY DEF AutomationInv, TypeOK, CronTypeOK, OneReceiptEach, OccurrenceOnce, Workers
  <1> QED
    BY <1>2, <1>3, <1>4, <1>5, <1>6, <1>7 DEF AutomationInv

LEMMA ExitInv ==
    ASSUME AutomationInv, Exit
    PROVE  AutomationInv'
  <1> USE DEF Exit, Phase, Close, NoWorker, Drained
  <1>1. AuthorityTypeOK'
    BY TypeParts DEF AutomationInv, AuthorityTypeOK, LedgerTypeOK, Grants, Receipts, NoReceipt
  <1>2. WorkerType'
    BY TypeParts DEF AutomationInv, WorkerType, Workers
  <1>3. TypeOK'
    BY <1>1, <1>2 DEF AutomationInv, TypeOK, CronTypeOK, AutomationConsentTypeOK,
           WorkerType, ApprovalsTypeOK
  <1>4. Custody'
    BY DEF AutomationInv, TypeOK, CronTypeOK, Custody, Phase, Working, Drained, Workers
  <1>5. Locals'
    BY DEF AutomationInv, TypeOK, CronTypeOK, Locals, Working, Recorded,
           AuthorityTypeOK, LedgerTypeOK, Grants, Receipts, NoReceipt, WorkerType, Workers
  <1>6. StopProgress'
    BY DEF AutomationInv, TypeOK, CronTypeOK, StopProgress, StopAllHolds, Enabled,
           JobRecords, Workers
  <1>7. LeasesOnRecord'
    BY NoLeaseOut, NoLeaseLeft DEF AutomationInv, Custody, Leased, Phase, Working
  <1>8. OneReceiptEach'
    BY DEF AutomationInv, TypeOK, CronTypeOK, OneReceiptEach, OccurrenceOnce, Workers
  <1> QED
    BY <1>3, <1>4, <1>5, <1>6, <1>7, <1>8 DEF AutomationInv

LEMMA AcquireInv ==
    ASSUME AutomationInv, NEW e \in Executions, Acquire(e)
    PROVE  AutomationInv'
  <1> USE DEF Acquire, Refuse, StepTo, PauseJob
  <1>1. CronTypeOK'
    BY TypeParts, SetJobFacts DEF AutomationInv, CronTypeOK, JobRecords, JobStates
  <1>2. RunsType'
    BY TypeParts DEF AutomationInv, RunsType, Runs, Locals, CronTypeOK
  <1>3. TypeOK'
    BY <1>1, <1>2 DEF AutomationInv, TypeOK, AutomationConsentTypeOK, AuthorityTypeOK,
           LedgerTypeOK, RunsType, ApprovalsTypeOK
  <1>4. Custody'
    BY DEF AutomationInv, TypeOK, CronTypeOK, Custody, Phase, Working, Drained, Runs
  <1>5. Locals'
    <2>1. \A d \in Executions : Working(d)' => /\ Working(d) /\ runs'[d].job = runs[d].job
                                               /\ runs'[d].occurrence = runs[d].occurrence
      BY DEF AutomationInv, TypeOK, Working, Runs
    <2>2. UNCHANGED <<main, consenter, consents>>
      BY DEF consentVars
    <2> HIDE DEF Acquire
    <2> QED
      BY <2>1, <2>2 DEF AutomationInv, Locals, Recorded
  <1>6. StopProgress'
    <2>1. \A k \in Jobs : Enabled(k)' => Enabled(k)
      BY SetJobFacts DEF AutomationInv, TypeOK, JobStates, Enabled
    <2> QED
      BY <2>1 DEF AutomationInv, TypeOK, StopProgress, StopAllHolds
  <1>7. LeasesOnRecord'
    <2>1. runs \in [Executions -> Runs]
      BY DEF AutomationInv, TypeOK
    <2>2. \A d \in Executions : /\ Leased(d)' <=> Leased(d)
                                /\ runs'[d].job = runs[d].job
                                /\ runs'[d].occurrence = runs[d].occurrence
      BY <2>1 DEF Leased, Runs
    <2>3. \A d \in Executions : Leased(d) => holder = "worker"
      BY DEF AutomationInv, LeasesOnRecord
    <2> QED
      BY <2>2, <2>3, LeasesKept
  <1>8. OneReceiptEach'
    BY DEF AutomationInv, TypeOK, CronTypeOK, OneReceiptEach, OccurrenceOnce, Runs
  <1> QED
    BY <1>3, <1>4, <1>5, <1>6, <1>7, <1>8 DEF AutomationInv

LEMMA AdmitInv ==
    ASSUME AutomationInv, NEW e \in Executions, Admit(e)
    PROVE  AutomationInv'
  <1> USE DEF Admit, Refuse, StepTo, PauseJob, StoreReceipt, Fault
  <1>1. CronTypeOK'
    BY TypeParts, SetJobFacts DEF AutomationInv, CronTypeOK, JobRecords, JobStates
  <1>2. RunsType'
    BY TypeParts DEF AutomationInv, RunsType, Runs, Locals, CronTypeOK
  <1>3. AuthorityTypeOK'
    <2>1. /\ LedgerTypeOK /\ holder \in {"none", "runtime", "worker"}
          /\ faulted \in BOOLEAN /\ active \in Nat
          /\ runs[e].job \in Jobs /\ runs[e].occurrence \in Occurrences
      BY DEF AutomationInv, TypeOK, AuthorityTypeOK, Locals, Working
    <2>2. receipts' \in [Executions -> Receipts \cup {NoReceipt}]
      BY <2>1 DEF LedgerTypeOK, Receipts
    <2>3. faulted' \in BOOLEAN
      BY <2>1, Zenon
    <2>4. /\ holder' \in {"none", "runtime", "worker"} /\ active' \in Nat
          /\ UNCHANGED <<stopped, grants>>
      BY <2>1
    <2> HIDE DEF Admit
    <2> QED
      BY <2>1, <2>2, <2>3, <2>4 DEF AuthorityTypeOK, LedgerTypeOK
  <1>4. HistoryType'
    <2>1. leases \in [Jobs \X Occurrences -> Nat] /\ signed \subseteq Bindings /\ stopReplied \in BOOLEAN
      BY DEF AutomationInv, TypeOK
    <2>2. leases' \in [Jobs \X Occurrences -> Nat]
      BY <2>1
    <2>3. UNCHANGED <<signed, stopReplied>>
      OBVIOUS
    <2> HIDE DEF Admit
    <2> QED
      BY <2>1, <2>2, <2>3 DEF HistoryType
  <1>5. TypeOK'
    BY <1>1, <1>2, <1>3, <1>4 DEF AutomationInv, TypeOK, AutomationConsentTypeOK,
           RunsType, HistoryType, ApprovalsTypeOK
  <1>6. Custody'
    BY DEF AutomationInv, TypeOK, CronTypeOK, Custody, Phase, Working, Drained, Runs
  <1>7. Locals'
    <2>1. runs \in [Executions -> Runs]
      BY DEF AutomationInv, TypeOK
    <2>2. \A d \in Executions : /\ Working(d)' => Working(d)
                                /\ runs'[d].job = runs[d].job
                                /\ runs'[d].occurrence = runs[d].occurrence
      BY <2>1 DEF Working, Runs
    <2>3. UNCHANGED <<main, consenter, consents>>
      OBVIOUS
    <2> HIDE DEF Admit
    <2> QED
      BY <2>2, <2>3 DEF AutomationInv, Locals, Recorded
  <1>8. StopProgress'
    <2>1. \A k \in Jobs : Enabled(k)' => Enabled(k)
      BY SetJobFacts DEF AutomationInv, TypeOK, JobStates, Enabled
    <2> QED
      BY <2>1 DEF AutomationInv, TypeOK, StopProgress, StopAllHolds
  <1>9. LeasesOnRecord'
    <2> DEFINE S == {d \in Executions : Leased(d)}
    <2>1. /\ runs \in [Executions -> Runs] /\ receipts \in [Executions -> Receipts \cup {NoReceipt}]
          /\ active \in Nat /\ active = Cardinality(S)
          /\ \A d \in Executions : Leased(d) =>
                /\ holder = "worker"
                /\ receipts[d] = [state |-> "inflight", job |-> runs[d].job,
                                  occurrence |-> runs[d].occurrence]
      BY DEF AutomationInv, TypeOK, AuthorityTypeOK, LedgerTypeOK, LeasesOnRecord
    <2>2. IsFiniteSet(S)
      BY AuthorityAssumption, FS_Subset
    <2>3. CASE Refuse(e) /\ UNCHANGED <<receipts, active>>
      <3>1. \A d \in Executions : /\ Leased(d)' <=> Leased(d)
                                  /\ runs'[d].job = runs[d].job
                                  /\ runs'[d].occurrence = runs[d].occurrence
        BY <2>1, <2>3 DEF Leased, Runs
      <3> QED
        BY <2>1, <2>3, <3>1, LeasesKept
    <2>4. CASE /\ StoreReceipt(e, runs[e].job, runs[e].occurrence) /\ active' = active + 1
               /\ runs' = [runs EXCEPT ![e].step = "leased", ![e].deadline = LeaseEnd(runs[e].job)]
      <3>1. runs[e].step = "admitting" /\ holder' = holder /\ holder = "worker"
        BY DEF AutomationInv, Custody, Working
      <3> HIDE DEF Admit
      <3>2. \A d \in Executions : /\ Leased(d)' <=> d = e \/ Leased(d)
                                  /\ runs'[d].job = runs[d].job
                                  /\ runs'[d].occurrence = runs[d].occurrence
        BY <2>1, <2>4 DEF Leased, Runs
      <3>3. {d \in Executions : Leased(d)}' = S \cup {e} /\ e \notin S
        BY <3>1, <3>2 DEF Leased
      <3>4. active' = Cardinality({d \in Executions : Leased(d)}')
        BY <2>1, <2>2, <2>4, <3>3, FS_AddElement
      <3>5. \A d \in Executions : Leased(d)' =>
                receipts'[d] = [state |-> "inflight", job |-> runs'[d].job,
                                occurrence |-> runs'[d].occurrence]
        BY <2>1, <2>4, <3>2
      <3> QED
        BY <3>1, <3>4, <3>5 DEF LeasesOnRecord
    <2> QED
      BY <2>3, <2>4
  <1>10. OneReceiptEach'
    <2>1. /\ leases \in [Jobs \X Occurrences -> Nat]
          /\ receipts \in [Executions -> Receipts \cup {NoReceipt}]
          /\ runs[e].job \in Jobs /\ runs[e].occurrence \in Occurrences
      BY DEF AutomationInv, TypeOK, AuthorityTypeOK, LedgerTypeOK, Locals, Working
    <2>2. CASE UNCHANGED <<receipts, leases>>
      BY <2>2 DEF AutomationInv, OneReceiptEach, OccurrenceOnce
    <2> DEFINE jo == <<runs[e].job, runs[e].occurrence>>
    <2>3. CASE /\ MayAdmit(e, runs[e].job, runs[e].occurrence, runs[e].version, runs[e].config)
               /\ StoreReceipt(e, runs[e].job, runs[e].occurrence)
               /\ leases' = [leases EXCEPT ![jo] = @ + 1]
      <3> HIDE DEF Admit
      <3>1. /\ receipts[e] = NoReceipt
            /\ \A d \in Executions : receipts[d] # NoReceipt =>
                  ~(receipts[d].job = runs[e].job /\ receipts[d].occurrence = runs[e].occurrence)
        BY <2>3 DEF MayAdmit, Replayed
      <3>2. leases[jo] = 0
        BY <2>1, <3>1 DEF AutomationInv, OneReceiptEach
      <3>3. /\ receipts'[e] # NoReceipt /\ receipts'[e].job = jo[1] /\ receipts'[e].occurrence = jo[2]
            /\ \A d \in Executions : d # e => receipts'[d] = receipts[d]
        BY <2>1, <2>3 DEF NoReceipt
      <3>4. leases'[jo] = 1 /\ \A k \in Jobs \X Occurrences : k # jo => leases'[k] = leases[k]
        BY <2>1, <2>3, <3>2
      <3> HIDE DEF jo
      <3>5. ASSUME NEW k \in Jobs \X Occurrences
            PROVE  /\ leases'[k] <= 1
                   /\ leases'[k] # 0 => \E d \in Executions : /\ receipts'[d] # NoReceipt
                                                             /\ receipts'[d].job = k[1]
                                                             /\ receipts'[d].occurrence = k[2]
        <4>1. CASE k = jo
          BY <3>3, <3>4, <4>1
        <4>2. CASE k # jo
          BY <3>1, <3>3, <3>4, <4>2 DEF AutomationInv, OneReceiptEach, OccurrenceOnce
        <4> QED
          BY <4>1, <4>2
      <3> QED
        BY <3>5 DEF OneReceiptEach, OccurrenceOnce
    <2> QED
      BY <2>2, <2>3
  <1> QED
    BY <1>5, <1>6, <1>7, <1>8, <1>9, <1>10 DEF AutomationInv

LEMMA EnterInv ==
    ASSUME AutomationInv, NEW e \in Executions, Enter(e)
    PROVE  AutomationInv'
  <1> USE DEF Enter, StepTo
  <1>1. RunsType'
    BY TypeParts DEF AutomationInv, RunsType, Runs, Locals, CronTypeOK
  <1>2. TypeOK'
    BY <1>1 DEF AutomationInv, TypeOK, CronTypeOK, AutomationConsentTypeOK,
           AuthorityTypeOK, LedgerTypeOK, RunsType, ApprovalsTypeOK
  <1>3. Custody'
    BY DEF AutomationInv, TypeOK, CronTypeOK, Custody, Phase, Working, Drained, Runs
  <1>4. Locals'
    BY DEF AutomationInv, TypeOK, CronTypeOK, Locals, Working, Recorded, RunsType, Runs
  <1>5. StopProgress'
    BY DEF AutomationInv, TypeOK, CronTypeOK, StopProgress, StopAllHolds, Enabled,
           JobRecords, Runs
  <1>6. LeasesOnRecord'
    <2>1. runs \in [Executions -> Runs]
      BY DEF AutomationInv, TypeOK
    <2>2. \A d \in Executions : /\ Leased(d)' <=> Leased(d)
                                /\ runs'[d].job = runs[d].job
                                /\ runs'[d].occurrence = runs[d].occurrence
      BY <2>1 DEF Leased, Runs
    <2>3. \A d \in Executions : Leased(d) => holder = "worker"
      BY DEF AutomationInv, LeasesOnRecord
    <2> QED
      BY <2>2, <2>3, LeasesKept
  <1>7. OneReceiptEach'
    BY DEF AutomationInv, TypeOK, CronTypeOK, OneReceiptEach, OccurrenceOnce, Runs
  <1> QED
    BY <1>2, <1>3, <1>4, <1>5, <1>6, <1>7 DEF AutomationInv

LEMMA StartScriptInv ==
    ASSUME AutomationInv, NEW e \in Executions, StartScript(e)
    PROVE  AutomationInv'
  <1> USE DEF StartScript, StepTo
  <1>1. RunsType'
    BY TypeParts DEF AutomationInv, RunsType, Runs, Locals, CronTypeOK
  <1>2. TypeOK'
    BY <1>1 DEF AutomationInv, TypeOK, CronTypeOK, AutomationConsentTypeOK,
           AuthorityTypeOK, LedgerTypeOK, RunsType, ApprovalsTypeOK
  <1>3. Custody'
    BY DEF AutomationInv, TypeOK, CronTypeOK, Custody, Phase, Working, Drained, Runs
  <1>4. Locals'
    BY DEF AutomationInv, TypeOK, CronTypeOK, Locals, Working, Recorded, RunsType, Runs
  <1>5. StopProgress'
    BY DEF AutomationInv, TypeOK, CronTypeOK, StopProgress, StopAllHolds, Enabled,
           JobRecords, Runs
  <1>6. LeasesOnRecord'
    <2>1. runs \in [Executions -> Runs]
      BY DEF AutomationInv, TypeOK
    <2>2. \A d \in Executions : /\ Leased(d)' <=> Leased(d)
                                /\ runs'[d].job = runs[d].job
                                /\ runs'[d].occurrence = runs[d].occurrence
      BY <2>1 DEF Leased, Runs
    <2>3. \A d \in Executions : Leased(d) => holder = "worker"
      BY DEF AutomationInv, LeasesOnRecord
    <2> QED
      BY <2>2, <2>3, LeasesKept
  <1>7. OneReceiptEach'
    BY DEF AutomationInv, TypeOK, CronTypeOK, OneReceiptEach, OccurrenceOnce, Runs
  <1> QED
    BY <1>2, <1>3, <1>4, <1>5, <1>6, <1>7 DEF AutomationInv

LEMMA FinalizeInv ==
    ASSUME AutomationInv, NEW e \in Executions, Finalize(e)
    PROVE  AutomationInv'
  <1> USE DEF Finalize, Refuse, StepTo, PauseJob, SpendReceipt, Fault
  <1>1. CronTypeOK'
    BY TypeParts, SetJobFacts DEF AutomationInv, CronTypeOK, JobRecords, JobStates
  <1>2. RunsType'
    BY TypeParts DEF AutomationInv, RunsType, Runs, Locals, CronTypeOK
  <1>3. AuthorityTypeOK'
    <2>0. /\ LedgerTypeOK /\ holder \in {"none", "runtime", "worker"} /\ faulted \in BOOLEAN
      BY DEF AutomationInv, TypeOK, AuthorityTypeOK
    <2>5. faulted' \in BOOLEAN
      BY <2>0, Zenon
    <2>6. UNCHANGED <<holder, stopped, grants>>
      OBVIOUS
    <2> DEFINE S == {d \in Executions : Leased(d)}
    <2>1. /\ runs \in [Executions -> Runs] /\ receipts \in [Executions -> Receipts \cup {NoReceipt}]
          /\ active \in Nat /\ active = Cardinality(S)
          /\ \A d \in Executions : Leased(d) =>
                /\ holder = "worker"
                /\ receipts[d] = [state |-> "inflight", job |-> runs[d].job,
                                  occurrence |-> runs[d].occurrence]
      BY DEF AutomationInv, TypeOK, AuthorityTypeOK, LedgerTypeOK, LeasesOnRecord
    <2>2. IsFiniteSet(S)
      BY AuthorityAssumption, FS_Subset
    <2>3. /\ active' = active - 1 /\ holder' = holder
          /\ \/ receipts' = receipts
             \/ receipts' = [receipts EXCEPT ![e].state = "spent"]
          /\ runs' = [runs EXCEPT ![e].step = "over"]
          /\ e \in S
      BY <2>1 DEF Leased, NoReceipt
    <2> HIDE DEF Finalize
    <2>4. S \in SUBSET Executions /\ Cardinality(S \ {e}) = active - 1 /\ IsFiniteSet(S \ {e})
      BY <2>1, <2>2, <2>3, FS_RemoveElement
    <2>7. active' \in Nat
      BY <2>3, <2>4, FS_CardinalityType
    <2>8. receipts[e] \in Receipts /\ [receipts[e] EXCEPT !.state = "spent"] \in Receipts
      BY <2>1, <2>3 DEF Receipts, NoReceipt
    <2>9. receipts' \in [Executions -> Receipts \cup {NoReceipt}]
      BY <2>1, <2>3, <2>8
    <2> QED
      BY <2>0, <2>5, <2>6, <2>7, <2>9 DEF AuthorityTypeOK, LedgerTypeOK
  <1>4. TypeOK'
    BY <1>1, <1>2, <1>3 DEF AutomationInv, TypeOK, AutomationConsentTypeOK, RunsType,
           ApprovalsTypeOK
  <1>5. Custody'
    BY DEF AutomationInv, TypeOK, CronTypeOK, Custody, Phase, Working, Drained, Runs
  <1>6. Locals'
    BY DEF AutomationInv, TypeOK, CronTypeOK, Locals, Working, Recorded, JobRecords,
           JobStates, RunsType, Runs, AuthorityTypeOK, LedgerTypeOK, Grants, Receipts,
           NoReceipt
  <1>7. StopProgress'
    <2>1. \A k \in Jobs : Enabled(k)' => Enabled(k)
      BY SetJobFacts DEF AutomationInv, TypeOK, JobStates, Enabled
    <2> QED
      BY <2>1 DEF AutomationInv, TypeOK, StopProgress, StopAllHolds
  <1>8. LeasesOnRecord'
    <2> DEFINE S == {d \in Executions : Leased(d)}
    <2>1. /\ runs \in [Executions -> Runs] /\ receipts \in [Executions -> Receipts \cup {NoReceipt}]
          /\ active \in Nat /\ active = Cardinality(S)
          /\ \A d \in Executions : Leased(d) =>
                /\ holder = "worker"
                /\ receipts[d] = [state |-> "inflight", job |-> runs[d].job,
                                  occurrence |-> runs[d].occurrence]
      BY DEF AutomationInv, TypeOK, AuthorityTypeOK, LedgerTypeOK, LeasesOnRecord
    <2>2. IsFiniteSet(S)
      BY AuthorityAssumption, FS_Subset
    <2>3. /\ active' = active - 1 /\ holder' = holder
          /\ \/ receipts' = receipts
             \/ receipts' = [receipts EXCEPT ![e].state = "spent"]
          /\ runs' = [runs EXCEPT ![e].step = "over"]
          /\ e \in S
      BY <2>1 DEF Leased, NoReceipt
    <2> HIDE DEF Finalize
    <2>4. S \in SUBSET Executions /\ Cardinality(S \ {e}) = active - 1 /\ IsFiniteSet(S \ {e})
      BY <2>1, <2>2, <2>3, FS_RemoveElement
    <2>5. \A d \in Executions : /\ Leased(d)' <=> d # e /\ Leased(d)
                                /\ runs'[d].job = runs[d].job
                                /\ runs'[d].occurrence = runs[d].occurrence
      BY <2>1, <2>3 DEF Leased, Runs
    <2>6. {d \in Executions : Leased(d)}' = S \ {e}
      BY <2>5
    <2>7. \A d \in Executions : d # e => receipts'[d] = receipts[d]
      BY <2>1, <2>3
    <2> QED
      BY <2>1, <2>3, <2>4, <2>5, <2>6, <2>7 DEF LeasesOnRecord
  <1>9. OneReceiptEach'
    <2> DEFINE S == {d \in Executions : Leased(d)}
    <2>1. /\ runs \in [Executions -> Runs] /\ receipts \in [Executions -> Receipts \cup {NoReceipt}]
          /\ active \in Nat /\ active = Cardinality(S)
          /\ \A d \in Executions : Leased(d) =>
                /\ holder = "worker"
                /\ receipts[d] = [state |-> "inflight", job |-> runs[d].job,
                                  occurrence |-> runs[d].occurrence]
      BY DEF AutomationInv, TypeOK, AuthorityTypeOK, LedgerTypeOK, LeasesOnRecord
    <2>2. IsFiniteSet(S)
      BY AuthorityAssumption, FS_Subset
    <2>3. /\ active' = active - 1 /\ holder' = holder
          /\ \/ receipts' = receipts
             \/ receipts' = [receipts EXCEPT ![e].state = "spent"]
          /\ runs' = [runs EXCEPT ![e].step = "over"]
          /\ e \in S
      BY <2>1 DEF Leased, NoReceipt
    <2> HIDE DEF Finalize
    <2>4. S \in SUBSET Executions /\ Cardinality(S \ {e}) = active - 1 /\ IsFiniteSet(S \ {e})
      BY <2>1, <2>2, <2>3, FS_RemoveElement
    <2>5. receipts[e] \in Receipts
      BY <2>1, <2>3 DEF Receipts, NoReceipt
    <2>6. \A d \in Executions : /\ receipts[d] # NoReceipt => receipts'[d] # NoReceipt
                                /\ receipts'[d].job = receipts[d].job
                                /\ receipts'[d].occurrence = receipts[d].occurrence
      BY <2>1, <2>3, <2>5 DEF Receipts, NoReceipt
    <2>7. leases' = leases
      BY DEF Finalize
    <2> QED
      BY <2>6, <2>7 DEF AutomationInv, OneReceiptEach, OccurrenceOnce
  <1> QED
    BY <1>4, <1>5, <1>6, <1>7, <1>8, <1>9 DEF AutomationInv

LEMMA RestartRuntimeInv ==
    ASSUME AutomationInv, RestartRuntime
    PROVE  AutomationInv'
  <1> USE DEF RestartRuntime, Close, ForgetConsents, NoCall, NoDecision
  <1>1. StoreType'
    <2>1. Unissued \in ApprovalRecords
      BY DEF Unissued, ApprovalRecords, ApprovalStates
    <2> QED
      BY <2>1 DEF AutomationInv, TypeOK, StoreType, ApprovalsTypeOK
  <1>2. AutomationConsentTypeOK'
    <2>1. \A c \in ConsentIds : /\ consents'[c] \in ConsentRecords
                                /\ consents'[c].state \in {"none", "gone"}
      BY DEF NoConsent, ConsentRecords, ConsentStates
    <2> QED
      BY <2>1 DEF AutomationConsentTypeOK
  <1>3. AuthorityTypeOK'
    <2>1. /\ AuthorityTypeOK /\ holder \in {"none", "runtime", "worker"}
          /\ faulted \in BOOLEAN /\ active \in Nat
      BY DEF AutomationInv, TypeOK, AuthorityTypeOK
    <2>2. faulted' \in BOOLEAN
      BY <2>1, Zenon
    <2>3. holder' \in {"none", "runtime", "worker"} /\ active' \in Nat
      BY <2>1
    <2> QED
      BY <2>1, <2>2, <2>3, AuthorityKept
  <1>4. MainType'
    BY TypeParts, DeadlineFacts DEF AutomationInv, MainType, Calls, Locals, CronTypeOK
  <1>5. ConsenterType'
    BY TypeParts DEF AutomationInv, ConsenterType, Decisions, Locals, CronTypeOK
  <1>6. TypeOK'
    BY <1>1, <1>2, <1>3, <1>4, <1>5 DEF AutomationInv, TypeOK, StoreType, CronTypeOK,
           MainType, ConsenterType
  <1>7. Custody'
    BY DEF AutomationInv, TypeOK, CronTypeOK, Custody, Phase, Working, Drained, Calls, Decisions
  <1>8. Locals'
    <2>1. \A c \in ConsentIds : /\ consents'[c] \in ConsentRecords
                                /\ consents'[c].state \in {"none", "gone"}
      BY DEF NoConsent, ConsentRecords, ConsentStates
    <2> QED
      BY <2>1 DEF AutomationInv, TypeOK, Locals, Recorded, Working
  <1>9. StopProgress'
    BY DEF AutomationInv, TypeOK, CronTypeOK, StopProgress, StopAllHolds, Enabled,
           JobRecords, Calls, Decisions
  <1>10. LeasesOnRecord'
    <2>1. CASE holder = "runtime"
      BY <2>1, NoLeaseOut, NoLeaseLeft DEF Leased
    <2>2. CASE holder # "runtime"
      BY <2>2, LeasesKept DEF AutomationInv, LeasesOnRecord, Leased
    <2> QED
      BY <2>1, <2>2
  <1>11. OneReceiptEach'
    BY DEF AutomationInv, TypeOK, CronTypeOK, OneReceiptEach, OccurrenceOnce, Calls, Decisions
  <1> QED
    BY <1>6, <1>7, <1>8, <1>9, <1>10, <1>11 DEF AutomationInv

LEMMA WorkerCrashInv ==
    ASSUME AutomationInv, WorkerCrash
    PROVE  AutomationInv'
  <1> USE DEF WorkerCrash, Phase, Close, NoWorker, NoRun
  <1>1. AuthorityTypeOK'
    BY TypeParts DEF AutomationInv, AuthorityTypeOK, LedgerTypeOK, Grants, Receipts, NoReceipt
  <1>2. WorkerType'
    BY TypeParts DEF AutomationInv, WorkerType, Workers
  <1>3. RunsType'
    BY TypeParts DEF AutomationInv, RunsType, Runs, Locals, CronTypeOK
  <1>4. TypeOK'
    BY <1>1, <1>2, <1>3 DEF AutomationInv, TypeOK, CronTypeOK, AutomationConsentTypeOK,
           WorkerType, RunsType, ApprovalsTypeOK
  <1>5. Custody'
    BY DEF AutomationInv, TypeOK, CronTypeOK, Custody, Phase, Working, Drained, Workers, Runs
  <1>6. Locals'
    BY DEF AutomationInv, TypeOK, CronTypeOK, Locals, Working, Recorded,
           AuthorityTypeOK, LedgerTypeOK, Grants, Receipts, NoReceipt, WorkerType, Workers,
           RunsType, Runs
  <1>7. StopProgress'
    BY DEF AutomationInv, TypeOK, CronTypeOK, StopProgress, StopAllHolds, Enabled,
           JobRecords, Workers, Runs
  <1>8. LeasesOnRecord'
    BY NoLeaseLeft DEF AutomationInv, TypeOK, Leased, Working, Runs
  <1>9. OneReceiptEach'
    BY DEF AutomationInv, TypeOK, CronTypeOK, OneReceiptEach, OccurrenceOnce, Workers, Runs
  <1> QED
    BY <1>4, <1>5, <1>6, <1>7, <1>8, <1>9 DEF AutomationInv

\* Hermes edits and the clock concern neither custody nor leases, and an edit
\* enables no job.
LEMMA EnvironmentInv ==
    ASSUME AutomationInv, Environment,
           UNCHANGED <<consentVars, authorityVars, main, consenter, worker, runs, history>>
    PROVE  AutomationInv'
  <1>1. /\ ApprovalsTypeOK' /\ clock' <= MaxClock'
        /\ CronTypeOK'
        /\ \A j \in Jobs : Enabled(j)' => Enabled(j)
    <2>1. ApprovalsTypeOK /\ CronTypeOK /\ clock <= MaxClock
      BY DEF AutomationInv, TypeOK
    <2>2. CASE Tick /\ UNCHANGED cronVars
      BY <2>1, <2>2, ApprovalsAssumption DEF Tick, ApprovalsTypeOK, CronTypeOK, Enabled
    <2>3. CASE EditJob /\ UNCHANGED storeVars
      BY <2>1, <2>3 DEF EditJob, ApprovalsTypeOK, CronTypeOK, JobRecords, Enabled
    <2>4. CASE EditConfig /\ UNCHANGED storeVars
      BY <2>1, <2>4 DEF EditConfig, ApprovalsTypeOK, CronTypeOK, Enabled
    <2> QED
      BY <2>2, <2>3, <2>4 DEF Environment
  <1>2. TypeOK'
    BY <1>1 DEF AutomationInv, TypeOK, AutomationConsentTypeOK, AuthorityTypeOK, LedgerTypeOK
  <1>3. Custody'
    BY DEF AutomationInv, Custody, Phase, Drained, Working
  <1>4. Locals'
    BY DEF AutomationInv, Locals, Recorded, Working
  <1>5. StopProgress'
    BY <1>1 DEF AutomationInv, StopProgress, StopAllHolds
  <1>6. LeasesOnRecord'
    BY DEF AutomationInv, LeasesOnRecord, Leased
  <1>7. OneReceiptEach'
    BY DEF AutomationInv, OneReceiptEach, OccurrenceOnce
  <1> QED
    BY <1>2, <1>3, <1>4, <1>5, <1>6, <1>7 DEF AutomationInv

LEMMA StutterInv ==
    ASSUME AutomationInv, UNCHANGED vars
    PROVE  AutomationInv'
  <1> USE DEF vars
  <1>1. TypeOK'
    BY DEF AutomationInv, TypeOK, ApprovalsTypeOK, CronTypeOK, AutomationConsentTypeOK,
           AuthorityTypeOK, LedgerTypeOK
  <1>2. Custody' /\ Locals'
    BY DEF AutomationInv, Custody, Phase, Drained, Working, Locals, Recorded
  <1>3. StopProgress'
    BY DEF AutomationInv, StopProgress, StopAllHolds, Enabled
  <1>4. LeasesOnRecord' /\ OneReceiptEach'
    BY DEF AutomationInv, LeasesOnRecord, Leased, OneReceiptEach, OccurrenceOnce
  <1> QED
    BY <1>1, <1>2, <1>3, <1>4 DEF AutomationInv

----------------------------------------------------------------------------
\* The inductive invariant

LEMMA InitInv == Init => AutomationInv
  <1> SUFFICES ASSUME Init PROVE AutomationInv
    OBVIOUS
  <1> USE DEF Init, NoCall, NoDecision, NoWorker, NoRun
  <1>1. ApprovalsTypeOK /\ clock <= MaxClock
    BY ApprovalsAssumption DEF StoreInit, ApprovalsTypeOK, Unissued, ApprovalRecords,
           ApprovalStates
  <1>2. CronTypeOK
    BY CronAssumption DEF CronInit, CronTypeOK, JobRecords, JobStates
  <1>3. AutomationConsentTypeOK
    BY DEF AutomationConsentInit, AutomationConsentTypeOK, NoConsent, ConsentRecords,
           ConsentStates
  <1>4. AuthorityTypeOK
    BY DEF AuthorityInit, AuthorityTypeOK, LedgerTypeOK
  <1>5. 0 \in Deadlines
    BY ApprovalsAssumption, AutomationConsentAssumption DEF Deadlines
  <1>6. main \in Calls /\ consenter \in Decisions /\ worker \in Workers
    BY <1>5 DEF Calls, Decisions, Workers
  <1>7. runs \in [Executions -> Runs]
    BY DEF Runs
  <1>8. TypeOK
    BY <1>1, <1>2, <1>3, <1>4, <1>6, <1>7 DEF TypeOK
  <1>9. \A e \in Executions : ~Working(e) /\ ~Leased(e)
    BY DEF Working, Leased
  <1>10. Custody
    BY <1>9 DEF Custody, Phase, Drained, AuthorityInit
  <1>11. Locals
    BY <1>9 DEF Locals, Recorded, AutomationConsentInit, NoConsent
  <1>12. StopProgress
    BY DEF StopProgress, StopAllHolds
  <1>13. LeasesOnRecord
    <2>1. {e \in Executions : Leased(e)} = {}
      BY <1>9
    <2> QED
      BY <1>9, <2>1, FS_EmptySet DEF LeasesOnRecord, AuthorityInit
  <1>14. OneReceiptEach
    BY DEF OneReceiptEach, OccurrenceOnce
  <1> QED
    BY <1>8, <1>10, <1>11, <1>12, <1>13, <1>14 DEF AutomationInv

LEMMA StepInv ==
    ASSUME AutomationInv, [Next]_vars
    PROVE  AutomationInv'
  <1>1. CASE Management
    BY <1>1, CheckStatusInv, CreateInv, LookupJobInv, RevokeForCallInv, ApplyCallInv,
       RequestActivationInv, StopAllInv, ListEnabledInv, PauseListedInv DEF Management
  <1>2. CASE Decision
    BY <1>2, FindConsentInv, VerifyAndDecideInv, ReadJobInv, IssueApprovalInv,
       MakeApprovalAvailableInv, OpenAuthorityInv, RebindInv, ActivateInv, ResumeInv DEF Decision
  <1>3. CASE BindWorker \/ Signal \/ DispatchCloses
    BY <1>3, BindWorkerInv, SignalInv, DispatchClosesInv
  <1>4. CASE \E e \in Executions, j \in Jobs, o \in Occurrences : Dispatch(e, j, o)
    BY <1>4, DispatchInv
  <1>5. CASE WorkerSteps
    <2>1. CASE \E e \in Executions : Execute(e)
      BY <2>1, AcquireInv, AdmitInv, EnterInv, StartScriptInv, FinalizeInv DEF Execute
    <2> QED
      BY <1>5, <2>1, ServeInv, EndServingInv, ShutdownInv, DrainTimeoutInv, ExitInv DEF WorkerSteps
  <1>6. CASE RestartRuntime \/ WorkerCrash
    BY <1>6, RestartRuntimeInv, WorkerCrashInv
  <1>7. CASE /\ Environment
             /\ UNCHANGED <<consentVars, authorityVars, main, consenter, worker, runs, history>>
    BY <1>7, EnvironmentInv
  <1>8. CASE UNCHANGED vars
    BY <1>8, StutterInv
  <1> QED
    BY <1>1, <1>2, <1>3, <1>4, <1>5, <1>6, <1>7, <1>8 DEF Next

\* The scheduler's inductive invariant holds in every reachable state: who has
\* the ledger of control/automation.py open decides who may grant, resume and
\* lease, and the parts below follow.
THEOREM AutomationInvariance == Spec => []AutomationInv
  <1>1. Init => AutomationInv
    BY InitInv
  <1>2. AutomationInv /\ [Next]_vars => AutomationInv'
    BY StepInv
  <1> QED
    BY <1>1, <1>2, PTL DEF Spec

\* Every variable keeps the shape the code gives it.
THEOREM AutomationTypeCorrectness == Spec => []TypeOK
  <1>1. AutomationInv => TypeOK
    BY DEF AutomationInv
  <1> QED
    BY <1>1, AutomationInvariance, PTL

\* One occurrence of a job is admitted at most once, ever, however many
\* executions, crashes and activations there are (automation.py, admit).
THEOREM OneAdmissionPerOccurrence == Spec => []OccurrenceOnce
  <1>1. AutomationInv => OccurrenceOnce
    BY DEF AutomationInv, OneReceiptEach
  <1> QED
    BY <1>1, AutomationInvariance, PTL

\* After a stop-all call has succeeded no job is enabled, whatever activation
\* was under way (automation_management.py, global_stop and _activate).
THEOREM StopAllIsComplete == Spec => []StopAllHolds
  <1>1. AutomationInv => StopAllHolds
    BY DEF AutomationInv, StopProgress
  <1> QED
    BY <1>1, AutomationInvariance, PTL

\* A lease is out only under the worker's lock and with its receipt in flight,
\* and the counter that serve waits for is exact.
THEOREM LeasesAreOnRecord == Spec => []LeasesOnRecord
  <1>1. AutomationInv => LeasesOnRecord
    BY DEF AutomationInv
  <1> QED
    BY <1>1, AutomationInvariance, PTL

----------------------------------------------------------------------------
\* Action properties

LEMMA StopStep ==
    ASSUME [Next]_vars, stopped
    PROVE  stopped' /\ leases' = leases
  <1>1. CASE Management
    BY <1>1 DEF Management, CheckStatus, Create, LookupJob, RevokeForCall, ApplyCall,
           RequestActivation, StopAll, ListEnabled, PauseListed, GlobalStop
  <1>2. CASE Decision
    <2>1. CASE \/ \E c \in ConsentIds : FindConsent(c)
               \/ VerifyAndDecide \/ ReadJob \/ IssueApproval \/ MakeApprovalAvailable
      <3>1. CASE \E c \in ConsentIds : FindConsent(c)
        BY <3>1, Zenon DEF FindConsent
      <3>2. CASE VerifyAndDecide
        BY <3>2, Zenon DEF VerifyAndDecide
      <3>3. CASE ReadJob \/ IssueApproval \/ MakeApprovalAvailable
        BY <3>3, Zenon DEF ReadJob, IssueApproval, MakeApprovalAvailable
      <3> QED
        BY <2>1, <3>1, <3>2, <3>3
    <2>2. CASE OpenAuthority \/ Rebind
      BY <2>2 DEF OpenAuthority, Rebind
    <2>3. CASE Activate \/ Resume
      BY <2>3 DEF Activate, Resume
    <2> QED
      BY <1>2, <2>1, <2>2, <2>3 DEF Decision
  <1>3. CASE BindWorker \/ Signal \/ DispatchCloses
    BY <1>3 DEF BindWorker, Signal, DispatchCloses
  <1>4. CASE \E e \in Executions, j \in Jobs, o \in Occurrences : Dispatch(e, j, o)
    BY <1>4 DEF Dispatch
  <1>5. CASE Serve \/ EndServing \/ Shutdown \/ DrainTimeout \/ Exit
    BY <1>5 DEF Serve, EndServing, Shutdown, DrainTimeout, Exit, GlobalStop
  <1>6. CASE \E e \in Executions : Execute(e)
    BY <1>6 DEF Execute, Acquire, Admit, MayAdmit, Enter, StartScript, Finalize
  <1>7. CASE RestartRuntime \/ WorkerCrash
    BY <1>7 DEF RestartRuntime, WorkerCrash
  <1>8. CASE UNCHANGED <<consentVars, authorityVars, main, consenter, worker, runs, history>>
    BY <1>8
  <1>9. CASE UNCHANGED vars
    BY <1>9 DEF vars
  <1> QED
    BY <1>1, <1>2, <1>3, <1>4, <1>5, <1>6, <1>7, <1>8, <1>9 DEF Next, WorkerSteps

\* The stop is durable and closes admission at once (automation.py,
\* global_stop and admit).
THEOREM StopIsDurable == Spec => [][stopped => stopped' /\ leases' = leases]_vars
  <1>1. [Next]_vars => [stopped => stopped' /\ leases' = leases]_vars
    BY StopStep
  <1> QED
    BY <1>1, PTL DEF Spec

\* A receipt is kept, settled once and settled by the right hand.
LEMMA ReceiptsStep ==
    ASSUME AutomationInv, [Next]_vars, NEW e \in Executions, receipts[e] # NoReceipt
    PROVE  /\ receipts'[e] = [receipts[e] EXCEPT !.state = receipts'[e].state]
           /\ receipts'[e].state # receipts[e].state =>
                 /\ receipts[e].state = "inflight"
                 /\ receipts'[e].state = IF Leased(e) THEN "spent" ELSE "unknown"
  <1>1. /\ receipts \in [Executions -> Receipts \cup {NoReceipt}] /\ receipts[e] \in Receipts
        /\ Leased(e) => holder = "worker" /\ receipts[e].state = "inflight"
    BY DEF AutomationInv, TypeOK, AuthorityTypeOK, LedgerTypeOK, LeasesOnRecord
  <1>2. CASE UNCHANGED receipts
    BY <1>1, <1>2 DEF Receipts
  <1>3. CASE Recover /\ holder = "none"
    BY <1>1, <1>3 DEF Recover, Receipts
  <1>4. CASE \E d \in Executions : Finalize(d) /\ SpendReceipt(d)
    BY <1>1, <1>4 DEF Finalize, SpendReceipt, Leased, Receipts
  <1>5. CASE \E d \in Executions : /\ StoreReceipt(d, runs[d].job, runs[d].occurrence)
                                  /\ receipts[d] = NoReceipt
    BY <1>1, <1>5 DEF StoreReceipt, Receipts
  <1>6. CASE Management
    BY <1>2, <1>3, <1>6 DEF Management, CheckStatus, Create, LookupJob, RevokeForCall,
           ApplyCall,
           RequestActivation, StopAll, ListEnabled, PauseListed, ScopeOpens, ScopeDenied
  <1>7. CASE Decision
    <2>1. CASE \/ \E c \in ConsentIds : FindConsent(c)
               \/ VerifyAndDecide \/ ReadJob \/ IssueApproval \/ MakeApprovalAvailable
      <3>1. CASE \E c \in ConsentIds : FindConsent(c)
        BY <1>2, <3>1, Zenon DEF FindConsent
      <3>2. CASE VerifyAndDecide
        BY <1>2, <3>2, Zenon DEF VerifyAndDecide
      <3>3. CASE ReadJob \/ IssueApproval \/ MakeApprovalAvailable
        BY <1>2, <3>3, Zenon DEF ReadJob, IssueApproval, MakeApprovalAvailable
      <3> QED
        BY <2>1, <3>1, <3>2, <3>3
    <2>2. CASE OpenAuthority \/ Rebind
      BY <1>2, <1>3, <2>2 DEF OpenAuthority, Rebind, Open, ScopeDenied
    <2>3. CASE Activate \/ Resume
      BY <1>2, <2>3 DEF Activate, Resume
    <2> QED
      BY <1>7, <2>1, <2>2, <2>3 DEF Decision
  <1>8. CASE BindWorker \/ Signal \/ DispatchCloses
    BY <1>2, <1>3, <1>8 DEF BindWorker, Open, Signal, DispatchCloses
  <1>9. CASE \E d \in Executions, j \in Jobs, o \in Occurrences : Dispatch(d, j, o)
    BY <1>2, <1>9 DEF Dispatch
  <1>10. CASE Serve \/ EndServing \/ Shutdown \/ DrainTimeout \/ Exit
    BY <1>2, <1>10 DEF Serve, EndServing, Shutdown, DrainTimeout, Exit
  <1>11. CASE \E d \in Executions : Execute(d)
    <2>1. PICK d \in Executions : Execute(d)
      BY <1>11
    <2>2. CASE Acquire(d) \/ Enter(d) \/ StartScript(d)
      BY <1>2, <2>2 DEF Acquire, Enter, StartScript
    <2>3. CASE Admit(d)
      BY <1>2, <1>5, <2>3 DEF Admit, MayAdmit, Replayed
    <2>4. CASE Finalize(d)
      BY <1>2, <1>4, <2>4 DEF Finalize
    <2> QED
      BY <2>1, <2>2, <2>3, <2>4 DEF Execute
  <1>12. CASE RestartRuntime \/ WorkerCrash
    BY <1>2, <1>12 DEF RestartRuntime, WorkerCrash
  <1>13. CASE UNCHANGED authorityVars
    BY <1>2, <1>13
  <1> QED
    BY <1>6, <1>7, <1>8, <1>9, <1>10, <1>11, <1>12, <1>13 DEF Next, WorkerSteps, vars

\* Receipts are tombstones: none is dropped or moved, a settled one stays as it
\* is, and recovery settles only what nobody is executing (automation.py,
\* __init__ and admit).
THEOREM ReceiptsAreTombstones == Spec => ReceiptsStay
  <1>1. AutomationInv /\ [Next]_vars =>
            [\A e \in Executions : receipts[e] # NoReceipt =>
                /\ receipts'[e] = [receipts[e] EXCEPT !.state = receipts'[e].state]
                /\ receipts'[e].state # receipts[e].state =>
                      /\ receipts[e].state = "inflight"
                      /\ receipts'[e].state = IF Leased(e) THEN "spent" ELSE "unknown"]_vars
    BY ReceiptsStep
  <1> QED
    BY <1>1, AutomationInvariance, PTL DEF Spec, ReceiptsStay

----------------------------------------------------------------------------
\* What was signed

\* Every part of the next step, in a form that names its actions.
LEMMA NextCases ==
    ASSUME [Next]_vars
    PROVE  \/ CheckStatus \/ RevokeForCall \/ ApplyCall \/ RequestActivation
           \/ StopAll \/ ListEnabled \/ PauseListed
           \/ \E j \in Jobs, v \in JobVersions : Create(j, v)
           \/ \E j \in Jobs, op \in {"pause", "remove", "resume"}, p \in Principals :
                 LookupJob(op, j, p)
           \/ \E c \in ConsentIds : FindConsent(c)
           \/ VerifyAndDecide \/ ReadJob \/ IssueApproval \/ MakeApprovalAvailable
           \/ OpenAuthority \/ Rebind \/ Activate \/ Resume
           \/ BindWorker \/ Signal \/ DispatchCloses
           \/ \E e \in Executions, j \in Jobs, o \in Occurrences : Dispatch(e, j, o)
           \/ Serve \/ EndServing \/ Shutdown \/ DrainTimeout \/ Exit
           \/ \E e \in Executions : \/ Acquire(e) \/ Admit(e) \/ Enter(e)
                                   \/ StartScript(e) \/ Finalize(e)
           \/ RestartRuntime \/ WorkerCrash
           \/ /\ Environment
              /\ UNCHANGED <<consentVars, authorityVars, main, consenter, worker, runs, history>>
           \/ UNCHANGED vars
  BY Zenon DEF Next, Management, Decision, WorkerSteps, Execute

\* Only an activation stores a grant: the one its approval was consumed for.
LEMMA GrantsStep ==
    ASSUME AutomationInv, [Next]_vars
    PROVE  \/ UNCHANGED grants
           \/ \E k \in Jobs : RevokeGrant(k)
           \/ Activate
  <1>1. main.step = "revoke" => main.job \in Jobs
    BY DEF AutomationInv, Locals
  <1>2. consenter.step = "resume" => consenter.asked.job \in Jobs
    BY DEF AutomationInv, Locals, Bindings
  <1>3. RevokeForCall \/ Resume => UNCHANGED grants \/ \E k \in Jobs : RevokeGrant(k)
    BY <1>1, <1>2 DEF RevokeForCall, Resume
  <1>4. (\E c \in ConsentIds : FindConsent(c)) \/ VerifyAndDecide \/ RequestActivation => UNCHANGED grants
    BY Zenon DEF FindConsent, VerifyAndDecide, RequestActivation
  <1> QED
    BY <1>3, <1>4, NextCases, Zenon
       DEF CheckStatus, ApplyCall, StopAll, ListEnabled, PauseListed, Create, LookupJob, ReadJob,
           IssueApproval, MakeApprovalAvailable, OpenAuthority, Rebind, BindWorker, Signal,
           DispatchCloses, Dispatch, Serve, EndServing, Shutdown, DrainTimeout, Exit, Acquire,
           Admit, Enter, StartScript, Finalize, RestartRuntime, WorkerCrash, vars

\* Signatures are kept.
LEMMA SignedStep ==
    ASSUME [Next]_vars
    PROVE  signed \subseteq signed'
  <1>1. UNCHANGED signed \/ \E b : signed' = signed \cup {b}
    <2>1. VerifyAndDecide => UNCHANGED signed \/ \E b : signed' = signed \cup {b}
      BY Zenon DEF VerifyAndDecide
    <2> QED
      BY <2>1, NextCases, Zenon
         DEF CheckStatus, RevokeForCall, ApplyCall, RequestActivation, StopAll, ListEnabled,
             PauseListed, Create, LookupJob, FindConsent, ReadJob, IssueApproval,
             MakeApprovalAvailable, OpenAuthority, Rebind, Activate, Resume, BindWorker, Signal,
             DispatchCloses, Dispatch, Serve, EndServing, Shutdown, DrainTimeout, Exit, Acquire,
             Admit, Enter, StartScript, Finalize, RestartRuntime, WorkerCrash, vars
  <1> QED
    BY <1>1

\* An activation spends an approval of exactly the binding that was signed.
LEMMA GrantsSigned ==
    ASSUME AutomationInv, Consented, [Next]_vars, NEW j \in Jobs
    PROVE  GrantSigned(j)'
  <1> USE DEF AutomationInv, TypeOK, AuthorityTypeOK, LedgerTypeOK
  <1>1. ASSUME grants[j] # Nothing, grants'[j].version = grants[j].version,
               grants'[j].until = grants[j].until
        PROVE  GrantSigned(j)'
    BY <1>1, SignedStep DEF Consented, GrantSigned, SignedFor
  <1>0. CASE grants'[j] = Nothing
    BY <1>0 DEF GrantSigned
  <1>2. CASE UNCHANGED grants
    BY <1>0, <1>1, <1>2
  <1>3. ASSUME NEW k \in Jobs, RevokeGrant(k), grants'[j] # Nothing
        PROVE  GrantSigned(j)'
    <2>1. grants[j] # Nothing /\ grants[j] \in Grants
      BY <1>3 DEF RevokeGrant
    <2>2. grants'[j].version = grants[j].version /\ grants'[j].until = grants[j].until
      BY <1>3, <2>1 DEF RevokeGrant, Grants
    <2> QED
      BY <1>1, <2>1, <2>2
  <1>4. ASSUME Activate, ~UNCHANGED grants
        PROVE  GrantSigned(j)'
    <2> DEFINE b == consenter.bound
               i == consenter.approval
    <2>1. consenter.step = "activate" /\ i \in ApprovalIds /\ b \in Bindings
      BY <1>4 DEF Activate, Locals
    <2>2. CanConsume(i, b, b.owner) /\ StoreGrant(b.job, b.version, config, b.owner, b.until)
      BY <1>4 DEF Activate
    <2>3. approvals[i].fingerprint = b
      BY <2>1, <2>2 DEF CanConsume, Current, ApprovalsTypeOK, ApprovalRecords
    <2>4. b \in signed
      BY <2>1, <2>3 DEF Consented
    <2>5. b.until \in Nat
      BY <2>1, ApprovalsAssumption, AutomationConsentAssumption DEF Bindings, Deadlines
    <2>6. CASE j = b.job
      <3>1. grants'[j].version = b.version /\ grants'[j].until = b.until
        BY <2>2, <2>6 DEF StoreGrant
      <3>2. b \in signed' /\ b.until <= b.until
        BY <2>4, <2>5, SignedStep
      <3> QED
        BY <2>6, <3>1, <3>2 DEF GrantSigned, SignedFor
    <2>7. CASE j # b.job
      <3>1. grants'[j] = grants[j]
        BY <2>1, <2>2, <2>7 DEF StoreGrant
      <3> QED
        BY <1>0, <1>1, <3>1
    <2> QED
      BY <2>6, <2>7
  <1> QED
    BY <1>0, <1>2, <1>3, <1>4, GrantsStep

\* A lease rests on the grant in force, and ends no later.
LEMMA LeasesSigned ==
    ASSUME AutomationInv, Consented, [Next]_vars, NEW e \in Executions
    PROVE  LeaseSigned(e)'
  <1> USE DEF AutomationInv, TypeOK
  <1>1. CASE runs'[e] = runs[e]
    BY <1>1, SignedStep DEF Consented, LeaseSigned, SignedFor
  <1>2. ASSUME NEW d \in Executions, Admit(d), runs'[e] # runs[e],
               runs'[e].step \in {"leased", "entered"}
        PROVE  LeaseSigned(e)'
    <2> DEFINE r == runs[e]
    <2>1. /\ d = e
          /\ MayAdmit(e, r.job, r.occurrence, r.version, r.config)
          /\ runs' = [runs EXCEPT ![e].step = "leased", ![e].deadline = LeaseEnd(r.job)]
      BY <1>2 DEF Admit, Refuse, StepTo, Runs
    <2>2. GrantInForce(r.job, r.version, r.config) /\ r.job \in Jobs
      BY <1>2, <2>1 DEF MayAdmit, Admit, Locals, Working
    <2>3. /\ grants[r.job] # Nothing /\ grants[r.job] \in Grants
          /\ grants[r.job].version = r.version
      BY <2>2 DEF GrantInForce, AuthorityTypeOK, LedgerTypeOK
    <2>4. PICK b \in signed : /\ b.job = r.job /\ b.version = r.version
                              /\ grants[r.job].until <= b.until
      BY <2>2, <2>3 DEF Consented, GrantSigned, SignedFor
    <2>5. /\ clock + LeaseTime \in Nat /\ grants[r.job].until \in Nat /\ b.until \in Nat
      BY <2>3, <2>4, ApprovalsAssumption, AutomationConsentAssumption, AuthorityAssumption
         DEF ApprovalsTypeOK, Grants, Bindings, Deadlines
    <2>6. LeaseEnd(r.job) <= b.until
      BY <2>4, <2>5 DEF LeaseEnd
    <2>7. /\ runs'[e].job = r.job /\ runs'[e].version = r.version
          /\ runs'[e].deadline = LeaseEnd(r.job)
      BY <2>1 DEF Runs
    <2>8. b \in signed'
      BY <2>4, SignedStep
    <2> QED
      BY <2>4, <2>6, <2>7, <2>8 DEF LeaseSigned, SignedFor
  <1>3. ASSUME NEW d \in Executions, Acquire(d) \/ StartScript(d) \/ Finalize(d)
        PROVE  runs'[e] = runs[e] \/ runs'[e].step \notin {"leased", "entered"}
    BY <1>3 DEF Acquire, StartScript, Finalize, Refuse, StepTo, Runs
  <1>8. ASSUME NEW d \in Executions, Enter(d), runs'[e] # runs[e]
        PROVE  LeaseSigned(e)'
    <2>1. /\ d = e /\ runs[e].step = "leased"
          /\ runs'[e].job = runs[e].job /\ runs'[e].version = runs[e].version
          /\ runs'[e].deadline = runs[e].deadline
      BY <1>8 DEF Enter, StepTo, Runs
    <2> QED
      BY <2>1, SignedStep DEF Consented, LeaseSigned, SignedFor
  <1>4. ASSUME NEW d \in Executions, NEW j \in Jobs, NEW o \in Occurrences, Dispatch(d, j, o)
        PROVE  runs'[e] = runs[e] \/ runs'[e].step \notin {"leased", "entered"}
    BY <1>4 DEF Dispatch, NoRun, Runs
  <1>5. WorkerCrash => runs'[e] = runs[e] \/ runs'[e].step \notin {"leased", "entered"}
    BY DEF WorkerCrash, NoRun
  <1>7. CASE runs'[e].step \notin {"leased", "entered"}
    BY <1>7 DEF LeaseSigned
  <1>6. \/ UNCHANGED runs
        \/ \E d \in Executions : \/ Acquire(d) \/ Admit(d) \/ Enter(d)
                                \/ StartScript(d) \/ Finalize(d)
        \/ \E d \in Executions, j \in Jobs, o \in Occurrences : Dispatch(d, j, o)
        \/ WorkerCrash
    BY NextCases, Zenon
       DEF CheckStatus, RevokeForCall, ApplyCall, RequestActivation, StopAll, ListEnabled,
           PauseListed, Create, LookupJob, FindConsent, VerifyAndDecide, ReadJob, IssueApproval,
           MakeApprovalAvailable, OpenAuthority, Rebind, Activate, Resume, BindWorker, Signal,
           DispatchCloses, Serve, EndServing, Shutdown, DrainTimeout, Exit, RestartRuntime, vars
  <1> QED
    BY <1>1, <1>2, <1>3, <1>4, <1>5, <1>6, <1>7, <1>8

\* A decision carries what was signed, and its approval names just that.
LEMMA DecisionSigned ==
    ASSUME AutomationInv, Consented, [Next]_vars
    PROVE  /\ consenter'.step \notin {"idle", "verify"} => consenter'.asked \in signed'
           /\ consenter'.step \in {"make_available", "open", "bind", "activate"} =>
                 approvals'[consenter'.approval].fingerprint = consenter'.asked
  <1>0. consenter \in Decisions /\ ApprovalsTypeOK /\ Locals
    BY DEF AutomationInv, TypeOK
  <1> USE <1>0 DEF Decisions
  <1> DEFINE Carries == consenter'.step \notin {"idle", "verify"} => consenter'.asked \in signed'
             Named   == consenter'.step \in {"make_available", "open", "bind", "activate"} =>
                           approvals'[consenter'.approval].fingerprint = consenter'.asked
  <1>1. CASE consenter'.step \in {"idle", "verify"}
    BY <1>1
  <1>2. ASSUME consenter'.asked = consenter.asked, consenter.step \notin {"idle", "verify"}
        PROVE  Carries
    BY <1>2, SignedStep DEF Consented
  <1>3. CASE UNCHANGED <<consenter, approvals>>
    BY <1>2, <1>3 DEF Consented
  <1>4. CASE VerifyAndDecide
    <2>1. \/ consenter' = NoDecision
          \/ \E b : /\ consenter' = [consenter EXCEPT !.step = "lookup", !.asked = b]
                   /\ signed' = signed \cup {b}
      BY <1>4, Zenon DEF VerifyAndDecide, Answer
    <2>2. CASE consenter' = NoDecision
      BY <1>1, <2>2 DEF NoDecision
    <2>3. ASSUME NEW b, consenter' = [consenter EXCEPT !.step = "lookup", !.asked = b],
                 signed' = signed \cup {b}
          PROVE  Carries /\ Named
      <3>1. consenter'.step = "lookup" /\ consenter'.asked = b
        BY <2>3
      <3> QED
        BY <2>3, <3>1
    <2> QED
      BY <2>1, <2>2, <2>3, Zenon
  <1>5. CASE ReadJob
    <2>1. /\ consenter.step = "lookup"
          /\ \/ consenter' = NoDecision
             \/ \E j : consenter' = [consenter EXCEPT !.step = "issue", !.seen = j]
      BY <1>5, Zenon DEF ReadJob, Answer
    <2>2. CASE consenter' = NoDecision
      BY <1>1, <2>2 DEF NoDecision
    <2>3. ASSUME NEW j, consenter' = [consenter EXCEPT !.step = "issue", !.seen = j]
          PROVE  Carries /\ Named
      <3>1. consenter'.step = "issue" /\ consenter'.asked = consenter.asked
        BY <2>3
      <3> QED
        BY <1>2, <2>1, <3>1, Zenon
    <2> QED
      BY <2>1, <2>2, <2>3, Zenon
  <1>6. CASE IssueApproval
    <2>1. PICK i \in ApprovalIds :
             /\ Issue(i, consenter.asked, consenter.asked.owner)
             /\ consenter' = [consenter EXCEPT !.step = "make_available", !.approval = i]
      BY <1>6, Zenon DEF IssueApproval
    <2>2. approvals'[i].fingerprint = consenter.asked
      BY <2>1 DEF Issue, ApprovalsTypeOK
    <2>3. consenter.step = "issue"
      BY <1>6 DEF IssueApproval
    <2> QED
      BY <1>2, <2>1, <2>2, <2>3
  <1>7. CASE MakeApprovalAvailable
    <2>1. consenter.step = "make_available" /\ consenter.approval \in ApprovalIds
      BY <1>7 DEF MakeApprovalAvailable, Locals
    <2>2. approvals'[consenter.approval].fingerprint = approvals[consenter.approval].fingerprint
      BY <1>7, <2>1 DEF MakeApprovalAvailable, MakeAvailable, Move, CanMakeAvailable, Current,
                        ApprovalsTypeOK, ApprovalRecords
    <2>3. consenter' = NoDecision \/ consenter' = [consenter EXCEPT !.step = "open"]
      BY <1>7 DEF MakeApprovalAvailable, GoOn, Answer
    <2> QED
      BY <1>2, <2>1, <2>2, <2>3 DEF Consented, NoDecision
  <1>8. CASE OpenAuthority \/ Rebind
    <2>1. /\ consenter.step \in {"open", "bind"} /\ UNCHANGED approvals
          /\ \/ consenter' = NoDecision
             \/ consenter' = [consenter EXCEPT !.step = "bind"]
             \/ \E b : consenter' = [consenter EXCEPT !.step = "activate", !.bound = b]
      <3>1. CASE OpenAuthority
        BY <3>1, Zenon DEF OpenAuthority, GoOn, Answer
      <3>2. CASE Rebind
        BY <3>2, Zenon DEF Rebind, Answer
      <3> QED
        BY <1>8, <3>1, <3>2, Zenon
    <2>2. CASE consenter' = NoDecision
      BY <1>1, <2>2 DEF NoDecision
    <2>3. ASSUME NEW b, NEW s, s \in {"bind", "activate"},
                 \/ consenter' = [consenter EXCEPT !.step = s]
                 \/ consenter' = [consenter EXCEPT !.step = s, !.bound = b]
          PROVE  Carries /\ Named
      <3>1. consenter'.asked = consenter.asked /\ consenter'.approval = consenter.approval
        BY <2>3
      <3>2. Carries
        BY <1>2, <2>1, <3>1, Zenon
      <3>3. approvals[consenter.approval].fingerprint = consenter.asked
        <4>1. consenter.step \in {"make_available", "open", "bind", "activate"}
          BY <2>1, Zenon
        <4> QED
          BY <4>1, Zenon DEF Consented
      <3>4. Named
        BY <2>1, <3>1, <3>3, Zenon
      <3> QED
        BY <3>2, <3>4
    <2> QED
      BY <2>1, <2>2, <2>3, Zenon
  <1>9. CASE Activate \/ Resume
    BY <1>2, <1>9 DEF Activate, Resume, GoOn, Answer, NoDecision
  <1>10. ASSUME NEW c \in ConsentIds, FindConsent(c)
         PROVE  consenter'.step \in {"idle", "verify"}
    BY <1>10, Zenon DEF FindConsent, NoDecision
  <1>11. CASE RestartRuntime
    BY <1>11 DEF RestartRuntime, NoDecision
  <1>12. \/ UNCHANGED <<consenter, approvals>>
         \/ \E c \in ConsentIds : FindConsent(c)
         \/ VerifyAndDecide \/ ReadJob \/ IssueApproval \/ MakeApprovalAvailable
         \/ OpenAuthority \/ Rebind \/ Activate \/ Resume \/ RestartRuntime
    <2>1. Environment => UNCHANGED approvals
      BY DEF Environment, Tick
    <2> QED
      BY <2>1, NextCases, Zenon
         DEF CheckStatus, RevokeForCall, ApplyCall, RequestActivation, StopAll, ListEnabled,
             PauseListed, Create, LookupJob, BindWorker, Signal, DispatchCloses, Dispatch, Serve,
             EndServing, Shutdown, DrainTimeout, Exit, Acquire, Admit, Enter, StartScript, Finalize,
             WorkerCrash, vars
  <1> QED
    BY <1>1, <1>3, <1>4, <1>5, <1>6, <1>7, <1>8, <1>9, <1>10, <1>11, <1>12

\* A signature stands behind every grant and every lease, whatever the two
\* processes, their crashes and the edits of jobs and profile do in between.
THEOREM GrantsAreSigned == Spec => []Consented
  <1>1. Init => Consented
    BY DEF Init, AuthorityInit, NoDecision, NoRun, Consented, GrantSigned, LeaseSigned
  <1>2. AutomationInv /\ Consented /\ [Next]_vars => Consented'
    BY GrantsSigned, LeasesSigned, DecisionSigned DEF Consented
  <1> QED
    BY <1>1, <1>2, AutomationInvariance, PTL DEF Spec

\* A script starts only in a version a user signed for, and before what they
\* signed is over (automation_runtime.py, the hook's second look under the lease
\* and script_input; automation.py, admit and activate).
THEOREM ScriptsRunAsConsented == Spec => ScriptRunsAsConsented
  <1> DEFINE AsConsented ==
        \A e \in Executions :
            runs[e].step = "entered" /\ runs'[e].step = "running" =>
                \E b \in signed : /\ b.job = runs[e].job
                                  /\ b.version = runs[e].version
                                  /\ clock < b.until
  <1>1. ASSUME AutomationInv, Consented, [Next]_vars
        PROVE  AsConsented
    <2> SUFFICES ASSUME NEW e \in Executions, runs[e].step = "entered", runs'[e].step = "running"
                 PROVE  \E b \in signed : /\ b.job = runs[e].job
                                          /\ b.version = runs[e].version
                                          /\ clock < b.until
      OBVIOUS
    <2> USE <1>1 DEF AutomationInv, TypeOK
    <2>1. StartScript(e)
      <3>1. \A d \in Executions : StartScript(d) \/ Acquire(d) \/ Admit(d) \/ Enter(d) \/ Finalize(d) => d = e
        BY DEF StartScript, Enter, Acquire, Admit, Finalize, Refuse, StepTo, Runs
      <3>2. Acquire(e) \/ Admit(e) \/ Enter(e) \/ Finalize(e) => FALSE
        BY DEF Acquire, Admit, Enter, Finalize
      <3>3. \A d \in Executions, j \in Jobs, o \in Occurrences : ~Dispatch(d, j, o)
        BY DEF Dispatch, NoRun, Runs
      <3>4. ~WorkerCrash
        BY DEF WorkerCrash, NoRun
      <3>5. \/ UNCHANGED runs
            \/ \E d \in Executions : \/ Acquire(d) \/ Admit(d) \/ Enter(d)
                                    \/ StartScript(d) \/ Finalize(d)
        BY <3>3, <3>4, NextCases, Zenon
           DEF CheckStatus, RevokeForCall, ApplyCall, RequestActivation, StopAll, ListEnabled,
               PauseListed, Create, LookupJob, FindConsent, VerifyAndDecide, ReadJob,
               IssueApproval, MakeApprovalAvailable, OpenAuthority, Rebind, Activate, Resume,
               BindWorker, Signal, DispatchCloses, Serve, EndServing, Shutdown, DrainTimeout,
               Exit, RestartRuntime, vars
      <3> QED
        BY <3>1, <3>2, <3>5
    <2>2. clock < runs[e].deadline
      BY <2>1 DEF StartScript, StepTo, Runs
    <2>3. PICK b \in signed : /\ b.job = runs[e].job /\ b.version = runs[e].version
                              /\ runs[e].deadline <= b.until
      BY DEF Consented, LeaseSigned, SignedFor
    <2>4. clock \in Nat /\ runs[e].deadline \in Nat /\ b.until \in Nat
      BY <2>3, ApprovalsAssumption, AutomationConsentAssumption
         DEF ApprovalsTypeOK, Runs, Bindings, Deadlines
    <2> QED
      BY <2>2, <2>3, <2>4
  <1> QED
    BY <1>1, AutomationInvariance, GrantsAreSigned, PTL DEF Spec, ScriptRunsAsConsented

----------------------------------------------------------------------------
\* Refinement of OccurrenceLeases.  What a step leaves alone of the contract's
\* state, and what each of the contract's actions needs to be seen in it.

VersionsKept == \A j \in Jobs : jobs'[j].version = jobs[j].version
GrantsKept   == \A j \in Jobs : GrantedFor(j)' = GrantedFor(j)
ClaimsKept   == \A e \in Executions : ClaimOf(e)' = ClaimOf(e)
RunsKept     == \A e \in Executions : PhaseOf(e)' = PhaseOf(e) /\ TermOf(e)' = TermOf(e)

LEMMA StutterMaps ==
    ASSUME VersionsKept, UNCHANGED signed, GrantsKept, UNCHANGED stopped, ClaimsKept, RunsKept
    PROVE  UNCHANGED (Contract!leaseVars)
  BY DEF Contract!leaseVars, VersionsKept, GrantsKept, ClaimsKept, RunsKept

LEMMA EditMaps ==
    ASSUME NEW j \in Jobs, NEW v \in JobVersions, jobs'[j].version = v,
           \A k \in Jobs \ {j} : jobs'[k].version = jobs[k].version,
           UNCHANGED signed, GrantsKept, UNCHANGED stopped, ClaimsKept, RunsKept
    PROVE  Contract!LeaseNext
  <1>1. Contract!Edit(j, v)
    BY DEF Contract!Edit, GrantsKept, ClaimsKept, RunsKept
  <1> QED
    BY <1>1 DEF Contract!LeaseNext

LEMMA SignMaps ==
    ASSUME NEW b \in Bindings, signed' = signed \cup {b},
           VersionsKept, GrantsKept, UNCHANGED stopped, ClaimsKept, RunsKept
    PROVE  Contract!LeaseNext
  <1>1. {<<a.job, a.version>> : a \in signed'}
            = {<<a.job, a.version>> : a \in signed} \cup {<<b.job, b.version>>}
    OBVIOUS
  <1>2. Contract!Sign(b.job, b.version)
    BY <1>1 DEF Contract!Sign, VersionsKept, GrantsKept, ClaimsKept, RunsKept
  <1>3. b.job \in Jobs /\ b.version \in JobVersions
    BY DEF Bindings
  <1> QED
    BY <1>2, <1>3 DEF Contract!LeaseNext

LEMMA GrantMaps ==
    ASSUME NEW j \in Jobs, NEW v \in JobVersions, NEW b \in signed, b.job = j, b.version = v,
           ~stopped, GrantedFor(j)' = v,
           \A k \in Jobs \ {j} : GrantedFor(k)' = GrantedFor(k),
           VersionsKept, UNCHANGED signed, UNCHANGED stopped, ClaimsKept, RunsKept
    PROVE  Contract!LeaseNext
  <1>1. <<j, v>> \in {<<a.job, a.version>> : a \in signed}
    OBVIOUS
  <1>2. Contract!Grant(j, v)
    BY <1>1 DEF Contract!Grant, VersionsKept, ClaimsKept, RunsKept
  <1> QED
    BY <1>2 DEF Contract!LeaseNext

LEMMA WithdrawMaps ==
    ASSUME NEW j \in Jobs, GrantedFor(j)' = Nothing,
           \A k \in Jobs \ {j} : GrantedFor(k)' = GrantedFor(k),
           VersionsKept, UNCHANGED signed, UNCHANGED stopped, ClaimsKept, RunsKept
    PROVE  Contract!LeaseNext
  <1>1. Contract!Withdraw(j)
    BY DEF Contract!Withdraw, VersionsKept, ClaimsKept, RunsKept
  <1> QED
    BY <1>1 DEF Contract!LeaseNext

LEMMA HaltMaps ==
    ASSUME stopped', VersionsKept, UNCHANGED signed, GrantsKept, ClaimsKept, RunsKept
    PROVE  Contract!LeaseNext
  <1>1. Contract!Halt
    BY DEF Contract!Halt, VersionsKept, GrantsKept, ClaimsKept, RunsKept
  <1> QED
    BY <1>1 DEF Contract!LeaseNext

LEMMA EndMaps ==
    ASSUME NEW ended \in SUBSET Executions,
           \A e \in ended : PhaseOf(e)' = "ended" /\ TermOf(e)' = Nothing,
           \A e \in Executions \ ended : PhaseOf(e)' = PhaseOf(e) /\ TermOf(e)' = TermOf(e),
           VersionsKept, UNCHANGED signed, GrantsKept, UNCHANGED stopped, ClaimsKept
    PROVE  Contract!LeaseNext
  <1>1. Contract!End(ended)
    BY DEF Contract!End, VersionsKept, GrantsKept, ClaimsKept
  <1> QED
    BY <1>1 DEF Contract!LeaseNext

LEMMA LeaseMaps ==
    ASSUME NEW e \in Executions, NEW j \in Jobs, NEW o \in Occurrences, ~stopped,
           PhaseOf(e) = "waiting", PhaseOf(e)' = "leased",
           GrantedFor(j) \in JobVersions, TermOf(e)' = GrantedFor(j),
           \A d \in Executions : ClaimOf(d) # <<j, o>>,
           ClaimOf(e)' = <<j, o>>,
           \A d \in Executions \ {e} : /\ PhaseOf(d)' = PhaseOf(d) /\ TermOf(d)' = TermOf(d)
                                       /\ ClaimOf(d)' = ClaimOf(d),
           VersionsKept, UNCHANGED signed, GrantsKept, UNCHANGED stopped
    PROVE  Contract!LeaseNext
  <1>1. Contract!Lease(e, j, o)
    BY DEF Contract!Lease, VersionsKept, GrantsKept
  <1> QED
    BY <1>1 DEF Contract!LeaseNext

LEMMA EnterMaps ==
    ASSUME NEW e \in Executions, PhaseOf(e) = "leased", PhaseOf(e)' = "entered",
           TermOf(e)' = TermOf(e), NEW j \in Jobs, NEW o, ClaimOf(e) = <<j, o>>,
           jobs[j].version = TermOf(e),
           \A d \in Executions \ {e} : PhaseOf(d)' = PhaseOf(d) /\ TermOf(d)' = TermOf(d),
           VersionsKept, UNCHANGED signed, GrantsKept, UNCHANGED stopped, ClaimsKept
    PROVE  Contract!LeaseNext
  <1>1. ClaimOf(e)[1] = j
    OBVIOUS
  <1>2. Contract!Enter(e)
    BY <1>1 DEF Contract!Enter, VersionsKept, GrantsKept, ClaimsKept
  <1> QED
    BY <1>2 DEF Contract!LeaseNext

LEMMA StartMaps ==
    ASSUME NEW e \in Executions, PhaseOf(e) = "entered", PhaseOf(e)' = "running",
           TermOf(e)' = TermOf(e), NEW j \in Jobs, NEW o, ClaimOf(e) = <<j, o>>,
           NEW b \in signed, b.job = j, b.version = TermOf(e),
           \A d \in Executions \ {e} : PhaseOf(d)' = PhaseOf(d) /\ TermOf(d)' = TermOf(d),
           VersionsKept, UNCHANGED signed, GrantsKept, UNCHANGED stopped, ClaimsKept
    PROVE  Contract!LeaseNext
  <1>1. ClaimOf(e)[1] = j
    OBVIOUS
  <1>3. <<j, TermOf(e)>> \in {<<a.job, a.version>> : a \in signed}
    OBVIOUS
  <1>2. Contract!Start(e)
    BY <1>1, <1>3 DEF Contract!Start, VersionsKept, GrantsKept, ClaimsKept
  <1> QED
    BY <1>2 DEF Contract!LeaseNext

\* What the operations on the tables, the jobs and the executions leave alone.
LEMMA KeptFacts ==
    ASSUME AutomationInv
    PROVE  /\ UNCHANGED jobs => VersionsKept
           /\ \A j \in Jobs, s \in JobStates : SetJob(j, s) => VersionsKept
           /\ UNCHANGED grants => GrantsKept
           /\ UNCHANGED receipts \/ Recover => ClaimsKept
           /\ UNCHANGED runs => RunsKept
  <1>1. UNCHANGED jobs => VersionsKept
    BY DEF VersionsKept
  <1>2. ASSUME NEW j \in Jobs, NEW s \in JobStates, SetJob(j, s)
        PROVE  VersionsKept
    BY <1>2, SetJobFacts DEF AutomationInv, TypeOK, VersionsKept
  <1>3. UNCHANGED grants => GrantsKept
    BY DEF GrantsKept, GrantedFor
  <1>4. UNCHANGED receipts => ClaimsKept
    BY DEF ClaimsKept, ClaimOf
  <1>5. Recover => ClaimsKept
    BY RecoverFacts DEF AutomationInv, TypeOK, AuthorityTypeOK, ClaimsKept, ClaimOf
  <1>6. UNCHANGED runs => RunsKept
    BY DEF RunsKept, PhaseOf, TermOf
  <1> QED
    BY <1>1, <1>2, <1>3, <1>4, <1>5, <1>6

\* Revoking a grant withdraws it, if there is one.
LEMMA RevokeMaps ==
    ASSUME AutomationInv, NEW j \in Jobs, RevokeGrant(j),
           VersionsKept, UNCHANGED signed, UNCHANGED stopped, ClaimsKept, RunsKept
    PROVE  [Contract!LeaseNext]_(Contract!leaseVars)
  <1>1. grants \in [Jobs -> Grants \cup {Nothing}]
    BY DEF AutomationInv, TypeOK, AuthorityTypeOK, LedgerTypeOK
  <1>2. CASE grants[j] = Nothing
    BY <1>2, KeptFacts, StutterMaps DEF RevokeGrant
  <1>3. CASE grants[j] # Nothing
    <2>1. \A k \in Jobs : grants'[k] = IF k = j THEN [grants[j] EXCEPT !.revoked = TRUE] ELSE grants[k]
      BY <1>1, <1>3 DEF RevokeGrant
    <2>2. grants[j] \in Grants
      BY <1>1, <1>3
    <2>3. grants'[j].revoked
      BY <2>1, <2>2 DEF Grants
    <2>4. GrantedFor(j)' = Nothing
      BY <2>3 DEF GrantedFor
    <2>5. \A k \in Jobs \ {j} : GrantedFor(k)' = GrantedFor(k)
      BY <2>1 DEF GrantedFor
    <2> QED
      BY <2>4, <2>5, WithdrawMaps
  <1> QED
    BY <1>2, <1>3

\* An execution that leaves the others alone and is over now has ended.
LEMMA OverMaps ==
    ASSUME AutomationInv, NEW e \in Executions,
           StepTo(e, "over") \/ StepTo(e, "refused") \/ StepTo(e, "failed"),
           VersionsKept, UNCHANGED signed, GrantsKept, UNCHANGED stopped, ClaimsKept
    PROVE  Contract!LeaseNext
  <1>1. PhaseOf(e)' = "ended" /\ TermOf(e)' = Nothing
    BY DEF AutomationInv, TypeOK, Runs, StepTo, PhaseOf, TermOf
  <1>2. \A d \in Executions \ {e} : PhaseOf(d)' = PhaseOf(d) /\ TermOf(d)' = TermOf(d)
    BY DEF AutomationInv, TypeOK, StepTo, PhaseOf, TermOf
  <1> DEFINE ended == {e}
  <1>3. /\ ended \in SUBSET Executions
        /\ \A d \in ended : PhaseOf(d)' = "ended" /\ TermOf(d)' = Nothing
        /\ \A d \in Executions \ ended : PhaseOf(d)' = PhaseOf(d) /\ TermOf(d)' = TermOf(d)
    BY <1>1, <1>2
  <1> HIDE DEF ended
  <1> QED
    BY <1>3, EndMaps

\* Steps that change nothing the contract speaks of.
LEMMA QuietStep ==
    ASSUME AutomationInv,
           \/ CheckStatus \/ ApplyCall \/ RequestActivation \/ ListEnabled \/ PauseListed
           \/ \E j \in Jobs, op \in {"pause", "remove", "resume"}, p \in Principals :
                 LookupJob(op, j, p)
           \/ \E c \in ConsentIds : FindConsent(c)
           \/ ReadJob \/ IssueApproval \/ MakeApprovalAvailable \/ OpenAuthority \/ Rebind
           \/ BindWorker \/ Signal \/ DispatchCloses
           \/ \E e \in Executions, j \in Jobs, o \in Occurrences : Dispatch(e, j, o)
           \/ Serve \/ DrainTimeout \/ Exit \/ RestartRuntime \/ UNCHANGED vars
    PROVE  UNCHANGED (Contract!leaseVars)
  <1>1. UNCHANGED <<signed, grants, stopped>>
    BY Zenon DEF CheckStatus, ApplyCall, RequestActivation, ListEnabled, PauseListed, LookupJob,
           FindConsent, ReadJob, IssueApproval, MakeApprovalAvailable, OpenAuthority, Rebind,
           BindWorker, Signal, DispatchCloses, Dispatch, Serve, DrainTimeout, Exit,
           RestartRuntime, vars
  <1>2. UNCHANGED receipts \/ Recover
    BY Zenon DEF CheckStatus, ScopeOpens, ScopeDenied, ApplyCall, RequestActivation, ListEnabled,
           PauseListed, LookupJob, FindConsent, ReadJob, IssueApproval, MakeApprovalAvailable,
           OpenAuthority, Open, Rebind, BindWorker, Signal, DispatchCloses, Dispatch, Serve,
           DrainTimeout, Exit, RestartRuntime, vars
  <1>3. UNCHANGED jobs \/ \E j \in Jobs, s \in JobStates : SetJob(j, s)
    <2>1. "paused" \in JobStates /\ "removed" \in JobStates
      BY DEF JobStates
    <2>2. ApplyCall => \E j \in Jobs, s \in JobStates : SetJob(j, s)
      <3>1. main.step = "apply" => main.job \in Jobs
        BY DEF AutomationInv, Locals
      <3> QED
        BY <2>1, <3>1, Zenon DEF ApplyCall, PauseJob, RemoveJob
    <2>3. PauseListed => UNCHANGED jobs \/ \E j \in Jobs, s \in JobStates : SetJob(j, s)
      <3>1. main.todo \subseteq Jobs
        BY DEF AutomationInv, TypeOK, Calls
      <3> QED
        BY <2>1, <3>1, Zenon DEF PauseListed, PauseJob
    <2> QED
      BY <2>2, <2>3, Zenon DEF CheckStatus, RequestActivation, ListEnabled, LookupJob, FindConsent,
             ReadJob, IssueApproval, MakeApprovalAvailable, OpenAuthority, Rebind, BindWorker,
             Signal, DispatchCloses, Dispatch, Serve, DrainTimeout, Exit, RestartRuntime, vars
  <1>4. RunsKept
    <2>1. ASSUME NEW e \in Executions, NEW j \in Jobs, NEW o \in Occurrences, Dispatch(e, j, o)
          PROVE  RunsKept
      <3>1. /\ runs[e].step = "none" /\ runs'[e].step = "claimed"
            /\ \A d \in Executions \ {e} : runs'[d] = runs[d]
        <4> DEFINE new == [NoRun EXCEPT !.step = "claimed", !.job = j, !.occurrence = o,
                                        !.version = jobs[j].version]
        <4>1. /\ runs \in [Executions -> Runs]
              /\ runs[e].step = "none" /\ runs' = [runs EXCEPT ![e] = new]
          BY <2>1, Zenon DEF Dispatch, AutomationInv, TypeOK
        <4>2. new.step = "claimed"
          BY DEF NoRun
        <4> HIDE DEF new
        <4> QED
          BY <4>1, <4>2
      <3>2. PhaseOf(e) = "waiting" /\ PhaseOf(e)' = "waiting"
        BY <3>1 DEF PhaseOf
      <3>3. TermOf(e) = Nothing /\ TermOf(e)' = Nothing
        BY <3>2 DEF TermOf
      <3>4. \A d \in Executions \ {e} : PhaseOf(d)' = PhaseOf(d) /\ TermOf(d)' = TermOf(d)
        BY <3>1 DEF PhaseOf, TermOf
      <3> QED
        BY <3>2, <3>3, <3>4 DEF RunsKept
    <2>2. \/ UNCHANGED runs
          \/ \E e \in Executions, j \in Jobs, o \in Occurrences : Dispatch(e, j, o)
      BY Zenon DEF CheckStatus, ApplyCall, RequestActivation, ListEnabled, PauseListed, LookupJob,
             FindConsent, ReadJob, IssueApproval, MakeApprovalAvailable, OpenAuthority, Rebind,
             BindWorker, Signal, DispatchCloses, Serve, DrainTimeout, Exit, RestartRuntime, vars
    <2> QED
      BY <2>1, <2>2, KeptFacts
  <1> QED
    BY <1>1, <1>2, <1>3, <1>4, KeptFacts, StutterMaps

LEMMA CreateMaps ==
    ASSUME AutomationInv, NEW j \in Jobs, NEW v \in JobVersions, Create(j, v)
    PROVE  Contract!LeaseNext
  <1>1. /\ jobs'[j].version = v
        /\ \A k \in Jobs \ {j} : jobs'[k].version = jobs[k].version
    BY DEF AutomationInv, TypeOK, CronTypeOK, Create, CreateJob
  <1>2. UNCHANGED <<signed, grants, stopped, runs>> /\ (UNCHANGED receipts \/ Recover)
    BY DEF Create, ScopeOpens, ScopeDenied
  <1> QED
    BY <1>1, <1>2, KeptFacts, EditMaps

LEMMA EnvironmentMaps ==
    ASSUME AutomationInv, Environment,
           UNCHANGED <<consentVars, authorityVars, main, consenter, worker, runs, history>>
    PROVE  [Contract!LeaseNext]_(Contract!leaseVars)
  <1>1. GrantsKept /\ ClaimsKept /\ RunsKept
    BY KeptFacts
  <1>2. CASE UNCHANGED jobs
    BY <1>1, <1>2, KeptFacts, StutterMaps
  <1>3. ASSUME NEW j \in Jobs, NEW v \in JobVersions, jobs' = [jobs EXCEPT ![j].version = v]
        PROVE  Contract!LeaseNext
    <2>1. /\ jobs'[j].version = v
          /\ \A k \in Jobs \ {j} : jobs'[k].version = jobs[k].version
      BY <1>3 DEF AutomationInv, TypeOK, CronTypeOK, JobRecords
    <2> QED
      BY <1>1, <2>1, EditMaps
  <1> QED
    BY <1>2, <1>3, Zenon DEF Environment, EditJob, EditConfig

LEMMA StopMaps ==
    ASSUME AutomationInv, StopAll \/ EndServing \/ Shutdown
    PROVE  [Contract!LeaseNext]_(Contract!leaseVars)
  <1>1. /\ UNCHANGED <<jobs, signed, grants, runs>>
        /\ UNCHANGED receipts \/ Recover
        /\ UNCHANGED stopped \/ stopped'
    BY DEF StopAll, EndServing, Shutdown, ScopeOpens, GlobalStop
  <1> QED
    BY <1>1, KeptFacts, StutterMaps, HaltMaps

\* Revocation by a call, and after Hermes refused to resume the job.
LEMMA RevocationMaps ==
    ASSUME AutomationInv, RevokeForCall \/ Resume
    PROVE  [Contract!LeaseNext]_(Contract!leaseVars)
  <1>1. /\ UNCHANGED <<signed, stopped, runs>>
        /\ UNCHANGED receipts \/ Recover
        /\ \/ UNCHANGED grants /\ (UNCHANGED jobs \/ \E j \in Jobs : ResumeJob(j))
           \/ UNCHANGED jobs /\ \E j \in Jobs : RevokeGrant(j)
    <2>1. CASE RevokeForCall
      <3>1. main.job \in Jobs
        BY <2>1 DEF AutomationInv, Locals, RevokeForCall
      <3> QED
        BY <2>1, <3>1, Zenon DEF RevokeForCall, ScopeOpens, ScopeDenied
    <2>2. CASE Resume
      <3>1. consenter.asked.job \in Jobs
        BY <2>2 DEF AutomationInv, Locals, Bindings, Resume
      <3> QED
        BY <2>2, <3>1, Zenon DEF Resume
    <2> QED
      BY <2>1, <2>2
  <1>2. "scheduled" \in JobStates
    BY DEF JobStates
  <1>3. ClaimsKept /\ RunsKept
    BY <1>1, KeptFacts
  <1>4. CASE UNCHANGED grants /\ (UNCHANGED jobs \/ \E j \in Jobs : ResumeJob(j))
    BY <1>1, <1>2, <1>3, <1>4, KeptFacts, StutterMaps DEF ResumeJob
  <1>5. CASE UNCHANGED jobs /\ \E j \in Jobs : RevokeGrant(j)
    <2>1. VersionsKept
      BY <1>5, KeptFacts
    <2> QED
      BY <1>1, <1>3, <1>5, <2>1, RevokeMaps
  <1> QED
    BY <1>1, <1>4, <1>5

LEMMA SignatureMaps ==
    ASSUME AutomationInv, VerifyAndDecide
    PROVE  [Contract!LeaseNext]_(Contract!leaseVars)
  <1> DEFINE b == consents[consenter.consent].binding
  <1>1. /\ UNCHANGED <<jobs, grants, stopped, receipts, runs>>
        /\ \/ UNCHANGED signed
           \/ IsPending(consenter.consent) /\ signed' = signed \cup {b}
    BY Zenon DEF VerifyAndDecide
  <1>2. IsPending(consenter.consent) => b \in Bindings
    <2>1. consenter.consent \in ConsentIds /\ AutomationConsentTypeOK
      BY DEF AutomationInv, TypeOK, Locals, VerifyAndDecide
    <2>2. IsPending(consenter.consent) => consenter.consent \in Recorded
      BY <2>1, CurrentConsentFacts DEF Recorded
    <2> QED
      BY <2>2 DEF AutomationInv, Locals
  <1> QED
    BY <1>1, <1>2, KeptFacts, StutterMaps, SignMaps

\* An activation grants what a user signed, and nothing after the stop.
LEMMA ActivateMaps ==
    ASSUME AutomationInv, Consented, [Next]_vars, Activate
    PROVE  [Contract!LeaseNext]_(Contract!leaseVars)
  <1>1. UNCHANGED <<jobs, signed, stopped, receipts, runs>>
    BY DEF Activate
  <1>2. CASE UNCHANGED grants
    BY <1>1, <1>2, KeptFacts, StutterMaps
  <1>3. CASE ~UNCHANGED grants
    <2>1. PICK b \in Bindings : ~stopped /\ StoreGrant(b.job, b.version, config, b.owner, b.until)
      <3>1. consenter.bound \in Bindings
        BY DEF AutomationInv, Locals, Activate
      <3> QED
        BY <1>3, <3>1, Zenon DEF Activate, MayActivate
    <2>2. /\ b.job \in Jobs /\ b.version \in JobVersions /\ b.owner \in Principals
          /\ b.until \in Deadlines /\ config \in Configs
      BY DEF Bindings, AutomationInv, TypeOK, CronTypeOK
    <2> DEFINE g == [version |-> b.version, config |-> config, owner |-> b.owner,
                     until |-> b.until, revoked |-> FALSE]
    <2>3. g \in Grants /\ g.revoked = FALSE /\ g.version = b.version
      BY <2>2 DEF Grants
    <2>4. grants'[b.job] = g /\ \A k \in Jobs \ {b.job} : grants'[k] = grants[k]
      BY <2>1, <2>2 DEF StoreGrant, AutomationInv, TypeOK, AuthorityTypeOK, LedgerTypeOK
    <2> HIDE DEF g
    <2>5. /\ grants'[b.job] # Nothing /\ ~grants'[b.job].revoked
          /\ grants'[b.job].version = b.version
      BY <2>3, <2>4, AuthorityAssumption
    <2>6. GrantedFor(b.job)' = b.version
      BY <2>5 DEF GrantedFor
    <2>7. \A k \in Jobs \ {b.job} : GrantedFor(k)' = GrantedFor(k)
      BY <2>4 DEF GrantedFor
    <2>8. PICK a \in signed : a.job = b.job /\ a.version = b.version
      BY <1>1, <2>2, <2>5, GrantsSigned DEF GrantSigned, SignedFor
    <2>9. VersionsKept /\ ClaimsKept /\ RunsKept
      BY <1>1, KeptFacts
    <2> QED
      BY <1>1, <2>1, <2>2, <2>6, <2>7, <2>8, <2>9, GrantMaps
  <1> QED
    BY <1>2, <1>3

LEMMA AcquireMaps ==
    ASSUME AutomationInv, NEW e \in Executions, Acquire(e)
    PROVE  [Contract!LeaseNext]_(Contract!leaseVars)
  <1>1. UNCHANGED <<signed, grants, stopped, receipts>>
    BY DEF Acquire
  <1>2. "paused" \in JobStates /\ runs[e].job \in Jobs
    BY DEF JobStates, AutomationInv, Locals, Working, Acquire
  <1>3. CASE UNCHANGED jobs /\ runs' = [runs EXCEPT ![e].step = "admitting", ![e].config = config]
    <2>1. /\ runs[e].step = "claimed" /\ runs'[e].step = "admitting"
          /\ \A d \in Executions \ {e} : runs'[d] = runs[d]
      BY <1>3 DEF Acquire, AutomationInv, TypeOK, Runs
    <2>2. PhaseOf(e) = "waiting" /\ PhaseOf(e)' = "waiting"
      BY <2>1 DEF PhaseOf
    <2>3. TermOf(e) = Nothing /\ TermOf(e)' = Nothing
      BY <2>2 DEF TermOf
    <2>4. \A d \in Executions \ {e} : PhaseOf(d)' = PhaseOf(d) /\ TermOf(d)' = TermOf(d)
      BY <2>1 DEF PhaseOf, TermOf
    <2>5. RunsKept
      BY <2>2, <2>3, <2>4 DEF RunsKept
    <2> QED
      BY <1>1, <1>3, <2>5, KeptFacts, StutterMaps
  <1>4. CASE Refuse(e)
    BY <1>1, <1>2, <1>4, KeptFacts, OverMaps DEF Refuse, PauseJob
  <1> QED
    BY <1>3, <1>4 DEF Acquire

\* A lease is given under the grant, for an occurrence no receipt names.
LEMMA AdmitMaps ==
    ASSUME AutomationInv, NEW e \in Executions, Admit(e)
    PROVE  [Contract!LeaseNext]_(Contract!leaseVars)
  <1> DEFINE r == runs[e]
             Admits == /\ MayAdmit(e, r.job, r.occurrence, r.version, r.config)
                       /\ StoreReceipt(e, r.job, r.occurrence)
                       /\ runs' = [runs EXCEPT ![e].step = "leased", ![e].deadline = LeaseEnd(r.job)]
                       /\ UNCHANGED jobs
  <1>1. /\ UNCHANGED <<signed, grants, stopped>>
        /\ \/ Admits
           \/ Refuse(e) /\ UNCHANGED receipts
        /\ r.step = "admitting"
    BY DEF Admit
  <1>2. r.job \in Jobs /\ r.occurrence \in Occurrences /\ r \in Runs
    BY <1>1 DEF AutomationInv, TypeOK, Locals, Working
  <1>3. CASE Refuse(e) /\ UNCHANGED receipts
    <2>1. "paused" \in JobStates
      BY DEF JobStates
    <2> QED
      BY <1>1, <1>2, <1>3, <2>1, KeptFacts, OverMaps DEF Refuse, PauseJob
  <1>4. CASE Admits
    <2>1. /\ runs'[e].step = "leased" /\ runs'[e].version = r.version
          /\ \A d \in Executions \ {e} : runs'[d] = runs[d]
      BY <1>2, <1>4 DEF AutomationInv, TypeOK, Runs
    <2>2. PhaseOf(e) = "waiting" /\ PhaseOf(e)' = "leased"
      BY <1>1, <2>1 DEF PhaseOf
    <2>3. grants[r.job] \in Grants /\ GrantedFor(r.job) = r.version
      BY <1>2, <1>4 DEF MayAdmit, GrantInForce, GrantedFor, AutomationInv, TypeOK,
             AuthorityTypeOK, LedgerTypeOK
    <2>4. GrantedFor(r.job) \in JobVersions
      BY <1>2, <1>4, <2>3 DEF MayAdmit, GrantInForce, Grants
    <2>5. TermOf(e)' = GrantedFor(r.job)
      BY <2>1, <2>2, <2>3 DEF TermOf
    <2>6. /\ receipts'[e] = [state |-> "inflight", job |-> r.job, occurrence |-> r.occurrence]
          /\ \A d \in Executions \ {e} : receipts'[d] = receipts[d]
      BY <1>4 DEF StoreReceipt, AutomationInv, TypeOK, AuthorityTypeOK, LedgerTypeOK
    <2>7. ClaimOf(e)' = <<r.job, r.occurrence>>
      <3>1. receipts'[e] # NoReceipt
        BY <2>6 DEF NoReceipt
      <3> QED
        BY <2>6, <3>1 DEF ClaimOf
    <2>8. ASSUME NEW d \in Executions
          PROVE  ClaimOf(d) # <<r.job, r.occurrence>>
      <3>1. CASE receipts[d] = NoReceipt
        BY <1>2, <3>1, AuthorityAssumption DEF ClaimOf
      <3>2. CASE receipts[d] # NoReceipt
        BY <1>4, <3>2 DEF ClaimOf, MayAdmit, Replayed
      <3> QED
        BY <3>1, <3>2
    <2>9. \A d \in Executions \ {e} : /\ PhaseOf(d)' = PhaseOf(d) /\ TermOf(d)' = TermOf(d)
                                      /\ ClaimOf(d)' = ClaimOf(d)
      BY <2>1, <2>6 DEF PhaseOf, TermOf, ClaimOf
    <2>10. ~stopped
      BY <1>4 DEF MayAdmit
    <2>11. VersionsKept /\ GrantsKept
      BY <1>1, <1>4, KeptFacts
    <2> HIDE DEF r
    <2> QED
      BY <1>1, <1>2, <2>2, <2>4, <2>5, <2>7, <2>8, <2>9, <2>10, <2>11, LeaseMaps
  <1> QED
    BY <1>1, <1>3, <1>4

\* The job's version is compared under the lease, and the receipt names the job.
LEMMA EntersMaps ==
    ASSUME AutomationInv, NEW e \in Executions, Enter(e)
    PROVE  [Contract!LeaseNext]_(Contract!leaseVars)
  <1>1. /\ UNCHANGED <<jobs, signed, grants, stopped, receipts>>
        /\ runs[e].step = "leased" /\ runs[e] \in Runs
        /\ \/ StepTo(e, "refused")
           \/ Unchanged(e) /\ StepTo(e, "entered")
    BY DEF Enter, AutomationInv, TypeOK
  <1>2. VersionsKept /\ GrantsKept /\ ClaimsKept
    BY <1>1, KeptFacts
  <1>3. CASE StepTo(e, "refused")
    BY <1>1, <1>2, <1>3, OverMaps
  <1>4. CASE Unchanged(e) /\ StepTo(e, "entered")
    <2>1. /\ runs'[e].step = "entered" /\ runs'[e].version = runs[e].version
          /\ \A d \in Executions \ {e} : runs'[d] = runs[d]
      BY <1>1, <1>4 DEF StepTo, AutomationInv, TypeOK, Runs
    <2>2. PhaseOf(e) = "leased" /\ PhaseOf(e)' = "entered"
      BY <1>1, <2>1 DEF PhaseOf
    <2>3. TermOf(e) = runs[e].version /\ TermOf(e)' = runs[e].version
      BY <2>1, <2>2 DEF TermOf
    <2>4. receipts[e] = [state |-> "inflight", job |-> runs[e].job,
                         occurrence |-> runs[e].occurrence]
      BY <1>1 DEF AutomationInv, LeasesOnRecord, Leased
    <2>5. ClaimOf(e) = <<runs[e].job, runs[e].occurrence>>
      <3>1. receipts[e] # NoReceipt
        BY <2>4 DEF NoReceipt
      <3> QED
        BY <2>4, <3>1 DEF ClaimOf
    <2>6. runs[e].job \in Jobs
      BY <1>1 DEF AutomationInv, Locals, Working
    <2>7. jobs[runs[e].job].version = TermOf(e)
      BY <1>4, <2>3 DEF Unchanged
    <2>8. \A d \in Executions \ {e} : PhaseOf(d)' = PhaseOf(d) /\ TermOf(d)' = TermOf(d)
      BY <2>1 DEF PhaseOf, TermOf
    <2>9. TermOf(e)' = TermOf(e)
      BY <2>3
    <2> QED
      BY <1>1, <1>2, <2>2, <2>5, <2>6, <2>7, <2>8, <2>9, EnterMaps
  <1> QED
    BY <1>1, <1>3, <1>4

\* The lease's own version starts: it is one that was signed.
LEMMA StartScriptMaps ==
    ASSUME AutomationInv, Consented, NEW e \in Executions, StartScript(e)
    PROVE  [Contract!LeaseNext]_(Contract!leaseVars)
  <1>1. /\ UNCHANGED <<jobs, signed, grants, stopped, receipts>>
        /\ runs[e].step = "entered" /\ runs[e] \in Runs
        /\ \/ StepTo(e, "failed")
           \/ StepTo(e, "running")
    BY DEF StartScript, AutomationInv, TypeOK
  <1>2. VersionsKept /\ GrantsKept /\ ClaimsKept
    BY <1>1, KeptFacts
  <1>3. CASE StepTo(e, "failed")
    BY <1>1, <1>2, <1>3, OverMaps
  <1>4. CASE StepTo(e, "running")
    <2>1. /\ runs'[e].step = "running" /\ runs'[e].version = runs[e].version
          /\ \A d \in Executions \ {e} : runs'[d] = runs[d]
      BY <1>1, <1>4 DEF StepTo, AutomationInv, TypeOK, Runs
    <2>2. PhaseOf(e) = "entered" /\ PhaseOf(e)' = "running"
      BY <1>1, <2>1 DEF PhaseOf
    <2>3. TermOf(e) = runs[e].version /\ TermOf(e)' = runs[e].version
      BY <2>1, <2>2 DEF TermOf
    <2>4. receipts[e] = [state |-> "inflight", job |-> runs[e].job,
                         occurrence |-> runs[e].occurrence]
      BY <1>1 DEF AutomationInv, LeasesOnRecord, Leased
    <2>5. ClaimOf(e) = <<runs[e].job, runs[e].occurrence>>
      <3>1. receipts[e] # NoReceipt
        BY <2>4 DEF NoReceipt
      <3> QED
        BY <2>4, <3>1 DEF ClaimOf
    <2>6. runs[e].job \in Jobs
      BY <1>1 DEF AutomationInv, Locals, Working
    <2>7. PICK b \in signed : b.job = runs[e].job /\ b.version = TermOf(e)
      BY <1>1, <2>3 DEF Consented, LeaseSigned, SignedFor
    <2>8. \A d \in Executions \ {e} : PhaseOf(d)' = PhaseOf(d) /\ TermOf(d)' = TermOf(d)
      BY <2>1 DEF PhaseOf, TermOf
    <2>9. TermOf(e)' = TermOf(e)
      BY <2>3
    <2> QED
      BY <1>1, <1>2, <2>2, <2>5, <2>6, <2>7, <2>8, <2>9, StartMaps
  <1> QED
    BY <1>1, <1>3, <1>4

LEMMA FinalizeMaps ==
    ASSUME AutomationInv, NEW e \in Executions, Finalize(e)
    PROVE  [Contract!LeaseNext]_(Contract!leaseVars)
  <1>1. /\ UNCHANGED <<signed, grants, stopped>>
        /\ runs[e].step \in {"running", "refused", "failed"} /\ runs[e].job \in Jobs
        /\ UNCHANGED receipts \/ SpendReceipt(e)
        /\ \/ Refuse(e)
           \/ StepTo(e, "over") /\ UNCHANGED jobs
    <2>1. runs[e].step \in {"running", "refused", "failed"}
      BY DEF Finalize
    <2>2. runs[e].job \in Jobs
      BY <2>1 DEF AutomationInv, Locals, Working
    <2> QED
      BY <2>1, <2>2, Zenon DEF Finalize
  <1>2. VersionsKept /\ StepTo(e, "over")
    <2>1. "paused" \in JobStates
      BY DEF JobStates
    <2> QED
      BY <1>1, <2>1, KeptFacts DEF Refuse, PauseJob
  <1>3. ClaimsKept
    <2>1. CASE SpendReceipt(e)
      <3>1. receipts \in [Executions -> Receipts \cup {NoReceipt}]
        BY DEF AutomationInv, TypeOK, AuthorityTypeOK, LedgerTypeOK
      <3>2. ASSUME NEW d \in Executions
            PROVE  /\ receipts'[d] = NoReceipt <=> receipts[d] = NoReceipt
                   /\ receipts'[d].job = receipts[d].job
                   /\ receipts'[d].occurrence = receipts[d].occurrence
        BY <2>1, <3>1 DEF SpendReceipt, Receipts, NoReceipt
      <3> QED
        BY <3>2 DEF ClaimsKept, ClaimOf
    <2> QED
      BY <1>1, <2>1, KeptFacts
  <1> QED
    BY <1>1, <1>2, <1>3, KeptFacts, OverMaps

\* All executions of a worker that dies end at once.
LEMMA WorkerCrashMaps ==
    ASSUME AutomationInv, WorkerCrash
    PROVE  [Contract!LeaseNext]_(Contract!leaseVars)
  <1> DEFINE ended == {e \in Executions : Working(e)}
  <1>1. /\ UNCHANGED <<jobs, signed, grants, stopped, receipts>>
        /\ \A e \in ended : runs'[e].step = "over"
        /\ \A e \in Executions \ ended : runs'[e] = runs[e]
    BY DEF WorkerCrash, NoRun
  <1>2. \A e \in ended : PhaseOf(e)' = "ended" /\ TermOf(e)' = Nothing
    BY <1>1 DEF PhaseOf, TermOf
  <1>3. \A e \in Executions \ ended : PhaseOf(e)' = PhaseOf(e) /\ TermOf(e)' = TermOf(e)
    BY <1>1 DEF PhaseOf, TermOf
  <1>4. ended \in SUBSET Executions
    OBVIOUS
  <1> HIDE DEF ended
  <1> QED
    BY <1>1, <1>2, <1>3, <1>4, KeptFacts, EndMaps

\* The reminders of the two processes refine OccurrenceLeases: no interleaving,
\* crash, expiry or failing transaction adds to what that contract allows.
THEOREM AutomationImplementsContract == Spec => ImplementsOccurrenceLeases
  <1>1. Init => Contract!LeaseInit
    <2> SUFFICES ASSUME Init PROVE Contract!LeaseInit
      OBVIOUS
    <2>1. AutomationInv
      BY InitInv
    <2>2. \A j \in Jobs : jobs[j].version \in JobVersions /\ GrantedFor(j) = Nothing
      BY <2>1 DEF AutomationInv, TypeOK, CronTypeOK, JobRecords, Init, AuthorityInit, GrantedFor
    <2>3. \A e \in Executions : /\ PhaseOf(e) = "waiting" /\ TermOf(e) = Nothing
                                /\ ClaimOf(e) = Nothing
      BY DEF Init, AuthorityInit, NoRun, PhaseOf, TermOf, ClaimOf
    <2>4. signed = {} /\ stopped = FALSE
      BY DEF Init, AuthorityInit
    <2> QED
      BY <2>2, <2>3, <2>4 DEF Contract!LeaseInit
  <1>2. AutomationInv /\ Consented /\ [Next]_vars => [Contract!LeaseNext]_(Contract!leaseVars)
    <2> SUFFICES ASSUME AutomationInv, Consented, [Next]_vars
                 PROVE  [Contract!LeaseNext]_(Contract!leaseVars)
      OBVIOUS
    <2> QED
      BY NextCases, QuietStep, CreateMaps, EnvironmentMaps, StopMaps, RevocationMaps,
         SignatureMaps, ActivateMaps, AcquireMaps, AdmitMaps, EntersMaps, StartScriptMaps, FinalizeMaps,
         WorkerCrashMaps, Zenon
  <1> QED
    BY <1>1, <1>2, AutomationInvariance, GrantsAreSigned, PTL
       DEF Spec, ImplementsOccurrenceLeases, Contract!LeaseSpec

=============================================================================
