------------------------------ MODULE Automation ------------------------------
(***************************************************************************)
(* Local reminders: AutomationManager in the runtime process               *)
(* (control/automation_management.py), the scheduler worker                *)
(* (automation_runtime.py, automation_service.py), Hermes' cron package    *)
(* and the authority's ledger they share.                                  *)
(*                                                                         *)
(* The runtime serves management calls on its socket thread (main) and     *)
(* signed activations on its consent thread (consenter).  The manager's    *)
(* lock is held exactly while one of them has the authority open, so it is *)
(* not a variable of its own: the two exclude each other where holder is   *)
(* "runtime".  A scope in which nothing but one transaction happens is one *)
(* step; activation, which also resumes the job, is several.               *)
(*                                                                         *)
(* The worker is a process of its own; its executions are threads.  Either *)
(* process may be killed at any time and started again.                    *)
(***************************************************************************)
EXTENDS AutomationAuthority

VARIABLES main,        \* the management call the socket thread serves
          consenter,   \* the decision the consent thread serves
          worker,      \* the scheduler worker process
          runs,        \* its executions
          leases,      \* history: leases given per job and occurrence
          signed,      \* history: the bindings a user signed
          stopReplied  \* history: a stop-all call has succeeded

storeVars   == <<clock, approvals>>
cronVars    == <<jobs, config>>
consentVars == <<consents, requestIds>>
history     == <<leases, signed, stopReplied>>
vars == <<storeVars, cronVars, consentVars, authorityVars, main, consenter, worker, runs, history>>

NoCall == [step |-> "idle", op |-> "none", job |-> Nothing, owner |-> Nothing,
           seen |-> Nothing, rid |-> Nothing, until |-> 0, todo |-> {}]

Calls == [step  : {"idle", "revoke", "apply", "bind", "list", "pausing"},
          op    : {"none", "pause", "remove", "resume", "stop"},
          job   : Jobs \cup {Nothing},       owner : Principals \cup {Nothing},
          seen  : JobRecords \cup {Nothing}, rid   : RequestIds \cup {Nothing},
          until : Deadlines,                 todo  : SUBSET Jobs]

NoDecision == [step |-> "idle", consent |-> Nothing, asked |-> Nothing, seen |-> Nothing,
               approval |-> Nothing, bound |-> Nothing]

Decisions == [step     : {"idle", "verify", "lookup", "issue", "make_available", "open",
                          "bind", "activate", "resume"},
              consent  : ConsentIds \cup {Nothing},
              asked    : Bindings \cup {Nothing},
              seen     : JobRecords \cup {Nothing},
              approval : ApprovalIds \cup {Nothing},
              bound    : Bindings \cup {Nothing}]

NoWorker == [phase |-> "down", stop |-> FALSE, policy |-> Nothing]

Workers == [phase  : {"down", "bound", "serving", "draining", "leaving"},
            stop   : BOOLEAN,
            policy : Configs \cup {Nothing}]

NoRun == [step |-> "none", job |-> Nothing, occurrence |-> Nothing, version |-> Nothing,
          config |-> Nothing, deadline |-> 0]

Runs == [step : {"none", "claimed", "admitting", "leased", "entered", "running",
                 "refused", "failed", "over"},
         job        : Jobs \cup {Nothing},
         occurrence : Occurrences \cup {Nothing},
         version    : JobVersions \cup {Nothing},
         config     : Configs \cup {Nothing},
         deadline   : Nat]

TypeOK ==
    /\ ApprovalsTypeOK /\ clock <= MaxClock /\ CronTypeOK /\ AutomationConsentTypeOK /\ AuthorityTypeOK
    /\ main \in Calls /\ consenter \in Decisions
    /\ worker \in Workers /\ runs \in [Executions -> Runs]
    /\ leases \in [Jobs \X Occurrences -> Nat]
    /\ signed \subseteq Bindings /\ stopReplied \in BOOLEAN

Init ==
    /\ StoreInit /\ CronInit /\ AutomationConsentInit /\ AuthorityInit
    /\ main = NoCall /\ consenter = NoDecision
    /\ worker = NoWorker /\ runs = [e \in Executions |-> NoRun]
    /\ leases = [jo \in Jobs \X Occurrences |-> 0]
    /\ signed = {} /\ stopReplied = FALSE

----------------------------------------------------------------------------
\* Management calls.  The socket thread serves one at a time.

Idle == main.step = "idle"

Return == main' = NoCall

\* The manager opens and closes the authority around one transaction: it waits
\* for the other thread's scope, and is refused while the worker runs.
ScopeOpens  == holder = "none" /\ Recover
ScopeDenied == holder = "worker" /\ UNCHANGED receipts

\* status only looks, but opening the authority recovers.
CheckStatus ==
    /\ Idle /\ ScopeOpens
    /\ UNCHANGED <<storeVars, cronVars, consentVars, holder, faulted, active, stopped, grants,
                   main, consenter, worker, runs, history>>

\* create: the job is there, paused, whether or not the authority then opens.
Create(j, v) ==
    /\ Idle /\ CreateJob(j, v)
    /\ ScopeOpens \/ ScopeDenied
    /\ UNCHANGED <<storeVars, config, consentVars, holder, faulted, active, stopped, grants,
                   main, consenter, worker, runs, history>>

\* Bound: a random consent_id is always at hand, ConsentIds is finite.
FreshConsent == \E c \in ConsentIds : consents[c].state = "none"

CallOf(op, step, j, p, r, until) ==
    [step |-> step, op |-> op, job |-> j, owner |-> p, seen |-> jobs[j],
     rid |-> r, until |-> until, todo |-> {}]

\* pause, remove and request_activation first read the job.
LookupJob(op, j, p) ==
    /\ Idle /\ Exists(j)
    /\ \/ op \in {"pause", "remove"} /\ main' = CallOf(op, "revoke", j, p, Nothing, 0)
       \/ /\ op = "resume" /\ FreshConsent
          /\ \E r \in RequestIds : main' = CallOf(op, "bind", j, p, r, clock + Validity)
    /\ UNCHANGED <<storeVars, cronVars, consentVars, authorityVars, consenter, worker, runs, history>>

\* The first half of pause and remove: revoke the caller's grant.
RevokeForCall ==
    /\ main.step = "revoke"
    /\ LET denied == \/ ~MayRevoke(main.job, main.owner)
                     \/ grants[main.job] = Nothing /\ main.seen.state = "scheduled"
       IN  \/ ScopeDenied /\ Return /\ UNCHANGED grants
           \/ /\ ScopeOpens
              /\ denied \/ LedgerMayFail
              /\ Return /\ UNCHANGED grants
           \/ /\ ScopeOpens /\ ~denied
              /\ RevokeGrant(main.job)
              /\ main' = [main EXCEPT !.step = "apply"]
    /\ UNCHANGED <<storeVars, cronVars, consentVars, holder, faulted, active, stopped,
                   consenter, worker, runs, history>>

\* The second half, outside the authority.
ApplyCall ==
    /\ main.step = "apply"
    /\ IF main.op = "pause" THEN PauseJob(main.job) ELSE RemoveJob(main.job)
    /\ Return
    /\ UNCHANGED <<storeVars, config, consentVars, authorityVars, consenter, worker, runs, history>>

\* request_activation: compute the binding inside the authority, then register
\* a pending consent for it.
RequestActivation ==
    /\ main.step = "bind"
    /\ Return
    /\ \/ ScopeDenied /\ UNCHANGED consentVars
       \/ ScopeOpens /\ ~BindingValid(main.until) /\ UNCHANGED consentVars
       \/ /\ ScopeOpens /\ BindingValid(main.until)
          /\ Register(main.rid, [job |-> main.job, version |-> main.seen.version,
                                 config |-> config, owner |-> main.owner,
                                 until |-> main.until])
    /\ UNCHANGED <<storeVars, cronVars, holder, faulted, active, stopped, grants,
                   consenter, worker, runs, history>>

\* global_stop of the manager: first stop the authority ...
StopAll ==
    /\ Idle
    /\ \/ /\ ScopeOpens /\ GlobalStop
          /\ main' = [NoCall EXCEPT !.step = "list", !.op = "stop"]
       \/ ScopeOpens /\ LedgerMayFail /\ UNCHANGED <<main, stopped>>
    /\ UNCHANGED <<storeVars, cronVars, consentVars, holder, faulted, active, grants,
                   consenter, worker, runs, history>>

\* ... then list the enabled jobs and pause them one by one.
ListEnabled ==
    /\ main.step = "list"
    /\ main' = [main EXCEPT !.step = "pausing", !.todo = {j \in Jobs : Enabled(j)}]
    /\ UNCHANGED <<storeVars, cronVars, consentVars, authorityVars, consenter, worker, runs, history>>

PauseListed ==
    /\ main.step = "pausing"
    /\ \/ \E j \in main.todo :
            /\ PauseJob(j)
            /\ main' = [main EXCEPT !.todo = @ \ {j}]
            /\ UNCHANGED stopReplied
       \/ /\ main.todo = {}
          /\ Return /\ stopReplied' = TRUE
          /\ UNCHANGED jobs
    /\ UNCHANGED <<storeVars, config, consentVars, authorityVars, consenter, worker, runs,
                   leases, signed>>

Management ==
    \/ CheckStatus
    \/ \E j \in Jobs :
          \/ \E v \in JobVersions : Create(j, v)
          \/ \E op \in {"pause", "remove", "resume"}, p \in Principals : LookupJob(op, j, p)
    \/ RevokeForCall \/ ApplyCall \/ RequestActivation
    \/ StopAll \/ ListEnabled \/ PauseListed

----------------------------------------------------------------------------
\* decide_activation on the consent thread

Answer == consenter' = NoDecision

GoOn(step) == consenter' = [consenter EXCEPT !.step = step]

\* The record is found and pending, or the call fails.
FindConsent(c) ==
    /\ consenter.step = "idle" /\ c \in Recorded
    /\ Look(c)
    /\ IF IsPending(c)
       THEN consenter' = [NoDecision EXCEPT !.step = "verify", !.consent = c]
       ELSE UNCHANGED consenter
    /\ UNCHANGED <<storeVars, cronVars, authorityVars, main, worker, runs, history>>

\* A wrong signature ends the call; a right one is decided if still in time.
VerifyAndDecide ==
    /\ consenter.step = "verify"
    /\ LET c == consenter.consent IN
        \/ Answer /\ UNCHANGED <<consentVars, signed>>
        \/ /\ ~IsPending(c)
           /\ Answer /\ UNCHANGED signed
           /\ IF c \in Recorded THEN Look(c) ELSE UNCHANGED consentVars
        \/ /\ IsPending(c) /\ Decide(c, "reject")
           /\ Answer /\ UNCHANGED signed
        \/ /\ IsPending(c) /\ Decide(c, "approve")
           /\ consenter' = [consenter EXCEPT !.step = "lookup", !.asked = consents[c].binding]
           /\ signed' = signed \cup {consents[c].binding}
    /\ UNCHANGED <<storeVars, cronVars, authorityVars, main, worker, runs, leases, stopReplied>>

\* _activate: read the job, then issue an approval and make it available.
ReadJob ==
    /\ consenter.step = "lookup"
    /\ LET j == consenter.asked.job IN
        IF Exists(j) THEN consenter' = [consenter EXCEPT !.step = "issue", !.seen = jobs[j]]
        ELSE Answer
    /\ UNCHANGED <<storeVars, cronVars, consentVars, authorityVars, main, worker, runs, history>>

IssueApproval ==
    /\ consenter.step = "issue"
    /\ \E i \in ApprovalIds :
          /\ Issue(i, consenter.asked, consenter.asked.owner)
          /\ consenter' = [consenter EXCEPT !.step = "make_available", !.approval = i]
    /\ UNCHANGED <<clock, cronVars, consentVars, authorityVars, main, worker, runs, history>>

MakeApprovalAvailable ==
    /\ consenter.step = "make_available"
    /\ MakeAvailable(consenter.approval)
    /\ IF CanMakeAvailable(consenter.approval) THEN GoOn("open") ELSE Answer
    /\ UNCHANGED <<clock, cronVars, consentVars, authorityVars, main, worker, runs, history>>

OpenAuthority ==
    /\ consenter.step = "open"
    /\ \/ Open("runtime") /\ GoOn("bind")
       \/ ScopeDenied /\ Answer /\ UNCHANGED <<holder, faulted, active>>
    /\ UNCHANGED <<storeVars, cronVars, consentVars, stopped, grants, main, worker, runs, history>>

\* activate recomputes the binding from the job it was given and the
\* configuration as it is now; the job must be paused.
Rebind ==
    /\ consenter.step = "bind"
    /\ LET asked == consenter.asked IN
        IF BindingValid(asked.until) /\ consenter.seen.state = "paused"
        THEN /\ consenter' = [consenter EXCEPT !.step = "activate", !.bound =
                    [asked EXCEPT !.version = consenter.seen.version, !.config = config]]
             /\ UNCHANGED <<holder, faulted, active>>
        ELSE Close /\ Answer
    /\ UNCHANGED <<storeVars, cronVars, consentVars, ledger, main, worker, runs, history>>

\* The transaction of activate: the approval is consumed while it is open, and
\* stays consumed when it cannot commit.  The grant's fingerprint is computed
\* from the configuration once more.
Activate ==
    /\ consenter.step = "activate"
    /\ LET b    == consenter.bound
           i    == consenter.approval
           may  == MayActivate(b.job, b.owner)
           pays == CanConsume(i, b, b.owner)
       IN  /\ IF may THEN Consume(i, b, b.owner) ELSE UNCHANGED approvals
           /\ \/ /\ may /\ pays
                 /\ StoreGrant(b.job, b.version, config, b.owner, b.until)
                 /\ GoOn("resume") /\ UNCHANGED <<holder, faulted, active>>
              \/ /\ ~(may /\ pays) \/ LedgerMayFail
                 /\ Close /\ Answer
                 /\ UNCHANGED grants
    /\ UNCHANGED <<clock, cronVars, consentVars, stopped, receipts, main, worker, runs, history>>

\* Mutant: the authority stays open when Hermes refuses.
ResumeUnclosed ==
    /\ consenter.step = "resume"
    /\ LET j == consenter.asked.job IN
        \/ ResumeJob(j) /\ UNCHANGED grants /\ Close
        \/ RevokeGrant(j) /\ UNCHANGED <<jobs, holder, faulted, active>>
    /\ Answer
    /\ UNCHANGED <<storeVars, config, consentVars, stopped, receipts, main, worker, runs, history>>

\* resume_job, then the authority is closed.  Hermes may refuse, which revokes
\* the grant again, unless the ledger fails just then.
Resume ==
    /\ consenter.step = "resume"
    /\ LET j == consenter.asked.job IN
        \/ ResumeJob(j) /\ UNCHANGED grants
        \/ RevokeGrant(j) /\ UNCHANGED jobs
        \/ LedgerMayFail /\ UNCHANGED <<grants, jobs>>
    /\ Close /\ Answer
    /\ UNCHANGED <<storeVars, config, consentVars, stopped, receipts, main, worker, runs, history>>

Decision ==
    \/ \E c \in ConsentIds : FindConsent(c)
    \/ VerifyAndDecide \/ ReadJob \/ IssueApproval \/ MakeApprovalAvailable
    \/ OpenAuthority \/ Rebind \/ Activate \/ Resume

----------------------------------------------------------------------------
\* The scheduler worker

Phase(p) == worker.phase = p

\* bind_worker: open the authority and register as the policy of the profile
\* as it is configured now.  A worker that cannot open it exits.
BindWorker ==
    /\ Phase("down")
    /\ Open("worker")
    /\ worker' = [phase |-> "bound", stop |-> FALSE, policy |-> config]
    /\ UNCHANGED <<storeVars, cronVars, consentVars, stopped, grants, main, consenter, runs, history>>

\* serve refuses to start on a stopped authority, and the process ends.
Serve ==
    /\ Phase("bound")
    /\ IF stopped
       THEN Close /\ worker' = NoWorker
       ELSE worker' = [worker EXCEPT !.phase = "serving"] /\ UNCHANGED <<holder, faulted, active>>
    /\ UNCHANGED <<storeVars, cronVars, consentVars, ledger, main, consenter, runs, history>>

\* SIGTERM or SIGINT sets the stop event.
Signal ==
    /\ worker.phase \in {"bound", "serving"} /\ ~worker.stop
    /\ worker' = [worker EXCEPT !.stop = TRUE]
    /\ UNCHANGED <<storeVars, cronVars, consentVars, authorityVars, main, consenter, runs, history>>

CanDispatch == ~worker.stop /\ config = worker.policy /\ ~faulted /\ ~stopped

\* can_dispatch fails, for those reasons or because the ticker reports an error.
DispatchCloses ==
    /\ Phase("serving") /\ ~worker.stop
    /\ worker' = [worker EXCEPT !.stop = TRUE]
    /\ UNCHANGED <<storeVars, cronVars, consentVars, authorityVars, main, consenter, runs, history>>

\* Hermes presents an occurrence of an enabled job as a new execution; after
\* a crash it may be one it presented before.
Dispatch(e, j, o) ==
    /\ Phase("serving") /\ CanDispatch /\ Enabled(j)
    /\ runs[e].step = "none"
    /\ runs' = [runs EXCEPT ![e] = [NoRun EXCEPT !.step = "claimed", !.job = j,
                                     !.occurrence = o, !.version = jobs[j].version]]
    /\ UNCHANGED <<storeVars, cronVars, consentVars, authorityVars, main, consenter, worker, history>>

\* The ticker returns once the stop event is set; serve persists the stop.
EndServing ==
    /\ Phase("serving") /\ worker.stop
    /\ worker' = [worker EXCEPT !.phase = "draining"]
    /\ \/ ~faulted /\ GlobalStop /\ UNCHANGED faulted
       \/ faulted /\ UNCHANGED <<stopped, faulted>>
       \/ Fault /\ UNCHANGED stopped
    /\ UNCHANGED <<storeVars, cronVars, consentVars, holder, active, grants, receipts,
                   main, consenter, runs, history>>

Working(e) == runs[e].step \notin {"none", "over"}

Drained == \A e \in Executions : ~Working(e)

\* shutdown: stop once more, which may fail, then close.
Shutdown ==
    /\ Phase("draining") /\ Drained
    /\ Close /\ worker' = NoWorker
    /\ \/ ~faulted /\ GlobalStop
       \/ (faulted \/ LedgerMayFail) /\ UNCHANGED stopped
    /\ UNCHANGED <<storeVars, cronVars, consentVars, grants, receipts, main, consenter, runs, history>>

\* After 20 seconds serve gives up; the process still waits for its threads.
DrainTimeout ==
    /\ Phase("draining") /\ ~Drained
    /\ worker' = [worker EXCEPT !.phase = "leaving"]
    /\ UNCHANGED <<storeVars, cronVars, consentVars, authorityVars, main, consenter, runs, history>>

Exit ==
    /\ Phase("leaving") /\ Drained
    /\ Close /\ worker' = NoWorker
    /\ UNCHANGED <<storeVars, cronVars, consentVars, ledger, main, consenter, runs, history>>

----------------------------------------------------------------------------
\* One execution

\* The hook's test that the job is still the claimed one and may run.
Unchanged(e) == Enabled(runs[e].job) /\ jobs[runs[e].job].version = runs[e].version

StepTo(e, step) == runs' = [runs EXCEPT ![e].step = step]

\* The hook denies an execution it has not entered, and pauses its job if the
\* execution still owns the claim on it.
Refuse(e) == StepTo(e, "over") /\ (PauseJob(runs[e].job) \/ UNCHANGED jobs)

\* The hook's first checks, acquire's, and admit's fingerprint, which is
\* computed before the lock is taken.  Here and below a refusal may also come
\* from Hermes: the execution is cancelled, or an earlier one failed and
\* faulted the profile.
Acquire(e) ==
    /\ runs[e].step = "claimed"
    /\ \/ /\ config = worker.policy /\ Unchanged(e)
          /\ runs' = [runs EXCEPT ![e].step = "admitting", ![e].config = config]
          /\ UNCHANGED jobs
       \/ Refuse(e)
    /\ UNCHANGED <<storeVars, config, consentVars, authorityVars, main, consenter, worker, history>>

\* Mutant: the stop is only tested when the execution is acquired.
AdmitStopped(e) ==
    /\ runs[e].step = "admitting"
    /\ LET r == runs[e] IN
        IF /\ ~faulted
           /\ GrantInForce(r.job, r.version, r.config)
           /\ ~Replayed(e, r.job, r.occurrence)
        THEN /\ StoreReceipt(e, r.job, r.occurrence)
             /\ active' = active + 1
             /\ leases' = [leases EXCEPT ![<<r.job, r.occurrence>>] = @ + 1]
             /\ runs' = [runs EXCEPT ![e].step = "leased", ![e].deadline = LeaseEnd(r.job)]
             /\ UNCHANGED jobs
        ELSE Refuse(e) /\ UNCHANGED <<receipts, active, leases>>
    /\ UNCHANGED <<storeVars, config, consentVars, holder, faulted, stopped, grants,
                   main, consenter, worker, signed, stopReplied>>

\* admit's first transaction.
Admit(e) ==
    /\ runs[e].step = "admitting"
    /\ LET r == runs[e] IN
        \/ /\ ~faulted /\ MayAdmit(e, r.job, r.occurrence, r.version, r.config)
           /\ StoreReceipt(e, r.job, r.occurrence)
           /\ active' = active + 1
           /\ leases' = [leases EXCEPT ![<<r.job, r.occurrence>>] = @ + 1]
           /\ runs' = [runs EXCEPT ![e].step = "leased", ![e].deadline = LeaseEnd(r.job)]
           /\ UNCHANGED <<jobs, faulted>>
        \/ /\ \/ /\ faulted \/ ~MayAdmit(e, r.job, r.occurrence, r.version, r.config)
                 /\ UNCHANGED faulted
              \/ Fault
           /\ Refuse(e)
           /\ UNCHANGED <<receipts, active, leases>>
    /\ UNCHANGED <<storeVars, config, consentVars, holder, stopped, grants,
                   main, consenter, worker, signed, stopReplied>>

\* Under the lease the hook looks at the job again, for the last time: then it
\* hands the claimed snapshot to Hermes.
Enter(e) ==
    /\ runs[e].step = "leased"
    /\ \/ /\ config = worker.policy /\ Unchanged(e) /\ clock < runs[e].deadline
          /\ StepTo(e, "entered")
       \/ StepTo(e, "refused")
    /\ UNCHANGED <<storeVars, cronVars, consentVars, authorityVars, main, consenter, worker, history>>

\* The lease's script starts, with the configuration as it was and before the
\* lease ends; the job itself is not looked at again.
StartScript(e) ==
    /\ runs[e].step = "entered"
    /\ \/ config = worker.policy /\ clock < runs[e].deadline /\ StepTo(e, "running")
       \/ StepTo(e, "failed")
    /\ UNCHANGED <<storeVars, cronVars, consentVars, authorityVars, main, consenter, worker, history>>

\* Mutant: after a ledger failure the execution is never over.
FinalizeLost(e) ==
    /\ runs[e].step \in {"running", "refused", "failed"}
    /\ ~faulted
    /\ active' = active - 1
    /\ \/ /\ SpendReceipt(e) /\ UNCHANGED faulted
          /\ IF runs[e].step = "refused" THEN Refuse(e) ELSE StepTo(e, "over") /\ UNCHANGED jobs
       \/ Fault /\ UNCHANGED <<receipts, runs, jobs>>
    /\ UNCHANGED <<storeVars, config, consentVars, holder, stopped, grants,
                   main, consenter, worker, history>>

\* The lease ends: admit's second transaction, and its count in any case.  An
\* execution that was not entered is denied.
Finalize(e) ==
    /\ runs[e].step \in {"running", "refused", "failed"}
    /\ active' = active - 1
    /\ \/ ~faulted /\ SpendReceipt(e) /\ UNCHANGED faulted
       \/ Fault /\ UNCHANGED receipts
       \/ faulted /\ UNCHANGED <<receipts, faulted>>
    /\ IF runs[e].step = "refused" THEN Refuse(e) ELSE StepTo(e, "over") /\ UNCHANGED jobs
    /\ UNCHANGED <<storeVars, config, consentVars, holder, stopped, grants,
                   main, consenter, worker, history>>

Execute(e) == Acquire(e) \/ Admit(e) \/ Enter(e) \/ StartScript(e) \/ Finalize(e)

WorkerSteps ==
    \/ Serve \/ EndServing \/ Shutdown \/ DrainTimeout \/ Exit
    \/ \E e \in Executions : Execute(e)

----------------------------------------------------------------------------
\* Crashes and the world

\* The runtime process stops or dies and is started again: its memory is lost, the lock of
\* an open authority is released, the files stay.
RestartRuntime ==
    /\ main' = NoCall /\ consenter' = NoDecision
    /\ approvals' = [i \in ApprovalIds |-> Unissued]
    /\ ForgetConsents
    /\ IF holder = "runtime" THEN Close ELSE UNCHANGED <<holder, faulted, active>>
    /\ UNCHANGED <<clock, cronVars, ledger, worker, runs, history>>

WorkerCrash ==
    /\ ~Phase("down")
    /\ worker' = NoWorker /\ Close
    /\ runs' = [e \in Executions |-> IF Working(e) THEN [NoRun EXCEPT !.step = "over"]
                                      ELSE runs[e]]
    /\ UNCHANGED <<storeVars, cronVars, consentVars, ledger, main, consenter, history>>

Environment ==
    \/ /\ Tick
       /\ UNCHANGED cronVars
    \/ /\ EditJob \/ EditConfig
       /\ UNCHANGED storeVars

Next ==
    \/ Management \/ Decision
    \/ BindWorker \/ Signal \/ DispatchCloses
    \/ \E e \in Executions, j \in Jobs, o \in Occurrences : Dispatch(e, j, o)
    \/ WorkerSteps
    \/ RestartRuntime \/ WorkerCrash
    \/ /\ Environment
       /\ UNCHANGED <<consentVars, authorityVars, main, consenter, worker, runs, history>>

Spec == Init /\ [][Next]_vars

----------------------------------------------------------------------------
\* Fairness: the threads of both processes keep running.  Nothing makes a
\* client call, a user decide, Hermes dispatch or a process crash.

MainSteps == RevokeForCall \/ ApplyCall \/ RequestActivation \/ ListEnabled \/ PauseListed

ConsenterSteps == VerifyAndDecide \/ ReadJob \/ IssueApproval \/ MakeApprovalAvailable
                    \/ OpenAuthority \/ Rebind \/ Activate \/ Resume

FairSpec ==
    /\ Spec
    /\ WF_vars(MainSteps) /\ WF_vars(ConsenterSteps)
    /\ WF_vars(Serve \/ EndServing \/ Shutdown \/ Exit)
    /\ \A e \in Executions : WF_vars(Execute(e))

----------------------------------------------------------------------------
\* Properties

\* One occurrence of a job is admitted at most once, ever: not twice by two
\* executions at a time, nor again after a crash of either process, an
\* unfinished receipt or a new activation.
OccurrenceOnce == \A jo \in Jobs \X Occurrences : leases[jo] <= 1

\* Once a stop-all call has succeeded no job is enabled, whatever activation
\* was under way on the other thread.
StopAllHolds == stopReplied => stopped /\ \A j \in Jobs : ~Enabled(j)

\* A script only starts in a version of the job that a user signed an
\* activation for, and before the end of the validity they signed, whatever
\* revocation, edit or later activation came after the lease.
ScriptRunsAsConsented ==
    [][\A e \in Executions :
        runs[e].step = "entered" /\ runs'[e].step = "running" =>
            \E b \in signed : /\ b.job = runs[e].job
                              /\ b.version = runs[e].version
                              /\ clock < b.until]_vars

Leased(e) == runs[e].step \in {"leased", "entered", "running", "refused", "failed"}

\* A lease is out only while the worker has the authority open and its receipt
\* is in flight, and the authority's counter tells how many are.
LeasesOnRecord ==
    /\ \A e \in Executions : Leased(e) =>
          /\ holder = "worker"
          /\ receipts[e] = [state |-> "inflight", job |-> runs[e].job,
                            occurrence |-> runs[e].occurrence]
    /\ active = Cardinality({e \in Executions : Leased(e)})

\* Receipts are tombstones: none is dropped or moved, a settled one stays as it
\* is, and recovery settles only what nobody is executing.
ReceiptsStay ==
    [][\A e \in Executions : receipts[e] # NoReceipt =>
        /\ receipts'[e] = [receipts[e] EXCEPT !.state = receipts'[e].state]
        /\ receipts'[e].state # receipts[e].state =>
              /\ receipts[e].state = "inflight"
              /\ receipts'[e].state = IF Leased(e) THEN "spent" ELSE "unknown"]_vars

\* A worker that was told to stop ends, and lets go of the authority.
WorkerEnds == worker.stop ~> Phase("down")

\* Every management call and every decision returns.
AutomationCallsReturn ==
    /\ main.step # "idle" ~> main.step = "idle"
    /\ consenter.step # "idle" ~> consenter.step = "idle"

\* The inductive invariant: who has the ledger open decides who may grant,
\* resume and lease.

Custody ==
    /\ consenter.step \in {"bind", "activate", "resume"} <=> holder = "runtime"
    /\ ~Phase("down") <=> holder = "worker"
    /\ Phase("bound") => Drained
    /\ \A e \in Executions : Working(e) => holder = "worker"

\* A call that is under way has what its remaining steps need.
Locals ==
    /\ main.step \in {"revoke", "apply", "bind"} =>
          main.job \in Jobs /\ main.owner \in Principals /\ main.seen \in JobRecords
    /\ main.step = "bind" => main.rid \in RequestIds
    /\ \A c \in Recorded : consents[c].binding \in Bindings
    /\ consenter.step # "idle" => consenter.consent \in ConsentIds
    /\ consenter.step \notin {"idle", "verify"} => consenter.asked \in Bindings
    /\ consenter.step \notin {"idle", "verify", "lookup"} => consenter.seen \in JobRecords
    /\ consenter.step \in {"make_available", "open", "bind", "activate", "resume"} =>
          consenter.approval \in ApprovalIds
    /\ consenter.step = "activate" => consenter.bound \in Bindings
    /\ \A e \in Executions : Working(e) => /\ runs[e].job \in Jobs
                                           /\ runs[e].occurrence \in Occurrences

\* Nothing is resumed once the ledger is stopped, so a stop-all call that has
\* listed the enabled jobs knows them all.
StopProgress ==
    /\ consenter.step = "resume" => ~stopped
    /\ main.step \in {"list", "pausing"} => stopped
    /\ main.step = "pausing" => \A j \in Jobs : Enabled(j) => j \in main.todo
    /\ StopAllHolds

\* A lease leaves a receipt, and no two receipts name the same occurrence.
OneReceiptEach ==
    /\ \A jo \in Jobs \X Occurrences : leases[jo] # 0 =>
          \E e \in Executions : /\ receipts[e] # NoReceipt
                               /\ receipts[e].job = jo[1]
                               /\ receipts[e].occurrence = jo[2]
    /\ OccurrenceOnce

\* A signature stands behind every grant, lease and approval under way: for the
\* same job in the same version, and for no longer than was signed.
SignedFor(j, version, until) ==
    \E b \in signed : b.job = j /\ b.version = version /\ until <= b.until

GrantSigned(j) == grants[j] # Nothing => SignedFor(j, grants[j].version, grants[j].until)

LeaseSigned(e) ==
    runs[e].step \in {"leased", "entered"} =>
        SignedFor(runs[e].job, runs[e].version, runs[e].deadline)

Consented ==
    /\ \A j \in Jobs : GrantSigned(j)
    /\ \A e \in Executions : LeaseSigned(e)
    /\ consenter.step \notin {"idle", "verify"} => consenter.asked \in signed
    /\ consenter.step \in {"make_available", "open", "bind", "activate"} =>
          approvals[consenter.approval].fingerprint = consenter.asked

AutomationInv ==
    TypeOK /\ Custody /\ Locals /\ StopProgress /\ LeasesOnRecord /\ OneReceiptEach

----------------------------------------------------------------------------
\* The contract: see OccurrenceLeases.  A lease is live while its script may
\* still start or runs; a receipt is a claim for good.

PhaseOf(e) ==
    IF runs[e].step \in {"none", "claimed", "admitting"} THEN "waiting"
    ELSE IF runs[e].step \in {"leased", "entered", "running"} THEN runs[e].step
    ELSE "ended"

TermOf(e) == IF PhaseOf(e) \in {"leased", "entered", "running"} THEN runs[e].version ELSE Nothing

ClaimOf(e) ==
    IF receipts[e] = NoReceipt THEN Nothing
    ELSE <<receipts[e].job, receipts[e].occurrence>>

GrantedFor(j) ==
    IF grants[j] = Nothing \/ grants[j].revoked THEN Nothing ELSE grants[j].version

Contract == INSTANCE OccurrenceLeases WITH
    Versions <- JobVersions,
    None     <- Nothing,
    content  <- [j \in Jobs |-> jobs[j].version],
    signed   <- {<<b.job, b.version>> : b \in signed},
    granted  <- [j \in Jobs |-> GrantedFor(j)],
    halted   <- stopped,
    phase    <- [e \in Executions |-> PhaseOf(e)],
    claim    <- [e \in Executions |-> ClaimOf(e)],
    term     <- [e \in Executions |-> TermOf(e)]

\* The two processes, with their crashes, expiries and failing transactions,
\* do nothing but what OccurrenceLeases allows: in particular the stop is
\* durable and closes admission at once, also for an execution that is past
\* its first checks, no edit between admission and the hook's last look gets
\* in, and what an edit after that look finds is run as it was signed.
ImplementsOccurrenceLeases == Contract!LeaseSpec

=============================================================================
