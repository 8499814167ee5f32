# A verification project for JL Agent

JL Agent is a desktop assistant: a native macOS client talks to a Python runtime
over two Unix sockets, and the runtime decides what an authenticated client may
have Hermes, the agent engine underneath, do.  This directory holds TLA+
specifications of the runtime's core logic, the TLC configurations that check
them on small instances, and TLAPS proofs of their most important invariants
for all values of the constants.  Every definition is translated from
`src/src/jl_agent`; paths below without a directory are files of
`src/src/jl_agent/control`.

Run TLC with `tlc -config <run>.cfg <module>`, the proofs with `tlapm <module>`.
`PROJECT.json` lists the components, the runs, the lines each definition models,
the hazards and, for every checked property, a mutant of the code it rejects.

## 1. Inventory

| Component | State it keeps | Operations | Where it is hard |
| --- | --- | --- | --- |
| Request lifecycle and normal handler, `request_state.py` | one `RequestLifecycle` per prepare call | prepare, execute, status, dispatch to the other surfaces | one object moved by three handlers on several threads |
| Control plane, `control_plane.py` with `permissions.py`, `health.py`, `router.py`, `registry.py` | registry, probes | check policy, health, route | evaluated three or four times per action, in a world that changes in between |
| Approval store, `approvals.py` | in-memory table of one-time approvals | issue, make available, consume, revoke, get | lazy expiry; two clients presenting the same approval |
| Consent coordinator and trusted handler, `consent.py` | bounded table of pending consents, set of request IDs | register, get, decide; signed decisions from the consent socket | lookup, verification and decision are separate critical sections; eviction |
| Execution gate, `execution.py` | bounded table of prepared requests, one lock | register, execute | the lock is held over probes; records are pruned whatever their state; the ledger may raise halfway |
| Hermes adapter, `hermes_adapter.py`, `hermes_projection.py` | none | run a projection | may answer, refuse or raise |
| Audit ledger, `audit.py` | trimmed JSON lines file | record | its failures interrupt the handlers above |
| Automation authority, `automation.py` | SQLite ledger: stop flag, grants, receipts; an advisory lock file | activate, revoke, global stop, admit (a lease of two transactions) | two processes, crashes between transactions, an irreversible stop |
| Automation manager, `automation_management.py` | pending consents, its own approvals | create, pause, remove, request activation, stop all, decide | the ledger is only open around one call; the job store belongs to Hermes |
| Scheduler worker, `../automation_runtime.py`, `../automation_service.py` | a process with execution threads | bind, serve, drain, exit | holds the ledger's lock for its whole life; killed at any time |
| Voice coordinator, `voice.py` | lease, busy flag, follow-up timer, event queue | start, stop, events, microphone test; callbacks of Hermes | four kinds of threads; what one session starts can outlive it |
| IPC server, `ipc.py`, and runtime service, `../runtime_service.py` | two sockets and their endpoint files, readiness | start, serve, shut down, recover a stale endpoint | endpoint files that survive a crash; two instances |
| Library, `prepare_library_state` and `main` of `../runtime_service.py` | copied directory trees, forwarded files, a marker, one key of the Hermes configuration | migrate, forward, mark, add the language | killed between two writes; runs before anything keeps two launches apart |
| Skill manager, `skill_manager.py` | quarantine, active directory, lock file, disabled names | list, preview, import, enable, disable | several file operations per import, a crash between any two; a folder that changes meanwhile |
| Computer use, `computer_use.py`, `health.py` | none | probe, status, health, execution readiness, target guard | the same host judged by several pieces of code, at several times |
| Assistant admission, `assistant_loop.py` | none | admit a sentence | three parsers and a list of words, one after the other |
| Credentials, `auth.py` | one private file | create, load, authenticate, rotate | creation is two steps; a rotation beside a launch |
| Codec, `codec.py` | none | parsing, with defaults for what is left out | the default is the mildest value |
| Native client, `src/macos-app` | the runtime process it owns, cursors, view state | start, restart, recover, poll | adopts or replaces a runtime it did not start; polls a bounded queue |

Who calls whom.  The normal socket's thread and the threads of voice turns run
the normal handler; the consent socket's thread runs the trusted handler.  Both
share the approval store, the consent coordinator, the gate and the lifecycle
objects.  Prepare asks the control plane, then either registers at the gate or
leaves a pending consent; a signed decision picks the consent up, issues and
consumes an approval and registers at the gate; execute finds the gate's record,
revalidates under the gate's lock and calls Hermes without it.  Automation has
handlers on the same two threads, and shares the ledger with a second process.
Each server handles one connection at a time, so calls of clients on one socket
are serialised; callbacks, voice turns, timers and the other socket are not.

What makes each component correct:

* core - an action that needs confirmation runs only after a signed approval of
  that very action, once; a refusal is final; a stale decision starts nothing;
  no lifecycle change outside the table; calls return and executions end;
* automation - an occurrence runs at most once whatever crashes; a script starts
  only for a job as the user signed it; stop means stop, on every path;
* voice - the lease is held while voice is active and one turn runs at a time; idle
  means a closed microphone; a timer does not end a session under its turn; nothing stays busy or open for ever; events reach their client;
* runtime - no endpoint of a live runtime is removed by another; what a crash
  leaves behind does not keep the next launch from starting; a runtime that ends
  leaves nothing; a reported runtime is there;
* decisions - added risk never gets a request further; a
  route meets its constraints whatever the order of candidates; what is
  dispatched is what was confirmed, on a host that is ready; talk is only talk;
* start - nothing serves from half a Library; a dead launch does not block the
  next; what the Library has is not replaced; the runtime holds the credential
  that is stored;
* skills and ledger - only what a request enabled is visible, what is installed
  is what was scanned; every answered request is on a ledger that keeps its newest
  lines.

## 2. Plan

Done, in this order:

1. `RequestState`, `Binding`, `ControlPlane`, `Approvals`, `Attempt`, `Consent`,
   `ExecutionGate`, composed by `ControlRuntime`; its contract
   `OneShotAuthorization`; proofs in `ControlRuntime_proofs`.
2. `HermesCron`, `AutomationConsent`, `AutomationAuthority`, composed (with
   `Approvals` again) by `Automation`; its contract `OccurrenceLeases`; proofs,
   the refinement included, in `Automation_proofs`.
3. `Voice`, extended by `VoiceClient`; proofs in `Voice_proofs`.
4. `UnixServer`, extended by `RuntimeService` (instances in `MCRuntime`); proofs in
   `RuntimeService_proofs`.
5. `Permissions`, `Health`, `Router`, `Readiness`, `Assistant`, composed by
   `Decisions`; proofs in `Decisions_proofs`.
6. `Library` and `Credential`, composed by `Startup`; proofs in `Startup_proofs`.
7. `Audit`, extended by `Skills`; proofs in `Skills_proofs`.
8. The authority invariant of the core and the refinement of
   `OneShotAuthorization`, in `Authority_proofs`.

Left, in order of importance: the native process controller
(`RuntimeProcessController.swift`) over `RuntimeService`; the threads of partial
transcription in `voice.py`.

Runs are kept few, one per question; a property goes to the existing run whose
instance makes it interesting before it gets a run of its own.

## 3. The control core

### State and actions

| Module | Models | Variables |
| --- | --- | --- |
| `RequestState` | the transition table of `RequestLifecycle` | - |
| `Binding` | identities that approvals bind: principal and fingerprint | - |
| `ControlPlane` | the control plane as a function of request and world | `world` |
| `Approvals` | `approvals.py` | `clock`, `approvals` |
| `Attempt` | the objects a prepare call creates and hands on | `request`, `lifecycle`, `bound`, `approvalOf` |
| `Consent` | `ConsentCoordinator` | `consents`, `requestIds` |
| `ExecutionGate` | `ExecutionGate` | `prepared`, `gateHolder` |
| `ControlRuntime` | the two handlers as threads | `pc`, `cur`, `handling`, `stamp` and the history `signed`, `dispatches` |

A thread's step runs to its next access of something another thread can change:
the clock, the world, or a locked table.  `Receive`, `CheckPolicy`, `Branch`,
`PrepareDirect`, `RegisterConsent`, `ConsumeApproval`, `PrepareConfirmed`,
`CheckRegistration`, `RegisterExecution` and `DenyRegistered` are `prepare`; `ReceiveDecision`,
`LookupConsent`, `DecideConsent`, `RejectConsent`, `IssueApproval` and
`MakeApprovalAvailable` are the signed decision, which then shares the tail of
prepare; `Admit`, `Revalidate`, `Run` and `Complete` are `execute`.  The clock is
read before a lock is taken where the code does so (`stamp`); the gate's lock is
held over several steps, so it is a variable (`gateHolder`).

Details that are in the model because they are in the code:

* the TTL of a prepared record is compared before the revalidation, so an
  execution may start after its deadline;
* a registration prunes expired records even when it is then refused, and
  whatever their lifecycle is; a request ID may be prepared again after its TTL;
* if the gate refuses a request the trusted handler already confirmed, the
  lifecycle stays `prepared` and nobody will execute it;
* a ledger that raises after the registration: the record stays in the table.
  As an `OSError` it ends the handler; a `ValueError` is taken for a refused
  registration, and the handler denies the request (`DenyRegistered`) outside the
  gate's lock, so another thread may be executing it by then: whichever of the two
  moves the lifecycle second and finds no such move in the table raises
  `IllegalRequestTransition` (`FinishIfLegal`), and a request may be dispatched
  and yet end denied.  `transition` itself is one step;
* a ledger that raises at the start of an execution leaves the lifecycle
  `executing` and nothing runs (`ExecutionsEnd` speaks of executions the adapter
  was called for);
* an expired consent denies its request only when somebody looks at it.

The control plane is three tables over worlds (outcome, fingerprint, route);
drift changes the world at any moment.  An execute envelope that finds nothing
changes nothing and is a stutter.  Signatures are accepted or not.  Bounds:
the ID of an approval is random in the code, so `ApprovalIds` must be at least
as many as the approvals a behaviour issues, and `Attempts` bounds the prepare
calls of a behaviour.

### Runs

| Run | Instance | Checked |
| --- | --- | --- |
| `core_consent` | 2 attempts, 2 request IDs, one approval of another surface held by 2 threads, one consent slot, drift, a clock that passes every TTL; 2.2 million states | `ConfirmedBeforeDispatch`, `RefusedConsentNeverRuns`, `ConsentTablesAgree`, `OneDispatchPerApproval`, `GateRecordsAuthorized`, `ImplementsOneShotAuthorization`, `ConsumedInTime` |
| `core_race` | 2 attempts on 2 threads, both IDs on both, all ways to refuse a prepare call, one gate slot, the route may vanish, the ledger may raise at a registration and at a start; fair; 301 000 | `DispatchedOnce`, `StartsAsPrepared`, `EveryCallReturns`, `ExecutionsEnd` |

Why these are enough.  Two attempts are what a race on one consent slot, one gate
slot, one request ID or one approval takes.  With a TTL of 1 and a clock of 0 and
1 every deadline is met before and at the deadline, and the deadline itself is
already too late.  Capacities of 1 make full tables the normal case.  `core_race`
is stronger than the wiring: voice turns use fresh request IDs (`voice.py:319`),
yet the gate must not rely on that.  Symmetry is over attempts and over the
approvals that no envelope names, and only where no liveness is checked.

Fairness (`FairSpec`): a thread with work in hand goes on - it is an OS thread,
locks are released by steps that are fair themselves, and Hermes' call returns.
Nothing makes a client call, a user decide, or the clock or world move.

### Proofs

`ControlRuntime_proofs` proves `Spec => []IInv` for any threads, requests,
approvals and bounds.  `DispatchedOnce` is not inductive: that a second call
never comes depends on who holds which attempt.  `IInv` therefore states custody:
each step of a thread fixes the lifecycle of its attempt (`Custody`), no two
threads own one attempt (`SoleOwner`), nobody prepares an attempt that a thread
is about to deny on the table (`LateDenial`), an unused attempt is nowhere
(`Untouched`), a consent that can still be decided belongs to an attempt nobody
works on (`ConsentCustody`), a gate record belongs to an attempt that has left
preparation, and only threads that execute own it (`GateCustody`), and a call was
made only for attempts past `prepared` (`DispatchCustody`).  The proof has a lemma
per action and in it a step per conjunct.  `TypeCorrectness`,
`AtMostOneDispatch`, `SingleRunner` and `LifecycleLegality` follow.  The last says
that no lifecycle changes outside the table of moves, and that while the ledger
can be written no handler even attempts such a move (`NobodyOvertaken`): the only
thread that moves a lifecycle it does not own is the one whose ledger failed.
Before that the module proves of the store alone, under any caller (`StoreSpec`),
that consumption is in time and that dead approvals stay dead; `CoreUsesStore`
in `Authority_proofs` shows that the core is such a caller, so that
`ConsumedInTime` and `ApprovalsStay` hold of it (`CoreSpendsInTime`).

`Authority_proofs` builds on custody.  `AuthorityInv` says what an authorisation
rests on: whatever is approved, prepared, filed at the gate, in execution or was
dispatched is `Backed`, by policy or by a consumed approval of exactly its owner
and fingerprint that its user signed for or that came from another surface; no
two authorisations share an approval (`SoleGrant`); a refused or pending consent
has dispatched nothing (`AttemptAuthority`); and each step of a thread may count
on what it established before (`ThreadAuthority`).  From it follow
`ConfirmedBeforeDispatch`, `OneDispatchPerApproval`, `RefusedConsentNeverRuns`
and `GateRecordsAuthorized`.  `TablesInv` (request IDs of records, each once,
within the bound, with cardinalities) gives `ConsentTablesAgree`.
`ImplementsOneShotAuthorization` is the refinement: the phase of an attempt and
the approval it rests on are read off its lifecycle, the gate and the dispatches
(`PhaseOf`, `GrantOf`, `Spent`); preparing moves a phase, consuming spends an
approval never spent before, all else is a stutter.  `StartsAllowed` proves
`StartsAsPrepared`: when an execution starts, the control plane, asked at that
moment about the request that the caller handed in, routes it as the attempt was
prepared and allows it, outright or by the consumed approval of exactly that
owner and fingerprint (`AllowedNow`).  It needs both invariants: custody says
that the attempt whose lifecycle changes is the one under revalidation, authority
that its approval is consumed.  One fact is an assumption of the model: clients can name only approvals of other surfaces, since those of
consent have random identifiers that never leave the coordinator.

Assumptions are the `ASSUME`s of the modules: TTLs and capacities are positive
numbers, constants have their types, and `Nothing` is none of the values.

## 4. Automation

| Module | Models | Variables |
| --- | --- | --- |
| `HermesCron` | Hermes' job store and the profile's `config.yaml` (external, as the code uses them) | `jobs`, `config` |
| `AutomationConsent` | the manager's pending consents | `consents`, `requestIds` |
| `AutomationAuthority` | the SQLite ledger and the open authority | `holder`, `faulted`, `active`, `stopped`, `grants`, `receipts` |
| `Automation` | manager threads, the worker process, its executions, crashes | `main`, `consenter`, `worker`, `runs` and the history `leases`, `signed`, `stopReplied` |

The ledger survives crashes, everything else does not (`RestartRuntime`,
`WorkerCrash`).  The manager's own lock is held exactly while one of its threads
has the authority open, so the file lock (`holder`) stands for both.  While the
worker holds it every management call is denied, `stop all` and `pause` included;
`status` then reports a stopped scheduler.  A call that only needs one
transaction opens, acts and closes in one step; an activation, which reads the
configuration twice and resumes the job at Hermes in between, takes several.
`admit` is a lease: a first transaction that counts it and writes a receipt in
flight, the script at Hermes, and a second one that settles the receipt.  Under
the lease Hermes' hook (`docs/PHASE6_UPSTREAM.patch`) looks at the job once more
(`Enter`) and hands over the snapshot it claimed; when the script starts
(`StartScript`) only the configuration and the end of the lease are looked at
again.  A job that is edited, paused or revoked between the two still runs: what
runs is the lease's own script, in the version that was signed, which is what
`PHASE6_HOOK_DESIGN.md:112` intends and the properties claim.  An execution that
fails before it is entered is denied and its job paused; one that fails afterwards
is not.

Simplifications: a refusal for Hermes' own reasons (a cancelled execution, a
profile an earlier failure has faulted) may happen at any of the hook's tests;
one clock stands for wall and monotonic time; the clock reading
and the lock of the consent table are one step; the lock file and the database
come into being together; the drain timeout of 20 s is a step that may happen
while executions are left; execution identifiers are fresh; `revoke`, which has
no caller, is covered by `revoke_if_owner`.

| Run | Instance | Checked |
| --- | --- | --- |
| `automation_worker` | 2 executions of one occurrence, failing ledger, crashes of both processes, fair; 240 000 states | `OccurrenceOnce`, `WorkerEnds`, `AutomationCallsReturn` |
| `automation_stop` | 2 jobs with 2 versions, activation racing with stop-all, expiries; 2 million | `StopAllHolds`, `ScriptRunsAsConsented`, `ImplementsOccurrenceLeases` |

One job and two executions make the two claims of one occurrence; two jobs are
needed for a stop-all call that pauses one while the other is being activated;
two versions for an edit after consent.  Grants and consents are per job, so
further ones repeat these cases.  Fairness: the manager's two threads, the
worker's main thread and each execution go on; Hermes dispatches, users decide
and signals arrive only if they like.

`Automation_proofs` proves `AutomationInv`: `TypeOK`; who has the ledger open
decides who may grant, resume and lease (`Custody`); a call under way has what
its remaining steps need (`Locals`); nothing is resumed once the ledger is
stopped, so a stop-all call that has listed the enabled jobs knows them all
(`StopProgress`); leases and receipts agree (`LeasesOnRecord`); every lease leaves
a receipt that names its occurrence (`OneReceiptEach`, which makes
`OccurrenceOnce` inductive).  `ReceiptsStay` is proved from it.
`Consented` follows a signature on its way - the consenter's call, the approval it
issues, the grant, the lease - and says that none of them outlives it or covers
another version; with it `ScriptsRunAsConsented` proves `ScriptRunsAsConsented`.

`OccurrenceLeases` is what all of this is for, in nine actions: jobs are edited,
contents signed for, grants given and withdrawn, executions leased, entered,
started and ended, and the whole is halted once and for all.  A grant needs a
signature for its content and no halt; a lease needs a grant, no halt and an
occurrence that nobody claimed; to be entered, an execution needs the job to have
the content of its lease; a start needs that content to be signed for, whatever
the job has become since.  The
refinement mapping in `Automation` reads a grant off the ledger's row unless it
is revoked, a claim off the receipt in whatever state, a live lease off the
execution between admission and `refused`, `failed` or `over`; the stop is the ledger's.
Approvals, consents, the lock, the clock, the phases of both processes and the
configuration have no image, so most steps stutter, crashes of the worker end
executions, and recovery, which rewrites receipts, changes no claim.
`AutomationImplementsContract` proves the refinement from `AutomationInv` and
`Consented`, one lemma per contract action (`LeaseMaps`, ...) and one per action
of the model that is not a stutter (`AdmitMaps`, ...).  The run has one
execution, enough for the stop, edits and revocations against a lease; two
executions of one occurrence are in `automation_worker`.  Expiry is left to
`ScriptRunsAsConsented`; of the configuration section 10 speaks.

## 5. Voice

`Voice` models the coordinator's lease (`owner`, `voiceActive`), busy flag
(`turnActive`), timer reference (`followUp`) and event queue (`events`, each event
being the session whose words it carries), the threads of turns and timers
(`turns`, `timers`), Hermes' loop (`listening`, and the `callback` that waits for
the coordinator's lock), the microphone test (`mic`, `ipc`) and shutdown (`down`).
A locked block of the code is one step; what runs outside the lock - the
assistant's answer, speech, the timer's call that stops Hermes, the start of a
microphone test - is a step of its own.  The IPC server handles one connection
at a time, so client calls do not overlap.

`era` numbers the sessions.  A turn, timer or callback of one era can act in the
next, where the code does not recognise it; the history variable `crossed` records
that this has happened, and the invariants hold until then.  What is promised
without that exception is proved without it (`OwnerIffActive`, `TurnsFinish`,
`MicTestKeepsOut`).

Hermes is external: its loop listens, raises one callback at a time, and has
already ended when it reports a silent limit or a stop phrase.  A backend that
fails to stop leaves everything as it is (`StopMayFail`).  Left out: settings,
the speech test, and the partial-transcription threads, of which only the
arriving partial transcripts are modelled.

`VoiceClient` adds the clients' polling.  The native client always asks for
events after 0 with the default limit of 50 (`RuntimeClient.swift:495`,
`AgentViewModel.swift:625`), and the queue holds 100.

| Run | Instance | Checked |
| --- | --- | --- |
| `voice_lease` | 2 sessions, 2 starts, 2 turns, a backend that may not stop, fair; 368 000 states | `OneTurnAtATime`, `FollowUpSparesTurns`, `TurnsFinish` |
| `voice_polling` | queue of 4, answers of 2; violated | `PollsAreCurrent` |

Two starts are an era and the next one, two turns a leftover and its successor;
no step looks further back.  The queue steers nothing in `Voice`, so its capacity
is 1 there; the polling run keeps the code's ratio of 2 to 1.  Fairness: callbacks
get the lock, the assistant answers, speech ends, timers fire; clients and the
user's voice are free.

`Voice_proofs` proves `VoiceInv` (the invariants above, and that nothing comes from
a later era) and from it the two action properties.  That the microphone follows
the lease the code does not keep, neither when the backend raises nor across
sessions (section 10), so nothing of the kind is claimed.

## 6. The runtime and its files

`UnixServer` models `UnixSocketServer`: the file at each endpoint path
(`endpoint`), the kernel's listeners (`listens`), and what a server knows of them
(`adopted` for `_socket`, `identity` for `_socket_identity`, `stopping` for
`_stop`).  `RuntimeService` models `main` and `JLRuntimeService` for several
launches over one directory (`proc`), the readiness marker (`marker`, and `stamp`
for `_readiness_identity`) and the signal handler (`trap`), which runs a whole
shutdown between any two steps of `main` and then lets it go on.  Each system call
that looks at or changes a path is a step: `Probe`, `Unlink`, `Bind`, `Listen`,
`AdoptListener`, `RecoverMarker`, `DiscardMarker`, `CreateMarker` and `FillMarker`
are start, `AbortClose`, `AbortClean` and `AbortRemove` its own cleaning up,
`CloseStep`, `CleanStep`, `RemoveStep`, `Unmark` and `EraseMarker` shutdown.
`ServeEnds` is a serving loop that was told to stop, `ServeFails` an accept that
fails without that.  `Kill` leaves the files to the next launch.  `failed`, `met`,
`torn` and `missed` are history.

Where things go wrong, and the model with the code:

* between the look at a file and its `unlink` another process may have unlinked it.
  The `FileNotFoundError` of the second call is not caught: it leaves `shutdown`, and
  what that had still to do stays undone (`ShutdownRaises`, recorded in `missed`);
* raised in the signal handler, the exception surfaces in `main` where the signal
  interrupted it (`Interrupted`), unless it is an `OSError` that place takes for an
  answer of its own (`Caught`): a probe, a marker or an endpoint that is missing, an
  automation that does not stop;
* a marker whose content cannot be written stays, since its inode is read last
  (`FillMarker`, recorded in `torn`); by then the path may name another's marker.

A process binds a path once, so an inode is named by its process, and process and
inode numbers are not reused.  Simplified: `lstat` is one step with the `connect`,
`chmod` or `listen` after it; a listener that is given up by an exception is closed,
and its endpoint looked at and unlinked, in that step (`AbandonListener`); a foreign
file is there from the beginning or never; stopping automation and voice raises
nothing of its own.

| Run | Instance | Checked |
| --- | --- | --- |
| `runtime_files` | 2 launches, 8 combinations of foreign files, a signal and a kill (one of the two where runtimes meet or a foreign file is in the way), fair; 901 000 states | `LeavesNothing`, `StartsAfterCrash`, `ReportIsTrue`, `ForeignFilesStay`, `StopsWhenServing` |
| `runtime_duplicate` | 2 launches, a signal and a kill for each; violated | `ShutdownRemovesOwn` |

Two launches are a runtime and its rival, or a runtime and its successor; a third
would meet one of the same two.  A second signal repeats a shutdown that already
repeats itself.  Fairness (`Fairness`): a process that can go on does; nobody has to
launch, signal or kill, and no accept has to fail.  `StopsWhenServing` speaks of a
signal to a serving runtime only: one that arrives during start may be lost, since
start clears `_stop` last (`ipc.py:199`).  It holds although the handler may raise:
the exception then ends the serving.  `StartsAfterCrash` and `ReportIsTrue` except
launches that met another one, which `ShutdownRemovesOwn` is about.
`LeavesNothing` excepts less: a runtime beside another one is held to it unless its
own shutdown went to unlink a file that was gone (`Hurt`), which the code does leave
incomplete (section 10).  A signal and a kill in one behaviour is a shutdown that
dies halfway; where two runtimes meet the run tries one at a time, and the proof
covers the rest.

`RuntimeService_proofs` proves the four safety properties of `runtime_files` for any
number of launches, signals and kills.  The invariant `IInv` goes over each process at every point of `main`:
the files it owns are those its shutdown will find to be its own (`FilesOf`), a
server knows its listener but for the moment before it adopts it
(`ListenersOf`), and the handler, wherever it interrupts `main`, leaves nothing
behind what it has passed (`HandlerOf`, `Passed`; `Ahead`, `Cleaned`, `Opening` say
the same of `main`).  A launch that met no other is alone (`SolitudeOf`): what it saw
at a path is still there, or its own handler took it and swept the rest as well
(`SeenBy`), and the handler itself misses nothing - so that only a runtime that met
another is ever hurt.

## 7. Decisions

`ControlRuntime` takes the control plane's answers from tables.  `Decisions`
computes them: `Permissions` is `permissions.py` over the proposals `codec.py`
decodes, `Readiness` is `computer_use.py`, `Health` is `health.py` over the
registry of `hermes_projection.py`, `Router` is `router.py`, `Assistant` is the
admission of `assistant_loop.py`.  One request (`arrival`, `request`, `route`,
`candidates`) goes from its arrival over check, preparation or confirmation and
revalidation, the gate's last look at the application in front and the start to the
adapter, which is given what was prepared (`at`, `confirmed`, `prepared`, `checked`);
meanwhile the
host, the application in front, the checkout of Hermes and its evidence (`host`,
`front`, `pinned`, `present`) change between any two calls, and a client may send
something else to be executed than it prepared (`Resubmitted`).  The commands the
probe runs answer, fail or time out (`Hosts`).

| Run | Instance | Checked |
| --- | --- | --- |
| `decisions` | `MCDecisions`: every request that differs in risks, scopes, target or claims, every host for a capture, 480 route requests over 4 lists of candidates, every sentence; 134 000 states | `RiskNeverRelaxes`, `RouteWithinPolicy`, `TalkIsOnlyTalk`, `DispatchesAsConfirmed` |

The state is one request and one host, so the run enumerates inputs rather than
interleavings; the product of all requests with all hosts is left out, since the
engine sees the host only as the health it derives from it.  Two drifts put one
change before and one after any call.  One flag is added at a time, which is
enough for monotonicity, as are the orders of up to four candidates for routes.

Between the look at the application in front and the adapter's call the code moves
the lifecycle, writes the ledger and gives the lock back (`Start`, `Dispatch`), and
another application may come to the front: `DispatchesAsConfirmed` says what the
look found and what the adapter is given, not what is in front by then.

`Decisions_proofs` proves all four for every request, host, checkout, policy of
the router and list of candidates.  The lemmas say what `Evaluate` returns when a
proposal is `Worse` than another, and that the policy lets a computer-use request
through only on a host that is ready (`LetThroughIsReady`); `DecisionsInv` says that a request past its check was judged as the
policy judges it, and that one of the assistant is the draft of its command.

`Router` says what `sorted` returns without sorting: the candidate of a rank is
the one with that many before it (`Position`, `Ranked`).  For `RouteWithinPolicy`
the proof shows that scores are a strict total order (`LessTransitive`,
`LessTotal`), so that each of the first n positions among n places is taken once
(`PositionIsTaken`, by counting), and that a shuffled list has the same candidate
at each rank (`ShuffledRank`, by the bijection between the places).  It needs
that no identifier comes twice, which is what the router checks first; with
equal scores the order of the list would decide.

## 8. Start, Library and credential

`Library` models `prepare_library_state`: per group the trees where earlier
versions kept them (`source`) and the Library's (`library`), the marker
(`ready`).  A tree maps names of files to contents; `config.yaml` is a mapping
with the speech-to-text section and one other key, since the code merges it by
keys and adds a language to it.  `Credential` models `auth.py`: a file that is
absent, created but empty, or holds a secret.  `Startup` is `main` for several
launches over both: match, copy into a staging directory, publish, forward what
`~/.hermes` has (the list made first, then a file at a time), the marker, the
language, the credential, the endpoints.  Each write is a step, and so is each
read that a later write depends on; a launch may be killed at any of them
(`Kill`).  A serving runtime and the Hermes of `~/.hermes` edit their files, and
`--rotate-credential` is a process of its own that looks for the sockets and then
replaces the file.  `reason`, `clash`, `met` and `outdated` are history.

| Run | Instance | Checked |
| --- | --- | --- |
| `startup` | 2 launches, 5 sets of sources, an empty and a filled Library, one edit, one rotation; 151 000 states | `WholeBeforeUse`, `StartsOver`, `OwnCredential`, `OwnCopyStays` |
| `startup_again` | the same; violated | `SnapshotNeverBlocks` |

Two launches are one that dies or serves, and its successor or rival.  The
sources are chosen so that each step has something to do and something to refuse:
two sources that agree, two that conflict
over a file that is changed in place, only `~/.hermes`, and a profile
without, with an empty and with a chosen language.  Two launches at once are
excepted where nothing in the code keeps them apart: one writes the configuration
it read before the other one served, and a rotation does not see a launch that
has not bound its sockets.

`Startup_proofs` proves all four for any launches, sources, Libraries, contents
and edits.  `MigrationInv` says what each step of a launch may count on
(`Progress`): what it staged is a whole source, what is behind it was `Brought`
over, and so was everything once the marker is there; `WholeBeforeUse` follows.
`AloneInv` says that a launch that has met nobody still finds what it read, which
`OwnCopyStays` needs at the writes of the plan and of the language.
`CredentialInv` says who may be between creating the file and writing it, and that
the launches no rotation passed by hold what is stored.

`StartsOver` has a hypothesis, `KeptApart`, on what was there before the first
launch: outside `config.yaml` and `auth.json` the sources of a group agree where
they overlap, and a Library that exists has their files.  Without it a first
start fails rightly, over data that already disagreed.  It is a predicate of the
constants, true of the instance of the run (so the run is not vacuous, as its
mutant shows too), and no other property assumes it.  Under it `ConsistentInv`
is inductive: the agreement is kept (`FilesAgree`), and what is about to be
forwarded is not a file of the sources (`PlanApart`).

## 9. Skills and the ledger

`Audit` models `AuditLedger.record` in its steps - timestamp, append under the
lock, write the kept lines to a temporary file, replace - with a failure or a
short write at each, and the death of the process anywhere.  A line may be
`torn`, and the next event is then written behind it (`merged`).  `Skills` adds
the gateway and the manager of `skill_manager.py`: an import collects the
selected folder, quarantines, scans, disables the name, verifies that, looks for the
name among the installed ones, moves the directory, writes the lock file and records
the event; enabling and disabling
change Hermes' set of disabled names.  Between any two steps the folder may
change, a Hermes command may remove or install a skill, the step may fail, the process
may die.  Another thread uses the ledger all the while.  The look for an installed
skill and the move are kept apart by no lock a Hermes command takes: one that
installs the name in between may be refused or replaced by the move, as Hermes
decides, and no property says otherwise.

| Run | Instance | Checked |
| --- | --- | --- |
| `skills` | 2 names, 3 bodies of which one is refused, a ledger of 2 lines, 3 events, 2 faults, 2 changes; 5.7 million states | `LedgerKeepsNewest`, `VisibleOnlyEnabled`, `InstalledAsScanned`, `AnsweredOnLedger` |

Three events overflow the ledger once; two faults are one that leaves a mess and
one that disturbs its repair; two names tell the one imported from another.
`Skills_proofs` proves all four for any bounds: `LedgerInv` says who may hold the
lock at each stage, that the file is an end of all that was written and misses
nothing the bound keeps; `ImportProgress` what each step of an import may count
on - the quarantined bundle is the one collected, then the one scanned, and its
name is disabled before it is moved.

## 10. What the runs found

* `voice_polling`: with more than 50 events queued the client is sent the same
  oldest ones on every poll and never the newest.
* `runtime_duplicate`: a launch that is refused because a runtime is already
  serving unlinks that runtime's endpoints in `main`'s `finally`.
* `startup_again`: a profile that was migrated once is compared with its old
  sources on every start; a renewed sign-in in `auth.json` keeps the next launch
  from starting.

Places the models follow that differ from a document and have no run:

* `execution.py:321` and `SECURITY_MODEL.md:70` ("re-check target identity immediately
  before input"): the ledger is written and the gate's lock given back between the
  check and the adapter's call;
* `ipc.py:391` and `PHASE4C_REPORT.md:242` ("owned sockets/readiness are removed by
  identity on shutdown"): an endpoint that another launch's probe unlinks between the
  shutdown's `lstat` and its `unlink` aborts that shutdown; the consent endpoint and
  the marker stay (`ShutdownRaises`; `LeavesNothing` without `~Hurt` fails);
* `voice.py:431` and `HERMES_VOICE_STRATEGY.md:19` ("Idle means Hermes' Voice loop is
  stopped and the microphone is closed"): the follow-up timer releases the lease and
  only then stops Hermes, and a backend that raises leaves the loop on
  (`TimerStopsBackend`);
* `voice.py:389` and the same line: a silent limit or stop phrase that gets the lock
  after its session was stopped and another started ends that one's lease and leaves
  its loop on (`OnSilentLimit`, `OnStopPhrase`);
* `runtime_service.py:726` and `ARCHITECTURE.md:118` ("one authoritative live readiness
  result also requires the exact Hermes pin"): the page states the pin and the policy
  as literals, so on a checkout that changed since the start it says ready while every
  request is refused;
* `voice.py:423` and `PHASE9_VOICE_HANDOFF.md:28`: a follow-up timer does not know
  its session, so that one that has fired, or that the stop phrase did not
  cancel, ends the next session;
* `voice.py:262` and `PHASE5_HERMES_AUDIT.md:51`: the queue is not cleared when a
  session ends, so its events are also delivered to the next caller;
* `automation.py:235` and `:262`, and `PHASE6_AUTHORIZATION_VALIDATION.md:35`
  ("any semantic or profile-config change requires new exact consent"): the
  configuration is read once for the binding and once more for the grant, so the
  grant may cover one nobody approved;
* `automation.py:301` and `AgentViewModel.swift:1482` ("restart runtime to clear
  it"): the stop is a row of the ledger that nothing ever clears;
* `computer_use.py:141` and `SECURITY_MODEL.md:62` ("produces `blocked` health"): a
  permission that is not granted makes the probe `UNAVAILABLE`;
* `router.py` and `MODEL_ROUTER.md:64` ("avoid retrying the same failed
  provider/model pair"): fallbacks are told apart by identifier alone; and the
  `preserve_*` fields of its policy are loaded and never consulted.

What no property speaks of, because no document promises otherwise: the TTL of a
prepared request is compared before its revalidation (`execution.py:289`); a
crash between the creation of the lock file and of the ledger leaves a profile
that is refused as having lost its ledger (`automation.py:136`); `create` fails
while the worker holds the ledger, although the job is already in Hermes' store
(`automation_management.py:265`); a late reply is spoken
in whatever session is active (`voice.py:348`); a partial transcription of an
ended session may reach the next (`voice.py:685`); a microphone test is started
after the lock under which no session was active (`voice.py:400`), where the one
socket keeps client calls apart; a torn line
makes `safe_activity` raise until it is trimmed away; and an import that dies
between the move and the lock file leaves a directory no request manages.

## 11. Proved, checked only, left out

Proved for all constants: the theorems listed in `PROJECT.json`, each with the
property it states where a run checks it.  Theorems that go further than the
runs: the inductive invariants themselves, type correctness, and `OneRunner`,
`LegalLifecycle`, `NobodyOvertaken`, `ApprovalsStay`, `LeasesOnRecord`, `ReceiptsStay`,
`OwnerIffActive` and `MicTestKeepsOut`.

| Module | Proves about | Rests on |
| --- | --- | --- |
| `ControlRuntime_proofs` | the approval store under any caller; one dispatch, one runner, legal lifecycles | the types of the store; `IInv`: custody |
| `Authority_proofs` | authorisation, tables, starts, refinement | `IInv`, `AuthorityInv`, `TablesInv` |
| `Automation_proofs` | occurrences, stop, receipts, consent to scripts, refinement | `AutomationInv`, `Consented` |
| `Voice_proofs` | lease, turns, microphone test, timers | `VoiceInv` |
| `RuntimeService_proofs` | files, crashes, reports | `IInv` of the runtime |
| `Decisions_proofs` | policy, readiness, dispatch, talk, routes | `DecisionsInv`, `Listed` |
| `Startup_proofs` | migration, own copies, credential | `MigrationInv`, `AloneInv`, `CredentialInv`, `ConsistentInv` |
| `Skills_proofs` | ledger and imports | `LedgerInv`, `SkillsInv`, `AllOnRecord` |

Only model-checked: all that is temporal under fairness (`EveryCallReturns`,
`ExecutionsEnd`, `WorkerEnds`, `AutomationCallsReturn`, `TurnsFinish`,
`StopsWhenServing`), which with `ENABLED` is outside the prover's reach.  The
properties of the runs that are violated do not hold of the code.  No
module uses a RECURSIVE operator.

Not modelled, and why:

* message framing (`ipc.py`), the rejection of ill-formed payloads (`codec.py`) and
  the text of answers: no state depends on more than that a payload is refused;
* ownership, modes and symbolic links of files: each ends the operation at once;
* loading a registry or a router policy from YAML: only the command line does;
* the arithmetic of reminder times, the Swift views and the process controller;
* `safe_activity` and the bound in bytes of the ledger: a reader, and a second
  bound that drops the same oldest lines;
* another Hermes process that rewrites the set of disabled skills, and the check
  of `HERMES_HOME`: the first is not this program's, the second is one test.
