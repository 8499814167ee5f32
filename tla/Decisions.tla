------------------------------ MODULE Decisions ------------------------------
(***************************************************************************)
(* What the control plane decides, computed: control_plane.py over the     *)
(* permission engine, the health monitor, the readiness probe and the      *)
(* router, for one request from its arrival to its dispatch, while the     *)
(* host changes at any time between two calls.                             *)
(*                                                                         *)
(* ControlRuntime has several requests, their lifecycles and the tables    *)
(* they go through, and abstracts each decision to an entry of a table;    *)
(* here there is one request, and the decision is what the code computes.  *)
(***************************************************************************)
EXTENDS Assistant, Readiness, Router

CONSTANTS Arrivals,     \* what clients may send, on which host
          MaxDrifts     \* bound: changes of the host

\* A request that arrives as such is decoded; one by way of the assistant is
\* built from a sentence.
Requests ==
    [capability : Capabilities \cup {"unknown"}, proposal : Proposals,
     agent : HealthStates,                     \* dependency_states of the agent, or "healthy"
     probe : ProbeStates \cup {"none"},        \* the outcome the client states
     degraded : BOOLEAN]                       \* allow_degraded_capability

NoRequest == [capability |-> "none"]

ASSUME LabelsAssumption == {"text", "tool-calling", "device"} \subseteq Labels

ASSUME ArrivalsAssumption ==
    \A a \in Arrivals :
        \/ /\ a.via = "direct" /\ a.request \in Requests /\ a.again \subseteq Requests
           /\ a.candidates \in Seq(CandidateType)
        \/ a.via = "assistant" /\ a.sentence \in Sentences /\ a.foreground \in Apps \cup {NoApp}

VARIABLES host, front,  \* the host, and the application in front on it
          pinned,       \* the checkout of Hermes is the pinned one
          present,      \* capabilities whose evidence is in it
          drifts,
          arrival, at, request, route, candidates,
          confirmed,    \* the user confirmed, the approval is consumed
          prepared,     \* the invocation that was prepared
          checked       \* the outcome at preparation

outside == <<host, front, pinned, present, drifts>>
inside  == <<arrival, at, request, route, candidates, confirmed, prepared, checked>>
vars    == <<outside, inside>>

Init ==
    /\ arrival \in Arrivals
    /\ host = arrival.host /\ front = arrival.front
    /\ pinned = TRUE /\ present = Capabilities /\ drifts = arrival.drifts
    /\ at = "arrived" /\ confirmed = FALSE /\ prepared = <<>> /\ checked = "none"
    /\ request = NoRequest /\ route = NativeRoute /\ candidates = <<>>

Outside == UNCHANGED outside

Go(step) == at' = step

----------------------------------------------------------------------------
\* check_policy

\* Computer use is probed by the runtime, whatever the client states.
ProbeOf(r) ==
    IF r.capability = "computer_use" THEN HealthProbe(Inspect(host)) ELSE r.probe

HealthOf(r) == DeriveState(r.capability \in present, r.agent, ProbeOf(r))

AllowedHealth(r) == {"healthy"} \cup IF r.degraded THEN {"degraded"} ELSE {}

\* "faulted" when the projection raises, "refused" when check_policy does.
Outcome(r) ==
    IF ~pinned THEN "faulted"
    ELSE IF r.capability \notin Capabilities \/ HealthOf(r) \notin AllowedHealth(r) THEN "refused"
    ELSE Evaluate(r.capability = "computer_use", Permitted[r.capability], r.proposal)

\* _prepare_route: what is bound, and the chain of models.
Invocation(r) == <<Bound(r.capability, r.proposal), RouteOf(route, candidates)>>

Routable == RouteOf(route, candidates) # <<>>

----------------------------------------------------------------------------
\* One request

\* AssistantAdmission.handle, or the decoder
Arrive ==
    /\ at = "arrived"
    /\ IF arrival.via = "direct"
       THEN /\ request' = arrival.request
            /\ route' = arrival.route /\ candidates' = arrival.candidates
            /\ Go("admitted")
       ELSE LET where == Admission(arrival.sentence) IN
            IF where = "computer"
            THEN /\ request' = [capability |-> "computer_use", agent |-> "healthy",
                                probe |-> "none", degraded |-> FALSE,
                                proposal |-> DraftProposal(arrival.sentence.command,
                                                           arrival.foreground)]
                 /\ route' = NativeRoute /\ candidates' = <<NativeCandidate>>
                 /\ Go("admitted")
            ELSE Go(where) /\ UNCHANGED <<request, route, candidates>>
    /\ Outside /\ UNCHANGED <<arrival, confirmed, prepared, checked>>

\* The check of the prepare operation.
Check ==
    /\ at = "admitted"
    /\ LET outcome == Outcome(request) IN
        Go(CASE outcome = "may_proceed" -> "checked"
             [] outcome = "requires_confirmation" -> "awaiting"
             [] outcome = "faulted" -> "failed"
             [] OTHER -> "denied")
    /\ Outside /\ UNCHANGED <<arrival, request, route, candidates, confirmed, prepared, checked>>

\* The policy is checked once more and the route prepared.  unrouted and faulted
\* are what becomes of the request when the router or the projection raises.
Prepared(outcome, unrouted, faulted) ==
    LET found == Outcome(request) IN
    IF found = outcome /\ Routable
    THEN Go("prepared") /\ prepared' = Invocation(request) /\ checked' = outcome
    ELSE /\ Go(CASE found = outcome -> unrouted [] found = "faulted" -> faulted [] OTHER -> "denied")
         /\ UNCHANGED <<prepared, checked>>

\* prepare.  Nothing catches what the projection raises: the lifecycle stays
\* approved.
Prepare ==
    /\ at = "checked" /\ Prepared("may_proceed", "failed", "approved")
    /\ Outside /\ UNCHANGED <<arrival, request, route, candidates, confirmed>>

\* prepare_confirmed, with the approval of the consent endpoint, or with one the
\* client presents, consumed for what the check was bound to.
Confirm ==
    /\ at = "awaiting" /\ confirmed' = TRUE
    /\ \/ Prepared("requires_confirmation", "denied", "denied")
       \/ Prepared("requires_confirmation", "failed", "approved")
    /\ Outside /\ UNCHANGED <<arrival, request, route, candidates>>

Reject ==
    /\ at = "awaiting" /\ Go("denied")
    /\ Outside /\ UNCHANGED <<arrival, request, route, candidates, confirmed, prepared, checked>>

\* What the client sends to be executed: the assistant sends the same, another
\* client what it likes.
Resubmitted ==
    IF arrival.via = "direct" THEN {request} \cup arrival.again ELSE {request}

\* Mutant: what was prepared is taken as it is.
RevalidateTrusting ==
    /\ at = "prepared" /\ request' \in Resubmitted
    /\ Go(IF Invocation(request') = prepared THEN "revalidated" ELSE "denied")
    /\ Outside /\ UNCHANGED <<arrival, route, candidates, confirmed, prepared, checked>>

\* revalidate_route, and the comparisons of the execution gate
Revalidate ==
    /\ at = "prepared" /\ request' \in Resubmitted
    /\ Go(IF Outcome(request') = checked /\ Routable /\ Invocation(request') = prepared
          THEN "revalidated" ELSE "denied")
    /\ Outside /\ UNCHANGED <<arrival, route, candidates, confirmed, prepared, checked>>

\* ComputerUseTargetGuard.validate
TargetValid(p) ==
    p.inner \in Mutating => /\ p.app # NoApp /\ p.resolved = p.app
                            /\ p.foreground # NoApp /\ front = p.foreground

\* The gate's last look, at the application in front; the request is then
\* executing, and the gate's lock is given back.
Start ==
    /\ at = "revalidated"
    /\ Go(IF request.capability = "computer_use" /\ ~TargetValid(request.proposal)
          THEN "denied" ELSE "executing")
    /\ Outside /\ UNCHANGED <<arrival, request, route, candidates, confirmed, prepared, checked>>

\* HermesExecutionAdapter._translate: the tool is one of the toolset the
\* capability is the entry point of; the MCP client is not a toolset.
Translatable(action) ==
    action.capability # "mcp" /\ (action.tool = "computer_use" <=> action.capability = "computer_use")

\* The adapter is given what was prepared, not what was sent again.
Dispatch ==
    /\ at = "executing"
    /\ Go(IF Translatable(prepared[1]) THEN "dispatched" ELSE "denied")
    /\ Outside /\ UNCHANGED <<arrival, request, route, candidates, confirmed, prepared, checked>>

----------------------------------------------------------------------------
\* The host

\* One answer of one command changes.
HostChanges ==
    \/ \E s \in {"fails", "nothing", "binary"} : host' = [host EXCEPT !.resolver = s]
    \/ \E s \in {"absent", "foreign", "invalid", "unverified", "other_team", "signed"} :
           host' = [host EXCEPT !.app = s]
    \/ \E s \in {"fails", "old", "silent", "partial", "current"} :
           host' = [host EXCEPT !.manifest = s]
    \/ \E s \in BOOLEAN : host' = [host EXCEPT !.answers = s]
    \/ \E s \in RawGrants : \/ host' = [host EXCEPT !.accessibility = s]
                            \/ host' = [host EXCEPT !.screen = s]
    \/ \E s \in BOOLEAN : host' = [host EXCEPT !.capturable = s]

Drift ==
    /\ drifts < MaxDrifts /\ drifts' = drifts + 1
    /\ \/ HostChanges /\ host' # host /\ UNCHANGED <<front, pinned, present>>
       \/ front' \in (Apps \cup {NoApp}) \ {front} /\ UNCHANGED <<host, pinned, present>>
       \/ pinned' = ~pinned /\ UNCHANGED <<host, front, present>>
       \/ present' = present \ {request.capability} /\ present' # present
          /\ UNCHANGED <<host, front, pinned>>
    /\ UNCHANGED inside

Next == Arrive \/ Check \/ Prepare \/ Confirm \/ Reject \/ Revalidate \/ Start \/ Dispatch
        \/ Drift

Spec == Init /\ [][Next]_vars

----------------------------------------------------------------------------
\* Properties

\* How far a request gets.
Reach(r) ==
    LET outcome == Outcome(r)
    IN  CASE outcome = "may_proceed" -> 2 [] outcome = "requires_confirmation" -> 1 [] OTHER -> 0

\* The requests that own to one more risk, or to worse health.
Riskier(r) ==
    {[r EXCEPT !.proposal.declared = @ \cup {f}] : f \in Flags}
    \cup {[r EXCEPT !.proposal.hints = @ \cup {c}] :
              c \in {c \in Classes : r.proposal.hints \cup r.proposal.scopes # {}}}
    \cup {[r EXCEPT !.probe = s] : s \in {s \in ProbeStates : r.probe = "none"}}
    \cup {[r EXCEPT !.agent = s] : s \in {s \in HealthStates : r.agent = "healthy"}}

\* "When classes overlap, apply the maximum confirmation", and "Client-supplied
\* health cannot replace the runtime-owned probe": whatever risk a client adds
\* to its request, and whatever health it claims, the request gets no further.
\* (A hint added to a proposal with neither scopes nor hints is left out: it
\* makes a proposal the engine refuses as empty one that it judges.)
RiskNeverRelaxes ==
    request # NoRequest => \A r \in Riskier(request) : Reach(r) <= Reach(request)

\* "Never silently cross a local-only or data-residency boundary": the chain of
\* models is the same in whatever order the candidates come, it is bounded,
\* each of them meets every constraint of the request, and no fallback of a
\* local choice leaves the device.
RouteWithinPolicy ==
    LET chain == RouteOf(route, candidates)
        Shuffled(f) == [i \in DOMAIN candidates |-> candidates[f[i]]]
    IN  /\ \A f \in {g \in [DOMAIN candidates -> DOMAIN candidates] :
                        \A i, j \in DOMAIN candidates : g[i] = g[j] => i = j} :
               RouteOf(route, Shuffled(f)) = chain
        /\ chain # <<>> =>
               /\ Len(chain) <= Policy.max_attempts
               /\ \A i \in DOMAIN chain :
                      /\ ~Rejected(route, chain[i])
                      /\ chain[1].local /\ ~Policy.allow_silent_cloud_escalation =>
                             chain[i].local

\* The action the adapter is given is an input to an application.
Input(action) == action.capability = "computer_use" /\ action.inner \in Mutating

\* The host may drift between any two steps, and the client may send other than
\* what was prepared.  Still a computer-use request is revalidated only on a host
\* that is ready; what is prepared starts, if it is an input, only when the gate
\* found in front the application the user saw when it was confirmed; and what
\* the adapter is given captures or controls only if the user confirmed it, and
\* controls one application, the one that was resolved.
DispatchesAsConfirmed ==
    [][/\ at' = "revalidated" /\ at # at' /\ request'.capability = "computer_use" =>
              Ready(Inspect(host))
       /\ at' = "executing" /\ at # at' /\ Input(prepared[1]) =>
              front = prepared[1].foreground /\ front # NoApp
       /\ at' = "dispatched" /\ at # at' =>
              /\ prepared[1].scopes \cap SensitiveScopes # {} => confirmed
              /\ Input(prepared[1]) =>
                     /\ confirmed /\ prepared[1].tool = "computer_use"
                     /\ prepared[1].app # NoApp /\ prepared[1].app = prepared[1].resolved]_vars

\* "Voice action-like input does not fall through to conversation": a sentence
\* that asks for an action never reaches the conversation, where Hermes would
\* answer it; of those that reach the computer without a question only the
\* listings do.
TalkIsOnlyTalk ==
    arrival.via = "assistant" =>
        /\ at = "conversation" =>
              ~(arrival.sentence.action \/ arrival.sentence.term \/ arrival.sentence.remind
                \/ arrival.sentence.schedule \/ arrival.sentence.command # "none")
        /\ at = "dispatched" /\ ~confirmed => request.proposal.inner \in Listing

=============================================================================
