--------------------------- MODULE Decisions_proofs ---------------------------
(***************************************************************************)
(* What the control plane decides, for every set of requests, sentences    *)
(* and hosts, every policy of the router and any number of changes.        *)
(***************************************************************************)
EXTENDS Decisions, FiniteSetTheorems, TLAPS

USE AppsAssumption, ReadinessAssumption

----------------------------------------------------------------------------
\* The permission engine

\* One more flag that is not at its default never removes a denial or the need
\* for a confirmation.
LEMMA FlagHolds ==
    ASSUME NEW p, NEW q, NEW f \in Flags, q.declared = p.declared \cup {f}, NEW g \in Flags
    PROVE  Holds(q, g) = IF g = f \/ g \in p.declared THEN ~FlagDefault[g] ELSE FlagDefault[g]
  BY DEF Holds

Worse(p, q) ==
    /\ q.tool = p.tool /\ q.inner = p.inner /\ q.app = p.app /\ q.resolved = p.resolved
    /\ q.foreground = p.foreground /\ q.scopes = p.scopes
    /\ p.hints \subseteq q.hints
    /\ p.scopes = {} /\ p.hints = {} => q.hints = {}
    /\ \A g \in {"ambiguous", "sensitive_scope", "remote_disclosure", "unattended",
                 "upstream_denied"} : Holds(p, g) => Holds(q, g)
    /\ \A g \in {"target_within_workspace", "reversible", "approval_surface_available"} :
           Holds(q, g) => Holds(p, g)

LEMMA WorseDenied ==
    ASSUME NEW p, NEW q, Worse(p, q), NEW computerUse, NEW permitted,
           Denied(computerUse, permitted, p)
    PROVE  Denied(computerUse, permitted, q)
  <1>1. ClassesOf(p) \subseteq ClassesOf(q)
    BY DEF Worse, ClassesOf, Declared
  <1>2. ComputerUseDenied(p) => ComputerUseDenied(q)
    BY DEF Worse, ComputerUseDenied
  <1>3. Holds(p, "unattended") => Holds(q, "unattended")
    BY DEF Worse
  <1>4. Holds(p, "upstream_denied") => Holds(q, "upstream_denied")
    BY DEF Worse
  <1>5. q.scopes = p.scopes /\ (p.scopes = {} /\ p.hints = {} => q.hints = {})
    BY DEF Worse
  <1> QED
    BY <1>1, <1>2, <1>3, <1>4, <1>5 DEF Denied

LEMMA WorseNeedsConfirmation ==
    ASSUME NEW p, NEW q, Worse(p, q), NeedsConfirmation(p)
    PROVE  NeedsConfirmation(q)
  <1>1. ClassesOf(p) \subseteq ClassesOf(q)
    BY DEF Worse, ClassesOf, Declared
  <1>2. /\ Holds(p, "sensitive_scope") => Holds(q, "sensitive_scope")
        /\ Holds(p, "remote_disclosure") => Holds(q, "remote_disclosure")
        /\ Holds(p, "ambiguous") => Holds(q, "ambiguous")
        /\ Holds(q, "target_within_workspace") => Holds(p, "target_within_workspace")
        /\ Holds(q, "reversible") => Holds(p, "reversible")
        /\ q.scopes = p.scopes
    BY DEF Worse
  <1> QED
    BY <1>1, <1>2 DEF NeedsConfirmation

\* The order of the outcomes.
Rank(outcome) ==
    CASE outcome = "may_proceed" -> 2 [] outcome = "requires_confirmation" -> 1 [] OTHER -> 0

LEMMA WorseEvaluates ==
    ASSUME NEW p, NEW q, Worse(p, q), NEW computerUse, NEW permitted
    PROVE  Rank(Evaluate(computerUse, permitted, q)) <= Rank(Evaluate(computerUse, permitted, p))
  <1>1. Denied(computerUse, permitted, p) => Denied(computerUse, permitted, q)
    BY WorseDenied
  <1>2. NeedsConfirmation(p) => NeedsConfirmation(q)
    BY WorseNeedsConfirmation
  <1>3. Holds(q, "approval_surface_available") => Holds(p, "approval_surface_available")
    BY DEF Worse
  <1>4. \/ Evaluate(computerUse, permitted, q) = "must_be_denied"
        \/ /\ Evaluate(computerUse, permitted, q) = "requires_confirmation"
           /\ Evaluate(computerUse, permitted, p) \in {"requires_confirmation", "may_proceed"}
        \/ /\ Evaluate(computerUse, permitted, q) = "may_proceed"
           /\ Evaluate(computerUse, permitted, p) = "may_proceed"
    BY <1>1, <1>2, <1>3 DEF Evaluate
  <1>5. Evaluate(computerUse, permitted, p) \in
            {"must_be_denied", "requires_confirmation", "may_proceed"}
    BY DEF Evaluate
  <1> HIDE DEF Evaluate
  <1> QED
    BY <1>4, <1>5 DEF Rank

----------------------------------------------------------------------------
\* One more risk, or a claim about health

LEMMA ReachIsRank == \A r : Reach(r) = Rank(Outcome(r))
  BY DEF Reach, Rank

LEMMA RanksOfOutcomes ==
    ASSUME NEW r
    PROVE  Outcome(r) \in {"faulted", "refused", "must_be_denied", "requires_confirmation",
                           "may_proceed"}
  BY DEF Outcome, Evaluate

\* A flag or a hint more makes a proposal worse.
LEMMA RiskierProposals ==
    ASSUME NEW p \in Proposals
    PROVE  /\ \A f \in Flags : Worse(p, [p EXCEPT !.declared = p.declared \cup {f}])
           /\ p.hints \cup p.scopes # {} =>
                  \A c \in Classes : Worse(p, [p EXCEPT !.hints = p.hints \cup {c}])
  <1>1. ASSUME NEW f \in Flags
        PROVE  Worse(p, [p EXCEPT !.declared = p.declared \cup {f}])
    <2> DEFINE q == [p EXCEPT !.declared = p.declared \cup {f}]
    <2>1. /\ q.tool = p.tool /\ q.inner = p.inner /\ q.app = p.app /\ q.resolved = p.resolved
          /\ q.foreground = p.foreground /\ q.scopes = p.scopes /\ q.hints = p.hints
          /\ q.declared = p.declared \cup {f}
      BY DEF Proposals
    <2> HIDE DEF q
    <2>2. Flags = {"target_within_workspace", "reversible", "ambiguous", "sensitive_scope",
                   "remote_disclosure", "unattended", "approval_surface_available",
                   "upstream_denied"}
      BY DEF Flags, FlagDefault
    <2>3. \A g \in Flags : Holds(p, g) = IF g \in p.declared THEN ~FlagDefault[g] ELSE FlagDefault[g]
      BY DEF Holds
    <2>4. \A g \in Flags :
              Holds(q, g) = IF g = f \/ g \in p.declared THEN ~FlagDefault[g] ELSE FlagDefault[g]
      BY <2>1, FlagHolds
    <2>5. /\ \A g \in {"ambiguous", "sensitive_scope", "remote_disclosure", "unattended",
                       "upstream_denied"} : FlagDefault[g] = FALSE
          /\ \A g \in {"target_within_workspace", "reversible", "approval_surface_available"} :
                 FlagDefault[g] = TRUE
      BY DEF FlagDefault
    <2>6. \A g \in {"ambiguous", "sensitive_scope", "remote_disclosure", "unattended",
                    "upstream_denied"} : Holds(p, g) => Holds(q, g)
      BY <2>2, <2>3, <2>4, <2>5
    <2>7. \A g \in {"target_within_workspace", "reversible", "approval_surface_available"} :
              Holds(q, g) => Holds(p, g)
      BY <2>2, <2>3, <2>4, <2>5
    <2> QED
      BY <2>1, <2>6, <2>7 DEF Worse, q
  <1>2. ASSUME NEW c \in Classes, p.hints \cup p.scopes # {}
        PROVE  Worse(p, [p EXCEPT !.hints = p.hints \cup {c}])
    <2> DEFINE q == [p EXCEPT !.hints = p.hints \cup {c}]
    <2>1. /\ q.tool = p.tool /\ q.inner = p.inner /\ q.app = p.app /\ q.resolved = p.resolved
          /\ q.foreground = p.foreground /\ q.scopes = p.scopes /\ q.hints = p.hints \cup {c}
          /\ q.declared = p.declared
      BY DEF Proposals
    <2> HIDE DEF q
    <2>2. \A g : Holds(q, g) <=> Holds(p, g)
      BY <2>1 DEF Holds
    <2> QED
      BY <1>2, <2>1, <2>2 DEF Worse, q
  <1> QED
    BY <1>1, <1>2

\* A request that differs in its proposal alone.
LEMMA WorseReaches ==
    ASSUME NEW r, NEW s, s.capability = r.capability, s.agent = r.agent, s.probe = r.probe,
           s.degraded = r.degraded, Worse(r.proposal, s.proposal)
    PROVE  Reach(s) <= Reach(r)
  <1> DEFINE cu == r.capability = "computer_use"
             permitted == Permitted[r.capability]
  <1>1. HealthOf(s) = HealthOf(r) /\ AllowedHealth(s) = AllowedHealth(r)
    BY DEF HealthOf, ProbeOf, AllowedHealth
  <1>2. Rank(Evaluate(cu, permitted, s.proposal)) <= Rank(Evaluate(cu, permitted, r.proposal))
    BY WorseEvaluates
  <1>3. \/ Outcome(s) = "faulted" \/ Outcome(s) = "refused"
        \/ Outcome(s) = Evaluate(cu, permitted, s.proposal)
           /\ Outcome(r) = Evaluate(cu, permitted, r.proposal)
    BY <1>1 DEF Outcome
  <1>4. Rank("faulted") = 0 /\ Rank("refused") = 0
    BY DEF Rank
  <1>5. Rank(Outcome(r)) \in {0, 1, 2}
    BY DEF Rank
  <1> QED
    BY <1>2, <1>3, <1>4, <1>5, ReachIsRank

\* A request that differs in what it claims about health.
LEMMA ClaimsReach ==
    ASSUME NEW r, NEW s, s.capability = r.capability, s.proposal = r.proposal,
           s.degraded = r.degraded,
           HealthOf(s) \in AllowedHealth(s) => HealthOf(r) \in AllowedHealth(r)
    PROVE  Reach(s) <= Reach(r)
  <1>1. \/ Outcome(s) = "faulted" \/ Outcome(s) = "refused" \/ Outcome(s) = Outcome(r)
    BY DEF Outcome
  <1>2. Rank("faulted") = 0 /\ Rank("refused") = 0
    BY DEF Rank
  <1>3. Rank(Outcome(r)) \in {0, 1, 2}
    BY DEF Rank
  <1> QED
    BY <1>1, <1>2, <1>3, ReachIsRank

\* A stated outcome of a probe is never taken for better than none, a state of
\* the agent never for better than "healthy".
LEMMA ProbesDoNotHeal ==
    ASSUME NEW available, NEW d, NEW p \in ProbeStates
    PROVE  /\ DeriveState(available, d, p) = "healthy" => DeriveState(available, d, "none") = "healthy"
           /\ DeriveState(available, d, p) = "degraded" =>
                  DeriveState(available, d, "none") \in {"healthy", "degraded"}
  BY DEF DeriveState, HardFailures, ProbeStates, HealthStates

LEMMA AgentsDoNotHeal ==
    ASSUME NEW available, NEW p, NEW h \in HealthStates
    PROVE  /\ DeriveState(available, h, p) = "healthy" =>
                  DeriveState(available, "healthy", p) = "healthy"
           /\ DeriveState(available, h, p) = "degraded" =>
                  DeriveState(available, "healthy", p) \in {"healthy", "degraded"}
  BY DEF DeriveState, HardFailures, HealthStates

LEMMA RiskierReaches ==
    ASSUME NEW r \in Requests, NEW s \in Riskier(r)
    PROVE  Reach(s) <= Reach(r)
  <1>1. /\ r = [capability |-> r.capability, proposal |-> r.proposal, agent |-> r.agent,
                probe |-> r.probe, degraded |-> r.degraded]
        /\ r.proposal \in Proposals
    BY DEF Requests
  <1>2. ASSUME NEW f \in Flags, s = [r EXCEPT !.proposal.declared = @ \cup {f}]
        PROVE  Reach(s) <= Reach(r)
    <2>1. /\ s.capability = r.capability /\ s.agent = r.agent /\ s.probe = r.probe
          /\ s.degraded = r.degraded
          /\ s.proposal = [r.proposal EXCEPT !.declared = r.proposal.declared \cup {f}]
      BY <1>1, <1>2
    <2>2. Worse(r.proposal, s.proposal)
      BY <1>1, <2>1, RiskierProposals
    <2> QED
      BY <2>1, <2>2, WorseReaches
  <1>3. ASSUME NEW c \in Classes, r.proposal.hints \cup r.proposal.scopes # {},
               s = [r EXCEPT !.proposal.hints = @ \cup {c}]
        PROVE  Reach(s) <= Reach(r)
    <2>1. /\ s.capability = r.capability /\ s.agent = r.agent /\ s.probe = r.probe
          /\ s.degraded = r.degraded
          /\ s.proposal = [r.proposal EXCEPT !.hints = r.proposal.hints \cup {c}]
      BY <1>1, <1>3
    <2>2. Worse(r.proposal, s.proposal)
      BY <1>1, <1>3, <2>1, RiskierProposals
    <2> QED
      BY <2>1, <2>2, WorseReaches
  <1>4. ASSUME NEW p \in ProbeStates, r.probe = "none", s = [r EXCEPT !.probe = p]
        PROVE  Reach(s) <= Reach(r)
    <2>1. /\ s.capability = r.capability /\ s.agent = r.agent /\ s.probe = p
          /\ s.degraded = r.degraded /\ s.proposal = r.proposal
      BY <1>1, <1>4
    <2>2. AllowedHealth(s) = AllowedHealth(r)
      BY <2>1 DEF AllowedHealth
    <2>3. \/ ProbeOf(s) = ProbeOf(r)
          \/ ProbeOf(s) = p /\ ProbeOf(r) = "none"
      BY <1>4, <2>1 DEF ProbeOf
    <2>4. HealthOf(s) \in AllowedHealth(s) => HealthOf(r) \in AllowedHealth(r)
      <3> DEFINE a == r.capability \in present
      <3>1. HealthOf(s) = DeriveState(a, r.agent, ProbeOf(s))
            /\ HealthOf(r) = DeriveState(a, r.agent, ProbeOf(r))
        BY <2>1 DEF HealthOf
      <3> HIDE DEF a
      <3>2. \/ HealthOf(s) = HealthOf(r)
            \/ /\ HealthOf(s) = "healthy" => HealthOf(r) = "healthy"
               /\ HealthOf(s) = "degraded" => HealthOf(r) \in {"healthy", "degraded"}
        BY <2>3, <3>1, ProbesDoNotHeal
      <3> QED
        BY <2>2, <3>2 DEF AllowedHealth
    <2> QED
      BY <2>1, <2>4, ClaimsReach
  <1>5. ASSUME NEW h \in HealthStates, r.agent = "healthy", s = [r EXCEPT !.agent = h]
        PROVE  Reach(s) <= Reach(r)
    <2>1. /\ s.capability = r.capability /\ s.agent = h /\ s.probe = r.probe
          /\ s.degraded = r.degraded /\ s.proposal = r.proposal
      BY <1>1, <1>5
    <2>2. AllowedHealth(s) = AllowedHealth(r) /\ ProbeOf(s) = ProbeOf(r)
      BY <2>1 DEF AllowedHealth, ProbeOf
    <2>3. HealthOf(s) \in AllowedHealth(s) => HealthOf(r) \in AllowedHealth(r)
      <3> DEFINE a == r.capability \in present
      <3>1. HealthOf(s) = DeriveState(a, h, ProbeOf(r))
            /\ HealthOf(r) = DeriveState(a, "healthy", ProbeOf(r))
        BY <1>5, <2>1, <2>2 DEF HealthOf
      <3> HIDE DEF a
      <3>2. /\ HealthOf(s) = "healthy" => HealthOf(r) = "healthy"
            /\ HealthOf(s) = "degraded" => HealthOf(r) \in {"healthy", "degraded"}
        BY <3>1, AgentsDoNotHeal
      <3> QED
        BY <2>2, <3>2 DEF AllowedHealth
    <2> QED
      BY <2>1, <2>3, ClaimsReach
  <1> QED
    BY <1>2, <1>3, <1>4, <1>5 DEF Riskier

----------------------------------------------------------------------------
\* The host

\* The driver's probe has four outcomes, and is healthy when the host is ready.
LEMMA ProbeTellsReady ==
    ASSUME NEW h
    PROVE  /\ HealthProbe(Inspect(h)) \in {"disabled", "unavailable", "misconfigured", "healthy"}
           /\ HealthProbe(Inspect(h)) = "healthy" <=> Ready(Inspect(h))
  <1> DEFINE r == Inspect(h)
  <1> HIDE DEF r
  <1>1. HealthProbe(r) \in {"disabled", "unavailable", "misconfigured", "healthy"}
    BY DEF HealthProbe
  <1>2. HealthProbe(r) = "healthy" => Ready(r)
    BY DEF HealthProbe, Ready
  <1>3. Ready(r) => HealthProbe(r) = "healthy"
    BY DEF HealthProbe, Ready
  <1> QED
    BY <1>1, <1>2, <1>3 DEF r

\* What an outcome that lets a computer-use request through says of the host.
LEMMA LetThroughIsReady ==
    ASSUME NEW r, r.capability = "computer_use",
           Outcome(r) \in {"may_proceed", "requires_confirmation"}
    PROVE  Ready(Inspect(host))
  <1>1. HealthOf(r) \in {"healthy", "degraded"}
    BY DEF Outcome, AllowedHealth
  <1>2. HealthOf(r) = DeriveState(r.capability \in present, r.agent, HealthProbe(Inspect(host)))
    BY DEF HealthOf, ProbeOf
  <1>3. HealthProbe(Inspect(host)) \notin {"disabled", "misconfigured", "unavailable"}
    BY <1>1, <1>2 DEF DeriveState
  <1> QED
    BY <1>3, ProbeTellsReady

----------------------------------------------------------------------------
\* One request

Decided == {"may_proceed", "requires_confirmation"}

\* What the policy says of a proposal, wherever the host stands.
Judged(r) == Evaluate(r.capability = "computer_use", Permitted[r.capability], r.proposal)

\* A request the assistant built.
Drafted(r) == r.proposal.inner \in Commands /\ r.proposal.scopes = {RequiredScope(r.proposal.inner)}

Revalidated == {"revalidated", "executing", "dispatched"}

DecisionsInv ==
    /\ arrival \in Arrivals
    /\ request = NoRequest \/ request \in Requests
    /\ at \in {"admitted", "checked", "awaiting", "prepared"} \cup Revalidated =>
           request \in Requests
    /\ at \in {"prepared"} \cup Revalidated =>
           checked \in Decided /\ (checked = "requires_confirmation" => confirmed)
    /\ at \in Revalidated =>
           Judged(request) = checked /\ prepared[1] = Bound(request.capability, request.proposal)
    /\ arrival.via = "assistant" /\ request # NoRequest => Drafted(request)
    /\ at = "conversation" =>
           arrival.via = "assistant" /\ Admission(arrival.sentence) = "conversation"

LEMMA OutcomeJudges ==
    ASSUME NEW r, Outcome(r) \in Decided
    PROVE  Judged(r) = Outcome(r)
  BY DEF Outcome, Decided, Judged

LEMMA DraftsAreRequests ==
    ASSUME NEW c \in Commands, NEW f \in Apps \cup {NoApp}
    PROVE  LET r == [capability |-> "computer_use", agent |-> "healthy", probe |-> "none",
                     degraded |-> FALSE, proposal |-> DraftProposal(c, f)]
           IN  r \in Requests /\ Drafted(r)
  <1> DEFINE p == DraftProposal(c, f)
             r == [capability |-> "computer_use", agent |-> "healthy", probe |-> "none",
                   degraded |-> FALSE, proposal |-> p]
  <1>1. RequiredScope(c) \in Scopes /\ c \in InnerActions
    BY DEF Commands, RequiredScope, Scopes, Listing, Capturing, Mutating, InnerActions
  <1>2. /\ p.inner = c /\ p.scopes = {RequiredScope(c)}
        /\ p = [tool |-> "computer_use", inner |-> c, app |-> NoApp,
                resolved |-> IF c = "list_apps" THEN NoApp ELSE f,
                foreground |-> f, scopes |-> {RequiredScope(c)}, hints |-> {}, declared |-> {}]
    BY DEF DraftProposal, DraftScopes
  <1>3. p \in Proposals
    BY <1>1, <1>2 DEF Proposals
  <1> HIDE DEF p
  <1>4. "computer_use" \in Capabilities /\ "healthy" \in HealthStates
    BY DEF Capabilities, Permitted, HealthStates
  <1>5. r \in Requests
    BY <1>3, <1>4 DEF Requests
  <1>6. Drafted(r)
    BY <1>2 DEF Drafted
  <1> QED
    BY <1>5, <1>6 DEF p

LEMMA DecisionsInitially == Init => DecisionsInv
  BY DEF Init, DecisionsInv, Revalidated

LEMMA ArriveKeeps == DecisionsInv /\ Arrive => DecisionsInv'
  <1> SUFFICES ASSUME DecisionsInv, Arrive PROVE DecisionsInv'
    OBVIOUS
  <1>1. arrival \in Arrivals /\ arrival' = arrival /\ at = "arrived"
    BY DEF DecisionsInv, Revalidated, Arrive
  <1>2. CASE arrival.via = "direct"
    <2>1. request' = arrival.request /\ at' = "admitted"
      BY <1>2 DEF Arrive, Go
    <2>2. arrival.request \in Requests
      BY <1>1, <1>2, ArrivalsAssumption
    <2> QED
      BY <1>1, <1>2, <2>1, <2>2 DEF DecisionsInv, Revalidated
  <1>3. CASE arrival.via # "direct"
    <2> DEFINE where == Admission(arrival.sentence)
               r == [capability |-> "computer_use", agent |-> "healthy", probe |-> "none",
                     degraded |-> FALSE,
                     proposal |-> DraftProposal(arrival.sentence.command, arrival.foreground)]
    <2>1. /\ arrival.via = "assistant" /\ arrival.sentence \in Sentences
          /\ arrival.foreground \in Apps \cup {NoApp}
      BY <1>1, <1>3, ArrivalsAssumption
    <2>2. where \in {"malformed", "reminder", "clarify", "computer", "conversation"}
          /\ (where = "computer" => arrival.sentence.command # "none")
      BY DEF Admission
    <2>3. CASE where = "computer"
      <3>1. request' = r /\ at' = "admitted"
        BY <1>3, <2>3 DEF Arrive, Go
      <3>2. arrival.sentence.command \in Commands
        BY <2>1, <2>2, <2>3 DEF Sentences
      <3>3. r \in Requests /\ Drafted(r)
        BY <2>1, <3>2, DraftsAreRequests
      <3> HIDE DEF r
      <3> QED
        BY <1>1, <3>1, <3>3 DEF DecisionsInv, Revalidated
    <2>4. CASE where # "computer"
      <3>1. request' = request /\ at' = where
        BY <1>3, <2>4 DEF Arrive, Go
      <3> HIDE DEF where
      <3>2. request' = NoRequest \/ request' \in Requests
        BY <3>1 DEF DecisionsInv, Revalidated
      <3>3. at' = "conversation" => Admission(arrival'.sentence) = "conversation"
        BY <1>1, <3>1 DEF where
      <3>4. arrival'.via = "assistant" /\ request' # NoRequest => Drafted(request')
        BY <1>1, <3>1 DEF DecisionsInv, Revalidated
      <3> QED
        BY <1>1, <2>1, <2>2, <2>4, <3>1, <3>2, <3>3, <3>4 DEF DecisionsInv, Revalidated
    <2> QED
      BY <2>3, <2>4
  <1> QED
    BY <1>2, <1>3

\* The steps from the check to the preparation leave the request as it is.
LEMMA PreparationKeeps ==
    ASSUME DecisionsInv, UNCHANGED <<arrival, request>>,
           at \in {"admitted", "checked", "awaiting"},
           \/ at' \in {"checked", "awaiting", "failed", "denied", "approved"}
           \/ /\ at' = "prepared" /\ checked' \in Decided
              /\ checked' = "requires_confirmation" => confirmed'
    PROVE  DecisionsInv'
  BY DEF DecisionsInv, Revalidated

LEMMA PreparedEnds ==
    ASSUME NEW outcome, NEW unrouted \in {"failed", "denied"},
           NEW faulted \in {"approved", "denied"}, Prepared(outcome, unrouted, faulted)
    PROVE  at' \in {"failed", "denied", "approved"} \/ (at' = "prepared" /\ checked' = outcome)
  <1>1. CASE Outcome(request) = outcome /\ Routable
    BY <1>1 DEF Prepared, Go
  <1>2. CASE ~(Outcome(request) = outcome /\ Routable)
    BY <1>2 DEF Prepared, Go
  <1> QED
    BY <1>1, <1>2

\* Where the two preparations lead.
LEMMA PreparesTo ==
    /\ Prepare => /\ UNCHANGED <<arrival, request, confirmed>> /\ at = "checked"
                  /\ \/ at' \in {"failed", "denied", "approved"}
                     \/ at' = "prepared" /\ checked' = "may_proceed"
    /\ Confirm => /\ UNCHANGED <<arrival, request>> /\ at = "awaiting" /\ confirmed'
                  /\ \/ at' \in {"failed", "denied", "approved"}
                     \/ at' = "prepared" /\ checked' = "requires_confirmation"
  BY PreparedEnds DEF Prepare, Confirm

LEMMA RevalidateKeeps == DecisionsInv /\ Revalidate => DecisionsInv'
  <1> SUFFICES ASSUME DecisionsInv, Revalidate PROVE DecisionsInv'
    OBVIOUS
  <1>1. /\ UNCHANGED <<arrival, confirmed, prepared, checked>> /\ at = "prepared"
        /\ request' \in Resubmitted
        /\ \/ at' = "denied"
           \/ /\ at' = "revalidated" /\ Outcome(request') = checked
              /\ Invocation(request') = prepared
    BY DEF Revalidate, Go
  <1>2. request \in Requests /\ arrival \in Arrivals /\ checked \in Decided
        /\ (checked = "requires_confirmation" => confirmed)
    BY <1>1 DEF DecisionsInv
  <1>3. request' \in Requests
    BY <1>1, <1>2, ArrivalsAssumption DEF Resubmitted
  <1>4. arrival.via = "assistant" => request' = request
    BY <1>1 DEF Resubmitted
  <1>5. arrival'.via = "assistant" /\ request' # NoRequest => Drafted(request')
    BY <1>1, <1>4 DEF DecisionsInv
  <1>6. at' = "revalidated" =>
            Judged(request') = checked /\ prepared[1] = Bound(request'.capability, request'.proposal)
    BY <1>1, <1>2, OutcomeJudges DEF Invocation
  <1> QED
    BY <1>1, <1>2, <1>3, <1>5, <1>6 DEF DecisionsInv, Revalidated

LEMMA DecisionsStep == DecisionsInv /\ [Next]_vars => DecisionsInv'
  <1> SUFFICES ASSUME DecisionsInv, [Next]_vars PROVE DecisionsInv'
    OBVIOUS
  <1>1. CASE Check
    <2>1. /\ UNCHANGED <<arrival, request>> /\ at = "admitted"
          /\ at' \in {"checked", "awaiting", "failed", "denied"}
      BY <1>1 DEF Check, Go
    <2> QED
      BY <2>1, PreparationKeeps
  <1>2. CASE Prepare
    BY <1>2, PreparesTo, PreparationKeeps DEF Decided
  <1>3. CASE Confirm
    BY <1>3, PreparesTo, PreparationKeeps DEF Decided
  <1>4. CASE Reject
    BY <1>4, PreparationKeeps DEF Reject, Go
  <1>5. CASE Start \/ Dispatch
    <2>1. /\ UNCHANGED <<arrival, request, confirmed, prepared, checked>>
          /\ at \in {"revalidated", "executing"} /\ at' \in {"denied", "executing", "dispatched"}
      BY <1>5 DEF Start, Dispatch, Go
    <2> QED
      BY <2>1 DEF DecisionsInv, Revalidated, Judged
  <1>6. CASE UNCHANGED inside
    BY <1>6 DEF inside, DecisionsInv, Judged
  <1> QED
    BY <1>1, <1>2, <1>3, <1>4, <1>5, <1>6, ArriveKeeps, RevalidateKeeps DEF Next, Drift, vars

----------------------------------------------------------------------------
\* The router: the order of the candidates

Scores == [1..7 -> Int]

LEMMA ScoreType ==
    ASSUME NEW r, NEW c \in CandidateType
    PROVE  Score(r, c) \in Scores /\ Score(r, c)[7] = c.id
  <1> DEFINE profile == Profile(r, c)
  <1>1. HealthPenalty(c) \in Int
    BY DEF HealthPenalty
  <1>2. /\ c.id \in Int /\ c.provider \in Int /\ c.model \in Int /\ c.cost \in Int
        /\ c.latency \in Int /\ c.quality \in Int /\ c.reliability \in Int /\ c.context \in Int
    BY DEF CandidateType
  <1>3. profile[1] \in Int /\ profile[2] \in Int /\ profile[3] \in Int
    <2>1. CASE r.category = "simple"
      BY <1>2, <2>1 DEF Profile
    <2>2. CASE r.category = "coding"
      BY <1>2, <2>2 DEF Profile
    <2>3. CASE r.category = "vision"
      BY <1>2, <2>3 DEF Profile
    <2>4. CASE r.category \notin {"simple", "coding", "vision"}
      BY <1>2, <2>4 DEF Profile
    <2> QED
      BY <2>1, <2>2, <2>3, <2>4
  <1> HIDE DEF profile
  <1>4. Score(r, c) = <<HealthPenalty(c), profile[1], profile[2], profile[3],
                        c.provider, c.model, c.id>>
    BY DEF Score, profile
  <1> QED
    BY <1>1, <1>2, <1>3, <1>4 DEF Scores

\* Scores are compared as Python compares tuples: a strict total order.
LEMMA LessIrreflexive ==
    ASSUME NEW a \in Scores
    PROVE  ~Less(a, a)
  BY DEF Less, Scores

LEMMA LessTransitive ==
    ASSUME NEW a \in Scores, NEW b \in Scores, NEW c \in Scores, Less(a, b), Less(b, c)
    PROVE  Less(a, c)
  <1>1. PICK i \in 1..7 : a[i] < b[i] /\ \A k \in 1..(i - 1) : a[k] = b[k]
    BY DEF Less, Scores
  <1>2. PICK j \in 1..7 : b[j] < c[j] /\ \A k \in 1..(j - 1) : b[k] = c[k]
    BY DEF Less, Scores
  <1>3. \A k \in 1..7 : a[k] \in Int /\ b[k] \in Int /\ c[k] \in Int
    BY DEF Scores
  <1>4. CASE i <= j
    <2>1. a[i] < c[i]
      BY <1>1, <1>2, <1>3, <1>4
    <2>2. \A k \in 1..(i - 1) : a[k] = c[k]
      BY <1>1, <1>2, <1>4
    <2> QED
      BY <2>1, <2>2 DEF Less, Scores
  <1>5. CASE j < i
    <2>1. a[j] < c[j]
      BY <1>1, <1>2, <1>3, <1>5
    <2>2. \A k \in 1..(j - 1) : a[k] = c[k]
      BY <1>1, <1>2, <1>5
    <2> QED
      BY <2>1, <2>2 DEF Less, Scores
  <1> QED
    BY <1>4, <1>5

LEMMA LessTotal ==
    ASSUME NEW a \in Scores, NEW b \in Scores, a # b
    PROVE  Less(a, b) \/ Less(b, a)
  <1>1. \E i \in 1..7 : a[i] # b[i]
    BY DEF Scores
  <1>2. PICK i \in 1..7 : a[i] # b[i] /\ \A k \in 1..(i - 1) : a[k] = b[k]
    <2>1. CASE a[1] # b[1]
      BY <2>1
    <2>2. CASE a[1] = b[1] /\ a[2] # b[2]
      BY <2>2
    <2>3. CASE a[1] = b[1] /\ a[2] = b[2] /\ a[3] # b[3]
      BY <2>3
    <2>4. CASE a[1] = b[1] /\ a[2] = b[2] /\ a[3] = b[3] /\ a[4] # b[4]
      BY <2>4
    <2>5. CASE a[1] = b[1] /\ a[2] = b[2] /\ a[3] = b[3] /\ a[4] = b[4] /\ a[5] # b[5]
      BY <2>5
    <2>6. CASE a[1] = b[1] /\ a[2] = b[2] /\ a[3] = b[3] /\ a[4] = b[4] /\ a[5] = b[5]
               /\ a[6] # b[6]
      BY <2>6
    <2>7. CASE a[1] = b[1] /\ a[2] = b[2] /\ a[3] = b[3] /\ a[4] = b[4] /\ a[5] = b[5]
               /\ a[6] = b[6]
      BY <1>1, <2>7
    <2> QED
      BY <2>1, <2>2, <2>3, <2>4, <2>5, <2>6, <2>7
  <1>3. a[i] \in Int /\ b[i] \in Int
    BY DEF Scores
  <1> QED
    BY <1>2, <1>3 DEF Less, Scores

\* Which of two candidates is preferred, wherever they stand.
Preferred(r, c, d) ==
    IF Explicit(r, c) # Explicit(r, d) THEN Explicit(r, c) ELSE Less(Score(r, c), Score(r, d))

LEMMA PreferredIrreflexive ==
    ASSUME NEW r, NEW c \in CandidateType
    PROVE  ~Preferred(r, c, c)
  BY ScoreType, LessIrreflexive DEF Preferred

LEMMA PreferredTransitive ==
    ASSUME NEW r, NEW c \in CandidateType, NEW d \in CandidateType, NEW e \in CandidateType,
           Preferred(r, c, d), Preferred(r, d, e)
    PROVE  Preferred(r, c, e)
  <1>1. /\ Score(r, c) \in Scores /\ Score(r, d) \in Scores /\ Score(r, e) \in Scores
    BY ScoreType
  <1>2. Less(Score(r, c), Score(r, d)) /\ Less(Score(r, d), Score(r, e)) =>
            Less(Score(r, c), Score(r, e))
    BY <1>1, LessTransitive
  <1> QED
    BY <1>2, Zenon DEF Preferred

LEMMA PreferredTotal ==
    ASSUME NEW r, NEW c \in CandidateType, NEW d \in CandidateType, c.id # d.id
    PROVE  Preferred(r, c, d) \/ Preferred(r, d, c)
  <1>1. Score(r, c) \in Scores /\ Score(r, d) \in Scores /\ Score(r, c) # Score(r, d)
    BY ScoreType
  <1>2. Less(Score(r, c), Score(r, d)) \/ Less(Score(r, d), Score(r, c))
    BY <1>1, LessTotal
  <1>3. CASE Explicit(r, c) /\ ~Explicit(r, d)
    BY <1>3 DEF Preferred, Explicit
  <1>4. CASE ~Explicit(r, c) /\ Explicit(r, d)
    BY <1>4 DEF Preferred, Explicit
  <1>5. CASE Explicit(r, c) <=> Explicit(r, d)
    BY <1>2, <1>5 DEF Preferred, Explicit
  <1> QED
    BY <1>3, <1>4, <1>5

\* Where no name comes twice, the order of the candidates does not depend on
\* where they stand.
LEMMA OrderIsPreference ==
    ASSUME NEW r, NEW cs \in Seq(CandidateType), ~Duplicates(cs),
           NEW i \in DOMAIN cs, NEW j \in DOMAIN cs
    PROVE  ComesBefore(r, cs, i, j) <=> Preferred(r, cs[i], cs[j])
  <1>1. cs[i] \in CandidateType /\ cs[j] \in CandidateType
    OBVIOUS
  <1>2. i \in Int /\ j \in Int
    OBVIOUS
  <1>3. ~(Score(r, cs[i]) = Score(r, cs[j]) /\ i < j)
    <2>1. i < j => cs[i].id # cs[j].id
      BY <1>2 DEF Duplicates
    <2>2. Score(r, cs[i])[7] = cs[i].id /\ Score(r, cs[j])[7] = cs[j].id
      BY <1>1, ScoreType
    <2> QED
      BY <2>1, <2>2
  <1> QED
    BY <1>3, Zenon DEF ComesBefore, Preferred

----------------------------------------------------------------------------
\* The router: the places of the candidates

\* What the lemmas of this part and the next one are about.
Apart(cs) == cs \in Seq(CandidateType) /\ ~Duplicates(cs)

LEMMA OrderOfPlaces ==
    ASSUME NEW r, NEW cs, Apart(cs)
    PROVE  /\ \A i \in DOMAIN cs : ~ComesBefore(r, cs, i, i)
           /\ \A i, j, k \in DOMAIN cs :
                  ComesBefore(r, cs, i, j) /\ ComesBefore(r, cs, j, k) => ComesBefore(r, cs, i, k)
           /\ \A i, j \in DOMAIN cs :
                  i # j => ComesBefore(r, cs, i, j) \/ ComesBefore(r, cs, j, i)
  <1>1. cs \in Seq(CandidateType) /\ ~Duplicates(cs)
    BY DEF Apart
  <1>2. \A i \in DOMAIN cs : cs[i] \in CandidateType
    BY <1>1
  <1>3. \A i, j \in DOMAIN cs : ComesBefore(r, cs, i, j) <=> Preferred(r, cs[i], cs[j])
    BY <1>1, OrderIsPreference
  <1>4. \A i, j \in DOMAIN cs : i # j => cs[i].id # cs[j].id
    BY <1>1 DEF Duplicates
  <1>5. \A i \in DOMAIN cs : ~ComesBefore(r, cs, i, i)
    BY <1>2, <1>3, PreferredIrreflexive
  <1>6. \A i, j, k \in DOMAIN cs :
            ComesBefore(r, cs, i, j) /\ ComesBefore(r, cs, j, k) => ComesBefore(r, cs, i, k)
    BY <1>2, <1>3, PreferredTransitive
  <1>7. \A i, j \in DOMAIN cs : i # j => ComesBefore(r, cs, i, j) \/ ComesBefore(r, cs, j, i)
    BY <1>2, <1>3, <1>4, PreferredTotal
  <1> QED
    BY <1>5, <1>6, <1>7

LEMMA PlacesAreFinite ==
    ASSUME NEW cs, cs \in Seq(CandidateType), NEW places \in SUBSET DOMAIN cs
    PROVE  IsFiniteSet(places) /\ Cardinality(places) \in Nat
  <1>1. DOMAIN cs = 1..Len(cs) /\ Len(cs) \in Nat
    OBVIOUS
  <1>2. IsFiniteSet(1..Len(cs))
    BY <1>1, FS_Interval
  <1>3. IsFiniteSet(places)
    BY <1>1, <1>2, FS_Subset
  <1> QED
    BY <1>3, FS_CardinalityType

\* The positions in a set of places are as many as the places: one for each.
LEMMA PositionInRange ==
    ASSUME NEW r, NEW cs, Apart(cs), NEW places \in SUBSET DOMAIN cs, NEW i \in places
    PROVE  Position(r, cs, places, i) \in 0..(Cardinality(places) - 1)
  <1> DEFINE before == {j \in places : ComesBefore(r, cs, j, i)}
  <1>1. IsFiniteSet(places) /\ Cardinality(places) \in Nat
    BY PlacesAreFinite DEF Apart
  <1>2. before \in SUBSET places /\ i \notin before
    BY OrderOfPlaces
  <1>3. IsFiniteSet(before) /\ Cardinality(before) <= Cardinality(places)
        /\ (Cardinality(places) = Cardinality(before) => places = before)
    BY <1>1, <1>2, FS_Subset
  <1>4. Cardinality(before) \in Nat
    BY <1>3, FS_CardinalityType
  <1>5. Cardinality(before) # Cardinality(places)
    BY <1>2, <1>3
  <1>6. Position(r, cs, places, i) = Cardinality(before)
    BY DEF Position
  <1> HIDE DEF before
  <1> QED
    BY <1>1, <1>3, <1>4, <1>5, <1>6

LEMMA PositionGrows ==
    ASSUME NEW r, NEW cs, Apart(cs), NEW places \in SUBSET DOMAIN cs,
           NEW i \in places, NEW j \in places, ComesBefore(r, cs, i, j)
    PROVE  Position(r, cs, places, i) # Position(r, cs, places, j)
  <1> DEFINE low == {k \in places : ComesBefore(r, cs, k, i)}
             high == {k \in places : ComesBefore(r, cs, k, j)}
  <1>1. IsFiniteSet(places)
    BY PlacesAreFinite DEF Apart
  <1>2. high \in SUBSET places
    OBVIOUS
  <1>3. IsFiniteSet(high)
    BY <1>1, <1>2, FS_Subset
  <1>4. low \in SUBSET high /\ i \in high /\ i \notin low
    BY OrderOfPlaces
  <1>5. Position(r, cs, places, i) = Cardinality(low)
        /\ Position(r, cs, places, j) = Cardinality(high)
    BY DEF Position
  <1> HIDE DEF low, high
  <1>6. Cardinality(high) = Cardinality(low) => high = low
    BY <1>3, <1>4, FS_Subset
  <1> QED
    BY <1>4, <1>5, <1>6

LEMMA PositionIsUnique ==
    ASSUME NEW r, NEW cs, Apart(cs), NEW places \in SUBSET DOMAIN cs,
           NEW i \in places, NEW j \in places,
           Position(r, cs, places, i) = Position(r, cs, places, j)
    PROVE  i = j
  <1> SUFFICES ASSUME i # j PROVE FALSE
    OBVIOUS
  <1>1. ComesBefore(r, cs, i, j) \/ ComesBefore(r, cs, j, i)
    BY OrderOfPlaces
  <1> QED
    BY <1>1, PositionGrows

LEMMA PositionIsTaken ==
    ASSUME NEW r, NEW cs, Apart(cs), NEW places \in SUBSET DOMAIN cs,
           NEW n \in 0..(Cardinality(places) - 1)
    PROVE  \E i \in places : Position(r, cs, places, i) = n
  <1> DEFINE T == 0..(Cardinality(places) - 1)
             f == [i \in places |-> Position(r, cs, places, i)]
  <1>1. IsFiniteSet(places) /\ Cardinality(places) \in Nat
    BY PlacesAreFinite DEF Apart
  <1>2. IsFiniteSet(T) /\ Cardinality(T) = Cardinality(places)
    <2>1. 0 \in Int /\ Cardinality(places) - 1 \in Int
      BY <1>1
    <2>2. /\ IsFiniteSet(T)
          /\ Cardinality(T) = IF 0 > Cardinality(places) - 1 THEN 0
                              ELSE Cardinality(places) - 1 - 0 + 1
      BY <2>1, FS_Interval
    <2> QED
      BY <1>1, <2>2
  <1>3. f \in [places -> T]
    BY PositionInRange
  <1>4. \A i, j \in places : f[i] = f[j] => i = j
    BY PositionIsUnique
  <1>5. f \in Injection(places, T)
    BY <1>3, <1>4 DEF Injection, IsInjective
  <1>6. f \in Surjection(places, T)
    BY <1>2, <1>5, FS_Injection
  <1>7. PICK i \in places : f[i] = n
    BY <1>6 DEF Surjection
  <1> QED
    BY <1>7

\* The candidate of a rank is that of the place of that position.
LEMMA RankedIsPlaced ==
    ASSUME NEW r, NEW cs, Apart(cs), NEW places \in SUBSET DOMAIN cs, NEW i \in places
    PROVE  Ranked(r, cs, places, Position(r, cs, places, i)) = cs[i]
  <1> DEFINE k == CHOOSE k \in places :
                      Position(r, cs, places, k) = Position(r, cs, places, i)
  <1>1. k \in places /\ Position(r, cs, places, k) = Position(r, cs, places, i)
    OBVIOUS
  <1>2. Ranked(r, cs, places, Position(r, cs, places, i)) = cs[k]
    BY DEF Ranked
  <1> HIDE DEF k
  <1>3. k = i
    BY <1>1, PositionIsUnique
  <1> QED
    BY <1>2, <1>3

LEMMA RankedIsThere ==
    ASSUME NEW r, NEW cs, Apart(cs), NEW places \in SUBSET DOMAIN cs,
           NEW n \in 0..(Cardinality(places) - 1)
    PROVE  \E i \in places : Position(r, cs, places, i) = n /\ Ranked(r, cs, places, n) = cs[i]
  <1>1. PICK i \in places : Position(r, cs, places, i) = n
    BY PositionIsTaken, Zenon
  <1>2. Ranked(r, cs, places, n) = cs[i]
    BY <1>1, RankedIsPlaced
  <1> QED
    BY <1>1, <1>2

----------------------------------------------------------------------------
\* The router: the candidates in another order

\* f says where each place of the shuffled list comes from.
Shuffles(f, cs) == f \in [DOMAIN cs -> DOMAIN cs] /\ \A i, j \in DOMAIN cs : f[i] = f[j] => i = j

Shuffle(f, cs) == [i \in DOMAIN cs |-> cs[f[i]]]

LEMMA ShuffleReachesAll ==
    ASSUME NEW cs, cs \in Seq(CandidateType), NEW f, Shuffles(f, cs), NEW k \in DOMAIN cs
    PROVE  \E i \in DOMAIN cs : f[i] = k
  <1>1. IsFiniteSet(DOMAIN cs)
    BY PlacesAreFinite
  <1>2. f \in Injection(DOMAIN cs, DOMAIN cs)
    BY DEF Shuffles, Injection, IsInjective
  <1>3. f \in Surjection(DOMAIN cs, DOMAIN cs)
    BY <1>1, <1>2, FS_Injection
  <1> QED
    BY <1>3 DEF Surjection

LEMMA ShuffleIsApart ==
    ASSUME NEW cs, Apart(cs), NEW f, Shuffles(f, cs)
    PROVE  Apart(Shuffle(f, cs)) /\ DOMAIN Shuffle(f, cs) = DOMAIN cs
  <1>1. cs \in Seq(CandidateType) /\ ~Duplicates(cs)
    BY DEF Apart
  <1>2. DOMAIN Shuffle(f, cs) = DOMAIN cs
    BY DEF Shuffle
  <1>3. Shuffle(f, cs) \in Seq(CandidateType)
    <2>1. DOMAIN cs = 1..Len(cs) /\ Len(cs) \in Nat
      BY <1>1
    <2>2. \A i \in 1..Len(cs) : cs[f[i]] \in CandidateType
      BY <1>1, <2>1 DEF Shuffles
    <2> QED
      BY <2>1, <2>2 DEF Shuffle
  <1>4. ~Duplicates(Shuffle(f, cs))
    BY <1>1, <1>2 DEF Duplicates, Shuffle, Shuffles
  <1> QED
    BY <1>2, <1>3, <1>4 DEF Apart

\* A shuffled list has as many places of some kind as the list.
LEMMA SamePlaces ==
    ASSUME NEW cs, cs \in Seq(CandidateType), NEW f, Shuffles(f, cs),
           NEW A \in SUBSET DOMAIN cs, NEW B \in SUBSET DOMAIN cs,
           \A i \in DOMAIN cs : i \in A <=> f[i] \in B
    PROVE  Cardinality(A) = Cardinality(B)
  <1> DEFINE g == [i \in A |-> f[i]]
  <1>1. IsFiniteSet(A)
    BY PlacesAreFinite
  <1>2. g \in [A -> B] /\ \A i, j \in A : g[i] = g[j] => i = j
    BY DEF Shuffles
  <1>3. \A k \in B : \E i \in A : g[i] = k
    BY ShuffleReachesAll
  <1>4. g \in Bijection(A, B)
    BY <1>2, <1>3 DEF Bijection, Injection, Surjection, IsInjective
  <1>5. ExistsBijection(A, B)
    BY <1>4 DEF ExistsBijection
  <1> QED
    BY <1>1, <1>5, FS_Bijection

\* The places a set of places comes from.
Sources(f, cs, places) == {i \in DOMAIN cs : f[i] \in places}

LEMMA ShuffledPosition ==
    ASSUME NEW r, NEW cs, Apart(cs), NEW f, Shuffles(f, cs),
           NEW places \in SUBSET DOMAIN cs, NEW i \in Sources(f, cs, places)
    PROVE  Position(r, Shuffle(f, cs), Sources(f, cs, places), i) = Position(r, cs, places, f[i])
  <1> DEFINE S == Shuffle(f, cs)
             A == {j \in Sources(f, cs, places) : ComesBefore(r, S, j, i)}
             B == {k \in places : ComesBefore(r, cs, k, f[i])}
  <1>1. Apart(S) /\ DOMAIN S = DOMAIN cs
    BY ShuffleIsApart
  <1>2. i \in DOMAIN cs /\ \A j \in DOMAIN cs : f[j] \in DOMAIN cs
    BY DEF Sources, Shuffles
  <1>3. \A j \in DOMAIN cs : S[j] = cs[f[j]]
    BY DEF Shuffle
  <1>4. \A j \in DOMAIN cs : ComesBefore(r, S, j, i) <=> ComesBefore(r, cs, f[j], f[i])
    <2> TAKE j \in DOMAIN cs
    <2>1. ComesBefore(r, S, j, i) <=> Preferred(r, S[j], S[i])
      BY <1>1, <1>2, OrderIsPreference DEF Apart
    <2>2. ComesBefore(r, cs, f[j], f[i]) <=> Preferred(r, cs[f[j]], cs[f[i]])
      BY <1>2, OrderIsPreference DEF Apart
    <2> HIDE DEF S
    <2> QED
      BY <1>2, <1>3, <2>1, <2>2
  <1> HIDE DEF S
  <1>5. A \in SUBSET DOMAIN cs /\ B \in SUBSET DOMAIN cs
        /\ \A j \in DOMAIN cs : j \in A <=> f[j] \in B
    BY <1>4 DEF Sources
  <1>6. Position(r, S, Sources(f, cs, places), i) = Cardinality(A)
        /\ Position(r, cs, places, f[i]) = Cardinality(B)
    BY DEF Position
  <1> HIDE DEF A, B
  <1>7. Cardinality(A) = Cardinality(B)
    BY <1>5, SamePlaces DEF Apart
  <1> QED
    BY <1>6, <1>7 DEF S

LEMMA ShuffledRank ==
    ASSUME NEW r, NEW cs, Apart(cs), NEW f, Shuffles(f, cs),
           NEW places \in SUBSET DOMAIN cs, NEW n \in 0..(Cardinality(places) - 1)
    PROVE  Ranked(r, Shuffle(f, cs), Sources(f, cs, places), n) = Ranked(r, cs, places, n)
  <1>1. PICK k \in places : Position(r, cs, places, k) = n /\ Ranked(r, cs, places, n) = cs[k]
    BY RankedIsThere, SMT
  <1>2. PICK i \in DOMAIN cs : f[i] = k
    BY ShuffleReachesAll DEF Apart
  <1>3. i \in Sources(f, cs, places)
    BY <1>1, <1>2 DEF Sources
  <1>4. Position(r, Shuffle(f, cs), Sources(f, cs, places), i) = n
    BY <1>1, <1>2, <1>3, ShuffledPosition
  <1>5. /\ Apart(Shuffle(f, cs)) /\ Sources(f, cs, places) \in SUBSET DOMAIN Shuffle(f, cs)
    BY ShuffleIsApart DEF Sources
  <1>6. Ranked(r, Shuffle(f, cs), Sources(f, cs, places), n) = Shuffle(f, cs)[i]
    BY <1>3, <1>4, <1>5, RankedIsPlaced
  <1>7. Shuffle(f, cs)[i] = cs[k]
    BY <1>2 DEF Shuffle
  <1> QED
    BY <1>1, <1>6, <1>7

LEMMA ShuffledDuplicates ==
    ASSUME NEW cs, cs \in Seq(CandidateType), NEW f, Shuffles(f, cs)
    PROVE  Duplicates(Shuffle(f, cs)) <=> Duplicates(cs)
  <1>1. ASSUME Duplicates(Shuffle(f, cs)) PROVE Duplicates(cs)
    BY <1>1 DEF Duplicates, Shuffle, Shuffles
  <1>2. ASSUME Duplicates(cs) PROVE Duplicates(Shuffle(f, cs))
    <2>1. PICK k, l \in DOMAIN cs : k # l /\ cs[k].id = cs[l].id
      BY <1>2 DEF Duplicates
    <2>2. PICK i \in DOMAIN cs : f[i] = k
      BY ShuffleReachesAll
    <2>3. PICK j \in DOMAIN cs : f[j] = l
      BY ShuffleReachesAll
    <2>4. Shuffle(f, cs)[i] = cs[k] /\ Shuffle(f, cs)[j] = cs[l] /\ i # j
          /\ DOMAIN Shuffle(f, cs) = DOMAIN cs
      BY <2>1, <2>2, <2>3 DEF Shuffle
    <2> QED
      BY <2>1, <2>4 DEF Duplicates
  <1> QED
    BY <1>1, <1>2

----------------------------------------------------------------------------
\* The router: the chain

\* The guard of the route, and the places it may use.
Routes(r, cs) ==
    /\ ~Duplicates(cs) /\ Accepted(r, cs) # {}
    /\ r.explicit # NoExplicit => \E i \in Accepted(r, cs) : Explicit(r, cs[i])

Chosen(r, cs) == Ranked(r, cs, Accepted(r, cs), 0)

Chain(r, cs) == Fallbacks(cs, Accepted(r, cs), Chosen(r, cs))

LEMMA RouteIsChain ==
    ASSUME NEW r, NEW cs
    PROVE  RouteOf(r, cs) =
               IF Routes(r, cs)
               THEN [k \in 1..Bounded(Cardinality(Chain(r, cs))) |->
                         Ranked(r, cs, Chain(r, cs), k - 1)]
               ELSE <<>>
  BY DEF RouteOf, Routes, Chosen, Chain

LEMMA ChainIsAccepted ==
    ASSUME NEW r, NEW cs
    PROVE  Chain(r, cs) \subseteq Accepted(r, cs) /\ Accepted(r, cs) \subseteq DOMAIN cs
  BY DEF Chain, Fallbacks, Accepted

LEMMA BoundedLength ==
    ASSUME NEW n \in Nat
    PROVE  Bounded(n) \in Nat /\ Bounded(n) <= n /\ Bounded(n) <= Policy.max_attempts
  BY RouterAssumption DEF Bounded, PolicyType

\* Some place that is accepted is the first.
LEMMA SomethingIsChosen ==
    ASSUME NEW r, NEW cs, Apart(cs), NEW places \in SUBSET DOMAIN cs, places # {}
    PROVE  0 \in 0..(Cardinality(places) - 1)
  <1>1. IsFiniteSet(places) /\ Cardinality(places) \in Nat
    BY PlacesAreFinite DEF Apart
  <1>2. Cardinality(places) # 0
    BY <1>1, FS_EmptySet
  <1> QED
    BY <1>1, <1>2

\* The chain is one of the request and the candidates, in whatever order they
\* come.
LEMMA RouteOfShuffle ==
    ASSUME NEW r, NEW cs, cs \in Seq(CandidateType), NEW f, Shuffles(f, cs)
    PROVE  RouteOf(r, Shuffle(f, cs)) = RouteOf(r, cs)
  <1> DEFINE S == Shuffle(f, cs)
  <1>1. DOMAIN S = DOMAIN cs /\ \A i \in DOMAIN cs : S[i] = cs[f[i]] /\ f[i] \in DOMAIN cs
    BY DEF Shuffle, Shuffles
  <1>2. Accepted(r, S) = Sources(f, cs, Accepted(r, cs))
    <2> HIDE DEF S
    <2> QED
      BY <1>1 DEF Accepted, Sources
  <1>3. Accepted(r, S) = {} <=> Accepted(r, cs) = {}
    <2> HIDE DEF S
    <2>1. ASSUME Accepted(r, cs) # {} PROVE Accepted(r, S) # {}
      <3>1. PICK k \in Accepted(r, cs) : k \in DOMAIN cs
        BY <2>1 DEF Accepted
      <3>2. PICK i \in DOMAIN cs : f[i] = k
        BY <3>1, ShuffleReachesAll
      <3> QED
        BY <1>2, <3>1, <3>2 DEF Sources
    <2> QED
      BY <1>2, <2>1 DEF Sources
  <1>4. (\E i \in Accepted(r, S) : Explicit(r, S[i]))
            <=> (\E i \in Accepted(r, cs) : Explicit(r, cs[i]))
    <2>1. ASSUME NEW i \in Accepted(r, S), Explicit(r, S[i])
          PROVE  \E k \in Accepted(r, cs) : Explicit(r, cs[k])
      <3>1. i \in DOMAIN cs /\ f[i] \in Accepted(r, cs)
        BY <1>2, <2>1 DEF Sources
      <3> HIDE DEF S
      <3> QED
        BY <1>1, <2>1, <3>1
    <2>2. ASSUME NEW k \in Accepted(r, cs), Explicit(r, cs[k])
          PROVE  \E i \in Accepted(r, S) : Explicit(r, S[i])
      <3>1. PICK i \in DOMAIN cs : f[i] = k
        BY ShuffleReachesAll DEF Accepted
      <3>2. i \in Accepted(r, S)
        BY <1>2, <3>1 DEF Sources
      <3> HIDE DEF S
      <3> QED
        BY <1>1, <2>2, <3>1, <3>2
    <2> QED
      BY <2>1, <2>2
  <1>5. Duplicates(S) <=> Duplicates(cs)
    BY ShuffledDuplicates
  <1>6. Routes(r, S) <=> Routes(r, cs)
    BY <1>3, <1>4, <1>5, Zenon DEF Routes
  <1>7. CASE ~Routes(r, cs)
    BY <1>6, <1>7, RouteIsChain
  <1>8. CASE Routes(r, cs)
    <2>1. Apart(cs)
      BY <1>8 DEF Apart, Routes
    <2>2. Accepted(r, cs) # {} /\ Accepted(r, cs) \in SUBSET DOMAIN cs
      BY <1>8, ChainIsAccepted DEF Routes
    <2>3. Chosen(r, S) = Chosen(r, cs)
      <3>1. 0 \in 0..(Cardinality(Accepted(r, cs)) - 1)
        BY <2>1, <2>2, SomethingIsChosen
      <3> QED
        BY <1>2, <2>1, <2>2, <3>1, ShuffledRank DEF Chosen
    <2>4. Chain(r, S) = Sources(f, cs, Chain(r, cs))
      <3>1. CASE ~Policy.allow_silent_cloud_escalation /\ Chosen(r, cs).local
        <4> HIDE DEF S
        <4> QED
          BY <1>1, <1>2, <2>3, <3>1 DEF Chain, Fallbacks, Sources
      <3>2. CASE ~(~Policy.allow_silent_cloud_escalation /\ Chosen(r, cs).local)
        BY <1>2, <2>3, <3>2 DEF Chain, Fallbacks
      <3> QED
        BY <3>1, <3>2
    <2>5. Chain(r, cs) \in SUBSET DOMAIN cs /\ Cardinality(Chain(r, cs)) \in Nat
      BY <2>1, ChainIsAccepted, PlacesAreFinite DEF Apart
    <2>6. Cardinality(Chain(r, S)) = Cardinality(Chain(r, cs))
      <3>1. Sources(f, cs, Chain(r, cs)) \in SUBSET DOMAIN cs
            /\ \A i \in DOMAIN cs : i \in Sources(f, cs, Chain(r, cs)) <=> f[i] \in Chain(r, cs)
        BY DEF Sources
      <3> QED
        BY <2>4, <2>5, <3>1, SamePlaces
    <2> DEFINE n == Bounded(Cardinality(Chain(r, cs)))
    <2>7. n \in Nat /\ n <= Cardinality(Chain(r, cs))
      BY <2>5, BoundedLength
    <2>8. \A k \in 1..n : Ranked(r, S, Chain(r, S), k - 1) = Ranked(r, cs, Chain(r, cs), k - 1)
      <3> TAKE k \in 1..n
      <3>1. k - 1 \in 0..(Cardinality(Chain(r, cs)) - 1)
        BY <2>5, <2>7
      <3> QED
        BY <2>1, <2>4, <2>5, <3>1, ShuffledRank
    <2>9. RouteOf(r, S) = [k \in 1..n |-> Ranked(r, S, Chain(r, S), k - 1)]
      BY <1>6, <1>8, <2>6, RouteIsChain
    <2>10. RouteOf(r, cs) = [k \in 1..n |-> Ranked(r, cs, Chain(r, cs), k - 1)]
      BY <1>8, RouteIsChain
    <2> HIDE DEF n, S
    <2> QED
      BY <2>8, <2>9, <2>10 DEF S
  <1> QED
    BY <1>7, <1>8

\* No chain is longer than allowed, each of its candidates is accepted, and
\* none of a local choice leaves the device.
LEMMA ChainWithinPolicy ==
    ASSUME NEW r, NEW cs, cs \in Seq(CandidateType), RouteOf(r, cs) # <<>>
    PROVE  /\ Len(RouteOf(r, cs)) <= Policy.max_attempts
           /\ \A k \in DOMAIN RouteOf(r, cs) :
                  /\ ~Rejected(r, RouteOf(r, cs)[k])
                  /\ RouteOf(r, cs)[1].local /\ ~Policy.allow_silent_cloud_escalation =>
                         RouteOf(r, cs)[k].local
  <1> DEFINE chain == Chain(r, cs)
             n == Bounded(Cardinality(chain))
             result == RouteOf(r, cs)
  <1>1. Routes(r, cs) /\ result = [k \in 1..n |-> Ranked(r, cs, chain, k - 1)]
    BY RouteIsChain
  <1>2. Apart(cs) /\ Accepted(r, cs) # {}
    BY <1>1 DEF Apart, Routes
  <1>3. chain \in SUBSET DOMAIN cs /\ Accepted(r, cs) \in SUBSET DOMAIN cs
        /\ chain \subseteq Accepted(r, cs) /\ Cardinality(chain) \in Nat
    BY ChainIsAccepted, PlacesAreFinite
  <1>4. n \in Nat /\ n <= Cardinality(chain) /\ n <= Policy.max_attempts
    BY <1>3, BoundedLength
  <1>5. \A k \in 1..n : \E i \in chain : result[k] = cs[i]
    <2> TAKE k \in 1..n
    <2>1. k - 1 \in 0..(Cardinality(chain) - 1)
      BY <1>3, <1>4
    <2>2. \E i \in chain : Ranked(r, cs, chain, k - 1) = cs[i]
      BY <1>2, <1>3, <2>1, RankedIsThere
    <2> HIDE DEF chain, n
    <2> QED
      BY <1>1, <2>2
  <1>6. Len(result) = n
    <2> HIDE DEF chain, n, result
    <2> DEFINE R == {Ranked(r, cs, chain, k - 1) : k \in 1..n}
    <2>1. \A k \in 1..n : Ranked(r, cs, chain, k - 1) \in R
      OBVIOUS
    <2> HIDE DEF R
    <2>2. result \in [1..n -> R]
      BY <1>1, <2>1
    <2> QED
      BY <1>4, <2>2
  <1>7. \A k \in 1..n : ~Rejected(r, result[k])
    <2> HIDE DEF chain, n, result
    <2> QED
      BY <1>3, <1>5 DEF Accepted
  <1>8. ASSUME NEW k \in 1..n, result[1].local, ~Policy.allow_silent_cloud_escalation
        PROVE  result[k].local
    <2>1. CASE Chosen(r, cs).local
      <3>1. chain = {i \in Accepted(r, cs) : cs[i].local}
        BY <1>8, <2>1 DEF Chain, Fallbacks
      <3> HIDE DEF chain, n, result
      <3> QED
        BY <1>5, <1>8, <3>1
    <2>2. CASE ~Chosen(r, cs).local
      <3>1. chain = Accepted(r, cs)
        BY <2>2 DEF Chain, Fallbacks
      <3>2. 1 \in 1..n
        BY <1>4
      <3>3. result[1] = Ranked(r, cs, chain, 0)
        <4> HIDE DEF chain, n, result
        <4> QED
          BY <1>1, <3>2
      <3> QED
        BY <1>8, <2>2, <3>1, <3>3 DEF Chosen
    <2> QED
      BY <2>1, <2>2
  <1> HIDE DEF chain, n
  <1>9. DOMAIN result = 1..n
    BY <1>1
  <1> HIDE DEF result
  <1>10. Len(result) <= Policy.max_attempts
    BY <1>4, <1>6
  <1>11. \A k \in DOMAIN result :
             /\ ~Rejected(r, result[k])
             /\ result[1].local /\ ~Policy.allow_silent_cloud_escalation => result[k].local
    BY <1>7, <1>8, <1>9
  <1> QED
    BY <1>10, <1>11 DEF result

\* The candidates are those of the request that arrived, or the native one.
Listed == arrival \in Arrivals /\ candidates \in Seq(CandidateType)

LEMMA CandidatesAreListed == Spec => []Listed
  <1>1. Init => Listed
    BY DEF Init, Listed
  <1>2. Listed /\ [Next]_vars => Listed'
    <2> SUFFICES ASSUME arrival \in Arrivals, candidates \in Seq(CandidateType), [Next]_vars
                 PROVE  arrival' \in Arrivals /\ candidates' \in Seq(CandidateType)
      BY DEF Listed
    <2>1. CASE Arrive
      <3>1. UNCHANGED arrival
        BY <2>1 DEF Arrive
      <3>2. CASE arrival.via = "direct"
        BY <2>1, <3>1, <3>2, ArrivalsAssumption DEF Arrive
      <3>3. CASE arrival.via # "direct"
        <4>1. candidates' = <<NativeCandidate>> \/ candidates' = candidates
          BY <2>1, <3>3 DEF Arrive
        <4>2. NativeCandidate \in CandidateType
          BY LabelsAssumption DEF NativeCandidate, CandidateType, HealthStates
        <4> QED
          BY <3>1, <4>1, <4>2
      <3> QED
        BY <3>2, <3>3
    <2>2. CASE UNCHANGED <<arrival, candidates>>
      BY <2>2
    <2>3. Arrive \/ UNCHANGED <<arrival, candidates>>
      BY DEF Next, Check, Prepare, Confirm, Reject, Revalidate, Start, Dispatch,
             Drift, vars, inside
    <2> QED
      BY <2>1, <2>2, <2>3
  <1> QED
    BY <1>1, <1>2, PTL DEF Spec

----------------------------------------------------------------------------
\* Theorems

\* What holds of a request on its way, whatever the host does meanwhile.
THEOREM DecisionsInvariance == Spec => []DecisionsInv
  <1> QED
    BY DecisionsInitially, DecisionsStep, PTL DEF Spec

\* Whatever risk a client adds to its request, and whatever health it claims,
\* the request gets no further: for every request, host and checkout.
THEOREM RiskIsMonotone == Spec => []RiskNeverRelaxes
  <1>1. DecisionsInv => RiskNeverRelaxes
    BY RiskierReaches DEF DecisionsInv, RiskNeverRelaxes
  <1> QED
    BY <1>1, DecisionsInvariance, PTL

\* A sentence that asks for an action never reaches the conversation, and only
\* a listing reaches the computer without a question.
THEOREM TalkStaysTalk == Spec => []TalkIsOnlyTalk
  <1>1. ASSUME DecisionsInv PROVE TalkIsOnlyTalk
    <2> SUFFICES ASSUME arrival.via = "assistant"
                 PROVE  /\ at = "conversation" =>
                            ~(arrival.sentence.action \/ arrival.sentence.term
                              \/ arrival.sentence.remind \/ arrival.sentence.schedule
                              \/ arrival.sentence.command # "none")
                        /\ at = "dispatched" /\ ~confirmed => request.proposal.inner \in Listing
      BY DEF TalkIsOnlyTalk
    <2>1. ASSUME at = "conversation"
          PROVE  ~(arrival.sentence.action \/ arrival.sentence.term
                   \/ arrival.sentence.remind \/ arrival.sentence.schedule
                   \/ arrival.sentence.command # "none")
      BY <1>1, <2>1 DEF DecisionsInv, Admission
    <2>2. ASSUME at = "dispatched", ~confirmed
          PROVE  request.proposal.inner \in Listing
      <3>1. /\ Judged(request) = checked /\ checked \in Decided
            /\ checked # "requires_confirmation" /\ Drafted(request)
        <4>1. request # NoRequest
          BY <1>1, <2>2 DEF DecisionsInv, Revalidated, Requests, NoRequest, Capabilities, Permitted
        <4> QED
          BY <1>1, <2>2, <4>1 DEF DecisionsInv, Revalidated
      <3>2. Judged(request) = "may_proceed"
        BY <3>1 DEF Decided
      <3>3. request.proposal.scopes \cap SensitiveScopes = {}
        BY <3>2 DEF Judged, Evaluate, NeedsConfirmation
      <3>4. request.proposal.inner # "capture"
        BY <3>1, <3>3 DEF Drafted, RequiredScope, SensitiveScopes, Listing, Capturing
      <3> QED
        BY <3>1, <3>4 DEF Drafted, Commands, Listing
    <2> QED
      BY <2>1, <2>2
  <1> QED
    BY <1>1, DecisionsInvariance, PTL

\* Nothing is revalidated on a host that is not ready, no input starts but at the
\* application that was in front when it was confirmed, and the adapter is given
\* nothing sensitive that was not confirmed.
THEOREM DispatchIsConfirmed == Spec => DispatchesAsConfirmed
  <1> DEFINE Confirmed ==
        /\ at' = "revalidated" /\ at # at' /\ request'.capability = "computer_use" =>
               Ready(Inspect(host))
        /\ at' = "executing" /\ at # at' /\ Input(prepared[1]) =>
               front = prepared[1].foreground /\ front # NoApp
        /\ at' = "dispatched" /\ at # at' =>
               /\ prepared[1].scopes \cap SensitiveScopes # {} => confirmed
               /\ Input(prepared[1]) =>
                      /\ confirmed /\ prepared[1].tool = "computer_use"
                      /\ prepared[1].app # NoApp /\ prepared[1].app = prepared[1].resolved
  <1>1. DecisionsInv /\ [Next]_vars => [Confirmed]_vars
    <2> SUFFICES ASSUME DecisionsInv, Next PROVE Confirmed
      OBVIOUS
    <2>1. ASSUME at' = "revalidated", at # at', request'.capability = "computer_use"
          PROVE  Ready(Inspect(host))
      <3>1. Revalidate
        BY <2>1, PreparesTo DEF Next, Arrive, Admission, Check, Reject, Start, Dispatch, Drift,
                                inside, Go
      <3>2. Outcome(request') = checked /\ at = "prepared"
        BY <2>1, <3>1 DEF Revalidate, Go
      <3>3. Outcome(request') \in {"may_proceed", "requires_confirmation"}
        BY <3>2 DEF DecisionsInv, Decided
      <3> QED
        BY <2>1, <3>3, LetThroughIsReady
    <2>2. ASSUME at' = "executing", at # at', Input(prepared[1])
          PROVE  front = prepared[1].foreground /\ front # NoApp
      <3>1. Start
        BY <2>2, PreparesTo DEF Next, Arrive, Admission, Check, Reject, Revalidate, Dispatch,
                                Drift, inside, Go
      <3>2. /\ at = "revalidated"
            /\ request.capability = "computer_use" => TargetValid(request.proposal)
        BY <2>2, <3>1 DEF Start, Go
      <3>3. prepared[1] = Bound(request.capability, request.proposal)
        BY <3>2 DEF DecisionsInv, Revalidated
      <3> QED
        BY <2>2, <3>2, <3>3 DEF Input, Bound, TargetValid
    <2>3. ASSUME at' = "dispatched", at # at'
          PROVE  /\ prepared[1].scopes \cap SensitiveScopes # {} => confirmed
                 /\ Input(prepared[1]) =>
                        /\ confirmed /\ prepared[1].tool = "computer_use"
                        /\ prepared[1].app # NoApp /\ prepared[1].app = prepared[1].resolved
      <3>1. Dispatch
        BY <2>3, PreparesTo DEF Next, Arrive, Admission, Check, Reject, Revalidate, Start,
                                Drift, inside, Go
      <3>2. at = "executing"
        BY <3>1 DEF Dispatch
      <3>3. /\ Judged(request) = checked /\ checked \in Decided
            /\ checked = "requires_confirmation" => confirmed
            /\ prepared[1] = Bound(request.capability, request.proposal)
        BY <3>2 DEF DecisionsInv, Revalidated
      <3>4. request.proposal.scopes \cap SensitiveScopes # {} => confirmed
        <4>1. ASSUME request.proposal.scopes \cap SensitiveScopes # {}
              PROVE  Judged(request) # "may_proceed"
          BY <4>1 DEF Judged, Evaluate, NeedsConfirmation
        <4> QED
          BY <3>3, <4>1 DEF Decided
      <3>5. ASSUME Input(prepared[1])
            PROVE  /\ confirmed /\ prepared[1].tool = "computer_use"
                   /\ prepared[1].app # NoApp /\ prepared[1].app = prepared[1].resolved
        <4>1. request.capability = "computer_use" /\ request.proposal.inner \in Mutating
          BY <3>3, <3>5 DEF Input, Bound
        <4>2. ~ComputerUseDenied(request.proposal)
          BY <3>3, <4>1 DEF Judged, Evaluate, Denied, Decided
        <4>3. /\ RequiredScope(request.proposal.inner) \in request.proposal.scopes
              /\ request.proposal.tool = "computer_use" /\ request.proposal.app # NoApp
              /\ request.proposal.app = request.proposal.resolved
          BY <4>1, <4>2 DEF ComputerUseDenied
        <4>4. RequiredScope(request.proposal.inner) = "input.control"
          BY <4>1 DEF RequiredScope, Listing, Capturing, Mutating
        <4>5. confirmed
          BY <3>4, <4>3, <4>4 DEF SensitiveScopes
        <4> QED
          BY <3>3, <4>3, <4>5 DEF Bound
      <3>6. prepared[1].scopes = request.proposal.scopes
        BY <3>3 DEF Bound
      <3> QED
        BY <3>4, <3>5, <3>6
    <2> QED
      BY <2>1, <2>2, <2>3
  <1> QED
    BY <1>1, DecisionsInvariance, PTL DEF Spec, DispatchesAsConfirmed

\* The chain of models is the same in whatever order the candidates come, it is
\* bounded, each of them meets every constraint, and no fallback of a local
\* choice leaves the device: for every request, policy and list of candidates.
THEOREM RoutesStayWithinPolicy == Spec => []RouteWithinPolicy
  <1>1. ASSUME candidates \in Seq(CandidateType) PROVE RouteWithinPolicy
    <2>1. ASSUME NEW f \in {g \in [DOMAIN candidates -> DOMAIN candidates] :
                               \A i, j \in DOMAIN candidates : g[i] = g[j] => i = j}
          PROVE  RouteOf(route, [i \in DOMAIN candidates |-> candidates[f[i]]])
                     = RouteOf(route, candidates)
      <3>1. Shuffles(f, candidates)
        BY DEF Shuffles
      <3> QED
        BY <1>1, <3>1, RouteOfShuffle DEF Shuffle
    <2>2. ASSUME RouteOf(route, candidates) # <<>>
          PROVE  /\ Len(RouteOf(route, candidates)) <= Policy.max_attempts
                 /\ \A k \in DOMAIN RouteOf(route, candidates) :
                        /\ ~Rejected(route, RouteOf(route, candidates)[k])
                        /\ RouteOf(route, candidates)[1].local
                               /\ ~Policy.allow_silent_cloud_escalation =>
                           RouteOf(route, candidates)[k].local
      BY <1>1, <2>2, ChainWithinPolicy
    <2> QED
      BY <2>1, <2>2 DEF RouteWithinPolicy
  <1>2. Listed => RouteWithinPolicy
    BY <1>1 DEF Listed
  <1> QED
    BY <1>2, CandidatesAreListed, PTL

=============================================================================
