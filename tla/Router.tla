------------------------------- MODULE Router -------------------------------
(***************************************************************************)
(* DeterministicModelRouter of control/router.py.  A request states hard   *)
(* constraints, which filter the candidates; those that pass are sorted by *)
(* a score of the request's category; the first is selected and the next   *)
(* ones, up to the bound, are the fallbacks.                               *)
(*                                                                         *)
(* A candidate is a record; names are natural numbers, whose order is that *)
(* of the strings they stand for.  Abilities, providers and residencies    *)
(* are filtered in one way and stand as sets.                              *)
(***************************************************************************)
EXTENDS Health, Naturals, Integers, Sequences, FiniteSets

CONSTANTS Policy,       \* RouterPolicy: the fields the router reads
          Labels        \* the abilities and the residencies there are

PolicyType == [prefer_local : BOOLEAN, allow_silent_cloud_escalation : BOOLEAN,
               require_budget_confirmation : BOOLEAN, max_attempts : Nat \ {0}]

ASSUME RouterAssumption == Policy \in PolicyType

\* ModelCandidate
CandidateType ==
    [id : Nat, provider : Nat, model : Nat, abilities : SUBSET Labels, health : HealthStates,
     enabled : BOOLEAN, local : BOOLEAN, residency : Labels, cost : Nat, latency : Int,
     quality : Int, reliability : Int, context : Int]

Categories == {"simple", "coding", "vision", "web_research", "high_reasoning"}

\* CostClass
Free == 0
High == 3

Any == {}               \* an empty allowlist allows everything

\* _rejection_reasons: a candidate is accepted when there is none.
Rejected(request, c) ==
    \/ ~c.enabled \/ c.health \notin {"healthy", "degraded"}
    \/ ~(request.required_abilities \subseteq c.abilities)
    \/ request.allowed_providers # Any /\ c.provider \notin request.allowed_providers
    \/ (request.local_only \/ ~request.off_device_allowed) /\ ~c.local
    \/ request.allowed_residencies # Any /\ c.residency \notin request.allowed_residencies
    \/ c.cost > request.maximum_cost
    \/ c.cost = High /\ Policy.require_budget_confirmation /\ ~request.budget_confirmed
    \/ c.context < request.minimum_context

\* What the score is made of, in order; the smaller is the better.
Profile(request, c) ==
    LET locality == IF c.local /\ Policy.prefer_local THEN 0 ELSE 1
    IN  CASE request.category = "simple" -> <<locality, c.latency, c.cost>>
          [] request.category = "coding" -> <<-c.quality, -c.context, c.latency>>
          [] request.category = "vision" -> <<-c.quality, locality, c.latency>>
          [] OTHER -> <<-c.quality, -c.reliability, c.cost>>

HealthPenalty(c) == IF c.health = "degraded" THEN 1 ELSE 0

\* _score
Score(request, c) ==
    LET profile == Profile(request, c)
    IN  <<HealthPenalty(c), profile[1], profile[2], profile[3], c.provider, c.model, c.id>>

Less(a, b) ==
    \E i \in DOMAIN a : a[i] < b[i] /\ \A j \in 1..(i - 1) : a[j] = b[j]

NoExplicit == 0

Explicit(request, c) == request.explicit # NoExplicit /\ c.id = request.explicit

\* The explicit choice comes first, then the others sorted, where equal ones
\* stay as they were.
ComesBefore(request, cs, i, j) ==
    IF Explicit(request, cs[i]) # Explicit(request, cs[j]) THEN Explicit(request, cs[i])
    ELSE \/ Less(Score(request, cs[i]), Score(request, cs[j]))
         \/ Score(request, cs[i]) = Score(request, cs[j]) /\ i < j

\* How many of some places come before one of them, and the place that so many
\* come before.
Position(request, cs, places, i) == Cardinality({j \in places : ComesBefore(request, cs, j, i)})

Ranked(request, cs, places, n) ==
    cs[CHOOSE i \in places : Position(request, cs, places, i) = n]

Duplicates(cs) == \E i, j \in DOMAIN cs : i # j /\ cs[i].id = cs[j].id

Accepted(request, cs) == {i \in DOMAIN cs : ~Rejected(request, cs[i])}

\* Mutant: the fallbacks of a local choice may be anywhere.
FallbacksAnywhere(cs, places, selected) == places

\* _bounded_fallbacks: where to fall back to, the choice itself included.
Fallbacks(cs, places, selected) ==
    IF ~Policy.allow_silent_cloud_escalation /\ selected.local
    THEN {i \in places : cs[i].local} ELSE places

Bounded(n) == IF n < Policy.max_attempts THEN n ELSE Policy.max_attempts

\* route: the chain of candidates, the selected one first; empty for
\* RoutingError.
RouteOf(request, cs) ==
    LET accepted == Accepted(request, cs)
        chain    == Fallbacks(cs, accepted, Ranked(request, cs, accepted, 0))
    IN  IF \/ Duplicates(cs) \/ accepted = {}
           \/ request.explicit # NoExplicit /\ ~\E i \in accepted : Explicit(request, cs[i])
        THEN <<>>
        ELSE [k \in 1..Bounded(Cardinality(chain)) |-> Ranked(request, cs, chain, k - 1)]

=============================================================================
