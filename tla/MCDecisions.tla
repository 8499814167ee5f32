----------------------------- MODULE MCDecisions -----------------------------
(***************************************************************************)
(* Small instances of Decisions: every request on a host that is ready,    *)
(* every host for a few requests, and every sentence.                      *)
(***************************************************************************)
EXTENDS Decisions, FiniteSetsExt

CONSTANTS mail, notes

MCPolicy == [prefer_local |-> TRUE, allow_silent_cloud_escalation |-> FALSE,
             require_budget_confirmation |-> TRUE, max_attempts |-> 2]

ReadyHost == [platform |-> "darwin", resolver |-> "binary", app |-> "signed",
              manifest |-> "current", answers |-> TRUE,
              accessibility |-> "true", screen |-> "granted", capturable |-> TRUE]

OtherHosts ==
    {h \in Hosts : h.platform = "other" => h = [ReadyHost EXCEPT !.platform = "other"]}

Plain == [tool |-> "computer_use", inner |-> "capture", app |-> NoApp, resolved |-> NoApp,
          foreground |-> NoApp, scopes |-> {"screen.capture"}, hints |-> {}, declared |-> {}]

Click == [Plain EXCEPT !.inner = "click", !.app = mail, !.resolved = mail,
                       !.foreground = mail, !.scopes = {"input.control"}]

Read == [Plain EXCEPT !.tool = "other", !.inner = "none", !.scopes = {"local.read"}]

Direct(capability, proposal) ==
    [capability |-> capability, proposal |-> proposal, agent |-> "healthy",
     probe |-> "none", degraded |-> FALSE]

Sent(r, again, h, n) ==
    [via |-> "direct", request |-> r, again |-> again, route |-> NativeRoute,
     candidates |-> <<NativeCandidate>>, host |-> h, front |-> mail, drifts |-> n]

----------------------------------------------------------------------------
\* Every request that differs in its risks, scopes, target or claims, where
\* nothing changes.

MCProposals ==
    {[tool |-> tool, inner |-> inner, app |-> target[1], resolved |-> target[2],
      foreground |-> target[3], scopes |-> scopes, hints |-> hints, declared |-> declared] :
        tool \in {"computer_use", "other"}, inner \in {"list_apps", "capture", "click", "none"},
        target \in {<<mail, mail, mail>>, <<mail, notes, mail>>, <<mail, mail, NoApp>>},
        scopes \in {{}, {"local.read"}, {"screen.capture"}, {"input.control"}, {"unknown"},
                    {"local.write.reversible"}, {"input.control", "external.send"}},
        hints \in {{}, {"read_only"}, {"destructive"}},
        declared \in UNION {kSubset(k, Flags) : k \in 0..1}}

Claims(r) == {r} \cup {[r EXCEPT !.degraded = TRUE, !.probe = p, !.agent = a] :
                          p \in {"none", "healthy", "degraded"}, a \in {"healthy", "starting"}}

ByRequest ==
    {Sent(Direct(c, p), {}, ReadyHost, MaxDrifts) : c \in {"files", "computer_use"},
                                                   p \in MCProposals}
    \cup UNION {{Sent(r, {}, ReadyHost, MaxDrifts) : r \in Claims(Direct(c, p))} :
                    c \in Capabilities \cup {"unknown"}, p \in {Plain, Click, Read}}

\* Every host for a capture; every change of one that is ready for a capture and
\* for an input that is sent again with other flags.
ByHost ==
    {Sent(Direct("computer_use", Plain), {}, h, MaxDrifts) : h \in OtherHosts}
    \cup {Sent(Direct("computer_use", Plain), {}, ReadyHost, 0)}
    \cup {Sent(Direct("computer_use", Click),
               {Direct("computer_use", p) :
                   p \in {[Click EXCEPT !.declared = {"remote_disclosure"}],
                          [Click EXCEPT !.declared = {"unattended"}],
                          [Click EXCEPT !.app = notes, !.resolved = notes]}}, ReadyHost, 0)}

----------------------------------------------------------------------------
\* Routes

Candidate(id, local, health, cost, quality) ==
    [NativeCandidate EXCEPT !.id = id, !.local = local, !.health = health, !.cost = cost,
                            !.quality = quality, !.residency = IF local THEN "device" ELSE "eu"]

Lists ==
    {<<Candidate(1, TRUE, "healthy", 0, 50), Candidate(2, FALSE, "healthy", 2, 70),
       Candidate(3, TRUE, "healthy", 0, 50)>>,
     <<Candidate(2, FALSE, "healthy", 3, 90), Candidate(4, FALSE, "degraded", 1, 60),
       Candidate(1, TRUE, "degraded", 0, 60), Candidate(3, FALSE, "healthy", 2, 70)>>,
     <<Candidate(2, FALSE, "healthy", 1, 60), Candidate(2, TRUE, "healthy", 0, 60)>>,
     <<Candidate(3, FALSE, "starting", 1, 60)>>}

Routes ==
    {[NativeRoute EXCEPT !.category = c, !.explicit = e, !.local_only = l, !.off_device_allowed = o,
                         !.budget_confirmed = b, !.maximum_cost = m, !.allowed_residencies = r] :
        c \in Categories, e \in {0, 2, 3}, l \in BOOLEAN, o \in BOOLEAN, b \in BOOLEAN,
        m \in {1, 3}, r \in {{}, {"device"}}}

ByRoute ==
    {[Sent(Direct("files", Read), {}, ReadyHost, MaxDrifts) EXCEPT
          !.route = r, !.candidates = cs] : r \in Routes, cs \in Lists}

\* The host changes around the three commands.
Bare(s) == s.valid /\ ~s.remind /\ ~s.schedule /\ ~s.term /\ ~s.action
           /\ s.reminder = "unmatched" /\ s.command # "none"

Said ==
    {[via |-> "assistant", sentence |-> s, foreground |-> f, host |-> ReadyHost,
      front |-> mail, drifts |-> IF Bare(s) THEN 0 ELSE MaxDrifts] :
        s \in Sentences, f \in {mail, NoApp}}

MCArrivals == ByRequest \cup ByHost \cup ByRoute \cup Said

=============================================================================
