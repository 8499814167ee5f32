-------------------------- MODULE MCControlRuntime --------------------------
(***************************************************************************)
(* Small instances of ControlRuntime: requests of one principal, what the  *)
(* control plane says of them in each world, and the envelopes the clients *)
(* of each run send.                                                       *)
(***************************************************************************)
EXTENDS ControlRuntime, TLC

CONSTANTS p1, p2

MCOwnerOf == [read |-> p1, write |-> p1, purge |-> p1]

\* "read" may proceed, "write" needs confirmation and "purge" is denied, except
\* that
\*   drift     "write" was upgraded and has no route
\*   offline   "read" has no route, "write" needs no confirmation
\*   broken    projecting any of them faults
MCPolicyOf ==
    LET all ==
        [calm    |-> [read |-> "may_proceed", write |-> "requires_confirmation",
                      purge |-> "must_be_denied"],
         drift   |-> [read |-> "may_proceed", write |-> "requires_confirmation",
                      purge |-> "must_be_denied"],
         offline |-> [read |-> "may_proceed", write |-> "may_proceed",
                      purge |-> "must_be_denied"],
         broken  |-> [r \in Requests |-> "faulted"]]
    IN  [w \in Worlds |-> all[w]]

MCFingerprintOf ==
    [w \in Worlds |-> [read |-> "f1", write |-> IF w = "drift" THEN "f3" ELSE "f2",
                      purge |-> "f4"]]

MCInvocationOf ==
    [w \in Worlds |-> [read  |-> IF w = "offline" THEN Nothing ELSE "v1",
                      write |-> IF w = "drift" THEN Nothing ELSE "v2",
                      purge |-> Nothing]]

----------------------------------------------------------------------------

Envelope(op, rid, content, approval) ==
    [operation |-> op, rid |-> rid, sender |-> p1, authentic |-> TRUE,
     content |-> content, approval |-> approval]

Prepare(rid, content) == Envelope("prepare", rid, content, Nothing)
Execute(rid, content) == Envelope("execute", rid, content, Nothing)

\* Two threads whose clients hold the same approval of another surface; one of
\* them may ask for consent instead, and executes both requests.
ConsentInbox ==
    LET Present(rid) == {Envelope("prepare", rid, "write", i) : i \in SurfaceApprovals}
    IN  [main  |-> Present("r1") \cup {Prepare("r1", "write"), Prepare("r2", "write"),
                                      Execute("r1", "write"), Execute("r2", "write")},
         voice |-> Present("r2")]

\* Two threads that prepare and execute the same request IDs, and every way a
\* prepare call can be refused.
RaceInbox ==
    [main  |-> {Prepare("r1", "write"), Execute("r1", "write"), Execute("r2", "read"),
                Prepare("r1", "purge"),
                [Prepare("r1", "read") EXCEPT !.authentic = FALSE],
                [Prepare("r1", "read") EXCEPT !.content = Malformed],
                [Prepare("r1", "read") EXCEPT !.sender = p2]},
     voice |-> {Prepare("r2", "read"), Execute("r2", "read"),
                Prepare("r1", "read"), Execute("r1", "write")}]

MCEnvelopes == UNION {Inbox[t] : t \in Workers}

Symmetry ==
    Permutations(Attempts) \cup Permutations(ApprovalIds \ SurfaceApprovals)

=============================================================================
