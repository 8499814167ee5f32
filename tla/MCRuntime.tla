------------------------------ MODULE MCRuntime ------------------------------
(***************************************************************************)
(* A small instance of RuntimeService.                                     *)
(***************************************************************************)
EXTENDS RuntimeService, FiniteSets, Naturals

Told == {p \in Runtimes : signalled[p]}
Killed == {p \in Runtimes : proc[p].at = "killed"}
Foreign == marker = "foreign" \/ \E k \in Kinds : endpoint[k] = "foreign"

\* Bounds: one signal and one kill; one of the two where runtimes meet or a
\* foreign file is in the way.
FewMishaps ==
    /\ Cardinality(Told) <= 1 /\ Cardinality(Killed) <= 1
    /\ Told # {} /\ Killed # {} => met = {} /\ ~Foreign

MCSpec == Init /\ [][Next /\ FewMishaps']_vars /\ Fairness

=============================================================================
