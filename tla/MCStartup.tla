------------------------------ MODULE MCStartup ------------------------------
(***************************************************************************)
(* Small instances of Startup: what earlier versions left behind.          *)
(***************************************************************************)
EXTENDS Startup, TLC

CONSTANTS v1, v2

\* A profile without a language, one with the empty one, one with a choice.
Plain  == [stt |-> "unset", other |-> v1]
Auto   == [stt |-> "auto", other |-> v1]
Chosen == [stt |-> "chosen", other |-> "unset"]

Left(home, automation, checkout, legacy) ==
    [home |-> home, automation |-> automation, checkout |-> checkout, legacy |-> legacy]

Home   == [config |-> Auto, auth |-> v1]
Jobs   == [jobs |-> v1]
Models == [model |-> v1]
Other  == [config |-> Chosen, auth |-> v2]

\* Everything at its place; a profile of two sources and nothing else; only
\* ~/.hermes; two sources that disagree.
MCSources ==
    {Left(Home, Jobs, Models, Nothing),
     Left([config |-> Plain], Jobs, Nothing, Nothing),
     Left(Nothing, Jobs, Nothing, Other),
     Left(Nothing, Nothing, Nothing, Other),
     Left(Home, [config |-> Chosen], Nothing, Nothing)}

\* No Library yet, or one that has a profile of its own.
MCLibraries ==
    {[hermes |-> Nothing, models |-> Nothing],
     [hermes |-> [config |-> Plain, auth |-> v1, jobs |-> v1], models |-> Nothing]}

Symmetry == Permutations(Launches) \cup Permutations(Secrets)

=============================================================================
