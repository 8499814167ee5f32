----------------------------- MODULE MCAutomation -----------------------------
(***************************************************************************)
(* Small instances of Automation: the bindings its approvals may carry     *)
(* while the clock stays below its bound.                                  *)
(***************************************************************************)
EXTENDS Automation

MCBindings == [job : Jobs, version : JobVersions, config : Configs,
               owner : Principals, until : 0..(MaxClock + Validity)]

=============================================================================
