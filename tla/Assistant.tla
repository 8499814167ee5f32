------------------------------ MODULE Assistant ------------------------------
(***************************************************************************)
(* AssistantAdmission of control/assistant_loop.py: where a typed or       *)
(* spoken sentence goes.  A sentence is what its patterns find in it, in   *)
(* the order of the code; a sentence may well have several of them.        *)
(***************************************************************************)
EXTENDS Permissions

Commands == {"list_apps", "list_windows", "capture"}

\* What a reminder comes to: no pattern matches, the note is empty, the time
\* is not understood or past, or there is a draft of a job.
Reminders == {"unmatched", "no_note", "no_time", "draft"}

Sentences ==
    [valid    : BOOLEAN,                  \* the payload passes _decode
     remind   : BOOLEAN,                  \* "remind me" or "reminder" occurs
     reminder : Reminders,
     schedule : BOOLEAN,                  \* "schedule" occurs
     command  : Commands \cup {"none"},   \* it is one of the known commands
     term     : BOOLEAN,                  \* a word about the screen occurs
     action   : BOOLEAN]                  \* one of _ACTION_WORDS occurs

\* Mutant: what no parser knows is talk, before the words are looked at.
AdmissionTrusting(sentence) ==
    IF ~sentence.valid THEN "malformed"
    ELSE IF sentence.remind THEN IF sentence.reminder = "draft" THEN "reminder" ELSE "clarify"
    ELSE IF sentence.schedule THEN "clarify"
    ELSE IF sentence.command # "none" THEN "computer"
    ELSE IF sentence.term THEN "clarify"
    ELSE "conversation"

\* handle, _parse_reminder, _parse_computer, _looks_action_like
Admission(sentence) ==
    IF ~sentence.valid THEN "malformed"
    ELSE IF sentence.remind THEN IF sentence.reminder = "draft" THEN "reminder" ELSE "clarify"
    ELSE IF sentence.schedule THEN "clarify"
    ELSE IF sentence.command # "none" THEN "computer"
    ELSE IF sentence.term \/ sentence.action THEN "clarify"
    ELSE "conversation"

DraftScopes(command) == {RequiredScope(command)}

\* _parse_computer and the action of _control_payload; the code's "desktop" and
\* "current screen" are targets of no application.
DraftProposal(command, foreground) ==
    [tool |-> "computer_use", inner |-> command, app |-> NoApp,
     resolved |-> IF command = "list_apps" THEN NoApp ELSE foreground,
     foreground |-> foreground, scopes |-> DraftScopes(command), hints |-> {},
     declared |-> {}]

\* The route of _control_payload: one candidate, on this device.
NativeRoute ==
    [category |-> "simple", required_abilities |-> {"text", "tool-calling"},
     local_only |-> TRUE, off_device_allowed |-> FALSE, allowed_providers |-> {},
     allowed_residencies |-> {}, maximum_cost |-> 3, minimum_context |-> 0, explicit |-> 0,
     budget_confirmed |-> FALSE]

NativeCandidate ==
    [id |-> 1, provider |-> 1, model |-> 1, abilities |-> {"text", "tool-calling"},
     health |-> "healthy", enabled |-> TRUE, local |-> TRUE, residency |-> "device",
     cost |-> 0, latency |-> 1000, quality |-> 50, reliability |-> 50, context |-> 8192]

=============================================================================
