----------------------------- MODULE VoiceClient -----------------------------
(***************************************************************************)
(* The clients that poll voice-events, composed with the coordinator.      *)
(* RuntimeClient.voiceEvents (Swift) sends after = 0 and limit = 50 on     *)
(* every poll, so the coordinator answers with the oldest Limit events of  *)
(* a queue that holds up to Capacity (100) of them.                        *)
(***************************************************************************)
EXTENDS Voice

CONSTANT Limit      \* events in one answer

VARIABLE current    \* history: a session's last answer held the newest event

ClientTypeOK ==
    /\ TypeOK
    /\ current \in [Sessions -> BOOLEAN]

ClientInit ==
    /\ Init
    /\ current = [s \in Sessions |-> TRUE]

Delivered == SubSeq(events, 1, IF Len(events) < Limit THEN Len(events) ELSE Limit)

\* events(): only an owner that is somebody else is a reason to refuse.
Poll(s) ==
    /\ Serving /\ owner \in {Nothing, s}
    /\ current' = [current EXCEPT ![s] = Len(Delivered) = Len(events)]
    /\ UNCHANGED vars

ClientNext ==
    \/ Next /\ UNCHANGED current
    \/ \E s \in Sessions : Poll(s)

ClientSpec == ClientInit /\ [][ClientNext]_<<vars, current>>

----------------------------------------------------------------------------
\* "Live/partial transcript updates while speaking" (docs/
\* PHASE9_VOICE_HANDOFF.md): a poll brings what has been recorded last.
PollsAreCurrent == \A s \in Sessions : current[s]

=============================================================================
