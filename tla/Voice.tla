-------------------------------- MODULE Voice --------------------------------
(***************************************************************************)
(* VoiceCoordinator (control/voice.py): the lease one client session holds *)
(* on Hermes' process-wide voice loop, and the threads that act on it.     *)
(*                                                                         *)
(*   - the runtime's socket thread serves one client call at a time;       *)
(*   - Hermes' loop reports what it hears through callbacks;               *)
(*   - every accepted transcript runs a turn on a thread of its own;       *)
(*   - every spoken reply arms a follow-up timer, a thread of its own.     *)
(*                                                                         *)
(* One lock covers the coordinator's fields, so a locked block is a step.  *)
(* What runs outside it (the assistant, speech, the timer's call that      *)
(* stops the backend, the start of a microphone test) is a step too, and   *)
(* anything may happen in between.  era numbers the voice sessions: a      *)
(* turn, timer or callback of one era can still be running in the next.    *)
(***************************************************************************)
EXTENDS Naturals, Sequences

CONSTANTS Sessions,     \* authenticated (caller, session) pairs
          Turns,        \* bound: transcripts accepted in a behaviour
          MaxStarts,    \* bound: voice sessions in a behaviour
          Capacity,     \* event_capacity of the queue
          StopMayFail,  \* may the backend raise when it is told to stop
          Nothing

ASSUME VoiceAssumption ==
    /\ Nothing \notin Sessions /\ Nothing \notin Turns
    /\ MaxStarts \in Nat /\ Capacity \in Nat \ {0} /\ StopMayFail \in BOOLEAN

VARIABLES owner, voiceActive, turnActive,
          followUp,     \* the turn whose timer _follow_up_timer refers to
          events,       \* for each event, the session whose words it carries
          turns, timers,
          listening,    \* Hermes' voice loop has the microphone
          callback,     \* a callback Hermes has called, before it gets the lock
          mic,          \* the microphone test's recorder is on
          ipc,          \* the socket thread, between the two halves of a call
          down,         \* the runtime is shutting down
          era,          \* history: voice sessions started so far
          crossed       \* history: something left over from an earlier era acted

leaseVars   == <<owner, voiceActive, turnActive, followUp, events>>
runtimeVars == <<mic, ipc, down, era>>
vars == <<leaseVars, turns, timers, listening, callback, runtimeVars, crossed>>

Eras == 0 .. MaxStarts

\* _on_silent_limit and _on_stop_phrase: Hermes has already ended its loop.
Ending == {"silent_limit", "stop_phrase"}

TurnSteps  == {"none", "asking", "answered", "speaking", "spoken", "unscheduled", "closing", "over"}
TimerSteps == {"none", "armed", "fired", "stopping", "over"}

TurnRecords  == [step : TurnSteps, caller : Sessions \cup {Nothing}, era : Eras]
TimerRecords == [step : TimerSteps, era : Eras]
Callbacks    == [kind : {"none", "transcript", "idle"} \cup Ending, era : Eras]

NoTurn     == [step |-> "none", caller |-> Nothing, era |-> 0]
NoTimer    == [step |-> "none", era |-> 0]
NoCallback == [kind |-> "none", era |-> 0]

TypeOK ==
    /\ owner \in Sessions \cup {Nothing}
    /\ voiceActive \in BOOLEAN /\ turnActive \in BOOLEAN
    /\ followUp \in Turns \cup {Nothing}
    /\ events \in Seq(Sessions \cup {Nothing}) /\ Len(events) <= Capacity
    /\ turns \in [Turns -> TurnRecords] /\ timers \in [Turns -> TimerRecords]
    /\ listening \in BOOLEAN /\ callback \in Callbacks
    /\ mic \in BOOLEAN /\ ipc \in {"idle", "mic_test"} /\ down \in BOOLEAN
    /\ era \in Eras /\ crossed \in BOOLEAN

Init ==
    /\ owner = Nothing /\ voiceActive = FALSE /\ turnActive = FALSE
    /\ followUp = Nothing /\ events = <<>>
    /\ turns = [t \in Turns |-> NoTurn] /\ timers = [t \in Turns |-> NoTimer]
    /\ listening = FALSE /\ callback = NoCallback
    /\ mic = FALSE /\ ipc = "idle" /\ down = FALSE
    /\ era = 0 /\ crossed = FALSE

----------------------------------------------------------------------------
\* Pieces of the locked blocks.

\* _append: a full queue forgets its oldest event.  A status or an error
\* carries nobody's words.
Queued(queue, about) ==
    LET longer == Append(queue, about)
    IN  IF Len(longer) > Capacity THEN Tail(longer) ELSE longer

Record(about) == events' = Queued(events, about)

\* Timer.cancel() is without effect once the timer has fired.
CancelTimer ==
    [t \in Turns |-> IF t = followUp /\ timers[t].step = "armed"
                     THEN [timers[t] EXCEPT !.step = "over"] ELSE timers[t]]

CancelFollowUp == timers' = CancelTimer /\ followUp' = Nothing

\* A thread or callback that started in era e takes the lock.
ActFrom(e) == crossed' = (crossed \/ e # era)

\* voice_active := False, and _release_if_idle then clears the owner.
EndSession == voiceActive' = FALSE /\ owner' = Nothing

BackendStops == listening' = FALSE \/ (StopMayFail /\ UNCHANGED listening)

----------------------------------------------------------------------------
\* Client calls, on the socket thread.

Serving == ipc = "idle" /\ ~down

\* voice-start when the backend starts.  From the owner of an active session
\* it only reports the status.
StartVoice(s) ==
    /\ Serving /\ owner \in {Nothing, s} /\ ~voiceActive
    /\ era < MaxStarts
    /\ owner' = s /\ voiceActive' = TRUE /\ Record(Nothing)
    /\ listening' = TRUE /\ era' = era + 1
    /\ UNCHANGED <<turnActive, followUp, turns, timers, callback, mic, ipc, down, crossed>>

\* voice-start when the backend raises: the claim is given up.
StartFails(s) ==
    /\ Serving /\ owner \in {Nothing, s} /\ ~voiceActive
    /\ owner' = Nothing
    /\ UNCHANGED <<voiceActive, turnActive, followUp, events, turns, timers, listening,
                   callback, runtimeVars, crossed>>

\* voice-stop.  A backend that raises leaves the session as it was.
StopVoice(s) ==
    /\ Serving /\ owner = s
    /\ voiceActive => listening' = FALSE
    /\ ~voiceActive => UNCHANGED listening
    /\ turnActive' = FALSE /\ EndSession
    /\ CancelFollowUp /\ Record(Nothing)
    /\ UNCHANGED <<turns, callback, runtimeVars, crossed>>

\* voice-mic-test-start looks at voice_active under the lock and starts the
\* recorder outside it.
CheckMicTest ==
    /\ Serving /\ ~voiceActive /\ ~mic
    /\ ipc' = "mic_test"
    /\ UNCHANGED <<leaseVars, turns, timers, listening, callback, mic, down, era, crossed>>

StartMicTest ==
    /\ ipc = "mic_test" /\ ipc' = "idle"
    /\ mic' \in BOOLEAN
    /\ UNCHANGED <<leaseVars, turns, timers, listening, callback, down, era, crossed>>

StopMicTest ==
    /\ Serving /\ mic /\ mic' = FALSE
    /\ UNCHANGED <<leaseVars, turns, timers, listening, callback, ipc, down, era, crossed>>

\* shutdown(), after the socket has been closed; a backend that raises is
\* only logged.
Shutdown ==
    /\ Serving /\ down' = TRUE
    /\ IF voiceActive THEN BackendStops ELSE UNCHANGED listening
    /\ turnActive' = FALSE /\ EndSession /\ CancelFollowUp
    /\ UNCHANGED <<events, turns, callback, mic, ipc, era, crossed>>

Client ==
    \/ \E s \in Sessions : StartVoice(s) \/ StartFails(s) \/ StopVoice(s)
    \/ CheckMicTest \/ StartMicTest \/ StopMicTest \/ Shutdown

----------------------------------------------------------------------------
\* Hermes.

\* The loop hears an utterance, reports that it is idle, or ends by itself.
HermesCalls(kind) ==
    /\ listening /\ callback = NoCallback
    /\ callback' = [kind |-> kind, era |-> era]
    /\ listening' = (kind \notin Ending)
    /\ UNCHANGED <<leaseVars, turns, timers, runtimeVars, crossed>>

\* _on_partial: shown while no turn runs.
OnPartial ==
    /\ listening /\ voiceActive /\ ~turnActive
    /\ Record(owner)
    /\ UNCHANGED <<owner, voiceActive, turnActive, followUp, turns, timers, listening,
                   callback, runtimeVars, crossed>>

Returned == callback' = NoCallback

\* Mutant: a transcript is not refused while a turn runs.
OnTranscriptBusyToo ==
    /\ callback.kind = "transcript" /\ Returned /\ voiceActive
    /\ CancelFollowUp /\ Record(owner)
    /\ turnActive' = TRUE
    /\ \E t \in Turns :
         /\ turns[t] = NoTurn
         /\ turns' = [turns EXCEPT ![t] = [step |-> "asking", caller |-> owner, era |-> era]]
    /\ ActFrom(callback.era)
    /\ UNCHANGED <<owner, voiceActive, listening, runtimeVars>>

\* _on_transcript: the utterance becomes a turn of the current owner.
OnTranscript ==
    /\ callback.kind = "transcript" /\ Returned /\ voiceActive /\ ~turnActive
    /\ CancelFollowUp /\ Record(owner)
    /\ turnActive' = TRUE
    /\ \E t \in Turns :
         /\ turns[t] = NoTurn
         /\ turns' = [turns EXCEPT ![t] = [step |-> "asking", caller |-> owner, era |-> era]]
    /\ ActFrom(callback.era)
    /\ UNCHANGED <<owner, voiceActive, listening, runtimeVars>>

\* While a turn runs the utterance is shown and then refused as
\* voice_turn_busy, and the follow-up timer is cancelled all the same.
OnTranscriptBusy ==
    /\ callback.kind = "transcript" /\ Returned /\ voiceActive /\ turnActive
    /\ CancelFollowUp
    /\ events' = Queued(Queued(events, owner), Nothing)
    /\ ActFrom(callback.era)
    /\ UNCHANGED <<owner, voiceActive, turnActive, turns, listening, runtimeVars>>

\* A transcript that arrives after the session has ended is dropped.
DropTranscript ==
    /\ callback.kind = "transcript" /\ Returned /\ ~voiceActive
    /\ UNCHANGED <<leaseVars, turns, timers, listening, runtimeVars, crossed>>

\* _on_voice_status("idle"): the loop pauses, the session stays.
OnIdle ==
    /\ callback.kind = "idle" /\ Returned
    /\ CancelFollowUp /\ Record(Nothing)
    /\ ActFrom(callback.era)
    /\ UNCHANGED <<owner, voiceActive, turnActive, turns, listening, runtimeVars>>

\* _on_silent_limit cancels the follow-up timer first.
OnSilentLimit ==
    /\ callback.kind = "silent_limit" /\ Returned
    /\ CancelFollowUp
    /\ IF voiceActive THEN EndSession /\ Record(Nothing)
                      ELSE UNCHANGED <<owner, voiceActive, events>>
    /\ ActFrom(callback.era)
    /\ UNCHANGED <<turnActive, turns, listening, runtimeVars>>

\* _on_stop_phrase leaves both the turn flag and the timer.
OnStopPhrase ==
    /\ callback.kind = "stop_phrase" /\ Returned
    /\ EndSession /\ Record(Nothing)
    /\ ActFrom(callback.era)
    /\ UNCHANGED <<turnActive, followUp, turns, timers, listening, runtimeVars>>

Callback == OnTranscript \/ OnTranscriptBusy \/ DropTranscript \/ OnIdle
            \/ OnSilentLimit \/ OnStopPhrase

Hermes ==
    \/ \E kind \in {"transcript", "idle"} \cup Ending : HermesCalls(kind)
    \/ OnPartial \/ Callback

----------------------------------------------------------------------------
\* A turn's thread.

Goes(t, step) == turns' = [turns EXCEPT ![t].step = step]

\* The assistant answers; this is the step outside the lock.
TurnAnswered(t) ==
    /\ turns[t].step = "asking" /\ Goes(t, "answered")
    /\ UNCHANGED <<leaseVars, timers, listening, callback, runtimeVars, crossed>>

\* The assistant refuses or raises, or speaking does.
TurnFails(t) ==
    /\ turns[t].step \in {"asking", "speaking", "unscheduled"} /\ Goes(t, "closing")
    /\ Record(Nothing) /\ ActFrom(turns[t].era)
    /\ UNCHANGED <<owner, voiceActive, turnActive, followUp, timers, listening, callback,
                   runtimeVars>>

\* The reply is shown if some session is active, whichever it is.
TurnReplies(t) ==
    /\ turns[t].step = "answered"
    /\ IF voiceActive
       THEN Goes(t, "speaking") /\ Record(turns[t].caller)
       ELSE Goes(t, "closing") /\ UNCHANGED events
    /\ ActFrom(turns[t].era)
    /\ UNCHANGED <<owner, voiceActive, turnActive, followUp, timers, listening, callback,
                   runtimeVars>>

TurnSpeaks(t) ==
    /\ turns[t].step = "speaking" /\ Goes(t, "spoken")
    /\ UNCHANGED <<leaseVars, timers, listening, callback, runtimeVars, crossed>>

\* After speech: arm the follow-up timer of the session that is active then.
ScheduleFollowUp(t) ==
    /\ turns[t].step = "spoken" /\ voiceActive /\ Goes(t, "closing")
    /\ Record(Nothing)
    /\ timers' = [CancelTimer EXCEPT ![t] = [step |-> "armed", era |-> era]]
    /\ followUp' = t
    /\ ActFrom(turns[t].era)
    /\ UNCHANGED <<owner, voiceActive, turnActive, listening, callback, runtimeVars>>

\* The profile's settings cannot be read: the old timer is cancelled already,
\* and the failure is one more event after tts_playback_complete.
ScheduleFails(t) ==
    /\ turns[t].step = "spoken" /\ voiceActive /\ Goes(t, "unscheduled")
    /\ Record(Nothing) /\ CancelFollowUp
    /\ ActFrom(turns[t].era)
    /\ UNCHANGED <<owner, voiceActive, turnActive, listening, callback, runtimeVars>>

SpokenTooLate(t) ==
    /\ turns[t].step = "spoken" /\ ~voiceActive /\ Goes(t, "closing")
    /\ UNCHANGED <<leaseVars, timers, listening, callback, runtimeVars, crossed>>

\* Mutant: a turn clears the flag only if its session is still active.
TurnEndsActive(t) ==
    /\ turns[t].step = "closing" /\ Goes(t, "over")
    /\ turnActive' = (turnActive /\ ~voiceActive)
    /\ ActFrom(turns[t].era)
    /\ UNCHANGED <<owner, voiceActive, followUp, events, timers, listening, callback, runtimeVars>>

\* finally: the flag is cleared, whichever turn set it.
TurnEnds(t) ==
    /\ turns[t].step = "closing" /\ Goes(t, "over")
    /\ turnActive' = FALSE
    /\ ActFrom(turns[t].era)
    /\ UNCHANGED <<owner, voiceActive, followUp, events, timers, listening, callback, runtimeVars>>

Turn(t) == TurnAnswered(t) \/ TurnFails(t) \/ TurnReplies(t) \/ TurnSpeaks(t)
           \/ ScheduleFollowUp(t) \/ ScheduleFails(t) \/ SpokenTooLate(t) \/ TurnEnds(t)

----------------------------------------------------------------------------
\* A follow-up timer's thread.

TimerGoes(t, step) == timers' = [timers EXCEPT ![t].step = step]

TimerFires(t) ==
    /\ timers[t].step = "armed" /\ TimerGoes(t, "fired")
    /\ UNCHANGED <<leaseVars, turns, listening, callback, runtimeVars, crossed>>

\* Mutant: an expired timer does not look at turn_active.
FollowUpExpiredBusy(t) ==
    /\ timers[t].step = "fired"
    /\ IF ~voiceActive
       THEN TimerGoes(t, "over") /\ UNCHANGED leaseVars
       ELSE /\ TimerGoes(t, "stopping")
            /\ EndSession /\ Record(Nothing) /\ followUp' = Nothing
            /\ UNCHANGED turnActive
    /\ ActFrom(timers[t].era)
    /\ UNCHANGED <<turns, listening, callback, runtimeVars>>

\* _follow_up_expired, the locked block.
FollowUpExpired(t) ==
    /\ timers[t].step = "fired"
    /\ IF ~voiceActive \/ turnActive
       THEN TimerGoes(t, "over") /\ UNCHANGED leaseVars
       ELSE /\ TimerGoes(t, "stopping")
            /\ EndSession /\ Record(Nothing) /\ followUp' = Nothing
            /\ UNCHANGED turnActive
    /\ ActFrom(timers[t].era)
    /\ UNCHANGED <<turns, listening, callback, runtimeVars>>

\* The backend is stopped after the lock has been given back.
TimerStopsBackend(t) ==
    /\ timers[t].step = "stopping" /\ TimerGoes(t, "over")
    /\ BackendStops
    /\ ActFrom(timers[t].era)
    /\ UNCHANGED <<leaseVars, turns, callback, runtimeVars>>

Timer(t) == TimerFires(t) \/ FollowUpExpired(t) \/ TimerStopsBackend(t)

Next == Client \/ Hermes \/ \E t \in Turns : Turn(t) \/ Timer(t)

Spec == Init /\ [][Next]_vars

\* The threads run: callbacks get the lock, the assistant answers, speech
\* ends, timers fire.  Nothing makes a client call or Hermes hear something.
FairSpec ==
    /\ Spec /\ WF_vars(Callback)
    /\ \A t \in Turns : WF_vars(Turn(t)) /\ WF_vars(Timer(t))

----------------------------------------------------------------------------
Unfinished(t) == turns[t].step \notin {"none", "over"}

\* The turns of the session that is active now.
OwnTurns == {t \in Turns : Unfinished(t) /\ turns[t].era = era}

\* The lease is held exactly while voice is active: no handler of the lock
\* leaves an owner without a session, which nobody else could then start, or
\* a session without an owner, whose transcripts had no caller to run for.
OwnerIffActive == voiceActive <=> owner # Nothing

\* The busy flag never outlives the turns, and while the turn of the active
\* session runs it is up and no second one starts: until something of an
\* earlier session acts (a turn that outlives its session clears the flag of
\* the next one's turn).
OneTurnAtATime ==
    /\ turnActive => \E t \in Turns : Unfinished(t)
    /\ (voiceActive /\ ~crossed) =>
          /\ OwnTurns # {} => turnActive
          /\ \A t, u \in OwnTurns : t = u

\* Nothing comes from a later era than the present one.
ErasPast ==
    /\ callback.era <= era
    /\ \A t \in Turns : turns[t].era <= era /\ timers[t].era <= era

\* The inductive invariant.  The socket thread is alone, so nothing activates
\* a session between the two halves of starting a microphone test.
VoiceInv ==
    /\ TypeOK /\ OwnerIffActive /\ OneTurnAtATime /\ ErasPast
    /\ ipc = "mic_test" => ~voiceActive

\* A follow-up timer that races a transcript does not end the session under the
\* turn the transcript started: until something of an earlier session acts (the
\* end of a turn of it clears the flag the timer looks at, and a timer of it
\* finds a session that is not its own).
FollowUpSparesTurns ==
    [][\A t \in Turns :
          (FollowUpExpired(t) /\ voiceActive /\ ~voiceActive' /\ ~crossed') => OwnTurns = {}]_vars

\* The microphone test never opens a second recorder beside an active session,
\* although it gives the lock back between looking and starting.
MicTestKeepsOut == [][(~mic /\ mic') => ~voiceActive]_vars

\* Voice is never busy for ever: the flag a turn sets is cleared.
TurnsFinish == turnActive ~> ~turnActive

=============================================================================
