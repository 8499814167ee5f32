------------------------------ MODULE Voice_proofs ------------------------------
(***************************************************************************)
(* Theorems about the voice lease, for any sessions, turns and limits.     *)
(*                                                                         *)
(* VoiceInv is inductive: each step of each thread preserves each of its   *)
(* parts.  What a step does to the turns, the timers and the queue is      *)
(* stated first, so that the steps need not look inside these.             *)
(***************************************************************************)
EXTENDS Voice, TLAPS

USE VoiceAssumption DEF runtimeVars

\* Queueing an event keeps the queue a queue of at most Capacity events.
LEMMA QueuedFacts ==
    ASSUME NEW queue \in Seq(Sessions \cup {Nothing}), Len(queue) <= Capacity,
           NEW about \in Sessions \cup {Nothing}
    PROVE  /\ Queued(queue, about) \in Seq(Sessions \cup {Nothing})
           /\ Len(Queued(queue, about)) <= Capacity
  <1> DEFINE longer == Append(queue, about)
  <1>1. longer \in Seq(Sessions \cup {Nothing}) /\ Len(longer) = Len(queue) + 1
    OBVIOUS
  <1>2. Len(queue) \in Nat
    OBVIOUS
  <1>3. Queued(queue, about) = IF Len(longer) > Capacity THEN Tail(longer) ELSE longer
    BY DEF Queued
  <1> HIDE DEF longer
  <1>4. CASE Len(longer) > Capacity
    <2>1. longer # <<>>
      BY <1>1, <1>2
    <2>2. Tail(longer) \in Seq(Sessions \cup {Nothing}) /\ Len(Tail(longer)) = Len(longer) - 1
      BY <1>1, <2>1
    <2> QED
      BY <1>1, <1>2, <1>3, <1>4, <2>2
  <1>5. CASE ~(Len(longer) > Capacity)
    BY <1>1, <1>2, <1>3, <1>5
  <1> QED
    BY <1>4, <1>5

\* Recording an event does.
LEMMA RecordFacts ==
    ASSUME TypeOK, NEW about \in Sessions \cup {Nothing}, Record(about)
    PROVE  events' \in Seq(Sessions \cup {Nothing}) /\ Len(events') <= Capacity
  BY QueuedFacts DEF TypeOK, Record

\* One turn moves and nothing else of it or of the others changes.
LEMMA GoesFacts ==
    ASSUME TypeOK, NEW t \in Turns, NEW step \in TurnSteps, Goes(t, step)
    PROVE  /\ turns' \in [Turns -> TurnRecords]
           /\ turns'[t].step = step
           /\ \A u \in Turns : /\ turns'[u].era = turns[u].era
                               /\ u # t => turns'[u].step = turns[u].step
  BY DEF TypeOK, Goes, TurnRecords

\* The same for a timer.
LEMMA TimerGoesFacts ==
    ASSUME TypeOK, NEW t \in Turns, NEW step \in TimerSteps, TimerGoes(t, step)
    PROVE  /\ timers' \in [Turns -> TimerRecords]
           /\ timers'[t].step = step
           /\ \A u \in Turns : /\ timers'[u].era = timers[u].era
                               /\ u # t => timers'[u].step = timers[u].step
  BY DEF TypeOK, TimerGoes, TimerRecords

\* Cancelling touches an armed timer at most: none that has fired.
LEMMA CancelFacts ==
    ASSUME TypeOK
    PROVE  /\ CancelTimer \in [Turns -> TimerRecords]
           /\ \A u \in Turns : /\ CancelTimer[u].era = timers[u].era
                               /\ CancelTimer[u].step = "stopping" <=> timers[u].step = "stopping"
  <1>1. ASSUME NEW u \in Turns
        PROVE  /\ CancelTimer[u] \in TimerRecords
               /\ CancelTimer[u].era = timers[u].era
               /\ CancelTimer[u].step = "stopping" <=> timers[u].step = "stopping"
    <2>1. timers[u] \in TimerRecords
      BY DEF TypeOK
    <2>2. CASE u = followUp /\ timers[u].step = "armed"
      <3>1. CancelTimer[u] = [timers[u] EXCEPT !.step = "over"]
        BY <2>2 DEF CancelTimer
      <3> QED
        BY <2>1, <2>2, <3>1 DEF TimerRecords, TimerSteps
    <2>3. CASE ~(u = followUp /\ timers[u].step = "armed")
      BY <2>1, <2>3 DEF CancelTimer
    <2> QED
      BY <2>2, <2>3
  <1> QED
    BY <1>1 DEF CancelTimer

\* The record of no callback is a callback record.
LEMMA NoCallbackType == NoCallback \in Callbacks
  BY DEF NoCallback, Callbacks, Eras

\* Initially nothing runs.
LEMMA VoiceInitially == Init => VoiceInv
  <1> SUFFICES ASSUME Init PROVE VoiceInv
    OBVIOUS
  <1>1. TypeOK
    <2>1. NoTurn \in TurnRecords /\ NoTimer \in TimerRecords /\ NoCallback \in Callbacks /\ 0 \in Eras
      BY DEF NoTurn, NoTimer, NoCallback, TurnRecords, TimerRecords, Callbacks, TurnSteps, TimerSteps, Eras
    <2>2. <<>> \in Seq(Sessions \cup {Nothing}) /\ Len(<<>>) <= Capacity
      OBVIOUS
    <2> QED
      BY <2>1, <2>2 DEF Init, TypeOK
  <1>2. OwnerIffActive /\ ErasPast
    BY DEF Init, OwnerIffActive, ErasPast, NoTurn, NoTimer, NoCallback
  <1>3. OneTurnAtATime
    BY DEF Init, OneTurnAtATime
  <1> QED
    BY <1>1, <1>2, <1>3 DEF Init, VoiceInv

\* A session starts: no turn, timer or callback is of its era yet.
LEMMA StartVoiceKeeps ==
    ASSUME VoiceInv, NEW s \in Sessions, StartVoice(s)
    PROVE  VoiceInv'
  <1> USE DEF VoiceInv
  <1>1. events' \in Seq(Sessions \cup {Nothing}) /\ Len(events') <= Capacity
    BY RecordFacts DEF StartVoice, TypeOK
  <1>2. era \in Nat /\ era' = era + 1 /\ era' \in Eras
    BY DEF StartVoice, TypeOK, Eras
  <1>3. \A t \in Turns : turns[t].era <= era /\ turns[t].era \in Nat /\ timers[t].era <= era
                         /\ timers[t].era \in Nat
    BY DEF TypeOK, TurnRecords, TimerRecords, Eras, ErasPast
  <1>4. callback.era <= era /\ callback.era \in Nat
    BY DEF TypeOK, Callbacks, Eras, ErasPast
  <1>5. TypeOK'
    BY <1>1, <1>2 DEF StartVoice, TypeOK
  <1>6. OwnerIffActive'
    BY DEF StartVoice, OwnerIffActive
  <1>7. OwnTurns' = {}
    BY <1>2, <1>3 DEF StartVoice, OwnTurns
  <1>8. OneTurnAtATime'
    BY <1>7 DEF StartVoice, OneTurnAtATime, Unfinished
  <1>9. ErasPast'
    BY <1>2, <1>3, <1>4 DEF StartVoice, ErasPast
  <1>10. (ipc = "mic_test" => ~voiceActive)'
    BY DEF StartVoice, Serving
  <1> QED
    BY <1>5, <1>6, <1>8, <1>9, <1>10

\* A start that fails leaves nobody the owner.
LEMMA StartFailsKeeps ==
    ASSUME VoiceInv, NEW s \in Sessions, StartFails(s)
    PROVE  VoiceInv'
  <1> USE DEF VoiceInv
  <1>1. TypeOK'
    BY DEF StartFails, TypeOK, Serving, EndSession, ActFrom, Returned, NoCallback, BackendStops, leaseVars, CancelFollowUp
  <1>2. OwnerIffActive'
    BY DEF StartFails, OwnerIffActive, EndSession, leaseVars
  <1>3. OneTurnAtATime'
    BY DEF StartFails, TypeOK, OneTurnAtATime, Unfinished, OwnTurns, EndSession, leaseVars, ActFrom
  <1>4. ErasPast'
    BY DEF StartFails, TypeOK, ErasPast, Returned, NoCallback, CancelFollowUp, Eras, leaseVars
  <1>5. (ipc = "mic_test" => ~voiceActive)'
    BY DEF StartFails, Serving, EndSession, leaseVars
  <1> QED
    BY <1>1, <1>2, <1>3, <1>4, <1>5

\* The owner stops: flag, timer, lease and loop go together.
LEMMA StopVoiceKeeps ==
    ASSUME VoiceInv, NEW s \in Sessions, StopVoice(s)
    PROVE  VoiceInv'
  <1> USE DEF VoiceInv
  <1>1. /\ timers' \in [Turns -> TimerRecords] /\ followUp' = Nothing
       /\ \A u \in Turns : /\ timers'[u].era = timers[u].era
                           /\ timers'[u].step = "stopping" <=> timers[u].step = "stopping"
    BY CancelFacts DEF StopVoice, CancelFollowUp
  <1>2. events' \in Seq(Sessions \cup {Nothing}) /\ Len(events') <= Capacity
    BY RecordFacts DEF StopVoice, TypeOK, leaseVars
  <1>3. TypeOK'
    BY <1>1, <1>2 DEF StopVoice, TypeOK, Serving, EndSession, ActFrom, Returned, NoCallback, BackendStops, leaseVars, CancelFollowUp
  <1>4. OwnerIffActive'
    BY <1>1, <1>2 DEF StopVoice, OwnerIffActive, EndSession, leaseVars
  <1>5. OneTurnAtATime'
    BY <1>1, <1>2 DEF StopVoice, TypeOK, OneTurnAtATime, Unfinished, OwnTurns, EndSession, leaseVars, ActFrom
  <1>6. ErasPast'
    BY <1>1, <1>2 DEF StopVoice, TypeOK, ErasPast, Returned, NoCallback, CancelFollowUp, Eras, leaseVars
  <1>7. (ipc = "mic_test" => ~voiceActive)'
    BY <1>1, <1>2 DEF StopVoice, Serving, EndSession, leaseVars
  <1> QED
    BY <1>3, <1>4, <1>5, <1>6, <1>7

\* The microphone test finds no session.
LEMMA CheckMicTestKeeps ==
    ASSUME VoiceInv, CheckMicTest
    PROVE  VoiceInv'
  <1> USE DEF VoiceInv
  <1>1. TypeOK'
    BY DEF CheckMicTest, TypeOK, Serving, EndSession, ActFrom, Returned, NoCallback, BackendStops, leaseVars, CancelFollowUp
  <1>2. OwnerIffActive'
    BY DEF CheckMicTest, OwnerIffActive, EndSession, leaseVars
  <1>3. OneTurnAtATime'
    BY DEF CheckMicTest, TypeOK, OneTurnAtATime, Unfinished, OwnTurns, EndSession, leaseVars, ActFrom
  <1>4. ErasPast'
    BY DEF CheckMicTest, TypeOK, ErasPast, Returned, NoCallback, CancelFollowUp, Eras, leaseVars
  <1>5. (ipc = "mic_test" => ~voiceActive)'
    BY DEF CheckMicTest, Serving, EndSession, leaseVars
  <1> QED
    BY <1>1, <1>2, <1>3, <1>4, <1>5

\* The microphone test starts or fails to.
LEMMA StartMicTestKeeps ==
    ASSUME VoiceInv, StartMicTest
    PROVE  VoiceInv'
  <1> USE DEF VoiceInv
  <1>1. TypeOK'
    BY DEF StartMicTest, TypeOK, Serving, EndSession, ActFrom, Returned, NoCallback, BackendStops, leaseVars, CancelFollowUp
  <1>2. OwnerIffActive'
    BY DEF StartMicTest, OwnerIffActive, EndSession, leaseVars
  <1>3. OneTurnAtATime'
    BY DEF StartMicTest, TypeOK, OneTurnAtATime, Unfinished, OwnTurns, EndSession, leaseVars, ActFrom
  <1>4. ErasPast'
    BY DEF StartMicTest, TypeOK, ErasPast, Returned, NoCallback, CancelFollowUp, Eras, leaseVars
  <1>5. (ipc = "mic_test" => ~voiceActive)'
    BY DEF StartMicTest, Serving, EndSession, leaseVars
  <1> QED
    BY <1>1, <1>2, <1>3, <1>4, <1>5

\* The microphone test stops.
LEMMA StopMicTestKeeps ==
    ASSUME VoiceInv, StopMicTest
    PROVE  VoiceInv'
  <1> USE DEF VoiceInv
  <1>1. TypeOK'
    BY DEF StopMicTest, TypeOK, Serving, EndSession, ActFrom, Returned, NoCallback, BackendStops, leaseVars, CancelFollowUp
  <1>2. OwnerIffActive'
    BY DEF StopMicTest, OwnerIffActive, EndSession, leaseVars
  <1>3. OneTurnAtATime'
    BY DEF StopMicTest, TypeOK, OneTurnAtATime, Unfinished, OwnTurns, EndSession, leaseVars, ActFrom
  <1>4. ErasPast'
    BY DEF StopMicTest, TypeOK, ErasPast, Returned, NoCallback, CancelFollowUp, Eras, leaseVars
  <1>5. (ipc = "mic_test" => ~voiceActive)'
    BY DEF StopMicTest, Serving, EndSession, leaseVars
  <1> QED
    BY <1>1, <1>2, <1>3, <1>4, <1>5

\* The runtime shuts down.
LEMMA ShutdownKeeps ==
    ASSUME VoiceInv, Shutdown
    PROVE  VoiceInv'
  <1> USE DEF VoiceInv
  <1>1. /\ timers' \in [Turns -> TimerRecords] /\ followUp' = Nothing
       /\ \A u \in Turns : /\ timers'[u].era = timers[u].era
                           /\ timers'[u].step = "stopping" <=> timers[u].step = "stopping"
    BY CancelFacts DEF Shutdown, CancelFollowUp
  <1>2. TypeOK'
    BY <1>1 DEF Shutdown, TypeOK, Serving, EndSession, ActFrom, Returned, NoCallback, BackendStops, leaseVars, CancelFollowUp
  <1>3. OwnerIffActive'
    BY <1>1 DEF Shutdown, OwnerIffActive, EndSession, leaseVars
  <1>4. OneTurnAtATime'
    BY <1>1 DEF Shutdown, TypeOK, OneTurnAtATime, Unfinished, OwnTurns, EndSession, leaseVars, ActFrom
  <1>5. ErasPast'
    BY <1>1 DEF Shutdown, TypeOK, ErasPast, Returned, NoCallback, CancelFollowUp, Eras, leaseVars
  <1>6. (ipc = "mic_test" => ~voiceActive)'
    BY <1>1 DEF Shutdown, Serving, EndSession, leaseVars
  <1> QED
    BY <1>2, <1>3, <1>4, <1>5, <1>6

\* Hermes announces something; with the end of the loop the loop is over.
LEMMA HermesCallsKeeps ==
    ASSUME VoiceInv, NEW kind \in {"transcript", "idle"} \cup Ending, HermesCalls(kind)
    PROVE  VoiceInv'
  <1> USE DEF VoiceInv
  <1>1. TypeOK'
    <2>1. callback' \in Callbacks
      BY DEF HermesCalls, TypeOK, Callbacks
    <2>2. listening' \in BOOLEAN
      BY DEF HermesCalls
    <2> QED
      BY <2>1, <2>2 DEF HermesCalls, TypeOK, leaseVars
  <1>2. OwnerIffActive'
    BY DEF HermesCalls, OwnerIffActive, EndSession, leaseVars
  <1>3. OneTurnAtATime'
    BY DEF HermesCalls, TypeOK, OneTurnAtATime, Unfinished, OwnTurns, EndSession, leaseVars, ActFrom
  <1>4. ErasPast'
    BY DEF HermesCalls, TypeOK, ErasPast, Returned, NoCallback, CancelFollowUp, Eras, leaseVars
  <1>5. (ipc = "mic_test" => ~voiceActive)'
    BY DEF HermesCalls, Serving, EndSession, leaseVars
  <1> QED
    BY <1>1, <1>2, <1>3, <1>4, <1>5

\* A partial transcript is shown.
LEMMA OnPartialKeeps ==
    ASSUME VoiceInv, OnPartial
    PROVE  VoiceInv'
  <1> USE DEF VoiceInv
  <1>1. events' \in Seq(Sessions \cup {Nothing}) /\ Len(events') <= Capacity
    BY RecordFacts DEF OnPartial, TypeOK, leaseVars
  <1>2. TypeOK'
    BY <1>1 DEF OnPartial, TypeOK, Serving, EndSession, ActFrom, Returned, NoCallback, BackendStops, leaseVars, CancelFollowUp
  <1>3. OwnerIffActive'
    BY <1>1 DEF OnPartial, OwnerIffActive, EndSession, leaseVars
  <1>4. OneTurnAtATime'
    BY <1>1 DEF OnPartial, TypeOK, OneTurnAtATime, Unfinished, OwnTurns, EndSession, leaseVars, ActFrom
  <1>5. ErasPast'
    BY <1>1 DEF OnPartial, TypeOK, ErasPast, Returned, NoCallback, CancelFollowUp, Eras, leaseVars
  <1>6. (ipc = "mic_test" => ~voiceActive)'
    BY <1>1 DEF OnPartial, Serving, EndSession, leaseVars
  <1> QED
    BY <1>2, <1>3, <1>4, <1>5, <1>6

\* A transcript starts a turn; there is no other of this era unless something crossed.
LEMMA OnTranscriptKeeps ==
    ASSUME VoiceInv, OnTranscript
    PROVE  VoiceInv'
  <1> USE DEF VoiceInv
  <1>1. /\ timers' \in [Turns -> TimerRecords] /\ followUp' = Nothing
       /\ \A u \in Turns : /\ timers'[u].era = timers[u].era
                           /\ timers'[u].step = "stopping" <=> timers[u].step = "stopping"
    BY CancelFacts DEF OnTranscript, CancelFollowUp
  <1>2. turns' \in [Turns -> TurnRecords]
    <2>1. PICK t \in Turns : turns' = [turns EXCEPT ![t] = [step |-> "asking", caller |-> owner, era |-> era]]
      BY DEF OnTranscript
    <2>2. [step |-> "asking", caller |-> owner, era |-> era] \in TurnRecords
      BY DEF TypeOK, TurnRecords, TurnSteps
    <2> QED
      BY <2>1, <2>2 DEF TypeOK
  <1>3. events' \in Seq(Sessions \cup {Nothing}) /\ Len(events') <= Capacity
    BY RecordFacts DEF OnTranscript, TypeOK, leaseVars
  <1>4. callback' \in Callbacks
    BY NoCallbackType DEF OnTranscript, Returned
  <1>5. TypeOK'
    BY <1>1, <1>2, <1>3, <1>4 DEF OnTranscript, TypeOK, Serving, EndSession, ActFrom, Returned, NoCallback, BackendStops, leaseVars, CancelFollowUp
  <1>6. OwnerIffActive'
    BY <1>1, <1>2, <1>3, <1>4 DEF OnTranscript, OwnerIffActive, EndSession, leaseVars
  <1>7. OneTurnAtATime'
    BY <1>1, <1>2, <1>3, <1>4 DEF OnTranscript, TypeOK, OneTurnAtATime, Unfinished, OwnTurns, EndSession, leaseVars, ActFrom
  <1>8. ErasPast'
    BY <1>1, <1>2, <1>3, <1>4 DEF OnTranscript, TypeOK, ErasPast, Returned, NoCallback, CancelFollowUp, Eras, leaseVars
  <1>9. (ipc = "mic_test" => ~voiceActive)'
    BY <1>1, <1>2, <1>3, <1>4 DEF OnTranscript, Serving, EndSession, leaseVars
  <1> QED
    BY <1>5, <1>6, <1>7, <1>8, <1>9

\* A transcript is refused while a turn runs.
LEMMA OnTranscriptBusyKeeps ==
    ASSUME VoiceInv, OnTranscriptBusy
    PROVE  VoiceInv'
  <1> USE DEF VoiceInv
  <1>1. /\ timers' \in [Turns -> TimerRecords] /\ followUp' = Nothing
       /\ \A u \in Turns : /\ timers'[u].era = timers[u].era
                           /\ timers'[u].step = "stopping" <=> timers[u].step = "stopping"
    BY CancelFacts DEF OnTranscriptBusy, CancelFollowUp
  <1>2. events' \in Seq(Sessions \cup {Nothing}) /\ Len(events') <= Capacity
    <2> DEFINE shown == Queued(events, owner)
    <2>1. owner \in Sessions \cup {Nothing} /\ events \in Seq(Sessions \cup {Nothing})
          /\ Len(events) <= Capacity
      BY DEF TypeOK
    <2>2. shown \in Seq(Sessions \cup {Nothing}) /\ Len(shown) <= Capacity
      BY <2>1, QueuedFacts
    <2>3. events' = Queued(shown, Nothing)
      BY DEF OnTranscriptBusy
    <2> HIDE DEF shown
    <2> QED
      BY <2>2, <2>3, QueuedFacts
  <1>3. callback' \in Callbacks
    BY NoCallbackType DEF OnTranscriptBusy, Returned
  <1>4. TypeOK'
    BY <1>1, <1>2, <1>3 DEF OnTranscriptBusy, TypeOK, Serving, EndSession, ActFrom, Returned, NoCallback, BackendStops, leaseVars, CancelFollowUp
  <1>5. OwnerIffActive'
    BY <1>1, <1>2, <1>3 DEF OnTranscriptBusy, OwnerIffActive, EndSession, leaseVars
  <1>6. OneTurnAtATime'
    BY <1>1, <1>2, <1>3 DEF OnTranscriptBusy, TypeOK, OneTurnAtATime, Unfinished, OwnTurns, EndSession, leaseVars, ActFrom
  <1>7. ErasPast'
    BY <1>1, <1>2, <1>3 DEF OnTranscriptBusy, TypeOK, ErasPast, Returned, NoCallback, CancelFollowUp, Eras, leaseVars
  <1>8. (ipc = "mic_test" => ~voiceActive)'
    BY <1>1, <1>2, <1>3 DEF OnTranscriptBusy, Serving, EndSession, leaseVars
  <1> QED
    BY <1>4, <1>5, <1>6, <1>7, <1>8

\* A transcript comes too late.
LEMMA DropTranscriptKeeps ==
    ASSUME VoiceInv, DropTranscript
    PROVE  VoiceInv'
  <1> USE DEF VoiceInv
  <1>1. callback' \in Callbacks
    BY NoCallbackType DEF DropTranscript, Returned
  <1>2. TypeOK'
    BY <1>1 DEF DropTranscript, TypeOK, Serving, EndSession, ActFrom, Returned, NoCallback, BackendStops, leaseVars, CancelFollowUp
  <1>3. OwnerIffActive'
    BY <1>1 DEF DropTranscript, OwnerIffActive, EndSession, leaseVars
  <1>4. OneTurnAtATime'
    BY <1>1 DEF DropTranscript, TypeOK, OneTurnAtATime, Unfinished, OwnTurns, EndSession, leaseVars, ActFrom
  <1>5. ErasPast'
    BY <1>1 DEF DropTranscript, TypeOK, ErasPast, Returned, NoCallback, CancelFollowUp, Eras, leaseVars
  <1>6. (ipc = "mic_test" => ~voiceActive)'
    BY <1>1 DEF DropTranscript, Serving, EndSession, leaseVars
  <1> QED
    BY <1>2, <1>3, <1>4, <1>5, <1>6

\* The loop pauses.
LEMMA OnIdleKeeps ==
    ASSUME VoiceInv, OnIdle
    PROVE  VoiceInv'
  <1> USE DEF VoiceInv
  <1>1. /\ timers' \in [Turns -> TimerRecords] /\ followUp' = Nothing
       /\ \A u \in Turns : /\ timers'[u].era = timers[u].era
                           /\ timers'[u].step = "stopping" <=> timers[u].step = "stopping"
    BY CancelFacts DEF OnIdle, CancelFollowUp
  <1>2. events' \in Seq(Sessions \cup {Nothing}) /\ Len(events') <= Capacity
    BY RecordFacts DEF OnIdle, TypeOK, leaseVars
  <1>3. callback' \in Callbacks
    BY NoCallbackType DEF OnIdle, Returned
  <1>4. TypeOK'
    BY <1>1, <1>2, <1>3 DEF OnIdle, TypeOK, Serving, EndSession, ActFrom, Returned, NoCallback, BackendStops, leaseVars, CancelFollowUp
  <1>5. OwnerIffActive'
    BY <1>1, <1>2, <1>3 DEF OnIdle, OwnerIffActive, EndSession, leaseVars
  <1>6. OneTurnAtATime'
    BY <1>1, <1>2, <1>3 DEF OnIdle, TypeOK, OneTurnAtATime, Unfinished, OwnTurns, EndSession, leaseVars, ActFrom
  <1>7. ErasPast'
    BY <1>1, <1>2, <1>3 DEF OnIdle, TypeOK, ErasPast, Returned, NoCallback, CancelFollowUp, Eras, leaseVars
  <1>8. (ipc = "mic_test" => ~voiceActive)'
    BY <1>1, <1>2, <1>3 DEF OnIdle, Serving, EndSession, leaseVars
  <1> QED
    BY <1>4, <1>5, <1>6, <1>7, <1>8

\* Silence ends the session.
LEMMA OnSilentLimitKeeps ==
    ASSUME VoiceInv, OnSilentLimit
    PROVE  VoiceInv'
  <1> USE DEF VoiceInv
  <1>1. /\ timers' \in [Turns -> TimerRecords] /\ followUp' = Nothing
       /\ \A u \in Turns : /\ timers'[u].era = timers[u].era
                           /\ timers'[u].step = "stopping" <=> timers[u].step = "stopping"
    BY CancelFacts DEF OnSilentLimit, CancelFollowUp
  <1>2. events' \in Seq(Sessions \cup {Nothing}) /\ Len(events') <= Capacity
    BY RecordFacts DEF OnSilentLimit, TypeOK, leaseVars
  <1>3. callback' \in Callbacks
    BY NoCallbackType DEF OnSilentLimit, Returned
  <1>4. TypeOK'
    BY <1>1, <1>2, <1>3 DEF OnSilentLimit, TypeOK, Serving, EndSession, ActFrom, Returned, NoCallback, BackendStops, leaseVars, CancelFollowUp
  <1>5. OwnerIffActive'
    BY <1>1, <1>2, <1>3 DEF OnSilentLimit, OwnerIffActive, EndSession, leaseVars
  <1>6. OneTurnAtATime'
    BY <1>1, <1>2, <1>3 DEF OnSilentLimit, TypeOK, OneTurnAtATime, Unfinished, OwnTurns, EndSession, leaseVars, ActFrom
  <1>7. ErasPast'
    BY <1>1, <1>2, <1>3 DEF OnSilentLimit, TypeOK, ErasPast, Returned, NoCallback, CancelFollowUp, Eras, leaseVars
  <1>8. (ipc = "mic_test" => ~voiceActive)'
    BY <1>1, <1>2, <1>3 DEF OnSilentLimit, Serving, EndSession, leaseVars
  <1> QED
    BY <1>4, <1>5, <1>6, <1>7, <1>8

\* A stop phrase ends the session.
LEMMA OnStopPhraseKeeps ==
    ASSUME VoiceInv, OnStopPhrase
    PROVE  VoiceInv'
  <1> USE DEF VoiceInv
  <1>1. events' \in Seq(Sessions \cup {Nothing}) /\ Len(events') <= Capacity
    BY RecordFacts DEF OnStopPhrase, TypeOK, leaseVars
  <1>2. callback' \in Callbacks
    BY NoCallbackType DEF OnStopPhrase, Returned
  <1>3. TypeOK'
    BY <1>1, <1>2 DEF OnStopPhrase, TypeOK, Serving, EndSession, ActFrom, Returned, NoCallback, BackendStops, leaseVars, CancelFollowUp
  <1>4. OwnerIffActive'
    BY <1>1, <1>2 DEF OnStopPhrase, OwnerIffActive, EndSession, leaseVars
  <1>5. OneTurnAtATime'
    BY <1>1, <1>2 DEF OnStopPhrase, TypeOK, OneTurnAtATime, Unfinished, OwnTurns, EndSession, leaseVars, ActFrom
  <1>6. ErasPast'
    BY <1>1, <1>2 DEF OnStopPhrase, TypeOK, ErasPast, Returned, NoCallback, CancelFollowUp, Eras, leaseVars
  <1>7. (ipc = "mic_test" => ~voiceActive)'
    BY <1>1, <1>2 DEF OnStopPhrase, Serving, EndSession, leaseVars
  <1> QED
    BY <1>3, <1>4, <1>5, <1>6, <1>7

\* The assistant answers.
LEMMA TurnAnsweredKeeps ==
    ASSUME VoiceInv, NEW t \in Turns, TurnAnswered(t)
    PROVE  VoiceInv'
  <1> USE DEF VoiceInv
  <1>1. /\ turns' \in [Turns -> TurnRecords]
       /\ turns'[t].step \in TurnSteps /\ turns'[t].step # "none"
       /\ \A u \in Turns : /\ turns'[u].era = turns[u].era
                           /\ u # t => turns'[u].step = turns[u].step
    BY GoesFacts DEF TurnAnswered, TurnSteps
  <1>2. \A u \in Turns : Unfinished(u)' <=> Unfinished(u)
    BY <1>1, GoesFacts DEF TurnAnswered, Unfinished, TurnSteps
  <1>3. OwnTurns' = OwnTurns
    BY <1>2, <1>1 DEF TurnAnswered, OwnTurns
  <1>4. TypeOK'
    BY <1>1 DEF TurnAnswered, TypeOK, Serving, EndSession, ActFrom, Returned, NoCallback, BackendStops, leaseVars, CancelFollowUp
  <1>5. OwnerIffActive'
    BY <1>1 DEF TurnAnswered, OwnerIffActive, EndSession, leaseVars
  <1>6. OneTurnAtATime'
    BY <1>2, <1>3 DEF TurnAnswered, OneTurnAtATime, ActFrom, leaseVars
  <1>7. ErasPast'
    BY <1>1 DEF TurnAnswered, TypeOK, ErasPast, Returned, NoCallback, CancelFollowUp, Eras, leaseVars
  <1>8. (ipc = "mic_test" => ~voiceActive)'
    BY <1>1 DEF TurnAnswered, Serving, EndSession, leaseVars
  <1> QED
    BY <1>4, <1>5, <1>6, <1>7, <1>8

\* A turn fails.
LEMMA TurnFailsKeeps ==
    ASSUME VoiceInv, NEW t \in Turns, TurnFails(t)
    PROVE  VoiceInv'
  <1> USE DEF VoiceInv
  <1>1. /\ turns' \in [Turns -> TurnRecords]
       /\ turns'[t].step \in TurnSteps /\ turns'[t].step # "none"
       /\ \A u \in Turns : /\ turns'[u].era = turns[u].era
                           /\ u # t => turns'[u].step = turns[u].step
    BY GoesFacts DEF TurnFails, TurnSteps
  <1>2. events' \in Seq(Sessions \cup {Nothing}) /\ Len(events') <= Capacity
    BY RecordFacts DEF TurnFails, TypeOK, leaseVars
  <1>3. \A u \in Turns : Unfinished(u)' <=> Unfinished(u)
    BY <1>1, GoesFacts DEF TurnFails, Unfinished, TurnSteps
  <1>4. OwnTurns' = OwnTurns
    BY <1>3, <1>1 DEF TurnFails, OwnTurns
  <1>5. TypeOK'
    BY <1>1, <1>2 DEF TurnFails, TypeOK, Serving, EndSession, ActFrom, Returned, NoCallback, BackendStops, leaseVars, CancelFollowUp
  <1>6. OwnerIffActive'
    BY <1>1, <1>2 DEF TurnFails, OwnerIffActive, EndSession, leaseVars
  <1>7. OneTurnAtATime'
    BY <1>3, <1>4 DEF TurnFails, OneTurnAtATime, ActFrom, leaseVars
  <1>8. ErasPast'
    BY <1>1, <1>2 DEF TurnFails, TypeOK, ErasPast, Returned, NoCallback, CancelFollowUp, Eras, leaseVars
  <1>9. (ipc = "mic_test" => ~voiceActive)'
    BY <1>1, <1>2 DEF TurnFails, Serving, EndSession, leaseVars
  <1> QED
    BY <1>5, <1>6, <1>7, <1>8, <1>9

\* A reply is shown, or comes too late.
LEMMA TurnRepliesKeeps ==
    ASSUME VoiceInv, NEW t \in Turns, TurnReplies(t)
    PROVE  VoiceInv'
  <1> USE DEF VoiceInv
  <1>1. /\ turns' \in [Turns -> TurnRecords]
       /\ turns'[t].step \in TurnSteps /\ turns'[t].step # "none"
       /\ \A u \in Turns : /\ turns'[u].era = turns[u].era
                           /\ u # t => turns'[u].step = turns[u].step
    BY GoesFacts DEF TurnReplies, TurnSteps
  <1>2. events' \in Seq(Sessions \cup {Nothing}) /\ Len(events') <= Capacity
    <2>1. turns[t].caller \in Sessions \cup {Nothing}
      BY DEF TypeOK, TurnRecords
    <2>2. CASE voiceActive
      BY <2>1, <2>2, RecordFacts DEF TurnReplies
    <2>3. CASE ~voiceActive
      BY <2>3 DEF TurnReplies, TypeOK
    <2> QED
      BY <2>2, <2>3
  <1>3. \A u \in Turns : Unfinished(u)' <=> Unfinished(u)
    BY <1>1, GoesFacts DEF TurnReplies, Unfinished, TurnSteps
  <1>4. OwnTurns' = OwnTurns
    BY <1>3, <1>1 DEF TurnReplies, OwnTurns
  <1>5. TypeOK'
    BY <1>1, <1>2 DEF TurnReplies, TypeOK, Serving, EndSession, ActFrom, Returned, NoCallback, BackendStops, leaseVars, CancelFollowUp
  <1>6. OwnerIffActive'
    BY <1>1, <1>2 DEF TurnReplies, OwnerIffActive, EndSession, leaseVars
  <1>7. OneTurnAtATime'
    BY <1>3, <1>4 DEF TurnReplies, OneTurnAtATime, ActFrom, leaseVars
  <1>8. ErasPast'
    BY <1>1, <1>2 DEF TurnReplies, TypeOK, ErasPast, Returned, NoCallback, CancelFollowUp, Eras, leaseVars
  <1>9. (ipc = "mic_test" => ~voiceActive)'
    BY <1>1, <1>2 DEF TurnReplies, Serving, EndSession, leaseVars
  <1> QED
    BY <1>5, <1>6, <1>7, <1>8, <1>9

\* The reply has been spoken.
LEMMA TurnSpeaksKeeps ==
    ASSUME VoiceInv, NEW t \in Turns, TurnSpeaks(t)
    PROVE  VoiceInv'
  <1> USE DEF VoiceInv
  <1>1. /\ turns' \in [Turns -> TurnRecords]
       /\ turns'[t].step \in TurnSteps /\ turns'[t].step # "none"
       /\ \A u \in Turns : /\ turns'[u].era = turns[u].era
                           /\ u # t => turns'[u].step = turns[u].step
    BY GoesFacts DEF TurnSpeaks, TurnSteps
  <1>2. \A u \in Turns : Unfinished(u)' <=> Unfinished(u)
    BY <1>1, GoesFacts DEF TurnSpeaks, Unfinished, TurnSteps
  <1>3. OwnTurns' = OwnTurns
    BY <1>2, <1>1 DEF TurnSpeaks, OwnTurns
  <1>4. TypeOK'
    BY <1>1 DEF TurnSpeaks, TypeOK, Serving, EndSession, ActFrom, Returned, NoCallback, BackendStops, leaseVars, CancelFollowUp
  <1>5. OwnerIffActive'
    BY <1>1 DEF TurnSpeaks, OwnerIffActive, EndSession, leaseVars
  <1>6. OneTurnAtATime'
    BY <1>2, <1>3 DEF TurnSpeaks, OneTurnAtATime, ActFrom, leaseVars
  <1>7. ErasPast'
    BY <1>1 DEF TurnSpeaks, TypeOK, ErasPast, Returned, NoCallback, CancelFollowUp, Eras, leaseVars
  <1>8. (ipc = "mic_test" => ~voiceActive)'
    BY <1>1 DEF TurnSpeaks, Serving, EndSession, leaseVars
  <1> QED
    BY <1>4, <1>5, <1>6, <1>7, <1>8

\* The follow-up timer is armed in the present era.
LEMMA ScheduleFollowUpKeeps ==
    ASSUME VoiceInv, NEW t \in Turns, ScheduleFollowUp(t)
    PROVE  VoiceInv'
  <1> USE DEF VoiceInv
  <1>1. /\ turns' \in [Turns -> TurnRecords]
       /\ turns'[t].step \in TurnSteps /\ turns'[t].step # "none"
       /\ \A u \in Turns : /\ turns'[u].era = turns[u].era
                           /\ u # t => turns'[u].step = turns[u].step
    BY GoesFacts DEF ScheduleFollowUp, TurnSteps
  <1>2. /\ timers' \in [Turns -> TimerRecords]
       /\ \A u \in Turns : /\ timers'[u].era = IF u = t THEN era ELSE timers[u].era
                           /\ timers'[u].step = "stopping" => u # t /\ timers[u].step = "stopping"
    <2> DEFINE new == [step |-> "armed", era |-> era]
    <2>1. new \in TimerRecords /\ new.step = "armed" /\ new.era = era
      BY DEF TypeOK, TimerRecords, TimerSteps
    <2>2. timers' = [CancelTimer EXCEPT ![t] = new]
      BY DEF ScheduleFollowUp
    <2> HIDE DEF new
    <2> QED
      BY <2>1, <2>2, CancelFacts
  <1>3. events' \in Seq(Sessions \cup {Nothing}) /\ Len(events') <= Capacity
    BY RecordFacts DEF ScheduleFollowUp, TypeOK, leaseVars
  <1>4. \A u \in Turns : Unfinished(u)' <=> Unfinished(u)
    BY <1>1, GoesFacts DEF ScheduleFollowUp, Unfinished, TurnSteps
  <1>5. OwnTurns' = OwnTurns
    BY <1>4, <1>1 DEF ScheduleFollowUp, OwnTurns
  <1>6. TypeOK'
    BY <1>1, <1>2, <1>3 DEF ScheduleFollowUp, TypeOK, Serving, EndSession, ActFrom, Returned, NoCallback, BackendStops, leaseVars, CancelFollowUp
  <1>7. OwnerIffActive'
    BY <1>1, <1>2, <1>3 DEF ScheduleFollowUp, OwnerIffActive, EndSession, leaseVars
  <1>8. OneTurnAtATime'
    BY <1>4, <1>5 DEF ScheduleFollowUp, OneTurnAtATime, ActFrom, leaseVars
  <1>9. ErasPast'
    BY <1>1, <1>2, <1>3 DEF ScheduleFollowUp, TypeOK, ErasPast, Returned, NoCallback, CancelFollowUp, Eras, leaseVars
  <1>10. (ipc = "mic_test" => ~voiceActive)'
    BY <1>1, <1>2, <1>3 DEF ScheduleFollowUp, Serving, EndSession, leaseVars
  <1> QED
    BY <1>6, <1>7, <1>8, <1>9, <1>10

\* The follow-up timer cannot be armed.
LEMMA ScheduleFailsKeeps ==
    ASSUME VoiceInv, NEW t \in Turns, ScheduleFails(t)
    PROVE  VoiceInv'
  <1> USE DEF VoiceInv
  <1>1. /\ turns' \in [Turns -> TurnRecords]
       /\ turns'[t].step \in TurnSteps /\ turns'[t].step # "none"
       /\ \A u \in Turns : /\ turns'[u].era = turns[u].era
                           /\ u # t => turns'[u].step = turns[u].step
    BY GoesFacts DEF ScheduleFails, TurnSteps
  <1>2. /\ timers' \in [Turns -> TimerRecords] /\ followUp' = Nothing
       /\ \A u \in Turns : /\ timers'[u].era = timers[u].era
                           /\ timers'[u].step = "stopping" <=> timers[u].step = "stopping"
    BY CancelFacts DEF ScheduleFails, CancelFollowUp
  <1>3. events' \in Seq(Sessions \cup {Nothing}) /\ Len(events') <= Capacity
    BY RecordFacts DEF ScheduleFails, TypeOK, leaseVars
  <1>4. \A u \in Turns : Unfinished(u)' <=> Unfinished(u)
    BY <1>1, GoesFacts DEF ScheduleFails, Unfinished, TurnSteps
  <1>5. OwnTurns' = OwnTurns
    BY <1>4, <1>1 DEF ScheduleFails, OwnTurns
  <1>6. TypeOK'
    BY <1>1, <1>2, <1>3 DEF ScheduleFails, TypeOK, Serving, EndSession, ActFrom, Returned, NoCallback, BackendStops, leaseVars, CancelFollowUp
  <1>7. OwnerIffActive'
    BY <1>1, <1>2, <1>3 DEF ScheduleFails, OwnerIffActive, EndSession, leaseVars
  <1>8. OneTurnAtATime'
    BY <1>4, <1>5 DEF ScheduleFails, OneTurnAtATime, ActFrom, leaseVars
  <1>9. ErasPast'
    BY <1>1, <1>2, <1>3 DEF ScheduleFails, TypeOK, ErasPast, Returned, NoCallback, CancelFollowUp, Eras, leaseVars
  <1>10. (ipc = "mic_test" => ~voiceActive)'
    BY <1>1, <1>2, <1>3 DEF ScheduleFails, Serving, EndSession, leaseVars
  <1> QED
    BY <1>6, <1>7, <1>8, <1>9, <1>10

\* The session ended under the speech.
LEMMA SpokenTooLateKeeps ==
    ASSUME VoiceInv, NEW t \in Turns, SpokenTooLate(t)
    PROVE  VoiceInv'
  <1> USE DEF VoiceInv
  <1>1. /\ turns' \in [Turns -> TurnRecords]
       /\ turns'[t].step \in TurnSteps /\ turns'[t].step # "none"
       /\ \A u \in Turns : /\ turns'[u].era = turns[u].era
                           /\ u # t => turns'[u].step = turns[u].step
    BY GoesFacts DEF SpokenTooLate, TurnSteps
  <1>2. \A u \in Turns : Unfinished(u)' <=> Unfinished(u)
    BY <1>1, GoesFacts DEF SpokenTooLate, Unfinished, TurnSteps
  <1>3. OwnTurns' = OwnTurns
    BY <1>2, <1>1 DEF SpokenTooLate, OwnTurns
  <1>4. TypeOK'
    BY <1>1 DEF SpokenTooLate, TypeOK, Serving, EndSession, ActFrom, Returned, NoCallback, BackendStops, leaseVars, CancelFollowUp
  <1>5. OwnerIffActive'
    BY <1>1 DEF SpokenTooLate, OwnerIffActive, EndSession, leaseVars
  <1>6. OneTurnAtATime'
    BY <1>2, <1>3 DEF SpokenTooLate, OneTurnAtATime, ActFrom, leaseVars
  <1>7. ErasPast'
    BY <1>1 DEF SpokenTooLate, TypeOK, ErasPast, Returned, NoCallback, CancelFollowUp, Eras, leaseVars
  <1>8. (ipc = "mic_test" => ~voiceActive)'
    BY <1>1 DEF SpokenTooLate, Serving, EndSession, leaseVars
  <1> QED
    BY <1>4, <1>5, <1>6, <1>7, <1>8

\* A turn ends; one of the present era was the only one of it.
LEMMA TurnEndsKeeps ==
    ASSUME VoiceInv, NEW t \in Turns, TurnEnds(t)
    PROVE  VoiceInv'
  <1> USE DEF VoiceInv
  <1>1. /\ turns' \in [Turns -> TurnRecords]
       /\ turns'[t].step \in TurnSteps /\ turns'[t].step # "none"
       /\ \A u \in Turns : /\ turns'[u].era = turns[u].era
                           /\ u # t => turns'[u].step = turns[u].step
    BY GoesFacts DEF TurnEnds, TurnSteps
  <1>2. TypeOK'
    BY <1>1 DEF TurnEnds, TypeOK, Serving, EndSession, ActFrom, Returned, NoCallback, BackendStops, leaseVars, CancelFollowUp
  <1>3. OwnerIffActive'
    BY <1>1 DEF TurnEnds, OwnerIffActive, EndSession, leaseVars
  <1>4. OneTurnAtATime'
    <2>1. ~turnActive' /\ voiceActive' = voiceActive /\ era' = era /\ (~crossed' => ~crossed /\ turns[t].era = era)
      BY DEF TurnEnds, ActFrom
    <2>2. turns'[t].step = "over"
      BY GoesFacts DEF TurnEnds, TurnSteps
    <2>3. OwnTurns' \subseteq OwnTurns \ {t}
      BY <1>1, <2>1, <2>2 DEF OwnTurns, Unfinished
    <2>4. Unfinished(t)
      BY DEF TurnEnds, Unfinished
    <2>5. (voiceActive' /\ ~crossed') => OwnTurns' = {}
      BY <2>1, <2>3, <2>4 DEF OneTurnAtATime, OwnTurns
    <2> QED
      BY <2>1, <2>5 DEF OneTurnAtATime
  <1>5. ErasPast'
    BY <1>1 DEF TurnEnds, TypeOK, ErasPast, Returned, NoCallback, CancelFollowUp, Eras, leaseVars
  <1>6. (ipc = "mic_test" => ~voiceActive)'
    BY <1>1 DEF TurnEnds, Serving, EndSession, leaseVars
  <1> QED
    BY <1>2, <1>3, <1>4, <1>5, <1>6

\* A timer fires.
LEMMA TimerFiresKeeps ==
    ASSUME VoiceInv, NEW t \in Turns, TimerFires(t)
    PROVE  VoiceInv'
  <1> USE DEF VoiceInv
  <1>1. /\ timers' \in [Turns -> TimerRecords]
       /\ \A u \in Turns : /\ timers'[u].era = timers[u].era
                           /\ u # t => timers'[u].step = timers[u].step
    BY TimerGoesFacts DEF TimerFires, TimerSteps
  <1>2. timers'[t].step = "fired"
    BY TimerGoesFacts DEF TimerFires, TimerSteps
  <1>3. TypeOK'
    BY <1>1, <1>2 DEF TimerFires, TypeOK, Serving, EndSession, ActFrom, Returned, NoCallback, BackendStops, leaseVars, CancelFollowUp
  <1>4. OwnerIffActive'
    BY <1>1, <1>2 DEF TimerFires, OwnerIffActive, EndSession, leaseVars
  <1>5. OneTurnAtATime'
    BY <1>1, <1>2 DEF TimerFires, TypeOK, OneTurnAtATime, Unfinished, OwnTurns, EndSession, leaseVars, ActFrom
  <1>6. ErasPast'
    BY <1>1, <1>2 DEF TimerFires, TypeOK, ErasPast, Returned, NoCallback, CancelFollowUp, Eras, leaseVars
  <1>7. (ipc = "mic_test" => ~voiceActive)'
    BY <1>1, <1>2 DEF TimerFires, Serving, EndSession, leaseVars
  <1> QED
    BY <1>3, <1>4, <1>5, <1>6, <1>7

\* An expired timer ends an idle session and will stop the backend.
LEMMA FollowUpExpiredKeeps ==
    ASSUME VoiceInv, NEW t \in Turns, FollowUpExpired(t)
    PROVE  VoiceInv'
  <1> USE DEF VoiceInv
  <1>1. /\ timers' \in [Turns -> TimerRecords]
       /\ \A u \in Turns : /\ timers'[u].era = timers[u].era
                           /\ u # t => timers'[u].step = timers[u].step
    BY TimerGoesFacts DEF FollowUpExpired, TimerSteps
  <1>2. timers'[t].step = IF ~voiceActive \/ turnActive THEN "over" ELSE "stopping"
    BY TimerGoesFacts DEF FollowUpExpired, TimerSteps
  <1>3. events' \in Seq(Sessions \cup {Nothing}) /\ Len(events') <= Capacity
    BY RecordFacts DEF FollowUpExpired, TypeOK, leaseVars
  <1>4. TypeOK'
    BY <1>1, <1>2, <1>3 DEF FollowUpExpired, TypeOK, Serving, EndSession, ActFrom, Returned, NoCallback, BackendStops, leaseVars, CancelFollowUp
  <1>5. OwnerIffActive'
    BY <1>1, <1>2, <1>3 DEF FollowUpExpired, OwnerIffActive, EndSession, leaseVars
  <1>6. OneTurnAtATime'
    BY <1>1, <1>2, <1>3 DEF FollowUpExpired, TypeOK, OneTurnAtATime, Unfinished, OwnTurns, EndSession, leaseVars, ActFrom
  <1>7. ErasPast'
    BY <1>1, <1>2, <1>3 DEF FollowUpExpired, TypeOK, ErasPast, Returned, NoCallback, CancelFollowUp, Eras, leaseVars
  <1>8. (ipc = "mic_test" => ~voiceActive)'
    BY <1>1, <1>2, <1>3 DEF FollowUpExpired, Serving, EndSession, leaseVars
  <1> QED
    BY <1>4, <1>5, <1>6, <1>7, <1>8

\* The timer stops the backend of a session that is over.
LEMMA TimerStopsBackendKeeps ==
    ASSUME VoiceInv, NEW t \in Turns, TimerStopsBackend(t)
    PROVE  VoiceInv'
  <1> USE DEF VoiceInv
  <1>1. /\ timers' \in [Turns -> TimerRecords]
       /\ \A u \in Turns : /\ timers'[u].era = timers[u].era
                           /\ u # t => timers'[u].step = timers[u].step
    BY TimerGoesFacts DEF TimerStopsBackend, TimerSteps
  <1>2. timers'[t].step = "over"
    BY TimerGoesFacts DEF TimerStopsBackend, TimerSteps
  <1>3. TypeOK'
    BY <1>1, <1>2 DEF TimerStopsBackend, TypeOK, Serving, EndSession, ActFrom, Returned, NoCallback, BackendStops, leaseVars, CancelFollowUp
  <1>4. OwnerIffActive'
    BY <1>1, <1>2 DEF TimerStopsBackend, OwnerIffActive, EndSession, leaseVars
  <1>5. OneTurnAtATime'
    BY <1>1, <1>2 DEF TimerStopsBackend, TypeOK, OneTurnAtATime, Unfinished, OwnTurns, EndSession, leaseVars, ActFrom
  <1>6. ErasPast'
    BY <1>1, <1>2 DEF TimerStopsBackend, TypeOK, ErasPast, Returned, NoCallback, CancelFollowUp, Eras, leaseVars
  <1>7. (ipc = "mic_test" => ~voiceActive)'
    BY <1>1, <1>2 DEF TimerStopsBackend, Serving, EndSession, leaseVars
  <1> QED
    BY <1>3, <1>4, <1>5, <1>6, <1>7

\* Every step preserves the invariant.
LEMMA VoiceStep == VoiceInv /\ [Next]_vars => VoiceInv'
  <1> SUFFICES ASSUME VoiceInv, [Next]_vars PROVE VoiceInv'
    OBVIOUS
  <1>1. CASE Client
    BY <1>1, StartVoiceKeeps, StartFailsKeeps, StopVoiceKeeps, CheckMicTestKeeps,
       StartMicTestKeeps, StopMicTestKeeps, ShutdownKeeps DEF Client
  <1>2. CASE Hermes
    BY <1>2, HermesCallsKeeps, OnPartialKeeps, OnTranscriptKeeps, OnTranscriptBusyKeeps,
       DropTranscriptKeeps, OnIdleKeeps, OnSilentLimitKeeps, OnStopPhraseKeeps
       DEF Hermes, Callback
  <1>3. ASSUME NEW t \in Turns, Turn(t) PROVE VoiceInv'
    BY <1>3, TurnAnsweredKeeps, TurnFailsKeeps, TurnRepliesKeeps, TurnSpeaksKeeps,
       ScheduleFollowUpKeeps, ScheduleFailsKeeps, SpokenTooLateKeeps, TurnEndsKeeps DEF Turn
  <1>4. ASSUME NEW t \in Turns, Timer(t) PROVE VoiceInv'
    BY <1>4, TimerFiresKeeps, FollowUpExpiredKeeps, TimerStopsBackendKeeps DEF Timer
  <1>5. CASE UNCHANGED vars
    BY <1>5 DEF VoiceInv, TypeOK, OwnerIffActive, OneTurnAtATime, Unfinished, OwnTurns,
                ErasPast, vars, leaseVars
  <1> QED
    BY <1>1, <1>2, <1>3, <1>4, <1>5 DEF Next

\* The inductive invariant holds of every behaviour.
THEOREM VoiceInvariance == Spec => []VoiceInv
  <1> QED
    BY VoiceInitially, VoiceStep, PTL DEF Spec

\* An owner exactly while voice is active: the lease is never lost or stuck.
THEOREM LeaseHeldWhileActive == Spec => []OwnerIffActive
  <1>1. VoiceInv => OwnerIffActive
    BY DEF VoiceInv
  <1> QED
    BY <1>1, VoiceInvariance, PTL

\* At most one turn of the active session, with the flag up, until something
\* of an earlier session acts.
THEOREM TurnsAreSerial == Spec => []OneTurnAtATime
  <1>1. VoiceInv => OneTurnAtATime
    BY DEF VoiceInv
  <1> QED
    BY <1>1, VoiceInvariance, PTL

\* A follow-up timer does not end a session under its own turn, until something
\* of an earlier session acts.
THEOREM TimersSpareTurns == Spec => FollowUpSparesTurns
  <1> DEFINE Spared == \A t \in Turns :
          (FollowUpExpired(t) /\ voiceActive /\ ~voiceActive' /\ ~crossed') => OwnTurns = {}
  <1>1. VoiceInv /\ [Next]_vars => [Spared]_vars
    <2> SUFFICES ASSUME VoiceInv, NEW t \in Turns, FollowUpExpired(t), voiceActive,
                        ~voiceActive', ~crossed'
                 PROVE  OwnTurns = {}
      OBVIOUS
    <2>1. ~turnActive
      BY DEF FollowUpExpired, leaseVars
    <2>2. ~crossed
      BY DEF FollowUpExpired, ActFrom
    <2> QED
      BY <2>1, <2>2 DEF VoiceInv, OneTurnAtATime
  <1> QED
    BY <1>1, VoiceInvariance, PTL DEF Spec, FollowUpSparesTurns

\* A microphone test starts no recorder while a session is active.
THEOREM MicTestIsExclusive == Spec => MicTestKeepsOut
  <1>1. VoiceInv /\ [Next]_vars => [(~mic /\ mic') => ~voiceActive]_vars
    <2> SUFFICES ASSUME VoiceInv, Next, ~mic, mic' PROVE ~voiceActive
      OBVIOUS
    <2>1. CASE StartMicTest
      BY <2>1 DEF StartMicTest, VoiceInv
    <2>2. CASE Client /\ ~StartMicTest
      BY <2>2 DEF Client, StartVoice, StartFails, StopVoice, CheckMicTest, StopMicTest, Shutdown
    <2>3. CASE Hermes
      BY <2>3 DEF Hermes, Callback, HermesCalls, OnPartial, OnTranscript, OnTranscriptBusy,
                  DropTranscript, OnIdle, OnSilentLimit, OnStopPhrase
    <2>4. ASSUME NEW t \in Turns, Turn(t) PROVE ~voiceActive
      BY <2>4 DEF Turn, TurnAnswered, TurnFails, TurnReplies, TurnSpeaks, ScheduleFollowUp,
                  ScheduleFails, SpokenTooLate, TurnEnds
    <2>5. ASSUME NEW t \in Turns, Timer(t) PROVE ~voiceActive
      BY <2>5 DEF Timer, TimerFires, FollowUpExpired, TimerStopsBackend
    <2> QED
      BY <2>1, <2>2, <2>3, <2>4, <2>5 DEF Next
  <1> QED
    BY <1>1, VoiceInvariance, PTL DEF Spec, MicTestKeepsOut

=============================================================================
