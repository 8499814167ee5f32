-------------------------------- MODULE Audit --------------------------------
(***************************************************************************)
(* AuditLedger of audit.py: a file of one line per event, appended to and  *)
(* trimmed under a lock that the threads of one process share.  A write    *)
(* may fail or be cut short, and the process may die, anywhere: the file   *)
(* then ends in a line without its newline, and the next event is written  *)
(* behind it on the same line.                                             *)
(*                                                                         *)
(* An event is its number, in the order the timestamps are taken.  The     *)
(* bound in bytes is left out: it drops the same oldest lines.             *)
(***************************************************************************)
EXTENDS Naturals, SequencesExt

CONSTANTS Writers,      \* threads that record events
          Nobody,
          MaxEvents,    \* max_events
          MaxRecords,   \* bound: events recorded
          MaxFaults     \* bound: failed calls and deaths of the process

ASSUME AuditAssumption ==
    /\ Nobody \notin Writers
    /\ MaxEvents \in Nat \ {0} /\ MaxRecords \in Nat /\ MaxFaults \in Nat

VARIABLES lines,        \* the file
          holder,       \* _lock
          temps,        \* temporary files in the directory
          stage,        \* where a thread is in record
          event,        \* the event it records
          stamps,       \* timestamps taken
          faults,
          written       \* history: every line ever written

auditVars == <<lines, holder, temps, stage, event, stamps, faults, written>>

Line == [event : 0..MaxRecords, kind : {"whole", "torn", "merged"}]

Stages == {"none", "stamped", "appended", "trimming", "recorded", "raised"}

AuditTypeOK ==
    /\ lines \in Seq(Line) /\ written \in Seq(Line)
    /\ holder \in Writers \cup {Nobody}
    /\ stage \in [Writers -> Stages]
    /\ event \in [Writers -> 0..MaxRecords]
    /\ temps \in 0..MaxFaults + 1 /\ stamps \in 0..MaxRecords /\ faults \in 0..MaxFaults

AuditInit ==
    /\ lines = <<>> /\ written = <<>> /\ holder = Nobody /\ temps = 0
    /\ stage = [w \in Writers |-> "none"]
    /\ event = [w \in Writers |-> 0]
    /\ stamps = 0 /\ faults = 0

TornEnd(file) == file # <<>> /\ Last(file).kind = "torn"

\* The bytes of event e written at the end of a file, completely or in part.
Put(file, e) ==
    IF TornEnd(file)
    THEN Append(Front(file), [event |-> e, kind |-> "merged"])
    ELSE Append(file, [event |-> e, kind |-> "whole"])

PutPart(file) ==
    IF TornEnd(file) THEN file ELSE Append(file, [event |-> 0, kind |-> "torn"])

Stage(w, s) == stage' = [stage EXCEPT ![w] = s]

\* The timestamp is taken before the lock.
Stamp(w) ==
    /\ stage[w] = "none" /\ stamps < MaxRecords
    /\ Stage(w, "stamped")
    /\ stamps' = stamps + 1
    /\ event' = [event EXCEPT ![w] = stamps + 1]
    /\ UNCHANGED <<lines, written, holder, temps, faults>>

AppendLine(w) ==
    /\ stage[w] = "stamped" /\ holder = Nobody
    /\ Stage(w, "appended") /\ holder' = w
    /\ lines' = Put(lines, event[w]) /\ written' = Put(written, event[w])
    /\ UNCHANGED <<event, stamps, temps, faults>>

\* OSError of open, write or chmod: nothing, a part or the whole line is there.
AppendFails(w) ==
    /\ stage[w] = "stamped" /\ holder = Nobody /\ faults < MaxFaults
    /\ Stage(w, "raised") /\ faults' = faults + 1
    /\ \/ UNCHANGED <<lines, written>>
       \/ lines' = PutPart(lines) /\ written' = PutPart(written)
       \/ lines' = Put(lines, event[w]) /\ written' = Put(written, event[w])
    /\ UNCHANGED <<holder, event, stamps, temps>>

\* _trim_locked finds the file within its bound.
NothingToTrim(w) ==
    /\ stage[w] = "appended" /\ Len(lines) <= MaxEvents
    /\ Stage(w, "recorded") /\ holder' = Nobody
    /\ UNCHANGED <<lines, written, event, stamps, temps, faults>>

\* mkstemp, and the retained lines written to it.
Rewrite(w) ==
    /\ stage[w] = "appended" /\ Len(lines) > MaxEvents
    /\ Stage(w, "trimming") /\ temps' = temps + 1
    /\ UNCHANGED <<lines, written, holder, event, stamps, faults>>

Retained == SubSeq(lines, Len(lines) - MaxEvents + 1, Len(lines))

\* Mutant: the lines that are kept are the first ones.
ReplaceOldest(w) ==
    /\ stage[w] = "trimming"
    /\ Stage(w, "recorded") /\ holder' = Nobody
    /\ lines' = SubSeq(lines, 1, MaxEvents) /\ temps' = temps - 1
    /\ UNCHANGED <<written, event, stamps, faults>>

\* os.replace: the file is the old one or the new one.
Replace(w) ==
    /\ stage[w] = "trimming"
    /\ Stage(w, "recorded") /\ holder' = Nobody
    /\ lines' = Retained /\ temps' = temps - 1
    /\ UNCHANGED <<written, event, stamps, faults>>

\* An error between the append and the replace: the temporary file is removed.
TrimFails(w) ==
    /\ stage[w] \in {"appended", "trimming"} /\ faults < MaxFaults
    /\ Stage(w, "raised") /\ holder' = Nobody /\ faults' = faults + 1
    /\ temps' = IF stage[w] = "trimming" THEN temps - 1 ELSE temps
    /\ UNCHANGED <<lines, written, event, stamps>>

Recording(w) ==
    \/ AppendLine(w) \/ AppendFails(w)
    \/ NothingToTrim(w) \/ Rewrite(w) \/ Replace(w) \/ TrimFails(w)

\* The caller has the result of record.
Return(w) ==
    /\ stage[w] \in {"recorded", "raised"}
    /\ Stage(w, "none")
    /\ event' = [event EXCEPT ![w] = 0]
    /\ UNCHANGED <<lines, written, holder, stamps, temps, faults>>

\* The process dies, perhaps in the middle of a write, and is started again.
AuditCrash ==
    /\ faults < MaxFaults /\ faults' = faults + 1
    /\ \/ UNCHANGED <<lines, written>>
       \/ /\ holder = Nobody /\ \E w \in Writers : stage[w] = "stamped"
          /\ lines' = PutPart(lines) /\ written' = PutPart(written)
    /\ stage' = [w \in Writers |-> "none"]
    /\ event' = [w \in Writers |-> 0]
    /\ holder' = Nobody
    /\ UNCHANGED <<stamps, temps>>

----------------------------------------------------------------------------

\* The ledger is the newest part of what was written, never less than the
\* bound allows and, but for calls that failed, never more: a failed or
\* interrupted trim loses nothing (AuditLedger._trim_locked).
LedgerKeepsNewest ==
    /\ IsSuffix(lines, written)
    /\ Len(lines) >= IF Len(written) < MaxEvents THEN Len(written) ELSE MaxEvents
    /\ Len(lines) <= MaxEvents + faults + (IF holder = Nobody THEN 0 ELSE 1)

=============================================================================
