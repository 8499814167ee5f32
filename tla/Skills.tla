-------------------------------- MODULE Skills --------------------------------
(***************************************************************************)
(* SkillManager and its gateway in skill_manager.py, and the ledger it     *)
(* writes to together with another thread.  One request is served at a     *)
(* time; an import takes several steps, the chosen folder may change       *)
(* during it, and any step may fail or be the last one before the process  *)
(* dies.  The directories, the configuration and the lock file survive.    *)
(*                                                                         *)
(* Hermes is external: the quarantine, the scan, the move into the active  *)
(* directory, the lock file, the set of disabled names.  A Hermes command  *)
(* of the user, which takes no lock of this process, may remove a managed  *)
(* skill or install one.                                                   *)
(***************************************************************************)
EXTENDS Audit, FiniteSets

CONSTANTS Manager,      \* the thread of the normal endpoint
          Names, Bodies,
          Allowed,      \* bodies should_allow_install accepts
          Empty,        \* no skill
          MaxChanges    \* bound: changes from outside

ASSUME SkillsAssumption == Manager \in Writers /\ Allowed \subseteq Bodies

Bundle == [name : Names, body : Bodies]

VARIABLES source,       \* the folder the user selects
          pc,           \* where the request being served is
          files,        \* the files collected from the folder
          quarantine,   \* the quarantined bundle of a name
          active,       \* the bundle in the active directory of a name
          managed,      \* names in HubLockFile
          disabled,     \* disabled names in the configuration
          outcome,      \* what the request came to
          changes,
          enabled,      \* history: names made visible by the user since an import
          answered      \* history: events whose request was answered as it ended

diskVars == <<quarantine, active, managed, disabled>>
vars == <<auditVars, source, pc, files, diskVars, outcome, changes, enabled, answered>>

TypeOK ==
    /\ AuditTypeOK
    /\ source \in Bundle \cup {Empty} /\ files \in Bundle \cup {Empty}
    /\ pc \in {"idle", "quarantine", "scan", "disable", "verify", "install", "move", "lock",
              "audit"}
    /\ quarantine \in [Names -> Bundle \cup {Empty}]
    /\ active \in [Names -> Bundle \cup {Empty}]
    /\ managed \subseteq Names /\ disabled \subseteq Names /\ enabled \subseteq Names
    /\ outcome \in {"none", "done", "denied", "failed"}
    /\ changes \in 0..MaxChanges /\ answered \subseteq 1..MaxRecords

Init ==
    /\ AuditInit
    /\ source \in Bundle \cup {Empty}
    /\ pc = "idle" /\ files = Empty /\ outcome = "none"
    /\ quarantine = [n \in Names |-> Empty]
    /\ active = [n \in Names |-> Empty]
    /\ managed = {} /\ disabled = {} /\ enabled = {} /\ answered = {} /\ changes = 0

Exists(n) == active[n] # Empty

\* The request is over but for its event.
End(how) == pc' = "audit" /\ outcome' = how

Go(step) == pc' = step /\ UNCHANGED outcome

Idle == pc = "idle" /\ stage[Manager] = "none" /\ stamps < MaxRecords

----------------------------------------------------------------------------
\* skill-import

\* _collect_files and the front matter: a folder without a valid SKILL.md is
\* refused, every other is held in memory from here on.
Collect ==
    /\ Idle
    /\ files' = source
    /\ IF source = Empty THEN End("denied") ELSE Go("quarantine")
    /\ UNCHANGED <<auditVars, source, diskVars, changes, enabled, answered>>

Quarantine ==
    /\ pc = "quarantine" /\ Go("scan")
    /\ quarantine' = [quarantine EXCEPT ![files.name] = files]
    /\ UNCHANGED <<auditVars, source, files, active, managed, disabled, changes,
                   enabled, answered>>

\* A blocked bundle stays in quarantine.
Scan ==
    /\ pc = "scan"
    /\ IF quarantine[files.name].body \in Allowed THEN Go("disable") ELSE End("denied")
    /\ UNCHANGED <<auditVars, source, files, diskVars, changes, enabled, answered>>

PersistDisabled ==
    /\ pc = "disable" /\ Go("verify")
    /\ disabled' = disabled \cup {files.name}
    /\ UNCHANGED <<auditVars, source, files, quarantine, active, managed, changes,
                   enabled, answered>>

\* Mutant: the name is not disabled before the bundle is installed.
VerifyTrusting ==
    /\ pc = "disable" /\ Go("install")
    /\ UNCHANGED <<auditVars, source, files, diskVars, changes, enabled, answered>>

VerifyDisabled ==
    /\ pc = "verify"
    /\ IF files.name \in disabled THEN Go("install") ELSE End("denied")
    /\ UNCHANGED <<auditVars, source, files, diskVars, changes, enabled, answered>>

\* Mutant: the folder is read again instead of the quarantined bundle.
MoveSource ==
    /\ pc = "move" /\ Go("lock") /\ source # Empty
    /\ active' = [active EXCEPT ![files.name] = source]
    /\ quarantine' = [quarantine EXCEPT ![files.name] = Empty]
    /\ enabled' = enabled \ {files.name}
    /\ UNCHANGED <<auditVars, source, files, managed, disabled, changes, answered>>

\* install: no skill is looked for under that name yet.
LookForTarget ==
    /\ pc = "install"
    /\ IF Exists(files.name) THEN End("denied") ELSE Go("move")
    /\ UNCHANGED <<auditVars, source, files, diskVars, changes, enabled, answered>>

\* install_from_quarantine moves the bundle; the lock file is written next.
Move ==
    /\ pc = "move" /\ Go("lock")
    /\ active' = [active EXCEPT ![files.name] = quarantine[files.name]]
    /\ quarantine' = [quarantine EXCEPT ![files.name] = Empty]
    /\ enabled' = enabled \ {files.name}
    /\ UNCHANGED <<auditVars, source, files, managed, disabled, changes, answered>>

\* A Hermes command installed the name since: what Hermes makes of that is its
\* own, it refuses or it replaces what is there.
MoveRefused ==
    /\ pc = "move" /\ Exists(files.name) /\ End("failed")
    /\ UNCHANGED <<auditVars, source, files, diskVars, changes, enabled, answered>>

RecordInstall ==
    /\ pc = "lock" /\ End("done")
    /\ managed' = managed \cup {files.name}
    /\ UNCHANGED <<auditVars, source, files, quarantine, active, disabled, changes,
                   enabled, answered>>

\* OSError, TypeError or ValueError out of a call of Hermes.
StepFails ==
    /\ pc \in {"quarantine", "scan", "disable", "verify", "install", "move", "lock"}
    /\ faults < MaxFaults /\ faults' = faults + 1
    /\ End("failed")
    /\ UNCHANGED <<lines, written, holder, temps, stage, event, stamps, source, files,
                   diskVars, changes, enabled, answered>>

----------------------------------------------------------------------------
\* The other requests

\* skill-enable and skill-disable: only a name in the lock file.
SetEnabled(n, on) ==
    /\ Idle
    /\ IF n \in managed
       THEN /\ End("done")
            /\ disabled' = IF on THEN disabled \ {n} ELSE disabled \cup {n}
            /\ enabled' = IF on THEN enabled \cup {n} ELSE enabled \ {n}
       ELSE End("denied") /\ UNCHANGED <<disabled, enabled>>
    /\ UNCHANGED <<auditVars, source, files, quarantine, active, managed, changes,
                   answered>>

\* skills-list, and skill-preview or skill-scan of name n: they change nothing.
List ==
    /\ Idle /\ End("done")
    /\ UNCHANGED <<auditVars, source, files, diskVars, changes, enabled, answered>>

Inspect(n) ==
    /\ Idle
    /\ End(IF n \in managed /\ Exists(n) THEN "done" ELSE "denied")
    /\ UNCHANGED <<auditVars, source, files, diskVars, changes, enabled, answered>>

----------------------------------------------------------------------------
\* __call__: the event, then the answer

RecordEvent ==
    /\ pc = "audit" /\ Stamp(Manager)
    /\ UNCHANGED <<source, pc, files, diskVars, outcome, changes, enabled, answered>>

\* Mutant: the answer does not wait for the ledger.
AnswerEarly ==
    /\ pc = "audit" /\ stage[Manager] = "stamped"
    /\ stage' = [stage EXCEPT ![Manager] = "none"]
    /\ pc' = "idle" /\ outcome' = "none" /\ files' = Empty
    /\ answered' = answered \cup {event[Manager]}
    /\ UNCHANGED <<lines, written, holder, event, stamps, temps, faults, source, files,
                   diskVars, changes, enabled>>

\* A failed record leaves __call__ by an exception: the endpoint answers
\* "internal_error", whatever the request has changed.
Answer ==
    /\ pc = "audit" /\ Return(Manager)
    /\ pc' = "idle" /\ outcome' = "none" /\ files' = Empty
    /\ answered' = IF stage[Manager] = "recorded" THEN answered \cup {event[Manager]} ELSE answered
    /\ UNCHANGED <<source, diskVars, changes, enabled>>

----------------------------------------------------------------------------
\* What happens around the manager

\* The other thread records the event of a confirmation or a turn.
OtherRecords ==
    /\ \E w \in Writers \ {Manager} : Stamp(w) \/ Return(w)
    /\ UNCHANGED <<source, pc, files, diskVars, outcome, changes, enabled, answered>>

LedgerStep ==
    /\ \E w \in Writers : Recording(w)
    /\ UNCHANGED <<source, pc, files, diskVars, outcome, changes, enabled, answered>>

EditSource ==
    /\ changes < MaxChanges /\ changes' = changes + 1
    /\ source' \in (Bundle \cup {Empty}) \ {source}
    /\ UNCHANGED <<auditVars, pc, files, diskVars, outcome, enabled, answered>>

\* The user removes a managed skill with Hermes; its name stays as it was in the
\* set of disabled ones.
Uninstall(n) ==
    /\ n \in managed /\ changes < MaxChanges /\ changes' = changes + 1
    /\ managed' = managed \ {n}
    /\ active' = [active EXCEPT ![n] = Empty]
    /\ UNCHANGED <<auditVars, source, pc, files, quarantine, disabled, outcome, enabled,
                   answered>>

\* The user installs a skill with Hermes, whose own scan accepts it.
Install(n) ==
    /\ ~Exists(n) /\ changes < MaxChanges /\ changes' = changes + 1
    /\ \E b \in Allowed : active' = [active EXCEPT ![n] = [name |-> n, body |-> b]]
    /\ managed' = managed \cup {n} /\ enabled' = enabled \cup {n}
    /\ UNCHANGED <<auditVars, source, pc, files, quarantine, disabled, outcome, answered>>

Crash ==
    /\ AuditCrash
    /\ pc' = "idle" /\ outcome' = "none" /\ files' = Empty
    /\ UNCHANGED <<source, diskVars, changes, enabled, answered>>

Next ==
    \/ Collect \/ Quarantine \/ Scan \/ PersistDisabled \/ VerifyDisabled
    \/ LookForTarget \/ Move \/ MoveRefused \/ RecordInstall \/ StepFails
    \/ \E n \in Names, on \in BOOLEAN : SetEnabled(n, on)
    \/ List \/ \E n \in Names : Inspect(n)
    \/ RecordEvent \/ Answer
    \/ OtherRecords \/ LedgerStep
    \/ EditSource \/ \E n \in Names : Uninstall(n) \/ Install(n)
    \/ Crash

Spec == Init /\ [][Next]_vars

----------------------------------------------------------------------------

\* What Hermes offers to a conversation.
Visible == {n \in Names : Exists(n) /\ n \notin disabled}

\* A skill is visible to Hermes only if a request enabled it, or the user
\* installed it with Hermes, after its last import: no crash, failed step or
\* earlier life of the name lets an import be seen by itself
\* (SkillManager._import_local).
VisibleOnlyEnabled == Visible \subseteq enabled

\* What is in the active directory is what the scan accepted, under the name it
\* declares, whatever became of the folder meanwhile.
InstalledAsScanned ==
    \A n \in Names : Exists(n) => active[n].name = n /\ active[n].body \in Allowed

\* A request that was answered, other than with "internal_error", has its event
\* in the ledger, until as many newer lines were written as the ledger keeps.
AnsweredOnLedger ==
    \A e \in answered :
        \/ \E i \in DOMAIN lines : lines[i].event = e
        \/ \E i \in DOMAIN written : written[i].event = e /\ Len(written) - i >= MaxEvents

=============================================================================
