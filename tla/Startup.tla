------------------------------- MODULE Startup -------------------------------
(***************************************************************************)
(* main of runtime_service.py from its first line to the service: several  *)
(* launches fill one Library, take one credential, and then one of them    *)
(* serves.  Nothing keeps two launches apart before the endpoints do, and  *)
(* each may be killed between any two steps.  A serving runtime, Hermes    *)
(* inside it, and another Hermes in ~/.hermes change their files; the      *)
(* --rotate-credential command is a process of its own.                    *)
(*                                                                         *)
(* What the service itself does is RuntimeService's: here it serves until  *)
(* it stops or is killed, and a launch that finds another one serving is   *)
(* refused.                                                                *)
(***************************************************************************)
EXTENDS Library, Credential, FiniteSets, Naturals

CONSTANTS Launches,
          InitialSources, InitialLibraries,
          MaxEdits      \* bound: changes made by the Hermes of either place

ASSUME StartupAssumption ==
    /\ InitialSources \subseteq [Sources -> Trees \cup {Nothing}]
    /\ InitialLibraries \subseteq [Groups -> Trees \cup {Nothing}]
    /\ MaxEdits \in Nat

VARIABLES at,           \* where a launch is
          group,        \* the tree group it migrates
          left,         \* sources it has still to copy
          staging,      \* its staging directory, which outlives a crash
          completed,    \* migration_already_completed
          plan,         \* prepared: the files it has still to forward
          kept,         \* the configuration it read
          secret,       \* runtime_credential
          endpoints,    \* the two socket files are there
          rotation,     \* where the rotation command is
          edits,
          reason,       \* history: why a launch failed
          clash,        \* history: the files it failed over
          met,          \* history: launches that lived beside another one
          outdated      \* history: launches that lived when the credential was replaced

launchVars == <<at, group, left, staging, completed, plan, kept, secret>>
history    == <<reason, clash, met, outdated>>
vars == <<libraryVars, credentialVars, launchVars, endpoints, rotation, edits, history>>

Steps == {"absent", "boot", "match", "copy", "publish", "forward", "write_plan", "report",
          "language", "write_language", "load", "create", "write", "open", "serve",
          "failed", "gone", "killed"}

LaunchTypeOK ==
    /\ at \in [Launches -> Steps]
    /\ group \in [Launches -> Groups]
    /\ left \in [Launches -> SUBSET Sources]
    /\ staging \in [Launches -> Trees \cup {Nothing}]
    /\ completed \in [Launches -> BOOLEAN]
    /\ plan \in [Launches -> Trees]
    /\ kept \in [Launches -> Configs \cup {Nothing}]
    /\ secret \in [Launches -> Secrets \cup {Absent}]

HistoryTypeOK ==
    /\ reason \in [Launches -> {"none", "conflict", "sources", "published", "forward",
                                "malformed", "active"}]
    /\ clash \in [Launches -> SUBSET FileNames]
    /\ met \subseteq Launches /\ outdated \subseteq Launches

TypeOK ==
    /\ LibraryTypeOK /\ CredentialTypeOK /\ LaunchTypeOK /\ HistoryTypeOK
    /\ endpoints \in BOOLEAN /\ rotation \in {"none", "checked", "done"}
    /\ edits \in 0..MaxEdits

Init ==
    /\ source \in InitialSources /\ library \in InitialLibraries /\ ready = FALSE
    /\ CredentialInit
    /\ at = [p \in Launches |-> "absent"]
    /\ group = [p \in Launches |-> "hermes"]
    /\ left = [p \in Launches |-> {}]
    /\ staging = [p \in Launches |-> Nothing]
    /\ completed = [p \in Launches |-> FALSE]
    /\ plan = [p \in Launches |-> EmptyTree]
    /\ kept = [p \in Launches |-> Nothing]
    /\ secret = [p \in Launches |-> Absent]
    /\ endpoints = FALSE /\ rotation = "none" /\ edits = 0
    /\ reason = [p \in Launches |-> "none"]
    /\ clash = [p \in Launches |-> {}]
    /\ met = {} /\ outdated = {}

Alive(p) == at[p] \notin {"absent", "failed", "gone", "killed"}

Others(p) == {q \in Launches \ {p} : Alive(q)}

Go(p, step) == at' = [at EXCEPT ![p] = step]

Fail(p, why, files) ==
    /\ Go(p, "failed")
    /\ reason' = [reason EXCEPT ![p] = why]
    /\ clash' = [clash EXCEPT ![p] = files]

NoFailure == UNCHANGED <<reason, clash>>

Outside == <<endpoints, rotation, edits, met, outdated>>

----------------------------------------------------------------------------
\* prepare_library_state

Launch(p) ==
    /\ at[p] = "absent" /\ Go(p, "boot")
    /\ met' = IF Others(p) = {} THEN met ELSE met \cup Others(p) \cup {p}
    /\ UNCHANGED <<libraryVars, credentialVars, group, left, staging, completed, plan, kept,
                   secret, endpoints, rotation, edits, reason, clash, outdated>>

\* Mutant: the marker is written first.
BootMarks(p) ==
    /\ at[p] = "boot" /\ Go(p, "match")
    /\ completed' = [completed EXCEPT ![p] = ready]
    /\ ready' = TRUE
    /\ UNCHANGED <<source, library, credentialVars, group, left, staging, plan, kept, secret,
                   Outside, reason, clash>>

\* The marker of an earlier launch is read before anything is done.
Boot(p) ==
    /\ at[p] = "boot" /\ Go(p, "match")
    /\ completed' = [completed EXCEPT ![p] = ready]
    /\ UNCHANGED <<libraryVars, credentialVars, group, left, staging, plan, kept, secret,
                   Outside, reason, clash>>

\* After the group "hermes" come the files of ~/.hermes, after "models" the
\* marker.
GroupDone(p) == Go(p, IF group[p] = "hermes" THEN "forward" ELSE "report") /\ NoFailure

Differing(g) ==
    {f \in FileNames : \E s \in Existing(g) :
        f \in DOMAIN source[s] /\ ~(f \in DOMAIN library[g] /\ library[g][f] = source[s][f])}

\* _migrate_tree_group: a tree that is there is compared with every source, by
\* every launch; one that is not is staged.
Match(p) ==
    /\ at[p] = "match"
    /\ LET g == group[p] IN
        \/ /\ Existing(g) = {}
           /\ Install(g, Ensured(g)) /\ GroupDone(p) /\ UNCHANGED <<left, staging>>
        \/ /\ Existing(g) # {} /\ library[g] # Nothing
           /\ IF \A s \in Existing(g) : AgreesWith(source[s], library[g]) THEN GroupDone(p)
              ELSE Fail(p, "conflict", Differing(g))
           /\ UNCHANGED <<library, left, staging>>
        \/ /\ Existing(g) # {} /\ library[g] = Nothing
           /\ staging' = [staging EXCEPT ![p] = EmptyTree]
           /\ left' = [left EXCEPT ![p] = Existing(g)]
           /\ Go(p, "copy") /\ NoFailure /\ UNCHANGED library
    /\ UNCHANGED <<source, ready, credentialVars, group, completed, plan, kept, secret, Outside>>

\* "home" is copied before "automation".
First(sources) == IF "home" \in sources THEN "home" ELSE CHOOSE s \in sources : TRUE

\* Mutant: the first source is put in place before the second is copied.
CopyEarly(p) ==
    /\ at[p] = "copy"
    /\ LET s == First(left[p]) IN
        /\ staging' = [staging EXCEPT ![p] = Copied(source[s], @)]
        /\ left' = [left EXCEPT ![p] = {}]
        /\ Go(p, "publish") /\ NoFailure
    /\ UNCHANGED <<libraryVars, credentialVars, group, completed, plan, kept, secret, Outside>>

\* One source after the other; an error removes the staging directory.
Copy(p) ==
    /\ at[p] = "copy"
    /\ LET s == First(left[p]) IN
        IF Compatible(source[s], staging[p])
        THEN /\ staging' = [staging EXCEPT ![p] = Copied(source[s], @)]
             /\ left' = [left EXCEPT ![p] = @ \ {s}]
             /\ Go(p, IF left[p] = {s} THEN "publish" ELSE "copy") /\ NoFailure
        ELSE /\ staging' = [staging EXCEPT ![p] = Nothing]
             /\ Fail(p, "sources", DOMAIN source[s] \cap DOMAIN staging[p])
             /\ UNCHANGED left
    /\ UNCHANGED <<libraryVars, credentialVars, group, completed, plan, kept, secret, Outside>>

Publish(p) ==
    /\ at[p] = "publish"
    /\ staging' = [staging EXCEPT ![p] = Nothing]
    /\ IF Replaceable(group[p]) THEN Install(group[p], staging[p]) /\ GroupDone(p)
       ELSE Fail(p, "published", {}) /\ UNCHANGED library
    /\ UNCHANGED <<source, ready, credentialVars, group, left, completed, plan, kept, secret,
                   Outside>>

\* _migrate_legacy_hermes_files, unless a launch before was through with it.
Forward(p) ==
    /\ at[p] = "forward"
    /\ IF completed[p] \/ source[Legacy] = Nothing
       THEN /\ Go(p, "match") /\ group' = [group EXCEPT ![p] = "models"]
            /\ NoFailure /\ UNCHANGED plan
       ELSE /\ IF ForwardConflict
               THEN Fail(p, "forward", {ConfigName}) /\ UNCHANGED plan
               ELSE /\ plan' = [plan EXCEPT ![p] = Forwarding]
                    /\ Go(p, "write_plan") /\ NoFailure
            /\ UNCHANGED group
    /\ UNCHANGED <<libraryVars, credentialVars, left, staging, completed, kept, secret, Outside>>

\* One file after the other.
WritePlan(p) ==
    /\ at[p] = "write_plan"
    /\ LET files == DOMAIN plan[p]
           f == IF ConfigName \in files THEN ConfigName ELSE CHOOSE n \in files : TRUE
       IN  IF files = {}
           THEN /\ Go(p, "match") /\ group' = [group EXCEPT ![p] = "models"]
                /\ UNCHANGED <<library, plan>>
           ELSE /\ WriteFile(f, plan[p][f])
                /\ plan' = [plan EXCEPT ![p] = [n \in files \ {f} |-> @[n]]]
                /\ UNCHANGED <<at, group>>
    /\ UNCHANGED <<source, ready, credentialVars, left, staging, completed, kept, secret, Outside,
                   reason, clash>>

\* The marker is written last.
Report(p) ==
    /\ at[p] = "report" /\ Go(p, "language")
    /\ ready' = TRUE
    /\ UNCHANGED <<source, library, credentialVars, group, left, staging, completed, plan, kept,
                   secret, Outside, reason, clash>>

----------------------------------------------------------------------------
\* _ensure_native_voice_stt_auto_detect reads the configuration and writes it
\* back as a whole.

Language(p) ==
    /\ at[p] = "language"
    /\ IF LacksLanguage(library["hermes"])
       THEN /\ kept' = [kept EXCEPT ![p] = library["hermes"][ConfigName]]
            /\ Go(p, "write_language")
       ELSE Go(p, "load") /\ UNCHANGED kept
    /\ UNCHANGED <<libraryVars, credentialVars, group, left, staging, completed, plan, secret,
                   Outside, reason, clash>>

WriteLanguage(p) ==
    /\ at[p] = "write_language" /\ Go(p, "load")
    /\ WriteFile(ConfigName, WithAutoDetect(kept[p]))
    /\ UNCHANGED <<source, ready, credentialVars, group, left, staging, completed, plan, kept,
                   secret, Outside, reason, clash>>

----------------------------------------------------------------------------
\* build_runtime_service: load_or_create

Take(p) == secret' = [secret EXCEPT ![p] = stored] /\ Go(p, "open") /\ NoFailure

Reject(p) == Fail(p, "malformed", {}) /\ UNCHANGED secret

Load(p) ==
    /\ at[p] = "load"
    /\ \/ Loadable /\ Take(p)
       \/ Malformed /\ Reject(p)
       \/ ~Loadable /\ ~Malformed /\ Go(p, "create") /\ NoFailure /\ UNCHANGED secret
    /\ UNCHANGED <<libraryVars, credentialVars, group, left, staging, completed, plan, kept,
                   Outside>>

\* _create_exclusive: who comes second loads what the first one has stored.
Create(p) ==
    /\ at[p] = "create"
    /\ \/ CreateExclusive /\ Go(p, "write") /\ NoFailure /\ UNCHANGED secret
       \/ Loadable /\ Take(p) /\ UNCHANGED credentialVars
       \/ Malformed /\ Reject(p) /\ UNCHANGED credentialVars
    /\ UNCHANGED <<libraryVars, group, left, staging, completed, plan, kept, Outside>>

Write(p) ==
    /\ at[p] = "write" /\ Go(p, "open")
    /\ \E s \in Secrets : WriteCreated(s) /\ secret' = [secret EXCEPT ![p] = s]
    /\ UNCHANGED <<libraryVars, group, left, staging, completed, plan, kept, Outside,
                   reason, clash>>

----------------------------------------------------------------------------
\* The service, as far as other launches notice it

Open(p) ==
    /\ at[p] = "open"
    /\ IF \E q \in Launches : at[q] = "serve"
       THEN Fail(p, "active", {}) /\ UNCHANGED endpoints
       ELSE Go(p, "serve") /\ endpoints' = TRUE /\ NoFailure
    /\ UNCHANGED <<libraryVars, credentialVars, group, left, staging, completed, plan, kept,
                   secret, rotation, edits, met, outdated>>

Stop(p) ==
    /\ at[p] = "serve" /\ Go(p, "gone") /\ endpoints' = FALSE
    /\ UNCHANGED <<libraryVars, credentialVars, group, left, staging, completed, plan, kept,
                   secret, rotation, edits, met, outdated, reason, clash>>

Kill(p) ==
    /\ Alive(p) /\ Go(p, "killed")
    /\ UNCHANGED <<libraryVars, credentialVars, group, left, staging, completed, plan, kept,
                   secret, Outside, reason, clash>>

----------------------------------------------------------------------------
\* The outside

Edited == edits < MaxEdits /\ edits' = edits + 1

\* A serving Hermes renews its sign-in, or the user picks a language.
Use(p) ==
    /\ at[p] = "serve" /\ Edited
    /\ \/ \E v \in Versions : WriteFile(AuthName, v)
       \/ /\ ConfigName \in DOMAIN library["hermes"]
          /\ WriteFile(ConfigName, [library["hermes"][ConfigName] EXCEPT !.stt = "chosen"])
    /\ UNCHANGED <<source, ready, credentialVars, launchVars, endpoints, rotation, history>>

\* The Hermes of ~/.hermes renews its own.
UseLegacy ==
    /\ source[Legacy] # Nothing /\ AuthName \in DOMAIN source[Legacy] /\ Edited
    /\ \E v \in Versions : source' = [source EXCEPT ![Legacy][AuthName] = v]
    /\ UNCHANGED <<library, ready, credentialVars, launchVars, endpoints, rotation, history>>

\* --rotate-credential looks for the endpoints, then replaces the file.
CheckRotation ==
    /\ rotation = "none" /\ ~endpoints /\ rotation' = "checked"
    /\ UNCHANGED <<libraryVars, credentialVars, launchVars, endpoints, edits, history>>

ReplaceCredential ==
    /\ rotation = "checked" /\ rotation' = "done"
    /\ \E s \in Secrets : Rotate(s)
    /\ outdated' = outdated \cup {p \in Launches : Alive(p)}
    /\ UNCHANGED <<libraryVars, launchVars, endpoints, edits, reason, clash, met>>

Start(p) ==
    \/ Boot(p) \/ Match(p) \/ Copy(p) \/ Publish(p) \/ Forward(p) \/ WritePlan(p) \/ Report(p)
    \/ Language(p) \/ WriteLanguage(p) \/ Load(p) \/ Create(p) \/ Write(p) \/ Open(p)

Next ==
    \/ \E p \in Launches : Launch(p) \/ Start(p) \/ Stop(p) \/ Kill(p) \/ Use(p)
    \/ UseLegacy \/ CheckRotation \/ ReplaceCredential

Spec == Init /\ [][Next]_vars

----------------------------------------------------------------------------
\* Properties

\* Past the migration.
Prepared(p) ==
    at[p] \in {"language", "write_language", "load", "create", "write", "open", "serve"}

\* Every key one configuration has, the other has too.
Covers(new, old) == \A k \in Keys : old[k] # "unset" => new[k] # "unset"

\* A file of a source has come over, and every key of a configuration.
HasFile(g, s, f) ==
    /\ f \in DOMAIN library[g]
    /\ f = ConfigName => Covers(library[g][f], source[s][f])

Brought(g, s) == library[g] # Nothing /\ \A f \in DOMAIN source[s] : HasFile(g, s, f)

\* What a group is filled from.
ToBring(g) == Existing(g) \cup {s \in {Legacy} : g = "hermes" /\ source[s] # Nothing}

\* No launch goes on to its service before everything was brought over, by
\* itself or by one before it that may have died on the way: every file of
\* every source is in the Library, and every key of a configuration.
WholeBeforeUse ==
    \A p \in Launches, g \in Groups : Prepared(p) => \A s \in ToBring(g) : Brought(g, s)

Keeps(old, new) ==
    \A f \in DOMAIN old :
        /\ f \in DOMAIN new
        /\ IF f = ConfigName
           THEN \A k \in Keys : old[f][k] \notin {"unset", "bare"} => new[f][k] = old[f][k]
           ELSE new[f] = old[f]

\* "Once JL has a destination copy, it is authoritative; never replace it with a
\* stale legacy snapshot": no start, also one after a crash between any two
\* writes, replaces a file or a choice the Library has.  Two launches at once
\* are excepted: one may write what it read before the other one served.
OwnCopyStays ==
    [][edits' = edits /\ library["hermes"] # Nothing /\ ~(\E p \in met : Alive(p))
        => Keeps(library["hermes"], library'["hermes"])]_vars

ChangedInPlace == {ConfigName, AuthName}

\* What earlier versions left is consistent, but for the files that are changed
\* in place: the sources of a group agree where they overlap, and a Library
\* that was there already has their files.
KeptApart ==
    \A from \in InitialSources, to \in InitialLibraries, g \in Groups :
        \A s \in {t \in SourcesOf(g) : from[t] # Nothing} :
            \A f \in DOMAIN from[s] \ ChangedInPlace :
                /\ to[g] # Nothing => f \in DOMAIN to[g] /\ to[g][f] = from[s][f]
                /\ \A t \in {u \in SourcesOf(g) : from[u] # Nothing} :
                      f \in DOMAIN from[t] => from[t][f] = from[s][f]

\* A start that died half-way never blocks the next one, which fails only over a
\* file that is changed in place, config.yaml or auth.json, or because the dead
\* one had just created the credential.  (Two launches at once, and data of
\* earlier versions that already disagreed, excepted.)
StartsOver ==
    KeptApart => \A p \in Launches \ met : at[p] = "failed" =>
        \/ clash[p] \cap ChangedInPlace # {}
        \/ reason[p] = "malformed" /\ \E q \in Launches : at[q] = "killed" /\ secret[q] = Absent

\* The runtime's own requests pass its authentication, which reads the file
\* again: however many launches create the credential at once, a serving one
\* holds what is stored, unless the file was replaced meanwhile.
OwnCredential ==
    \A p \in Launches \ outdated : at[p] = "serve" => Authenticates(secret[p])

\* "Credentials and environment files are mutable runtime state.  Once JL has a
\* destination copy, it is authoritative; never replace it with a stale legacy
\* snapshot or block startup": once the migration is complete, no start fails
\* because auth.json differs from a snapshot of it.
SnapshotNeverBlocks ==
    \A p \in Launches : at[p] = "failed" /\ completed[p] => AuthName \notin clash[p]

----------------------------------------------------------------------------
\* The inductive invariants

\* A configuration with every key of every one it may replace.
Full(config) ==
    \A s \in ToBring("hermes") :
        ConfigName \in DOMAIN source[s] => Covers(config, source[s][ConfigName])

\* Staging holds just the sources that were copied.
Staged(p) ==
    LET done == Existing(group[p]) \ left[p] IN
    /\ staging[p] # Nothing
    /\ left[p] \subseteq Existing(group[p])
    /\ at[p] = "copy" <=> left[p] # {}
    /\ \A s \in done : AgreesWith(source[s], staging[p])
    /\ \A f \in DOMAIN staging[p] : \E s \in done : f \in DOMAIN source[s]

\* The files of ~/.hermes that are not forwarded yet are planned.
Planned(p) ==
    /\ source[Legacy] # Nothing
    /\ \A f \in DOMAIN source[Legacy] \ DOMAIN plan[p] : HasFile("hermes", Legacy, f)
    /\ ConfigName \in DOMAIN plan[p] => Full(plan[p][ConfigName])

PastHermes(p) == at[p] \in {"forward", "write_plan"} \/ group[p] = "models"

\* How far a launch, alive or dead, has brought the Library.
Progress(p) ==
    /\ at[p] \in {"copy", "publish"} => Staged(p)
    /\ PastHermes(p) =>
          library["hermes"] # Nothing /\ \A s \in Existing("hermes") : Brought("hermes", s)
    /\ at[p] = "write_plan" => Planned(p)
    /\ group[p] = "models" => \A s \in ToBring("hermes") : Brought("hermes", s)
    /\ at[p] = "report" \/ Prepared(p) =>
          group[p] = "models" /\ \A s \in Existing("models") : Brought("models", s)
    /\ completed[p] => ready
    /\ at[p] = "write_language" => kept[p] \in Configs /\ Full(kept[p])

MigrationInv ==
    /\ TypeOK
    /\ \A p \in Launches : Progress(p)
    /\ ready => \A g \in Groups : \A s \in ToBring(g) : Brought(g, s)

\* Who lives beside another launch has met it; a launch that has met nobody
\* still finds what it read.
Undisturbed(p) ==
    /\ Others(p) = {}
    /\ at[p] \in {"copy", "publish"} => library[group[p]] = Nothing
    /\ at[p] = "write_plan" => \A f \in DOMAIN plan[p] :
          \/ f \notin DOMAIN library["hermes"]
          \/ f = ConfigName /\ \A k \in Keys :
                library["hermes"][f][k] # "unset" => plan[p][f][k] = library["hermes"][f][k]
    /\ at[p] = "write_language" =>
          /\ ConfigName \in DOMAIN library["hermes"] /\ kept[p] = library["hermes"][ConfigName]
          /\ LacksLanguage(library["hermes"])

AloneInv == \A p \in Launches \ met : Alive(p) => Undisturbed(p)

\* Outside the files changed in place, a Library that is there has the files of
\* its sources, which agree, and what is forwarded is none of theirs.
FilesAgree ==
    \A g \in Groups : \A s \in Existing(g) : \A f \in DOMAIN source[s] \ ChangedInPlace :
        /\ library[g] # Nothing => f \in DOMAIN library[g] /\ library[g][f] = source[s][f]
        /\ \A t \in Existing(g) : f \in DOMAIN source[t] => source[t][f] = source[s][f]

PlanApart(p) ==
    at[p] = "write_plan" =>
        \A s \in Existing("hermes") : (DOMAIN plan[p] \cap DOMAIN source[s]) \ ChangedInPlace = {}

ConsistentInv == FilesAgree /\ \A p \in Launches : PlanApart(p)

\* The credential is what the launches that took it hold, and an empty file has
\* a writer, unless that was killed.
CredentialInv ==
    /\ \A p \in Launches \ outdated :
          /\ at[p] \in {"open", "serve"} => stored = secret[p] /\ stored \in Secrets
          /\ at[p] = "write" => stored = Blank
    /\ \A p, q \in Launches \ outdated : at[p] = "write" /\ at[q] = "write" => p = q
    /\ outdated # {} => stored \in Secrets
    /\ \A p \in Launches : secret[p] # Absent
          => at[p] \in {"open", "serve", "failed", "gone", "killed"}
    /\ stored = Blank => \E p \in Launches : \/ at[p] = "write"
                                             \/ at[p] = "killed" /\ secret[p] = Absent

=============================================================================
