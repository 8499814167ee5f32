------------------------------- MODULE Library -------------------------------
(***************************************************************************)
(* The user's Library as prepare_library_state of runtime_service.py fills *)
(* it: directory trees copied once from where earlier versions kept them,  *)
(* a few files forwarded from ~/.hermes, and the one key the start adds to *)
(* the Hermes configuration.                                               *)
(*                                                                         *)
(* A tree is a function from the names of its files to their contents.     *)
(* The contents of config.yaml is the mapping it holds, which equal bytes  *)
(* mean; of the other files only a version is told apart.  Files are all   *)
(* private and regular: symbolic links and foreign owners, which end the   *)
(* start, are left out.  A file is written beside its place and moved      *)
(* there (_write_private_bytes), so it changes in one step; comparing two  *)
(* trees is one step too.                                                  *)
(***************************************************************************)
CONSTANTS Nothing, Versions

Groups == {"hermes", "models"}

\* Where earlier versions kept the tree of a group.
SourcesOf(g) == IF g = "hermes" THEN {"home", "automation"} ELSE {"checkout"}

Legacy  == "legacy"
Sources == {"home", "automation", "checkout", Legacy}

\* The two keys of config.yaml that matter: the stt section, which may lack,
\* have no language, an empty one (auto-detection) or one the user chose, and
\* any other key.
SttValues == {"unset", "bare", "auto", "chosen"}

Configs == [stt : SttValues, other : Versions \cup {"unset"}]

ConfigName == "config"
AuthName   == "auth"
FileNames  == {ConfigName, AuthName, "jobs", "model"}

Contents == Configs \cup Versions

Trees == {tree \in UNION {[names -> Contents] : names \in SUBSET FileNames} :
             \A f \in DOMAIN tree : tree[f] \in IF f = ConfigName THEN Configs ELSE Versions}

ASSUME LibraryAssumption == Nothing \notin Contents \cup Trees /\ "unset" \notin Versions

EmptyTree == [f \in {} |-> Nothing]

VARIABLES source,       \* the trees of the sources; Nothing if there is none
          library,      \* the trees in the Library
          ready         \* storage-migration.json says "ready"

libraryVars == <<source, library, ready>>

LibraryTypeOK ==
    /\ source \in [Sources -> Trees \cup {Nothing}]
    /\ library \in [Groups -> Trees \cup {Nothing}]
    /\ ready \in BOOLEAN

Existing(g) == {s \in SourcesOf(g) : source[s] # Nothing}

\* Every file of the one tree is in the other, and is the same.
AgreesWith(from, to) ==
    \A f \in DOMAIN from : f \in DOMAIN to /\ to[f] = from[f]

\* Copying into a tree is refused by a file that is there and differs.
Compatible(from, to) == \A f \in DOMAIN from \cap DOMAIN to : to[f] = from[f]

\* _copy_tree_contents
Copied(from, to) ==
    [f \in DOMAIN from \cup DOMAIN to |-> IF f \in DOMAIN to THEN to[f] ELSE from[f]]

\* _ensure_private_directory
Ensured(g) == IF library[g] = Nothing THEN EmptyTree ELSE library[g]

\* os.replace of a directory needs its destination to be absent or empty.
Replaceable(g) == library[g] \in {Nothing, EmptyTree}

Install(g, tree) == library' = [library EXCEPT ![g] = tree]

WriteFile(f, content) ==
    library' = [library EXCEPT !["hermes"] =
                   [n \in DOMAIN @ \cup {f} |-> IF n = f THEN content ELSE @[n]]]

----------------------------------------------------------------------------
\* _merged_legacy_config: both mappings, if they agree where they overlap.

Keys == {"stt", "other"}

Mergeable(old, new) == \A k \in Keys : "unset" \in {old[k], new[k]} \/ old[k] = new[k]

Merged(old, new) == [k \in Keys |-> IF new[k] = "unset" THEN old[k] ELSE new[k]]

\* _migrate_legacy_hermes_files: what it will write, and what it refuses.
ForwardConflict ==
    LET old == source[Legacy]
        new == library["hermes"]
    IN  /\ ConfigName \in DOMAIN old \cap DOMAIN new
        /\ ~Mergeable(old[ConfigName], new[ConfigName])

\* Mutant: the own copy counts no more than the one of ~/.hermes.
ForwardingFresh ==
    LET old == source[Legacy]
        new == library["hermes"]
        Differs(f) == f \notin DOMAIN new \/ new[f] # old[f]
    IN  [f \in {n \in DOMAIN old : Differs(n)} |->
            IF f = ConfigName /\ f \in DOMAIN new
            THEN Merged(old[f], new[f]) ELSE old[f]]

\* Files the Library lacks are forwarded; of those it has, only config.yaml is
\* touched, and only by adding keys.
Forwarding ==
    LET old == source[Legacy]
        new == library["hermes"]
        Wanted(f) == f \notin DOMAIN new \/ (f = ConfigName /\ new[f] # old[f])
    IN  [f \in {n \in DOMAIN old : Wanted(n)} |->
            IF f \in DOMAIN new THEN Merged(old[f], new[f]) ELSE old[f]]

----------------------------------------------------------------------------
\* _ensure_native_voice_stt_auto_detect

\* The configuration has no language, so the implicit English default would
\* apply; a file that is missing is left alone.
LacksLanguage(tree) ==
    ConfigName \in DOMAIN tree /\ tree[ConfigName].stt \in {"unset", "bare"}

WithAutoDetect(config) == [config EXCEPT !.stt = "auto"]

=============================================================================
