---------------------------- MODULE Startup_proofs ----------------------------
(***************************************************************************)
(* The start, for any number of launches, any data of earlier versions and *)
(* any number of changes from outside.                                     *)
(***************************************************************************)
EXTENDS Startup, TLAPS

USE LibraryAssumption, CredentialAssumption, StartupAssumption

----------------------------------------------------------------------------
\* Trees

LEMMA TreeFacts ==
    ASSUME NEW tree \in Trees
    PROVE  /\ tree # Nothing
           /\ tree = [f \in DOMAIN tree |-> tree[f]]
           /\ DOMAIN tree \subseteq FileNames
           /\ \A f \in DOMAIN tree : f # ConfigName => tree[f] \in Versions
           /\ ConfigName \in DOMAIN tree => tree[ConfigName] \in Configs
  <1>0. tree \in UNION {[names -> Contents] : names \in SUBSET FileNames}
    BY Zenon DEF Trees
  <1>1. PICK names \in SUBSET FileNames : tree \in [names -> Contents]
    BY <1>0
  <1>2. \A f \in DOMAIN tree : tree[f] \in IF f = ConfigName THEN Configs ELSE Versions
    BY Zenon DEF Trees
  <1>3. tree # Nothing
    OBVIOUS
  <1>4. DOMAIN tree = names /\ tree = [f \in DOMAIN tree |-> tree[f]]
    BY <1>1
  <1>5. ASSUME NEW f \in DOMAIN tree
        PROVE  /\ f # ConfigName => tree[f] \in Versions
               /\ f = ConfigName => tree[f] \in Configs
    BY <1>2
  <1> QED
    BY <1>3, <1>4, <1>5

LEMMA TreeIntro ==
    ASSUME NEW tree, tree = [f \in DOMAIN tree |-> tree[f]], DOMAIN tree \subseteq FileNames,
           \A f \in DOMAIN tree : IF f = ConfigName THEN tree[f] \in Configs
                                  ELSE tree[f] \in Versions
    PROVE  tree \in Trees
  <1>1. \A f \in DOMAIN tree : tree[f] \in Contents
    BY DEF Contents
  <1>2. tree \in [DOMAIN tree -> Contents]
    BY <1>1
  <1>3. tree \in UNION {[names -> Contents] : names \in SUBSET FileNames}
    BY <1>2
  <1>4. \A f \in DOMAIN tree : tree[f] \in IF f = ConfigName THEN Configs ELSE Versions
    OBVIOUS
  <1> QED
    BY <1>3, <1>4, Zenon DEF Trees

LEMMA EmptyTreeFacts ==
    EmptyTree \in Trees /\ DOMAIN EmptyTree = {}
  <1>1. DOMAIN EmptyTree = {} /\ EmptyTree = [f \in DOMAIN EmptyTree |-> EmptyTree[f]]
    BY DEF EmptyTree
  <1> QED
    BY <1>1, TreeIntro

\* A file is put into a tree, or replaced there.
LEMMA PutFile ==
    ASSUME NEW tree \in Trees, NEW file \in FileNames, NEW content,
           content \in IF file = ConfigName THEN Configs ELSE Versions,
           NEW new, new = [n \in DOMAIN tree \cup {file} |->
                              IF n = file THEN content ELSE tree[n]]
    PROVE  /\ new \in Trees
           /\ DOMAIN new = DOMAIN tree \cup {file}
           /\ new[file] = content
           /\ \A f \in DOMAIN tree : f # file => new[f] = tree[f]
  <1>1. /\ DOMAIN new = DOMAIN tree \cup {file}
        /\ new[file] = content
        /\ \A f \in DOMAIN tree : f # file => new[f] = tree[f]
    OBVIOUS
  <1>2. new = [f \in DOMAIN new |-> new[f]]
    OBVIOUS
  <1>3. DOMAIN new \subseteq FileNames
    BY <1>1, TreeFacts
  <1>4. ASSUME NEW f \in DOMAIN new
        PROVE  IF f = ConfigName THEN new[f] \in Configs ELSE new[f] \in Versions
    BY <1>1, TreeFacts
  <1> QED
    BY <1>1, <1>2, <1>3, <1>4, TreeIntro

LEMMA CopiedFacts ==
    ASSUME NEW from \in Trees, NEW to \in Trees
    PROVE  /\ Copied(from, to) \in Trees
           /\ DOMAIN Copied(from, to) = DOMAIN from \cup DOMAIN to
           /\ \A f \in DOMAIN to : Copied(from, to)[f] = to[f]
           /\ \A f \in DOMAIN from \ DOMAIN to : Copied(from, to)[f] = from[f]
  <1> DEFINE both == Copied(from, to)
  <1>1. /\ DOMAIN both = DOMAIN from \cup DOMAIN to
        /\ \A f \in DOMAIN to : both[f] = to[f]
        /\ \A f \in DOMAIN from \ DOMAIN to : both[f] = from[f]
        /\ both = [f \in DOMAIN both |-> both[f]]
    BY DEF Copied
  <1> HIDE DEF both
  <1>2. DOMAIN both \subseteq FileNames
    BY <1>1, TreeFacts
  <1>3. ASSUME NEW f \in DOMAIN both
        PROVE  IF f = ConfigName THEN both[f] \in Configs ELSE both[f] \in Versions
    <2>1. CASE f \in DOMAIN to
      BY <1>1, <2>1, TreeFacts
    <2>2. CASE f \in DOMAIN from \ DOMAIN to
      BY <1>1, <2>2, TreeFacts
    <2> QED
      BY <1>1, <2>1, <2>2
  <1>4. both \in Trees
    BY <1>1, <1>2, <1>3, TreeIntro
  <1> QED
    BY <1>1, <1>4 DEF both

----------------------------------------------------------------------------
\* Configurations

LEMMA ConfigFacts ==
    ASSUME NEW config \in Configs
    PROVE  /\ config = [stt |-> config.stt, other |-> config.other]
           /\ config.stt \in SttValues /\ config.other \in Versions \cup {"unset"}
  BY DEF Configs

LEMMA ConfigIntro ==
    ASSUME NEW config, config = [k \in Keys |-> config[k]],
           config["stt"] \in SttValues, config["other"] \in Versions \cup {"unset"}
    PROVE  config \in Configs
  BY DEF Configs, Keys

LEMMA CoversTransitive ==
    ASSUME NEW a, NEW b, NEW c, Covers(a, b), Covers(b, c)
    PROVE  Covers(a, c)
  BY DEF Covers

LEMMA CoversItself ==
    ASSUME NEW a
    PROVE  Covers(a, a)
  BY DEF Covers

\* The merged configuration has the keys of both, and of each what it has.
LEMMA MergedFacts ==
    ASSUME NEW old \in Configs, NEW new \in Configs
    PROVE  /\ Merged(old, new) \in Configs
           /\ Covers(Merged(old, new), old) /\ Covers(Merged(old, new), new)
           /\ \A k \in Keys : new[k] # "unset" => Merged(old, new)[k] = new[k]
  <1> DEFINE both == Merged(old, new)
  <1>1. both = [k \in Keys |-> both[k]]
    BY DEF Merged
  <1>2. \A k \in Keys : both[k] = IF new[k] = "unset" THEN old[k] ELSE new[k]
    BY DEF Merged
  <1> HIDE DEF both
  <1>3. both["stt"] \in SttValues /\ both["other"] \in Versions \cup {"unset"}
    BY <1>2, ConfigFacts DEF Keys
  <1>4. both \in Configs
    BY <1>1, <1>3, ConfigIntro
  <1>5. Covers(both, old) /\ Covers(both, new)
    BY <1>2 DEF Covers
  <1> QED
    BY <1>2, <1>4, <1>5 DEF both

\* What the two writers of the language write.
LEMMA WithLanguage ==
    ASSUME NEW config \in Configs, NEW value \in SttValues \ {"unset"}
    PROVE  /\ [config EXCEPT !.stt = value] \in Configs
           /\ [config EXCEPT !.stt = value].stt = value
           /\ [config EXCEPT !.stt = value].other = config.other
           /\ Covers([config EXCEPT !.stt = value], config)
  <1> DEFINE new == [config EXCEPT !.stt = value]
  <1>1. new \in Configs /\ new.stt = value /\ new.other = config.other
    BY DEF Configs
  <1> HIDE DEF new
  <1>2. Covers(new, config)
    BY <1>1 DEF Covers, Keys
  <1> QED
    BY <1>1, <1>2 DEF new

----------------------------------------------------------------------------
\* What a step may do to the files

\* No file of a source appears or goes, and only what ~/.hermes keeps of its
\* sign-in is changed.
SourcesKept ==
    \A s \in Sources :
        /\ source'[s] = Nothing <=> source[s] = Nothing
        /\ s # Legacy => source'[s] = source[s]
        /\ source[s] # Nothing =>
              /\ DOMAIN source'[s] = DOMAIN source[s]
              /\ \A f \in DOMAIN source[s] \ {AuthName} : source'[s][f] = source[s][f]

\* No file of the Library goes, and a configuration keeps the keys it needs.
LibraryGrows ==
    \A g \in Groups : library[g] # Nothing =>
        /\ library'[g] # Nothing
        /\ DOMAIN library[g] \subseteq DOMAIN library'[g]
        /\ ConfigName \in DOMAIN library[g] =>
              \/ Covers(library'[g][ConfigName], library[g][ConfigName])
              \/ g = "hermes" /\ Full(library'[g][ConfigName])

FilesKept == LibraryTypeOK' /\ SourcesKept /\ LibraryGrows /\ (ready => ready')

LEMMA SameFiles ==
    ASSUME LibraryTypeOK, source' = source, library' = library, ready' \in BOOLEAN, ready => ready'
    PROVE  FilesKept
  <1>1. LibraryTypeOK'
    BY DEF LibraryTypeOK
  <1>2. SourcesKept
    BY DEF SourcesKept
  <1>3. LibraryGrows
    BY CoversItself DEF LibraryGrows
  <1> QED
    BY <1>1, <1>2, <1>3 DEF FilesKept

LEMMA InstallFacts ==
    ASSUME LibraryTypeOK, NEW g \in Groups, NEW tree \in Trees, Install(g, tree),
           source' = source, ready' = ready, Replaceable(g) \/ library[g] = tree
    PROVE  /\ FilesKept
           /\ library'[g] = tree
           /\ \A h \in Groups \ {g} : library'[h] = library[h]
  <1>1. library'[g] = tree /\ \A h \in Groups \ {g} : library'[h] = library[h]
    BY DEF LibraryTypeOK, Install
  <1>2. library' \in [Groups -> Trees \cup {Nothing}]
    BY DEF LibraryTypeOK, Install
  <1>3. SourcesKept
    BY DEF SourcesKept
  <1>4. ASSUME NEW h \in Groups, library[h] # Nothing
        PROVE  /\ library'[h] # Nothing
               /\ DOMAIN library[h] \subseteq DOMAIN library'[h]
               /\ ConfigName \in DOMAIN library[h] =>
                     Covers(library'[h][ConfigName], library[h][ConfigName])
    <2>1. CASE library'[h] = library[h]
      BY <1>4, <2>1, CoversItself
    <2>2. CASE h = g /\ library[g] = EmptyTree
      BY <1>1, <2>2, TreeFacts, EmptyTreeFacts
    <2> QED
      BY <1>1, <1>4, <2>1, <2>2 DEF Replaceable
  <1>5. LibraryGrows
    BY <1>4 DEF LibraryGrows
  <1> QED
    BY <1>1, <1>2, <1>3, <1>5 DEF FilesKept, LibraryTypeOK

LEMMA WriteFacts ==
    ASSUME LibraryTypeOK, library["hermes"] # Nothing, NEW file \in FileNames, NEW content,
           content \in IF file = ConfigName THEN Configs ELSE Versions,
           file = ConfigName =>
               \/ Full(content)
               \/ ConfigName \in DOMAIN library["hermes"] =>
                      Covers(content, library["hermes"][ConfigName]),
           WriteFile(file, content), source' = source, ready' = ready
    PROVE  /\ FilesKept
           /\ library'["hermes"] \in Trees
           /\ DOMAIN library'["hermes"] = DOMAIN library["hermes"] \cup {file}
           /\ library'["hermes"][file] = content
           /\ \A f \in DOMAIN library["hermes"] :
                  f # file => library'["hermes"][f] = library["hermes"][f]
           /\ library'["models"] = library["models"]
  <1> DEFINE old == library["hermes"]
             new == library'["hermes"]
  <1>0. "hermes" \in Groups /\ "models" \in Groups
    BY DEF Groups
  <1>1. old \in Trees
    BY <1>0 DEF LibraryTypeOK
  <1>2. new = [n \in DOMAIN old \cup {file} |-> IF n = file THEN content ELSE old[n]]
    BY <1>0 DEF LibraryTypeOK, WriteFile
  <1>3. library'["models"] = library["models"]
    BY <1>0 DEF LibraryTypeOK, WriteFile
  <1>4. library' = [library EXCEPT !["hermes"] = new]
    BY <1>0, <1>2 DEF LibraryTypeOK, WriteFile
  <1> HIDE DEF old, new
  <1>5. /\ new \in Trees
        /\ DOMAIN new = DOMAIN old \cup {file}
        /\ new[file] = content
        /\ \A f \in DOMAIN old : f # file => new[f] = old[f]
    BY <1>1, <1>2, PutFile
  <1>6. library' \in [Groups -> Trees \cup {Nothing}]
    BY <1>0, <1>4, <1>5 DEF LibraryTypeOK
  <1>7. SourcesKept
    BY DEF SourcesKept
  <1>8. ConfigName \in DOMAIN old =>
            Covers(new[ConfigName], old[ConfigName]) \/ Full(new[ConfigName])
    BY <1>5, CoversItself DEF old
  <1>9. LibraryGrows
    <2>1. ASSUME NEW g \in Groups, library[g] # Nothing
          PROVE  /\ library'[g] # Nothing
                 /\ DOMAIN library[g] \subseteq DOMAIN library'[g]
                 /\ ConfigName \in DOMAIN library[g] =>
                       \/ Covers(library'[g][ConfigName], library[g][ConfigName])
                       \/ g = "hermes" /\ Full(library'[g][ConfigName])
      <3>1. CASE g = "hermes"
        BY <1>5, <1>8, <3>1, TreeFacts DEF old, new
      <3>2. CASE g = "models"
        BY <1>3, <2>1, <3>2, CoversItself
      <3> QED
        BY <3>1, <3>2 DEF Groups
    <2> QED
      BY <2>1 DEF LibraryGrows
  <1>10. LibraryTypeOK'
    BY <1>6 DEF LibraryTypeOK
  <1>11. FilesKept
    BY <1>7, <1>9, <1>10 DEF FilesKept
  <1> QED
    BY <1>3, <1>5, <1>11 DEF old, new

\* What was brought over stays there.
LEMMA BroughtStays ==
    ASSUME LibraryTypeOK, FilesKept
    PROVE  /\ \A g \in Groups : Existing(g)' = Existing(g) /\ ToBring(g)' = ToBring(g)
           /\ \A g \in Groups : library[g] # Nothing => library'[g] # Nothing
           /\ \A g \in Groups : \A s \in ToBring(g) : Brought(g, s) => Brought(g, s)'
           /\ \A f : HasFile("hermes", Legacy, f) /\ f \in DOMAIN source[Legacy]
                        /\ source[Legacy] # Nothing /\ library["hermes"] # Nothing
                        => HasFile("hermes", Legacy, f)'
           /\ \A config : Full(config) => Full(config)'
  <1>0. Legacy \in Sources /\ "hermes" \in Groups
        /\ \A g \in Groups : SourcesOf(g) \subseteq Sources
    BY DEF Legacy, Sources, Groups, SourcesOf
  <1>1. SourcesKept /\ LibraryGrows
    BY DEF FilesKept
  <1>2. \A g \in Groups : Existing(g)' = Existing(g)
    BY <1>0, <1>1 DEF SourcesKept, Existing
  <1>3. \A g \in Groups : ToBring(g)' = ToBring(g)
    BY <1>0, <1>1, <1>2 DEF SourcesKept, ToBring
  <1>4. \A g \in Groups : ToBring(g) \subseteq {s \in Sources : source[s] # Nothing}
    BY <1>0 DEF ToBring, Existing
  <1>5. \A s \in Sources : source[s] # Nothing =>
            /\ DOMAIN source'[s] = DOMAIN source[s]
            /\ ConfigName \in DOMAIN source[s] => source'[s][ConfigName] = source[s][ConfigName]
    BY <1>1 DEF SourcesKept, ConfigName, AuthName
  <1>6. ASSUME NEW g \in Groups, NEW s \in Sources, source[s] # Nothing, library[g] # Nothing,
               NEW f \in DOMAIN source[s], HasFile(g, s, f), s \in ToBring(g)
        PROVE  HasFile(g, s, f)'
    <2>1. f \in DOMAIN library'[g]
      BY <1>1, <1>6 DEF LibraryGrows, HasFile
    <2>2. CASE f = ConfigName
      <3>1. source'[s][f] = source[s][f]
        BY <1>5, <1>6, <2>2
      <3>2. Covers(library[g][f], source[s][f])
        BY <1>6, <2>2 DEF HasFile
      <3>3. CASE Covers(library'[g][f], library[g][f])
        BY <2>1, <3>1, <3>2, <3>3, CoversTransitive DEF HasFile
      <3>4. CASE g = "hermes" /\ Full(library'[g][f])
        BY <1>6, <2>1, <2>2, <3>1, <3>4 DEF HasFile, Full
      <3> QED
        BY <1>1, <1>6, <2>2, <3>3, <3>4 DEF LibraryGrows, HasFile
    <2> QED
      BY <2>1, <2>2 DEF HasFile
  <1>7. \A g \in Groups : library[g] # Nothing => library'[g] # Nothing
    BY <1>1 DEF LibraryGrows
  <1>8. ASSUME NEW g \in Groups, NEW s \in ToBring(g), Brought(g, s)
        PROVE  Brought(g, s)'
    <2>1. s \in Sources /\ source[s] # Nothing /\ library[g] # Nothing
      BY <1>4, <1>8 DEF Brought
    <2>2. \A f \in DOMAIN source[s] : HasFile(g, s, f)'
      BY <1>6, <1>8, <2>1 DEF Brought
    <2> QED
      BY <1>5, <1>7, <2>1, <2>2 DEF Brought
  <1>9. ASSUME NEW f, HasFile("hermes", Legacy, f), f \in DOMAIN source[Legacy],
               source[Legacy] # Nothing, library["hermes"] # Nothing
        PROVE  HasFile("hermes", Legacy, f)'
    <2>1. Legacy \in ToBring("hermes")
      BY <1>9 DEF ToBring
    <2> QED
      BY <1>0, <1>6, <1>9, <2>1
  <1>10. ASSUME NEW config, Full(config)
         PROVE  Full(config)'
    BY <1>0, <1>3, <1>4, <1>5, <1>10 DEF Full
  <1> QED
    BY <1>2, <1>3, <1>7, <1>8, <1>9, <1>10

----------------------------------------------------------------------------
\* What a step leaves of the other launches

Same(q) ==
    /\ at'[q] = at[q] /\ group'[q] = group[q] /\ left'[q] = left[q]
    /\ staging'[q] = staging[q] /\ completed'[q] = completed[q]
    /\ plan'[q] = plan[q] /\ kept'[q] = kept[q] /\ secret'[q] = secret[q]

LEMMA GroupFacts ==
    /\ "hermes" \in Groups /\ "models" \in Groups
    /\ Legacy \in Sources
    /\ \A g \in Groups : SourcesOf(g) \subseteq Sources \ {Legacy}
    /\ \A g \in Groups : Existing(g) \subseteq ToBring(g)
    /\ ToBring("models") = Existing("models")
    /\ \A g \in Groups : \A s \in Existing(g) : s \in Sources \ {Legacy} /\ source[s] # Nothing
    /\ \A g \in Groups : \A s \in ToBring(g) : s \in Sources /\ source[s] # Nothing
    /\ source[Legacy] # Nothing => Legacy \in ToBring("hermes")
  BY DEF Legacy, Sources, Groups, SourcesOf, ToBring, Existing

LEMMA StagedKept ==
    ASSUME TypeOK, FilesKept, NEW q \in Launches, Same(q), Staged(q)
    PROVE  Staged(q)'
  <1>1. group[q] \in Groups /\ LibraryTypeOK
    BY DEF TypeOK, LaunchTypeOK
  <1>2. Existing(group[q])' = Existing(group[q]) /\ group'[q] = group[q]
    BY <1>1, BroughtStays, GroupFacts DEF Same, Existing, FilesKept, SourcesKept
  <1>3. \A s \in Existing(group[q]) : source'[s] = source[s]
    BY <1>1, GroupFacts DEF FilesKept, SourcesKept
  <1>4. \A s \in Existing(group[q]) :
            AgreesWith(source'[s], staging'[q]) <=> AgreesWith(source[s], staging[q])
    BY <1>3 DEF Same
  <1>5. \A s \in Existing(group[q]) : DOMAIN source'[s] = DOMAIN source[s]
    BY <1>3
  <1>6. left[q] \subseteq Existing(group[q]) /\ staging[q] # Nothing
        /\ (at[q] = "copy" <=> left[q] # {})
    BY DEF Staged
  <1>7. /\ \A s \in Existing(group[q]) \ left[q] : AgreesWith(source[s], staging[q])
        /\ \A f \in DOMAIN staging[q] :
              \E s \in Existing(group[q]) \ left[q] : f \in DOMAIN source[s]
    BY DEF Staged
  <1> QED
    BY <1>2, <1>4, <1>5, <1>6, <1>7 DEF Staged, Same

\* The parts of Progress that only the group and the marker decide.
GroupProgress(q) ==
    /\ group[q] = "models" =>
          library["hermes"] # Nothing /\ \A s \in ToBring("hermes") : Brought("hermes", s)
    /\ completed[q] => ready

LEMMA GroupProgressKept ==
    ASSUME MigrationInv, FilesKept, NEW q \in Launches,
           group'[q] = group[q], completed'[q] = completed[q]
    PROVE  GroupProgress(q)'
  <1>1. LibraryTypeOK /\ Progress(q)
    BY DEF MigrationInv, TypeOK
  <1>2. GroupProgress(q)
    BY <1>1 DEF Progress, PastHermes, GroupProgress
  <1>3. library["hermes"] # Nothing => library'["hermes"] # Nothing
    BY <1>1, BroughtStays, GroupFacts
  <1>4. ToBring("hermes")' = ToBring("hermes")
        /\ \A s \in ToBring("hermes") : Brought("hermes", s) => Brought("hermes", s)'
    BY <1>1, BroughtStays, GroupFacts
  <1> QED
    BY <1>2, <1>3, <1>4 DEF GroupProgress, FilesKept

LEMMA ProgressKept ==
    ASSUME MigrationInv, FilesKept, NEW q \in Launches, Same(q)
    PROVE  Progress(q)'
  <1>1. TypeOK /\ LibraryTypeOK /\ Progress(q)
    BY DEF MigrationInv, TypeOK
  <1>2. at'[q] \in {"copy", "publish"} => Staged(q)'
    BY <1>1, StagedKept DEF Progress, Same
  <1>3. \A g \in Groups :
            /\ library[g] # Nothing => library'[g] # Nothing
            /\ Existing(g)' = Existing(g) /\ ToBring(g)' = ToBring(g)
            /\ \A s \in ToBring(g) : Brought(g, s) => Brought(g, s)'
            /\ \A s \in Existing(g) : s \in ToBring(g)
    BY <1>1, BroughtStays, GroupFacts
  <1>4. PastHermes(q)' <=> PastHermes(q)
    BY DEF PastHermes, Same
  <1>5. PastHermes(q)' =>
            library'["hermes"] # Nothing
            /\ \A s \in Existing("hermes")' : Brought("hermes", s)'
    BY <1>1, <1>3, <1>4, GroupFacts DEF Progress
  <1>6. at'[q] = "write_plan" => Planned(q)'
    <2>1. SUFFICES ASSUME at[q] = "write_plan"
                   PROVE  Planned(q)'
      BY DEF Same
    <2>2. Planned(q) /\ library["hermes"] # Nothing /\ plan'[q] = plan[q]
      BY <1>1, <2>1 DEF Progress, PastHermes, Same
    <2>3. source'[Legacy] # Nothing /\ DOMAIN source'[Legacy] = DOMAIN source[Legacy]
      BY <2>2, GroupFacts DEF Planned, FilesKept, SourcesKept
    <2>4. \A f \in DOMAIN source[Legacy] \ DOMAIN plan[q] : HasFile("hermes", Legacy, f)'
      BY <1>1, <2>2, BroughtStays DEF Planned
    <2>5. ConfigName \in DOMAIN plan[q] => Full(plan[q][ConfigName])'
      BY <1>1, <2>2, BroughtStays DEF Planned
    <2>6. ConfigName \in DOMAIN plan'[q] => Full(plan[q][ConfigName])'
      BY <2>2, <2>5
    <2> QED
      BY <2>2, <2>3, <2>4, <2>6 DEF Planned, Full
  <1>7. GroupProgress(q)'
    BY GroupProgressKept DEF Same
  <1>8. at'[q] = "report" \/ Prepared(q)' =>
            group'[q] = "models" /\ \A s \in Existing("models")' : Brought("models", s)'
    BY <1>1, <1>3, GroupFacts DEF Progress, Prepared, Same
  <1>9. at'[q] = "write_language" => kept'[q] \in Configs /\ Full(kept[q])'
    BY <1>1, BroughtStays DEF Progress, Same
  <1> QED
    BY <1>2, <1>5, <1>6, <1>7, <1>8, <1>9 DEF Progress, GroupProgress

\* A launch that ends, or goes on to its service.
LEMMA EndProgress ==
    ASSUME MigrationInv, FilesKept, NEW p \in Launches,
           group'[p] = group[p], completed'[p] = completed[p],
           \/ at'[p] \in {"failed", "gone", "killed"}
           \/ Prepared(p) /\ at'[p] \in {"load", "create", "write", "open", "serve"}
    PROVE  Progress(p)'
  <1>1. LibraryTypeOK /\ Progress(p)
    BY DEF MigrationInv, TypeOK
  <1>2. GroupProgress(p)'
    BY GroupProgressKept
  <1>3. /\ Existing("models")' = Existing("models")
        /\ \A s \in Existing("models") : Brought("models", s) => Brought("models", s)'
        /\ \A s \in Existing("hermes")' : s \in ToBring("hermes")'
    BY <1>1, BroughtStays, GroupFacts
  <1>4. Prepared(p)' => Prepared(p)
    BY DEF Prepared
  <1>5. at'[p] = "report" \/ Prepared(p)' =>
            group'[p] = "models" /\ \A s \in Existing("models")' : Brought("models", s)'
    BY <1>1, <1>3, <1>4 DEF Progress
  <1>6. PastHermes(p)' => group'[p] = "models"
    BY DEF PastHermes
  <1> QED
    BY <1>2, <1>3, <1>5, <1>6 DEF Progress, GroupProgress

\* A complete migration stays complete.
LEMMA ReadyStays ==
    ASSUME MigrationInv, FilesKept, ready' = ready
    PROVE  (ready => \A g \in Groups : \A s \in ToBring(g) : Brought(g, s))'
  BY BroughtStays DEF MigrationInv, TypeOK

\* One launch moves.
LEMMA MoveFacts ==
    ASSUME LaunchTypeOK, NEW p \in Launches, NEW step \in Steps, Go(p, step)
    PROVE  /\ at' \in [Launches -> Steps]
           /\ at'[p] = step
           /\ \A q \in Launches \ {p} : at'[q] = at[q]
  BY DEF LaunchTypeOK, Go

Aside == CredentialTypeOK /\ HistoryTypeOK /\ endpoints \in BOOLEAN
         /\ rotation \in {"none", "checked", "done"} /\ edits \in 0..MaxEdits

LEMMA OneMoves ==
    ASSUME MigrationInv, FilesKept, LaunchTypeOK', Aside', NEW p \in Launches,
           \A q \in Launches \ {p} : Same(q), Progress(p)', ready' = ready
    PROVE  MigrationInv'
  <1>1. TypeOK'
    BY DEF TypeOK, Aside, FilesKept
  <1>2. \A q \in Launches : Progress(q)'
    <2>1. ASSUME NEW q \in Launches \ {p}
          PROVE  Progress(q)'
      BY ProgressKept
    <2> QED
      BY <2>1
  <1> QED
    BY <1>1, <1>2, ReadyStays DEF MigrationInv

LEMMA NobodyMoves ==
    ASSUME MigrationInv, FilesKept, Aside', UNCHANGED launchVars, ready' = ready
    PROVE  MigrationInv'
  <1>1. TypeOK'
    <2>1. LaunchTypeOK'
      BY DEF MigrationInv, TypeOK, LaunchTypeOK, launchVars
    <2> QED
      BY <2>1 DEF TypeOK, Aside, FilesKept
  <1>2. ASSUME NEW q \in Launches
        PROVE  Progress(q)'
    BY ProgressKept DEF Same, launchVars
  <1> QED
    BY <1>1, <1>2, ReadyStays DEF MigrationInv

LEMMA TypeFacts ==
    ASSUME MigrationInv
    PROVE  TypeOK /\ LibraryTypeOK /\ LaunchTypeOK /\ HistoryTypeOK /\ CredentialTypeOK /\ Aside
  BY DEF MigrationInv, TypeOK, Aside

\* What the outside of a step that leaves it alone is.
LEMMA AsideStays ==
    ASSUME MigrationInv, NEW p \in Launches, UNCHANGED <<credentialVars, Outside>>,
           NoFailure \/ \E why \in {"conflict", "sources", "published", "forward",
                                    "malformed", "active"} :
                            \E files \in SUBSET FileNames : Fail(p, why, files)
    PROVE  Aside'
  <1>1. CredentialTypeOK' /\ endpoints' \in BOOLEAN
        /\ rotation' \in {"none", "checked", "done"} /\ edits' \in 0..MaxEdits
        /\ met' = met /\ outdated' = outdated
    BY TypeFacts DEF Aside, CredentialTypeOK, credentialVars, Outside
  <1>2. HistoryTypeOK'
    <2>1. CASE NoFailure
      BY <1>1, <2>1, TypeFacts DEF HistoryTypeOK, NoFailure
    <2>2. ASSUME NEW why \in {"conflict", "sources", "published", "forward", "malformed", "active"},
                 NEW files \in SUBSET FileNames, Fail(p, why, files)
          PROVE  HistoryTypeOK'
      BY <1>1, <2>2, TypeFacts DEF HistoryTypeOK, Fail
    <2> QED
      BY <2>1, <2>2
  <1> QED
    BY <1>1, <1>2 DEF Aside

----------------------------------------------------------------------------
\* The migration, step by step

LEMMA LaunchMoves ==
    ASSUME MigrationInv, NEW p \in Launches, Launch(p)
    PROVE  MigrationInv'
  <1>1. FilesKept
    BY TypeFacts, SameFiles DEF Launch, libraryVars, LibraryTypeOK
  <1>2. at' \in [Launches -> Steps] /\ at'[p] = "boot" /\ \A q \in Launches \ {p} : at'[q] = at[q]
    BY TypeFacts, MoveFacts DEF Launch, Steps
  <1>3. LaunchTypeOK'
    BY <1>2, TypeFacts DEF LaunchTypeOK, Launch
  <1>4. Aside'
    <2>1. Others(p) \subseteq Launches
      BY DEF Others
    <2>2. met' \subseteq Launches
      BY <2>1, TypeFacts DEF Launch, HistoryTypeOK
    <2>3. HistoryTypeOK'
      BY <2>2, TypeFacts DEF Launch, HistoryTypeOK
    <2>4. CredentialTypeOK'
      BY TypeFacts DEF Launch, CredentialTypeOK, credentialVars
    <2> QED
      BY <2>3, <2>4, TypeFacts DEF Aside, Launch
  <1>5. \A q \in Launches \ {p} : Same(q)
    BY <1>2 DEF Same, Launch
  <1>6. Progress(p)'
    <2>1. GroupProgress(p)'
      BY <1>1, GroupProgressKept DEF Launch
    <2>2. ~Prepared(p)' /\ (PastHermes(p)' => group'[p] = "models")
      BY <1>2 DEF Prepared, PastHermes
    <2>3. \A s \in Existing("hermes")' : s \in ToBring("hermes")'
      BY DEF ToBring
    <2> QED
      BY <1>2, <2>1, <2>2, <2>3 DEF Progress, GroupProgress
  <1> QED
    BY <1>1, <1>3, <1>4, <1>5, <1>6, OneMoves DEF Launch, libraryVars

LEMMA BootMoves ==
    ASSUME MigrationInv, NEW p \in Launches, Boot(p)
    PROVE  MigrationInv'
  <1>1. FilesKept
    BY TypeFacts, SameFiles DEF Boot, libraryVars, LibraryTypeOK
  <1>2. at' \in [Launches -> Steps] /\ at'[p] = "match" /\ \A q \in Launches \ {p} : at'[q] = at[q]
    BY TypeFacts, MoveFacts DEF Boot, Steps
  <1>3. completed' \in [Launches -> BOOLEAN] /\ completed'[p] = ready
        /\ \A q \in Launches \ {p} : completed'[q] = completed[q]
    BY TypeFacts DEF Boot, LaunchTypeOK, LibraryTypeOK
  <1>4. LaunchTypeOK'
    BY <1>2, <1>3, TypeFacts DEF LaunchTypeOK, Boot
  <1>5. Aside'
    BY AsideStays DEF Boot, NoFailure
  <1>6. \A q \in Launches \ {p} : Same(q)
    BY <1>2, <1>3 DEF Same, Boot
  <1>7. Progress(p)'
    <2>1. Progress(p) /\ LibraryTypeOK
      BY TypeFacts DEF MigrationInv
    <2>2. group'[p] = "models" =>
              library'["hermes"] # Nothing /\ \A s \in ToBring("hermes")' : Brought("hermes", s)'
      BY <1>1, <2>1, BroughtStays, GroupFacts DEF Progress, PastHermes, Boot
    <2>3. ~Prepared(p)' /\ (PastHermes(p)' => group'[p] = "models")
      BY <1>2 DEF Prepared, PastHermes
    <2>4. \A s \in Existing("hermes")' : s \in ToBring("hermes")'
      BY DEF ToBring
    <2>5. completed'[p] => ready'
      BY <1>3 DEF Boot, libraryVars
    <2> QED
      BY <1>2, <2>2, <2>3, <2>4, <2>5 DEF Progress
  <1> QED
    BY <1>1, <1>4, <1>5, <1>6, <1>7, OneMoves DEF Boot, libraryVars

\* A launch that fails, having left files and credential alone.
LEMMA FailMoves ==
    ASSUME MigrationInv, NEW p \in Launches,
           NEW why \in {"conflict", "sources", "published", "forward", "malformed", "active"},
           NEW files \in SUBSET FileNames, Fail(p, why, files),
           UNCHANGED <<libraryVars, credentialVars, group, left, completed, plan, kept, secret,
                       Outside>>,
           staging' = staging \/ staging' = [staging EXCEPT ![p] = Nothing]
    PROVE  MigrationInv'
  <1>1. FilesKept
    BY TypeFacts, SameFiles DEF libraryVars, LibraryTypeOK
  <1>2. at' \in [Launches -> Steps] /\ at'[p] = "failed"
        /\ \A q \in Launches \ {p} : at'[q] = at[q]
    BY TypeFacts, MoveFacts DEF Fail, Steps
  <1>3. staging' \in [Launches -> Trees \cup {Nothing}]
        /\ \A q \in Launches \ {p} : staging'[q] = staging[q]
    BY TypeFacts DEF LaunchTypeOK
  <1>4. LaunchTypeOK'
    BY <1>2, <1>3, TypeFacts DEF LaunchTypeOK
  <1>5. Aside'
    BY AsideStays
  <1>6. \A q \in Launches \ {p} : Same(q)
    BY <1>2, <1>3 DEF Same
  <1>7. Progress(p)'
    BY <1>1, <1>2, EndProgress
  <1> QED
    BY <1>1, <1>4, <1>5, <1>6, <1>7, OneMoves DEF libraryVars

\* A group that is whole is done with.
LEMMA GroupDoneProgress ==
    ASSUME MigrationInv, FilesKept, NEW p \in Launches, LaunchTypeOK', GroupDone(p),
           UNCHANGED <<group, completed, plan, kept, secret>>, at[p] \in {"match", "publish"},
           library'[group[p]] # Nothing,
           \A s \in Existing(group[p]) : Brought(group[p], s)'
    PROVE  Progress(p)'
  <1>1. TypeOK /\ LibraryTypeOK /\ group[p] \in Groups /\ Progress(p)
    BY TypeFacts DEF LaunchTypeOK, MigrationInv
  <1>2. at'[p] = IF group[p] = "hermes" THEN "forward" ELSE "report"
    BY TypeFacts DEF GroupDone, Go, LaunchTypeOK
  <1>3. GroupProgress(p)'
    BY GroupProgressKept
  <1>4. \A s \in Existing("hermes")' : s \in ToBring("hermes")'
    BY DEF ToBring
  <1>5. CASE group[p] = "hermes"
    <2>1. /\ library'["hermes"] # Nothing
          /\ Existing("hermes")' = Existing("hermes")
          /\ \A s \in Existing("hermes") : Brought("hermes", s)'
      BY <1>1, <1>5, BroughtStays, GroupFacts
    <2>2. at'[p] = "forward" /\ group'[p] = "hermes"
      BY <1>2, <1>5
    <2> QED
      BY <1>3, <2>1, <2>2 DEF Progress, GroupProgress, Prepared
  <1>6. CASE group[p] = "models"
    <2>1. /\ Existing("models")' = Existing("models")
          /\ \A s \in Existing("models") : Brought("models", s)'
      BY <1>1, <1>6, BroughtStays, GroupFacts
    <2>2. at'[p] = "report" /\ group'[p] = "models"
      BY <1>2, <1>6
    <2> QED
      BY <1>3, <1>4, <2>1, <2>2 DEF Progress, GroupProgress, Prepared
  <1> QED
    BY <1>1, <1>5, <1>6 DEF Groups

LEMMA MatchMoves ==
    ASSUME MigrationInv, NEW p \in Launches, Match(p)
    PROVE  MigrationInv'
  <1> DEFINE g == group[p]
  <1>1. g \in Groups /\ LibraryTypeOK /\ LaunchTypeOK /\ Progress(p)
    BY TypeFacts DEF LaunchTypeOK, MigrationInv
  <1>2. UNCHANGED <<source, ready, credentialVars, group, completed, plan, kept, secret, Outside>>
        /\ at[p] = "match"
    BY DEF Match
  <1>3. library[g] \in Trees \cup {Nothing}
    BY <1>1 DEF LibraryTypeOK
  <1>4. ASSUME GroupDone(p), FilesKept, UNCHANGED <<left, staging>>, library'[g] # Nothing,
               \A s \in Existing(g) : AgreesWith(source[s], library'[g])
        PROVE  MigrationInv'
    <2>1. at' \in [Launches -> Steps] /\ \A q \in Launches \ {p} : at'[q] = at[q]
      BY <1>1, <1>4, MoveFacts DEF GroupDone, Steps
    <2>2. LaunchTypeOK'
      BY <1>1, <1>2, <1>4, <2>1 DEF LaunchTypeOK
    <2>3. Aside'
      BY <1>2, <1>4, AsideStays DEF GroupDone
    <2>4. \A q \in Launches \ {p} : Same(q)
      BY <1>2, <1>4, <2>1 DEF Same
    <2>5. \A s \in Existing(g) : Brought(g, s)'
      <3> SUFFICES ASSUME NEW s \in Existing(g)
                   PROVE  Brought(g, s)'
        OBVIOUS
      <3>1. \A f \in DOMAIN source[s] : f \in DOMAIN library'[g] /\ library'[g][f] = source[s][f]
        BY <1>4 DEF AgreesWith
      <3> QED
        BY <1>2, <1>4, <3>1, CoversItself DEF Brought, HasFile
    <2>6. Progress(p)'
      BY <1>2, <1>4, <2>2, <2>5, GroupDoneProgress
    <2> QED
      BY <1>2, <1>4, <2>2, <2>3, <2>4, <2>6, OneMoves
  <1>5. CASE Existing(g) = {} /\ Install(g, Ensured(g)) /\ GroupDone(p) /\ UNCHANGED <<left, staging>>
    <2>1. Ensured(g) \in Trees /\ (Replaceable(g) \/ library[g] = Ensured(g))
      BY <1>3, EmptyTreeFacts DEF Ensured, Replaceable
    <2>2. FilesKept /\ library'[g] # Nothing
      BY <1>1, <1>2, <1>5, <2>1, InstallFacts, TreeFacts
    <2> QED
      BY <1>4, <1>5, <2>2
  <1>6. CASE Existing(g) # {} /\ library[g] # Nothing /\ UNCHANGED <<library, left, staging>>
             /\ IF \A s \in Existing(g) : AgreesWith(source[s], library[g]) THEN GroupDone(p)
                ELSE Fail(p, "conflict", Differing(g))
    <2>1. FilesKept
      BY <1>1, <1>2, <1>6, SameFiles DEF LibraryTypeOK
    <2>2. CASE GroupDone(p) /\ \A s \in Existing(g) : AgreesWith(source[s], library[g])
      BY <1>4, <1>6, <2>1, <2>2
    <2>3. CASE Fail(p, "conflict", Differing(g))
      <3>1. Differing(g) \in SUBSET FileNames
        BY DEF Differing
      <3> QED
        BY <1>2, <1>6, <2>3, <3>1, FailMoves DEF libraryVars
    <2> QED
      BY <1>6, <2>2, <2>3
  <1>7. CASE /\ Existing(g) # {} /\ library[g] = Nothing
             /\ staging' = [staging EXCEPT ![p] = EmptyTree]
             /\ left' = [left EXCEPT ![p] = Existing(g)]
             /\ Go(p, "copy") /\ NoFailure /\ UNCHANGED library
    <2>1. FilesKept
      BY <1>1, <1>2, <1>7, SameFiles DEF LibraryTypeOK
    <2>2. at' \in [Launches -> Steps] /\ at'[p] = "copy"
          /\ \A q \in Launches \ {p} : at'[q] = at[q]
      BY <1>1, <1>7, MoveFacts DEF Steps
    <2>3. Existing(g) \in SUBSET Sources
      BY <1>1, GroupFacts
    <2>4. /\ left' \in [Launches -> SUBSET Sources] /\ left'[p] = Existing(g)
          /\ staging' \in [Launches -> Trees \cup {Nothing}] /\ staging'[p] = EmptyTree
          /\ \A q \in Launches \ {p} : left'[q] = left[q] /\ staging'[q] = staging[q]
      BY <1>1, <1>7, <2>3, EmptyTreeFacts DEF LaunchTypeOK
    <2>5. LaunchTypeOK'
      BY <1>1, <1>2, <2>2, <2>4 DEF LaunchTypeOK
    <2>6. Aside'
      BY <1>2, <1>7, AsideStays
    <2>7. \A q \in Launches \ {p} : Same(q)
      BY <1>2, <2>2, <2>4 DEF Same
    <2>8. Progress(p)'
      <3>1. GroupProgress(p)'
        BY <1>2, <2>1, GroupProgressKept
      <3>2. ~Prepared(p)' /\ (PastHermes(p)' => group'[p] = "models")
        BY <2>2 DEF Prepared, PastHermes
      <3>3. \A s \in Existing("hermes")' : s \in ToBring("hermes")'
        BY DEF ToBring
      <3>4. Existing(group[p])' = Existing(g)
        BY <1>2 DEF Existing
      <3>5. Staged(p)'
        BY <1>7, <2>2, <2>4, <3>4, EmptyTreeFacts, TreeFacts DEF Staged
      <3> QED
        BY <2>2, <3>1, <3>2, <3>3, <3>5 DEF Progress, GroupProgress
    <2> QED
      BY <1>2, <2>1, <2>5, <2>6, <2>7, <2>8, OneMoves
  <1> QED
    BY <1>5, <1>6, <1>7 DEF Match

LEMMA CopyMoves ==
    ASSUME MigrationInv, NEW p \in Launches, Copy(p)
    PROVE  MigrationInv'
  <1> DEFINE g == group[p]
             s == First(left[p])
  <1>1. g \in Groups /\ LibraryTypeOK /\ LaunchTypeOK /\ Progress(p)
    BY TypeFacts DEF LaunchTypeOK, MigrationInv
  <1>2. UNCHANGED <<libraryVars, credentialVars, group, completed, plan, kept, secret, Outside>>
        /\ at[p] = "copy"
    BY DEF Copy
  <1>3. FilesKept
    BY <1>1, <1>2, SameFiles DEF LibraryTypeOK, libraryVars
  <1>4. Staged(p)
    BY <1>1, <1>2 DEF Progress
  <1>5. s \in left[p] /\ s \in Existing(g)
    <2>1. left[p] # {} /\ left[p] \subseteq Existing(g)
      BY <1>2, <1>4 DEF Staged
    <2>2. s \in left[p]
      BY <2>1 DEF First
    <2> QED
      BY <2>1, <2>2
  <1> HIDE DEF s
  <1>6. source[s] \in Trees /\ staging[p] \in Trees
    BY <1>1, <1>4, <1>5, GroupFacts DEF Staged, LaunchTypeOK, LibraryTypeOK
  <1>7. CASE Compatible(source[s], staging[p])
    <2> DEFINE next == IF left[p] = {s} THEN "publish" ELSE "copy"
    <2>1. /\ staging' = [staging EXCEPT ![p] = Copied(source[s], staging[p])]
          /\ left' = [left EXCEPT ![p] = left[p] \ {s}]
          /\ Go(p, next) /\ NoFailure
      BY <1>1, <1>7 DEF Copy, LaunchTypeOK, s
    <2>2. at' \in [Launches -> Steps] /\ at'[p] = next
          /\ \A q \in Launches \ {p} : at'[q] = at[q]
      BY <1>1, <2>1, MoveFacts DEF Steps
    <2>3. /\ Copied(source[s], staging[p]) \in Trees
          /\ DOMAIN Copied(source[s], staging[p]) = DOMAIN source[s] \cup DOMAIN staging[p]
          /\ \A f \in DOMAIN staging[p] : Copied(source[s], staging[p])[f] = staging[p][f]
          /\ \A f \in DOMAIN source[s] \ DOMAIN staging[p] :
                 Copied(source[s], staging[p])[f] = source[s][f]
      BY <1>6, CopiedFacts
    <2>4. /\ left' \in [Launches -> SUBSET Sources] /\ left'[p] = left[p] \ {s}
          /\ staging' \in [Launches -> Trees \cup {Nothing}]
          /\ staging'[p] = Copied(source[s], staging[p])
          /\ \A q \in Launches \ {p} : left'[q] = left[q] /\ staging'[q] = staging[q]
      BY <1>1, <2>1, <2>3 DEF LaunchTypeOK
    <2>5. LaunchTypeOK'
      BY <1>1, <1>2, <2>2, <2>4 DEF LaunchTypeOK
    <2>6. Aside'
      BY <1>2, <2>1, AsideStays
    <2>7. \A q \in Launches \ {p} : Same(q)
      BY <1>2, <2>2, <2>4 DEF Same
    <2>8. Staged(p)'
      <3>1. Existing(group[p])' = Existing(g) /\ source' = source
        BY <1>2 DEF Existing, libraryVars
      <3>2. Existing(g) \ left'[p] = (Existing(g) \ left[p]) \cup {s}
        BY <1>5, <2>4
      <3>3. \A f \in DOMAIN source[s] : Copied(source[s], staging[p])[f] = source[s][f]
        BY <1>7, <2>3 DEF Compatible
      <3>4. AgreesWith(source[s], staging'[p])
        BY <2>3, <2>4, <3>3 DEF AgreesWith
      <3>5. \A t \in Existing(g) \ left[p] : AgreesWith(source[t], staging'[p])
        BY <1>4, <2>3, <2>4 DEF Staged, AgreesWith
      <3>6. \A f \in DOMAIN staging'[p] :
                \E t \in Existing(g) \ left'[p] : f \in DOMAIN source[t]
        BY <1>4, <2>3, <2>4, <3>2 DEF Staged
      <3>7. staging'[p] # Nothing
        BY <2>3, <2>4, TreeFacts
      <3>8. at'[p] = "copy" <=> left'[p] # {}
        BY <1>5, <2>2, <2>4
      <3>9. left'[p] \subseteq Existing(g)
        BY <1>4, <2>4 DEF Staged
      <3>10. \A t \in Existing(g) \ left'[p] : AgreesWith(source[t], staging'[p])
        BY <3>2, <3>4, <3>5
      <3> QED
        BY <3>1, <3>6, <3>7, <3>8, <3>9, <3>10 DEF Staged
    <2>9. Progress(p)'
      <3>1. GroupProgress(p)'
        BY <1>2, <1>3, GroupProgressKept
      <3>2. at'[p] \in {"copy", "publish"}
        BY <2>2
      <3>3. ~Prepared(p)' /\ (PastHermes(p)' => group'[p] = "models")
        BY <3>2 DEF Prepared, PastHermes
      <3>4. \A t \in Existing("hermes")' : t \in ToBring("hermes")'
        BY DEF ToBring
      <3> QED
        BY <2>8, <3>1, <3>2, <3>3, <3>4 DEF Progress, GroupProgress
    <2> QED
      BY <1>2, <1>3, <2>5, <2>6, <2>7, <2>9, OneMoves DEF libraryVars
  <1>8. CASE ~Compatible(source[s], staging[p])
    <2> DEFINE files == DOMAIN source[s] \cap DOMAIN staging[p]
    <2>1. /\ staging' = [staging EXCEPT ![p] = Nothing]
          /\ Fail(p, "sources", files) /\ UNCHANGED left
      BY <1>8 DEF Copy, s
    <2>2. files \in SUBSET FileNames
      BY <1>6, TreeFacts
    <2> QED
      BY <1>2, <2>1, <2>2, FailMoves
  <1> QED
    BY <1>7, <1>8

LEMMA PublishMoves ==
    ASSUME MigrationInv, NEW p \in Launches, Publish(p)
    PROVE  MigrationInv'
  <1> DEFINE g == group[p]
  <1>1. g \in Groups /\ LibraryTypeOK /\ LaunchTypeOK /\ Progress(p)
    BY TypeFacts DEF LaunchTypeOK, MigrationInv
  <1>2. /\ UNCHANGED <<source, ready, credentialVars, group, left, completed, plan, kept, secret,
                       Outside>>
        /\ at[p] = "publish" /\ staging' = [staging EXCEPT ![p] = Nothing]
    BY DEF Publish
  <1>3. Staged(p) /\ left[p] = {}
    BY <1>1, <1>2 DEF Progress, Staged
  <1>4. CASE Replaceable(g) /\ Install(g, staging[p]) /\ GroupDone(p)
    <2>1. staging[p] \in Trees
      BY <1>1, <1>3 DEF Staged, LaunchTypeOK
    <2>2. FilesKept /\ library'[g] = staging[p]
      BY <1>1, <1>2, <1>4, <2>1, InstallFacts
    <2>3. at' \in [Launches -> Steps] /\ \A q \in Launches \ {p} : at'[q] = at[q]
      BY <1>1, <1>4, MoveFacts DEF GroupDone, Steps
    <2>4. staging' \in [Launches -> Trees \cup {Nothing}]
          /\ \A q \in Launches \ {p} : staging'[q] = staging[q]
      BY <1>1, <1>2 DEF LaunchTypeOK
    <2>5. LaunchTypeOK'
      BY <1>1, <1>2, <2>3, <2>4 DEF LaunchTypeOK
    <2>6. Aside'
      BY <1>2, <1>4, AsideStays DEF GroupDone
    <2>7. \A q \in Launches \ {p} : Same(q)
      BY <1>2, <2>3, <2>4 DEF Same
    <2>8. ASSUME NEW s \in Existing(g)
          PROVE  Brought(g, s)'
      <3>1. \A f \in DOMAIN source[s] : f \in DOMAIN library'[g] /\ library'[g][f] = source[s][f]
        BY <1>3, <2>2 DEF Staged, AgreesWith
      <3> QED
        BY <1>2, <2>1, <2>2, <3>1, CoversItself, TreeFacts DEF Brought, HasFile
    <2>9. library'[g] # Nothing
      BY <2>1, <2>2, TreeFacts
    <2>10. Progress(p)'
      BY <1>2, <1>4, <2>2, <2>5, <2>8, <2>9, GroupDoneProgress
    <2> QED
      BY <1>2, <2>2, <2>5, <2>6, <2>7, <2>10, OneMoves
  <1>5. CASE Fail(p, "published", {}) /\ UNCHANGED library
    BY <1>2, <1>5, FailMoves DEF libraryVars
  <1> QED
    BY <1>4, <1>5 DEF Publish

\* What is forwarded: files the Library lacks, and the two configurations
\* merged.
LEMMA ForwardingFacts ==
    ASSUME source[Legacy] \in Trees, library["hermes"] \in Trees
    PROVE  /\ Forwarding \in Trees
           /\ DOMAIN Forwarding \subseteq DOMAIN source[Legacy]
           /\ \A f \in DOMAIN source[Legacy] \ DOMAIN Forwarding :
                  /\ f \in DOMAIN library["hermes"]
                  /\ f = ConfigName => library["hermes"][f] = source[Legacy][f]
           /\ \A f \in DOMAIN Forwarding : f \in DOMAIN library["hermes"] => f = ConfigName
           /\ ConfigName \in DOMAIN Forwarding =>
                  IF ConfigName \in DOMAIN library["hermes"]
                  THEN Forwarding[ConfigName]
                           = Merged(source[Legacy][ConfigName], library["hermes"][ConfigName])
                  ELSE Forwarding[ConfigName] = source[Legacy][ConfigName]
  <1> DEFINE old == source[Legacy]
             new == library["hermes"]
  <1>1. /\ DOMAIN Forwarding
              = {f \in DOMAIN old : f \notin DOMAIN new \/ (f = ConfigName /\ new[f] # old[f])}
        /\ \A f \in DOMAIN Forwarding :
              Forwarding[f] = IF f \in DOMAIN new THEN Merged(old[f], new[f]) ELSE old[f]
        /\ Forwarding = [f \in DOMAIN Forwarding |-> Forwarding[f]]
    BY DEF Forwarding
  <1>2. ASSUME NEW f \in DOMAIN Forwarding
        PROVE  IF f = ConfigName THEN Forwarding[f] \in Configs ELSE Forwarding[f] \in Versions
    <2>1. f \in DOMAIN old
      BY <1>1
    <2>2. CASE f \notin DOMAIN new
      BY <1>1, <2>1, <2>2, TreeFacts
    <2>3. CASE f \in DOMAIN new
      <3>1. f = ConfigName /\ Forwarding[f] = Merged(old[ConfigName], new[ConfigName])
        BY <1>1, <2>3
      <3>2. old[ConfigName] \in Configs /\ new[ConfigName] \in Configs
        BY <2>1, <2>3, <3>1, TreeFacts
      <3> QED
        BY <3>1, <3>2, MergedFacts
    <2> QED
      BY <2>2, <2>3
  <1>3. Forwarding \in Trees
    BY <1>1, <1>2, TreeFacts, TreeIntro
  <1> QED
    BY <1>1, <1>3

\* A launch turns to the models, the profile being whole.
LEMMA ToModels ==
    ASSUME MigrationInv, NEW p \in Launches, Go(p, "match"),
           group' = [group EXCEPT ![p] = "models"], library["hermes"] # Nothing,
           \A s \in ToBring("hermes") : Brought("hermes", s), NoFailure,
           UNCHANGED <<libraryVars, credentialVars, left, staging, completed, plan, kept, secret,
                       Outside>>
    PROVE  MigrationInv'
  <1>1. LibraryTypeOK /\ LaunchTypeOK /\ Progress(p)
    BY TypeFacts DEF MigrationInv
  <1>2. FilesKept
    BY <1>1, SameFiles DEF LibraryTypeOK, libraryVars
  <1>3. at' \in [Launches -> Steps] /\ at'[p] = "match" /\ \A q \in Launches \ {p} : at'[q] = at[q]
    BY <1>1, MoveFacts DEF Steps
  <1>4. group' \in [Launches -> Groups] /\ group'[p] = "models"
        /\ \A q \in Launches \ {p} : group'[q] = group[q]
    BY <1>1, GroupFacts DEF LaunchTypeOK
  <1>5. LaunchTypeOK'
    BY <1>1, <1>3, <1>4 DEF LaunchTypeOK
  <1>6. Aside'
    BY AsideStays
  <1>7. \A q \in Launches \ {p} : Same(q)
    BY <1>3, <1>4 DEF Same
  <1>8. Progress(p)'
    <2>1. /\ library'["hermes"] # Nothing
          /\ \A s \in ToBring("hermes")' : Brought("hermes", s)'
      BY <1>1, <1>2, BroughtStays, GroupFacts
    <2>2. \A s \in Existing("hermes")' : s \in ToBring("hermes")'
      BY DEF ToBring
    <2>3. ~Prepared(p)'
      BY <1>3 DEF Prepared
    <2>4. completed'[p] => ready'
      BY <1>1 DEF Progress, libraryVars
    <2> QED
      BY <1>3, <2>1, <2>2, <2>3, <2>4 DEF Progress
  <1> QED
    BY <1>2, <1>5, <1>6, <1>7, <1>8, OneMoves DEF libraryVars

LEMMA ForwardMoves ==
    ASSUME MigrationInv, NEW p \in Launches, Forward(p)
    PROVE  MigrationInv'
  <1>1. LibraryTypeOK /\ LaunchTypeOK /\ Progress(p)
    BY TypeFacts DEF MigrationInv
  <1>2. UNCHANGED <<libraryVars, credentialVars, left, staging, completed, kept, secret, Outside>>
        /\ at[p] = "forward"
    BY DEF Forward
  <1>3. library["hermes"] # Nothing /\ \A s \in Existing("hermes") : Brought("hermes", s)
    BY <1>1, <1>2 DEF Progress, PastHermes
  <1>4. CASE completed[p] \/ source[Legacy] = Nothing
    <2>1. \A s \in ToBring("hermes") : Brought("hermes", s)
      <3>1. CASE completed[p]
        BY <1>1, <3>1, GroupFacts DEF MigrationInv, Progress
      <3>2. CASE source[Legacy] = Nothing
        BY <1>3, <3>2 DEF ToBring
      <3> QED
        BY <1>4, <3>1, <3>2
    <2>2. Go(p, "match") /\ group' = [group EXCEPT ![p] = "models"] /\ NoFailure /\ UNCHANGED plan
      BY <1>4 DEF Forward
    <2> QED
      BY <1>2, <1>3, <2>1, <2>2, ToModels
  <1>5. CASE ~(completed[p] \/ source[Legacy] = Nothing) /\ ForwardConflict
    <2>1. Fail(p, "forward", {ConfigName}) /\ UNCHANGED <<plan, group>>
      BY <1>5 DEF Forward
    <2>2. {ConfigName} \in SUBSET FileNames
      BY DEF FileNames
    <2> QED
      BY <1>2, <2>1, <2>2, FailMoves
  <1>6. CASE ~(completed[p] \/ source[Legacy] = Nothing) /\ ~ForwardConflict
    <2>1. plan' = [plan EXCEPT ![p] = Forwarding] /\ Go(p, "write_plan") /\ NoFailure
          /\ UNCHANGED group
      BY <1>6 DEF Forward
    <2>2. source[Legacy] \in Trees /\ library["hermes"] \in Trees
      BY <1>1, <1>3, <1>6, GroupFacts DEF LibraryTypeOK
    <2>3. FilesKept
      BY <1>1, <1>2, SameFiles DEF LibraryTypeOK, libraryVars
    <2>4. at' \in [Launches -> Steps] /\ at'[p] = "write_plan"
          /\ \A q \in Launches \ {p} : at'[q] = at[q]
      BY <1>1, <2>1, MoveFacts DEF Steps
    <2>5. plan' \in [Launches -> Trees] /\ plan'[p] = Forwarding
          /\ \A q \in Launches \ {p} : plan'[q] = plan[q]
      BY <1>1, <2>1, <2>2, ForwardingFacts DEF LaunchTypeOK
    <2>6. LaunchTypeOK'
      BY <1>1, <1>2, <2>1, <2>4, <2>5 DEF LaunchTypeOK
    <2>7. Aside'
      BY <1>2, <2>1, AsideStays
    <2>8. \A q \in Launches \ {p} : Same(q)
      BY <1>2, <2>1, <2>4, <2>5 DEF Same
    <2>9. Planned(p)'
      <3>1. source' = source /\ library' = library
        BY <1>2 DEF libraryVars
      <3>2. \A f \in DOMAIN source[Legacy] \ DOMAIN Forwarding : HasFile("hermes", Legacy, f)
        BY <2>2, ForwardingFacts, CoversItself DEF HasFile
      <3>3. ASSUME ConfigName \in DOMAIN Forwarding
            PROVE  Full(Forwarding[ConfigName])
        <4>1. ConfigName \in DOMAIN source[Legacy] /\ source[Legacy][ConfigName] \in Configs
          BY <2>2, <3>3, ForwardingFacts, TreeFacts
        <4>2. CASE ConfigName \in DOMAIN library["hermes"]
          <5>1. Forwarding[ConfigName]
                    = Merged(source[Legacy][ConfigName], library["hermes"][ConfigName])
            BY <2>2, <3>3, <4>2, ForwardingFacts
          <5>2. library["hermes"][ConfigName] \in Configs
            BY <2>2, <4>2, TreeFacts
          <5>3. Covers(Forwarding[ConfigName], source[Legacy][ConfigName])
                /\ Covers(Forwarding[ConfigName], library["hermes"][ConfigName])
            BY <4>1, <5>1, <5>2, MergedFacts
          <5>4. \A s \in Existing("hermes") : ConfigName \in DOMAIN source[s] =>
                    Covers(Forwarding[ConfigName], source[s][ConfigName])
            BY <1>3, <5>3, CoversTransitive DEF Brought, HasFile
          <5> QED
            BY <5>3, <5>4 DEF Full, ToBring
        <4>3. CASE ConfigName \notin DOMAIN library["hermes"]
          <5>1. Forwarding[ConfigName] = source[Legacy][ConfigName]
            BY <2>2, <3>3, <4>3, ForwardingFacts
          <5>2. \A s \in Existing("hermes") : ConfigName \notin DOMAIN source[s]
            BY <1>3, <4>3 DEF Brought, HasFile
          <5> QED
            BY <5>1, <5>2, CoversItself DEF Full, ToBring
        <4> QED
          BY <4>2, <4>3
      <3>4. \A f \in DOMAIN source[Legacy] \ DOMAIN Forwarding : HasFile("hermes", Legacy, f)'
        BY <3>1, <3>2 DEF HasFile
      <3>5. ConfigName \in DOMAIN plan'[p] => Full(plan[p][ConfigName])'
        BY <2>3, <2>5, <3>3, <1>1, BroughtStays
      <3> QED
        BY <1>6, <2>5, <3>1, <3>4, <3>5 DEF Planned
    <2>10. Progress(p)'
      <3>1. GroupProgress(p)'
        BY <1>2, <2>1, <2>3, GroupProgressKept
      <3>2. library'["hermes"] # Nothing /\ \A s \in Existing("hermes")' : Brought("hermes", s)'
        BY <1>1, <1>3, <2>3, BroughtStays, GroupFacts
      <3>3. ~Prepared(p)'
        BY <2>4 DEF Prepared
      <3> QED
        BY <2>4, <2>9, <3>1, <3>2, <3>3 DEF Progress, GroupProgress
    <2> QED
      BY <1>2, <2>3, <2>6, <2>7, <2>8, <2>10, OneMoves DEF libraryVars
  <1> QED
    BY <1>4, <1>5, <1>6

LEMMA RestrictFacts ==
    ASSUME NEW tree \in Trees, NEW names \in SUBSET DOMAIN tree
    PROVE  /\ [n \in names |-> tree[n]] \in Trees
           /\ DOMAIN [n \in names |-> tree[n]] = names
           /\ \A n \in names : [m \in names |-> tree[m]][n] = tree[n]
  <1> DEFINE part == [n \in names |-> tree[n]]
  <1>1. DOMAIN part = names /\ \A n \in names : part[n] = tree[n]
    OBVIOUS
  <1>2. part = [f \in DOMAIN part |-> part[f]]
    OBVIOUS
  <1>3. part \in Trees
    BY <1>1, <1>2, TreeFacts, TreeIntro
  <1> QED
    BY <1>1, <1>3

LEMMA WritePlanMoves ==
    ASSUME MigrationInv, NEW p \in Launches, WritePlan(p)
    PROVE  MigrationInv'
  <1> DEFINE files == DOMAIN plan[p]
             f == IF ConfigName \in files THEN ConfigName ELSE CHOOSE n \in files : TRUE
  <1>1. LibraryTypeOK /\ LaunchTypeOK /\ Progress(p) /\ plan[p] \in Trees
    BY TypeFacts DEF MigrationInv, LaunchTypeOK
  <1>2. /\ UNCHANGED <<source, ready, credentialVars, left, staging, completed, kept, secret,
                       Outside, reason, clash>>
        /\ at[p] = "write_plan"
    BY DEF WritePlan
  <1>3. library["hermes"] # Nothing /\ \A s \in Existing("hermes") : Brought("hermes", s)
    BY <1>1, <1>2 DEF Progress, PastHermes
  <1>4. Planned(p)
    BY <1>1, <1>2 DEF Progress
  <1>5. CASE files = {}
    <2>1. Go(p, "match") /\ group' = [group EXCEPT ![p] = "models"] /\ UNCHANGED <<library, plan>>
      BY <1>5 DEF WritePlan
    <2>2. Brought("hermes", Legacy)
      BY <1>3, <1>4, <1>5 DEF Planned, Brought
    <2>3. \A s \in ToBring("hermes") : Brought("hermes", s)
      BY <1>3, <2>2 DEF ToBring
    <2> QED
      BY <1>2, <1>3, <2>1, <2>3, ToModels DEF libraryVars, NoFailure
  <1>6. CASE files # {}
    <2>1. f \in files
      BY <1>6
    <2>2. /\ WriteFile(f, plan[p][f])
          /\ plan' = [plan EXCEPT ![p] = [n \in files \ {f} |-> plan[p][n]]]
          /\ UNCHANGED <<at, group>>
      BY <1>1, <1>6 DEF WritePlan, LaunchTypeOK
    <2> HIDE DEF f
    <2>3. f \in FileNames /\ plan[p][f] \in IF f = ConfigName THEN Configs ELSE Versions
      BY <1>1, <2>1, TreeFacts
    <2>4. f = ConfigName => Full(plan[p][f])
      BY <1>4, <2>1 DEF Planned
    <2>5. FilesKept /\ f \in DOMAIN library'["hermes"] /\ library'["hermes"][f] = plan[p][f]
      BY <1>1, <1>2, <1>3, <2>2, <2>3, <2>4, WriteFacts
    <2>6. /\ plan' \in [Launches -> Trees]
          /\ DOMAIN plan'[p] = files \ {f} /\ \A n \in files \ {f} : plan'[p][n] = plan[p][n]
          /\ \A q \in Launches \ {p} : plan'[q] = plan[q]
      <3>1. [n \in files \ {f} |-> plan[p][n]] \in Trees
        BY <1>1, RestrictFacts
      <3> QED
        BY <1>1, <2>2, <3>1 DEF LaunchTypeOK
    <2>7. LaunchTypeOK'
      BY <1>1, <1>2, <2>2, <2>6 DEF LaunchTypeOK
    <2>8. Aside'
      BY <1>2, AsideStays DEF NoFailure
    <2>9. \A q \in Launches \ {p} : Same(q)
      BY <1>2, <2>2, <2>6 DEF Same
    <2>10. Planned(p)'
      <3>1. source' = source /\ source[Legacy] # Nothing
        BY <1>2, <1>4 DEF Planned
      <3>2. ASSUME NEW n \in DOMAIN source[Legacy] \ DOMAIN plan'[p]
            PROVE  HasFile("hermes", Legacy, n)'
        <4>1. CASE n = f
          <5>1. n = ConfigName => Covers(plan[p][n], source[Legacy][n])
            BY <2>4, <3>1, <4>1, GroupFacts DEF Full
          <5> QED
            BY <2>5, <3>1, <4>1, <5>1 DEF HasFile
        <4>2. CASE n # f
          BY <1>1, <1>3, <1>4, <2>5, <2>6, <4>2, BroughtStays DEF Planned
        <4> QED
          BY <4>1, <4>2
      <3>3. ConfigName \in DOMAIN plan'[p] => Full(plan'[p][ConfigName])
        BY <1>4, <2>6 DEF Planned
      <3>4. ConfigName \in DOMAIN plan'[p] => Full(plan[p][ConfigName])'
        BY <1>1, <2>5, <3>3, BroughtStays
      <3> QED
        BY <3>1, <3>2, <3>4 DEF Planned
    <2>11. Progress(p)'
      <3>1. GroupProgress(p)'
        BY <1>2, <2>2, <2>5, GroupProgressKept
      <3>2. library'["hermes"] # Nothing /\ \A s \in Existing("hermes")' : Brought("hermes", s)'
        BY <1>1, <1>3, <2>5, BroughtStays, GroupFacts
      <3>3. ~Prepared(p)'
        BY <1>2, <2>2 DEF Prepared
      <3> QED
        BY <1>2, <2>2, <2>10, <3>1, <3>2, <3>3 DEF Progress, GroupProgress
    <2> QED
      BY <1>2, <2>5, <2>7, <2>8, <2>9, <2>11, OneMoves
  <1> QED
    BY <1>5, <1>6

LEMMA ReportMoves ==
    ASSUME MigrationInv, NEW p \in Launches, Report(p)
    PROVE  MigrationInv'
  <1>1. LibraryTypeOK /\ LaunchTypeOK /\ Progress(p)
    BY TypeFacts DEF MigrationInv
  <1>2. /\ UNCHANGED <<source, library, credentialVars, group, left, staging, completed, plan,
                       kept, secret, Outside, reason, clash>>
        /\ at[p] = "report" /\ ready' = TRUE
    BY DEF Report
  <1>3. FilesKept
    BY <1>1, <1>2, SameFiles
  <1>4. at' \in [Launches -> Steps] /\ at'[p] = "language"
        /\ \A q \in Launches \ {p} : at'[q] = at[q]
    BY <1>1, MoveFacts DEF Report, Steps
  <1>5. TypeOK'
    <2>1. LaunchTypeOK'
      BY <1>1, <1>2, <1>4 DEF LaunchTypeOK
    <2>2. Aside'
      BY <1>2, AsideStays DEF NoFailure
    <2> QED
      BY <1>3, <2>1, <2>2 DEF TypeOK, Aside, FilesKept
  <1>6. group[p] = "models" /\ \A g \in Groups : \A s \in ToBring(g) : Brought(g, s)
    BY <1>1, <1>2, GroupFacts DEF Progress, Groups
  <1>7. \A g \in Groups : \A s \in ToBring(g)' : Brought(g, s)'
    BY <1>1, <1>3, <1>6, BroughtStays
  <1>8. ASSUME NEW q \in Launches
        PROVE  Progress(q)'
    <2>1. CASE q = p
      <3>1. GroupProgress(p)'
        BY <1>2, <1>3, GroupProgressKept
      <3>2. PastHermes(p)' => group'[p] = "models"
        BY <1>4 DEF PastHermes
      <3>3. \A s \in Existing("hermes")' : s \in ToBring("hermes")'
        BY DEF ToBring
      <3>4. \A s \in Existing("models")' : Brought("models", s)'
        BY <1>7, GroupFacts DEF ToBring
      <3>5. group'[p] = "models"
        BY <1>2, <1>6
      <3> QED
        BY <1>4, <2>1, <3>1, <3>2, <3>3, <3>4, <3>5 DEF Progress, GroupProgress
    <2>2. CASE q # p
      BY <1>2, <1>3, <1>4, <2>2, ProgressKept DEF Same
    <2> QED
      BY <2>1, <2>2
  <1> QED
    BY <1>5, <1>7, <1>8 DEF MigrationInv

LEMMA LanguageMoves ==
    ASSUME MigrationInv, NEW p \in Launches, Language(p)
    PROVE  MigrationInv'
  <1>1. LibraryTypeOK /\ LaunchTypeOK /\ Progress(p)
    BY TypeFacts DEF MigrationInv
  <1>2. /\ UNCHANGED <<libraryVars, credentialVars, group, left, staging, completed, plan, secret,
                       Outside, reason, clash>>
        /\ at[p] = "language"
    BY DEF Language
  <1>3. FilesKept
    BY <1>1, <1>2, SameFiles DEF LibraryTypeOK, libraryVars
  <1>4. /\ group[p] = "models" /\ library["hermes"] # Nothing
        /\ \A s \in ToBring("hermes") : Brought("hermes", s)
        /\ \A s \in Existing("models") : Brought("models", s)
    BY <1>1, <1>2 DEF Progress, Prepared, PastHermes
  <1>5. PICK step \in {"write_language", "load"} :
            /\ Go(p, step)
            /\ \/ step = "load" /\ UNCHANGED kept
               \/ /\ LacksLanguage(library["hermes"])
                  /\ kept' = [kept EXCEPT ![p] = library["hermes"][ConfigName]]
    BY DEF Language
  <1>6. at' \in [Launches -> Steps] /\ at'[p] = step
        /\ \A q \in Launches \ {p} : at'[q] = at[q]
    BY <1>1, <1>5, MoveFacts DEF Steps
  <1>7. /\ kept' \in [Launches -> Configs \cup {Nothing}]
        /\ at'[p] = "write_language" => kept'[p] \in Configs /\ Full(kept'[p])
        /\ \A q \in Launches \ {p} : kept'[q] = kept[q]
    <2>1. CASE step = "load" /\ UNCHANGED kept
      BY <1>1, <1>6, <2>1 DEF LaunchTypeOK
    <2>2. CASE /\ LacksLanguage(library["hermes"])
               /\ kept' = [kept EXCEPT ![p] = library["hermes"][ConfigName]]
      <3>1. library["hermes"] \in Trees
        BY <1>1, <1>4, GroupFacts DEF LibraryTypeOK
      <3>2. library["hermes"][ConfigName] \in Configs
        BY <2>2, <3>1, TreeFacts DEF LacksLanguage
      <3>3. Full(library["hermes"][ConfigName])
        BY <1>4 DEF Full, Brought, HasFile
      <3> QED
        BY <1>1, <2>2, <3>2, <3>3 DEF LaunchTypeOK
    <2> QED
      BY <1>5, <2>1, <2>2
  <1>8. LaunchTypeOK'
    BY <1>1, <1>2, <1>6, <1>7 DEF LaunchTypeOK
  <1>9. Aside'
    BY <1>2, AsideStays DEF NoFailure
  <1>10. \A q \in Launches \ {p} : Same(q)
    BY <1>2, <1>6, <1>7 DEF Same
  <1>11. Progress(p)'
    <2>1. GroupProgress(p)'
      BY <1>2, <1>3, GroupProgressKept
    <2>2. PastHermes(p)' => group'[p] = "models"
      BY <1>6 DEF PastHermes
    <2>3. \A s \in Existing("hermes")' : s \in ToBring("hermes")'
      BY DEF ToBring
    <2>4. group'[p] = "models" /\ \A s \in Existing("models")' : Brought("models", s)'
      BY <1>1, <1>2, <1>3, <1>4, BroughtStays, GroupFacts
    <2>5. at'[p] = "write_language" => Full(kept[p])'
      BY <1>1, <1>3, <1>7, BroughtStays
    <2> QED
      BY <1>6, <1>7, <2>1, <2>2, <2>3, <2>4, <2>5 DEF Progress, GroupProgress
  <1> QED
    BY <1>2, <1>3, <1>8, <1>9, <1>10, <1>11, OneMoves DEF libraryVars

\* A prepared launch, or one that stops, moves: what it has brought stays.
LEMMA OnwardMoves ==
    ASSUME MigrationInv, NEW p \in Launches, FilesKept, Aside', ready' = ready,
           NEW step \in {"load", "create", "write", "open", "serve", "failed", "gone", "killed"},
           Go(p, step), Prepared(p) \/ step \in {"failed", "gone", "killed"},
           UNCHANGED <<group, left, staging, completed, plan, kept>>,
           secret' \in [Launches -> Secrets \cup {Absent}],
           \A q \in Launches \ {p} : secret'[q] = secret[q]
    PROVE  MigrationInv'
  <1>1. LaunchTypeOK
    BY TypeFacts
  <1>2. at' \in [Launches -> Steps] /\ at'[p] = step
        /\ \A q \in Launches \ {p} : at'[q] = at[q]
    BY <1>1, MoveFacts DEF Steps
  <1>3. LaunchTypeOK'
    BY <1>1, <1>2 DEF LaunchTypeOK
  <1>4. \A q \in Launches \ {p} : Same(q)
    BY <1>2 DEF Same
  <1>5. Progress(p)'
    BY <1>2, EndProgress
  <1> QED
    BY <1>3, <1>4, <1>5, OneMoves

LEMMA WriteLanguageMoves ==
    ASSUME MigrationInv, NEW p \in Launches, WriteLanguage(p)
    PROVE  MigrationInv'
  <1>1. LibraryTypeOK /\ LaunchTypeOK /\ Progress(p) /\ at[p] = "write_language" /\ Prepared(p)
    BY TypeFacts DEF MigrationInv, WriteLanguage, Prepared
  <1>2. kept[p] \in Configs /\ Full(kept[p]) /\ library["hermes"] # Nothing
    BY <1>1 DEF Progress, PastHermes
  <1>3. WithAutoDetect(kept[p]) \in Configs /\ Covers(WithAutoDetect(kept[p]), kept[p])
    BY <1>2, WithLanguage DEF WithAutoDetect, SttValues
  <1>4. Full(WithAutoDetect(kept[p]))
    BY <1>2, <1>3, CoversTransitive DEF Full
  <1>5. ConfigName \in FileNames
    BY DEF FileNames
  <1>6. FilesKept
    BY <1>1, <1>2, <1>3, <1>4, <1>5, WriteFacts DEF WriteLanguage
  <1>7. Aside'
    BY AsideStays DEF WriteLanguage, NoFailure
  <1>8. secret' = secret
    BY DEF WriteLanguage
  <1>9. secret' \in [Launches -> Secrets \cup {Absent}]
    BY <1>1, <1>8 DEF LaunchTypeOK
  <1> QED
    BY <1>1, <1>6, <1>7, <1>8, <1>9, OnwardMoves DEF WriteLanguage

----------------------------------------------------------------------------
\* The credential and the service

LEMMA LoadMoves ==
    ASSUME MigrationInv, NEW p \in Launches, Load(p)
    PROVE  MigrationInv'
  <1>1. LibraryTypeOK /\ LaunchTypeOK /\ CredentialTypeOK /\ at[p] = "load" /\ Prepared(p)
    BY TypeFacts DEF Load, Prepared
  <1>2. UNCHANGED <<libraryVars, credentialVars, group, left, staging, completed, plan, kept,
                    Outside>>
    BY DEF Load
  <1>3. FilesKept
    BY <1>1, <1>2, SameFiles DEF LibraryTypeOK, libraryVars
  <1>4. CASE Loadable /\ Take(p)
    <2>1. secret' \in [Launches -> Secrets \cup {Absent}]
          /\ \A q \in Launches \ {p} : secret'[q] = secret[q]
      BY <1>1, <1>4 DEF Take, Loadable, LaunchTypeOK
    <2>2. Aside'
      BY <1>2, <1>4, AsideStays DEF Take
    <2> QED
      BY <1>1, <1>2, <1>3, <1>4, <2>1, <2>2, OnwardMoves DEF Take, libraryVars
  <1>5. CASE Reject(p)
    BY <1>2, <1>5, FailMoves DEF Reject
  <1>6. CASE Go(p, "create") /\ NoFailure /\ UNCHANGED secret
    <2>1. Aside'
      BY <1>2, <1>6, AsideStays
    <2>2. secret' \in [Launches -> Secrets \cup {Absent}]
      BY <1>1, <1>6 DEF LaunchTypeOK
    <2> QED
      BY <1>1, <1>2, <1>3, <1>6, <2>1, <2>2, OnwardMoves DEF libraryVars
  <1> QED
    BY <1>4, <1>5, <1>6 DEF Load

LEMMA CreateMoves ==
    ASSUME MigrationInv, NEW p \in Launches, Create(p)
    PROVE  MigrationInv'
  <1>1. LibraryTypeOK /\ LaunchTypeOK /\ CredentialTypeOK /\ at[p] = "create" /\ Prepared(p)
    BY TypeFacts DEF Create, Prepared
  <1>2. UNCHANGED <<libraryVars, group, left, staging, completed, plan, kept, Outside>>
    BY DEF Create
  <1>3. FilesKept
    BY <1>1, <1>2, SameFiles DEF LibraryTypeOK, libraryVars
  <1>4. CASE CreateExclusive /\ Go(p, "write") /\ NoFailure /\ UNCHANGED secret
    <2>1. CredentialTypeOK'
      BY <1>1, <1>4 DEF CreateExclusive, CredentialTypeOK
    <2>2. Aside'
      BY <1>2, <1>4, <2>1, TypeFacts DEF Aside, HistoryTypeOK, NoFailure, Outside
    <2>3. secret' \in [Launches -> Secrets \cup {Absent}]
      BY <1>1, <1>4 DEF LaunchTypeOK
    <2> QED
      BY <1>1, <1>2, <1>3, <1>4, <2>2, <2>3, OnwardMoves DEF libraryVars
  <1>5. CASE Loadable /\ Take(p) /\ UNCHANGED credentialVars
    <2>1. secret' \in [Launches -> Secrets \cup {Absent}]
          /\ \A q \in Launches \ {p} : secret'[q] = secret[q]
      BY <1>1, <1>5 DEF Take, Loadable, LaunchTypeOK
    <2>2. Aside'
      BY <1>2, <1>5, AsideStays DEF Take
    <2> QED
      BY <1>1, <1>2, <1>3, <1>5, <2>1, <2>2, OnwardMoves DEF Take, libraryVars
  <1>6. CASE Reject(p) /\ UNCHANGED credentialVars
    BY <1>2, <1>6, FailMoves DEF Reject
  <1> QED
    BY <1>4, <1>5, <1>6 DEF Create

LEMMA WriteMoves ==
    ASSUME MigrationInv, NEW p \in Launches, Write(p)
    PROVE  MigrationInv'
  <1>1. LibraryTypeOK /\ LaunchTypeOK /\ CredentialTypeOK /\ at[p] = "write" /\ Prepared(p)
    BY TypeFacts DEF Write, Prepared
  <1>2. /\ UNCHANGED <<libraryVars, group, left, staging, completed, plan, kept, Outside,
                       reason, clash>>
        /\ Go(p, "open")
    BY DEF Write
  <1>3. PICK s \in Secrets : WriteCreated(s) /\ secret' = [secret EXCEPT ![p] = s]
    BY DEF Write
  <1>4. FilesKept
    BY <1>1, <1>2, SameFiles DEF LibraryTypeOK, libraryVars
  <1>5. CredentialTypeOK'
    BY <1>1, <1>3 DEF WriteCreated, CredentialTypeOK
  <1>6. Aside'
    BY <1>2, <1>5, TypeFacts DEF Aside, HistoryTypeOK, Outside
  <1>7. secret' \in [Launches -> Secrets \cup {Absent}]
        /\ \A q \in Launches \ {p} : secret'[q] = secret[q]
    BY <1>1, <1>3 DEF LaunchTypeOK
  <1> QED
    BY <1>1, <1>2, <1>4, <1>6, <1>7, OnwardMoves DEF libraryVars

\* Open, Stop and Kill.
LEMMA ServiceMoves ==
    ASSUME MigrationInv, NEW p \in Launches, Open(p) \/ Stop(p) \/ Kill(p)
    PROVE  MigrationInv'
  <1>1. LibraryTypeOK /\ LaunchTypeOK
    BY TypeFacts
  <1>2. UNCHANGED <<libraryVars, credentialVars, group, left, staging, completed, plan, kept,
                    secret, rotation, edits, met, outdated>>
    BY DEF Open, Stop, Kill, Outside
  <1>3. FilesKept
    BY <1>1, <1>2, SameFiles DEF LibraryTypeOK, libraryVars
  <1>4. secret' \in [Launches -> Secrets \cup {Absent}]
    BY <1>1, <1>2 DEF LaunchTypeOK
  <1>5. CASE Fail(p, "active", {}) /\ UNCHANGED endpoints
    BY <1>2, <1>5, FailMoves DEF Outside
  <1>6. ASSUME NoFailure, endpoints' \in BOOLEAN
        PROVE  Aside'
    BY <1>2, <1>6, TypeFacts
       DEF Aside, CredentialTypeOK, HistoryTypeOK, credentialVars, NoFailure
  <1>7. CASE at[p] = "open" /\ Go(p, "serve") /\ endpoints' = TRUE /\ NoFailure
    BY <1>2, <1>3, <1>4, <1>6, <1>7, OnwardMoves DEF Prepared, libraryVars
  <1>8. CASE Stop(p)
    BY <1>2, <1>3, <1>4, <1>6, <1>8, OnwardMoves DEF Stop, NoFailure, libraryVars
  <1>9. CASE Kill(p)
    <2>1. endpoints' \in BOOLEAN /\ NoFailure
      BY <1>9, TypeFacts DEF Kill, Aside, Outside, NoFailure
    <2> QED
      BY <1>2, <1>3, <1>4, <1>6, <1>9, <2>1, OnwardMoves DEF Kill, libraryVars
  <1> QED
    BY <1>5, <1>7, <1>8, <1>9 DEF Open

----------------------------------------------------------------------------
\* The outside

LEMMA EditFacts ==
    ASSUME edits \in 0..MaxEdits, Edited
    PROVE  edits' \in 0..MaxEdits
  BY DEF Edited

LEMMA UseMoves ==
    ASSUME MigrationInv, NEW p \in Launches, Use(p)
    PROVE  MigrationInv'
  <1>1. LibraryTypeOK /\ LaunchTypeOK /\ Progress(p) /\ at[p] = "serve"
    BY TypeFacts DEF MigrationInv, Use
  <1>2. UNCHANGED <<source, ready, credentialVars, launchVars, endpoints, rotation, history>>
        /\ Edited
    BY DEF Use
  <1>3. library["hermes"] # Nothing
    BY <1>1 DEF Progress, PastHermes, Prepared
  <1>4. library["hermes"] \in Trees
    BY <1>1, <1>3, GroupFacts DEF LibraryTypeOK
  <1>5. ConfigName \in FileNames /\ AuthName \in FileNames /\ AuthName # ConfigName
    BY DEF FileNames, ConfigName, AuthName
  <1>6. FilesKept
    <2>1. ASSUME NEW v \in Versions, WriteFile(AuthName, v)
          PROVE  FilesKept
      BY <1>1, <1>2, <1>3, <1>5, <2>1, WriteFacts
    <2>2. ASSUME ConfigName \in DOMAIN library["hermes"],
                 WriteFile(ConfigName, [library["hermes"][ConfigName] EXCEPT !.stt = "chosen"])
          PROVE  FilesKept
      <3>1. library["hermes"][ConfigName] \in Configs
        BY <1>4, <2>2, TreeFacts
      <3>2. "chosen" \in SttValues \ {"unset"}
        BY DEF SttValues
      <3>3. /\ [library["hermes"][ConfigName] EXCEPT !.stt = "chosen"] \in Configs
            /\ Covers([library["hermes"][ConfigName] EXCEPT !.stt = "chosen"],
                      library["hermes"][ConfigName])
        BY <3>1, <3>2, WithLanguage
      <3> QED
        BY <1>1, <1>2, <1>3, <1>5, <2>2, <3>3, WriteFacts
    <2> QED
      BY <2>1, <2>2 DEF Use
  <1>7. Aside'
    BY <1>2, EditFacts, TypeFacts DEF Aside, CredentialTypeOK, HistoryTypeOK, credentialVars, history
  <1> QED
    BY <1>2, <1>6, <1>7, NobodyMoves

LEMMA UseLegacyMoves ==
    ASSUME MigrationInv, UseLegacy
    PROVE  MigrationInv'
  <1>1. LibraryTypeOK
    BY TypeFacts
  <1>2. UNCHANGED <<library, ready, credentialVars, launchVars, endpoints, rotation, history>>
        /\ Edited /\ source[Legacy] # Nothing /\ AuthName \in DOMAIN source[Legacy]
    BY DEF UseLegacy
  <1>3. PICK v \in Versions : source' = [source EXCEPT ![Legacy][AuthName] = v]
    BY DEF UseLegacy
  <1>4. source[Legacy] \in Trees
    BY <1>1, <1>2, GroupFacts DEF LibraryTypeOK
  <1> DEFINE new == [source[Legacy] EXCEPT ![AuthName] = v]
  <1>5. /\ DOMAIN new = DOMAIN source[Legacy] /\ new[AuthName] = v
        /\ \A f \in DOMAIN source[Legacy] \ {AuthName} : new[f] = source[Legacy][f]
        /\ new = [f \in DOMAIN new |-> new[f]]
    BY <1>2
  <1>6. source' = [source EXCEPT ![Legacy] = new]
    BY <1>1, <1>3, GroupFacts DEF LibraryTypeOK
  <1> HIDE DEF new
  <1>7. new \in Trees
    <2>1. DOMAIN new \subseteq FileNames
      BY <1>4, <1>5, TreeFacts
    <2>2. ASSUME NEW f \in DOMAIN new
          PROVE  IF f = ConfigName THEN new[f] \in Configs ELSE new[f] \in Versions
      BY <1>4, <1>5, TreeFacts DEF AuthName, ConfigName
    <2> QED
      BY <1>5, <2>1, <2>2, TreeIntro
  <1>8. LibraryTypeOK'
    BY <1>1, <1>2, <1>6, <1>7, GroupFacts DEF LibraryTypeOK
  <1>9. SourcesKept
    <2>1. source'[Legacy] = new /\ \A s \in Sources \ {Legacy} : source'[s] = source[s]
      BY <1>1, <1>6, GroupFacts DEF LibraryTypeOK
    <2> QED
      BY <1>2, <1>5, <1>7, <2>1, TreeFacts DEF SourcesKept
  <1>10. LibraryGrows
    BY <1>2, CoversItself DEF LibraryGrows
  <1>11. FilesKept
    BY <1>2, <1>8, <1>9, <1>10 DEF FilesKept
  <1>12. Aside'
    BY <1>2, EditFacts, TypeFacts DEF Aside, CredentialTypeOK, HistoryTypeOK, credentialVars, history
  <1> QED
    BY <1>2, <1>11, <1>12, NobodyMoves

LEMMA RotationMoves ==
    ASSUME MigrationInv, CheckRotation \/ ReplaceCredential
    PROVE  MigrationInv'
  <1>1. UNCHANGED <<libraryVars, launchVars, endpoints, edits, reason, clash, met>>
    BY DEF CheckRotation, ReplaceCredential, history
  <1>2. FilesKept
    BY <1>1, TypeFacts, SameFiles DEF LibraryTypeOK, libraryVars
  <1>3. CredentialTypeOK'
    BY TypeFacts DEF CheckRotation, ReplaceCredential, CredentialTypeOK, credentialVars, Rotate
  <1>4. outdated' \subseteq Launches /\ rotation' \in {"none", "checked", "done"}
    BY TypeFacts DEF CheckRotation, ReplaceCredential, HistoryTypeOK, history, Aside
  <1>5. Aside'
    BY <1>1, <1>3, <1>4, TypeFacts DEF Aside, HistoryTypeOK
  <1> QED
    BY <1>1, <1>2, <1>5, NobodyMoves DEF libraryVars

----------------------------------------------------------------------------
\* The migration invariant

LEMMA MigrationStarts == Init => MigrationInv
  <1> SUFFICES ASSUME Init
               PROVE  MigrationInv
    OBVIOUS
  <1>1. LibraryTypeOK
    BY DEF Init, LibraryTypeOK
  <1>2. LaunchTypeOK
    BY EmptyTreeFacts, GroupFacts DEF Init, LaunchTypeOK, Steps
  <1>3. HistoryTypeOK /\ CredentialTypeOK
    BY DEF Init, HistoryTypeOK, CredentialTypeOK, CredentialInit
  <1>4. TypeOK
    <2>1. endpoints \in BOOLEAN /\ rotation \in {"none", "checked", "done"} /\ edits = 0
      BY DEF Init
    <2>2. edits \in 0..MaxEdits
      BY <2>1
    <2> QED
      BY <1>1, <1>2, <1>3, <2>1, <2>2 DEF TypeOK
  <1>5. \A p \in Launches : Progress(p)
    BY DEF Init, Progress, PastHermes, Prepared
  <1> QED
    BY <1>4, <1>5 DEF Init, MigrationInv

LEMMA MigrationStep == MigrationInv /\ [Next]_vars => MigrationInv'
  <1> SUFFICES ASSUME MigrationInv, [Next]_vars
               PROVE  MigrationInv'
    OBVIOUS
  <1>1. ASSUME NEW p \in Launches, Start(p)
        PROVE  MigrationInv'
    <2>1. CASE Boot(p) \/ Match(p) \/ Copy(p) \/ Publish(p)
      BY <2>1, BootMoves, MatchMoves, CopyMoves, PublishMoves
    <2>2. CASE Forward(p) \/ WritePlan(p) \/ Report(p) \/ Language(p) \/ WriteLanguage(p)
      BY <2>2, ForwardMoves, WritePlanMoves, ReportMoves, LanguageMoves, WriteLanguageMoves
    <2>3. CASE Load(p) \/ Create(p) \/ Write(p) \/ Open(p)
      BY <2>3, LoadMoves, CreateMoves, WriteMoves, ServiceMoves
    <2> QED
      BY <1>1, <2>1, <2>2, <2>3 DEF Start
  <1>2. ASSUME NEW p \in Launches, Launch(p) \/ Stop(p) \/ Kill(p) \/ Use(p)
        PROVE  MigrationInv'
    BY <1>2, LaunchMoves, ServiceMoves, UseMoves
  <1>3. CASE UseLegacy \/ CheckRotation \/ ReplaceCredential
    BY <1>3, UseLegacyMoves, RotationMoves
  <1>4. CASE UNCHANGED vars
    <2>1. FilesKept /\ UNCHANGED launchVars /\ ready' = ready
      BY <1>4, TypeFacts, SameFiles DEF vars, libraryVars, LibraryTypeOK
    <2>2. Aside'
      BY <1>4, TypeFacts
         DEF vars, Aside, CredentialTypeOK, HistoryTypeOK, credentialVars, history
    <2> QED
      BY <2>1, <2>2, NobodyMoves
  <1> QED
    BY <1>1, <1>2, <1>3, <1>4 DEF Next

LEMMA MigrationAlways == Spec => []MigrationInv
  BY MigrationStarts, MigrationStep, PTL DEF Spec

\* Trees stay trees, configurations configurations, through every copy, merge
\* and write of the start.
THEOREM StartupTypeCorrectness == Spec => []TypeOK
  <1>1. MigrationInv => TypeOK
    BY DEF MigrationInv
  <1> QED
    BY <1>1, MigrationAlways, PTL

\* No launch goes on to its service before every file of every source is in the
\* Library, and every key of a configuration, whichever launches brought them
\* over and wherever they died: the sources of a group, then ~/.hermes, then the
\* models, then the marker, each by a launch that has seen the one before whole.
THEOREM NothingLeftBehind == Spec => []WholeBeforeUse
  <1>1. MigrationInv => WholeBeforeUse
    <2> SUFFICES ASSUME MigrationInv, NEW p \in Launches, NEW g \in Groups, Prepared(p),
                        NEW s \in ToBring(g)
                 PROVE  Brought(g, s)
      BY DEF WholeBeforeUse
    <2>1. /\ \A t \in ToBring("hermes") : Brought("hermes", t)
          /\ \A t \in ToBring("models") : Brought("models", t)
      BY GroupFacts DEF MigrationInv, Progress
    <2> QED
      BY <2>1 DEF Groups
  <1> QED
    BY <1>1, MigrationAlways, PTL

----------------------------------------------------------------------------
\* The credential

\* Steps that touch no credential.
LEMMA CredentialKept ==
    ASSUME MigrationInv, CredentialInv, stored' = stored, secret' = secret, outdated' = outdated,
           \A q \in Launches :
               \/ at'[q] = at[q]
               \/ /\ at[q] \notin {"write", "killed", "failed", "gone"}
                  /\ at'[q] \in Steps \ {"absent", "open", "serve", "write"}
                  /\ at[q] \in {"open", "serve"} => at'[q] \in {"failed", "gone", "killed"}
               \/ at'[q] = "killed"
               \/ at[q] = "open" /\ at'[q] = "serve"
    PROVE  CredentialInv'
  <1>1. \A q \in Launches \ outdated :
            /\ at'[q] \in {"open", "serve"} => stored = secret[q] /\ stored \in Secrets
            /\ at'[q] = "write" => stored = Blank
    BY DEF CredentialInv
  <1>2. \A p, q \in Launches \ outdated : at'[p] = "write" /\ at'[q] = "write" => p = q
    BY DEF CredentialInv
  <1>3. \A p \in Launches : secret[p] # Absent
            => at'[p] \in {"open", "serve", "failed", "gone", "killed"}
    BY TypeFacts DEF CredentialInv
  <1>4. \A p \in Launches : at[p] = "write" => secret[p] = Absent
    BY DEF CredentialInv
  <1>5. stored = Blank => \E p \in Launches : \/ at'[p] = "write"
                                              \/ at'[p] = "killed" /\ secret[p] = Absent
    <2>1. SUFFICES ASSUME stored = Blank
                   PROVE  \E p \in Launches : \/ at'[p] = "write"
                                              \/ at'[p] = "killed" /\ secret[p] = Absent
      OBVIOUS
    <2>2. PICK p \in Launches : at[p] = "write" \/ (at[p] = "killed" /\ secret[p] = Absent)
      BY <2>1, Zenon DEF CredentialInv
    <2>3. at'[p] = at[p] \/ at'[p] = "killed"
      BY <2>2
    <2> QED
      BY <1>4, <2>2, <2>3
  <1>6. outdated # {} => stored \in Secrets
    BY DEF CredentialInv
  <1> QED
    BY <1>1, <1>2, <1>3, <1>5, <1>6 DEF CredentialInv

\* A launch takes what is stored.
LEMMA CredentialTaken ==
    ASSUME MigrationInv, CredentialInv, NEW p \in Launches, at[p] \in {"load", "create"},
           Loadable, Take(p), UNCHANGED <<credentialVars, outdated>>
    PROVE  CredentialInv'
  <1>1. LaunchTypeOK /\ stored \in Secrets /\ stored # Blank
    BY TypeFacts DEF Loadable
  <1>2. at'[p] = "open" /\ secret'[p] = stored
        /\ \A q \in Launches \ {p} : at'[q] = at[q] /\ secret'[q] = secret[q]
    BY <1>1 DEF Take, Go, LaunchTypeOK
  <1>3. stored' = stored /\ outdated' = outdated
    BY DEF credentialVars
  <1> QED
    BY <1>1, <1>2, <1>3 DEF CredentialInv

LEMMA CredentialCreated ==
    ASSUME MigrationInv, CredentialInv, NEW p \in Launches, at[p] = "create",
           CreateExclusive, Go(p, "write"), UNCHANGED <<secret, outdated>>
    PROVE  CredentialInv'
  <1>1. LaunchTypeOK /\ stored = Absent /\ stored' = Blank /\ stored \notin Secrets \cup {Blank}
    BY TypeFacts DEF CreateExclusive
  <1>2. at'[p] = "write" /\ \A q \in Launches \ {p} : at'[q] = at[q]
    BY <1>1 DEF Go, LaunchTypeOK
  <1>3. outdated = {} /\ \A q \in Launches : at[q] \notin {"open", "serve", "write"}
    BY <1>1 DEF CredentialInv
  <1>4. secret[p] = Absent
    BY DEF CredentialInv
  <1>5. \A q \in Launches : at'[q] \in {"open", "serve", "write"} => q = p /\ at'[q] = "write"
    BY <1>2, <1>3
  <1>6. \A q \in Launches : secret[q] # Absent
            => at'[q] \in {"open", "serve", "failed", "gone", "killed"}
    BY <1>2, <1>4 DEF CredentialInv
  <1> QED
    BY <1>1, <1>2, <1>3, <1>5, <1>6 DEF CredentialInv

\* Who created the file is the only one to write it, or comes after a rotation.
LEMMA CredentialWritten ==
    ASSUME MigrationInv, CredentialInv, NEW p \in Launches, Write(p)
    PROVE  CredentialInv'
  <1>1. LaunchTypeOK /\ at[p] = "write" /\ outdated' = outdated /\ Go(p, "open")
    BY TypeFacts DEF Write, Outside
  <1>2. PICK s \in Secrets : WriteCreated(s) /\ secret' = [secret EXCEPT ![p] = s]
    BY DEF Write
  <1>3. at'[p] = "open" /\ secret'[p] = s
        /\ \A q \in Launches \ {p} : at'[q] = at[q] /\ secret'[q] = secret[q]
    BY <1>1, <1>2 DEF Go, LaunchTypeOK
  <1>4. stored' = IF stored = Blank THEN s ELSE stored
    BY <1>2 DEF WriteCreated
  <1>5. stored' # Blank
    BY <1>2, <1>4
  <1>6. \A q \in Launches : secret'[q] # Absent
            => at'[q] \in {"open", "serve", "failed", "gone", "killed"}
    BY <1>1, <1>3 DEF CredentialInv
  <1>7. CASE p \notin outdated
    <2>1. stored = Blank /\ stored' = s /\ outdated = {}
      BY <1>1, <1>4, <1>7 DEF CredentialInv
    <2>2. \A q \in Launches : at[q] \notin {"open", "serve"} /\ (at[q] = "write" => q = p)
      BY <1>1, <1>7, <2>1 DEF CredentialInv
    <2>3. \A q \in Launches : /\ at'[q] \in {"open", "serve"} => q = p
                              /\ at'[q] # "write"
      BY <1>3, <2>2
    <2> QED
      BY <1>1, <1>2, <1>3, <1>5, <1>6, <2>1, <2>3 DEF CredentialInv
  <1>8. CASE p \in outdated
    <2>1. stored \in Secrets /\ stored' = stored
      BY <1>4, <1>8 DEF CredentialInv
    <2>2. \A q \in Launches \ outdated : at'[q] = at[q] /\ secret'[q] = secret[q]
      BY <1>3, <1>8
    <2> QED
      BY <1>1, <1>5, <1>6, <2>1, <2>2 DEF CredentialInv
  <1> QED
    BY <1>7, <1>8

LEMMA CredentialReplaced ==
    ASSUME MigrationInv, CredentialInv, ReplaceCredential
    PROVE  CredentialInv'
  <1>1. PICK s \in Secrets : Rotate(s)
    BY DEF ReplaceCredential
  <1>2. stored' = s /\ stored' # Blank /\ at' = at /\ secret' = secret
        /\ outdated' = outdated \cup {p \in Launches : Alive(p)}
    BY <1>1 DEF ReplaceCredential, Rotate, launchVars
  <1>3. \A q \in Launches \ outdated' : at[q] \notin {"open", "serve", "write"}
    BY <1>2 DEF Alive
  <1> QED
    BY <1>1, <1>2, <1>3 DEF CredentialInv

LEMMA CredentialStep == MigrationInv /\ CredentialInv /\ [Next]_vars => CredentialInv'
  <1> SUFFICES ASSUME MigrationInv, CredentialInv, [Next]_vars
               PROVE  CredentialInv'
    OBVIOUS
  <1>0. LaunchTypeOK
    BY TypeFacts
  <1>1. ASSUME NEW p \in Launches, NEW step \in Steps \ {"absent", "open", "serve", "write"},
               Go(p, step), UNCHANGED <<credentialVars, secret, outdated>>,
               \/ at[p] \notin {"open", "serve", "write", "killed", "failed", "gone"}
               \/ at[p] \in {"open", "serve"} /\ step \in {"failed", "gone"}
               \/ step = "killed"
        PROVE  CredentialInv'
    <2>1. at'[p] = step /\ \A q \in Launches \ {p} : at'[q] = at[q]
      BY <1>0, <1>1, MoveFacts
    <2> QED
      BY <1>1, <2>1, CredentialKept DEF credentialVars
  <1>2. ASSUME UNCHANGED <<credentialVars, secret, outdated, at>>
        PROVE  CredentialInv'
    BY <1>2, CredentialKept DEF credentialVars
  <1>3. ASSUME NEW p \in Launches, Launch(p) \/ Boot(p) \/ Match(p) \/ Copy(p) \/ Publish(p)
        PROVE  CredentialInv'
    BY <1>1, <1>3
       DEF Launch, Boot, Match, Copy, Publish, GroupDone, Fail, Outside, Steps
  <1>4. ASSUME NEW p \in Launches, Forward(p) \/ Report(p) \/ Language(p) \/ WriteLanguage(p)
        PROVE  CredentialInv'
    BY <1>1, <1>4 DEF Forward, Report, Language, WriteLanguage, Fail, Outside, Steps
  <1>5. ASSUME NEW p \in Launches, WritePlan(p)
        PROVE  CredentialInv'
    BY <1>1, <1>2, <1>5 DEF WritePlan, Outside, Steps
  <1>6. ASSUME NEW p \in Launches, Load(p)
        PROVE  CredentialInv'
    <2>1. CASE Loadable /\ Take(p)
      BY <1>6, <2>1, CredentialTaken DEF Load, Outside
    <2>2. CASE Reject(p) \/ (Go(p, "create") /\ UNCHANGED secret)
      BY <1>1, <1>6, <2>2 DEF Load, Reject, Fail, Outside, Steps
    <2> QED
      BY <1>6, <2>1, <2>2 DEF Load
  <1>7. ASSUME NEW p \in Launches, Create(p)
        PROVE  CredentialInv'
    <2>1. CASE CreateExclusive /\ Go(p, "write") /\ UNCHANGED secret
      BY <1>7, <2>1, CredentialCreated DEF Create, Outside
    <2>2. CASE Loadable /\ Take(p) /\ UNCHANGED credentialVars
      BY <1>7, <2>2, CredentialTaken DEF Create, Outside
    <2>3. CASE Reject(p) /\ UNCHANGED credentialVars
      BY <1>1, <1>7, <2>3 DEF Create, Reject, Fail, Outside, Steps
    <2> QED
      BY <1>7, <2>1, <2>2, <2>3 DEF Create
  <1>8. ASSUME NEW p \in Launches, Open(p)
        PROVE  CredentialInv'
    <2>1. CASE Go(p, "serve")
      <3>1. at'[p] = "serve" /\ at[p] = "open" /\ \A q \in Launches \ {p} : at'[q] = at[q]
        BY <1>0, <1>8, <2>1, MoveFacts DEF Open, Steps
      <3> QED
        BY <1>8, <3>1, CredentialKept DEF Open, credentialVars
    <2>2. CASE Fail(p, "active", {})
      BY <1>1, <1>8, <2>2 DEF Open, Fail, Steps
    <2> QED
      BY <1>8, <2>1, <2>2 DEF Open
  <1>9. ASSUME NEW p \in Launches, Stop(p) \/ Kill(p)
        PROVE  CredentialInv'
    BY <1>1, <1>9 DEF Stop, Kill, Outside, Steps
  <1>10. ASSUME (\E p \in Launches : Use(p)) \/ UseLegacy \/ CheckRotation \/ UNCHANGED vars
         PROVE  CredentialInv'
    BY <1>2, <1>10 DEF Use, UseLegacy, CheckRotation, vars, launchVars, history
  <1> QED
    BY <1>3, <1>4, <1>5, <1>6, <1>7, <1>8, <1>9, <1>10, CredentialWritten, CredentialReplaced
       DEF Next, Start

\* However many launches create the credential at once, one that serves holds
\* what is stored, unless the file was replaced while it lived: only who created
\* the file writes it, and nobody takes it before it is written.
THEOREM ServesOwnCredential == Spec => []OwnCredential
  <1>1. Init => CredentialInv
    BY DEF Init, CredentialInit, CredentialInv
  <1>2. CredentialInv => OwnCredential
    BY DEF CredentialInv, OwnCredential, Authenticates, Loadable
  <1> QED
    BY <1>1, <1>2, CredentialStep, MigrationAlways, PTL DEF Spec

----------------------------------------------------------------------------
\* Launches that are alone

\* What a launch that is alone finds again.
FindsAgain(p) ==
    /\ at[p] \in {"copy", "publish"} => library[group[p]] = Nothing
    /\ at[p] = "write_plan" => \A f \in DOMAIN plan[p] :
          \/ f \notin DOMAIN library["hermes"]
          \/ f = ConfigName /\ \A k \in Keys :
                library["hermes"][f][k] # "unset" => plan[p][f][k] = library["hermes"][f][k]
    /\ at[p] = "write_language" =>
          /\ ConfigName \in DOMAIN library["hermes"] /\ kept[p] = library["hermes"][ConfigName]
          /\ LacksLanguage(library["hermes"])

\* A launch that moves disturbs only those that have met it.
LEMMA AloneMoves ==
    ASSUME AloneInv, NEW p \in Launches, Alive(p), met' = met,
           \A q \in Launches \ {p} : at'[q] = at[q],
           p \notin met => FindsAgain(p)'
    PROVE  AloneInv'
  <1> SUFFICES ASSUME NEW q \in Launches \ met, Alive(q)'
               PROVE  Undisturbed(q)'
    BY DEF AloneInv
  <1>1. CASE q = p
    <2>1. Others(p) = {}
      BY <1>1 DEF AloneInv, Undisturbed
    <2>2. Others(p)' = {}
      BY <2>1 DEF Others, Alive
    <2> QED
      BY <1>1, <2>2 DEF Undisturbed, FindsAgain
  <1>2. CASE q # p
    <2>1. Alive(q)
      BY <1>2 DEF Alive
    <2>2. p \in Others(q)
      BY <1>2 DEF Others
    <2> QED
      BY <2>1, <2>2 DEF AloneInv, Undisturbed
  <1> QED
    BY <1>1, <1>2

LEMMA AloneStays ==
    ASSUME AloneInv, UNCHANGED <<library, launchVars, met>>
    PROVE  AloneInv'
  <1>1. \A q \in Launches : Alive(q)' <=> Alive(q)
    BY DEF Alive, launchVars
  <1>2. \A q \in Launches : Others(q)' = Others(q)
    BY DEF Others, Alive, launchVars
  <1>3. ASSUME NEW q \in Launches \ met, Undisturbed(q)
        PROVE  Undisturbed(q)'
    <2>1. FindsAgain(q)
      BY <1>3 DEF Undisturbed, FindsAgain
    <2>2. FindsAgain(q)'
      BY <2>1 DEF FindsAgain, LacksLanguage, launchVars
    <2> QED
      BY <1>2, <1>3, <2>2 DEF Undisturbed, FindsAgain
  <1> QED
    BY <1>1, <1>3 DEF AloneInv

LEMMA AloneLaunch ==
    ASSUME MigrationInv, AloneInv, NEW p \in Launches, Launch(p)
    PROVE  AloneInv'
  <1>1. at'[p] = "boot" /\ at[p] = "absent" /\ \A q \in Launches \ {p} : at'[q] = at[q]
    BY TypeFacts, MoveFacts DEF Launch, Steps
  <1>2. met' = IF Others(p) = {} THEN met ELSE met \cup Others(p) \cup {p}
    BY DEF Launch
  <1>3. Others(p)' = Others(p)
    BY <1>1 DEF Others, Alive
  <1> SUFFICES ASSUME NEW q \in Launches \ met', Alive(q)'
               PROVE  Undisturbed(q)'
    BY DEF AloneInv
  <1>4. CASE q = p
    BY <1>1, <1>2, <1>3, <1>4 DEF Undisturbed
  <1>5. CASE q # p
    <2>1. q \in Others(p)
      BY <1>1, <1>5 DEF Others, Alive
    <2> QED
      BY <1>2, <2>1
  <1> QED
    BY <1>4, <1>5

LEMMA AloneStep == MigrationInv /\ AloneInv /\ [Next]_vars => AloneInv'
  <1> SUFFICES ASSUME MigrationInv, AloneInv, [Next]_vars
               PROVE  AloneInv'
    OBVIOUS
  <1>0. LaunchTypeOK /\ LibraryTypeOK
    BY TypeFacts
  <1>1. ASSUME NEW p \in Launches, NEW step \in Steps, Go(p, step), Alive(p), met' = met,
               step \notin {"copy", "publish", "write_plan", "write_language"}
        PROVE  AloneInv'
    <2>1. at'[p] = step /\ \A q \in Launches \ {p} : at'[q] = at[q]
      BY <1>0, <1>1, MoveFacts
    <2>2. FindsAgain(p)'
      BY <1>1, <2>1 DEF FindsAgain
    <2> QED
      BY <1>1, <2>1, <2>2, AloneMoves
  <1>2. ASSUME NEW p \in Launches, Match(p)
        PROVE  AloneInv'
    <2>1. Alive(p) /\ met' = met
      BY <1>2 DEF Match, Alive, Outside
    <2>2. CASE Go(p, "copy") /\ library[group[p]] = Nothing /\ UNCHANGED <<library, group>>
      <3>1. at'[p] = "copy" /\ \A q \in Launches \ {p} : at'[q] = at[q]
        BY <1>0, <2>2, MoveFacts DEF Steps
      <3>2. FindsAgain(p)'
        BY <2>2, <3>1 DEF FindsAgain
      <3> QED
        BY <2>1, <3>1, <3>2, AloneMoves
    <2>3. CASE GroupDone(p) \/ Fail(p, "conflict", Differing(group[p]))
      BY <1>1, <2>1, <2>3 DEF GroupDone, Fail, Steps
    <2> QED
      BY <1>2, <2>2, <2>3 DEF Match
  <1>3. ASSUME NEW p \in Launches, Copy(p)
        PROVE  AloneInv'
    <2>1. Alive(p) /\ met' = met /\ at[p] = "copy" /\ UNCHANGED <<library, group>>
      BY <1>3 DEF Copy, Alive, Outside, libraryVars
    <2>2. ASSUME NEW step \in {"copy", "publish"}, Go(p, step)
          PROVE  AloneInv'
      <3>1. at'[p] = step /\ \A q \in Launches \ {p} : at'[q] = at[q]
        BY <1>0, <2>2, MoveFacts DEF Steps
      <3>2. p \notin met => FindsAgain(p)'
        BY <2>1, <3>1 DEF AloneInv, Undisturbed, FindsAgain
      <3> QED
        BY <2>1, <3>1, <3>2, AloneMoves
    <2>3. ASSUME NEW files, Fail(p, "sources", files)
          PROVE  AloneInv'
      BY <1>1, <2>1, <2>3 DEF Fail, Steps
    <2> QED
      BY <1>3, <2>2, <2>3 DEF Copy
  <1>4. ASSUME NEW p \in Launches, Publish(p)
        PROVE  AloneInv'
    BY <1>1, <1>4 DEF Publish, Alive, GroupDone, Fail, Steps, Outside
  <1>5. ASSUME NEW p \in Launches, Forward(p)
        PROVE  AloneInv'
    <2>1. Alive(p) /\ met' = met /\ library' = library
      BY <1>5 DEF Forward, Alive, Outside, libraryVars
    <2>2. CASE Go(p, "write_plan") /\ plan' = [plan EXCEPT ![p] = Forwarding]
               /\ source[Legacy] # Nothing
      <3>1. at'[p] = "write_plan" /\ \A q \in Launches \ {p} : at'[q] = at[q]
        BY <1>0, <2>2, MoveFacts DEF Steps
      <3>2. plan'[p] = Forwarding
        BY <1>0, <2>2 DEF LaunchTypeOK
      <3>3. source[Legacy] \in Trees /\ library["hermes"] \in Trees
        BY <1>0, <1>5, <2>2, GroupFacts
           DEF MigrationInv, Progress, PastHermes, Forward, LibraryTypeOK
      <3>4. ASSUME NEW f \in DOMAIN Forwarding, f \in DOMAIN library["hermes"]
            PROVE  f = ConfigName /\ \A k \in Keys :
                      library["hermes"][f][k] # "unset" => Forwarding[f][k] = library["hermes"][f][k]
        <4>1. f = ConfigName /\ f \in DOMAIN source[Legacy]
              /\ Forwarding[f] = Merged(source[Legacy][f], library["hermes"][f])
          BY <3>3, <3>4, ForwardingFacts
        <4>2. source[Legacy][f] \in Configs /\ library["hermes"][f] \in Configs
          BY <3>3, <3>4, <4>1, TreeFacts
        <4> QED
          BY <4>1, <4>2, MergedFacts
      <3>5. FindsAgain(p)'
        BY <2>1, <3>1, <3>2, <3>4 DEF FindsAgain
      <3> QED
        BY <2>1, <3>1, <3>5, AloneMoves
    <2>3. CASE Go(p, "match") \/ Fail(p, "forward", {ConfigName})
      BY <1>1, <2>1, <2>3 DEF Fail, Steps
    <2> QED
      BY <1>5, <2>2, <2>3 DEF Forward
  <1>6. ASSUME NEW p \in Launches, WritePlan(p)
        PROVE  AloneInv'
    <2> DEFINE files == DOMAIN plan[p]
               f == IF ConfigName \in files THEN ConfigName ELSE CHOOSE n \in files : TRUE
    <2>1. Alive(p) /\ met' = met /\ at[p] = "write_plan" /\ source' = source /\ ready' = ready
      BY <1>6 DEF WritePlan, Alive, Outside
    <2>2. CASE files # {}
      <3>1. f \in files
        BY <2>2
      <3>2. /\ WriteFile(f, plan[p][f]) /\ UNCHANGED <<at, group>>
            /\ plan' = [plan EXCEPT ![p] = [n \in files \ {f} |-> plan[p][n]]]
        BY <1>0, <1>6, <2>2 DEF WritePlan, LaunchTypeOK
      <3> HIDE DEF f
      <3>3. DOMAIN plan'[p] = files \ {f} /\ \A n \in files \ {f} : plan'[p][n] = plan[p][n]
        BY <1>0, <3>2 DEF LaunchTypeOK
      <3>4. library["hermes"] # Nothing /\ Planned(p) /\ plan[p] \in Trees
        BY <1>0, <2>1 DEF MigrationInv, Progress, PastHermes, LaunchTypeOK
      <3>5. f \in FileNames /\ plan[p][f] \in IF f = ConfigName THEN Configs ELSE Versions
        BY <3>1, <3>4, TreeFacts
      <3>6. f = ConfigName => Full(plan[p][f])
        BY <3>1, <3>4 DEF Planned
      <3>7. /\ DOMAIN library'["hermes"] = DOMAIN library["hermes"] \cup {f}
            /\ \A n \in DOMAIN library["hermes"] :
                   n # f => library'["hermes"][n] = library["hermes"][n]
        BY <1>0, <2>1, <3>2, <3>4, <3>5, <3>6, WriteFacts
      <3>8. ASSUME p \notin met
            PROVE  FindsAgain(p)'
        <4>1. \A n \in DOMAIN plan[p] :
                  \/ n \notin DOMAIN library["hermes"]
                  \/ n = ConfigName /\ \A k \in Keys :
                        library["hermes"][n][k] # "unset" => plan[p][n][k] = library["hermes"][n][k]
          BY <2>1, <3>8 DEF AloneInv, Undisturbed
        <4>2. \A n \in DOMAIN plan'[p] :
                  \/ n \notin DOMAIN library'["hermes"]
                  \/ n = ConfigName /\ \A k \in Keys :
                        library'["hermes"][n][k] # "unset" => plan'[p][n][k] = library'["hermes"][n][k]
          BY <3>3, <3>7, <4>1
        <4> QED
          BY <2>1, <3>2, <4>2 DEF FindsAgain
      <3> QED
        BY <2>1, <3>2, <3>8, AloneMoves
    <2>3. CASE files = {}
      BY <1>1, <1>6, <2>1, <2>3 DEF WritePlan, Steps
    <2> QED
      BY <2>2, <2>3
  <1>7. ASSUME NEW p \in Launches, Language(p)
        PROVE  AloneInv'
    <2>1. Alive(p) /\ met' = met /\ library' = library
      BY <1>7 DEF Language, Alive, Outside, libraryVars
    <2>2. CASE Go(p, "write_language") /\ LacksLanguage(library["hermes"])
               /\ kept' = [kept EXCEPT ![p] = library["hermes"][ConfigName]]
      <3>1. at'[p] = "write_language" /\ \A q \in Launches \ {p} : at'[q] = at[q]
        BY <1>0, <2>2, MoveFacts DEF Steps
      <3>2. kept'[p] = library["hermes"][ConfigName]
        BY <1>0, <2>2 DEF LaunchTypeOK
      <3>3. FindsAgain(p)'
        BY <2>1, <2>2, <3>1, <3>2 DEF FindsAgain, LacksLanguage
      <3> QED
        BY <2>1, <3>1, <3>3, AloneMoves
    <2>3. CASE Go(p, "load")
      BY <1>1, <2>1, <2>3 DEF Steps
    <2> QED
      BY <1>7, <2>2, <2>3 DEF Language
  <1>8. ASSUME NEW p \in Launches, Boot(p) \/ Report(p) \/ WriteLanguage(p) \/ Stop(p) \/ Kill(p)
        PROVE  AloneInv'
    <2>1. Alive(p) /\ met' = met
      BY <1>8 DEF Boot, Report, WriteLanguage, Stop, Kill, Alive, Outside
    <2> QED
      BY <1>1, <1>8, <2>1 DEF Boot, Report, WriteLanguage, Stop, Kill, Steps
  <1>9. ASSUME NEW p \in Launches, Load(p) \/ Create(p) \/ Write(p) \/ Open(p)
        PROVE  AloneInv'
    <2>1. Alive(p) /\ met' = met
      BY <1>9 DEF Load, Create, Write, Open, Alive, Outside
    <2> QED
      BY <1>1, <1>9, <2>1 DEF Load, Create, Write, Open, Take, Reject, Fail, Steps
  <1>10. ASSUME NEW p \in Launches, Use(p)
         PROVE  AloneInv'
    <2>1. Alive(p) /\ met' = met /\ at[p] = "serve" /\ at' = at
      BY <1>10 DEF Use, Alive, launchVars, history
    <2>2. FindsAgain(p)'
      BY <2>1 DEF FindsAgain
    <2> QED
      BY <2>1, <2>2, AloneMoves
  <1>11. ASSUME UseLegacy \/ CheckRotation \/ ReplaceCredential \/ UNCHANGED vars
         PROVE  AloneInv'
    BY <1>11, AloneStays
       DEF UseLegacy, CheckRotation, ReplaceCredential, vars, libraryVars, history
  <1> QED
    BY <1>2, <1>3, <1>4, <1>5, <1>6, <1>7, <1>8, <1>9, <1>10, <1>11, AloneLaunch DEF Next, Start

LEMMA AloneAlways == Spec => []AloneInv
  <1>1. Init => AloneInv
    BY DEF Init, AloneInv, Alive
  <1> QED
    BY <1>1, AloneStep, MigrationAlways, PTL DEF Spec

----------------------------------------------------------------------------
\* The own copy

LEMMA KeepsItself ==
    ASSUME NEW tree
    PROVE  Keeps(tree, tree)
  BY DEF Keeps

LEMMA OwnCopyStep ==
    ASSUME MigrationInv, AloneInv, [Next]_vars, edits' = edits, library["hermes"] # Nothing,
           ~\E p \in met : Alive(p)
    PROVE  Keeps(library["hermes"], library'["hermes"])
  <1>0. LibraryTypeOK /\ LaunchTypeOK /\ library["hermes"] \in Trees
    BY TypeFacts, GroupFacts DEF LibraryTypeOK
  <1>1. CASE library' = library
    BY <1>1, KeepsItself
  <1>2. ASSUME NEW p \in Launches, Match(p)
        PROVE  Keeps(library["hermes"], library'["hermes"])
    <2>1. CASE Install(group[p], Ensured(group[p]))
      <3>1. library'["hermes"] = library["hermes"]
        BY <1>0, <2>1, GroupFacts DEF Install, Ensured, LibraryTypeOK
      <3> QED
        BY <3>1, KeepsItself
    <2> QED
      BY <1>1, <1>2, <2>1 DEF Match
  <1>3. ASSUME NEW p \in Launches, Publish(p)
        PROVE  Keeps(library["hermes"], library'["hermes"])
    <2>1. CASE Install(group[p], staging[p])
      <3>1. library[group[p]] = Nothing
        BY <1>3 DEF Publish, AloneInv, Undisturbed, Alive
      <3>2. group[p] # "hermes"
        BY <3>1
      <3>3. library'["hermes"] = library["hermes"]
        BY <1>0, <2>1, <3>2, GroupFacts DEF Install, LibraryTypeOK
      <3> QED
        BY <3>3, KeepsItself
    <2> QED
      BY <1>1, <1>3, <2>1 DEF Publish
  <1>4. ASSUME NEW p \in Launches, WritePlan(p)
        PROVE  Keeps(library["hermes"], library'["hermes"])
    <2> DEFINE files == DOMAIN plan[p]
               f == IF ConfigName \in files THEN ConfigName ELSE CHOOSE n \in files : TRUE
    <2>1. at[p] = "write_plan" /\ source' = source /\ ready' = ready /\ Undisturbed(p)
      BY <1>4 DEF WritePlan, AloneInv, Alive
    <2>2. CASE files # {}
      <3>1. f \in files /\ WriteFile(f, plan[p][f])
        BY <1>4, <2>2 DEF WritePlan
      <3> HIDE DEF f
      <3>2. Planned(p) /\ plan[p] \in Trees
        BY <1>0, <2>1 DEF MigrationInv, Progress, LaunchTypeOK
      <3>3. f \in FileNames /\ plan[p][f] \in IF f = ConfigName THEN Configs ELSE Versions
        BY <3>1, <3>2, TreeFacts
      <3>4. f = ConfigName => Full(plan[p][f])
        BY <3>1, <3>2 DEF Planned
      <3>5. /\ DOMAIN library'["hermes"] = DOMAIN library["hermes"] \cup {f}
            /\ library'["hermes"][f] = plan[p][f]
            /\ \A n \in DOMAIN library["hermes"] :
                   n # f => library'["hermes"][n] = library["hermes"][n]
        BY <1>0, <2>1, <3>1, <3>3, <3>4, WriteFacts
      <3>6. f \in DOMAIN library["hermes"] => f = ConfigName /\ \A k \in Keys :
                library["hermes"][f][k] # "unset" => plan[p][f][k] = library["hermes"][f][k]
        BY <2>1, <3>1 DEF Undisturbed
      <3> QED
        BY <3>5, <3>6 DEF Keeps
    <2>3. CASE files = {}
      BY <1>1, <1>4, <2>3 DEF WritePlan
    <2> QED
      BY <2>2, <2>3
  <1>5. ASSUME NEW p \in Launches, WriteLanguage(p)
        PROVE  Keeps(library["hermes"], library'["hermes"])
    <2> DEFINE old == library["hermes"][ConfigName]
               new == WithAutoDetect(kept[p])
    <2>1. /\ at[p] = "write_language" /\ source' = source /\ ready' = ready
          /\ WriteFile(ConfigName, new)
          /\ ConfigName \in DOMAIN library["hermes"] /\ kept[p] = old
          /\ old.stt \in {"unset", "bare"}
      BY <1>5 DEF WriteLanguage, AloneInv, Undisturbed, Alive, LacksLanguage
    <2>2. kept[p] \in Configs
      BY <1>0, <2>1, TreeFacts
    <2>3. new \in Configs /\ new.other = old.other /\ Covers(new, old)
      BY <2>1, <2>2, WithLanguage DEF WithAutoDetect, SttValues
    <2>4. ConfigName \in FileNames
      BY DEF FileNames
    <2>5. /\ DOMAIN library'["hermes"] = DOMAIN library["hermes"] \cup {ConfigName}
          /\ library'["hermes"][ConfigName] = new
          /\ \A n \in DOMAIN library["hermes"] :
                 n # ConfigName => library'["hermes"][n] = library["hermes"][n]
      BY <1>0, <2>1, <2>3, <2>4, WriteFacts
    <2> QED
      BY <2>1, <2>3, <2>5 DEF Keeps, Keys
  <1>6. ASSUME NEW p \in Launches, Use(p)
        PROVE  FALSE
    <2>1. edits \in Nat /\ edits' = edits + 1
      BY <1>6, TypeFacts DEF Use, Edited, Aside
    <2> QED
      BY <2>1
  <1>7. ASSUME NEW p \in Launches, Launch(p) \/ Boot(p) \/ Copy(p) \/ Forward(p) \/ Report(p)
                                   \/ Language(p) \/ Load(p) \/ Create(p) \/ Write(p)
        PROVE  library' = library
    BY <1>7
       DEF Launch, Boot, Copy, Forward, Report, Language, Load, Create, Write, libraryVars
  <1>8. ASSUME NEW p \in Launches, Open(p) \/ Stop(p) \/ Kill(p)
        PROVE  library' = library
    BY <1>8 DEF Open, Stop, Kill, libraryVars
  <1>9. ASSUME UseLegacy \/ CheckRotation \/ ReplaceCredential \/ UNCHANGED vars
        PROVE  library' = library
    BY <1>9 DEF UseLegacy, CheckRotation, ReplaceCredential, vars, libraryVars
  <1> QED
    BY <1>1, <1>2, <1>3, <1>4, <1>5, <1>6, <1>7, <1>8, <1>9 DEF Next, Start

\* No start, also one after a crash between any two writes, replaces a file or a
\* choice the Library has: alone, it finds what it read, so that it publishes
\* only where nothing is, forwards only what is missing, merges keys and adds a
\* language where none was chosen.
THEOREM OwnCopyIsKept == Spec => OwnCopyStays
  <1>1. MigrationInv /\ AloneInv /\ [Next]_vars
        => [edits' = edits /\ library["hermes"] # Nothing /\ ~(\E p \in met : Alive(p))
            => Keeps(library["hermes"], library'["hermes"])]_vars
    BY OwnCopyStep
  <1> QED
    BY <1>1, MigrationAlways, AloneAlways, PTL DEF Spec, OwnCopyStays

----------------------------------------------------------------------------
\* Data that earlier versions kept apart stays so

LEMMA SourcesStay ==
    ASSUME FilesKept, LibraryTypeOK
    PROVE  \A g \in Groups : /\ Existing(g)' = Existing(g)
                             /\ \A s \in Existing(g) : source'[s] = source[s]
  BY BroughtStays, GroupFacts DEF FilesKept, SourcesKept

\* The Library is left alone, or filled with what agrees, or a file is written
\* that no source has.
LEMMA AgreeStays ==
    ASSUME LibraryTypeOK, FilesKept, FilesAgree,
           \A g \in Groups :
               \/ library'[g] = library[g]
               \/ \A s \in Existing(g) : AgreesWith(source[s], library'[g])
               \/ /\ library[g] # Nothing
                  /\ \A f \in DOMAIN library[g] : library'[g][f] = library[g][f] \/
                         \A s \in Existing(g) : f \notin DOMAIN source[s] \ ChangedInPlace
    PROVE  FilesAgree'
  <1>1. \A g \in Groups : Existing(g)' = Existing(g) /\ \A s \in Existing(g) : source'[s] = source[s]
    BY SourcesStay
  <1>2. \A g \in Groups : library[g] # Nothing => DOMAIN library[g] \subseteq DOMAIN library'[g]
    BY DEF FilesKept, LibraryGrows
  <1> SUFFICES ASSUME NEW g \in Groups, NEW s \in Existing(g),
                      NEW f \in DOMAIN source[s] \ ChangedInPlace
               PROVE  /\ library'[g] # Nothing => f \in DOMAIN library'[g]
                                                  /\ library'[g][f] = source[s][f]
                      /\ \A t \in Existing(g) : f \in DOMAIN source[t] => source[t][f] = source[s][f]
    BY <1>1 DEF FilesAgree
  <1>3. CASE library'[g] = library[g]
    BY <1>3 DEF FilesAgree
  <1>4. CASE \A t \in Existing(g) : AgreesWith(source[t], library'[g])
    BY <1>4 DEF FilesAgree, AgreesWith
  <1>5. CASE /\ library[g] # Nothing
             /\ \A n \in DOMAIN library[g] : library'[g][n] = library[g][n] \/
                    \A t \in Existing(g) : n \notin DOMAIN source[t] \ ChangedInPlace
    BY <1>2, <1>5 DEF FilesAgree
  <1> QED
    BY <1>3, <1>4, <1>5

\* A step that writes one file of the profile.
LEMMA WriteAgrees ==
    ASSUME LibraryTypeOK, FilesKept, FilesAgree, library["hermes"] # Nothing, NEW file,
           library'["models"] = library["models"],
           \A n \in DOMAIN library["hermes"] :
               n # file => library'["hermes"][n] = library["hermes"][n],
           \A s \in Existing("hermes") : file \notin DOMAIN source[s] \ ChangedInPlace
    PROVE  FilesAgree'
  <1>1. ASSUME NEW g \in Groups
        PROVE  \/ library'[g] = library[g]
               \/ /\ library[g] # Nothing
                  /\ \A f \in DOMAIN library[g] : library'[g][f] = library[g][f] \/
                         \A s \in Existing(g) : f \notin DOMAIN source[s] \ ChangedInPlace
    BY DEF Groups
  <1> QED
    BY <1>1, AgreeStays

\* Plans that were apart stay so, but the one that is made.
LEMMA PlansStay ==
    ASSUME LibraryTypeOK, FilesKept, NEW q \in Launches, PlanApart(q), at'[q] = "write_plan" =>
               at[q] = "write_plan" /\ DOMAIN plan'[q] \subseteq DOMAIN plan[q]
    PROVE  PlanApart(q)'
  BY SourcesStay, GroupFacts DEF PlanApart

LEMMA ConsistentStep ==
    ASSUME MigrationInv, ConsistentInv, [Next]_vars
    PROVE  ConsistentInv'
  <1>0. LibraryTypeOK /\ LaunchTypeOK /\ FilesAgree /\ \A p \in Launches : PlanApart(p)
    BY TypeFacts DEF ConsistentInv
  <1>1. ASSUME library' = library, FilesKept
        PROVE  FilesAgree'
    BY <1>0, <1>1, AgreeStays
  <1>2. ASSUME FilesKept, FilesAgree',
               \A q \in Launches : at'[q] = "write_plan" =>
                   at[q] = "write_plan" /\ DOMAIN plan'[q] \subseteq DOMAIN plan[q]
        PROVE  ConsistentInv'
    <2>1. ASSUME NEW q \in Launches
          PROVE  PlanApart(q)'
      BY <1>0, <1>2, PlansStay
    <2> QED
      BY <1>2, <2>1 DEF ConsistentInv
  <1>3. ASSUME NEW p \in Launches, NEW step \in Steps \ {"write_plan"}, Go(p, step),
               plan' = plan, FilesKept, FilesAgree'
        PROVE  ConsistentInv'
    <2>1. at'[p] = step /\ \A q \in Launches \ {p} : at'[q] = at[q]
      BY <1>0, <1>3, MoveFacts
    <2> QED
      BY <1>2, <1>3, <2>1
  <1>4. ASSUME NEW p \in Launches, NEW step \in Steps \ {"write_plan"}, Go(p, step),
               plan' = plan, source' = source, library' = library, ready' = ready \/ ready' = TRUE
        PROVE  ConsistentInv'
    <2>1. ready' \in BOOLEAN /\ (ready => ready')
      <3>1. ready \in BOOLEAN
        BY <1>0 DEF LibraryTypeOK
      <3>2. CASE ready' = ready
        BY <3>1, <3>2
      <3>3. CASE ready' = TRUE
        BY <3>3
      <3> QED
        BY <1>4, <3>2, <3>3
    <2>2. FilesKept
      BY <1>0, <1>4, <2>1, SameFiles
    <2> QED
      BY <1>1, <1>3, <1>4, <2>2
  <1>5. ASSUME NEW p \in Launches, Match(p)
        PROVE  ConsistentInv'
    <2> DEFINE g == group[p]
    <2>1. source' = source /\ ready' = ready /\ plan' = plan /\ g \in Groups
      BY <1>0, <1>5 DEF Match, LaunchTypeOK
    <2>2. CASE Existing(g) = {} /\ Install(g, Ensured(g)) /\ GroupDone(p)
      <3>1. Ensured(g) \in Trees /\ (Replaceable(g) \/ library[g] = Ensured(g))
        BY <1>0, <2>1, EmptyTreeFacts DEF Ensured, Replaceable, LibraryTypeOK
      <3>2. FilesKept /\ \A h \in Groups \ {g} : library'[h] = library[h]
        BY <1>0, <2>1, <2>2, <3>1, InstallFacts
      <3>3. FilesAgree'
        BY <1>0, <2>2, <3>2, AgreeStays
      <3> QED
        BY <1>3, <2>1, <2>2, <3>2, <3>3 DEF GroupDone, Steps
    <2>3. CASE UNCHANGED library /\ (GroupDone(p) \/ Fail(p, "conflict", Differing(g)) \/ Go(p, "copy"))
      BY <1>4, <2>1, <2>3 DEF GroupDone, Fail, Steps
    <2> QED
      BY <1>5, <2>2, <2>3 DEF Match
  <1>6. ASSUME NEW p \in Launches, Publish(p)
        PROVE  ConsistentInv'
    <2> DEFINE g == group[p]
    <2>1. source' = source /\ ready' = ready /\ plan' = plan /\ g \in Groups
      BY <1>0, <1>6 DEF Publish, LaunchTypeOK
    <2>2. CASE Replaceable(g) /\ Install(g, staging[p]) /\ GroupDone(p)
      <3>1. Staged(p) /\ left[p] = {}
        BY <1>6 DEF MigrationInv, Progress, Publish, Staged
      <3>2. staging[p] \in Trees
        BY <1>0, <3>1 DEF Staged, LaunchTypeOK
      <3>3. FilesKept /\ library'[g] = staging[p] /\ \A h \in Groups \ {g} : library'[h] = library[h]
        BY <1>0, <2>1, <2>2, <3>2, InstallFacts
      <3>4. \A s \in Existing(g) : AgreesWith(source[s], library'[g])
        BY <3>1, <3>3 DEF Staged
      <3>5. FilesAgree'
        BY <1>0, <3>3, <3>4, AgreeStays
      <3> QED
        BY <1>3, <2>1, <2>2, <3>3, <3>5 DEF GroupDone, Steps
    <2>3. CASE UNCHANGED library /\ Fail(p, "published", {})
      BY <1>4, <2>1, <2>3 DEF Fail, Steps
    <2> QED
      BY <1>6, <2>2, <2>3 DEF Publish
  <1>7. ASSUME NEW p \in Launches, Forward(p)
        PROVE  ConsistentInv'
    <2>1. UNCHANGED libraryVars
      BY <1>7 DEF Forward
    <2>2. CASE plan' = [plan EXCEPT ![p] = Forwarding] /\ Go(p, "write_plan") /\ source[Legacy] # Nothing
      <3>1. FilesKept
        BY <1>0, <2>1, SameFiles DEF LibraryTypeOK, libraryVars
      <3>2. library["hermes"] # Nothing
        BY <1>7 DEF MigrationInv, Progress, PastHermes, Forward
      <3>3. source[Legacy] \in Trees /\ library["hermes"] \in Trees
        BY <1>0, <2>2, <3>2, GroupFacts DEF LibraryTypeOK
      <3>4. plan'[p] = Forwarding /\ \A q \in Launches \ {p} : plan'[q] = plan[q] /\ at'[q] = at[q]
        BY <1>0, <2>2 DEF LaunchTypeOK, Go
      <3>5. \A s \in Existing("hermes") : \A f \in DOMAIN source[s] \ ChangedInPlace :
                f \in DOMAIN library["hermes"]
        BY <1>0, <3>2, GroupFacts DEF FilesAgree
      <3>6. \A f \in DOMAIN Forwarding : f \in DOMAIN library["hermes"] => f \in ChangedInPlace
        BY <3>3, ForwardingFacts DEF ChangedInPlace
      <3>7. PlanApart(p)'
        BY <1>0, <3>1, <3>4, <3>5, <3>6, SourcesStay, GroupFacts DEF PlanApart
      <3>8. \A q \in Launches \ {p} : PlanApart(q)'
        BY <1>0, <3>1, <3>4, PlansStay
      <3>9. FilesAgree'
        BY <1>1, <2>1, <3>1 DEF libraryVars
      <3>10. \A q \in Launches : PlanApart(q)'
        BY <3>7, <3>8
      <3> QED
        BY <3>9, <3>10 DEF ConsistentInv
    <2>3. CASE plan' = plan /\ (Go(p, "match") \/ Fail(p, "forward", {ConfigName}))
      BY <1>4, <2>1, <2>3 DEF Fail, Steps, libraryVars
    <2> QED
      BY <1>7, <2>2, <2>3 DEF Forward
  <1>8. ASSUME NEW p \in Launches, WritePlan(p)
        PROVE  ConsistentInv'
    <2> DEFINE files == DOMAIN plan[p]
               f == IF ConfigName \in files THEN ConfigName ELSE CHOOSE n \in files : TRUE
    <2>1. at[p] = "write_plan" /\ source' = source /\ ready' = ready
      BY <1>8 DEF WritePlan
    <2>2. CASE files # {}
      <3>1. f \in files
        BY <2>2
      <3>2. /\ WriteFile(f, plan[p][f]) /\ at' = at
            /\ plan' = [plan EXCEPT ![p] = [n \in files \ {f} |-> plan[p][n]]]
        BY <1>0, <1>8, <2>2 DEF WritePlan, LaunchTypeOK
      <3> HIDE DEF f
      <3>3. Planned(p) /\ plan[p] \in Trees /\ library["hermes"] # Nothing
        BY <1>0, <2>1 DEF MigrationInv, Progress, PastHermes, LaunchTypeOK
      <3>4. f \in FileNames /\ plan[p][f] \in IF f = ConfigName THEN Configs ELSE Versions
        BY <3>1, <3>3, TreeFacts
      <3>5. f = ConfigName => Full(plan[p][f])
        BY <3>1, <3>3 DEF Planned
      <3>6. /\ FilesKept /\ library'["models"] = library["models"]
            /\ \A n \in DOMAIN library["hermes"] :
                   n # f => library'["hermes"][n] = library["hermes"][n]
        BY <1>0, <2>1, <3>2, <3>3, <3>4, <3>5, WriteFacts
      <3>7. \A s \in Existing("hermes") : f \notin DOMAIN source[s] \ ChangedInPlace
        BY <1>0, <2>1, <3>1 DEF PlanApart
      <3>8. FilesAgree'
        BY <1>0, <3>3, <3>6, <3>7, WriteAgrees
      <3>9. \A q \in Launches : DOMAIN plan'[q] \subseteq DOMAIN plan[q]
        BY <1>0, <3>2 DEF LaunchTypeOK
      <3> QED
        BY <1>2, <3>2, <3>6, <3>8, <3>9
    <2>3. CASE files = {}
      BY <1>4, <1>8, <2>1, <2>3 DEF WritePlan, Steps
    <2> QED
      BY <2>2, <2>3
  <1>9. ASSUME NEW p \in Launches, WriteLanguage(p)
        PROVE  ConsistentInv'
    <2>1. /\ at[p] = "write_language" /\ source' = source /\ ready' = ready /\ plan' = plan
          /\ WriteFile(ConfigName, WithAutoDetect(kept[p])) /\ Go(p, "load")
      BY <1>9 DEF WriteLanguage
    <2>2. kept[p] \in Configs /\ Full(kept[p]) /\ library["hermes"] # Nothing
      BY <2>1 DEF MigrationInv, Progress, PastHermes, Prepared
    <2>3. WithAutoDetect(kept[p]) \in Configs /\ Full(WithAutoDetect(kept[p]))
      BY <2>2, WithLanguage, CoversTransitive DEF WithAutoDetect, SttValues, Full
    <2>4. ConfigName \in FileNames /\ ConfigName \in ChangedInPlace
      BY DEF FileNames, ChangedInPlace
    <2>5. /\ FilesKept /\ library'["models"] = library["models"]
          /\ \A n \in DOMAIN library["hermes"] :
                 n # ConfigName => library'["hermes"][n] = library["hermes"][n]
      BY <1>0, <2>1, <2>2, <2>3, <2>4, WriteFacts
    <2>6. FilesAgree'
      BY <1>0, <2>2, <2>4, <2>5, WriteAgrees
    <2> QED
      BY <1>3, <2>1, <2>5, <2>6 DEF Steps
  <1>10. ASSUME NEW p \in Launches, Use(p)
         PROVE  ConsistentInv'
    <2>1. at[p] = "serve" /\ source' = source /\ ready' = ready /\ plan' = plan /\ at' = at
      BY <1>10 DEF Use, launchVars
    <2>2. library["hermes"] # Nothing /\ library["hermes"] \in Trees
      BY <1>0, <2>1, GroupFacts DEF MigrationInv, Progress, PastHermes, Prepared, LibraryTypeOK
    <2>3. {ConfigName, AuthName} \subseteq FileNames \cap ChangedInPlace /\ AuthName # ConfigName
      BY DEF FileNames, ChangedInPlace, ConfigName, AuthName
    <2>4. PICK file \in {ConfigName, AuthName} :
              /\ FilesKept /\ library'["models"] = library["models"]
              /\ \A n \in DOMAIN library["hermes"] :
                     n # file => library'["hermes"][n] = library["hermes"][n]
      <3>1. ASSUME NEW v \in Versions, WriteFile(AuthName, v)
            PROVE  /\ FilesKept /\ library'["models"] = library["models"]
                   /\ \A n \in DOMAIN library["hermes"] :
                          n # AuthName => library'["hermes"][n] = library["hermes"][n]
        BY <1>0, <2>1, <2>2, <2>3, <3>1, WriteFacts
      <3>2. ASSUME ConfigName \in DOMAIN library["hermes"],
                   WriteFile(ConfigName, [library["hermes"][ConfigName] EXCEPT !.stt = "chosen"])
            PROVE  /\ FilesKept /\ library'["models"] = library["models"]
                   /\ \A n \in DOMAIN library["hermes"] :
                          n # ConfigName => library'["hermes"][n] = library["hermes"][n]
        <4>1. library["hermes"][ConfigName] \in Configs /\ "chosen" \in SttValues \ {"unset"}
          BY <2>2, <3>2, TreeFacts DEF SttValues
        <4>2. /\ [library["hermes"][ConfigName] EXCEPT !.stt = "chosen"] \in Configs
              /\ Covers([library["hermes"][ConfigName] EXCEPT !.stt = "chosen"],
                        library["hermes"][ConfigName])
          BY <4>1, WithLanguage
        <4> QED
          BY <1>0, <2>1, <2>2, <2>3, <3>2, <4>2, WriteFacts
      <3> QED
        BY <1>10, <3>1, <3>2 DEF Use
    <2>5. FilesAgree'
      BY <1>0, <2>2, <2>3, <2>4, WriteAgrees
    <2> QED
      BY <1>2, <2>1, <2>4, <2>5
  <1>11. ASSUME UseLegacy
         PROVE  ConsistentInv'
    <2>1. library' = library /\ ready' = ready /\ at' = at /\ plan' = plan
      BY <1>11 DEF UseLegacy, launchVars
    <2>2. PICK v \in Versions : source' = [source EXCEPT ![Legacy][AuthName] = v]
      BY <1>11 DEF UseLegacy
    <2>3. \A s \in Sources \ {Legacy} : source'[s] = source[s]
      BY <1>0, <2>2 DEF LibraryTypeOK
    <2>4. \A g \in Groups : Existing(g)' = Existing(g) /\ \A s \in Existing(g) : source'[s] = source[s]
      BY <2>3, GroupFacts DEF Existing
    <2>5. FilesAgree'
      BY <1>0, <2>1, <2>4 DEF FilesAgree
    <2>6. \A q \in Launches : PlanApart(q)'
      BY <1>0, <2>1, <2>4, GroupFacts DEF PlanApart
    <2> QED
      BY <2>5, <2>6 DEF ConsistentInv
  <1>12. ASSUME NEW p \in Launches, Launch(p) \/ Boot(p) \/ Copy(p) \/ Report(p) \/ Language(p)
         PROVE  ConsistentInv'
    BY <1>4, <1>12 DEF Launch, Boot, Copy, Report, Language, Fail, Steps, libraryVars
  <1>13. ASSUME NEW p \in Launches, Load(p) \/ Create(p) \/ Write(p)
         PROVE  ConsistentInv'
    BY <1>4, <1>13 DEF Load, Create, Write, Take, Reject, Fail, Steps, libraryVars
  <1>14. ASSUME NEW p \in Launches, Open(p) \/ Stop(p) \/ Kill(p)
         PROVE  ConsistentInv'
    BY <1>4, <1>14 DEF Open, Stop, Kill, Fail, Steps, libraryVars
  <1>15. ASSUME CheckRotation \/ ReplaceCredential \/ UNCHANGED vars
         PROVE  ConsistentInv'
    <2>1. UNCHANGED <<libraryVars, launchVars>>
      BY <1>15 DEF CheckRotation, ReplaceCredential, vars
    <2>2. FilesKept
      BY <1>0, <2>1, SameFiles DEF LibraryTypeOK, libraryVars
    <2> QED
      BY <1>1, <1>2, <2>1, <2>2 DEF libraryVars, launchVars
  <1> QED
    BY <1>5, <1>6, <1>7, <1>8, <1>9, <1>10, <1>11, <1>12, <1>13, <1>14, <1>15 DEF Next, Start

----------------------------------------------------------------------------
\* A start that died never blocks the next one

\* What StartsOver says of one launch that failed.
ForCause(p) ==
    \/ clash[p] \cap ChangedInPlace # {}
    \/ reason[p] = "malformed" /\ \E q \in Launches : at[q] = "killed" /\ secret[q] = Absent

\* Who fails alone fails for a cause: the files it found are those of its
\* sources but for what is changed in place, it is in nobody's way, and an empty
\* credential is left only by one who was killed.
LEMMA FailsForCause ==
    ASSUME MigrationInv, AloneInv, CredentialInv, ConsistentInv, NEW p \in Launches \ met, Start(p),
           at'[p] = "failed"
    PROVE  ForCause(p)'
  <1>0. LibraryTypeOK /\ LaunchTypeOK /\ HistoryTypeOK /\ FilesAgree
    BY TypeFacts DEF ConsistentInv
  <1>1. Alive(p) /\ Undisturbed(p) /\ at[p] # "failed"
    BY DEF Start, Boot, Match, Copy, Publish, Forward, WritePlan, Report, Language, WriteLanguage,
           Load, Create, Write, Open, Alive, AloneInv
  <1>2. ASSUME NEW step \in Steps \ {"failed"}, Go(p, step)
        PROVE  FALSE
    BY <1>0, <1>2 DEF Go, LaunchTypeOK
  <1>3. ASSUME NEW why, NEW files, Fail(p, why, files), files \cap ChangedInPlace # {}
        PROVE  ForCause(p)'
    BY <1>0, <1>3 DEF Fail, HistoryTypeOK, ForCause
  <1>4. CASE Match(p)
    <2> DEFINE g == group[p]
    <2>1. g \in Groups
      BY <1>0 DEF LaunchTypeOK
    <2>2. CASE GroupDone(p) \/ Go(p, "copy")
      BY <1>2, <2>2 DEF GroupDone, Steps
    <2>3. CASE /\ library[g] # Nothing /\ Fail(p, "conflict", Differing(g))
               /\ ~(\A s \in Existing(g) : AgreesWith(source[s], library[g]))
      <3>1. PICK s \in Existing(g) : ~AgreesWith(source[s], library[g])
        BY <2>3
      <3>2. PICK f \in DOMAIN source[s] :
                ~(f \in DOMAIN library[g] /\ library[g][f] = source[s][f])
        BY <3>1 DEF AgreesWith
      <3>3. f \in ChangedInPlace
        BY <1>0, <2>1, <2>3, <3>2 DEF FilesAgree
      <3>4. source[s] \in Trees
        BY <1>0, <2>1, GroupFacts DEF LibraryTypeOK
      <3>5. f \in Differing(g)
        BY <3>2, <3>4, TreeFacts DEF Differing
      <3> QED
        BY <1>3, <2>3, <3>3, <3>5
    <2> QED
      BY <1>4, <2>2, <2>3 DEF Match
  <1>5. CASE Copy(p)
    <2> DEFINE g == group[p]
               s == First(left[p])
    <2>1. g \in Groups /\ Staged(p) /\ left[p] # {}
      BY <1>0, <1>5 DEF MigrationInv, Progress, Staged, Copy, LaunchTypeOK
    <2>2. s \in Existing(g)
      <3>1. s \in left[p]
        BY <2>1 DEF First
      <3> QED
        BY <2>1, <3>1 DEF Staged
    <2>3. CASE Go(p, IF left[p] = {s} THEN "publish" ELSE "copy")
      BY <1>2, <2>3 DEF Steps
    <2>4. CASE /\ ~Compatible(source[s], staging[p])
               /\ Fail(p, "sources", DOMAIN source[s] \cap DOMAIN staging[p])
      <3>1. PICK f \in DOMAIN source[s] \cap DOMAIN staging[p] : staging[p][f] # source[s][f]
        BY <2>4 DEF Compatible
      <3>2. PICK t \in Existing(g) \ left[p] : f \in DOMAIN source[t]
        BY <2>1, <3>1 DEF Staged
      <3>3. source[t][f] = staging[p][f]
        BY <2>1, <3>2 DEF Staged, AgreesWith
      <3>4. f \in ChangedInPlace
        BY <1>0, <2>1, <2>2, <3>1, <3>2, <3>3 DEF FilesAgree
      <3> QED
        BY <1>3, <2>4, <3>1, <3>4
    <2> QED
      BY <1>5, <2>3, <2>4 DEF Copy
  <1>6. CASE Publish(p)
    <2>1. Replaceable(group[p])
      BY <1>1, <1>6 DEF Publish, Undisturbed, Replaceable
    <2> QED
      BY <1>2, <1>6, <2>1 DEF Publish, GroupDone, Steps
  <1>7. CASE Forward(p)
    <2>1. CASE Fail(p, "forward", {ConfigName})
      BY <1>3, <2>1 DEF ChangedInPlace
    <2>2. CASE Go(p, "match") \/ Go(p, "write_plan")
      BY <1>2, <2>2 DEF Steps
    <2> QED
      BY <1>7, <2>1, <2>2 DEF Forward
  <1>8. ASSUME Malformed, Reject(p), at[p] \in {"load", "create"}, secret' = secret
        PROVE  ForCause(p)'
    <2>1. PICK q \in Launches : at[q] = "write" \/ (at[q] = "killed" /\ secret[q] = Absent)
      BY <1>8, Zenon DEF CredentialInv, Malformed
    <2>2. at[q] # "write"
      BY <1>1, <1>8 DEF Undisturbed, Others, Alive
    <2>3. q # p /\ at[q] = "killed" /\ secret[q] = Absent
      BY <1>8, <2>1, <2>2
    <2>4. reason'[p] = "malformed" /\ at'[q] = at[q]
      BY <1>0, <1>8, <2>3 DEF Reject, Fail, Go, LaunchTypeOK, HistoryTypeOK
    <2> QED
      BY <1>8, <2>3, <2>4 DEF ForCause
  <1>9. CASE Load(p)
    BY <1>2, <1>8, <1>9 DEF Load, Take, Reject, Steps
  <1>10. CASE Create(p)
    BY <1>2, <1>8, <1>10 DEF Create, Take, Reject, Steps
  <1>11. CASE Open(p)
    <2>1. \A q \in Launches : at[q] # "serve"
      BY <1>1, <1>11 DEF Open, Undisturbed, Others, Alive
    <2> QED
      BY <1>2, <1>11, <2>1 DEF Open, Steps
  <1>12. CASE Boot(p) \/ Report(p) \/ Language(p) \/ WriteLanguage(p) \/ Write(p)
    BY <1>2, <1>12 DEF Boot, Report, Language, WriteLanguage, Write, Steps
  <1>13. CASE WritePlan(p)
    BY <1>1, <1>2, <1>13 DEF WritePlan, Steps
  <1> QED
    BY <1>4, <1>5, <1>6, <1>7, <1>9, <1>10, <1>11, <1>12, <1>13 DEF Start

\* Of another launch a step leaves where it is, why it failed and what it holds.
LEMMA OthersStay ==
    ASSUME MigrationInv, [Next]_vars
    PROVE  /\ met \subseteq met'
           /\ \/ UNCHANGED <<at, reason, clash, secret>>
              \/ \E p \in Launches :
                    /\ at[p] \notin {"failed", "killed"}
                    /\ Start(p) \/ at'[p] # "failed"
                    /\ \A q \in Launches \ {p} : /\ at'[q] = at[q] /\ reason'[q] = reason[q]
                                                 /\ clash'[q] = clash[q] /\ secret'[q] = secret[q]
  <1> DEFINE Stays(p) ==
          \A q \in Launches \ {p} : /\ at'[q] = at[q] /\ reason'[q] = reason[q]
                                    /\ clash'[q] = clash[q] /\ secret'[q] = secret[q]
  <1>0. LaunchTypeOK /\ HistoryTypeOK
    BY TypeFacts
  <1>1. ASSUME NEW p \in Launches, NEW step, Go(p, step), NoFailure, UNCHANGED secret
        PROVE  Stays(p) /\ at'[p] = step
    BY <1>0, <1>1 DEF Go, NoFailure, LaunchTypeOK
  <1>2. ASSUME NEW p \in Launches, NEW why, NEW files, Fail(p, why, files), UNCHANGED secret
        PROVE  Stays(p)
    BY <1>0, <1>2 DEF Go, Fail, LaunchTypeOK, HistoryTypeOK
  <1>3. ASSUME NEW p \in Launches, NEW s, NEW step, Go(p, step), NoFailure,
               secret' = [secret EXCEPT ![p] = s]
        PROVE  Stays(p)
    BY <1>0, <1>3 DEF Go, NoFailure, LaunchTypeOK
  <1> HIDE DEF Stays
  <1>4. ASSUME NEW p \in Launches, Start(p)
        PROVE  /\ met' = met /\ at[p] \notin {"failed", "killed"}
               /\ UNCHANGED <<at, reason, clash, secret>> \/ Stays(p)
    <2>1. CASE Boot(p) \/ Match(p) \/ Copy(p) \/ Publish(p)
      BY <1>1, <1>2, <2>1 DEF Boot, Match, Copy, Publish, GroupDone, Outside, NoFailure
    <2>2. CASE Forward(p) \/ Report(p) \/ Language(p) \/ WriteLanguage(p)
      BY <1>1, <1>2, <2>2 DEF Forward, Report, Language, WriteLanguage, Outside, NoFailure
    <2>3. CASE WritePlan(p)
      BY <1>1, <2>3 DEF WritePlan, Outside, NoFailure
    <2>4. CASE Load(p) \/ Create(p)
      BY <1>1, <1>2, <1>3, <2>4 DEF Load, Create, Take, Reject, Outside
    <2>5. CASE Write(p)
      BY <1>3, <2>5 DEF Write, Outside, NoFailure
    <2>6. CASE Open(p)
      BY <1>1, <1>2, <2>6 DEF Open
    <2> QED
      BY <1>4, <2>1, <2>2, <2>3, <2>4, <2>5, <2>6 DEF Start
  <1>5. ASSUME NEW p \in Launches, Launch(p) \/ Stop(p) \/ Kill(p)
        PROVE  /\ met \subseteq met' /\ at[p] \notin {"failed", "killed"}
               /\ at'[p] # "failed" /\ Stays(p)
    <2>1. CASE Launch(p)
      BY <1>1, <2>1 DEF Launch, NoFailure
    <2>2. CASE Stop(p) \/ Kill(p)
      BY <1>1, <2>2 DEF Stop, Kill, Alive, Outside, NoFailure
    <2> QED
      BY <1>5, <2>1, <2>2
  <1>6. ASSUME \/ \E p \in Launches : Use(p)
               \/ UseLegacy \/ CheckRotation \/ ReplaceCredential \/ UNCHANGED vars
        PROVE  met' = met /\ UNCHANGED <<at, reason, clash, secret>>
    BY <1>6 DEF Use, UseLegacy, CheckRotation, ReplaceCredential, vars, launchVars, history
  <1>7. (\E p \in Launches : Start(p)) \/ (\E p \in Launches : Launch(p) \/ Stop(p) \/ Kill(p))
        \/ (\E p \in Launches : Use(p))
        \/ UseLegacy \/ CheckRotation \/ ReplaceCredential \/ UNCHANGED vars
    BY DEF Next
  <1> QED
    BY <1>4, <1>5, <1>6, <1>7 DEF Stays

StartsOverInv ==
    KeptApart => ConsistentInv /\ \A p \in Launches \ met : at[p] = "failed" => ForCause(p)

LEMMA StartsOverStep ==
    ASSUME MigrationInv, AloneInv, CredentialInv, StartsOverInv, [Next]_vars
    PROVE  StartsOverInv'
  <1> SUFFICES ASSUME KeptApart
               PROVE  ConsistentInv' /\ \A p \in Launches \ met' : at'[p] = "failed" => ForCause(p)'
    BY DEF StartsOverInv, KeptApart
  <1>1. ConsistentInv /\ \A p \in Launches \ met : at[p] = "failed" => ForCause(p)
    BY DEF StartsOverInv
  <1>2. ConsistentInv'
    BY <1>1, ConsistentStep
  <1>3. met \subseteq met'
    BY OthersStay
  <1>4. CASE UNCHANGED <<at, reason, clash, secret>>
    <2>1. \A p \in Launches : ForCause(p)' <=> ForCause(p)
      BY <1>4 DEF ForCause
    <2> QED
      BY <1>1, <1>2, <1>3, <1>4, <2>1
  <1>5. ASSUME NEW p \in Launches, at[p] \notin {"failed", "killed"}, Start(p) \/ at'[p] # "failed",
               \A q \in Launches \ {p} : /\ at'[q] = at[q] /\ reason'[q] = reason[q]
                                         /\ clash'[q] = clash[q] /\ secret'[q] = secret[q]
        PROVE  \A q \in Launches \ met' : at'[q] = "failed" => ForCause(q)'
    <2> SUFFICES ASSUME NEW q \in Launches \ met, at'[q] = "failed"
                 PROVE  ForCause(q)'
      BY <1>3
    <2>1. CASE q = p
      BY <1>1, <1>5, <2>1, FailsForCause
    <2>2. CASE q # p
      <3>1. ForCause(q) /\ clash'[q] = clash[q] /\ reason'[q] = reason[q]
        BY <1>1, <1>5, <2>2
      <3>2. \A r \in Launches : at[r] = "killed" => at'[r] = at[r] /\ secret'[r] = secret[r]
        BY <1>5
      <3> QED
        BY <3>1, <3>2 DEF ForCause
    <2> QED
      BY <2>1, <2>2
  <1> QED
    BY <1>2, <1>4, <1>5, OthersStay

\* A start that died half-way never blocks the next one, where what earlier
\* versions left was consistent but for the files that are changed in place:
\* what a dead launch has put into the Library agrees with its sources.
THEOREM DeadStartsBlockNobody == Spec => []StartsOver
  <1>1. Init => CredentialInv
    BY DEF Init, CredentialInit, CredentialInv
  <1>2. Init => StartsOverInv
    <2> SUFFICES ASSUME Init, KeptApart
                 PROVE  StartsOverInv
      BY DEF StartsOverInv
    <2>1. source \in InitialSources /\ library \in InitialLibraries
          /\ \A p \in Launches : at[p] = "absent"
      BY DEF Init
    <2>2. FilesAgree
      BY <2>1 DEF KeptApart, FilesAgree, Existing
    <2>3. \A p \in Launches : PlanApart(p)
      BY <2>1 DEF PlanApart
    <2> QED
      BY <2>1, <2>2, <2>3 DEF StartsOverInv, ConsistentInv
  <1>3. StartsOverInv => StartsOver
    BY DEF StartsOverInv, StartsOver, ForCause
  <1>4. MigrationInv /\ AloneInv /\ CredentialInv /\ StartsOverInv /\ [Next]_vars => StartsOverInv'
    BY StartsOverStep
  <1> QED
    BY <1>1, <1>2, <1>3, <1>4, CredentialStep, MigrationAlways, AloneAlways, PTL DEF Spec

=============================================================================
