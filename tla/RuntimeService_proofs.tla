------------------------ MODULE RuntimeService_proofs ------------------------
(***************************************************************************)
(* What any number of launches of the runtime, interrupted by signals and  *)
(* kills between any two steps, leave of the files they share: the         *)
(* inductive invariant of RuntimeService and the safety properties it      *)
(* implies.                                                                *)
(***************************************************************************)
EXTENDS RuntimeService, TLAPS

USE UnixServerAssumption

Places == [at : Steps, kind : Kinds, inode : Runtimes \cup {Nothing}]

Traps == [at : ShutdownSteps \cup {"none"}, kind : Kinds]

----------------------------------------------------------------------------
\* What the control flow does to main

\* main of p is at another step.
Moved(p, step, k, i) ==
    /\ proc' \in [Runtimes -> Places]
    /\ proc'[p].at = step /\ proc'[p].kind = k /\ proc'[p].inode = i
    /\ \A q \in Runtimes \ {p} : proc'[q] = proc[q]

LEMMA GoToMoves ==
    ASSUME TypeOK, NEW p \in Runtimes, NEW step \in Steps, NEW k \in Kinds, GoTo(p, step, k)
    PROVE  Moved(p, step, k, proc[p].inode)
  <1>1. proc \in [Runtimes -> Places]
    BY DEF TypeOK, Places
  <1>2. proc' = [proc EXCEPT ![p] = [@ EXCEPT !.at = step, !.kind = k]]
    BY <1>1 DEF GoTo, Places
  <1>3. [proc[p] EXCEPT !.at = step, !.kind = k] \in Places
    BY <1>1 DEF Places
  <1> QED
    BY <1>1, <1>2, <1>3 DEF Moved, Places

LEMMA GoMoves ==
    ASSUME TypeOK, NEW p \in Runtimes, NEW step \in Steps, Go(p, step)
    PROVE  Moved(p, step, Kind(p), proc[p].inode)
  <1>1. proc \in [Runtimes -> Places]
    BY DEF TypeOK, Places
  <1>2. proc' = [proc EXCEPT ![p] = [@ EXCEPT !.at = step]]
    BY <1>1 DEF Go, Places
  <1>3. [proc[p] EXCEPT !.at = step] \in Places
    BY <1>1 DEF Places
  <1> QED
    BY <1>1, <1>2, <1>3 DEF Moved, Places, Kind

\* start raises.
LEMMA FailMoves ==
    ASSUME TypeOK, NEW p \in Runtimes, Fail(p)
    PROVE  /\ \/ Kind(p) = "normal" /\ Moved(p, "close", "normal", proc[p].inode)
              \/ Kind(p) = "consent" /\ Moved(p, "abort_close", "consent", proc[p].inode)
           /\ failed' = failed \cup {p}
  <1>1. Kind(p) \in Kinds
    BY DEF TypeOK, Kind
  <1> QED
    BY <1>1, GoToMoves DEF Fail, Steps, AbortSteps, ShutdownSteps

----------------------------------------------------------------------------
\* What the servers' operations do to the tables

\* Nothing of another runtime's server changes.
Apart(p) ==
    \A q \in Runtimes \ {p}, k \in Kinds :
        /\ listens'[<<q, k>>] = listens[<<q, k>>] /\ adopted'[<<q, k>>] = adopted[<<q, k>>]
        /\ identity'[<<q, k>>] = identity[<<q, k>>] /\ stopping'[<<q, k>>] = stopping[<<q, k>>]

LEMMA CloseFacts ==
    ASSUME ServerTypeOK, NEW p \in Runtimes, NEW k \in Kinds, CloseServer(p, k)
    PROVE  /\ ServerTypeOK' /\ Apart(p) /\ endpoint' = endpoint /\ identity' = identity
           /\ stopping'[<<p, k>>] /\ ~adopted'[<<p, k>>]
           /\ listens'[<<p, k>>] = IF adopted[<<p, k>>] THEN "closed" ELSE listens[<<p, k>>]
           /\ \A j \in Kinds \ {k} :
                 /\ listens'[<<p, j>>] = listens[<<p, j>>]
                 /\ adopted'[<<p, j>>] = adopted[<<p, j>>]
                 /\ stopping'[<<p, j>>] = stopping[<<p, j>>]
  <1>1. <<p, k>> \in Servers /\ \A q \in Runtimes, j \in Kinds : <<q, j>> \in Servers
    BY DEF Servers
  <1>2. /\ stopping' = [stopping EXCEPT ![<<p, k>>] = TRUE]
        /\ adopted' = [adopted EXCEPT ![<<p, k>>] = FALSE]
        /\ UNCHANGED <<endpoint, identity>>
    BY DEF CloseServer
  <1>3. listens' = IF adopted[<<p, k>>] THEN [listens EXCEPT ![<<p, k>>] = "closed"] ELSE listens
    BY DEF CloseServer, SetListener
  <1>4. ServerTypeOK'
    BY <1>1, <1>2, <1>3 DEF ServerTypeOK
  <1>5. /\ stopping'[<<p, k>>] /\ ~adopted'[<<p, k>>]
        /\ \A s \in Servers \ {<<p, k>>} :
              adopted'[s] = adopted[s] /\ stopping'[s] = stopping[s]
    BY <1>1, <1>2 DEF ServerTypeOK
  <1>6. /\ listens'[<<p, k>>] = IF adopted[<<p, k>>] THEN "closed" ELSE listens[<<p, k>>]
        /\ \A s \in Servers \ {<<p, k>>} : listens'[s] = listens[s]
    BY <1>1, <1>3 DEF ServerTypeOK
  <1> QED
    BY <1>1, <1>2, <1>4, <1>5, <1>6 DEF Apart

\* The identity is forgotten, with the file or without it.
LEMMA ForgetFacts ==
    ASSUME ServerTypeOK, NEW p \in Runtimes, NEW k \in Kinds, Forgotten(p, k),
           endpoint' = endpoint \/ Put(k, Nothing), UNCHANGED <<listens, adopted, stopping>>
    PROVE  /\ ServerTypeOK' /\ Apart(p) /\ identity'[<<p, k>>] = Nothing
           /\ \A j \in Kinds \ {k} :
                 endpoint'[j] = endpoint[j] /\ identity'[<<p, j>>] = identity[<<p, j>>]
           /\ Put(k, Nothing) => endpoint'[k] = Nothing
  BY DEF Forgotten, Put, ServerTypeOK, Servers, Apart

LEMMA CloseAllFacts ==
    ASSUME ServerTypeOK, NEW p \in Runtimes, CloseAll(p)
    PROVE  /\ ServerTypeOK' /\ Apart(p) /\ endpoint' = endpoint /\ identity' = identity
           /\ adopted' = adopted /\ stopping' = stopping
           /\ \A k \in Kinds : listens'[<<p, k>>] = "closed"
  BY DEF CloseAll, ServerTypeOK, Servers, Apart

LEMMA AdoptFacts ==
    ASSUME ServerTypeOK, NEW p \in Runtimes, NEW k \in Kinds, NEW i \in Runtimes \cup {Nothing},
           Adopt(p, k, i)
    PROVE  /\ ServerTypeOK' /\ Apart(p) /\ endpoint' = endpoint /\ listens' = listens
           /\ adopted'[<<p, k>>] /\ ~stopping'[<<p, k>>] /\ identity'[<<p, k>>] = i
           /\ \A j \in Kinds \ {k} :
                 /\ adopted'[<<p, j>>] = adopted[<<p, j>>]
                 /\ identity'[<<p, j>>] = identity[<<p, j>>]
                 /\ stopping'[<<p, j>>] = stopping[<<p, j>>]
  BY DEF Adopt, ServerTypeOK, Servers, Apart

\* bind, listen and a start that fails: the listener gets a new state.
LEMMA ListenerFacts ==
    ASSUME ServerTypeOK, NEW p \in Runtimes, NEW k \in Kinds,
           NEW s \in {"closed", "bound", "listening"}, SetListener(<<p, k>>, s),
           endpoint' = endpoint \/ Put(k, p) \/ Put(k, Nothing),
           UNCHANGED <<adopted, identity, stopping>>
    PROVE  /\ ServerTypeOK' /\ Apart(p)
           /\ listens'[<<p, k>>] = s
           /\ \A j \in Kinds \ {k} :
                 endpoint'[j] = endpoint[j] /\ listens'[<<p, j>>] = listens[<<p, j>>]
  BY DEF SetListener, Put, ServerTypeOK, Servers, Apart

----------------------------------------------------------------------------
\* A step of one runtime

\* What a runtime that lives may do to the others and to the files.
Beside(p) ==
    /\ \A q \in Runtimes \ {p} :
          /\ proc'[q] = proc[q] /\ trap'[q] = trap[q]
          /\ signalled'[q] = signalled[q] /\ stamp'[q] = stamp[q]
          /\ (q \in torn' <=> q \in torn) /\ (q \in missed' <=> q \in missed)
    /\ torn \subseteq torn'
    /\ Apart(p)
    /\ \A k \in Kinds :
          /\ endpoint'[k] \in {endpoint[k], p, Nothing}
          /\ endpoint[k] = "foreign" => endpoint'[k] = "foreign"
    /\ marker' \in {marker, p, Nothing}
    /\ marker = "foreign" => marker' = "foreign"
    /\ signalled[p] => signalled'[p]
    /\ met' = met

Keeps(p) == IInv' /\ Beside(p)

\* Such a step keeps the invariant if it keeps the part about its own runtime
\* and a start that fails has a reason.
LEMMA StepOf ==
    ASSUME IInv, NEW p \in Runtimes, Alive(p), Beside(p),
           TypeOK', HandlerOf(p)', FilesOf(p)', ListenersOf(p)',
           Alive(p)' /\ p \notin met => SeenBy(p)',
           \/ failed' = failed
           \/ /\ failed' = failed \cup {p}
              /\ \/ signalled[p] \/ p \in met \/ p \in torn'
                 \/ marker = "foreign" \/ \E k \in Kinds : endpoint[k] = "foreign"
    PROVE  Keeps(p)
  <1>1. ASSUME NEW q \in Runtimes \ {p}
        PROVE  HandlerOf(q)' /\ FilesOf(q)' /\ ListenersOf(q)'
    <2>1. /\ proc'[q] = proc[q] /\ trap'[q] = trap[q]
          /\ signalled'[q] = signalled[q] /\ stamp'[q] = stamp[q]
          /\ (q \in torn' <=> q \in torn) /\ (Hurt(q)' <=> Hurt(q))
      BY DEF Beside, Hurt
    <2>2. HandlerOf(q)'
      <3>1. HandlerOf(q) /\ trap[q].kind \in Kinds
        BY DEF IInv, TypeOK
      <3> QED
        BY <2>1, <3>1 DEF Beside, HandlerOf, Trapped, Alive, Passed
    <2>3. FilesOf(q)'
      <3>1. \A k \in Kinds : identity'[<<q, k>>] = identity[<<q, k>>]
        BY DEF Beside, Apart
      <3>2. FilesOf(q)
        BY DEF IInv
      <3> QED
        BY <2>1, <3>1, <3>2 DEF Beside, FilesOf, Swept, Ahead, Cleaned, Kind
    <2>4. ListenersOf(q)'
      <3>1. \A k \in Kinds :
               /\ listens'[<<q, k>>] = listens[<<q, k>>] /\ adopted'[<<q, k>>] = adopted[<<q, k>>]
               /\ stopping'[<<q, k>>] = stopping[<<q, k>>]
        <4>1. Apart(p)
          BY DEF Beside
        <4> QED
          BY <4>1, Zenon DEF Apart
      <3>2. ListenersOf(q)
        BY DEF IInv
      <3> QED
        BY <2>1, <3>1, <3>2 DEF ListenersOf, Ahead, Alive, Opening, Kind, Normal
    <2> QED
      BY <2>2, <2>3, <2>4
  <1>2. \A q \in Runtimes \ {p} : Alive(q)' <=> Alive(q)
    BY DEF Beside, Alive
  <1>3. ASSUME NEW q \in Runtimes PROVE SolitudeOf(q)'
    <2>1. SolitudeOf(q) /\ met' = met
      BY DEF IInv, Beside
    <2> QED
      BY <1>2, <2>1 DEF SolitudeOf
  <1>4. StartsAfterCrash'
    <2>1. StartsAfterCrash
      BY DEF IInv
    <2>2. /\ \A q \in Runtimes : signalled[q] => signalled'[q]
          /\ met' = met /\ torn \subseteq torn'
          /\ marker = "foreign" \/ (\E k \in Kinds : endpoint[k] = "foreign")
                => marker' = "foreign" \/ (\E k \in Kinds : endpoint'[k] = "foreign")
      BY DEF Beside
    <2>3. failed \subseteq Runtimes
      BY DEF IInv, TypeOK
    <2> QED
      BY <2>1, <2>2, <2>3 DEF StartsAfterCrash
  <1> QED
    BY <1>1, <1>3, <1>4 DEF IInv, Keeps

\* main is about to take this step.
Ready(p, step) ==
    /\ TypeOK /\ ServerTypeOK /\ proc[p].at = step /\ Alive(p) /\ ~Trapped(p)
    /\ trap[p].at = "none" /\ torn \subseteq Runtimes /\ missed \subseteq Runtimes
    /\ Kind(p) \in Kinds /\ proc[p].inode \in Runtimes \cup {Nothing}
    /\ HandlerOf(p) /\ FilesOf(p) /\ ListenersOf(p)
    /\ p \notin met => SeenBy(p) /\ \A q \in Runtimes \ {p} : ~Alive(q)

LEMMA AtReady ==
    ASSUME IInv, NEW p \in Runtimes, NEW step \in Steps \ {"absent", "gone", "killed"}, At(p, step)
    PROVE  Ready(p, step)
  BY DEF IInv, TypeOK, At, Alive, Trapped, Kind, SolitudeOf, Ready

LEMMA BootInv ==
    ASSUME IInv, NEW p \in Runtimes, Boot(p)
    PROVE  Keeps(p)
  <1>1. At(p, "boot") /\ "boot" \in Steps \ {"absent", "gone", "killed"}
    BY DEF Boot, Steps
  <1>2. /\ UNCHANGED <<serverVars, serviceVars, trap, signalled, history>>
        /\ Moved(p, "probe", "normal", proc[p].inode)
    BY <1>1, AtReady, GoToMoves DEF Ready, Boot, Steps, StartSteps
  <1>r. Ready(p, "boot")
    BY <1>1, AtReady
  <1> USE <1>1, <1>2, <1>r DEF Ready, serverVars, serviceVars, history
  <1>3. TypeOK'
    BY DEF TypeOK, Moved, ServerTypeOK, Places
  <1>4. Beside(p)
    BY DEF Beside, Apart, Moved
  <1>5. HandlerOf(p)'
    BY DEF HandlerOf, Trapped
  <1>6. FilesOf(p)'
    BY DEF FilesOf, Hurt, Swept, StartSteps, AbortSteps, ShutdownSteps, Moved, Ahead, Cleaned, Kind
  <1>7. ListenersOf(p)'
    BY DEF ListenersOf, Moved, Ahead, Opening, Alive, Kind, Normal
  <1>8. SeenBy(p)'
    BY DEF SeenBy, Swept, Trapped, Moved, Ahead, Kind
  <1> QED
    BY <1>3, <1>4, <1>5, <1>6, <1>7, <1>8, StepOf

\* A start that raises, with its reason, in main or in the handler that
\* interrupted it: the files stay as they are but for the endpoint just bound.
LEMMA FailInv ==
    ASSUME IInv, NEW p \in Runtimes, NEW step \in StartSteps, proc[p].at = step,
           Fail(p), UNCHANGED <<adopted, identity, stopping, serviceVars, signalled, met>>,
           ServerTypeOK', Apart(p),
           \A j \in Kinds :
              /\ endpoint'[j] = endpoint[j]
                    \/ (step = "adopt" /\ endpoint'[j] = Nothing /\ endpoint[j] # "foreign")
              /\ listens'[<<p, j>>] = IF step \in {"listen", "adopt"} /\ j = Kind(p) THEN "closed"
                                     ELSE listens[<<p, j>>],
           trap' \in [Runtimes -> Traps], trap'[p].at = "none",
           \A q \in Runtimes \ {p} : trap'[q] = trap[q],
           missed' = missed \/ missed' = missed \cup {p},
           torn' = torn \/ torn' = torn \cup {p},
           p \in torn' \/ marker # p, p \in torn' => step = "stamp",
           \/ signalled[p] \/ p \in met \/ p \in torn'
           \/ marker = "foreign" \/ \E k \in Kinds : endpoint[k] = "foreign",
           Ahead(p, "normal") => p \in met \/ endpoint["normal"] \in {"foreign", Nothing}
    PROVE  Keeps(p)
  <1>r. /\ TypeOK /\ ServerTypeOK /\ Kind(p) \in Kinds
        /\ FilesOf(p) /\ ListenersOf(p)
        /\ Alive(p) /\ (p \notin met => SeenBy(p))
    BY DEF IInv, TypeOK, Kind, SolitudeOf, Alive, StartSteps
  <1> USE <1>r DEF serviceVars
  <1>2. /\ \/ Kind(p) = "normal" /\ Moved(p, "close", "normal", proc[p].inode)
           \/ Kind(p) = "consent" /\ Moved(p, "abort_close", "consent", proc[p].inode)
        /\ failed' = failed \cup {p}
    BY FailMoves
  <1>4. TypeOK'
    BY <1>2 DEF TypeOK, Moved, Places, Traps
  <1>5. Beside(p)
    BY <1>2 DEF Beside, Moved, TypeOK
  <1>6. HandlerOf(p)'
    BY DEF HandlerOf, Trapped
  <1>7. FilesOf(p)'
    BY <1>2 DEF FilesOf, Hurt, Swept, StartSteps, AbortSteps, ShutdownSteps, Moved, Ahead, Cleaned, Kind
  <1>8. ListenersOf(p)'
    BY <1>2 DEF ListenersOf, Moved, Ahead, Opening, Alive, Kind, Normal, StartSteps
  <1>9. Alive(p)' /\ p \notin met => SeenBy(p)'
    BY <1>2 DEF SeenBy, Moved, Kind, Trapped, Ahead, StartSteps
  <1> QED
    BY <1>2, <1>4, <1>5, <1>6, <1>7, <1>8, <1>9, StepOf

LEMMA RaiseInv ==
    ASSUME IInv, NEW p \in Runtimes, NEW step \in StartSteps \ {"adopt"}, At(p, step),
           Raise(p), UNCHANGED <<endpoint, adopted, identity, stopping, serviceVars, trap, signalled>>,
           IF step = "listen" THEN ListenFails(p, Kind(p)) ELSE listens' = listens,
           step = "stamp" => marker # p,
           \/ signalled[p] \/ p \in met
           \/ marker = "foreign" \/ \E k \in Kinds : endpoint[k] = "foreign",
           Ahead(p, "normal") => p \in met \/ endpoint["normal"] \in {"foreign", Nothing}
    PROVE  Keeps(p)
  <1>1. step \in Steps \ {"absent", "gone", "killed"}
    BY DEF Steps, StartSteps
  <1>r. Ready(p, step)
    BY <1>1, AtReady
  <1> USE <1>r DEF Ready
  <1>3. /\ ServerTypeOK' /\ Apart(p)
        /\ \A j \in Kinds : listens'[<<p, j>>] =
              IF step = "listen" /\ j = Kind(p) THEN "closed" ELSE listens[<<p, j>>]
    <2>1. CASE listens' = listens /\ step # "listen"
      BY <2>1 DEF ServerTypeOK, Apart
    <2>2. CASE step = "listen"
      <3>1. SetListener(<<p, Kind(p)>>, "closed")
        BY <2>2 DEF ListenFails
      <3>2. \A j \in Kinds \ {Kind(p)} : listens'[<<p, j>>] = listens[<<p, j>>]
        BY <3>1, ListenerFacts
      <3> QED
        BY <2>2, <3>1, <3>2, ListenerFacts
    <2> QED
      BY <2>1, <2>2
  <1>4. p \notin torn /\ marker # p
    BY DEF FilesOf, StartSteps, AbortSteps, ShutdownSteps
  <1>5. trap' \in [Runtimes -> Traps]
    BY DEF TypeOK, Traps
  <1> QED
    BY <1>3, <1>4, <1>5, FailInv DEF Raise

LEMMA ProbeInv ==
    ASSUME IInv, NEW p \in Runtimes, Probe(p)
    PROVE  Keeps(p)
  <1>1. At(p, "probe") /\ "probe" \in Steps \ {"absent", "gone", "killed"}
    BY DEF Probe, Steps, StartSteps
  <1>2. UNCHANGED <<serverVars, serviceVars, trap, signalled>>
    BY DEF Probe
  <1>r. Ready(p, "probe")
    BY <1>1, AtReady
  <1> USE <1>1, <1>2, <1>r DEF Ready, serverVars, serviceVars
  <1>3. ASSUME NEW step \in {"bind", "unlink"}, Go(p, step), UNCHANGED history,
               IF step = "bind" THEN Absent(Kind(p)) ELSE Refuses(Kind(p))
        PROVE  Keeps(p)
    <2>1. Moved(p, step, Kind(p), proc[p].inode)
      BY <1>3, GoMoves DEF Steps, StartSteps
    <2>2. TypeOK'
      BY <1>3, <2>1 DEF TypeOK, Moved, ServerTypeOK, Places, history
    <2>3. Beside(p) /\ HandlerOf(p)'
      BY <1>3, <2>1 DEF Beside, Apart, Moved, history, HandlerOf, Trapped
    <2>4. FilesOf(p)'
      BY <1>3, <2>1 DEF history, FilesOf, Hurt, Swept, StartSteps, AbortSteps, ShutdownSteps, Moved, Ahead, Cleaned, Kind, Absent, Refuses
    <2>5. ListenersOf(p)'
      BY <1>3, <2>1 DEF history, ListenersOf, Moved, Ahead, Opening, Alive, Kind, Normal, StartSteps
    <2>6. Alive(p)' /\ p \notin met => SeenBy(p)'
      BY <1>3, <2>1 DEF history, SeenBy, Swept, Trapped, Moved, Ahead, Kind, Absent, Refuses
    <2> QED
      BY <1>3, <2>2, <2>3, <2>4, <2>5, <2>6, StepOf DEF history
  <1>4. CASE ~Absent(Kind(p)) /\ ~Refuses(Kind(p)) /\ Raise(p)
    <2>1. endpoint[Kind(p)] = "foreign" \/ p \in met
      <3> SUFFICES ASSUME NEW q, q = endpoint[Kind(p)], q # "foreign", p \notin met PROVE FALSE
        OBVIOUS
      <3>1. q \in Runtimes /\ listens[<<q, Kind(p)>>] = "listening"
        BY <1>4 DEF Absent, Refuses, ServerTypeOK
      <3>2. q # p
        BY <3>1 DEF FilesOf, Ahead
      <3>3. ~Alive(q) /\ ListenersOf(q)
        BY <3>1, <3>2 DEF IInv
      <3> QED
        BY <3>1, <3>3 DEF ListenersOf
    <2>2. Ahead(p, "normal") => Kind(p) = "normal"
      BY DEF Ahead
    <2> QED
      BY <1>4, <2>1, <2>2, RaiseInv DEF StartSteps, serverVars
  <1> QED
    BY <1>3, <1>4 DEF Probe

LEMMA UnlinkInv ==
    ASSUME IInv, NEW p \in Runtimes, Unlink(p)
    PROVE  Keeps(p)
  <1>1. At(p, "unlink") /\ "unlink" \in Steps \ {"absent", "gone", "killed"}
    BY DEF Unlink, Steps, StartSteps
  <1>2. UNCHANGED <<serviceVars, trap, signalled>>
    BY DEF Unlink
  <1>r. Ready(p, "unlink")
    BY <1>1, AtReady
  <1> USE <1>1, <1>2, <1>r DEF Ready, serviceVars
  <1>3. CASE UnlinkStale(Kind(p)) /\ Go(p, "bind") /\ UNCHANGED history
    <2>1. Moved(p, "bind", Kind(p), proc[p].inode)
      BY <1>3, GoMoves DEF Steps, StartSteps
    <2>2. /\ endpoint'[Kind(p)] = Nothing
          /\ \A j \in Kinds \ {Kind(p)} : endpoint'[j] = endpoint[j]
          /\ UNCHANGED <<listens, adopted, identity, stopping>> /\ ServerTypeOK'
      BY <1>3 DEF UnlinkStale, Put, ServerTypeOK
    <2>3. endpoint[Kind(p)] # "foreign"
      BY DEF FilesOf
    <2>4. TypeOK'
      BY <1>3, <2>1, <2>2 DEF TypeOK, Moved, Places, history
    <2>5. Beside(p) /\ HandlerOf(p)'
      BY <1>3, <2>1, <2>2, <2>3 DEF Beside, Apart, Moved, history, HandlerOf, Trapped
    <2>6. FilesOf(p)'
      BY <1>3, <2>1, <2>2 DEF history, FilesOf, Hurt, Swept, StartSteps, AbortSteps, ShutdownSteps, Moved, Ahead, Cleaned, Kind
    <2>7. ListenersOf(p)'
      BY <1>3, <2>1, <2>2 DEF history, ListenersOf, Moved, Ahead, Opening, Alive, Kind, Normal, StartSteps
    <2>8. Alive(p)' /\ p \notin met => SeenBy(p)'
      BY <1>3, <2>1, <2>2 DEF history, SeenBy, Swept, Trapped, Moved, Ahead, Kind
    <2> QED
      BY <1>3, <2>4, <2>5, <2>6, <2>7, <2>8, StepOf DEF history
  <1>4. CASE Absent(Kind(p)) /\ Raise(p) /\ UNCHANGED serverVars
    <2>1. signalled[p] \/ p \in met
      BY <1>4 DEF Absent, SeenBy
    <2>2. Ahead(p, "normal") => endpoint["normal"] = Nothing
      BY <1>4 DEF Ahead, Absent
    <2> QED
      BY <1>4, <2>1, <2>2, RaiseInv DEF StartSteps, serverVars
  <1> QED
    BY <1>3, <1>4 DEF Unlink

LEMMA BindInv ==
    ASSUME IInv, NEW p \in Runtimes, Bind(p)
    PROVE  Keeps(p)
  <1>1. At(p, "bind") /\ "bind" \in Steps \ {"absent", "gone", "killed"}
    BY DEF Bind, Steps, StartSteps
  <1>2. UNCHANGED <<serviceVars, trap, signalled>>
    BY DEF Bind
  <1>r. Ready(p, "bind")
    BY <1>1, AtReady
  <1> USE <1>1, <1>2, <1>r DEF Ready, serviceVars
  <1>3. CASE BindEndpoint(p, Kind(p)) /\ Go(p, "listen") /\ UNCHANGED history
    <2>1. Moved(p, "listen", Kind(p), proc[p].inode)
      BY <1>3, GoMoves DEF Steps, StartSteps
    <2>2. /\ endpoint[Kind(p)] = Nothing /\ endpoint'[Kind(p)] = p
          /\ \A j \in Kinds \ {Kind(p)} :
                endpoint'[j] = endpoint[j] /\ listens'[<<p, j>>] = listens[<<p, j>>]
          /\ UNCHANGED <<adopted, identity, stopping>> /\ ServerTypeOK' /\ Apart(p)
          /\ listens'[<<p, Kind(p)>>] = "bound"
      BY <1>3, ListenerFacts DEF BindEndpoint, Absent, Put, ServerTypeOK
    <2>3. TypeOK'
      BY <1>3, <2>1, <2>2 DEF TypeOK, Moved, Places, history
    <2>4. Beside(p) /\ HandlerOf(p)'
      BY <1>3, <2>1, <2>2 DEF Beside, Moved, history, HandlerOf, Trapped
    <2>5. FilesOf(p)'
      BY <1>3, <2>1, <2>2 DEF history, FilesOf, Hurt, Swept, StartSteps, AbortSteps, ShutdownSteps, Moved, Ahead, Cleaned, Kind
    <2>6. ListenersOf(p)'
      BY <1>3, <2>1, <2>2 DEF history, ListenersOf, Moved, Ahead, Opening, Alive, Kind, Normal, StartSteps
    <2>7. Alive(p)' /\ p \notin met => SeenBy(p)'
      <3>1. /\ proc'[p].at = "listen" /\ proc'[p].kind = Kind(p) /\ trap'[p].at = "none"
            /\ endpoint'[Kind(p)] = p
        BY <2>1, <2>2 DEF Moved
      <3>2. p \notin met => Ahead(p, "normal")' \/ endpoint'["normal"] \in {p, "foreign", Nothing}
        BY <2>1, <2>2 DEF SeenBy, Moved, Ahead, Kind
      <3> QED
        BY <3>1, <3>2 DEF SeenBy, Kind
    <2> QED
      BY <1>3, <2>3, <2>4, <2>5, <2>6, <2>7, StepOf DEF history
  <1>4. CASE ~Absent(Kind(p)) /\ Raise(p) /\ UNCHANGED serverVars
    <2>1. p \in met
      BY <1>4 DEF Absent, SeenBy
    <2> QED
      BY <1>4, <2>1, RaiseInv DEF StartSteps, serverVars
  <1> QED
    BY <1>3, <1>4 DEF Bind

LEMMA ListenInv ==
    ASSUME IInv, NEW p \in Runtimes, Listen(p)
    PROVE  Keeps(p)
  <1>1. At(p, "listen") /\ "listen" \in Steps \ {"absent", "gone", "killed"}
    BY DEF Listen, Steps, StartSteps
  <1>2. UNCHANGED <<serviceVars, trap, signalled>>
    BY DEF Listen
  <1>r. Ready(p, "listen")
    BY <1>1, AtReady
  <1> USE <1>1, <1>2, <1>r DEF Ready, serviceVars
  <1>3. CASE /\ ListenOn(p, Kind(p)) /\ UNCHANGED history
             /\ proc' = [proc EXCEPT ![p].at = "adopt", ![p].inode = endpoint[Kind(p)]]
    <2>1. endpoint[Kind(p)] \in Runtimes
      BY <1>3 DEF ListenOn, Absent, FilesOf, ServerTypeOK
    <2>2. Moved(p, "adopt", Kind(p), endpoint[Kind(p)])
      <3>1. proc \in [Runtimes -> Places]
        BY DEF TypeOK, Places
      <3>2. proc' = [proc EXCEPT ![p] = [@ EXCEPT !.at = "adopt", !.inode = endpoint[Kind(p)]]]
        BY <1>3, <3>1 DEF Places
      <3>3. [proc[p] EXCEPT !.at = "adopt", !.inode = endpoint[Kind(p)]] \in Places
        <4>1. "adopt" \in Steps /\ proc[p] \in Places /\ endpoint[Kind(p)] \in Runtimes
          BY <2>1, <3>1 DEF Steps, StartSteps
        <4> QED
          BY <4>1 DEF Places
      <3> QED
        BY <3>1, <3>2, <3>3 DEF Moved, Places, Kind
    <2>3. /\ UNCHANGED <<endpoint, adopted, identity, stopping>> /\ ServerTypeOK' /\ Apart(p)
          /\ \A j \in Kinds \ {Kind(p)} : listens'[<<p, j>>] = listens[<<p, j>>]
          /\ listens'[<<p, Kind(p)>>] = "listening"
      BY <1>3, ListenerFacts DEF ListenOn
    <2>4. TypeOK'
      BY <1>3, <2>2, <2>3 DEF TypeOK, Moved, Places, history
    <2>5. Beside(p) /\ HandlerOf(p)'
      BY <1>3, <2>2, <2>3 DEF Beside, Moved, history, HandlerOf, Trapped
    <2>6. FilesOf(p)'
      BY <1>3, <2>2, <2>3 DEF history, FilesOf, Hurt, Swept, StartSteps, AbortSteps, ShutdownSteps, Moved, Ahead, Cleaned, Kind
    <2>7. ListenersOf(p)'
      BY <1>3, <2>2, <2>3 DEF history, ListenersOf, Moved, Ahead, Opening, Alive, Kind, Normal, StartSteps
    <2>8. Alive(p)' /\ p \notin met => SeenBy(p)'
      BY <1>3, <2>2, <2>3 DEF history, SeenBy, Swept, Trapped, Moved, Ahead, Kind
    <2> QED
      BY <1>3, <2>4, <2>5, <2>6, <2>7, <2>8, StepOf DEF history
  <1>4. CASE ListenFails(p, Kind(p)) /\ Raise(p)
    <2>1. signalled[p] \/ p \in met
      BY <1>4 DEF ListenFails, Absent, SeenBy
    <2>2. ~Ahead(p, "normal")
      BY DEF Ahead
    <2>3. UNCHANGED <<endpoint, adopted, identity, stopping>>
      BY <1>4 DEF ListenFails
    <2> QED
      BY <1>4, <2>1, <2>2, <2>3, RaiseInv DEF StartSteps, serverVars
  <1> QED
    BY <1>3, <1>4 DEF Listen

LEMMA AdoptInv ==
    ASSUME IInv, NEW p \in Runtimes, AdoptListener(p)
    PROVE  Keeps(p)
  <1>1. At(p, "adopt") /\ "adopt" \in Steps \ {"absent", "gone", "killed"}
    BY DEF AdoptListener, Steps, StartSteps
  <1>2. UNCHANGED <<serviceVars, trap, signalled, history>>
    BY DEF AdoptListener
  <1>r. Ready(p, "adopt")
    BY <1>1, AtReady
  <1>3. \/ Kind(p) = "normal" /\ Moved(p, "probe", "consent", proc[p].inode)
        \/ Kind(p) = "consent" /\ Moved(p, "recover", "consent", proc[p].inode)
    BY <1>r, GoToMoves, GoMoves DEF AdoptListener, Ready, Steps, StartSteps
  <1>4. /\ endpoint' = endpoint /\ listens' = listens /\ ServerTypeOK' /\ Apart(p)
        /\ adopted'[<<p, Kind(p)>>] /\ identity'[<<p, Kind(p)>>] = proc[p].inode
        /\ \A j \in Kinds \ {Kind(p)} :
              /\ adopted'[<<p, j>>] = adopted[<<p, j>>]
              /\ identity'[<<p, j>>] = identity[<<p, j>>]
              /\ stopping'[<<p, j>>] = stopping[<<p, j>>]
    <2>1. /\ Kind(p) \in Kinds /\ proc[p].inode \in Runtimes \cup {Nothing} /\ ServerTypeOK
          /\ Adopt(p, Kind(p), proc[p].inode)
      BY <1>r DEF AdoptListener, Ready
    <2> QED
      <3> HIDE DEF Kind, Adopt, Apart, ServerTypeOK
      <3>1. ASSUME NEW k \in Kinds, NEW i \in Runtimes \cup {Nothing}, ServerTypeOK, Adopt(p, k, i)
            PROVE  /\ endpoint' = endpoint /\ listens' = listens /\ ServerTypeOK' /\ Apart(p)
                   /\ adopted'[<<p, k>>] /\ identity'[<<p, k>>] = i
                   /\ \A j \in Kinds \ {k} :
                         /\ adopted'[<<p, j>>] = adopted[<<p, j>>]
                         /\ identity'[<<p, j>>] = identity[<<p, j>>]
                         /\ stopping'[<<p, j>>] = stopping[<<p, j>>]
        BY <3>1, AdoptFacts, Zenon
      <3> QED
        BY <2>1, <3>1, Zenon
  <1> USE <1>1, <1>2, <1>r DEF Ready, serviceVars, history
  <1>5. TypeOK'
    BY <1>3, <1>4 DEF TypeOK, Moved, Places
  <1>6. Beside(p) /\ HandlerOf(p)'
    BY <1>3, <1>4 DEF Beside, Moved, HandlerOf, Trapped
  <1>7. FilesOf(p)'
    BY <1>3, <1>4 DEF history, FilesOf, Hurt, Swept, StartSteps, AbortSteps, ShutdownSteps, Moved, Ahead, Cleaned, Kind
  <1>8. ListenersOf(p)'
    BY <1>3, <1>4 DEF history, ListenersOf, Moved, Ahead, Opening, Alive, Kind, Normal, StartSteps
  <1>9. Alive(p)' /\ p \notin met => SeenBy(p)'
    BY <1>3, <1>4 DEF history, SeenBy, Swept, Trapped, Moved, Ahead, Kind
  <1> QED
    BY <1>5, <1>6, <1>7, <1>8, <1>9, StepOf

LEMMA RecoverInv ==
    ASSUME IInv, NEW p \in Runtimes, RecoverMarker(p)
    PROVE  Keeps(p)
  <1>1. At(p, "recover") /\ "recover" \in Steps \ {"absent", "gone", "killed"}
    BY DEF RecoverMarker, Steps, StartSteps
  <1>2. UNCHANGED <<serverVars, serviceVars, trap, signalled>>
    BY DEF RecoverMarker
  <1>r. Ready(p, "recover")
    BY <1>1, AtReady
  <1> USE <1>1, <1>2, <1>r DEF Ready, serverVars, serviceVars
  <1>3. CASE marker = Nothing /\ Go(p, "mark") /\ UNCHANGED history
    <2>1. Moved(p, "mark", Kind(p), proc[p].inode)
      BY <1>3, GoMoves DEF Steps, StartSteps
    <2>3. TypeOK'
      BY <1>3, <2>1 DEF history, TypeOK, Moved, ServerTypeOK, Places
    <2>4. Beside(p) /\ HandlerOf(p)'
      BY <1>3, <2>1 DEF history, Beside, Apart, Moved, HandlerOf, Trapped
    <2>5. FilesOf(p)'
      BY <1>3, <2>1 DEF history, FilesOf, Hurt, Swept, StartSteps, AbortSteps, ShutdownSteps, Moved, Ahead, Cleaned, Kind
    <2>6. ListenersOf(p)'
      BY <1>3, <2>1 DEF history, ListenersOf, Moved, Ahead, Opening, Alive, Kind, Normal, StartSteps
    <2>7. Alive(p)' /\ p \notin met => SeenBy(p)'
      BY <1>3, <2>1 DEF history, SeenBy, Swept, Trapped, Moved, Ahead, Kind
    <2> QED
      BY <1>3, <2>3, <2>4, <2>5, <2>6, <2>7, StepOf DEF history
  <1>4. CASE marker \in Runtimes /\ Go(p, "discard") /\ UNCHANGED history
    <2>1. Moved(p, "discard", Kind(p), proc[p].inode)
      BY <1>4, GoMoves DEF Steps, StartSteps
    <2>3. TypeOK'
      BY <1>4, <2>1 DEF history, TypeOK, Moved, ServerTypeOK, Places
    <2>4. Beside(p) /\ HandlerOf(p)'
      BY <1>4, <2>1 DEF history, Beside, Apart, Moved, HandlerOf, Trapped
    <2>5. FilesOf(p)'
      BY <1>4, <2>1 DEF history, FilesOf, Hurt, Swept, StartSteps, AbortSteps, ShutdownSteps, Moved, Ahead, Cleaned, Kind
    <2>6. ListenersOf(p)'
      BY <1>4, <2>1 DEF history, ListenersOf, Moved, Ahead, Opening, Alive, Kind, Normal, StartSteps
    <2>7. Alive(p)' /\ p \notin met => SeenBy(p)'
      BY <1>4, <2>1 DEF history, SeenBy, Swept, Trapped, Moved, Ahead, Kind
    <2> QED
      BY <1>4, <2>3, <2>4, <2>5, <2>6, <2>7, StepOf DEF history
  <1>5. CASE marker = "foreign" /\ Raise(p)
    BY <1>5, RaiseInv DEF Ahead, StartSteps
  <1> QED
    BY <1>3, <1>4, <1>5 DEF RecoverMarker

LEMMA DiscardInv ==
    ASSUME IInv, NEW p \in Runtimes, DiscardMarker(p)
    PROVE  Keeps(p)
  <1>1. At(p, "discard") /\ "discard" \in Steps \ {"absent", "gone", "killed"}
    BY DEF DiscardMarker, Steps, StartSteps
  <1>2. UNCHANGED <<serverVars, stamp, trap, signalled>>
    BY DEF DiscardMarker
  <1>r. Ready(p, "discard")
    BY <1>1, AtReady
  <1> USE <1>1, <1>2, <1>r DEF Ready, serverVars, serviceVars
  <1>3. CASE marker # Nothing /\ Go(p, "mark") /\ marker' = Nothing /\ UNCHANGED history
    <2>1. Moved(p, "mark", Kind(p), proc[p].inode)
      BY <1>3, GoMoves DEF Steps, StartSteps
    <2>2. marker # "foreign"
      BY DEF FilesOf
    <2>3. TypeOK'
      BY <1>3, <2>1 DEF history, TypeOK, Moved, ServerTypeOK, Places
    <2>4. Beside(p) /\ HandlerOf(p)'
      BY <1>3, <2>1, <2>2 DEF history, Beside, Apart, Moved, HandlerOf, Trapped
    <2>5. FilesOf(p)'
      BY <1>3, <2>1 DEF history, FilesOf, Hurt, Swept, StartSteps, AbortSteps, ShutdownSteps, Moved, Ahead, Cleaned, Kind
    <2>6. ListenersOf(p)'
      BY <1>3, <2>1 DEF history, ListenersOf, Moved, Ahead, Opening, Alive, Kind, Normal, StartSteps
    <2>7. Alive(p)' /\ p \notin met => SeenBy(p)'
      BY <1>3, <2>1 DEF history, SeenBy, Swept, Trapped, Moved, Ahead, Kind
    <2> QED
      BY <1>3, <2>3, <2>4, <2>5, <2>6, <2>7, StepOf DEF history
  <1>4. CASE marker = Nothing /\ Raise(p) /\ UNCHANGED marker
    <2>1. signalled[p] \/ p \in met
      BY <1>4 DEF SeenBy
    <2> QED
      BY <1>4, <2>1, RaiseInv DEF Ahead, StartSteps
  <1> QED
    BY <1>3, <1>4 DEF DiscardMarker

LEMMA CreateInv ==
    ASSUME IInv, NEW p \in Runtimes, CreateMarker(p)
    PROVE  Keeps(p)
  <1>1. At(p, "mark") /\ "mark" \in Steps \ {"absent", "gone", "killed"}
    BY DEF CreateMarker, Steps, StartSteps
  <1>2. UNCHANGED <<serverVars, stamp, trap, signalled>>
    BY DEF CreateMarker
  <1>r. Ready(p, "mark")
    BY <1>1, AtReady
  <1> USE <1>1, <1>2, <1>r DEF Ready, serverVars, serviceVars
  <1>3. CASE marker = Nothing /\ Go(p, "stamp") /\ marker' = p /\ UNCHANGED history
    <2>1. Moved(p, "stamp", Kind(p), proc[p].inode)
      BY <1>3, GoMoves DEF Steps, StartSteps
    <2>3. TypeOK'
      BY <1>3, <2>1 DEF history, TypeOK, Moved, ServerTypeOK, Places
    <2>4. Beside(p) /\ HandlerOf(p)'
      BY <1>3, <2>1 DEF history, Beside, Apart, Moved, HandlerOf, Trapped
    <2>5. FilesOf(p)'
      BY <1>3, <2>1 DEF history, FilesOf, Hurt, Swept, StartSteps, AbortSteps, ShutdownSteps, Moved, Ahead, Cleaned, Kind
    <2>6. ListenersOf(p)'
      BY <1>3, <2>1 DEF history, ListenersOf, Moved, Ahead, Opening, Alive, Kind, Normal, StartSteps
    <2>7. Alive(p)' /\ p \notin met => SeenBy(p)'
      BY <1>3, <2>1 DEF history, SeenBy, Swept, Trapped, Moved, Ahead, Kind
    <2> QED
      BY <1>3, <2>3, <2>4, <2>5, <2>6, <2>7, StepOf DEF history
  <1>4. CASE marker # Nothing /\ Raise(p) /\ UNCHANGED marker
    <2>1. p \in met
      BY <1>4 DEF SeenBy
    <2> QED
      BY <1>4, <2>1, RaiseInv DEF Ahead, StartSteps
  <1> QED
    BY <1>3, <1>4 DEF CreateMarker

LEMMA FillInv ==
    ASSUME IInv, NEW p \in Runtimes, FillMarker(p)
    PROVE  Keeps(p)
  <1>1. At(p, "stamp") /\ "stamp" \in Steps \ {"absent", "gone", "killed"}
    BY DEF FillMarker, Steps, StartSteps
  <1>2. UNCHANGED <<serverVars, marker, trap, signalled>>
    BY DEF FillMarker
  <1>r. Ready(p, "stamp")
    BY <1>1, AtReady
  <1> USE <1>1, <1>2, <1>r DEF Ready, serverVars, serviceVars
  <1>3. CASE /\ marker # Nothing /\ Go(p, "serve") /\ UNCHANGED history
             /\ stamp' = [stamp EXCEPT ![p] = marker]
    <2>1. Moved(p, "serve", Kind(p), proc[p].inode)
      BY <1>3, GoMoves DEF Steps
    <2>2. /\ stamp' \in [Runtimes -> Runtimes \cup {Nothing}] /\ stamp'[p] = marker
          /\ \A q \in Runtimes \ {p} : stamp'[q] = stamp[q]
      BY <1>3 DEF TypeOK, FilesOf
    <2>3. TypeOK'
      BY <1>3, <2>1, <2>2 DEF history, TypeOK, Moved, ServerTypeOK, Places
    <2>4. Beside(p) /\ HandlerOf(p)'
      BY <1>3, <2>1, <2>2 DEF history, Beside, Apart, Moved, HandlerOf, Trapped
    <2>5. FilesOf(p)'
      BY <1>3, <2>1, <2>2 DEF history, FilesOf, Hurt, Swept, StartSteps, AbortSteps, ShutdownSteps, Moved, Ahead, Cleaned, Kind
    <2>6. ListenersOf(p)'
      BY <1>3, <2>1, <2>2 DEF history, ListenersOf, Moved, Ahead, Opening, Alive, Kind, Normal, StartSteps
    <2>7. Alive(p)' /\ p \notin met => SeenBy(p)'
      BY <1>3, <2>1, <2>2 DEF history, SeenBy, Swept, Trapped, Moved, Ahead, Kind
    <2> QED
      BY <1>3, <2>3, <2>4, <2>5, <2>6, <2>7, StepOf DEF history
  <1>4. CASE marker = Nothing /\ Raise(p) /\ UNCHANGED stamp
    <2>1. signalled[p] \/ p \in met
      BY <1>4 DEF SeenBy
    <2> QED
      BY <1>4, <2>1, RaiseInv DEF Ahead, StartSteps
  <1>5. CASE Fail(p) /\ torn' = torn \cup {p} /\ UNCHANGED <<stamp, met, missed>>
    <2>1. trap' \in [Runtimes -> Traps] /\ ServerTypeOK' /\ Apart(p)
      BY DEF TypeOK, Traps, ServerTypeOK, Apart
    <2>2. p \in torn'
      BY <1>5
    <2>3. ~Ahead(p, "normal")
      BY DEF Ahead
    <2> QED
      BY <1>5, <2>1, <2>2, <2>3, FailInv DEF StartSteps
  <1> QED
    BY <1>3, <1>4, <1>5 DEF FillMarker

LEMMA ServeInv ==
    ASSUME IInv, NEW p \in Runtimes, ServeEnds(p) \/ ServeFails(p)
    PROVE  Keeps(p)
  <1>1. At(p, "serve") /\ "serve" \in Steps \ {"absent", "gone", "killed"}
    BY DEF ServeEnds, ServeFails, Steps
  <1>2. UNCHANGED <<serverVars, serviceVars, trap, signalled, history>> /\ GoTo(p, "close", "normal")
    BY DEF ServeEnds, ServeFails
  <1>r. Ready(p, "serve")
    BY <1>1, AtReady
  <1> USE <1>1, <1>2, <1>r DEF Ready, serverVars, serviceVars
  <1>3. Keeps(p)
    <2>1. Moved(p, "close", "normal", proc[p].inode)
      BY <1>2, GoToMoves DEF Steps, ShutdownSteps
    <2>3. TypeOK'
      BY <1>2, <2>1 DEF history, TypeOK, Moved, ServerTypeOK, Places
    <2>4. Beside(p) /\ HandlerOf(p)'
      BY <1>2, <2>1 DEF history, Beside, Apart, Moved, HandlerOf, Trapped
    <2>5. FilesOf(p)'
      BY <1>2, <2>1 DEF history, FilesOf, Hurt, Swept, StartSteps, AbortSteps, ShutdownSteps, Moved, Ahead, Cleaned, Kind
    <2>6. ListenersOf(p)'
      BY <1>2, <2>1 DEF history, ListenersOf, Moved, Ahead, Opening, Alive, Kind, Normal, StartSteps
    <2>7. Alive(p)' /\ p \notin met => SeenBy(p)'
      BY <1>2, <2>1 DEF history, SeenBy, Swept, Trapped, Moved, Ahead, Kind
    <2> QED
      BY <1>2, <2>3, <2>4, <2>5, <2>6, <2>7, StepOf DEF history
  <1> QED
    BY <1>3

LEMMA AbortCloseInv ==
    ASSUME IInv, NEW p \in Runtimes, AbortClose(p)
    PROVE  Keeps(p)
  <1>1. At(p, "abort_close") /\ "abort_close" \in Steps \ {"absent", "gone", "killed"}
    BY DEF AbortClose, Steps, AbortSteps
  <1>2. UNCHANGED <<serviceVars, trap, signalled, history>>
    BY DEF AbortClose
  <1>r. Ready(p, "abort_close")
    BY <1>1, AtReady
  <1>3. Moved(p, "abort_clean", Kind(p), proc[p].inode)
    BY <1>r, GoMoves DEF AbortClose, Ready, Steps, AbortSteps
  <1>4. /\ ServerTypeOK' /\ Apart(p) /\ endpoint' = endpoint /\ identity' = identity
        /\ ~adopted'[<<p, Kind(p)>>] /\ stopping'[<<p, Kind(p)>>]
        /\ listens'[<<p, Kind(p)>>] =
              IF adopted[<<p, Kind(p)>>] THEN "closed" ELSE listens[<<p, Kind(p)>>]
        /\ \A j \in Kinds \ {Kind(p)} :
              /\ listens'[<<p, j>>] = listens[<<p, j>>]
              /\ adopted'[<<p, j>>] = adopted[<<p, j>>]
              /\ stopping'[<<p, j>>] = stopping[<<p, j>>]
    <2>1. Kind(p) \in Kinds /\ ServerTypeOK /\ CloseServer(p, Kind(p))
      BY <1>r DEF AbortClose, Ready
    <2> QED
      BY <2>1, CloseFacts, Zenon
  <1> USE <1>1, <1>2, <1>r DEF Ready, serviceVars, history
  <1>5. TypeOK'
    BY <1>3, <1>4 DEF TypeOK, Moved, Places
  <1>6. Beside(p) /\ HandlerOf(p)'
    BY <1>3, <1>4 DEF Beside, Moved, HandlerOf, Trapped
  <1>7. FilesOf(p)'
    BY <1>3, <1>4 DEF FilesOf, Hurt, Swept, StartSteps, AbortSteps, ShutdownSteps, Moved, Ahead, Cleaned, Kind
  <1>8. ListenersOf(p)'
    BY <1>3, <1>4 DEF ListenersOf, Moved, Ahead, Opening, Alive, Kind, Normal, StartSteps
  <1>9. Alive(p)' /\ p \notin met => SeenBy(p)'
    BY <1>3, <1>4 DEF SeenBy, Swept, Trapped, Moved, Ahead, Kind
  <1> QED
    BY <1>5, <1>6, <1>7, <1>8, <1>9, StepOf

\* start's own cleaning up is over with this server, with the file or without it.
LEMMA NextAbortInv ==
    ASSUME IInv, NEW p \in Runtimes, NEW step \in {"abort_clean", "abort_remove"},
           proc[p].at = step, NextAbort(p) \/ GoTo(p, "close", "normal"),
           UNCHANGED <<listens, adopted, stopping, serviceVars, signalled, failed, met, torn>>,
           ServerTypeOK', Apart(p),
           \/ UNCHANGED <<endpoint, identity>>
           \/ /\ Forgotten(p, Kind(p))
              /\ endpoint' = endpoint \/ (Put(Kind(p), Nothing) /\ endpoint[Kind(p)] # "foreign"),
           trap' \in [Runtimes -> Traps], trap'[p].at = "none",
           \A q \in Runtimes \ {p} : trap'[q] = trap[q],
           missed' = missed \/ missed' = missed \cup {p}
    PROVE  Keeps(p)
  <1>r. /\ TypeOK /\ ServerTypeOK /\ Kind(p) \in Kinds /\ FilesOf(p) /\ ListenersOf(p)
        /\ Alive(p) /\ (p \notin met => SeenBy(p))
    BY DEF IInv, TypeOK, Kind, SolitudeOf, Alive
  <1> USE <1>r DEF serviceVars
  <1>1. PICK next \in {"abort_close", "close"} : Moved(p, next, "normal", proc[p].inode)
    BY GoToMoves DEF NextAbort, Steps, AbortSteps, ShutdownSteps
  <1>2. \A j \in Kinds :
           /\ endpoint'[j] \in {endpoint[j], Nothing}
           /\ endpoint[j] = "foreign" => endpoint'[j] = "foreign"
           /\ identity'[<<p, j>>] \in {identity[<<p, j>>], Nothing}
    <2>1. CASE UNCHANGED <<endpoint, identity>>
      BY <2>1
    <2>2. CASE /\ Forgotten(p, Kind(p))
               /\ endpoint' = endpoint \/ (Put(Kind(p), Nothing) /\ endpoint[Kind(p)] # "foreign")
      BY <2>2 DEF Put, Forgotten, ServerTypeOK, Servers
    <2> QED
      BY <2>1, <2>2
  <1>3. TypeOK'
    BY <1>1 DEF TypeOK, Moved, Places, Traps
  <1>4. Beside(p) /\ HandlerOf(p)'
    BY <1>1, <1>2 DEF Beside, Moved, HandlerOf, Trapped, TypeOK
  <1>5. FilesOf(p)'
    BY <1>1, <1>2 DEF FilesOf, Hurt, Swept, StartSteps, AbortSteps, ShutdownSteps, Moved, Ahead, Cleaned, Kind
  <1>6. ListenersOf(p)'
    BY <1>1 DEF ListenersOf, Moved, Ahead, Opening, Alive, Kind, Normal, StartSteps
  <1>7. Alive(p)' /\ p \notin met => SeenBy(p)'
    BY <1>1, <1>2 DEF SeenBy, Swept, Trapped, Moved, Ahead, Kind
  <1> QED
    BY <1>3, <1>4, <1>5, <1>6, <1>7, StepOf

LEMMA AbortCleanInv ==
    ASSUME IInv, NEW p \in Runtimes, AbortClean(p)
    PROVE  Keeps(p)
  <1>1. At(p, "abort_clean") /\ "abort_clean" \in Steps \ {"absent", "gone", "killed"}
    BY DEF AbortClean, Steps, AbortSteps
  <1>2. UNCHANGED <<serviceVars, trap, signalled, history>>
    BY DEF AbortClean
  <1>r. Ready(p, "abort_clean")
    BY <1>1, AtReady
  <1> USE <1>1, <1>2, <1>r DEF Ready, serverVars, serviceVars
  <1>3. CASE Owned(p, Kind(p)) /\ Go(p, "abort_remove") /\ UNCHANGED serverVars
    <2>0. endpoint[Kind(p)] \in Runtimes
      BY <1>3 DEF Owned
    <2>1. Moved(p, "abort_remove", Kind(p), proc[p].inode)
      BY <1>3, GoMoves DEF Steps, AbortSteps
    <2>3. TypeOK'
      BY <1>3, <2>1, <2>0 DEF history, TypeOK, Moved, ServerTypeOK, Places
    <2>4. Beside(p) /\ HandlerOf(p)'
      BY <1>3, <2>1, <2>0 DEF history, Beside, Apart, Moved, HandlerOf, Trapped
    <2>5. FilesOf(p)'
      BY <1>3, <2>1, <2>0 DEF history, FilesOf, Hurt, Swept, StartSteps, AbortSteps, ShutdownSteps, Moved, Ahead, Cleaned, Kind
    <2>6. ListenersOf(p)'
      BY <1>3, <2>1, <2>0 DEF history, ListenersOf, Moved, Ahead, Opening, Alive, Kind, Normal, StartSteps
    <2>7. Alive(p)' /\ p \notin met => SeenBy(p)'
      BY <1>3, <2>1, <2>0 DEF history, SeenBy, Swept, Trapped, Moved, Ahead, Kind
    <2> QED
      BY <1>3, <2>3, <2>4, <2>5, <2>6, <2>7, StepOf DEF history
  <1>4. CASE LeaveEndpoint(p, Kind(p)) /\ NextAbort(p)
    <2>1. /\ Forgotten(p, Kind(p)) /\ UNCHANGED <<endpoint, listens, adopted, stopping>>
      BY <1>4 DEF LeaveEndpoint
    <2>2. ServerTypeOK' /\ Apart(p)
      BY <2>1, ForgetFacts
    <2>3. trap' \in [Runtimes -> Traps]
      BY DEF TypeOK, Traps
    <2> QED
      BY <1>4, <2>1, <2>2, <2>3, NextAbortInv DEF history
  <1> QED
    BY <1>3, <1>4 DEF AbortClean

LEMMA AbortRemoveInv ==
    ASSUME IInv, NEW p \in Runtimes, AbortRemove(p)
    PROVE  Keeps(p)
  <1>1. At(p, "abort_remove") /\ "abort_remove" \in Steps \ {"absent", "gone", "killed"}
    BY DEF AbortRemove, Steps, AbortSteps
  <1>2. UNCHANGED <<serviceVars, trap, signalled, failed, met, torn>>
    BY DEF AbortRemove
  <1>r. Ready(p, "abort_remove")
    BY <1>1, AtReady
  <1> USE <1>1, <1>2, <1>r DEF Ready, serverVars, serviceVars
  <1>t. trap' \in [Runtimes -> Traps] /\ endpoint[Kind(p)] # "foreign"
    BY DEF TypeOK, Traps, FilesOf
  <1>3. CASE UnlinkOwned(p, Kind(p)) /\ NextAbort(p) /\ UNCHANGED missed
    <2>1. /\ Forgotten(p, Kind(p)) /\ Put(Kind(p), Nothing) /\ UNCHANGED <<listens, adopted, stopping>>
      BY <1>3 DEF UnlinkOwned
    <2>2. ServerTypeOK' /\ Apart(p)
      BY <2>1, ForgetFacts
    <2> QED
      BY <1>3, <1>t, <2>1, <2>2, NextAbortInv
  <1>4. CASE GoTo(p, "close", "normal") /\ missed' = missed \cup {p} /\ UNCHANGED serverVars
    <2>1. ServerTypeOK' /\ Apart(p)
      BY <1>4 DEF ServerTypeOK, Apart
    <2> QED
      BY <1>4, <1>t, <2>1, NextAbortInv
  <1> QED
    BY <1>3, <1>4 DEF AbortRemove

----------------------------------------------------------------------------
\* Shutdown, by main or by the handler

\* Somebody in p is about to take this step of shutdown, for this server.
ShuttingAt(p, step, k) ==
    /\ TypeOK /\ ServerTypeOK /\ Alive(p) /\ proc[p].at # "boot"
    /\ IF Trapped(p) THEN signalled[p] /\ trap[p].at = step /\ trap[p].kind = k
       ELSE proc[p].at = step /\ Kind(p) = k /\ trap[p].at = "none"
    /\ HandlerOf(p) /\ FilesOf(p) /\ ListenersOf(p)
    /\ p \notin met => SeenBy(p)

LEMMA ShutdownReady ==
    ASSUME IInv, NEW p \in Runtimes, NEW step \in ShutdownSteps, Shutting(p).at = step
    PROVE  Shutting(p).kind \in Kinds /\ ShuttingAt(p, step, Shutting(p).kind)
  <1>1. /\ TypeOK /\ ServerTypeOK
        /\ HandlerOf(p) /\ FilesOf(p) /\ ListenersOf(p) /\ SolitudeOf(p)
    BY DEF IInv, TypeOK
  <1>2. /\ Shutting(p).kind \in Kinds
        /\ IF Trapped(p) THEN trap[p].at = step /\ trap[p].kind = Shutting(p).kind
           ELSE proc[p].at = step /\ Kind(p) = Shutting(p).kind /\ trap[p].at = "none"
    <2>1. proc[p] \in Places /\ trap[p] \in Traps
      BY <1>1 DEF TypeOK, Places, Traps
    <2>2. CASE Trapped(p)
      <3>1. Shutting(p) = [at |-> trap[p].at, kind |-> trap[p].kind]
        BY <2>2 DEF Shutting
      <3> QED
        BY <2>1, <2>2, <3>1 DEF Traps
    <2>3. CASE ~Trapped(p)
      <3>1. Shutting(p) = [at |-> proc[p].at, kind |-> proc[p].kind]
        BY <2>3 DEF Shutting
      <3> QED
        BY <2>1, <2>3, <3>1 DEF Places, Kind, Trapped
    <2> QED
      BY <2>2, <2>3
  <1>3. Alive(p) /\ proc[p].at # "boot"
    BY <1>1, <1>2 DEF HandlerOf, Alive, ShutdownSteps
  <1> QED
    BY <1>1, <1>2, <1>3 DEF ShuttingAt, HandlerOf, SolitudeOf

\* Whoever took it goes on; the other one stays where it is.
Proceeded(p, step, k) ==
    /\ \/ Trapped(p) /\ proc' = proc /\ trap'[p].at = step /\ trap'[p].kind = k
       \/ ~Trapped(p) /\ Moved(p, step, k, proc[p].inode) /\ trap' = trap
    /\ Trapped(p) <=> Trapped(p)'
    /\ proc' \in [Runtimes -> Places] /\ trap' \in [Runtimes -> Traps]
    /\ \A q \in Runtimes \ {p} : proc'[q] = proc[q] /\ trap'[q] = trap[q]

LEMMA ProceedFacts ==
    ASSUME TypeOK, NEW p \in Runtimes, NEW step \in ShutdownSteps, NEW k \in Kinds,
           Proceed(p, step, k)
    PROVE  Proceeded(p, step, k)
  <1>1. proc \in [Runtimes -> Places] /\ step \in Steps /\ trap \in [Runtimes -> Traps]
    BY DEF TypeOK, Places, Steps, Traps
  <1>2. CASE Trapped(p)
    <2>1. trap' = [trap EXCEPT ![p] = [at |-> step, kind |-> k]] /\ proc' = proc
      BY <1>2 DEF Proceed
    <2>2. [at |-> step, kind |-> k] \in Traps
      BY DEF Traps
    <2>3. /\ trap' \in [Runtimes -> Traps] /\ trap'[p] = [at |-> step, kind |-> k]
          /\ \A q \in Runtimes \ {p} : trap'[q] = trap[q]
      BY <1>1, <2>1, <2>2
    <2> QED
      BY <1>1, <1>2, <2>1, <2>3 DEF Proceeded, Trapped, ShutdownSteps
  <1>3. CASE ~Trapped(p)
    <2>1. Moved(p, step, k, proc[p].inode) /\ trap' = trap
      BY <1>1, <1>3, GoToMoves DEF Proceed
    <2> QED
      BY <1>1, <1>3, <2>1 DEF Proceeded, Moved, Trapped
  <1> QED
    BY <1>2, <1>3

LEMMA CloseStepInv ==
    ASSUME IInv, NEW p \in Runtimes, CloseStep(p)
    PROVE  Keeps(p)
  <1>1. PICK k \in Kinds :
           ShuttingAt(p, "close", k) /\ CloseServer(p, k) /\ Proceeded(p, "clean", k)
    BY ShutdownReady, ProceedFacts DEF CloseStep, ShutdownSteps, ShuttingAt
  <1>2. UNCHANGED <<serviceVars, signalled, history>>
    BY DEF CloseStep
  <1>3. /\ ServerTypeOK' /\ Apart(p) /\ endpoint' = endpoint /\ identity' = identity
        /\ stopping'[<<p, k>>] /\ ~adopted'[<<p, k>>]
        /\ listens'[<<p, k>>] = IF adopted[<<p, k>>] THEN "closed" ELSE listens[<<p, k>>]
        /\ \A j \in Kinds \ {k} :
              /\ listens'[<<p, j>>] = listens[<<p, j>>]
              /\ adopted'[<<p, j>>] = adopted[<<p, j>>]
              /\ stopping'[<<p, j>>] = stopping[<<p, j>>]
    BY <1>1, CloseFacts, Zenon DEF ShuttingAt
  <1> USE <1>1, <1>2 DEF ShuttingAt, serviceVars, history
  <1>4. TypeOK'
    BY <1>3 DEF TypeOK, Proceeded, Places, Traps
  <1>5. Beside(p)
    BY <1>3 DEF Beside, Proceeded
  <1>6. HandlerOf(p)'
    BY <1>3 DEF HandlerOf, Passed, Proceeded, Alive
  <1>7. FilesOf(p)'
    BY <1>3 DEF Proceeded, FilesOf, Hurt, Swept, StartSteps, AbortSteps, ShutdownSteps, Moved, Ahead, Cleaned, Kind
  <1>8. ListenersOf(p)'
    <2>1. CASE Trapped(p) /\ proc' = proc
      BY <1>3, <2>1 DEF ListenersOf, Ahead, Opening, Alive, Kind, Normal
    <2>2. CASE proc[p].at = "close" /\ Moved(p, "clean", k, proc[p].inode)
      BY <1>3, <2>2 DEF ListenersOf, Moved, Ahead, Opening, Alive, Kind, Normal, StartSteps
    <2> QED
      BY <2>1, <2>2 DEF Proceeded
  <1>9. Alive(p)' /\ p \notin met => SeenBy(p)'
    BY <1>3 DEF SeenBy, Swept, Proceeded, Moved, Ahead, Kind, Trapped
  <1> QED
    BY <1>4, <1>5, <1>6, <1>7, <1>8, <1>9, StepOf

\* shutdown is over with this server, with the file or without it.
LEMMA NextServerInv ==
    ASSUME IInv, NEW p \in Runtimes, NEW k \in Kinds, NEW step \in {"clean", "remove"},
           ShuttingAt(p, step, k), Proceed(p, NextStep(k), "consent"), Forgotten(p, k),
           endpoint' = endpoint \/ (Put(k, Nothing) /\ endpoint[k] # "foreign"),
           endpoint'[k] # p,
           UNCHANGED <<listens, adopted, stopping, serviceVars, signalled, history>>
    PROVE  Keeps(p)
  <1>1. PICK next \in {"close", "unmark"} :
           next = NextStep(k) /\ Proceeded(p, next, "consent")
    <2>1. NextStep(k) \in {"close", "unmark"} /\ "consent" \in Kinds
      BY DEF NextStep
    <2> QED
      BY <2>1, ProceedFacts DEF ShuttingAt, ShutdownSteps
  <1>2. /\ ServerTypeOK' /\ Apart(p) /\ identity'[<<p, k>>] = Nothing
        /\ \A j \in Kinds \ {k} :
              endpoint'[j] = endpoint[j] /\ identity'[<<p, j>>] = identity[<<p, j>>]
    BY ForgetFacts DEF ShuttingAt
  <1>3. \A j \in Kinds : /\ endpoint'[j] \in {endpoint[j], Nothing}
                         /\ endpoint[j] = "foreign" => endpoint'[j] = "foreign"
    BY DEF Put, ShuttingAt, ServerTypeOK
  <1> USE <1>1 DEF ShuttingAt, serviceVars, history
  <1>4. TypeOK'
    BY <1>2 DEF TypeOK, Proceeded, Places, Traps
  <1>5. Beside(p)
    BY <1>2, <1>3 DEF Beside, Proceeded
  <1>6. HandlerOf(p)'
    BY <1>2, <1>3 DEF HandlerOf, Passed, Proceeded, Alive, NextStep
  <1>7. FilesOf(p)'
    <2>1. CASE Trapped(p) /\ proc' = proc
      BY <1>2, <1>3, <2>1 DEF FilesOf, Hurt, Swept, Ahead, Cleaned, Kind
    <2>2. CASE proc[p].at = step /\ Kind(p) = k /\ Moved(p, next, "consent", proc[p].inode)
      BY <1>2, <1>3, <2>2 DEF NextStep, FilesOf, Hurt, Swept, StartSteps, AbortSteps, ShutdownSteps, Moved, Ahead, Cleaned, Kind
    <2> QED
      BY <2>1, <2>2 DEF Proceeded
  <1>8. ListenersOf(p)'
    <2>1. CASE Trapped(p) /\ proc' = proc
      BY <1>2, <2>1 DEF ListenersOf, Ahead, Opening, Alive, Kind, Normal
    <2>2. CASE proc[p].at = step /\ Kind(p) = k /\ Moved(p, next, "consent", proc[p].inode)
      BY <1>2, <2>2 DEF ListenersOf, Moved, Ahead, Opening, Alive, Kind, Normal, StartSteps
    <2> QED
      BY <2>1, <2>2 DEF Proceeded
  <1>9. Alive(p)' /\ p \notin met => SeenBy(p)'
    <2>1. CASE Trapped(p) /\ proc' = proc /\ trap'[p].at = next /\ Trapped(p)'
      <3>1. Kind(p) \in Kinds /\ Kind(p)' = Kind(p) /\ (Ahead(p, "normal") => Ahead(p, "normal")')
        BY <2>1 DEF Kind, TypeOK, Ahead
      <3> QED
        BY <1>3, <2>1, <3>1 DEF SeenBy
    <2>2. CASE proc[p].at = step /\ Moved(p, next, "consent", proc[p].inode) /\ trap'[p].at = "none"
      BY <1>3, <2>2 DEF SeenBy, Moved, Ahead, Kind
    <2> QED
      BY <2>1, <2>2 DEF Proceeded
  <1> QED
    BY <1>4, <1>5, <1>6, <1>7, <1>8, <1>9, StepOf

LEMMA CleanStepInv ==
    ASSUME IInv, NEW p \in Runtimes, CleanStep(p)
    PROVE  Keeps(p)
  <1>1. PICK k \in Kinds :
           /\ ShuttingAt(p, "clean", k)
           /\ \/ Owned(p, k) /\ Proceed(p, "remove", k) /\ UNCHANGED serverVars
              \/ LeaveEndpoint(p, k) /\ Proceed(p, NextStep(k), "consent")
    BY ShutdownReady DEF CleanStep, ShutdownSteps
  <1>2. UNCHANGED <<serviceVars, signalled, history>>
    BY DEF CleanStep
  <1>3. CASE Owned(p, k) /\ Proceed(p, "remove", k) /\ UNCHANGED serverVars
    <2>1. Proceeded(p, "remove", k) /\ endpoint[k] \in Runtimes
      BY <1>1, <1>3, ProceedFacts DEF ShuttingAt, ShutdownSteps, Owned
    <2> USE <1>1, <1>2, <1>3 DEF ShuttingAt, serviceVars, history, serverVars
    <2>2. TypeOK'
      BY <2>1 DEF TypeOK, Proceeded, Places, Traps, ServerTypeOK
    <2>3. Beside(p)
      BY <2>1 DEF Beside, Proceeded, Apart
    <2>4. HandlerOf(p)'
      BY <2>1 DEF HandlerOf, Passed, Proceeded, Alive
    <2>5. FilesOf(p)'
      BY <2>1 DEF Proceeded, FilesOf, Hurt, Swept, StartSteps, AbortSteps, ShutdownSteps, Moved, Ahead, Cleaned, Kind
    <2>6. ListenersOf(p)'
      BY <2>1 DEF Proceeded, ListenersOf, Moved, Ahead, Opening, Alive, Kind, Normal, StartSteps
    <2>7. Alive(p)' /\ p \notin met => SeenBy(p)'
      BY <2>1 DEF SeenBy, Swept, Proceeded, Moved, Ahead, Kind, Trapped
    <2> QED
      BY <2>2, <2>3, <2>4, <2>5, <2>6, <2>7, StepOf
  <1>4. CASE LeaveEndpoint(p, k) /\ Proceed(p, NextStep(k), "consent")
    <2>1. /\ Forgotten(p, k) /\ UNCHANGED <<endpoint, listens, adopted, stopping>> /\ ~Owned(p, k)
      BY <1>4 DEF LeaveEndpoint
    <2>2. endpoint'[k] # p
      BY <1>1, <2>1 DEF Owned, FilesOf, ShuttingAt
    <2> QED
      BY <1>1, <1>2, <1>4, <2>1, <2>2, NextServerInv
  <1> QED
    BY <1>1, <1>3, <1>4

LEMMA ReturnedFacts ==
    ASSUME TypeOK, NEW p \in Runtimes, Returned(p) \/ (~Trapped(p) /\ trap' = trap)
    PROVE  /\ trap' \in [Runtimes -> Traps] /\ trap'[p].at = "none"
           /\ \A q \in Runtimes \ {p} : trap'[q] = trap[q]
  BY DEF TypeOK, Traps, Returned, NoTrap, Trapped

\* main ends, by itself or by an exception.
LEMMA EndInv ==
    ASSUME IInv, NEW p \in Runtimes, Alive(p), Ends(p),
           marker' \in {marker, Nothing}, marker = "foreign" => marker' = "foreign",
           stamp' = stamp \/ stamp' = [stamp EXCEPT ![p] = Nothing],
           marker' = p => stamp'[p] = p \/ p \in torn,
           Hurt(p)' \/ ((marker' = p => p \in torn) /\ \A k \in Kinds : endpoint[k] # p),
           proc[p].at \in ShutdownSteps,
           trap' \in [Runtimes -> Traps], trap'[p].at = "none",
           \A q \in Runtimes \ {p} : trap'[q] = trap[q],
           missed' = missed \/ missed' = missed \cup {p},
           UNCHANGED <<signalled, failed, met, torn>>
    PROVE  Keeps(p)
  <1>1. /\ TypeOK /\ ServerTypeOK /\ FilesOf(p) /\ ListenersOf(p) /\ Go(p, "gone") /\ CloseAll(p)
    BY DEF IInv, TypeOK, Ends
  <1>2. Moved(p, "gone", Kind(p), proc[p].inode)
    BY <1>1, GoMoves DEF Steps
  <1>3. /\ ServerTypeOK' /\ Apart(p) /\ UNCHANGED <<endpoint, identity, adopted, stopping>>
        /\ \A j \in Kinds : listens'[<<p, j>>] = "closed"
    BY <1>1, CloseAllFacts
  <1>4. /\ stamp' \in [Runtimes -> Runtimes \cup {Nothing}] /\ stamp'[p] \in {stamp[p], Nothing}
        /\ \A q \in Runtimes \ {p} : stamp'[q] = stamp[q]
    BY <1>1 DEF TypeOK
  <1> USE <1>1
  <1>5. TypeOK'
    BY <1>2, <1>3, <1>4 DEF TypeOK, Moved, Places, Traps
  <1>6. Beside(p) /\ HandlerOf(p)'
    BY <1>2, <1>3, <1>4 DEF Beside, Moved, HandlerOf, Trapped, TypeOK
  <1>7. FilesOf(p)'
    BY <1>2, <1>3, <1>4 DEF FilesOf, Hurt, Swept, StartSteps, AbortSteps, ShutdownSteps, Moved, Ahead, Cleaned, Kind
  <1>8. ListenersOf(p)' /\ ~Alive(p)'
    BY <1>2, <1>3, <1>4 DEF ListenersOf, Moved, Ahead, Opening, Alive, Kind, Normal, StartSteps
  <1> QED
    BY <1>5, <1>6, <1>7, <1>8, StepOf

\* The handler is over, and main goes on where it was.
LEMMA ReturnInv ==
    ASSUME IInv, NEW p \in Runtimes, Trapped(p), UNCHANGED <<serverVars, proc>>,
           marker' \in {marker, Nothing}, marker = "foreign" => marker' = "foreign",
           stamp' = stamp \/ stamp' = [stamp EXCEPT ![p] = Nothing],
           marker' = p => stamp'[p] = p \/ p \in torn \/ proc[p].at = "stamp",
           \/ p \in met
           \/ proc[p].at = "remove" => (marker' = p => p \in torn) /\ \A k \in Kinds : endpoint[k] # p,
           trap' \in [Runtimes -> Traps], trap'[p].at = "none",
           \A q \in Runtimes \ {p} : trap'[q] = trap[q],
           missed' = missed \/ missed' = missed \cup {p},
           UNCHANGED <<signalled, failed, met, torn>>
    PROVE  Keeps(p)
  <1>1. /\ TypeOK /\ ServerTypeOK /\ FilesOf(p) /\ ListenersOf(p) /\ Alive(p) /\ signalled[p]
        /\ (p \notin met => SeenBy(p))
    BY DEF IInv, TypeOK, HandlerOf, SolitudeOf
  <1>2. /\ stamp' \in [Runtimes -> Runtimes \cup {Nothing}] /\ stamp'[p] \in {stamp[p], Nothing}
        /\ \A q \in Runtimes \ {p} : stamp'[q] = stamp[q]
    BY <1>1 DEF TypeOK
  <1> USE <1>1 DEF serverVars
  <1>3. TypeOK'
    BY <1>2 DEF TypeOK, ServerTypeOK, Traps
  <1>4. Beside(p) /\ HandlerOf(p)'
    BY <1>2 DEF Beside, Apart, HandlerOf, Trapped, TypeOK
  <1>5. FilesOf(p)'
    BY <1>2 DEF FilesOf, Hurt, Swept, Ahead, Cleaned, Kind, Alive
  <1>6. ListenersOf(p)'
    BY <1>2 DEF ListenersOf, Ahead, Opening, Alive, Kind, Normal
  <1>7. Alive(p)' /\ p \notin met => SeenBy(p)'
    BY DEF SeenBy, Swept, Ahead, Kind, Trapped
  <1> QED
    BY <1>3, <1>4, <1>5, <1>6, <1>7, StepOf

\* The exception of a handler sends main elsewhere, beside another runtime.
LEMMA SentInv ==
    ASSUME IInv, NEW p \in Runtimes, Alive(p), p \in met,
           NEW step \in Steps, NEW k \in Kinds, Moved(p, step, k, proc[p].inode),
           UNCHANGED <<listens, adopted, stopping, serviceVars, endpoint>>,
           identity' = identity \/ Forgotten(p, Kind(p)),
           \/ proc[p].at = "probe" /\ step = "bind" /\ k = Kind(p)
           \/ /\ proc[p].at = "probe" /\ step = "unlink" /\ k = Kind(p)
              /\ endpoint[k] # "foreign"
           \/ proc[p].at = "recover" /\ step = "mark" /\ k = Kind(p)
           \/ /\ proc[p].at \in {"serve"} \cup AbortSteps
              /\ step \in {"abort_close", "close"} /\ k = "normal"
              /\ step = "abort_close" => proc[p].at \in AbortSteps
           \/ proc[p].at = "clean" /\ step = NextStep(Kind(p)) /\ k = "consent",
           identity' # identity => proc[p].at \in {"clean", "abort_clean"},
           missed' = missed \cup {p},
           trap' \in [Runtimes -> Traps], trap'[p].at = "none",
           \A q \in Runtimes \ {p} : trap'[q] = trap[q],
           UNCHANGED <<signalled, failed, met, torn>>
    PROVE  Keeps(p)
  <1>1. /\ TypeOK /\ ServerTypeOK /\ Kind(p) \in Kinds /\ FilesOf(p) /\ ListenersOf(p)
    BY DEF IInv, TypeOK, Kind
  <1>2. /\ ServerTypeOK' /\ Apart(p)
        /\ \A j \in Kinds : identity'[<<p, j>>] \in {identity[<<p, j>>], Nothing}
    <2>1. CASE identity' = identity
      BY <1>1, <2>1 DEF ServerTypeOK, Apart
    <2>2. CASE Forgotten(p, Kind(p))
      BY <1>1, <2>2 DEF Forgotten, ServerTypeOK, Servers, Apart
    <2> QED
      BY <2>1, <2>2
  <1>3. p \in missed' /\ Hurt(p)'
    BY DEF Hurt
  <1> USE <1>1, <1>2 DEF serviceVars
  <1>4. TypeOK'
    BY DEF TypeOK, Moved, Places, Traps
  <1>5. Beside(p) /\ HandlerOf(p)'
    BY DEF Beside, Moved, HandlerOf, Trapped, TypeOK
  <1>6. FilesOf(p)'
    BY <1>3 DEF NextStep, FilesOf, Swept, StartSteps, AbortSteps, ShutdownSteps, Moved, Ahead, Cleaned, Kind
  <1>7. ListenersOf(p)'
    BY DEF NextStep, AbortSteps, ListenersOf, Moved, Ahead, Opening, Alive, Kind, Normal, StartSteps
  <1> QED
    BY <1>4, <1>5, <1>6, <1>7, StepOf

\* What a start leaves of the server it was opening.
Abandoned(p, step) ==
    /\ ServerTypeOK' /\ Apart(p) /\ UNCHANGED <<adopted, identity, stopping>>
    /\ \A j \in Kinds :
          /\ endpoint'[j] = endpoint[j]
                \/ (step = "adopt" /\ endpoint'[j] = Nothing /\ endpoint[j] # "foreign")
          /\ listens'[<<p, j>>] = IF step \in {"listen", "adopt"} /\ j = Kind(p) THEN "closed"
                                 ELSE listens[<<p, j>>]

\* Wherever the handler interrupted main.
LEMMA InterruptedInv ==
    ASSUME IInv, NEW p \in Runtimes, Trapped(p), p \in met, Returned(p), Interrupted(p),
           missed' = missed \cup {p}, UNCHANGED <<serviceVars, signalled, met>>
    PROVE  Keeps(p)
  <1>1. /\ TypeOK /\ ServerTypeOK /\ Kind(p) \in Kinds /\ FilesOf(p) /\ Alive(p)
        /\ proc[p].inode \in Runtimes \cup {Nothing}
    BY DEF IInv, TypeOK, Kind, HandlerOf
  <1>2. /\ trap' \in [Runtimes -> Traps] /\ trap'[p].at = "none"
        /\ \A q \in Runtimes \ {p} : trap'[q] = trap[q]
    BY <1>1, ReturnedFacts
  <1>3. ASSUME NEW step \in StartSteps, proc[p].at = step, Fail(p),
               torn' = IF step = "stamp" THEN torn \cup {p} ELSE torn,
               \/ step \notin {"listen", "adopt"} /\ UNCHANGED serverVars
               \/ step = "listen" /\ AbandonListener(p, Kind(p), Nothing)
               \/ step = "adopt" /\ AbandonListener(p, Kind(p), proc[p].inode)
        PROVE  Keeps(p)
    <2>1. Abandoned(p, step)
      <3>1. CASE step \notin {"listen", "adopt"} /\ UNCHANGED serverVars
        BY <1>1, <3>1 DEF serverVars, ServerTypeOK, Apart, Abandoned
      <3>2. ASSUME NEW inode \in Runtimes \cup {Nothing}, AbandonListener(p, Kind(p), inode),
                   \/ step = "listen" /\ inode = Nothing
                   \/ step = "adopt" /\ inode = proc[p].inode
            PROVE  Abandoned(p, step)
        <4>1. /\ SetListener(<<p, Kind(p)>>, "closed") /\ UNCHANGED <<adopted, identity, stopping>>
              /\ endpoint' = endpoint \/ (endpoint[Kind(p)] = inode /\ Put(Kind(p), Nothing))
          BY <3>2 DEF AbandonListener
        <4>2. /\ ServerTypeOK' /\ Apart(p) /\ listens'[<<p, Kind(p)>>] = "closed"
              /\ \A j \in Kinds \ {Kind(p)} :
                    endpoint'[j] = endpoint[j] /\ listens'[<<p, j>>] = listens[<<p, j>>]
          BY <1>1, <4>1, ListenerFacts
        <4>3. \/ endpoint'[Kind(p)] = endpoint[Kind(p)]
              \/ /\ endpoint'[Kind(p)] = Nothing /\ endpoint[Kind(p)] = inode
                 /\ endpoint[Kind(p)] # "foreign"
          BY <1>1, <4>1 DEF Put, ServerTypeOK
        <4> QED
          BY <3>2, <4>1, <4>2, <4>3 DEF Abandoned
      <3> QED
        BY <1>1, <1>3, <3>1, <3>2
    <2>2. p \in torn' \/ marker # p
      BY <1>1, <1>3 DEF FilesOf, StartSteps, ShutdownSteps
    <2>3. p \in torn' => step = "stamp"
      BY <1>1, <1>3 DEF FilesOf, StartSteps, AbortSteps, ShutdownSteps
    <2>4. torn' = torn \/ torn' = torn \cup {p}
      BY <1>3
    <2> QED
      BY <1>2, <1>3, <2>1, <2>2, <2>3, <2>4, FailInv DEF Abandoned
  <1>4. CASE /\ proc[p].at \in {"serve"} \cup AbortSteps /\ GoTo(p, "close", "normal")
             /\ UNCHANGED <<serverVars, failed, torn>>
    <2>1. Moved(p, "close", "normal", proc[p].inode) /\ "close" \in Steps
      BY <1>1, <1>4, GoToMoves DEF Steps, ShutdownSteps
    <2> QED
      BY <1>1, <1>2, <1>4, <2>1, SentInv DEF serverVars
  <1>5. CASE proc[p].at \in ShutdownSteps /\ Ends(p) /\ UNCHANGED <<failed, torn>>
    <2>1. Hurt(p)'
      BY DEF Hurt
    <2>2. marker' = p => stamp'[p] = p \/ p \in torn
      BY <1>1, <1>5 DEF FilesOf, ShutdownSteps, serviceVars
    <2> QED
      BY <1>1, <1>2, <1>5, <2>1, <2>2, EndInv DEF serviceVars
  <1> QED
    BY <1>3, <1>4, <1>5 DEF Interrupted

LEMMA CaughtInv ==
    ASSUME IInv, NEW p \in Runtimes, Trapped(p), p \in met, Returned(p), Caught(p),
           missed' = missed \cup {p}, UNCHANGED <<serviceVars, signalled, met>>
    PROVE  Keeps(p)
  <1>1. /\ TypeOK /\ ServerTypeOK /\ Kind(p) \in Kinds /\ FilesOf(p) /\ Alive(p)
        /\ UNCHANGED <<failed, torn>>
    BY DEF IInv, TypeOK, Kind, HandlerOf, Caught
  <1>2. /\ trap' \in [Runtimes -> Traps] /\ trap'[p].at = "none"
        /\ \A q \in Runtimes \ {p} : trap'[q] = trap[q]
    BY <1>1, ReturnedFacts
  <1>3. ASSUME NEW step \in {"bind", "unlink", "mark"}, Go(p, step), UNCHANGED serverVars,
               \/ proc[p].at = "probe" /\ step = "bind"
               \/ proc[p].at = "probe" /\ endpoint[Kind(p)] # "foreign" /\ step = "unlink"
               \/ proc[p].at = "recover" /\ step = "mark"
        PROVE  Keeps(p)
    <2>1. Moved(p, step, Kind(p), proc[p].inode) /\ step \in Steps
      BY <1>1, <1>3, GoMoves DEF Steps, StartSteps
    <2> QED
      BY <1>1, <1>2, <1>3, <2>1, SentInv DEF serverVars
  <1>4. CASE /\ proc[p].at = "abort_clean" /\ NextAbort(p)
             /\ Forgotten(p, Kind(p)) /\ UNCHANGED <<endpoint, listens, adopted, stopping>>
    <2>1. PICK step \in {"abort_close", "close"} : Moved(p, step, "normal", proc[p].inode)
      BY <1>1, <1>4, GoToMoves DEF NextAbort, Steps, AbortSteps, ShutdownSteps
    <2>2. step \in Steps /\ "normal" \in Kinds /\ proc[p].at \in AbortSteps
      BY <1>4 DEF Steps, AbortSteps, ShutdownSteps
    <2> QED
      BY <1>1, <1>2, <1>4, <2>1, <2>2, SentInv
  <1>5. CASE /\ proc[p].at = "clean" /\ GoTo(p, NextStep(Kind(p)), "consent")
             /\ Forgotten(p, Kind(p)) /\ UNCHANGED <<endpoint, listens, adopted, stopping>>
    <2>1. PICK step \in Steps : step = NextStep(Kind(p))
      BY DEF NextStep, Steps, ShutdownSteps
    <2>2. Moved(p, step, "consent", proc[p].inode) /\ "consent" \in Kinds
      BY <1>1, <1>5, <2>1, GoToMoves
    <2> QED
      BY <1>1, <1>2, <1>5, <2>1, <2>2, SentInv
  <1>6. CASE proc[p].at = "unmark" /\ Ends(p)
    <2>1. Hurt(p)' /\ proc[p].at \in ShutdownSteps
      BY <1>6 DEF Hurt, ShutdownSteps
    <2>2. marker' = p => stamp'[p] = p \/ p \in torn
      BY <1>1, <1>6 DEF FilesOf, serviceVars
    <2> QED
      BY <1>1, <1>2, <1>6, <2>1, <2>2, EndInv DEF serviceVars
  <1>7. CASE proc[p].at = "close" /\ UNCHANGED <<serverVars, proc>>
    <2>1. marker' = p => stamp'[p] = p \/ p \in torn \/ proc[p].at = "stamp"
      BY <1>1, <1>7 DEF FilesOf, serviceVars
    <2> QED
      BY <1>1, <1>2, <1>7, <2>1, ReturnInv DEF serviceVars
  <1> QED
    BY <1>3, <1>4, <1>5, <1>6, <1>7 DEF Caught

\* A shutdown that goes to unlink a missing file: in a handler only beside
\* another runtime, in main alone only when the handler left nothing.
LEMMA ShutdownRaisesInv ==
    ASSUME IInv, NEW p \in Runtimes, NEW k \in Kinds, ShutdownRaises(p),
           UNCHANGED <<serviceVars, signalled>>,
           \/ ShuttingAt(p, "remove", k) /\ Absent(k)
           \/ ShuttingAt(p, "erase", k) /\ marker = Nothing
    PROVE  Keeps(p)
  <1>1. /\ TypeOK /\ FilesOf(p) /\ Alive(p) /\ missed' = missed \cup {p} /\ met' = met
    BY DEF ShuttingAt, ShutdownRaises
  <1>2. CASE Trapped(p)
    <2>1. p \in met
      BY <1>2 DEF ShuttingAt, SeenBy, Absent
    <2>2. Returned(p) /\ (Interrupted(p) \/ Caught(p))
      BY <1>2 DEF ShutdownRaises
    <2> QED
      BY <1>1, <1>2, <2>1, <2>2, InterruptedInv, CaughtInv
  <1>3. CASE ~Trapped(p)
    <2>1. Ends(p) /\ UNCHANGED <<trap, failed, torn>> /\ proc[p].at \in {"remove", "erase"}
      BY <1>3 DEF ShutdownRaises, ShuttingAt
    <2>2. /\ trap' \in [Runtimes -> Traps] /\ trap'[p].at = "none"
          /\ \A q \in Runtimes \ {p} : trap'[q] = trap[q]
      BY <1>1, <1>3, <2>1, ReturnedFacts
    <2>3. marker' = p => stamp'[p] = p \/ p \in torn
      BY <1>1, <2>1 DEF FilesOf, serviceVars
    <2>4. Hurt(p)' \/ ((marker' = p => p \in torn) /\ \A j \in Kinds : endpoint[j] # p)
      <3>1. CASE p \in met
        BY <1>1, <3>1 DEF Hurt
      <3>2. CASE p \notin met /\ ShuttingAt(p, "remove", k) /\ Absent(k)
        BY <1>3, <3>2 DEF ShuttingAt, SeenBy, Absent, Swept, serviceVars
      <3>3. CASE p \notin met /\ ShuttingAt(p, "erase", k) /\ marker = Nothing
        BY <1>3, <3>3 DEF ShuttingAt, FilesOf, Cleaned, Hurt, serviceVars
      <3> QED
        BY <3>1, <3>2, <3>3
    <2> QED
      BY <1>1, <2>1, <2>2, <2>3, <2>4, EndInv DEF serviceVars, ShutdownSteps
  <1> QED
    BY <1>2, <1>3

LEMMA RemoveStepInv ==
    ASSUME IInv, NEW p \in Runtimes, RemoveStep(p)
    PROVE  Keeps(p)
  <1>1. PICK k \in Kinds :
           /\ ShuttingAt(p, "remove", k)
           /\ \/ UnlinkOwned(p, k) /\ Proceed(p, NextStep(k), "consent") /\ UNCHANGED history
              \/ Absent(k) /\ ShutdownRaises(p)
    BY ShutdownReady DEF RemoveStep, ShutdownSteps
  <1>2. UNCHANGED <<serviceVars, signalled>>
    BY DEF RemoveStep
  <1>3. CASE UnlinkOwned(p, k) /\ Proceed(p, NextStep(k), "consent") /\ UNCHANGED history
    <2>1. /\ Forgotten(p, k) /\ Put(k, Nothing) /\ UNCHANGED <<listens, adopted, stopping>>
      BY <1>3 DEF UnlinkOwned
    <2>2. endpoint'[k] # p /\ endpoint[k] # "foreign"
      BY <1>1, <2>1 DEF Put, ShuttingAt, ServerTypeOK, HandlerOf, FilesOf
    <2> QED
      BY <1>1, <1>2, <1>3, <2>1, <2>2, NextServerInv
  <1>4. CASE Absent(k) /\ ShutdownRaises(p)
    BY <1>1, <1>2, <1>4, ShutdownRaisesInv
  <1> QED
    BY <1>1, <1>3, <1>4

\* shutdown returns, to the handler's or to main's end.
LEMMA ShutdownEndsInv ==
    ASSUME IInv, NEW p \in Runtimes, NEW k \in Kinds, NEW step \in {"unmark", "erase"},
           ShuttingAt(p, step, k), ShutdownEnds(p), UNCHANGED <<signalled, history>>,
           marker' \in {marker, Nothing}, marker = "foreign" => marker' = "foreign",
           stamp' = stamp \/ stamp' = [stamp EXCEPT ![p] = Nothing],
           marker' # p \/ p \in torn \/ proc[p].at = "stamp"
    PROVE  Keeps(p)
  <1>1. /\ TypeOK /\ HandlerOf(p) /\ FilesOf(p) /\ Alive(p)
        /\ UNCHANGED <<failed, met, torn, missed>>
    BY DEF ShuttingAt, history
  <1>2. CASE Trapped(p) /\ Returned(p) /\ UNCHANGED <<serverVars, proc>>
    <2>1. trap[p].at = step
      BY <1>2 DEF ShuttingAt
    <2>2. \A j \in Kinds : endpoint[j] # p
      BY <1>1, <1>2, <2>1 DEF HandlerOf, Passed
    <2> QED
      BY <1>1, <1>2, <2>2, ReturnedFacts, ReturnInv
  <1>3. CASE ~Trapped(p) /\ Ends(p) /\ UNCHANGED trap
    <2>1. proc[p].at = step
      BY <1>3 DEF ShuttingAt
    <2>2. Hurt(p)' \/ \A j \in Kinds : endpoint[j] # p
      BY <1>1, <2>1 DEF FilesOf, Cleaned, Hurt
    <2>3. step \in ShutdownSteps
      BY DEF ShutdownSteps
    <2> QED
      BY <1>1, <1>3, <2>1, <2>2, <2>3, ReturnedFacts, EndInv
  <1> QED
    BY <1>2, <1>3 DEF ShutdownEnds

LEMMA UnmarkInv ==
    ASSUME IInv, NEW p \in Runtimes, Unmark(p)
    PROVE  Keeps(p)
  <1>1. PICK k \in Kinds : ShuttingAt(p, "unmark", k)
    BY ShutdownReady DEF Unmark, ShutdownSteps
  <1>2. UNCHANGED <<marker, signalled, history>>
    BY DEF Unmark
  <1>3. CASE marker = Nothing /\ ShutdownEnds(p) /\ UNCHANGED stamp
    BY <1>1, <1>2, <1>3, ShutdownEndsInv
  <1>4. CASE /\ marker # Nothing /\ marker # stamp[p] /\ ShutdownEnds(p)
             /\ stamp' = [stamp EXCEPT ![p] = Nothing]
    <2>1. marker # p \/ p \in torn \/ proc[p].at = "stamp"
      BY <1>1, <1>4 DEF ShuttingAt, FilesOf, Alive
    <2> QED
      BY <1>1, <1>2, <1>4, <2>1, ShutdownEndsInv
  <1>5. CASE /\ marker # Nothing /\ marker = stamp[p]
             /\ Proceed(p, "erase", "consent") /\ UNCHANGED <<serverVars, stamp>>
    <2>1. Proceeded(p, "erase", "consent")
      BY <1>1, <1>5, ProceedFacts DEF ShuttingAt, ShutdownSteps
    <2>2. marker # "foreign"
      BY <1>1, <1>5 DEF ShuttingAt, TypeOK
    <2> USE <1>1, <1>2, <1>5 DEF ShuttingAt, serverVars, history
    <2>3. TypeOK'
      BY <2>1 DEF TypeOK, Proceeded, Places, Traps, ServerTypeOK
    <2>4. Beside(p)
      BY <2>1 DEF Beside, Proceeded, Apart
    <2>5. HandlerOf(p)'
      BY <2>1, <2>2 DEF HandlerOf, Passed, Proceeded, Alive
    <2>6. FilesOf(p)'
      BY <2>1, <2>2 DEF Proceeded, FilesOf, Hurt, Swept, StartSteps, AbortSteps, ShutdownSteps,
                        Moved, Ahead, Cleaned, Kind
    <2>7. ListenersOf(p)'
      BY <2>1 DEF Proceeded, ListenersOf, Moved, Ahead, Opening, Alive, Kind, Normal, StartSteps
    <2>8. Alive(p)' /\ p \notin met => SeenBy(p)'
      BY <2>1 DEF SeenBy, Swept, Proceeded, Moved, Ahead, Kind, Trapped
    <2> QED
      BY <2>3, <2>4, <2>5, <2>6, <2>7, <2>8, StepOf
  <1> QED
    BY <1>3, <1>4, <1>5 DEF Unmark

LEMMA EraseInv ==
    ASSUME IInv, NEW p \in Runtimes, EraseMarker(p)
    PROVE  Keeps(p)
  <1>1. PICK k \in Kinds : ShuttingAt(p, "erase", k)
    BY ShutdownReady DEF EraseMarker, ShutdownSteps
  <1>2. UNCHANGED signalled
    BY DEF EraseMarker
  <1>3. CASE /\ marker # Nothing /\ ShutdownEnds(p)
             /\ marker' = Nothing /\ stamp' = [stamp EXCEPT ![p] = Nothing] /\ UNCHANGED history
    <2>1. marker # "foreign"
      BY <1>1 DEF ShuttingAt, HandlerOf, FilesOf
    <2> QED
      BY <1>1, <1>2, <1>3, <2>1, ShutdownEndsInv
  <1>4. CASE marker = Nothing /\ ShutdownRaises(p) /\ UNCHANGED serviceVars
    BY <1>1, <1>2, <1>4, ShutdownRaisesInv
  <1> QED
    BY <1>3, <1>4 DEF EraseMarker

----------------------------------------------------------------------------
\* The outside, and the theorems

LEMMA OutsideInv ==
    ASSUME IInv, NEW p \in Runtimes, Signal(p) \/ Kill(p)
    PROVE  Keeps(p)
  <1>1. /\ TypeOK /\ ServerTypeOK /\ Alive(p) /\ UNCHANGED <<serviceVars, history>>
        /\ HandlerOf(p) /\ FilesOf(p) /\ ListenersOf(p) /\ SolitudeOf(p)
    BY DEF Signal, Kill, IInv, TypeOK
  <1>2. /\ signalled' \in [Runtimes -> BOOLEAN] /\ (signalled[p] => signalled'[p])
        /\ \A q \in Runtimes \ {p} : signalled'[q] = signalled[q]
    BY <1>1 DEF Signal, Kill, TypeOK
  <1> USE <1>1, <1>2 DEF serviceVars, history
  <1>3. CASE Die(p)
    <2>1. Moved(p, "killed", Kind(p), proc[p].inode)
      BY <1>3, GoMoves DEF Die, Steps
    <2>2. /\ ServerTypeOK' /\ Apart(p) /\ UNCHANGED <<endpoint, identity, adopted, stopping>>
          /\ \A j \in Kinds : listens'[<<p, j>>] = "closed"
      BY <1>3, CloseAllFacts DEF Die
    <2>3. /\ trap' \in [Runtimes -> Traps] /\ trap'[p].at = "none"
          /\ \A q \in Runtimes \ {p} : trap'[q] = trap[q]
      BY <1>3, ReturnedFacts DEF Die
    <2>4. TypeOK'
      BY <2>1, <2>2, <2>3 DEF TypeOK, Moved, Places, Traps
    <2>5. Beside(p) /\ HandlerOf(p)'
      BY <2>1, <2>2, <2>3 DEF Beside, Moved, HandlerOf, Trapped
    <2>6. FilesOf(p)'
      BY <2>1, <2>2 DEF FilesOf, Hurt, Swept, StartSteps, AbortSteps, ShutdownSteps, Moved, Ahead, Cleaned, Kind
    <2>7. ListenersOf(p)' /\ ~Alive(p)'
      BY <2>1, <2>2 DEF ListenersOf, Moved, Ahead, Opening, Alive, Kind, Normal, StartSteps
    <2> QED
      BY <2>4, <2>5, <2>6, <2>7, StepOf
  <1>4. CASE /\ proc[p].at # "boot" /\ UNCHANGED <<serverVars, proc>>
             /\ signalled' = [signalled EXCEPT ![p] = TRUE]
             /\ trap' = [trap EXCEPT ![p] = [at |-> "close", kind |-> "normal"]]
    <2>1. /\ trap' \in [Runtimes -> Traps] /\ trap'[p] = [at |-> "close", kind |-> "normal"]
          /\ \A q \in Runtimes \ {p} : trap'[q] = trap[q]
      BY <1>4 DEF TypeOK, Traps, ShutdownSteps
    <2>2. signalled'[p]
      BY <1>4 DEF TypeOK
    <2> USE <1>4 DEF serverVars
    <2>3. TypeOK'
      BY <2>1 DEF TypeOK, ServerTypeOK, Traps
    <2>4. Beside(p) /\ HandlerOf(p)'
      BY <2>1, <2>2 DEF Beside, Apart, HandlerOf, Passed, Alive
    <2>5. FilesOf(p)' /\ ListenersOf(p)'
      BY DEF FilesOf, Hurt, Swept, ListenersOf, Ahead, Cleaned, Opening, Alive, Kind, Normal
    <2>6. Alive(p)' /\ p \notin met => SeenBy(p)'
      BY <2>1, <2>2 DEF SolitudeOf, SeenBy, Trapped, Ahead, Kind
    <2> QED
      BY <2>3, <2>4, <2>5, <2>6, StepOf
  <1> QED
    BY <1>3, <1>4 DEF Signal, Kill

\* A launch beside somebody ends the solitude of both.
LEMMA LaunchInv ==
    ASSUME IInv, NEW p \in Runtimes, Launch(p)
    PROVE  IInv'
  <1> DEFINE others == {q \in Runtimes \ {p} : Alive(q)}
  <1>1. /\ UNCHANGED <<serverVars, serviceVars, trap, signalled, failed, torn, missed>>
        /\ proc[p].at = "absent" /\ TypeOK
        /\ met' = IF others = {} THEN met ELSE met \cup others \cup {p}
    BY DEF Launch, IInv
  <1>2. Moved(p, "boot", Kind(p), proc[p].inode)
    BY <1>1, GoMoves DEF Launch, Steps
  <1> USE DEF serverVars, serviceVars
  <1>3. TypeOK'
    BY <1>1, <1>2 DEF TypeOK, Moved, ServerTypeOK, Places
  <1>4. ASSUME NEW q \in Runtimes PROVE HandlerOf(q)' /\ FilesOf(q)' /\ ListenersOf(q)'
    <2>1. /\ HandlerOf(q) /\ FilesOf(q) /\ ListenersOf(q)
          /\ met \subseteq met' /\ (Hurt(q) => Hurt(q)')
      BY <1>1 DEF IInv, Hurt
    <2>2. CASE q = p
      <3>1. HandlerOf(q)' /\ ListenersOf(q)'
        BY <1>1, <1>2, <2>1, <2>2
           DEF Moved, HandlerOf, ListenersOf, Trapped, Alive, Ahead, Opening, Kind, Normal, StartSteps
      <3>2. FilesOf(q)'
        BY <1>1, <1>2, <2>1, <2>2
           DEF FilesOf, Swept, StartSteps, AbortSteps, ShutdownSteps, Moved, Ahead, Cleaned, Kind
      <3> QED
        BY <3>1, <3>2
    <2>3. CASE q # p
      <3>1. proc'[q] = proc[q]
        BY <1>2, <2>3 DEF Moved
      <3>2. HandlerOf(q)' /\ ListenersOf(q)'
        BY <1>1, <2>1, <3>1
           DEF HandlerOf, Passed, ListenersOf, Trapped, Alive, Ahead, Opening, Kind, Normal
      <3>3. FilesOf(q)'
        BY <1>1, <2>1, <3>1 DEF FilesOf, Swept, Ahead, Cleaned, Kind
      <3> QED
        BY <3>2, <3>3
    <2> QED
      BY <2>2, <2>3
  <1>5. ASSUME NEW q \in Runtimes PROVE SolitudeOf(q)'
    <2>1. \A r \in Runtimes \ {p} : Alive(r)' <=> Alive(r)
      BY <1>2 DEF Moved, Alive
    <2>2. CASE q = p
      <3>0. trap[p].at = "none"
        BY <1>1 DEF IInv, HandlerOf, Trapped, Alive
      <3>1. SeenBy(p)'
        BY <1>1, <1>2, <3>0 DEF SeenBy, Moved, Ahead, Kind
      <3> QED
        BY <1>1, <2>1, <2>2, <3>1 DEF SolitudeOf
    <2>3. CASE q # p
      BY <1>1, <2>1, <2>3 DEF SolitudeOf, Alive
    <2> QED
      BY <2>2, <2>3
  <1>6. StartsAfterCrash'
    <2>1. met \subseteq met' /\ StartsAfterCrash
      BY <1>1 DEF IInv
    <2> QED
      BY <1>1, <2>1 DEF StartsAfterCrash
  <1> QED
    BY <1>3, <1>4, <1>5, <1>6 DEF IInv

LEMMA InitInv ==
    ASSUME Init
    PROVE  IInv
  <1> USE DEF Init, ServerInit, Absence, NoTrap
  <1>1. TypeOK
    BY DEF TypeOK, ServerTypeOK, Servers, Steps
  <1>2. ASSUME NEW p \in Runtimes
        PROVE  /\ ~Alive(p) /\ ~Trapped(p)
               /\ HandlerOf(p) /\ FilesOf(p) /\ ListenersOf(p) /\ SolitudeOf(p)
    <2>1. /\ proc[p].at = "absent" /\ proc[p].kind = "normal" /\ stamp[p] = Nothing /\ ~Trapped(p)
          /\ p \notin torn /\ p \notin missed
      BY DEF Trapped
    <2>2. \A k \in Kinds : /\ endpoint[k] # p /\ identity[<<p, k>>] = Nothing
                           /\ listens[<<p, k>>] = "closed" /\ ~adopted[<<p, k>>]
      BY DEF Servers
    <2> QED
      BY <2>1, <2>2 DEF HandlerOf, FilesOf, Hurt, Swept, ListenersOf, SolitudeOf, Alive, Ahead,
                        Cleaned, Opening, Kind, StartSteps
  <1> QED
    BY <1>1, <1>2 DEF IInv, StartsAfterCrash

\* Every step but a launch is one of a runtime that lives, and keeps to its own.
LEMMA StepInv ==
    ASSUME IInv, [Next]_vars
    PROVE  /\ IInv'
           /\ (\E p \in Runtimes : Beside(p)) \/ UNCHANGED <<marker, endpoint>>
  <1>1. ASSUME NEW p \in Runtimes, Run(p) \/ ServeFails(p) \/ Signal(p) \/ Kill(p) PROVE Keeps(p)
    BY <1>1, BootInv, ProbeInv, UnlinkInv, BindInv, ListenInv, AdoptInv, RecoverInv, DiscardInv,
       CreateInv, FillInv, ServeInv, AbortCloseInv, AbortCleanInv, AbortRemoveInv, CloseStepInv,
       CleanStepInv, RemoveStepInv, UnmarkInv, EraseInv, OutsideInv
       DEF Run, Start, Abort, Shutdown
  <1>2. ASSUME NEW p \in Runtimes, Launch(p) PROVE IInv' /\ UNCHANGED <<marker, endpoint>>
    BY <1>2, LaunchInv DEF Launch, serviceVars, serverVars
  <1>3. CASE UNCHANGED vars
    BY <1>3 DEF vars, serverVars, serviceVars, history, IInv, TypeOK, ServerTypeOK, HandlerOf,
                FilesOf, Hurt, Swept, ListenersOf, SolitudeOf, SeenBy, StartsAfterCrash, Trapped,
                Alive, Ahead, Cleaned, Passed, Opening, Kind, Normal
  <1> QED
    BY <1>1, <1>2, <1>3 DEF Next, Keeps

\* What each runtime has on disk and in the kernel at every point of main and of
\* its signal handler, for any number of launches.
THEOREM RuntimeInvariance == Spec => []IInv
  <1>1. Init => IInv
    BY InitInv
  <1>2. IInv /\ [Next]_vars => IInv'
    BY StepInv
  <1> QED
    BY <1>1, <1>2, PTL DEF Spec

\* runtime_service.py, shutdown: a runtime that ends by itself leaves no file of
\* its own, but for a marker it could not write, unless another runtime took a
\* file from under its shutdown.
THEOREM NothingIsLeft == Spec => []LeavesNothing
  <1>1. IInv => LeavesNothing
    BY DEF IInv, FilesOf, LeavesNothing
  <1> QED
    BY <1>1, RuntimeInvariance, PTL

\* ipc.py, _recover_stale_endpoint, and _recover_stale_readiness: what a killed
\* runtime left never stops the next one.
THEOREM CrashesAreRecovered == Spec => []StartsAfterCrash
  <1>1. IInv => StartsAfterCrash
    BY DEF IInv
  <1> QED
    BY <1>1, RuntimeInvariance, PTL

\* inspect_runtime_lifecycle: marker, process and socket belong together.
THEOREM ReportIsCorrect == Spec => []ReportIsTrue
  <1>1. ASSUME IInv PROVE ReportIsTrue
    <2> SUFFICES ASSUME NEW m \in Runtimes, m = marker, Alive(m), endpoint["normal"] \in Runtimes,
                        m \notin met
                 PROVE  /\ endpoint["normal"] = m
                        /\ listens[Normal(m)] = "listening" \/ stopping[Normal(m)]
      BY DEF ReportIsTrue, ReportedRunning
    <2>1. FilesOf(m) /\ ListenersOf(m) /\ SolitudeOf(m)
      BY <1>1 DEF IInv
    <2>2. /\ stamp[m] = m \/ proc[m].at = "stamp" \/ m \in torn
          /\ proc[m].at \in {"stamp", "serve"} \cup AbortSteps \cup ShutdownSteps
      BY <2>1 DEF FilesOf, Alive
    <2>3. endpoint["normal"] = m
      BY <2>1, <2>2 DEF SolitudeOf, SeenBy, Ahead, AbortSteps, ShutdownSteps
    <2>4. listens[Normal(m)] = "listening" \/ stopping[Normal(m)]
      BY <2>1, <2>2 DEF ListenersOf, Normal, Opening, AbortSteps, ShutdownSteps
    <2> QED
      BY <2>3, <2>4
  <1> QED
    BY <1>1, RuntimeInvariance, PTL

\* ipc.py and runtime_service.py: what is no socket and no marker of this user
\* stays where it is.
THEOREM ForeignFilesKept == Spec => ForeignFilesStay
  <1>1. IInv /\ [Next]_vars =>
           [/\ marker = "foreign" => marker' = marker
            /\ \A k \in Kinds : endpoint[k] = "foreign" => endpoint'[k] = "foreign"]_vars
    BY StepInv DEF Beside
  <1> QED
    BY <1>1, RuntimeInvariance, PTL DEF Spec, ForeignFilesStay

=============================================================================
