---------------------------- MODULE RuntimeService ----------------------------
(***************************************************************************)
(* JLRuntimeService and main of runtime_service.py: several launches of    *)
(* the foreground runtime over one runtime directory, with its two socket  *)
(* endpoints (UnixServer) and its readiness marker.                        *)
(*                                                                         *)
(* main starts both servers, writes the marker and serves; whatever way    *)
(* it ends, it calls shutdown.  The handler of SIGTERM and SIGINT calls    *)
(* shutdown too: it interrupts main between any two steps, also in the     *)
(* middle of start, and main then goes on where it was.  A shutdown that   *)
(* goes to unlink a file somebody else has unlinked meanwhile raises: in   *)
(* main that ends the process, in the handler it surfaces in main, where   *)
(* the signal interrupted it.  A runtime may be killed at any time; its    *)
(* files stay.                                                             *)
(***************************************************************************)
EXTENDS UnixServer

VARIABLES marker,      \* the readiness file: the runtime it names
          stamp,       \* _readiness_identity
          proc,        \* where main is
          trap,        \* where the signal handler is
          signalled,   \* bound: one signal for each runtime
          failed,      \* history: runtimes whose start raised
          met,         \* history: runtimes that lived beside another one
          torn,        \* history: runtimes that created the marker but not its content
          missed       \* history: runtimes whose shutdown went to unlink a missing file

serviceVars == <<marker, stamp>>
history     == <<failed, met, torn, missed>>
vars == <<serverVars, serviceVars, proc, trap, signalled, history>>

StartSteps    == {"probe", "unlink", "bind", "listen", "adopt", "recover", "discard", "mark",
                  "stamp"}
AbortSteps    == {"abort_close", "abort_clean", "abort_remove"}
ShutdownSteps == {"close", "clean", "remove", "unmark", "erase"}
Steps == {"absent", "boot", "serve", "gone", "killed"}
            \cup StartSteps \cup AbortSteps \cup ShutdownSteps

Absence == [at |-> "absent", kind |-> "normal", inode |-> Nothing]
NoTrap  == [at |-> "none", kind |-> "normal"]

TypeOK ==
    /\ ServerTypeOK
    /\ marker \in Runtimes \cup {"foreign", Nothing}
    /\ stamp \in [Runtimes -> Runtimes \cup {Nothing}]
    /\ proc \in [Runtimes -> [at : Steps, kind : Kinds, inode : Runtimes \cup {Nothing}]]
    /\ trap \in [Runtimes -> [at : ShutdownSteps \cup {"none"}, kind : Kinds]]
    /\ signalled \in [Runtimes -> BOOLEAN]
    /\ failed \subseteq Runtimes /\ met \subseteq Runtimes
    /\ torn \subseteq Runtimes /\ missed \subseteq Runtimes

Init ==
    /\ ServerInit
    /\ marker \in {"foreign", Nothing}
    /\ stamp = [p \in Runtimes |-> Nothing]
    /\ proc = [p \in Runtimes |-> Absence]
    /\ trap = [p \in Runtimes |-> NoTrap]
    /\ signalled = [p \in Runtimes |-> FALSE]
    /\ failed = {} /\ met = {} /\ torn = {} /\ missed = {}

Alive(p)   == proc[p].at \notin {"absent", "gone", "killed"}
Trapped(p) == trap[p].at # "none"

\* main is about to take this step, and the handler is not in its way.
At(p, step) == proc[p].at = step /\ ~Trapped(p)

Kind(p) == proc[p].kind

GoTo(p, step, k) == proc' = [proc EXCEPT ![p].at = step, ![p].kind = k]

Go(p, step) == proc' = [proc EXCEPT ![p].at = step]

----------------------------------------------------------------------------
\* A launch.  Until the handlers are registered a signal kills the process.

Launch(p) ==
    /\ proc[p].at = "absent" /\ Go(p, "boot")
    /\ LET others == {q \in Runtimes \ {p} : Alive(q)}
       IN  met' = IF others = {} THEN met ELSE met \cup others \cup {p}
    /\ UNCHANGED <<serverVars, serviceVars, trap, signalled, failed, torn, missed>>

Boot(p) ==
    /\ At(p, "boot") /\ GoTo(p, "probe", "normal")
    /\ UNCHANGED <<serverVars, serviceVars, trap, signalled, history>>

\* start raises.  If the first server did, main's finally is all that cleans
\* up; otherwise start itself shuts down what it has started.
Fail(p) ==
    /\ IF Kind(p) = "normal" THEN GoTo(p, "close", "normal")
       ELSE GoTo(p, "abort_close", "consent")
    /\ failed' = failed \cup {p}

Raise(p) == Fail(p) /\ UNCHANGED <<met, torn, missed>>

Probe(p) ==
    /\ At(p, "probe")
    /\ \/ Absent(Kind(p)) /\ Go(p, "bind") /\ UNCHANGED history
       \/ Refuses(Kind(p)) /\ Go(p, "unlink") /\ UNCHANGED history
       \/ ~Absent(Kind(p)) /\ ~Refuses(Kind(p)) /\ Raise(p)
    /\ UNCHANGED <<serverVars, serviceVars, trap, signalled>>

Unlink(p) ==
    /\ At(p, "unlink")
    /\ \/ UnlinkStale(Kind(p)) /\ Go(p, "bind") /\ UNCHANGED history
       \/ Absent(Kind(p)) /\ Raise(p) /\ UNCHANGED serverVars
    /\ UNCHANGED <<serviceVars, trap, signalled>>

Bind(p) ==
    /\ At(p, "bind")
    /\ \/ BindEndpoint(p, Kind(p)) /\ Go(p, "listen") /\ UNCHANGED history
       \/ ~Absent(Kind(p)) /\ Raise(p) /\ UNCHANGED serverVars
    /\ UNCHANGED <<serviceVars, trap, signalled>>

Listen(p) ==
    /\ At(p, "listen")
    /\ \/ /\ ListenOn(p, Kind(p))
          /\ proc' = [proc EXCEPT ![p].at = "adopt", ![p].inode = endpoint[Kind(p)]]
          /\ UNCHANGED history
       \/ ListenFails(p, Kind(p)) /\ Raise(p)
    /\ UNCHANGED <<serviceVars, trap, signalled>>

\* The server is up; the consent server's thread starts at once.
AdoptListener(p) ==
    /\ At(p, "adopt") /\ Adopt(p, Kind(p), proc[p].inode)
    /\ IF Kind(p) = "normal" THEN GoTo(p, "probe", "consent") ELSE Go(p, "recover")
    /\ UNCHANGED <<serviceVars, trap, signalled, history>>

\* Mutant: an old marker is left for the exclusive create to trip over.
RecoverMarkerNever(p) ==
    /\ At(p, "recover") /\ Go(p, "mark")
    /\ UNCHANGED <<serverVars, serviceVars, trap, signalled, history>>

\* _recover_stale_readiness: whoever wrote the marker, it is stale.
RecoverMarker(p) ==
    /\ At(p, "recover")
    /\ \/ marker = Nothing /\ Go(p, "mark") /\ UNCHANGED history
       \/ marker \in Runtimes /\ Go(p, "discard") /\ UNCHANGED history
       \/ marker = "foreign" /\ Raise(p)
    /\ UNCHANGED <<serverVars, serviceVars, trap, signalled>>

DiscardMarker(p) ==
    /\ At(p, "discard")
    /\ IF marker # Nothing THEN Go(p, "mark") /\ marker' = Nothing /\ UNCHANGED history
       ELSE Raise(p) /\ UNCHANGED marker
    /\ UNCHANGED <<serverVars, stamp, trap, signalled>>

\* _write_readiness creates the file exclusively ...
CreateMarker(p) ==
    /\ At(p, "mark")
    /\ IF marker = Nothing THEN Go(p, "stamp") /\ marker' = p /\ UNCHANGED history
       ELSE Raise(p) /\ UNCHANGED marker
    /\ UNCHANGED <<serverVars, stamp, trap, signalled>>

\* ... writes it, and only then learns its inode: a write or an fsync that
\* fails leaves a file nobody knows, and the path may have changed hands.
FillMarker(p) ==
    /\ At(p, "stamp")
    /\ \/ /\ marker # Nothing /\ Go(p, "serve")
          /\ stamp' = [stamp EXCEPT ![p] = marker]
          /\ UNCHANGED history
       \/ marker = Nothing /\ Raise(p) /\ UNCHANGED stamp
       \/ /\ Fail(p) /\ torn' = torn \cup {p}
          /\ UNCHANGED <<stamp, met, missed>>
    /\ UNCHANGED <<serverVars, marker, trap, signalled>>

Normal(p) == <<p, "normal">>

\* Mutant: serve_forever carries on after an OSError.
ServeEndsRetrying(p) ==
    /\ At(p, "serve") /\ ~adopted[Normal(p)] /\ ~stopping[Normal(p)]
    /\ GoTo(p, "close", "normal")
    /\ UNCHANGED <<serverVars, serviceVars, trap, signalled, history>>

\* serve_forever ends when it is told to stop, or has no listener to begin with.
ServeEnds(p) ==
    /\ At(p, "serve") /\ (stopping[Normal(p)] \/ ~adopted[Normal(p)])
    /\ GoTo(p, "close", "normal")
    /\ UNCHANGED <<serverVars, serviceVars, trap, signalled, history>>

\* An accept that fails while nobody has told it to stop ends it too.
ServeFails(p) ==
    /\ At(p, "serve") /\ GoTo(p, "close", "normal")
    /\ UNCHANGED <<serverVars, serviceVars, trap, signalled, history>>

\* start's own cleaning up: the consent server first.
AbortClose(p) ==
    /\ At(p, "abort_close") /\ CloseServer(p, Kind(p))
    /\ Go(p, "abort_clean")
    /\ UNCHANGED <<serviceVars, trap, signalled, history>>

NextAbort(p) ==
    IF Kind(p) = "consent" THEN GoTo(p, "abort_close", "normal") ELSE GoTo(p, "close", "normal")

AbortClean(p) ==
    /\ At(p, "abort_clean")
    /\ \/ Owned(p, Kind(p)) /\ Go(p, "abort_remove") /\ UNCHANGED serverVars
       \/ LeaveEndpoint(p, Kind(p)) /\ NextAbort(p)
    /\ UNCHANGED <<serviceVars, trap, signalled, history>>

\* The file is gone: this cleaning up raises too, and main's is all that is left.
AbortRemove(p) ==
    /\ At(p, "abort_remove")
    /\ \/ UnlinkOwned(p, Kind(p)) /\ NextAbort(p) /\ UNCHANGED missed
       \/ /\ Absent(Kind(p)) /\ GoTo(p, "close", "normal")
          /\ missed' = missed \cup {p} /\ UNCHANGED serverVars
    /\ UNCHANGED <<serviceVars, trap, signalled, failed, met, torn>>

----------------------------------------------------------------------------
\* shutdown, called by main or by the signal handler.  Stopping automation and
\* voice and joining the consent thread change no file.

Shutting(p) == IF Trapped(p) THEN [at |-> trap[p].at, kind |-> trap[p].kind]
               ELSE [at |-> proc[p].at, kind |-> proc[p].kind]

Proceed(p, step, k) ==
    IF Trapped(p) THEN trap' = [trap EXCEPT ![p] = [at |-> step, kind |-> k]] /\ UNCHANGED proc
    ELSE GoTo(p, step, k) /\ UNCHANGED trap

CloseStep(p) ==
    /\ Shutting(p).at = "close" /\ CloseServer(p, Shutting(p).kind)
    /\ Proceed(p, "clean", Shutting(p).kind)
    /\ UNCHANGED <<serviceVars, signalled, history>>

NextStep(k) == IF k = "normal" THEN "close" ELSE "unmark"

\* Mutant: the consent server's endpoint is forgotten.
CleanStepNormalOnly(p) ==
    /\ Shutting(p).at = "clean"
    /\ LET k == Shutting(p).kind
       IN  \/ /\ k = "normal" /\ Owned(p, k) /\ Proceed(p, "remove", k)
              /\ UNCHANGED serverVars
           \/ /\ k = "normal" /\ LeaveEndpoint(p, k) /\ Proceed(p, NextStep(k), "consent")
           \/ k = "consent" /\ Proceed(p, "unmark", "consent") /\ UNCHANGED serverVars
    /\ UNCHANGED <<serviceVars, signalled, history>>

CleanStep(p) ==
    /\ Shutting(p).at = "clean"
    /\ LET k == Shutting(p).kind
       IN  \/ Owned(p, k) /\ Proceed(p, "remove", k) /\ UNCHANGED serverVars
           \/ LeaveEndpoint(p, k) /\ Proceed(p, NextStep(k), "consent")
    /\ UNCHANGED <<serviceVars, signalled, history>>

Ends(p) == Go(p, "gone") /\ CloseAll(p)

Returned(p) == trap' = [trap EXCEPT ![p] = NoTrap]

\* The exception of a handler surfaces in main ...
Interrupted(p) ==
    \/ /\ proc[p].at \in StartSteps /\ Fail(p)
       /\ torn' = IF proc[p].at = "stamp" THEN torn \cup {p} ELSE torn
       /\ \/ proc[p].at \notin {"listen", "adopt"} /\ UNCHANGED serverVars
          \/ proc[p].at = "listen" /\ AbandonListener(p, Kind(p), Nothing)
          \/ proc[p].at = "adopt" /\ AbandonListener(p, Kind(p), proc[p].inode)
    \/ /\ proc[p].at \in {"serve"} \cup AbortSteps /\ GoTo(p, "close", "normal")
       /\ UNCHANGED <<serverVars, failed, torn>>
    \/ proc[p].at \in ShutdownSteps /\ Ends(p) /\ UNCHANGED <<failed, torn>>

\* ... or is caught there: where main looks at a file it passes for a missing
\* one, and while the automation is stopped it is kept for later.
Caught(p) ==
    /\ \/ proc[p].at = "probe" /\ Go(p, "bind") /\ UNCHANGED serverVars
       \/ /\ proc[p].at = "probe" /\ endpoint[Kind(p)] # "foreign" /\ Go(p, "unlink")
          /\ UNCHANGED serverVars
       \/ proc[p].at = "recover" /\ Go(p, "mark") /\ UNCHANGED serverVars
       \/ /\ proc[p].at = "abort_clean" /\ NextAbort(p)
          /\ Forgotten(p, Kind(p)) /\ UNCHANGED <<endpoint, listens, adopted, stopping>>
       \/ /\ proc[p].at = "clean" /\ GoTo(p, NextStep(Kind(p)), "consent")
          /\ Forgotten(p, Kind(p)) /\ UNCHANGED <<endpoint, listens, adopted, stopping>>
       \/ proc[p].at = "unmark" /\ Ends(p)
       \/ proc[p].at = "close" /\ Kind(p) = "normal" /\ UNCHANGED <<serverVars, proc>>
    /\ UNCHANGED <<failed, torn>>

\* shutdown raises: what it had still to do stays undone.
ShutdownRaises(p) ==
    /\ missed' = missed \cup {p} /\ UNCHANGED met
    /\ IF Trapped(p) THEN Returned(p) /\ (Interrupted(p) \/ Caught(p))
       ELSE Ends(p) /\ UNCHANGED <<trap, failed, torn>>

RemoveStep(p) ==
    /\ Shutting(p).at = "remove"
    /\ LET k == Shutting(p).kind
       IN  \/ /\ UnlinkOwned(p, k) /\ Proceed(p, NextStep(k), "consent")
              /\ UNCHANGED history
           \/ Absent(k) /\ ShutdownRaises(p)
    /\ UNCHANGED <<serviceVars, signalled>>

\* The handler returns to main, and main ends.
ShutdownEnds(p) ==
    IF Trapped(p) THEN Returned(p) /\ UNCHANGED <<serverVars, proc>>
    ELSE Ends(p) /\ UNCHANGED trap

\* _remove_readiness
Unmark(p) ==
    /\ Shutting(p).at = "unmark"
    /\ \/ marker = Nothing /\ ShutdownEnds(p) /\ UNCHANGED stamp
       \/ /\ marker # Nothing /\ marker = stamp[p]
          /\ Proceed(p, "erase", "consent") /\ UNCHANGED <<serverVars, stamp>>
       \/ /\ marker # Nothing /\ marker # stamp[p] /\ ShutdownEnds(p)
          /\ stamp' = [stamp EXCEPT ![p] = Nothing]
    /\ UNCHANGED <<marker, signalled, history>>

EraseMarker(p) ==
    /\ Shutting(p).at = "erase"
    /\ \/ /\ marker # Nothing /\ ShutdownEnds(p)
          /\ marker' = Nothing /\ stamp' = [stamp EXCEPT ![p] = Nothing]
          /\ UNCHANGED history
       \/ marker = Nothing /\ ShutdownRaises(p) /\ UNCHANGED serviceVars
    /\ UNCHANGED signalled

----------------------------------------------------------------------------
\* The outside

Die(p) ==
    Go(p, "killed") /\ Returned(p) /\ CloseAll(p)

\* SIGTERM or SIGINT
Signal(p) ==
    /\ Alive(p) /\ ~signalled[p]
    /\ signalled' = [signalled EXCEPT ![p] = TRUE]
    /\ IF proc[p].at = "boot" THEN Die(p)
       ELSE /\ trap' = [trap EXCEPT ![p] = [at |-> "close", kind |-> "normal"]]
            /\ UNCHANGED <<serverVars, proc>>
    /\ UNCHANGED <<serviceVars, history>>

Kill(p) ==
    /\ Alive(p) /\ Die(p)
    /\ UNCHANGED <<serviceVars, signalled, history>>

Start(p) ==
    \/ Boot(p) \/ Probe(p) \/ Unlink(p) \/ Bind(p) \/ Listen(p) \/ AdoptListener(p)
    \/ RecoverMarker(p) \/ DiscardMarker(p) \/ CreateMarker(p) \/ FillMarker(p)

Abort(p) == AbortClose(p) \/ AbortClean(p) \/ AbortRemove(p)

Shutdown(p) == CloseStep(p) \/ CleanStep(p) \/ RemoveStep(p) \/ Unmark(p) \/ EraseMarker(p)

Run(p) == Start(p) \/ ServeEnds(p) \/ Abort(p) \/ Shutdown(p)

Next == \E p \in Runtimes : Launch(p) \/ Run(p) \/ ServeFails(p) \/ Signal(p) \/ Kill(p)

Spec == Init /\ [][Next]_vars

\* A process that can go on does; nothing makes anybody launch, signal or kill,
\* or an accept fail.
Fairness == \A p \in Runtimes : WF_vars(Run(p))

----------------------------------------------------------------------------
\* inspect_runtime_lifecycle

\* Mutant: the process the marker names is not looked for.
ReportedRunningBlind == marker \in Runtimes /\ endpoint["normal"] \in Runtimes

\* "foreground JL runtime marker and socket are present"
ReportedRunning ==
    marker \in Runtimes /\ Alive(marker) /\ endpoint["normal"] \in Runtimes

----------------------------------------------------------------------------
\* The inductive invariant: what each runtime has on disk and in the kernel at
\* every point of main, wherever the handler interrupts it.

\* main has yet to bind this endpoint, or has cleaned it up for good.
Ahead(p, k) ==
    \/ proc[p].at \in {"absent", "boot"}
    \/ proc[p].at \in {"probe", "unlink", "bind"} /\ Kind(p) \in {"normal", k}
    \/ proc[p].at \in {"listen", "adopt"} /\ Kind(p) = "normal" /\ k = "consent"

Cleaned(p, k) ==
    \/ proc[p].at \in {"close", "clean", "remove"} /\ Kind(p) = "consent" /\ k = "normal"
    \/ proc[p].at \in {"unmark", "erase", "gone"}

Opening(p, k) == proc[p].at \in {"listen", "adopt"} /\ Kind(p) = k

\* The handler is done with this server.
Passed(p, k) ==
    \/ trap[p].at \in {"close", "clean", "remove"} /\ trap[p].kind = "consent" /\ k = "normal"
    \/ trap[p].at \in {"unmark", "erase"}

\* The handler runs only in a process whose main is past the boot, and leaves
\* nothing behind it.
HandlerOf(p) ==
    Trapped(p) =>
        /\ Alive(p) /\ proc[p].at # "boot" /\ signalled[p]
        /\ \A k \in Kinds : Passed(p, k) => endpoint[k] # p
        /\ trap[p].at = "remove" => endpoint[trap[p].kind] # "foreign"
        /\ trap[p].at = "erase" => marker # "foreign"

\* Beside another runtime, the shutdown did not get to all it had to do.
Hurt(p) == p \in missed /\ p \in met

Swept(p) == (marker = p => p \in torn) /\ \A k \in Kinds : endpoint[k] # p

\* The files a runtime owns are those its shutdown will find to be its own.
FilesOf(p) ==
    /\ \A k \in Kinds :
        /\ Ahead(p, k) => endpoint[k] # p /\ identity[<<p, k>>] = Nothing
        /\ Cleaned(p, k) /\ ~Hurt(p) => endpoint[k] # p
        /\ endpoint[k] = p => identity[<<p, k>>] \in {Nothing, p}
        /\ endpoint[k] = p /\ proc[p].at = "adopt" /\ Kind(p) = k => proc[p].inode = p
        /\ proc[p].at \in {"unlink", "listen", "remove", "abort_remove"} /\ Kind(p) = k
              => endpoint[k] # "foreign"
    /\ proc[p].at \in {"discard", "stamp", "erase"} => marker # "foreign"
    /\ marker = p => stamp[p] = p \/ proc[p].at \in {"stamp", "killed"} \/ p \in torn
    /\ stamp[p] # Nothing => proc[p].at \in {"serve", "gone", "killed"} \cup ShutdownSteps
    /\ p \in torn => proc[p].at \in {"gone", "killed"} \cup AbortSteps \cup ShutdownSteps
    /\ proc[p].at = "gone" /\ ~Hurt(p) => Swept(p)

\* A server knows its listener, but for the moment before it adopts it.
ListenersOf(p) ==
    /\ \A k \in Kinds :
        LET s == <<p, k>> IN
        /\ ~Alive(p) => listens[s] = "closed"
        /\ Ahead(p, k) => listens[s] = "closed" /\ ~adopted[s]
        /\ Opening(p, k) =>
              ~adopted[s] /\ listens[s] = IF proc[p].at = "listen" THEN "bound" ELSE "listening"
        /\ Alive(p) /\ ~Opening(p, k) =>
              listens[s] # "bound" /\ (adopted[s] <=> listens[s] = "listening")
    /\ \/ stamp[p] # Nothing \/ p \in torn \/ proc[p].at \in {"recover", "discard", "mark", "stamp"}
       \/ proc[p].at \in StartSteps /\ Kind(p) = "consent"
       => adopted[Normal(p)] \/ stopping[Normal(p)]

\* What main saw at a path or found of the marker is still there, unless its
\* own handler cleaned up, and the handler misses nothing.
SeenBy(p) ==
    /\ proc[p].at = "unlink" => endpoint[Kind(p)] # Nothing \/ signalled[p]
    /\ proc[p].at = "bind" => endpoint[Kind(p)] = Nothing
    /\ proc[p].at = "listen" => endpoint[Kind(p)] # Nothing \/ signalled[p]
    /\ proc[p].at = "discard" => marker # Nothing \/ signalled[p]
    /\ proc[p].at = "mark" => marker = Nothing
    /\ proc[p].at = "stamp" => marker # Nothing \/ signalled[p]
    /\ proc[p].at = "remove" /\ ~Trapped(p) => endpoint[Kind(p)] # Nothing \/ Swept(p)
    /\ trap[p].at = "remove" => endpoint[trap[p].kind] # Nothing
    /\ trap[p].at = "erase" => marker # Nothing
    /\ Ahead(p, "normal") \/ endpoint["normal"] \in {p, "foreign", Nothing}

\* Beside a runtime that never met another one nobody lives.
SolitudeOf(p) ==
    Alive(p) /\ p \notin met => SeenBy(p) /\ \A q \in Runtimes \ {p} : ~Alive(q)

----------------------------------------------------------------------------
\* Properties

\* What is no socket and no marker of this user is never touched, by no order
\* of starts, failures, signals and crashes.
ForeignFilesStay ==
    [][/\ marker = "foreign" => marker' = marker
       /\ \A k \in Kinds : endpoint[k] = "foreign" => endpoint'[k] = "foreign"]_vars

\* A runtime that ends by itself, normally, after a failed start or after a
\* signal at any moment, leaves none of its files - also when another runtime
\* works on the same paths, unless that one unlinked a file the shutdown was
\* just going to unlink.  A marker it failed to write it never knew.
LeavesNothing == \A p \in Runtimes : proc[p].at = "gone" /\ ~Hurt(p) => Swept(p)

\* Whatever the runtimes before it left behind, one that is alone starts,
\* unless a foreign file is in its way, its marker cannot be written or it is
\* told to stop meanwhile.
StartsAfterCrash ==
    \A p \in failed :
        \/ signalled[p] \/ p \in met \/ p \in torn
        \/ marker = "foreign" \/ \E k \in Kinds : endpoint[k] = "foreign"

\* A report of a running runtime is true: the process it names has the socket,
\* and listens unless it is just shutting down (runtimes that share the
\* directory with another one excepted).
ReportIsTrue ==
    ReportedRunning =>
        \/ marker \in met
        \/ /\ endpoint["normal"] = marker
           /\ listens[Normal(marker)] = "listening" \/ stopping[Normal(marker)]

\* All of it together.
IInv ==
    /\ TypeOK
    /\ \A p \in Runtimes : HandlerOf(p) /\ FilesOf(p) /\ ListenersOf(p) /\ SolitudeOf(p)
    /\ StartsAfterCrash

\* A serving runtime that gets a signal ends.
StopsWhenServing ==
    \A p \in Runtimes : (Trapped(p) /\ proc[p].at = "serve") ~> ~Alive(p)

\* "Shutdown closes the listener and removes only the socket inode created by
\* that server instance" (docs/PHASE3A_REPORT.md): the shutdown of a runtime
\* whose start was refused leaves the socket another one listens on.
ShutdownRemovesOwn ==
    [][\A p \in failed, q \in Runtimes, k \in Kinds :
        /\ RemoveStep(p) \/ AbortRemove(p)
        /\ q # p /\ endpoint[k] = q /\ listens[<<q, k>>] = "listening"
        => endpoint'[k] = q]_vars

=============================================================================
