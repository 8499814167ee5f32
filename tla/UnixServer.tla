------------------------------ MODULE UnixServer ------------------------------
(***************************************************************************)
(* UnixSocketServer of control/ipc.py: how the servers of several runtime  *)
(* processes share an endpoint path.  A server binds once, so the inode    *)
(* its bind creates is named by its process; "foreign" is a file at the    *)
(* path that is no socket of this user.                                    *)
(*                                                                         *)
(* A call that looks at the path and a later one that changes it are steps *)
(* of their own.  Merged are an lstat and the connect or chmod after it,   *)
(* which fails like the lstat would when the file is gone by then.         *)
(***************************************************************************)
CONSTANTS Runtimes,     \* launches of the runtime, one process each
          Kinds,        \* its servers: "normal" and "consent"
          Nothing

ASSUME UnixServerAssumption ==
    /\ Nothing \notin Runtimes /\ "foreign" \notin Runtimes /\ Nothing # "foreign"
    /\ Kinds = {"normal", "consent"}

VARIABLES endpoint,     \* the file at each path
          listens,      \* the kernel's state of each listener
          adopted,      \* _socket is set
          identity,     \* _socket_identity
          stopping      \* _stop is set

serverVars == <<endpoint, listens, adopted, identity, stopping>>

Servers == Runtimes \X Kinds

ServerTypeOK ==
    /\ endpoint \in [Kinds -> Runtimes \cup {"foreign", Nothing}]
    /\ listens \in [Servers -> {"closed", "bound", "listening"}]
    /\ adopted \in [Servers -> BOOLEAN]
    /\ identity \in [Servers -> Runtimes \cup {Nothing}]
    /\ stopping \in [Servers -> BOOLEAN]

\* A path is free or taken by a file of somebody else.
ServerInit ==
    /\ endpoint \in [Kinds -> {"foreign", Nothing}]
    /\ listens = [s \in Servers |-> "closed"]
    /\ adopted = [s \in Servers |-> FALSE]
    /\ identity = [s \in Servers |-> Nothing]
    /\ stopping = [s \in Servers |-> FALSE]

Put(k, file) == endpoint' = [endpoint EXCEPT ![k] = file]

SetListener(s, state) == listens' = [listens EXCEPT ![s] = state]

----------------------------------------------------------------------------
\* start, in the order of its system calls

\* _recover_stale_endpoint: nothing there, a socket nobody listens on, or a
\* reason to refuse.
Absent(k) == endpoint[k] = Nothing

\* Mutant: a file that is no socket counts as stale.
RefusesForeign(k) ==
    \/ endpoint[k] = "foreign"
    \/ endpoint[k] \in Runtimes /\ listens[<<endpoint[k], k>>] # "listening"

Refuses(k) == endpoint[k] \in Runtimes /\ listens[<<endpoint[k], k>>] # "listening"

\* The unlink removes what is at the path by now.
UnlinkStale(k) ==
    /\ ~Absent(k) /\ Put(k, Nothing)
    /\ UNCHANGED <<listens, adopted, identity, stopping>>

BindEndpoint(p, k) ==
    /\ Absent(k) /\ Put(k, p)
    /\ SetListener(<<p, k>>, "bound")
    /\ UNCHANGED <<adopted, identity, stopping>>

\* lstat after bind finds an inode, normally the own one.
ListenOn(p, k) ==
    /\ ~Absent(k) /\ SetListener(<<p, k>>, "listening")
    /\ UNCHANGED <<endpoint, adopted, identity, stopping>>

\* lstat finds nothing any more: the listener is closed again.
ListenFails(p, k) ==
    /\ Absent(k) /\ SetListener(<<p, k>>, "closed")
    /\ UNCHANGED <<endpoint, adopted, identity, stopping>>

\* Only now does the server know its listener and the inode; _stop is cleared.
Adopt(p, k, inode) ==
    /\ adopted' = [adopted EXCEPT ![<<p, k>>] = TRUE]
    /\ identity' = [identity EXCEPT ![<<p, k>>] = inode]
    /\ stopping' = [stopping EXCEPT ![<<p, k>>] = FALSE]
    /\ UNCHANGED <<endpoint, listens>>

----------------------------------------------------------------------------
\* shutdown

\* _stop.set, and the listener is closed if the server knows it.
CloseServer(p, k) ==
    /\ stopping' = [stopping EXCEPT ![<<p, k>>] = TRUE]
    /\ adopted' = [adopted EXCEPT ![<<p, k>>] = FALSE]
    /\ IF adopted[<<p, k>>] THEN SetListener(<<p, k>>, "closed") ELSE UNCHANGED listens
    /\ UNCHANGED <<endpoint, identity>>

\* _unlink_owned_socket: any socket of this user if the identity is None.
Owned(p, k) ==
    /\ endpoint[k] \in Runtimes
    /\ identity[<<p, k>>] \in {Nothing, endpoint[k]}

Forgotten(p, k) == identity' = [identity EXCEPT ![<<p, k>>] = Nothing]

\* The file is gone or somebody else's.
LeaveEndpoint(p, k) ==
    /\ ~Owned(p, k) /\ Forgotten(p, k)
    /\ UNCHANGED <<endpoint, listens, adopted, stopping>>

\* The unlink after that look removes what is at the path by now.
UnlinkOwned(p, k) ==
    /\ ~Absent(k) /\ Put(k, Nothing) /\ Forgotten(p, k)
    /\ UNCHANGED <<listens, adopted, stopping>>

\* start is interrupted by an exception: the listener goes with it, and the
\* inode too if start knows it and is still inside its try.
AbandonListener(p, k, inode) ==
    /\ SetListener(<<p, k>>, "closed")
    /\ UNCHANGED endpoint \/ (endpoint[k] = inode /\ Put(k, Nothing))
    /\ UNCHANGED <<adopted, identity, stopping>>

\* The process is gone: the kernel closes its listeners, the files stay.
CloseAll(p) ==
    /\ listens' = [s \in Servers |-> IF s[1] = p THEN "closed" ELSE listens[s]]
    /\ UNCHANGED <<endpoint, adopted, identity, stopping>>

=============================================================================
