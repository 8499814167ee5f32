------------------------ MODULE OneShotAuthorization ------------------------
(***************************************************************************)
(* What the control core promises, without threads, tables or clocks: an   *)
(* attempt is authorised at most once, either by policy alone or by        *)
(* spending a grant that was never spent before; it runs at most once, and *)
(* only while it is authorised; a refused or finished attempt is closed    *)
(* for good.                                                               *)
(***************************************************************************)
CONSTANTS Attempts, Grants, None

VARIABLES phase,    \* where an attempt is
          grant,    \* the grant a live authorisation rests on, if any
          spent     \* the grants used up

Phases == {"open", "granted", "running", "closed"}

authVars == <<phase, grant, spent>>

AuthInit ==
    /\ phase = [a \in Attempts |-> "open"]
    /\ grant = [a \in Attempts |-> None]
    /\ spent = {}

AuthorizeByPolicy(a) ==
    /\ phase[a] = "open"
    /\ phase' = [phase EXCEPT ![a] = "granted"]
    /\ UNCHANGED <<grant, spent>>

AuthorizeByGrant(a, g) ==
    /\ phase[a] = "open" /\ g \notin spent
    /\ phase' = [phase EXCEPT ![a] = "granted"]
    /\ grant' = [grant EXCEPT ![a] = g]
    /\ spent' = spent \cup {g}

Start(a) ==
    /\ phase[a] = "granted"
    /\ phase' = [phase EXCEPT ![a] = "running"]
    /\ UNCHANGED <<grant, spent>>

Close(a) ==
    /\ phase[a] # "closed"
    /\ phase' = [phase EXCEPT ![a] = "closed"]
    /\ grant' = [grant EXCEPT ![a] = None]
    /\ UNCHANGED spent

AuthNext ==
    \E a \in Attempts :
        \/ AuthorizeByPolicy(a) \/ Start(a) \/ Close(a)
        \/ \E g \in Grants : AuthorizeByGrant(a, g)

AuthSpec == AuthInit /\ [][AuthNext]_authVars

=============================================================================
