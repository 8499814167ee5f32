-------------------------- MODULE OccurrenceLeases --------------------------
(***************************************************************************)
(* What local reminders promise, without processes, locks, approvals or    *)
(* clocks: a job is granted only for a content that a user signed for; an  *)
(* execution gets a lease only under a grant, for an occurrence that was   *)
(* never claimed before, and none after the stop; it is entered only if    *)
(* the job still has the content it was leased for, and what it runs then  *)
(* is that content, even if the job is edited once more; and claims, like  *)
(* the stop, are never taken back, whoever crashes.                        *)
(***************************************************************************)
CONSTANTS Jobs, Versions, Occurrences, Executions, None

VARIABLES content,  \* what a job would run now
          signed,   \* the jobs and contents users have signed for
          granted,  \* the content a job is granted for, if any
          halted,   \* the global stop
          phase,    \* where an execution is
          claim,    \* the job and occurrence an execution was leased for, if any
          term      \* the content a live lease is for

leaseVars == <<content, signed, granted, halted, phase, claim, term>>

LeaseInit ==
    /\ content \in [Jobs -> Versions]
    /\ signed = {} /\ granted = [j \in Jobs |-> None]
    /\ halted = FALSE
    /\ phase = [e \in Executions |-> "waiting"]
    /\ claim = [e \in Executions |-> None]
    /\ term = [e \in Executions |-> None]

Edit(j, v) ==
    /\ content' = [content EXCEPT ![j] = v]
    /\ UNCHANGED <<signed, granted, halted, phase, claim, term>>

Sign(j, v) ==
    /\ signed' = signed \cup {<<j, v>>}
    /\ UNCHANGED <<content, granted, halted, phase, claim, term>>

Grant(j, v) ==
    /\ ~halted /\ <<j, v>> \in signed
    /\ granted' = [granted EXCEPT ![j] = v]
    /\ UNCHANGED <<content, signed, halted, phase, claim, term>>

Withdraw(j) ==
    /\ granted' = [granted EXCEPT ![j] = None]
    /\ UNCHANGED <<content, signed, halted, phase, claim, term>>

Halt ==
    /\ halted' = TRUE
    /\ UNCHANGED <<content, signed, granted, phase, claim, term>>

Lease(e, j, o) ==
    /\ ~halted /\ phase[e] = "waiting"
    /\ granted[j] \in Versions
    /\ \A d \in Executions : claim[d] # <<j, o>>
    /\ phase' = [phase EXCEPT ![e] = "leased"]
    /\ claim' = [claim EXCEPT ![e] = <<j, o>>]
    /\ term' = [term EXCEPT ![e] = granted[j]]
    /\ UNCHANGED <<content, signed, granted, halted>>

Enter(e) ==
    /\ phase[e] = "leased"
    /\ content[claim[e][1]] = term[e]
    /\ phase' = [phase EXCEPT ![e] = "entered"]
    /\ UNCHANGED <<content, signed, granted, halted, claim, term>>

\* The script that starts is the one the lease was given for.
Start(e) ==
    /\ phase[e] = "entered"
    /\ <<claim[e][1], term[e]>> \in signed
    /\ phase' = [phase EXCEPT ![e] = "running"]
    /\ UNCHANGED <<content, signed, granted, halted, claim, term>>

\* Executions end alone, or together when their process dies.
End(ended) ==
    /\ phase' = [e \in Executions |-> IF e \in ended THEN "ended" ELSE phase[e]]
    /\ term' = [e \in Executions |-> IF e \in ended THEN None ELSE term[e]]
    /\ UNCHANGED <<content, signed, granted, halted, claim>>

LeaseNext ==
    \/ Halt
    \/ \E ended \in SUBSET Executions : End(ended)
    \/ \E e \in Executions : Enter(e) \/ Start(e)
    \/ \E j \in Jobs :
          \/ Withdraw(j)
          \/ \E v \in Versions : Edit(j, v) \/ Sign(j, v) \/ Grant(j, v)
          \/ \E e \in Executions, o \in Occurrences : Lease(e, j, o)

LeaseSpec == LeaseInit /\ [][LeaseNext]_leaseVars

=============================================================================
