------------------------------ MODULE Credential ------------------------------
(***************************************************************************)
(* FileCredentialProvider of control/auth.py: one credential in a private  *)
(* file.  Creating the file and writing into it are two steps; a rotation  *)
(* replaces the file in one.                                               *)
(***************************************************************************)
CONSTANTS Secrets,      \* credentials secrets.token_urlsafe may return
          Absent, Blank \* no file, and one that is created but not written

ASSUME CredentialAssumption == Absent # Blank /\ {Absent, Blank} \cap Secrets = {}

VARIABLES stored,       \* the file
          used          \* credentials that were generated: none comes twice

credentialVars == <<stored, used>>

CredentialTypeOK == stored \in Secrets \cup {Absent, Blank} /\ used \subseteq Secrets

CredentialInit == stored \in Secrets \cup {Absent} /\ used = {stored} \ {Absent}

\* _load raises CredentialError on a file without a valid credential.
Loadable == stored \in Secrets

Malformed == stored = Blank

\* authenticate reads the file again for every request.
Authenticates(secret) == Loadable /\ secret = stored

\* Mutant: a file that is there is opened, and so emptied, all the same.
CreateShared == stored' = Blank /\ UNCHANGED used

\* O_EXCL: the file is new, and empty at first.
CreateExclusive == stored = Absent /\ stored' = Blank /\ UNCHANGED used

\* The descriptor still names the file created, unless a rotation replaced it.
WriteCreated(secret) ==
    /\ secret \in Secrets \ used
    /\ used' = used \cup {secret}
    /\ stored' = IF stored = Blank THEN secret ELSE stored

Rotate(secret) ==
    /\ secret \in Secrets \ used
    /\ used' = used \cup {secret}
    /\ stored' = secret

=============================================================================
