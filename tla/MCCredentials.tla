----------------------------- MODULE MCCredentials -----------------------------
EXTENDS Credentials, TLC

ResetOperations  == {"issue_password_reset", "consume_password_reset"}
SignInOperations == {"consume_password_reset", "authenticate"}
Overlaps         == ResetOperations \cup SignInOperations \cup {"remove_membership"}

\* Every tenant has an owner who is not the user the tokens are for.
OpenInit(open) ==
    /\ Init
    /\ workspaces = Workspaces
    /\ \E secret \in Secrets, outdated \in Outdated :
           password = [u \in Users |-> [secret |-> secret, outdated |-> outdated]]
    /\ \E u \in Users :
           resets = [i \in 1..open |-> [user |-> u, used |-> FALSE, revoked |-> FALSE,
                                        expired |-> FALSE]]
    /\ rowLock = [u \in Users |-> None]
    /\ indexLock = [u \in Users |-> None]
    /\ revoking = [r \in Requests |-> {}]
    /\ sessions = {}

\* A moment at which one token is out.
OpenSpec     == OpenInit(1) /\ [][CredentialNext]_allVars
OpenLiveSpec == OpenSpec /\ CredentialFairness

Symmetry == Permutations(Users) \cup Permutations(Workspaces) \cup
            Permutations(Requests) \cup Permutations(Secrets)
================================================================================
