--------------------------------- MODULE Tenancy -------------------------------
(* What the repository promises about tenants, whatever handlers run together:  *)
(* a tenant is created with one owner and keeps an owner, and whoever gains,    *)
(* loses or changes a role in an existing tenant, or has the password reset,    *)
(* leaves the sessions opened before it behind in the same step.                *)
(*                                                                              *)
(* Memberships, Invitations and Credentials implement this contract (their      *)
(* ImplementsTenancy), and Application relies on it.                            *)
EXTENDS Roles, Naturals

CONSTANTS
    Users,
    Workspaces,
    None         \* no role

VARIABLES
    workspaces,      \* tenants that exist
    members,         \* members[w][u]: role of u in w, None without a membership
    sessionVersion   \* a session is honoured while it carries this version

tenancy == <<workspaces, members, sessionVersion>>

HasOwner(w) == \E u \in Users : members[w][u] = "owner"

Init ==
    /\ workspaces \in SUBSET Workspaces
    /\ members \in [Workspaces -> [Users -> Role \cup {None}]]
    /\ sessionVersion \in [Users -> Nat]
    /\ \A w \in Workspaces :
           IF w \in workspaces THEN HasOwner(w) ELSE members[w] = [u \in Users |-> None]

\* The creator's own sessions stay: no authority they had changes.
CreateWorkspace(w, u) ==
    /\ w \notin workspaces
    /\ workspaces' = workspaces \cup {w}
    /\ members' = [members EXCEPT ![w][u] = "owner"]
    /\ UNCHANGED sessionVersion

\* Variant: sessions opened before go on.
SessionsGoOn(u) == UNCHANGED sessionVersion

EndSessions(u) == sessionVersion' = [sessionVersion EXCEPT ![u] = @ + 1]

\* Joining, leaving and changing role: by change_role, remove_membership,
\* accept_invitation or register_from_invitation.
SetRole(w, u, role) ==
    /\ w \in workspaces
    /\ members[w][u] # role
    /\ members' = [members EXCEPT ![w][u] = role]
    /\ \E owner \in Users : members'[w][owner] = "owner"
    /\ EndSessions(u)
    /\ UNCHANGED workspaces

ResetPassword(u) == EndSessions(u) /\ UNCHANGED <<workspaces, members>>

Next ==
    \E u \in Users :
        \/ ResetPassword(u)
        \/ \E w \in Workspaces :
            \/ CreateWorkspace(w, u)
            \/ \E role \in Role \cup {None} : SetRole(w, u, role)

Spec == Init /\ [][Next]_tenancy
================================================================================
