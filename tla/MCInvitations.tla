----------------------------- MODULE MCInvitations -----------------------------
EXTENDS Invitations, TLC

InviteOperations == {"issue_invitation", "revoke_invitation", "accept_invitation"}
Registration     == {"register_from_invitation", "accept_invitation", "create_user",
                     "create_workspace", "change_role", "remove_membership"}

\* Tenants start with their owner alone, who invites everybody else.
OwnerAlone ==
    \A w \in workspaces : Cardinality({u \in Users : members[w][u] # None}) = 1

InviteInit == InvitationInit /\ OwnerAlone /\ workspaces = Workspaces /\ registered = Users
InviteSpec == InviteInit /\ [][InvitationNext]_allVars

\* A later moment: every tenant has an open invitation for the same address.
OpenInit ==
    /\ Init
    /\ OwnerAlone
    /\ registered \in SUBSET Users
    /\ \A u \in Users : (\E w \in Workspaces : members[w][u] # None) => u \in registered
    /\ clock = 0
    /\ \E order \in [1..Cardinality(workspaces) -> workspaces], u \in Users, role \in InviteRole :
        /\ \A w \in workspaces : \E i \in DOMAIN order : order[i] = w
        /\ \A w \in workspaces : members[w][u] = None
        /\ invitations = [i \in DOMAIN order |->
               [ws |-> order[i], email |-> u, role |-> role, expires |-> TicksPerSecond,
                accepted |-> FALSE, revoked |-> FALSE]]

OpenSpec     == OpenInit /\ [][InvitationNext]_allVars
OpenLiveSpec == OpenSpec /\ InvitationFairness

Symmetry == Permutations(Users) \cup Permutations(Workspaces) \cup Permutations(Requests)
================================================================================
