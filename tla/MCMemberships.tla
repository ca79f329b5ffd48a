---------------------------- MODULE MCMemberships ------------------------------
EXTENDS Memberships, TLC

RoleChanges   == {"change_role", "remove_membership"}
AllOperations == RoleChanges \cup {"create_workspace"}

\* In these handlers a viewer has the authority of a member, which nobody is at the
\* start; members appear by role changes.
NoMemberYet == \A w \in Workspaces, u \in Users : members[w][u] # "member"

StartInit == Init /\ NoMemberYet
StartSpec == StartInit /\ [][Next]_vars

Symmetry == Permutations(Users) \cup Permutations(Workspaces) \cup Permutations(Requests)
================================================================================
