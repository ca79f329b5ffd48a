----------------------------- MODULE MCApplication -----------------------------
EXTENDS Application

\* A new deployment, or one whose tenants belong to somebody who does not visit and
\* where each visitor is a member of one tenant.
Founded ==
    /\ workspaces \in {{}, Workspaces}
    /\ \A u \in Users \ Visitors, w \in workspaces : members[w][u] = "owner"
    /\ \A u \in Visitors : \A w \in Memberships(u) : members[w][u] = "member"
    /\ \A u \in Visitors : completed => Cardinality(Memberships(u)) = 1

StartInit     == Init /\ Founded
StartSpec     == StartInit /\ [][Next]_vars
StartLiveSpec == StartSpec /\ Fairness
================================================================================
