---------------------------- MODULE MCNotifications ----------------------------
EXTENDS Notifications, TLC

Writers ==
    \E r \in Recorders :
        \/ \E activity \in Activities, actor \in Users \cup {Nobody}, drafts \in DraftLists :
               Record(r, activity, actor, drafts)
        \/ RecordProceed(r)
        \/ Abandon(r)

Membership(u) == Leave(u) \/ Join(u)

\* Recorders and members alone: the tables do not depend on who reads them.
TableNext ==
    \/ Writers
    \/ \E u \in Users : Membership(u) \/ \E n \in notifications : MarkRead(u, n)

TableSpec == Init /\ [][TableNext]_vars

\* Recorders, members and streams: no stream looks at whether a notification is read.
DeliveryNext ==
    \/ Writers
    \/ \E u \in Users : Membership(u) \/ StreamProceed(u) \/ Receive(u) \/ Drop(u)

DeliverySpec == Init /\ [][DeliveryNext]_vars /\ Fairness

Symmetry == Permutations(Users) \cup Permutations(Recorders) \cup Permutations(Activities)
================================================================================
