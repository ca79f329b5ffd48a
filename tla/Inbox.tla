---------------------------------- MODULE Inbox --------------------------------
(* What ActivityRepository promises to whoever reads notifications with a       *)
(* cursor: numbers are handed out without gaps, each to one reader, and appear  *)
(* in the order of the numbers, so a reader who has seen a number will find     *)
(* nothing new below it.  An inbox is emptied when its reader leaves the tenant.*)
(*                                                                              *)
(* Notifications implements this contract, and Application relies on it.        *)
EXTENDS Naturals, Sequences

CONSTANT Readers

VARIABLES
    inbox,   \* inbox[r]: numbers of the notifications r can read
    last     \* the highest number handed out

feed == <<inbox, last>>

Init ==
    /\ inbox = [r \in Readers |-> {}]
    /\ last = 0

\* One activity, its i-th draft addressed to to[i], no reader twice.
Publish(to) ==
    /\ \A i, j \in DOMAIN to : to[i] = to[j] => i = j
    /\ inbox' = [r \in Readers |-> inbox[r] \cup {last + i : i \in {j \in DOMAIN to : to[j] = r}}]
    /\ last' = last + Len(to)

Clear(r) ==
    /\ inbox' = [inbox EXCEPT ![r] = {}]
    /\ UNCHANGED last

Next ==
    \/ \E to \in [1..(last' - last) -> Readers] : Publish(to)
    \/ \E r \in Readers : Clear(r)

Spec == Init /\ [][Next]_feed
================================================================================
