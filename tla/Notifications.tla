----------------------------- MODULE Notifications -----------------------------
(* ActivityRepository and notification_event_stream: recorders that append an  *)
(* activity with its notifications, members that leave and come back, and      *)
(* browsers that read their notifications over a stream they lose and reopen   *)
(* with Last-Event-ID.                                                         *)
(*                                                                             *)
(* A user here is a user in a tenant: all tenants draw from the same sequence  *)
(* row and activity ids, and nothing else of one tenant is read by another.    *)
(* That a call's recipients are of one tenant is not assumed.                  *)
(*                                                                             *)
(* The database is PostgreSQL at READ COMMITTED: a transaction's rows appear at *)
(* its commit, the sequence row and the index entry of an activity belong to   *)
(* one writer until then, and an inserted notification keeps its membership    *)
(* row from being deleted.  Leaving and joining are the commits of             *)
(* remove_membership and accept_invitation, which Memberships and Invitations  *)
(* have in full; here each is one step.                                        *)
EXTENDS Integers, Sequences, FiniteSets

CONSTANTS
    Users,
    Recorders,     \* concurrent calls of record()
    Activities,    \* activity ids, chosen by the callers
    PageSize,      \* limit of notifications_after
    MaxDrops,      \* bound: connections lost
    MaxDepartures, \* bound: memberships removed
    Nobody         \* no holder, no actor

ASSUME UsersAssumption  == IsFiniteSet(Users)
ASSUME PageAssumption   == PageSize \in Nat \ {0}
ASSUME BoundsAssumption == MaxDrops \in Nat /\ MaxDepartures \in Nat
ASSUME NobodyAssumption == Nobody \notin Users /\ Nobody \notin Recorders

VARIABLES
    members,        \* users with a membership row
    activities,     \* committed activity ids
    notifications,  \* committed notifications
    nextValue,      \* workspace_core_notification_sequence
    sequenceLock,   \* writer of the sequence row
    record,         \* each recorder's call
    stream,         \* each user's stream generator, on the server
    wire,           \* events emitted and not yet received
    received,       \* sequences the browser has received, in order
    drops,
    departures

tables     == <<activities, notifications, nextValue>>
streamVars == <<stream, wire, received, drops>>
vars == <<members, tables, sequenceLock, record, streamVars, departures>>

Notification == [seq : Nat \ {0}, user : Users, activity : Activities, read : BOOLEAN]

\* drafts: the recipients, in order; done: how many have been looked at or written;
\* next: next_value as the transaction sees it; rows: notifications inserted so far.
RecordLabels == {"idle", "actor", "recipients", "activity", "sequence", "project", "commit"}

NoRecord == [pc |-> "idle", actor |-> Nobody, activity |-> Nobody, drafts |-> <<>>,
             done |-> 0, next |-> 0, rows |-> {}]

NoStream == [pc |-> "closed", cursor |-> 0, batch |-> <<>>]

--------------------------------------------------------------------------------
(* record().                                                                   *)

DraftLists == {s \in UNION {[1..n -> Users] : n \in 0..Cardinality(Users)} :
                   \A i, j \in DOMAIN s : s[i] = s[j] => i = j}

Call(r) == record[r]

Recipient(r) == Call(r).drafts[Call(r).done + 1]

Done(r) == Call(r).done = Len(Call(r).drafts)

End(r) == record' = [record EXCEPT ![r] = NoRecord]

Release(r) == sequenceLock' = IF sequenceLock = r THEN Nobody ELSE sequenceLock

\* The exception leaves the transaction: nothing is written.
Fail(r) == End(r) /\ Release(r) /\ UNCHANGED <<members, tables, streamVars, departures>>

Step(r, call) ==
    /\ record' = [record EXCEPT ![r] = call]
    /\ UNCHANGED <<members, tables, streamVars, departures>>

Record(r, activity, actor, drafts) ==
    /\ Call(r).pc = "idle"
    /\ Step(r, [NoRecord EXCEPT !.pc = IF actor = Nobody THEN "recipients" ELSE "actor",
                                !.actor = actor, !.activity = activity, !.drafts = drafts])
    /\ UNCHANGED sequenceLock

CheckActor(r) ==
    /\ Call(r).pc = "actor"
    /\ Call(r).actor \in members
    /\ Step(r, [Call(r) EXCEPT !.pc = "recipients"])
    /\ UNCHANGED sequenceLock

\* One read per recipient; no row is locked by it.
CheckRecipient(r) ==
    /\ Call(r).pc = "recipients"
    /\ ~Done(r)
    /\ Recipient(r) \in members
    /\ Step(r, [Call(r) EXCEPT !.done = @ + 1])
    /\ UNCHANGED sequenceLock

\* ValidationError: the actor or a recipient is not a current member.
NotMember(r) ==
    /\ \/ Call(r).pc = "actor" /\ Call(r).actor \notin members
       \/ Call(r).pc = "recipients" /\ ~Done(r) /\ Recipient(r) \notin members
    /\ Fail(r)

\* An INSERT of the same id waits for the one under way.
Inserting(activity) ==
    {r \in Recorders : Call(r).activity = activity /\ Call(r).pc \in {"sequence", "project", "commit"}}

\* Variant: the activity id is not unique.
InsertActivityUnindexed(r) ==
    /\ Call(r).pc = "recipients"
    /\ Done(r)
    /\ Step(r, [Call(r) EXCEPT !.pc = IF Call(r).drafts = <<>> THEN "commit" ELSE "sequence",
                               !.done = 0])
    /\ UNCHANGED sequenceLock

InsertActivity(r) ==
    /\ Call(r).pc = "recipients"
    /\ Done(r)
    /\ Inserting(Call(r).activity) = {}
    /\ Call(r).activity \notin activities
    /\ Step(r, [Call(r) EXCEPT !.pc = IF Call(r).drafts = <<>> THEN "commit" ELSE "sequence",
                               !.done = 0])
    /\ UNCHANGED sequenceLock

\* ConflictError: the event has been recorded before.
DuplicateActivity(r) ==
    /\ Call(r).pc = "recipients"
    /\ Done(r)
    /\ Call(r).activity \in activities
    /\ Fail(r)

\* Variant: a number is drawn at once, like a database sequence, and the row is not
\* kept until the commit.
DrawSequence(r) ==
    /\ Call(r).pc = "sequence"
    /\ LET drawn == {Call(s).next : s \in Recorders} \cup {nextValue} IN
       Step(r, [Call(r) EXCEPT !.pc = "project",
                               !.next = (CHOOSE n \in drawn : \A m \in drawn : m <= n) + 1])
    /\ UNCHANGED sequenceLock

\* _next_sequence: UPDATE next_value + 1 takes the row until the transaction ends;
\* the SELECT after it sees the transaction's own increment.
NextSequence(r) ==
    /\ Call(r).pc = "sequence"
    /\ sequenceLock \in {Nobody, r}
    /\ sequenceLock' = r
    /\ Step(r, [Call(r) EXCEPT !.pc = "project",
                               !.next = (IF sequenceLock = r THEN @ ELSE nextValue) + 1])

Project(r) ==
    LET u == Recipient(r) IN
    /\ Call(r).pc = "project"
    /\ u \in members
    /\ Step(r, [Call(r) EXCEPT
                    !.pc   = IF Call(r).done + 1 = Len(Call(r).drafts) THEN "commit" ELSE "sequence",
                    !.done = @ + 1,
                    !.rows = @ \cup {[seq |-> Call(r).next - 1, user |-> u,
                                      activity |-> Call(r).activity, read |-> FALSE]}])
    /\ UNCHANGED sequenceLock

\* The recipient left after the check: the foreign key refuses the row, and only
\* unique violations have a handler.
RecipientGone(r) ==
    /\ Call(r).pc = "project"
    /\ Recipient(r) \notin members
    /\ Fail(r)

CommitRecord(r) ==
    /\ Call(r).pc = "commit"
    /\ activities' = activities \cup {Call(r).activity}
    /\ notifications' = notifications \cup Call(r).rows
    /\ nextValue' = IF Call(r).rows = {} THEN nextValue ELSE Call(r).next
    /\ Release(r)
    /\ End(r)
    /\ UNCHANGED <<members, streamVars, departures>>

\* The caller goes away or the process restarts: the transaction is rolled back.
Abandon(r) == Call(r).pc # "idle" /\ Fail(r)

--------------------------------------------------------------------------------
(* Members and their inbox.                                                    *)

\* Variant: the notifications of a former member stay.
KeptAfterLeaving(u) == notifications

\* ON DELETE CASCADE from the membership.
LeftAfterLeaving(u) == {n \in notifications : n.user # u}

\* An uncommitted notification holds its recipient's membership row.
Leave(u) ==
    /\ u \in members
    /\ departures < MaxDepartures
    /\ \A r \in Recorders : \A n \in Call(r).rows : n.user # u
    /\ members' = members \ {u}
    /\ notifications' = LeftAfterLeaving(u)
    /\ departures' = departures + 1
    /\ UNCHANGED <<activities, nextValue, sequenceLock, record, streamVars>>

Join(u) ==
    /\ u \notin members
    /\ members' = members \cup {u}
    /\ UNCHANGED <<tables, sequenceLock, record, streamVars, departures>>

\* mark_read: the first mark counts, a later one finds the row already read.
MarkRead(u, n) ==
    /\ n.user = u /\ ~n.read
    /\ notifications' = (notifications \ {n}) \cup {[n EXCEPT !.read = TRUE]}
    /\ UNCHANGED <<members, activities, nextValue, sequenceLock, record, streamVars, departures>>

--------------------------------------------------------------------------------
(* The stream of user u.                                                       *)

StreamOnly == UNCHANGED <<members, tables, sequenceLock, record, departures>>

LastEventId(u) == IF received[u] = <<>> THEN 0 ELSE received[u][Len(received[u])]

\* The browser reads the old response to its end, then (re)connects with the id of
\* the last event it has received.
Connect(u) ==
    /\ stream[u].pc = "closed" /\ wire[u] = <<>>
    /\ u \in members
    /\ stream' = [stream EXCEPT ![u] = [pc |-> "authorize", cursor |-> LastEventId(u),
                                        batch |-> <<>>]]
    /\ StreamOnly /\ UNCHANGED <<wire, received, drops>>

MoveTo(u, label) ==
    /\ stream' = [stream EXCEPT ![u].pc = label]
    /\ UNCHANGED <<wire, received, drops>>

Authorize(u) ==
    /\ stream[u].pc = "authorize" /\ u \in members
    /\ MoveTo(u, "fetch")
    /\ StreamOnly

\* The numbers of u's notifications.
Seqs(u) == {n.seq : n \in {m \in notifications : m.user = u}}

\* ORDER BY sequence ASC.
InOrder(S) ==
    CHOOSE s \in [1..Cardinality(S) -> S] : \A i, j \in DOMAIN s : i < j => s[i] < s[j]

\* LIMIT.
FirstOf(S) == {n \in S : Cardinality({m \in S : m < n}) < PageSize}

\* Variant: ">=" instead of ">" in the cursor condition.
PageFromCursor(u, cursor) == InOrder(FirstOf({seq \in Seqs(u) : seq >= cursor}))

\* Variant: ORDER BY sequence DESC.
NewestAfter(u, cursor) ==
    LET rows == {seq \in Seqs(u) : seq > cursor}
        page == InOrder({n \in rows : Cardinality({m \in rows : m > n}) < PageSize})
    IN  [i \in DOMAIN page |-> page[Len(page) + 1 - i]]

\* notifications_after: the first page, in ascending order, of what follows the cursor.
NotificationsAfter(u, cursor) == InOrder(FirstOf({seq \in Seqs(u) : seq > cursor}))

\* An empty page sends the generator back to the next poll.
Fetch(u) ==
    LET batch == NotificationsAfter(u, stream[u].cursor) IN
    /\ stream[u].pc = "fetch"
    /\ stream' = [stream EXCEPT ![u].pc = IF batch = <<>> THEN "authorize" ELSE "deliver",
                                ![u].batch = batch]
    /\ StreamOnly /\ UNCHANGED <<wire, received, drops>>

\* The check before each event of the page.
AuthorizeDelivery(u) ==
    /\ stream[u].pc = "deliver" /\ u \in members
    /\ MoveTo(u, "emit")
    /\ StreamOnly

\* yield, then the cursor moves on.
Emit(u) ==
    /\ stream[u].pc = "emit"
    /\ wire' = [wire EXCEPT ![u] = Append(@, Head(stream[u].batch))]
    /\ stream' = [stream EXCEPT ![u] =
           [pc |-> IF Len(stream[u].batch) = 1 THEN "authorize" ELSE "deliver",
            cursor |-> Head(stream[u].batch),
            batch |-> Tail(stream[u].batch)]]
    /\ StreamOnly /\ UNCHANGED <<received, drops>>

\* AuthorizationError ends the generator; what was sent still arrives.
Unauthorized(u) ==
    /\ stream[u].pc \in {"authorize", "deliver"}
    /\ u \notin members
    /\ stream' = [stream EXCEPT ![u] = NoStream]
    /\ StreamOnly /\ UNCHANGED <<wire, received, drops>>

Receive(u) ==
    /\ wire[u] # <<>>
    /\ received' = [received EXCEPT ![u] = Append(@, Head(wire[u]))]
    /\ wire' = [wire EXCEPT ![u] = Tail(@)]
    /\ StreamOnly /\ UNCHANGED <<stream, drops>>

\* The connection is lost with whatever is on it.
Drop(u) ==
    /\ stream[u].pc # "closed"
    /\ drops < MaxDrops
    /\ drops' = drops + 1
    /\ stream' = [stream EXCEPT ![u] = NoStream]
    /\ wire' = [wire EXCEPT ![u] = <<>>]
    /\ StreamOnly /\ UNCHANGED received

--------------------------------------------------------------------------------
Init ==
    /\ members = Users
    /\ activities = {}
    /\ notifications = {}
    /\ nextValue = 1
    /\ sequenceLock = Nobody
    /\ record = [r \in Recorders |-> NoRecord]
    /\ stream = [u \in Users |-> NoStream]
    /\ wire = [u \in Users |-> <<>>]
    /\ received = [u \in Users |-> <<>>]
    /\ drops = 0
    /\ departures = 0

RecordProceed(r) ==
    \/ CheckActor(r)
    \/ CheckRecipient(r)
    \/ NotMember(r)
    \/ InsertActivity(r)
    \/ DuplicateActivity(r)
    \/ NextSequence(r)
    \/ Project(r)
    \/ RecipientGone(r)
    \/ CommitRecord(r)

StreamProceed(u) ==
    \/ Connect(u)
    \/ Authorize(u)
    \/ Fetch(u)
    \/ AuthorizeDelivery(u)
    \/ Emit(u)
    \/ Unauthorized(u)

Next ==
    \/ \E r \in Recorders :
        \/ \E activity \in Activities, actor \in Users \cup {Nobody}, drafts \in DraftLists :
               Record(r, activity, actor, drafts)
        \/ RecordProceed(r)
        \/ Abandon(r)
    \/ \E u \in Users :
        \/ StreamProceed(u)
        \/ Receive(u)
        \/ Drop(u)
        \/ Leave(u)
        \/ Join(u)
        \/ \E n \in notifications : MarkRead(u, n)

Spec == Init /\ [][Next]_vars

\* The event loop resumes recorders and generators, row locks are granted in
\* arrival order, an EventSource reconnects, a sent event arrives unless the
\* connection drops.  Nothing obliges a member to leave, come back or read.
Fairness ==
    /\ \A r \in Recorders : SF_vars(RecordProceed(r))
    /\ \A u \in Users : WF_vars(StreamProceed(u)) /\ WF_vars(Receive(u))

LiveSpec == Spec /\ Fairness

--------------------------------------------------------------------------------
(* Properties.                                                                 *)

\* Tables, calls and streams hold values of their kinds; numbers come from the
\* sequence row and belong to one notification each.
TypeOK ==
    /\ members \subseteq Users
    /\ activities \subseteq Activities
    /\ notifications \subseteq Notification
    /\ \A n, m \in notifications : n.seq = m.seq => n = m
    /\ \A n \in notifications : n.seq < nextValue
    /\ sequenceLock \in Recorders \cup {Nobody}
    /\ \A r \in Recorders : Call(r).pc \in RecordLabels /\ Call(r).drafts \in DraftLists
    /\ \A u \in Users : stream[u].cursor < nextValue /\ received[u] \in Seq(Nat)

\* A cursor never runs past a notification that is still to appear: whatever is in
\* the inbox at or below the last event received has been received.
NothingSkipped ==
    \A u \in Users : \A seq \in Seqs(u) :
        seq <= LastEventId(u) => \E i \in DOMAIN received[u] : received[u][i] = seq

\* A browser receives its notifications in order and each at most once, over any
\* number of connections.
DeliveredInOrder ==
    \A u \in Users : \A i, j \in DOMAIN received[u] :
        i < j => received[u][i] < received[u][j]

\* An activity is recorded once: a caller that tries again with the same id adds no
\* second notification for anybody.
OneProjectionEach ==
    \A n, m \in notifications : n.user = m.user /\ n.activity = m.activity => n = m

\* Only members have notifications, and only of activities that have appeared: the
\* inbox of somebody who left is gone, also when a call recorded for them meanwhile.
InboxOfMembers == \A n \in notifications : n.user \in members /\ n.activity \in activities

\* Whatever recorders, members and readers do together, the tables are an inbox per
\* member: an activity's notifications appear at once, numbered above all others.
Feed == INSTANCE Inbox WITH
    Readers <- Users, inbox <- [u \in Users |-> Seqs(u)], last <- nextValue - 1

ImplementsInbox == Feed!Spec

\* A notification that stays in the inbox reaches its recipient's browser.
EventuallyDelivered ==
    \A u \in Users, activity \in Activities :
        (\E n \in notifications : n.user = u /\ n.activity = activity)
        ~> \A n \in notifications :
               n.user = u /\ n.activity = activity =>
                   \E i \in DOMAIN received[u] : received[u][i] = n.seq
================================================================================
