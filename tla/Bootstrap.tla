------------------------------- MODULE Bootstrap -------------------------------
(* The first-owner setup: concurrent calls of bootstrap_first_owner with the   *)
(* right setup token, racing each other, create_user and create_workspace on   *)
(* an empty deployment.  An INSERT takes the entry of its address or slug in   *)
(* the unique index until the transaction ends; another INSERT of the same     *)
(* value waits for it.                                                         *)
EXTENDS Integers, FiniteSets

CONSTANTS
    Emails,     \* addresses callers ask for
    Slugs,      \* workspace slugs callers ask for
    Requests,   \* concurrent setup calls
    None        \* no call, no holder, not completed

ASSUME NoneAssumption ==
    None \notin Requests /\ None \notin [email : Emails, slug : Slugs]

VARIABLES
    users,       \* committed addresses
    workspaces,  \* committed workspaces: slug and owner
    singleton,   \* workspace_core_bootstrap: None or the completion
    completions, \* committed workspace.bootstrap.completed events
    emailLock, slugLock, rowLock,
    pc, call

tables == <<users, workspaces, singleton, completions>>
locks  == <<emailLock, slugLock, rowLock>>
vars   == <<tables, locks, pc, call>>

Setup  == [email : Emails, slug : Slugs]
Labels == {"idle", "state", "count", "user", "workspace", "complete", "commit"}

TakenSlugs == {w.slug : w \in workspaces}

Goto(r, label) == pc' = [pc EXCEPT ![r] = label]

ReleasedBy(lock, r) == [x \in DOMAIN lock |-> IF lock[x] = r THEN None ELSE lock[x]]

End(r) ==
    /\ Goto(r, "idle")
    /\ call' = [call EXCEPT ![r] = None]
    /\ emailLock' = ReleasedBy(emailLock, r)
    /\ slugLock' = ReleasedBy(slugLock, r)
    /\ rowLock' = IF rowLock = r THEN None ELSE rowLock

\* Every refusal is a ConflictError and leaves nothing behind.
Refuse(r) == End(r) /\ UNCHANGED tables

--------------------------------------------------------------------------------
Begin(r, setup) ==
    /\ pc[r] = "idle"
    /\ call' = [call EXCEPT ![r] = setup]
    /\ Goto(r, "state")
    /\ UNCHANGED <<tables, locks>>

\* The singleton is read without a lock; a completed setup is refused.
ReadState(r) ==
    /\ pc[r] = "state"
    /\ singleton = None
    /\ Goto(r, "count")
    /\ UNCHANGED <<tables, locks, call>>

AlreadyComplete(r) == pc[r] = "state" /\ singleton # None /\ Refuse(r)

NoIdentityData == users = {} /\ workspaces = {}

\* Users, then workspaces, in one step: whoever has a workspace has committed a user
\* before, and neither table loses rows.
CountRows(r) ==
    /\ pc[r] = "count"
    /\ NoIdentityData
    /\ Goto(r, "user")
    /\ UNCHANGED <<tables, locks, call>>

ExistingData(r) == pc[r] = "count" /\ ~NoIdentityData /\ Refuse(r)

InsertUser(r) ==
    /\ pc[r] = "user"
    /\ emailLock[call[r].email] = None /\ call[r].email \notin users
    /\ emailLock' = [emailLock EXCEPT ![call[r].email] = r]
    /\ Goto(r, "workspace")
    /\ UNCHANGED <<tables, slugLock, rowLock, call>>

\* Variant: no unique index on the slug.
InsertWorkspaceUnindexed(r) ==
    /\ pc[r] = "workspace"
    /\ slugLock' = [slugLock EXCEPT ![call[r].slug] = r]
    /\ Goto(r, "complete")
    /\ UNCHANGED <<tables, emailLock, rowLock, call>>

\* Variant: the tenant is inserted under a lock of the users' table, in which every other
\* setup has an uncommitted row.
InsertWorkspaceUnderTableLock(r) ==
    /\ pc[r] = "workspace"
    /\ \A e \in Emails : emailLock[e] \in {None, r}
    /\ slugLock[call[r].slug] = None /\ call[r].slug \notin TakenSlugs
    /\ slugLock' = [slugLock EXCEPT ![call[r].slug] = r]
    /\ Goto(r, "complete")
    /\ UNCHANGED <<tables, emailLock, rowLock, call>>

InsertWorkspace(r) ==
    /\ pc[r] = "workspace"
    /\ slugLock[call[r].slug] = None /\ call[r].slug \notin TakenSlugs
    /\ slugLock' = [slugLock EXCEPT ![call[r].slug] = r]
    /\ Goto(r, "complete")
    /\ UNCHANGED <<tables, emailLock, rowLock, call>>

\* The unique indexes, reported as a ConflictError.
Duplicate(r) ==
    /\ \/ pc[r] = "user" /\ emailLock[call[r].email] = None /\ call[r].email \in users
       \/ pc[r] = "workspace" /\ slugLock[call[r].slug] = None /\ call[r].slug \in TakenSlugs
    /\ Refuse(r)

\* Variant: the completing UPDATE lacks "AND completed_at IS NULL".
CompleteAnyway(r) ==
    /\ pc[r] = "complete"
    /\ rowLock = None
    /\ rowLock' = r
    /\ Goto(r, "commit")
    /\ UNCHANGED <<tables, emailLock, slugLock, call>>

\* The conditional UPDATE waits for the row and evaluates its condition again.
Complete(r) ==
    /\ pc[r] = "complete"
    /\ rowLock = None
    /\ singleton = None
    /\ rowLock' = r
    /\ Goto(r, "commit")
    /\ UNCHANGED <<tables, emailLock, slugLock, call>>

CompletedConcurrently(r) ==
    /\ pc[r] = "complete"
    /\ rowLock = None
    /\ singleton # None
    /\ Refuse(r)

Commit(r) ==
    /\ pc[r] = "commit"
    /\ users' = users \cup {call[r].email}
    /\ workspaces' = workspaces \cup {[slug |-> call[r].slug, owner |-> call[r].email]}
    /\ singleton' = call[r]
    /\ completions' = completions \cup {call[r]}
    /\ End(r)

\* Crash, disconnection or restart: the transaction is rolled back.
Abandon(r) == pc[r] # "idle" /\ Refuse(r)

\* create_user and create_workspace by anybody else; one commit each.
CreateUser(email) ==
    /\ email \notin users /\ emailLock[email] = None
    /\ users' = users \cup {email}
    /\ UNCHANGED <<workspaces, singleton, completions, locks, pc, call>>

CreateWorkspace(owner, slug) ==
    /\ owner \in users
    /\ slug \notin TakenSlugs /\ slugLock[slug] = None
    /\ workspaces' = workspaces \cup {[slug |-> slug, owner |-> owner]}
    /\ UNCHANGED <<users, singleton, completions, locks, pc, call>>

--------------------------------------------------------------------------------
Init ==
    /\ users = {} /\ workspaces = {} /\ singleton = None /\ completions = {}
    /\ emailLock = [e \in Emails |-> None]
    /\ slugLock = [s \in Slugs |-> None]
    /\ rowLock = None
    /\ pc = [r \in Requests |-> "idle"]
    /\ call = [r \in Requests |-> None]

Proceed(r) ==
    \/ ReadState(r)
    \/ AlreadyComplete(r)
    \/ CountRows(r)
    \/ ExistingData(r)
    \/ InsertUser(r)
    \/ InsertWorkspace(r)
    \/ Duplicate(r)
    \/ Complete(r)
    \/ CompletedConcurrently(r)
    \/ Commit(r)

Next ==
    \/ \E r \in Requests :
        \/ \E setup \in Setup : Begin(r, setup)
        \/ Proceed(r)
        \/ Abandon(r)
    \/ \E email \in Emails : CreateUser(email)
    \/ \E owner \in Emails, slug \in Slugs : CreateWorkspace(owner, slug)

Spec == Init /\ [][Next]_vars

\* Index entries and the row are granted in arrival order; tasks are resumed.
LiveSpec == Spec /\ \A r \in Requests : SF_vars(Proceed(r))

--------------------------------------------------------------------------------
\* Tables, locks and calls hold values of their kinds; a slug names one tenant.
TypeOK ==
    /\ users \subseteq Emails
    /\ workspaces \subseteq [slug : Slugs, owner : Emails]
    /\ \A v, w \in workspaces : v.slug = w.slug => v = w
    /\ singleton \in Setup \cup {None} /\ completions \subseteq Setup
    /\ emailLock \in [Emails -> Requests \cup {None}]
    /\ slugLock \in [Slugs -> Requests \cup {None}]
    /\ rowLock \in Requests \cup {None}
    /\ pc \in [Requests -> Labels] /\ call \in [Requests -> Setup \cup {None}]

\* However many calls pass the first check together, one setup is committed, and
\* the singleton names the owner and the workspace it made.
CompletedOnce ==
    /\ Cardinality(completions) <= 1
    /\ completions = IF singleton = None THEN {} ELSE {singleton}
    /\ singleton # None =>
           [slug |-> singleton.slug, owner |-> singleton.email] \in workspaces

\* A call that waits for another's address, slug or completion is answered.
EverySetupEnds == \A r \in Requests : pc[r] # "idle" ~> pc[r] = "idle"
================================================================================
