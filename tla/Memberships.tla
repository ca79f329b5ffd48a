------------------------------ MODULE Memberships ------------------------------
(* The membership operations of WorkspaceRepository: create_workspace,         *)
(* change_role and remove_membership, as requests that interleave at every     *)
(* await.                                                                      *)
(*                                                                             *)
(* The database is PostgreSQL at READ COMMITTED.  The table variables hold     *)
(* what is committed; a statement reads them as they are when it runs, and a   *)
(* transaction's own writes reach them in one step, its commit.  A row lock is *)
(* the request that holds it.  Authority is resolved before the transaction    *)
(* opens, on a connection of its own, exactly as the handlers do it.           *)
(*                                                                             *)
(* A call the handler refuses before it opens a transaction changes nothing    *)
(* and is not a step.  Users are active throughout: no code path writes        *)
(* is_active, and none deletes a user or a workspace.                          *)
EXTENDS Roles, Integers, Sequences, FiniteSets

CONSTANTS
    Users,       \* identities in workspace_core_users
    Workspaces,  \* tenants that may be created, named by their slug
    Requests,    \* concurrent calls into the repository
    Operations,  \* which of the handlers are called
    MaxCalls,    \* bound: calls that commit or are under way
    None         \* no role, no lock holder, no call

ASSUME UsersAssumption == IsFiniteSet(Users)
ASSUME NoneAssumption  == None \notin Role /\ None \notin Requests
ASSUME CallsAssumption == MaxCalls \in Nat

VARIABLES
    workspaces,      \* tenants that exist
    members,         \* members[w][u]: role of u in w, None without a membership row
    sessionVersion,  \* workspace_core_users.session_version
    audit,           \* workspace_core_audit_events in commit order
    workspaceLock,   \* holder of each workspace row
    userLock,        \* holder of each user row
    pc,              \* where each request stands
    call,            \* its arguments
    seen             \* what it has read: the actor's role, the target's, the next version

tables == <<workspaces, members, sessionVersion, audit>>
locks  == <<workspaceLock, userLock>>
vars   == <<tables, locks, pc, call, seen>>

--------------------------------------------------------------------------------
(* Calls.  A removal is a change to the role None.                             *)

ChangeRoleCall == [op : {"change_role"}, actor : Users, ws : Workspaces,
                   target : Users, role : Role]
RemoveCall     == [op : {"remove_membership"}, actor : Users, ws : Workspaces,
                   target : Users, role : {None}]
CreateCall     == [op : {"create_workspace"}, actor : Users, ws : Workspaces,
                   target : Users, role : {"owner"}]
Call == ChangeRoleCall \cup RemoveCall \cup CreateCall

Labels        == {"idle", "lock", "read", "count", "write", "commit", "readback"}
InTransaction == {"read", "count", "write", "commit"}

Seen == [actor : Role \cup {None}, target : Role \cup {None}, version : Nat]
Unread == [actor |-> None, target |-> None, version |-> 0]

\* `from` is recorded by role_changed; for the other types it is kept here as history.
AuditEntry == [type : {"created", "role_changed", "removed"}, ws : Workspaces,
               actor : Users, subject : Users,
               from : Role \cup {None}, to : Role \cup {None}]

RequiredPermission(op) ==
    IF op = "change_role" THEN "members:roles:change" ELSE "members:manage"

TargetAllowed(c, actorRole, targetRole) ==
    IF c.op = "change_role" THEN MayChangeRole(actorRole, targetRole, c.role)
                            ELSE MayRemove(actorRole, targetRole)

Owners(w) == {u \in Users : members[w][u] = "owner"}

\* Variant: an off-by-one in the last-owner guard.
LastOwnerOffByOne(w) == Cardinality(Owners(w)) < 1

LastOwner(w) == Cardinality(Owners(w)) <= 1

\* A request drops an owner; a request changes the target's authority.
DropsOwner(r) == seen[r].target = "owner" /\ call[r].role # "owner"

\* Variant: a removal leaves the user's sessions alone.
BumpsOnRoleChangeOnly(r) == call[r].op = "change_role" /\ call[r].role # seen[r].target

Bumps(r) == call[r].role # seen[r].target

\* Variant: the wrong sign.
NextVersionBackwards(u) == sessionVersion[u] - 1

NextVersion(u) == sessionVersion[u] + 1

\* The bound on the whole behaviour: no call starts beyond it.
Budget == Len(audit) + Cardinality({r \in Requests : pc[r] # "idle"}) < MaxCalls

ReleasedBy(lock, r) == [x \in DOMAIN lock |-> IF lock[x] = r THEN None ELSE lock[x]]

--------------------------------------------------------------------------------
(* What every transaction shares.                                              *)

Goto(r, label) == pc' = [pc EXCEPT ![r] = label]

Finish(r) ==
    /\ Goto(r, "idle")
    /\ call' = [call EXCEPT ![r] = None]
    /\ seen' = [seen EXCEPT ![r] = Unread]

ReleaseLocks(r) ==
    /\ workspaceLock' = ReleasedBy(workspaceLock, r)
    /\ userLock' = ReleasedBy(userLock, r)

\* An exception inside `async with transaction()`: no write, no lock is left.
Rollback(r) ==
    /\ ReleaseLocks(r)
    /\ Finish(r)
    /\ UNCHANGED tables

\* Variant: the row lock is never waited for.
LockWorkspaceWithoutWait(r) ==
    /\ pc[r] = "lock"
    /\ workspaceLock' = [workspaceLock EXCEPT ![call[r].ws] = r]
    /\ Goto(r, "read")
    /\ UNCHANGED <<tables, userLock, call, seen>>

\* _lock_workspace: the no-op UPDATE that serialises a tenant's mutations.
LockWorkspace(r) ==
    /\ pc[r] = "lock"
    /\ workspaceLock[call[r].ws] = None
    /\ workspaceLock' = [workspaceLock EXCEPT ![call[r].ws] = r]
    /\ Goto(r, "read")
    /\ UNCHANGED <<tables, userLock, call, seen>>

--------------------------------------------------------------------------------
(* change_role and remove_membership.                                          *)

\* require_permissions, outside the transaction: the actor's role is read now
\* and kept in `actor` for the checks that come after the lock.
Authorize(r, c) ==
    /\ pc[r] = "idle"
    /\ Budget
    /\ c.op \in Operations
    /\ c.ws \in workspaces
    /\ HasPermission(members[c.ws][c.actor], RequiredPermission(c.op))
    /\ call' = [call EXCEPT ![r] = c]
    /\ seen' = [seen EXCEPT ![r].actor = members[c.ws][c.actor]]
    /\ Goto(r, "lock")
    /\ UNCHANGED <<tables, locks>>

\* The membership row of the target, read under the workspace lock.
ReadTarget(r) ==
    LET target == members[call[r].ws][call[r].target] IN
    /\ pc[r] = "read"
    /\ target # None
    /\ TargetAllowed(call[r], seen[r].actor, target)
    /\ seen' = [seen EXCEPT ![r].target = target]
    /\ Goto(r, IF target = "owner" /\ call[r].role # "owner" THEN "count" ELSE "write")
    /\ UNCHANGED <<tables, locks, call>>

\* NotFoundError or AuthorizationError.
RefuseTarget(r) ==
    LET target == members[call[r].ws][call[r].target] IN
    /\ pc[r] = "read"
    /\ target = None \/ ~TargetAllowed(call[r], seen[r].actor, target)
    /\ Rollback(r)

CountOwners(r) ==
    /\ pc[r] = "count"
    /\ ~LastOwner(call[r].ws)
    /\ Goto(r, "write")
    /\ UNCHANGED <<tables, locks, call, seen>>

\* LastOwnerError.
RefuseLastOwner(r) ==
    /\ pc[r] = "count"
    /\ LastOwner(call[r].ws)
    /\ Rollback(r)

\* A change to the role the target already has writes no user row.
SkipUser(r) ==
    /\ pc[r] = "write"
    /\ ~Bumps(r)
    /\ Goto(r, "commit")
    /\ UNCHANGED <<tables, locks, call, seen>>

\* Variant: session_version is computed without waiting for the row's writer.
LockUserWithoutWait(r) ==
    LET u == call[r].target IN
    /\ pc[r] = "write"
    /\ Bumps(r)
    /\ userLock' = [userLock EXCEPT ![u] = r]
    /\ seen' = [seen EXCEPT ![r].version = NextVersion(u)]
    /\ Goto(r, "commit")
    /\ UNCHANGED <<tables, workspaceLock, call>>

\* UPDATE users SET session_version = session_version + 1: waits for the row,
\* then computes from what the last writer committed.
LockUser(r) ==
    LET u == call[r].target IN
    /\ pc[r] = "write"
    /\ Bumps(r)
    /\ userLock[u] = None
    /\ userLock' = [userLock EXCEPT ![u] = r]
    /\ seen' = [seen EXCEPT ![r].version = NextVersion(u)]
    /\ Goto(r, "commit")
    /\ UNCHANGED <<tables, workspaceLock, call>>

\* The audit event and the commit.  Only change_role reads its result back.
Commit(r) ==
    LET c == call[r] IN
    /\ pc[r] = "commit"
    /\ members' = [members EXCEPT ![c.ws][c.target] = c.role]
    /\ sessionVersion' = IF Bumps(r)
                         THEN [sessionVersion EXCEPT ![c.target] = seen[r].version]
                         ELSE sessionVersion
    /\ audit' = Append(audit,
           [type |-> IF c.op = "change_role" THEN "role_changed" ELSE "removed",
            ws |-> c.ws, actor |-> c.actor, subject |-> c.target,
            from |-> seen[r].target, to |-> c.role])
    /\ ReleaseLocks(r)
    /\ IF c.op = "change_role"
       THEN Goto(r, "readback") /\ UNCHANGED <<call, seen>>
       ELSE Finish(r)
    /\ UNCHANGED workspaces

--------------------------------------------------------------------------------
(* create_workspace: nobody can name the tenant before it is committed, so its *)
(* transaction is one step.  A slug already taken is a ConflictError.          *)

CreateWorkspace(r, c) ==
    /\ pc[r] = "idle"
    /\ Budget
    /\ c.op \in Operations
    /\ c.ws \notin workspaces
    /\ c.target = c.actor
    /\ workspaces' = workspaces \cup {c.ws}
    /\ members' = [members EXCEPT ![c.ws][c.actor] = "owner"]
    /\ audit' = Append(audit,
           [type |-> "created", ws |-> c.ws, actor |-> c.actor, subject |-> c.actor,
            from |-> None, to |-> "owner"])
    /\ call' = [call EXCEPT ![r] = c]
    /\ Goto(r, "readback")
    /\ UNCHANGED <<sessionVersion, locks, seen>>

--------------------------------------------------------------------------------
\* The read-back after the commit.  Whether it finds the row or its assertion fails, the
\* call is over and nothing else changes.
ReadBack(r) ==
    /\ pc[r] = "readback"
    /\ Finish(r)
    /\ UNCHANGED <<tables, locks>>

\* The client disconnects, the connection drops or the process restarts: an open
\* transaction is rolled back, a committed one only loses its answer.
Abandon(r) ==
    /\ pc[r] # "idle"
    /\ Rollback(r)

Init ==
    /\ workspaces \in SUBSET Workspaces
    /\ members \in [Workspaces -> [Users -> Role \cup {None}]]
    /\ \A w \in Workspaces : Owners(w) # {} <=> w \in workspaces
    /\ \A w \in Workspaces \ workspaces : members[w] = [u \in Users |-> None]
    /\ sessionVersion = [u \in Users |-> 0]
    /\ audit = <<>>
    /\ workspaceLock = [w \in Workspaces |-> None]
    /\ userLock = [u \in Users |-> None]
    /\ pc = [r \in Requests |-> "idle"]
    /\ call = [r \in Requests |-> None]
    /\ seen = [r \in Requests |-> Unread]

\* The steps a request takes once it has been called.
Proceed(r) ==
    \/ LockWorkspace(r)
    \/ ReadTarget(r)
    \/ RefuseTarget(r)
    \/ CountOwners(r)
    \/ RefuseLastOwner(r)
    \/ SkipUser(r)
    \/ LockUser(r)
    \/ Commit(r)
    \/ ReadBack(r)

Start(r) ==
    \/ \E c \in ChangeRoleCall \cup RemoveCall : Authorize(r, c)
    \/ \E c \in CreateCall : CreateWorkspace(r, c)

Quiet == \A r \in Requests : pc[r] = "idle"

\* Every call has been answered and no other will come.
Rest == Quiet /\ UNCHANGED vars

Next == (\E r \in Requests : Start(r) \/ Proceed(r) \/ Abandon(r)) \/ Rest

Spec == Init /\ [][Next]_vars

--------------------------------------------------------------------------------
(* Properties.                                                                 *)

\* Every table, lock and request variable holds a value of its kind.
TypeOK ==
    /\ workspaces \in SUBSET Workspaces
    /\ members \in [Workspaces -> [Users -> Role \cup {None}]]
    /\ sessionVersion \in [Users -> Nat]
    /\ audit \in Seq(AuditEntry)
    /\ workspaceLock \in [Workspaces -> Requests \cup {None}]
    /\ userLock \in [Users -> Requests \cup {None}]
    /\ pc \in [Requests -> Labels]
    /\ call \in [Requests -> Call \cup {None}]
    /\ seen \in [Requests -> Seen]

\* "Workspace must retain at least one owner": two concurrent demotions or
\* removals that each counted two owners would leave none.
OwnerExists == \A w \in workspaces : \E u \in Users : members[w][u] = "owner"

\* A commit never removes, demotes or promotes an owner or administrator unless
\* the actor was authorised as an owner: the rule is checked against a row that
\* another request may be changing.
PrivilegedRowsNeedOwner ==
    [][\A r \in Requests, w \in Workspaces, u \in Users :
         (/\ pc[r] = "commit" /\ pc'[r] # "commit"
          /\ members'[w][u] # members[w][u]
          /\ {members[w][u], members'[w][u]} \cap Privileged # {})
         => seen[r].actor = "owner"]_vars

(* The inductive invariant behind the safety properties.                       *)

\* A request past its authorisation has a call on a tenant that exists.
CallPresent == \A r \in Requests : pc[r] # "idle" =>
    /\ call[r] \in Call
    /\ call[r].ws \in workspaces
    /\ pc[r] # "readback" => call[r].op # "create_workspace"

LocksHeld == \A r \in Requests :
    pc[r] \in InTransaction => workspaceLock[call[r].ws] = r

\* What was read of the target is still so, and satisfies the actor's bounds.
TargetCurrent == \A r \in Requests : pc[r] \in {"count", "write", "commit"} =>
    /\ seen[r].target # None
    /\ seen[r].target = members[call[r].ws][call[r].target]
    /\ TargetAllowed(call[r], seen[r].actor, seen[r].target)

\* Past the count, a request about to drop an owner leaves another one.
OwnerCounted == \A r \in Requests : pc[r] \in {"write", "commit"} /\ DropsOwner(r) =>
    \E u \in Users \ {call[r].target} : members[call[r].ws][u] = "owner"

VersionCurrent == \A r \in Requests : pc[r] = "commit" /\ Bumps(r) =>
    /\ userLock[call[r].target] = r
    /\ seen[r].version = sessionVersion[call[r].target] + 1

\* Every request between its lock and its commit works on what it has read.
IInv ==
    /\ TypeOK
    /\ CallPresent
    /\ LocksHeld
    /\ TargetCurrent
    /\ OwnerCounted
    /\ VersionCurrent
    /\ OwnerExists

\* Whoever gains, loses or changes a role in an existing tenant has every session
\* issued before it ended in the same commit.
RoleChangeEndsSessions ==
    [][\A w \in workspaces, u \in Users :
         members'[w][u] # members[w][u] => sessionVersion'[u] > sessionVersion[u]]_vars

\* No increment of session_version is lost when two tenants change the same user.
SessionVersionCounts ==
    \A u \in Users :
        sessionVersion[u] =
            Cardinality({i \in DOMAIN audit : /\ audit[i].subject = u
                                              /\ audit[i].type # "created"
                                              /\ audit[i].from # audit[i].to})

\* The entries about one membership form a chain: each recorded change starts
\* from the role the entry before it left, and the last one left the present role.
EntriesAbout(w, u) == {i \in DOMAIN audit : audit[i].ws = w /\ audit[i].subject = u}

AuditChain ==
    \A w \in Workspaces, u \in Users : \A i \in EntriesAbout(w, u) :
        /\ \A j \in EntriesAbout(w, u) :
               (i < j /\ \A k \in EntriesAbout(w, u) : k <= i \/ j <= k)
                   => audit[j].from = audit[i].to
        /\ (\A j \in EntriesAbout(w, u) : j <= i) => members[w][u] = audit[i].to

\* Every call is answered: no lock is left behind and no two requests wait for
\* each other, whichever handlers of the repository run together.
EveryCallEnds == \A r \in Requests : pc[r] # "idle" ~> pc[r] = "idle"

\* Whatever the requests do in between, what they commit is a step of the contract:
\* roles and session versions change together, and no tenant loses its last owner.
Contract == INSTANCE Tenancy WITH
    workspaces <- workspaces, members <- members, sessionVersion <- sessionVersion

ImplementsTenancy == Contract!Spec

\* change_role promises to preserve "admin bounds": what it commits for a member
\* who is an administrator by then never touches or grants a privileged role.
AdminBounds ==
    [][\A r \in Requests :
         (/\ pc[r] = "commit" /\ pc'[r] = "readback"
          /\ members[call[r].ws][call[r].actor] = "admin")
         => MayChangeRole("admin", seen[r].target, call[r].role)]_vars
================================================================================
