------------------------------ MODULE Invitations ------------------------------
(* Invitations on top of Memberships: issue_invitation, revoke_invitation,     *)
(* accept_invitation and register_from_invitation, by the same requests, under *)
(* the same row locks, together with the membership operations they race with. *)
(*                                                                             *)
(* An identity is its normalised e-mail address, so a member of Users that is  *)
(* not registered is an address without a row in workspace_core_users.  A      *)
(* token stands for the row whose digest it is: the index of the invitation.   *)
(* Time runs in ticks, several to a second, because the handlers compare       *)
(* stamps cut to whole seconds with a clock that is not.                       *)
EXTENDS Memberships

CONSTANTS
    TicksPerSecond,
    MaxTime,       \* bound on the clock, in ticks
    MaxLifetime    \* longest lifetime a caller may ask for, in ticks: 30 days there

ASSUME TimeAssumption == /\ TicksPerSecond \in Nat \ {0}
                         /\ MaxTime \in Nat /\ MaxLifetime \in Nat

VARIABLES
    registered,   \* identities with a row in workspace_core_users
    invitations,  \* workspace_core_invitations, in order of insertion
    clock         \* the wall clock

inviteVars == <<registered, invitations, clock>>
allVars    == <<vars, inviteVars>>

\* _stamp: isoformat(timespec="seconds") drops what is below the second.
Stamp(t) == t - (t % TicksPerSecond)

--------------------------------------------------------------------------------
(* Calls and rows.                                                             *)

InviteRole == Role \ {"owner"}

Invitation == [ws : Workspaces, email : Users, role : InviteRole, expires : Nat,
               accepted : BOOLEAN, revoked : BOOLEAN]

IssueCall  == [op : {"issue_invitation"}, actor : Users, ws : Workspaces, target : Users,
               role : InviteRole, now : Nat, expires : Nat]
RevokeCall == [op : {"revoke_invitation"}, actor : Users, ws : Workspaces, token : Nat]
\* accept_invitation and register_from_invitation name the tenant of the token's row.
JoinCall   == [op : {"accept_invitation", "register_from_invitation"}, ws : Workspaces,
               target : Users, token : Nat]

InviteCall == IssueCall \cup RevokeCall \cup JoinCall

InviteLabels == {"tenant", "decide", "user", "store"}

Active(i) == ~invitations[i].accepted /\ ~invitations[i].revoked

ActiveFor(w, u) ==
    {i \in DOMAIN invitations :
        invitations[i].ws = w /\ invitations[i].email = u /\ Active(i)}

\* Variant: the state of the row is not looked at again.
UnexpiredOnly(i) == invitations[i].expires > clock

\* _validate_invitation_state, with a fresh reading of the clock.
Usable(i) == Active(i) /\ invitations[i].expires > clock

Event(type, w, actor, subject, to) ==
    [type |-> type, ws |-> w, actor |-> actor, subject |-> subject, from |-> None, to |-> to]

\* Steps that change only where one request stands.
Advance(r, from, to) ==
    /\ pc[r] = from
    /\ Goto(r, to)
    /\ UNCHANGED <<tables, locks, inviteVars, call, seen>>

Begin(r, c) ==
    /\ pc[r] = "idle"
    /\ Budget
    /\ c.op \in Operations
    /\ call' = [call EXCEPT ![r] = c]
    /\ Goto(r, "tenant")
    /\ UNCHANGED <<tables, locks, inviteVars>>

Abort(r) == Rollback(r) /\ UNCHANGED inviteVars

--------------------------------------------------------------------------------
(* Before the lock: authority, the clock and the token's row.                  *)

\* issue_invitation reads the actor's role and the clock outside the transaction.
Issue(r, actor, w, email, role, lifetime) ==
    /\ w \in workspaces
    /\ HasPermission(members[w][actor], "members:invite")
    /\ MayInvite(members[w][actor], role)
    /\ lifetime > 0
    /\ Begin(r, [op |-> "issue_invitation", actor |-> actor, ws |-> w, target |-> email,
                 role |-> role, now |-> clock, expires |-> Stamp(clock + lifetime)])
    /\ UNCHANGED seen

Revoke(r, actor, w, token) ==
    /\ w \in workspaces
    /\ HasPermission(members[w][actor], "members:invite")
    /\ Begin(r, [op |-> "revoke_invitation", actor |-> actor, ws |-> w, token |-> token])
    /\ UNCHANGED seen

\* The first read of the token's row tells which tenant to lock.
Accept(r, u, token) ==
    /\ u \in registered
    /\ Begin(r, [op |-> "accept_invitation", ws |-> invitations[token].ws,
                 target |-> u, token |-> token])
    /\ UNCHANGED seen

Register(r, token) ==
    /\ Begin(r, [op |-> "register_from_invitation", ws |-> invitations[token].ws,
                 target |-> invitations[token].email, token |-> token])
    /\ UNCHANGED seen

\* Variant: the row lock is never waited for.
LockTenantWithoutWait(r) ==
    /\ pc[r] = "tenant"
    /\ workspaceLock' = [workspaceLock EXCEPT ![call[r].ws] = r]
    /\ Goto(r, "decide")
    /\ UNCHANGED <<tables, userLock, inviteVars, call, seen>>

\* _lock_workspace, as the invitation handlers call it.
LockTenant(r) ==
    /\ pc[r] = "tenant"
    /\ workspaceLock[call[r].ws] = None
    /\ workspaceLock' = [workspaceLock EXCEPT ![call[r].ws] = r]
    /\ Goto(r, "decide")
    /\ UNCHANGED <<tables, userLock, inviteVars, call, seen>>

--------------------------------------------------------------------------------
(* Under the lock.                                                             *)

\* Variant: only an invitation that outlasts the new one blocks it.
BlockedByLonger(c) == \E i \in ActiveFor(c.ws, c.target) : invitations[i].expires > c.expires

\* An invitation that is active and unexpired blocks a second one; the expiry is
\* compared with the clock as it was read before the lock.
Blocked(c) == \E i \in ActiveFor(c.ws, c.target) : invitations[i].expires > c.now

Revocable(c) == c.token \in DOMAIN invitations
                /\ invitations[c.token].ws = c.ws
                /\ Active(c.token)

\* The checks accept_invitation makes on the row read again under the lock.
Acceptable(c) ==
    /\ Usable(c.token)
    /\ invitations[c.token].email = c.target
    /\ members[c.ws][c.target] = None

Registrable(c) == Usable(c.token) /\ c.target \notin registered

Granted(c) ==
    CASE c.op = "issue_invitation"  -> ~Blocked(c)
      [] c.op = "revoke_invitation" -> Revocable(c)
      [] c.op = "accept_invitation" -> Acceptable(c)
      [] c.op = "register_from_invitation" -> Registrable(c)

Joins(c) == c.op \in {"accept_invitation", "register_from_invitation"}

Decide(r) ==
    /\ pc[r] = "decide"
    /\ Granted(call[r])
    /\ Advance(r, "decide", IF Joins(call[r]) THEN "user" ELSE "store")

\* Duplicate, not found, accepted, revoked, expired, mismatched or conflicting.
Refuse(r) ==
    /\ pc[r] = "decide"
    /\ ~Granted(call[r])
    /\ Abort(r)

\* Variant: no unique index on normalized_email.
TakeUserUnindexed(r) ==
    LET u == call[r].target IN
    /\ pc[r] = "user"
    /\ userLock[u] = None
    /\ userLock' = [userLock EXCEPT ![u] = r]
    /\ seen' = [seen EXCEPT ![r].version = NextVersion(u)]
    /\ Goto(r, "store")
    /\ UNCHANGED <<tables, workspaceLock, inviteVars, call>>

\* Variant: the other tenants that invite the user are locked as well, after the
\* user's row.
TakeUserThenTenants(r) ==
    LET u == call[r].target IN
    /\ pc[r] = "user"
    /\ call[r].op = "register_from_invitation" => u \notin registered
    /\ \/ /\ userLock[u] = None
          /\ userLock' = [userLock EXCEPT ![u] = r]
          /\ UNCHANGED <<seen, pc>>
       \/ /\ userLock[u] = r
          /\ \A w \in workspaces :
                 ActiveFor(w, u) # {} => workspaceLock[w] \in {None, r}
          /\ seen' = [seen EXCEPT ![r].version = NextVersion(u)]
          /\ Goto(r, "store")
          /\ UNCHANGED userLock
    /\ UNCHANGED <<tables, workspaceLock, inviteVars, call>>

\* The joining user's row: accept_invitation increments session_version under its
\* row lock, register_from_invitation inserts it with version 1 and an INSERT
\* waits for another one of the same address to finish.
TakeUser(r) ==
    LET u == call[r].target IN
    /\ pc[r] = "user"
    /\ userLock[u] = None
    /\ call[r].op = "register_from_invitation" => u \notin registered
    /\ userLock' = [userLock EXCEPT ![u] = r]
    /\ seen' = [seen EXCEPT ![r].version = NextVersion(u)]
    /\ Goto(r, "store")
    /\ UNCHANGED <<tables, workspaceLock, inviteVars, call>>

\* The unique index on normalized_email refuses the INSERT: the QueryError has no
\* handler in register_from_invitation.
AddressTaken(r) ==
    /\ pc[r] = "user"
    /\ userLock[call[r].target] = None
    /\ call[r].op = "register_from_invitation"
    /\ call[r].target \in registered
    /\ Abort(r)

--------------------------------------------------------------------------------
(* Commits.                                                                    *)

\* Variant: the expired invitation it replaces is left as it was.
ReplacedKept(c) == invitations

\* The active row for the address has expired: it is revoked in passing.
Replaced(c) ==
    [i \in DOMAIN invitations |->
        IF i \in ActiveFor(c.ws, c.target)
        THEN [invitations[i] EXCEPT !.revoked = TRUE] ELSE invitations[i]]

StoreIssued(r) ==
    LET c == call[r] IN
    /\ pc[r] = "store"
    /\ c.op = "issue_invitation"
    /\ invitations' = Append(Replaced(c),
           [ws |-> c.ws, email |-> c.target, role |-> c.role, expires |-> c.expires,
            accepted |-> FALSE, revoked |-> FALSE])
    /\ audit' = Append(audit, Event("issued", c.ws, c.actor, Len(invitations) + 1, None))
    /\ ReleaseLocks(r)
    /\ Finish(r)
    /\ UNCHANGED <<workspaces, members, sessionVersion, registered, clock>>

\* UPDATE ... SET revoked_at, which a closed row does not match; nobody looks at the
\* number of rows.
RevokedIfActive(token) ==
    IF Active(token) THEN [invitations EXCEPT ![token].revoked = TRUE] ELSE invitations

StoreRevoked(r) ==
    LET c == call[r] IN
    /\ pc[r] = "store"
    /\ c.op = "revoke_invitation"
    /\ invitations' = RevokedIfActive(c.token)
    /\ audit' = Append(audit, Event("revoked", c.ws, c.actor, c.token, None))
    /\ ReleaseLocks(r)
    /\ Finish(r)
    /\ UNCHANGED <<workspaces, members, sessionVersion, registered, clock>>

\* Variant: the membership is stored and the invitation left unconsumed.
Unconsumed(token) == invitations

\* UPDATE ... SET accepted_at.  Its condition and the error "accepted concurrently" are
\* left out here: ConsumptionNeverRaces says that the row is always open.
Consumed(token) == [invitations EXCEPT ![token].accepted = TRUE]

\* Variant: the join leaves the sessions of the joining user alone.
VersionKept(r) == sessionVersion

JoinVersion(r) == [sessionVersion EXCEPT ![call[r].target] = seen[r].version]

\* Both joins: the membership, the consumed invitation, the user row, the event.
StoreMembership(r) ==
    LET c == call[r]  role == invitations[c.token].role IN
    /\ pc[r] = "store"
    /\ Joins(c)
    /\ members' = [members EXCEPT ![c.ws][c.target] = role]
    /\ invitations' = Consumed(c.token)
    /\ sessionVersion' = JoinVersion(r)
    /\ registered' = registered \cup {c.target}
    /\ audit' = Append(audit, Event("accepted", c.ws, c.target, c.target, role))
    /\ ReleaseLocks(r)
    /\ Goto(r, "readback")
    /\ UNCHANGED <<workspaces, clock, call, seen>>

--------------------------------------------------------------------------------
Tick == /\ clock < MaxTime
        /\ clock' = clock + 1
        /\ UNCHANGED <<vars, registered, invitations>>

\* create_user: one INSERT, no transaction, no tenant.
CreateUser(u) ==
    /\ "create_user" \in Operations
    /\ u \notin registered
    /\ userLock[u] = None
    /\ registered' = registered \cup {u}
    /\ UNCHANGED <<vars, invitations, clock>>

InvitationStart(r) ==
    \/ \E actor, email \in Users, w \in Workspaces, role \in Role,
          lifetime \in 1..MaxLifetime : Issue(r, actor, w, email, role, lifetime)
    \/ \E actor \in Users, w \in Workspaces, token \in DOMAIN invitations :
          Revoke(r, actor, w, token)
    \/ \E u \in Users, token \in DOMAIN invitations : Accept(r, u, token)
    \/ \E token \in DOMAIN invitations : Register(r, token)

InvitationProceed(r) ==
    \/ LockTenant(r)
    \/ Decide(r)
    \/ Refuse(r)
    \/ TakeUser(r)
    \/ AddressTaken(r)
    \/ StoreIssued(r)
    \/ StoreRevoked(r)
    \/ StoreMembership(r)

MembershipStart(r) ==
    \/ \E c \in ChangeRoleCall \cup RemoveCall : Authorize(r, c)
    \/ \E c \in CreateCall : c.actor \in registered /\ CreateWorkspace(r, c)

MembershipStep(r) ==
    /\ MembershipStart(r) \/ Proceed(r) \/ Abandon(r)
    /\ UNCHANGED inviteVars

InvitationInit ==
    /\ Init
    /\ registered \in SUBSET Users
    /\ \A w \in Workspaces, u \in Users : members[w][u] # None => u \in registered
    /\ invitations = <<>>
    /\ clock = 0

InvitationNext ==
    \/ \E r \in Requests : InvitationStart(r) \/ InvitationProceed(r) \/ MembershipStep(r)
    \/ \E u \in Users : CreateUser(u)
    \/ Tick
    \/ Rest /\ UNCHANGED inviteVars

InvitationSpec == InvitationInit /\ [][InvitationNext]_allVars

\* A started call runs on: PostgreSQL grants a row lock in arrival order, so a
\* waiter is not passed over for ever, and the event loop resumes every task.
InvitationFairness == \A r \in Requests :
    SF_allVars((Proceed(r) /\ UNCHANGED inviteVars) \/ InvitationProceed(r))

--------------------------------------------------------------------------------
(* Properties.                                                                 *)

InvitationAuditEntry ==
    [type : {"created", "role_changed", "removed", "issued", "revoked", "accepted"},
     ws : Workspaces, actor : Users, subject : Users \cup Nat,
     from : Role \cup {None}, to : Role \cup {None}]

\* Every table, lock and request variable holds a value of its kind; only
\* identities that exist are members, and no row is both accepted and revoked, so
\* the CHECK constraint of the table is never what stops an UPDATE.
InvitationTypeOK ==
    /\ workspaces \in SUBSET Workspaces
    /\ members \in [Workspaces -> [Users -> Role \cup {None}]]
    /\ \A w \in Workspaces, u \in Users : members[w][u] # None => u \in registered
    /\ sessionVersion \in [Users -> Nat]
    /\ audit \in Seq(InvitationAuditEntry)
    /\ workspaceLock \in [Workspaces -> Requests \cup {None}]
    /\ userLock \in [Users -> Requests \cup {None}]
    /\ pc \in [Requests -> Labels \cup InviteLabels]
    /\ \A r \in Requests : call[r] = None \/ call[r] \in Call \cup InviteCall
    /\ seen \in [Requests -> Seen]
    /\ registered \in SUBSET Users
    /\ invitations \in Seq(Invitation)
    /\ \A i \in DOMAIN invitations : ~(invitations[i].accepted /\ invitations[i].revoked)
    /\ clock \in 0..MaxTime

\* At most one invitation is open for an address in a tenant, so the partial unique
\* index is never what refuses an issue.
OneActivePerEmail ==
    \A w \in Workspaces, u \in Users : Cardinality(ActiveFor(w, u)) <= 1

\* An invitation is closed once: accepted or revoked, never both, never reopened,
\* and no row is rewritten otherwise.
ClosedForGood ==
    [][\A i \in DOMAIN invitations :
         LET old == invitations[i]  new == invitations'[i] IN
         new # old => /\ ~old.accepted /\ ~old.revoked
                      /\ \/ new = [old EXCEPT !.accepted = TRUE]
                         \/ new = [old EXCEPT !.revoked = TRUE]]_allVars

\* Nobody enters an existing tenant without an open invitation to that tenant, for
\* that address and that role, which the same commit closes.
JoinConsumesInvitation ==
    [][\A w \in workspaces, u \in Users :
         members[w][u] = None /\ members'[w][u] # None =>
             \E i \in DOMAIN invitations :
                 /\ invitations[i].ws = w /\ invitations[i].email = u
                 /\ invitations[i].role = members'[w][u]
                 /\ Active(i) /\ invitations'[i].accepted]_allVars

\* An issue replaces an invitation only once that one has expired, although it compares
\* the expiry with a clock it read before it waited for the tenant: nobody's invitation
\* that could still be accepted disappears in passing.
OnlyExpiredReplaced ==
    [][\A i \in DOMAIN invitations :
         (Active(i) /\ Len(invitations') > Len(invitations) /\ invitations'[i].revoked)
         => invitations[i].expires <= clock]_allVars

\* An address becomes an identity once: a registration never stores its password
\* and its membership over an identity that another tenant or create_user made.
IdentityCreatedOnce ==
    [][\A r \in Requests :
         (/\ pc[r] = "store" /\ pc'[r] = "readback"
          /\ call[r].op = "register_from_invitation")
         => call[r].target \notin registered]_allVars

\* The invitation that passed its checks is still open when the conditional UPDATE
\* consumes it: "accepted concurrently" is never raised.
ConsumptionNeverRaces ==
    \A r \in Requests :
        pc[r] \in {"user", "store"} /\ Joins(call[r]) => Active(call[r].token)
================================================================================
