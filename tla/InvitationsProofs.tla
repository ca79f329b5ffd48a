--------------------------- MODULE InvitationsProofs ---------------------------
(* Machine-checked proofs about Invitations: the invitation and the membership *)
(* handlers together, for any users, tenants, requests, lifetimes and clock.   *)
(*                                                                             *)
(* The argument is by what a step of one request leaves to the others: whoever *)
(* holds a tenant's row finds that tenant's members and invitations unchanged, *)
(* and whoever holds a user's row finds that user's version unchanged.         *)
EXTENDS Invitations, MembershipsProofs

--------------------------------------------------------------------------------
(* The inductive invariant.                                                    *)

\* A request past its authorisation carries a call its handler can have, on a tenant
\* that exists.
WellCalled(r) ==
    /\ pc[r] \in Labels \ {"idle", "readback"} => call[r] \in ChangeRoleCall \cup RemoveCall
    /\ pc[r] \in InviteLabels => call[r] \in InviteCall
    /\ pc[r] = "user" => Joins(call[r])
    /\ pc[r] \notin {"idle", "readback"} => call[r].ws \in workspaces

\* Every handler holds its tenant's row from its lock to its commit.
HoldsTenant(r) ==
    pc[r] \in InTransaction \cup {"decide", "user", "store"} => workspaceLock[call[r].ws] = r

\* A user row written is held, and its version is the next one.
HoldsUser(r) ==
    \/ pc[r] = "commit" /\ Bumps(r)
    \/ pc[r] = "store" /\ Joins(call[r])
    => /\ userLock[call[r].target] = r
       /\ seen[r].version = sessionVersion[call[r].target] + 1

\* What change_role and remove_membership read of the target is still so.
TargetKnown(r) ==
    pc[r] \in {"count", "write", "commit"} =>
        /\ seen[r].target # None
        /\ seen[r].target = members[call[r].ws][call[r].target]

\* Past the count, a request about to drop an owner leaves another one.
OwnerLeft(r) ==
    pc[r] \in {"write", "commit"} /\ DropsOwner(r) =>
        \E u \in Users \ {call[r].target} : members[call[r].ws][u] = "owner"

\* The row a join was called with names the tenant and, for a registration, the address.
TokenKnown(r) ==
    pc[r] \in InviteLabels /\ Joins(call[r]) =>
        /\ call[r].token \in DOMAIN invitations
        /\ invitations[call[r].token].ws = call[r].ws
        /\ IF call[r].op = "accept_invitation" THEN call[r].target \in registered
           ELSE invitations[call[r].token].email = call[r].target

\* What the handler decided under the lock still stands when it writes.
GrantStands(r) ==
    pc[r] \in {"user", "store"} =>
        /\ call[r].op = "issue_invitation" => ~Blocked(call[r])
        /\ call[r].op = "revoke_invitation" => Revocable(call[r])
        /\ Joins(call[r]) =>
            /\ Active(call[r].token)
            /\ invitations[call[r].token].email = call[r].target
            /\ members[call[r].ws][call[r].target] = None

\* The address a registration is about to insert is nobody's identity yet.
AddressFree(r) ==
    pc[r] = "store" /\ call[r].op = "register_from_invitation" => call[r].target \notin registered

\* An issue compares with a clock that has only moved on since.
ClockRead(r) ==
    pc[r] \in InviteLabels /\ call[r].op = "issue_invitation" => call[r].now <= clock

RequestInv(r) ==
    /\ WellCalled(r) /\ HoldsTenant(r) /\ HoldsUser(r) /\ TargetKnown(r) /\ OwnerLeft(r)
    /\ TokenKnown(r) /\ GrantStands(r) /\ AddressFree(r) /\ ClockRead(r)

\* Invitations belong to tenants that exist, and two open ones differ in tenant or address.
RowsInv ==
    /\ \A i \in DOMAIN invitations : invitations[i].ws \in workspaces
    /\ \A i, j \in DOMAIN invitations :
           /\ Active(i) /\ Active(j)
           /\ invitations[i].ws = invitations[j].ws /\ invitations[i].email = invitations[j].email
           => i = j

\* Every table is well formed, and every tenant keeps an owner.
TablesInv ==
    /\ InvitationTypeOK
    /\ call \in [Requests -> Call \cup InviteCall \cup {None}]
    /\ RowsInv
    /\ OwnerExists

InvitationInv == TablesInv /\ \A r \in Requests : RequestInv(r)

\* What a step of r leaves to every other request: where it stands, and what its
\* locks protect.
LeavesOthers(r) ==
    /\ \A s \in Requests \ {r} : pc'[s] = pc[s] /\ call'[s] = call[s] /\ seen'[s] = seen[s]
    /\ workspaces \subseteq workspaces'
    /\ registered \subseteq registered'
    /\ clock <= clock'
    /\ \A w \in workspaces : workspaceLock[w] \notin {None, r} =>
           /\ workspaceLock'[w] = workspaceLock[w]
           /\ members'[w] = members[w]
           /\ \A i \in DOMAIN invitations' : invitations'[i].ws = w =>
                  i \in DOMAIN invitations /\ invitations'[i] = invitations[i]
    /\ \A u \in Users : userLock[u] \notin {None, r} =>
           /\ userLock'[u] = userLock[u]
           /\ sessionVersion'[u] = sessionVersion[u]
           /\ u \in registered' => u \in registered
    /\ \A i \in DOMAIN invitations :
           /\ i \in DOMAIN invitations'
           /\ invitations'[i].ws = invitations[i].ws
           /\ invitations'[i].email = invitations[i].email

--------------------------------------------------------------------------------
(* Lemmas about the operators.                                                 *)

\* A stamp is a time.
LEMMA StampType ==
    ASSUME NEW t \in Nat
    PROVE  Stamp(t) \in Nat
<1>1. t % TicksPerSecond \in Nat /\ t % TicksPerSecond <= t
    BY TimeAssumption
<1> QED
    BY <1>1 DEF Stamp

\* Every field of an invitation call.
LEMMA InviteCallFields ==
    ASSUME NEW c \in InviteCall
    PROVE  /\ c.ws \in Workspaces
           /\ c.op \in {"issue_invitation", "revoke_invitation", "accept_invitation",
                        "register_from_invitation"}
           /\ c.op = "issue_invitation" =>
                  /\ c.actor \in Users /\ c.target \in Users /\ c.role \in InviteRole
                  /\ c.now \in Nat /\ c.expires \in Nat
           /\ c.op = "revoke_invitation" => c.actor \in Users /\ c.token \in Nat
           /\ Joins(c) => c.target \in Users /\ c.token \in Nat
BY DEF InviteCall, IssueCall, RevokeCall, JoinCall, Joins

\* Whatever handler a request runs inside a transaction, its tenant exists.
LEMMA TenantOf ==
    ASSUME InvitationInv, NEW r \in Requests, pc[r] \notin {"idle", "readback"}
    PROVE  call[r].ws \in workspaces /\ call[r].ws \in Workspaces
BY DEF InvitationInv, TablesInv, RequestInv, WellCalled, InvitationTypeOK

\* A request past its lock on a tenant excludes every other one there.
LEMMA TenantExclusive ==
    ASSUME InvitationInv, NEW r \in Requests, NEW s \in Requests,
           pc[r] \in InTransaction \cup {"decide", "user", "store"},
           pc[s] \in InTransaction \cup {"decide", "user", "store"},
           call[r].ws = call[s].ws
    PROVE  r = s
BY DEF InvitationInv, RequestInv, HoldsTenant

\* A request that is idle or reads back relies on nothing.
LEMMA AtRest ==
    ASSUME NEW r \in Requests, pc'[r] \in {"idle", "readback"}
    PROVE  RequestInv(r)'
BY DEF RequestInv, WellCalled, HoldsTenant, HoldsUser, TargetKnown, OwnerLeft, TokenKnown,
       GrantStands, AddressFree, ClockRead, InTransaction, InviteLabels

\* The target of a membership call or of a join is a user.
LEMMA TargetOf ==
    ASSUME InvitationInv, NEW r \in Requests,
           \/ pc[r] \in Labels \ {"idle", "readback"}
           \/ pc[r] \in InviteLabels /\ Joins(call[r])
    PROVE  call[r].target \in Users
<1>1. CASE pc[r] \in Labels \ {"idle", "readback"}
    BY <1>1, CallFields DEF InvitationInv, RequestInv, WellCalled, Call
<1>2. CASE pc[r] \in InviteLabels /\ Joins(call[r])
    BY <1>2, InviteCallFields DEF InvitationInv, RequestInv, WellCalled
<1> QED
    BY <1>1, <1>2

\* What a request relies on survives a step of anybody else.
LEMMA OthersKept ==
    ASSUME InvitationInv, NEW r, NEW s \in Requests, s # r, LeavesOthers(r),
           InvitationTypeOK'
    PROVE  RequestInv(s)'
<1> DEFINE w == call[s].ws
           u == call[s].target
<1>1. pc'[s] = pc[s] /\ call'[s] = call[s] /\ seen'[s] = seen[s]
    BY DEF LeavesOthers
<1>2. CASE pc[s] \in {"idle", "readback"}
    BY <1>1, <1>2, AtRest
<1>3. CASE pc[s] \notin {"idle", "readback"}
    <2>1. w \in workspaces /\ w \in Workspaces /\ s # None
        BY <1>3, TenantOf, NoneAssumption
    <2>2. ASSUME pc[s] \in InTransaction \cup {"decide", "user", "store"}
          PROVE  /\ workspaceLock[w] = s /\ workspaceLock'[w] = s /\ members'[w] = members[w]
                 /\ \A i \in DOMAIN invitations' : invitations'[i].ws = w =>
                        i \in DOMAIN invitations /\ invitations'[i] = invitations[i]
        <3>1. workspaceLock[w] = s
            BY <2>2 DEF InvitationInv, RequestInv, HoldsTenant
        <3> QED
            BY <2>1, <3>1 DEF LeavesOthers
    <2>3. WellCalled(s)'
        BY <1>1 DEF InvitationInv, RequestInv, WellCalled, LeavesOthers, Joins
    <2>4. HoldsTenant(s)'
        BY <1>1, <2>2 DEF HoldsTenant
    <2>5. HoldsUser(s)'
        <3> SUFFICES ASSUME \/ pc[s] = "commit" /\ Bumps(s)
                            \/ pc[s] = "store" /\ Joins(call[s])
                     PROVE  /\ userLock'[u] = s
                            /\ seen[s].version = sessionVersion'[u] + 1
            BY <1>1 DEF HoldsUser, Bumps
        <3>1. userLock[u] = s /\ seen[s].version = sessionVersion[u] + 1
            BY DEF InvitationInv, RequestInv, HoldsUser
        <3>2. u \in Users
            BY TargetOf DEF Labels, InviteLabels
        <3> QED
            BY <2>1, <3>1, <3>2 DEF LeavesOthers
    <2>6. TargetKnown(s)' /\ OwnerLeft(s)'
        BY <1>1, <2>2 DEF TargetKnown, OwnerLeft, DropsOwner, InvitationInv, RequestInv,
                          InTransaction
    <2>7. TokenKnown(s)'
        BY <1>1 DEF InvitationInv, RequestInv, TokenKnown, LeavesOthers
    <2>8. AddressFree(s)'
        <3> SUFFICES ASSUME pc[s] = "store", call[s].op = "register_from_invitation"
                     PROVE  u \notin registered'
            BY <1>1 DEF AddressFree
        <3>1. Joins(call[s])
            BY DEF Joins
        <3>2. userLock[u] = s /\ u \notin registered
            BY <3>1 DEF InvitationInv, RequestInv, HoldsUser, AddressFree
        <3>3. u \in Users
            BY <3>1, TargetOf DEF InviteLabels
        <3> QED
            BY <2>1, <3>2, <3>3 DEF LeavesOthers
    <2>9. ClockRead(s)'
        <3> SUFFICES ASSUME pc[s] \in InviteLabels, call[s].op = "issue_invitation"
                     PROVE  call[s].now <= clock'
            BY <1>1 DEF ClockRead
        <3>1. call[s].now <= clock /\ call[s] \in InviteCall
            BY DEF InvitationInv, RequestInv, ClockRead, WellCalled
        <3>2. call[s].now \in Nat /\ clock \in Nat /\ clock' \in Nat /\ clock <= clock'
            BY <3>1, InviteCallFields, TimeAssumption
            DEF InvitationInv, TablesInv, InvitationTypeOK, LeavesOthers
        <3> QED
            BY <3>1, <3>2
    <2>10. GrantStands(s)'
        <3> SUFFICES ASSUME pc[s] \in {"user", "store"}
                     PROVE  GrantStands(s)'
            BY <1>1 DEF GrantStands
        <3>1. call[s] \in InviteCall
            BY DEF InvitationInv, RequestInv, WellCalled, InviteLabels
        <3>2. ASSUME NEW v \in Users, NEW i \in ActiveFor(w, v)'
              PROVE  i \in ActiveFor(w, v) /\ invitations'[i] = invitations[i]
            BY <1>1, <2>2 DEF ActiveFor, Active
        <3>3. \A i \in DOMAIN invitations : invitations[i].ws = w =>
                  i \in DOMAIN invitations' /\ invitations'[i] = invitations[i]
            BY <2>2 DEF LeavesOthers
        <3>4. call[s].op = "issue_invitation" => ~Blocked(call[s])'
            <4> SUFFICES ASSUME call[s].op = "issue_invitation", Blocked(call[s])'
                         PROVE  FALSE
                OBVIOUS
            <4>1. u \in Users /\ ~Blocked(call[s])
                BY <3>1, InviteCallFields DEF InvitationInv, RequestInv, GrantStands
            <4>2. PICK i \in ActiveFor(w, u)' : invitations'[i].expires > call[s].now
                BY <1>1 DEF Blocked
            <4> QED
                BY <1>1, <3>2, <4>1, <4>2 DEF Blocked
        <3>5. call[s].op = "revoke_invitation" => Revocable(call[s])'
            <4> SUFFICES ASSUME call[s].op = "revoke_invitation"
                         PROVE  Revocable(call[s])'
                OBVIOUS
            <4>1. Revocable(call[s])
                BY DEF InvitationInv, RequestInv, GrantStands
            <4>2. /\ call[s].token \in DOMAIN invitations'
                  /\ invitations'[call[s].token] = invitations[call[s].token]
                BY <3>3, <4>1 DEF Revocable
            <4> QED
                BY <1>1, <4>1, <4>2 DEF Revocable, Active
        <3>6. Joins(call[s]) =>
                  /\ Active(call[s].token)'
                  /\ invitations'[call[s].token].email = call[s].target
                  /\ members'[w][call[s].target] = None
            BY <1>1, <2>2, <3>3 DEF InvitationInv, RequestInv, GrantStands, TokenKnown,
                                    Active, InviteLabels
        <3> QED
            BY <1>1, <3>4, <3>5, <3>6 DEF GrantStands, Joins
    <2> QED
        BY <1>1, <2>3, <2>4, <2>5, <2>6, <2>7, <2>8, <2>9, <2>10 DEF RequestInv
<1> QED
    BY <1>2, <1>3

--------------------------------------------------------------------------------
(* Steps, by what they do to the request that takes them.                      *)

\* A step that leaves the others alone, and the tables and its own request in order.
LEMMA StepInv ==
    ASSUME InvitationInv, NEW r \in Requests, LeavesOthers(r), TablesInv', RequestInv(r)'
    PROVE  InvitationInv'
<1>1. ASSUME NEW s \in Requests, s # r
      PROVE  RequestInv(s)'
    BY <1>1, OthersKept DEF TablesInv
<1> QED
    BY <1>1 DEF InvitationInv

\* Locks given back are the request's own.
LEMMA ReleaseEffect ==
    ASSUME InvitationInv, NEW r \in Requests, ReleaseLocks(r)
    PROVE  /\ workspaceLock' \in [Workspaces -> Requests \cup {None}]
           /\ userLock' \in [Users -> Requests \cup {None}]
           /\ \A w \in Workspaces : workspaceLock[w] # r => workspaceLock'[w] = workspaceLock[w]
           /\ \A u \in Users : userLock[u] # r => userLock'[u] = userLock[u]
<1>1. /\ workspaceLock \in [Workspaces -> Requests \cup {None}]
      /\ userLock \in [Users -> Requests \cup {None}]
    BY DEF InvitationInv, TablesInv, InvitationTypeOK
<1>2. workspaceLock' = ReleasedBy(workspaceLock, r) /\ userLock' = ReleasedBy(userLock, r)
    BY DEF ReleaseLocks
<1> QED
    BY <1>1, <1>2, ReleasedByType

\* A call that ends touches no other.
LEMMA FinishEffect ==
    ASSUME InvitationInv, NEW r \in Requests, Finish(r)
    PROVE  /\ pc' \in [Requests -> Labels \cup InviteLabels] /\ pc'[r] = "idle"
           /\ call' \in [Requests -> Call \cup InviteCall \cup {None}]
           /\ seen' \in [Requests -> Seen]
           /\ \A s \in Requests \ {r} :
                  pc'[s] = pc[s] /\ call'[s] = call[s] /\ seen'[s] = seen[s]
<1>1. Unread \in Seen
    BY DEF Unread, Seen
<1> QED
    BY <1>1 DEF Finish, Goto, Labels, InvitationInv, TablesInv, InvitationTypeOK

\* The tables of a step that writes none of them.
LEMMA TablesKept ==
    ASSUME InvitationInv, UNCHANGED <<tables, inviteVars>>,
           workspaceLock' \in [Workspaces -> Requests \cup {None}],
           userLock' \in [Users -> Requests \cup {None}],
           pc' \in [Requests -> Labels \cup InviteLabels],
           call' \in [Requests -> Call \cup InviteCall \cup {None}],
           seen' \in [Requests -> Seen]
    PROVE  TablesInv'
<1>1. InvitationTypeOK'
    BY DEF InvitationInv, TablesInv, InvitationTypeOK, tables, inviteVars
<1>2. RowsInv'
    BY DEF InvitationInv, TablesInv, RowsInv, Active, tables, inviteVars
<1>3. OwnerExists'
    BY DEF InvitationInv, TablesInv, OwnerExists, tables
<1> QED
    BY <1>1, <1>2, <1>3 DEF TablesInv

\* A refused, abandoned or answered call leaves nothing behind.
LEMMA EndInv ==
    ASSUME InvitationInv, NEW r \in Requests, Finish(r), UNCHANGED <<tables, inviteVars>>,
           ReleaseLocks(r) \/ UNCHANGED locks
    PROVE  InvitationInv'
<1>1. /\ workspaceLock' \in [Workspaces -> Requests \cup {None}]
      /\ userLock' \in [Users -> Requests \cup {None}]
      /\ \A w \in Workspaces : workspaceLock[w] # r => workspaceLock'[w] = workspaceLock[w]
      /\ \A u \in Users : userLock[u] # r => userLock'[u] = userLock[u]
    BY ReleaseEffect DEF locks, InvitationInv, TablesInv, InvitationTypeOK
<1>2. TablesInv'
    BY <1>1, FinishEffect, TablesKept
<1>3. workspaces \subseteq Workspaces /\ clock \in Nat
    BY TimeAssumption DEF InvitationInv, TablesInv, InvitationTypeOK
<1>4. LeavesOthers(r)
    BY <1>1, <1>3, FinishEffect DEF LeavesOthers, tables, inviteVars
<1>5. RequestInv(r)'
    BY FinishEffect, AtRest
<1> QED
    BY <1>2, <1>4, <1>5, StepInv

\* A step that moves one request on, and takes at most a lock that is free.
LEMMA MoveInv ==
    ASSUME InvitationInv, NEW r \in Requests, UNCHANGED <<tables, inviteVars>>,
           workspaceLock' \in [Workspaces -> Requests \cup {None}],
           userLock' \in [Users -> Requests \cup {None}],
           pc' \in [Requests -> Labels \cup InviteLabels],
           call' \in [Requests -> Call \cup InviteCall \cup {None}],
           seen' \in [Requests -> Seen],
           \A s \in Requests \ {r} :
               pc'[s] = pc[s] /\ call'[s] = call[s] /\ seen'[s] = seen[s],
           \A w \in Workspaces : workspaceLock[w] # None => workspaceLock'[w] = workspaceLock[w],
           \A u \in Users : userLock[u] # None => userLock'[u] = userLock[u],
           RequestInv(r)'
    PROVE  InvitationInv'
<1>1. workspaces \subseteq Workspaces /\ clock \in Nat
    BY TimeAssumption DEF InvitationInv, TablesInv, InvitationTypeOK
<1>2. LeavesOthers(r)
    BY <1>1 DEF LeavesOthers, tables, inviteVars
<1> QED
    BY <1>2, TablesKept, StepInv

--------------------------------------------------------------------------------
(* The invitation handlers.                                                    *)

\* A call enters with what its first reads told it: its tenant exists, its token's
\* row is known, its clock is read.
LEMMA BeginInv ==
    ASSUME InvitationInv, NEW r \in Requests, NEW c \in InviteCall,
           Begin(r, c), UNCHANGED seen, c.ws \in workspaces,
           Joins(c) =>
               /\ c.token \in DOMAIN invitations
               /\ invitations[c.token].ws = c.ws
               /\ IF c.op = "accept_invitation" THEN c.target \in registered
                  ELSE invitations[c.token].email = c.target,
           c.op = "issue_invitation" => c.now <= clock
    PROVE  InvitationInv'
<1>1. /\ pc' \in [Requests -> Labels \cup InviteLabels] /\ pc'[r] = "tenant"
      /\ call' \in [Requests -> Call \cup InviteCall \cup {None}] /\ call'[r] = c
      /\ \A s \in Requests \ {r} : pc'[s] = pc[s] /\ call'[s] = call[s]
    BY DEF Begin, Goto, InviteLabels, InvitationInv, TablesInv, InvitationTypeOK
<1>2. UNCHANGED <<tables, locks, inviteVars, seen>>
    BY DEF Begin
<1>3. RequestInv(r)'
    BY <1>1, <1>2 DEF RequestInv, WellCalled, HoldsTenant, HoldsUser, TargetKnown, OwnerLeft,
                      TokenKnown, GrantStands, AddressFree, ClockRead, InTransaction,
                      Labels, InviteLabels, tables, inviteVars
<1> QED
    BY <1>1, <1>2, <1>3, MoveInv
    DEF InvitationInv, TablesInv, InvitationTypeOK, locks

\* issue_invitation, revoke_invitation and both joins, before they lock the tenant.
LEMMA InvitationStartInv ==
    ASSUME InvitationInv, NEW r \in Requests, InvitationStart(r)
    PROVE  InvitationInv'
<1> USE DEF InvitationInv, TablesInv, InvitationTypeOK
<1>1. ASSUME NEW actor \in Users, NEW email \in Users, NEW w \in Workspaces, NEW role \in Role,
             NEW lifetime \in 1..MaxLifetime, Issue(r, actor, w, email, role, lifetime)
      PROVE  InvitationInv'
    <2> DEFINE c == [op |-> "issue_invitation", actor |-> actor, ws |-> w, target |-> email,
                     role |-> role, now |-> clock, expires |-> Stamp(clock + lifetime)]
    <2>1. w \in workspaces /\ role \in InviteRole /\ Begin(r, c) /\ UNCHANGED seen
        BY <1>1 DEF Issue, MayInvite, InviteRole
    <2>2. clock \in Nat /\ Stamp(clock + lifetime) \in Nat
        <3>1. clock \in Nat /\ clock + lifetime \in Nat
            BY TimeAssumption
        <3> QED
            BY <3>1, StampType
    <2>3. c \in InviteCall
        BY <2>1, <2>2 DEF InviteCall, IssueCall
    <2>4. c.ws = w /\ c.now = clock /\ c.op = "issue_invitation"
        OBVIOUS
    <2>5. ~Joins(c) /\ clock <= clock
        BY <2>2 DEF Joins
    <2> HIDE DEF c
    <2> QED
        BY <2>1, <2>3, <2>4, <2>5, BeginInv
<1>2. ASSUME NEW actor \in Users, NEW w \in Workspaces, NEW token \in DOMAIN invitations,
             Revoke(r, actor, w, token)
      PROVE  InvitationInv'
    <2> DEFINE c == [op |-> "revoke_invitation", actor |-> actor, ws |-> w, token |-> token]
    <2>1. w \in workspaces /\ Begin(r, c) /\ UNCHANGED seen
        BY <1>2 DEF Revoke
    <2>2. c \in InviteCall
        <3>1. token \in Nat
            OBVIOUS
        <3> QED
            BY <3>1 DEF InviteCall, RevokeCall
    <2>3. c.ws = w /\ c.op = "revoke_invitation" /\ ~Joins(c)
        BY DEF Joins
    <2> HIDE DEF c
    <2> QED
        BY <2>1, <2>2, <2>3, BeginInv
<1>3. ASSUME NEW token \in DOMAIN invitations
      PROVE  /\ token \in Nat /\ invitations[token] \in Invitation
             /\ invitations[token].ws \in workspaces /\ invitations[token].ws \in Workspaces
             /\ invitations[token].email \in Users
    <2>1. token \in Nat /\ invitations[token] \in Invitation
        OBVIOUS
    <2> QED
        BY <2>1 DEF RowsInv, Invitation
<1>4. ASSUME NEW u \in Users, NEW token \in DOMAIN invitations, Accept(r, u, token)
      PROVE  InvitationInv'
    <2> DEFINE c == [op |-> "accept_invitation", ws |-> invitations[token].ws,
                     target |-> u, token |-> token]
    <2>1. u \in registered /\ Begin(r, c) /\ UNCHANGED seen
        BY <1>4 DEF Accept
    <2>2. c \in InviteCall
        BY <1>3 DEF InviteCall, JoinCall
    <2>3. /\ c.ws = invitations[token].ws /\ c.op = "accept_invitation"
          /\ c.target = u /\ c.token = token
        OBVIOUS
    <2> HIDE DEF c
    <2> QED
        BY <1>3, <2>1, <2>2, <2>3, BeginInv
<1>5. ASSUME NEW token \in DOMAIN invitations, Register(r, token)
      PROVE  InvitationInv'
    <2> DEFINE c == [op |-> "register_from_invitation", ws |-> invitations[token].ws,
                     target |-> invitations[token].email, token |-> token]
    <2>1. Begin(r, c) /\ UNCHANGED seen
        BY <1>5 DEF Register
    <2>2. c \in InviteCall
        BY <1>3 DEF InviteCall, JoinCall
    <2>3. /\ c.ws = invitations[token].ws /\ c.op = "register_from_invitation"
          /\ c.target = invitations[token].email /\ c.token = token
        OBVIOUS
    <2> HIDE DEF c
    <2> QED
        BY <1>3, <2>1, <2>2, <2>3, BeginInv
<1> QED
    BY <1>1, <1>2, <1>4, <1>5 DEF InvitationStart

\* _lock_workspace, from either family of handlers: the row was free.
LEMMA TenantLockedInv ==
    ASSUME InvitationInv, NEW r \in Requests,
           LockTenant(r) \/ (LockWorkspace(r) /\ UNCHANGED inviteVars)
    PROVE  InvitationInv'
<1>1. /\ pc[r] \in {"tenant", "lock"} /\ pc'[r] = IF pc[r] = "tenant" THEN "decide" ELSE "read"
      /\ pc' \in [Requests -> Labels \cup InviteLabels]
      /\ \A s \in Requests \ {r} : pc'[s] = pc[s]
      /\ UNCHANGED <<tables, userLock, inviteVars, call, seen>>
    BY DEF LockTenant, LockWorkspace, Goto, Labels, InviteLabels, InvitationInv, TablesInv,
           InvitationTypeOK
<1>2. call[r].ws \in Workspaces
    BY <1>1, TenantOf
<1>3. /\ workspaceLock' \in [Workspaces -> Requests \cup {None}]
      /\ workspaceLock'[call[r].ws] = r
      /\ \A w \in Workspaces : workspaceLock[w] # None => workspaceLock'[w] = workspaceLock[w]
    BY <1>2 DEF LockTenant, LockWorkspace, InvitationInv, TablesInv, InvitationTypeOK
<1>4. WellCalled(r) /\ TokenKnown(r) /\ ClockRead(r)
    BY DEF InvitationInv, RequestInv
<1>5. RequestInv(r)'
    BY <1>1, <1>3, <1>4
    DEF RequestInv, WellCalled, HoldsTenant, HoldsUser, TargetKnown, OwnerLeft, TokenKnown,
        GrantStands, AddressFree, ClockRead, InTransaction, Labels, InviteLabels, tables,
        inviteVars
<1> QED
    BY <1>1, <1>3, <1>5, MoveInv DEF InvitationInv, TablesInv, InvitationTypeOK

\* The decision under the lock is what GrantStands remembers.
LEMMA DecidedInv ==
    ASSUME InvitationInv, NEW r \in Requests, Decide(r)
    PROVE  InvitationInv'
<1>1. /\ pc[r] = "decide" /\ Granted(call[r])
      /\ pc' = [pc EXCEPT ![r] = IF Joins(call[r]) THEN "user" ELSE "store"]
      /\ UNCHANGED <<tables, locks, inviteVars, call, seen>>
    BY DEF Decide, Advance, Goto
<1>2. /\ pc'[r] = IF Joins(call[r]) THEN "user" ELSE "store"
      /\ pc' \in [Requests -> Labels \cup InviteLabels]
      /\ \A s \in Requests \ {r} : pc'[s] = pc[s]
    BY <1>1 DEF InviteLabels, InvitationInv, TablesInv, InvitationTypeOK
<1>3. /\ WellCalled(r) /\ TokenKnown(r) /\ ClockRead(r) /\ HoldsTenant(r)
      /\ call[r] \in InviteCall /\ call[r].ws \in Workspaces
    BY <1>1, TenantOf DEF InvitationInv, RequestInv, WellCalled, InviteLabels
<1>4. /\ call[r].op = "issue_invitation" => ~Blocked(call[r])
      /\ call[r].op = "revoke_invitation" => Revocable(call[r])
      /\ Joins(call[r]) =>
          /\ Active(call[r].token)
          /\ invitations[call[r].token].email = call[r].target
          /\ members[call[r].ws][call[r].target] = None
    <2>1. CASE call[r].op = "accept_invitation"
        BY <1>1, <2>1 DEF Granted, Acceptable, Usable
    <2>2. CASE call[r].op = "register_from_invitation"
        <3>1. Active(call[r].token) /\ call[r].target \notin registered
            BY <1>1, <2>2 DEF Granted, Registrable, Usable
        <3>2. Joins(call[r])
            BY <2>2 DEF Joins
        <3>3. invitations[call[r].token].email = call[r].target /\ call[r].target \in Users
            BY <1>1, <1>3, <2>2, <3>2, TargetOf DEF TokenKnown, InviteLabels
        <3>4. members[call[r].ws][call[r].target] = None
            BY <1>3, <3>1, <3>3 DEF InvitationInv, TablesInv, InvitationTypeOK
        <3> QED
            BY <2>2, <3>1, <3>3, <3>4
    <2>3. CASE call[r].op = "issue_invitation"
        BY <1>1, <2>3 DEF Granted, Joins
    <2>4. CASE call[r].op = "revoke_invitation"
        BY <1>1, <2>4 DEF Granted, Joins
    <2> QED
        BY <1>3, <2>1, <2>2, <2>3, <2>4, InviteCallFields
<1>5. GrantStands(r)'
    BY <1>1, <1>4 DEF GrantStands, Blocked, Revocable, ActiveFor, Active, Joins, tables,
                      inviteVars
<1>6. RequestInv(r)'
    BY <1>1, <1>2, <1>3, <1>5
    DEF RequestInv, WellCalled, HoldsTenant, HoldsUser, TargetKnown, OwnerLeft, TokenKnown,
        AddressFree, ClockRead, InTransaction, Labels, InviteLabels, Joins, tables, locks,
        inviteVars
<1> QED
    BY <1>1, <1>2, <1>6, MoveInv DEF InvitationInv, TablesInv, InvitationTypeOK, locks

\* The joining user's row: free, so its version is current, and a registration finds
\* the address unused.
LEMMA UserTakenInv ==
    ASSUME InvitationInv, NEW r \in Requests, TakeUser(r)
    PROVE  InvitationInv'
<1> DEFINE u == call[r].target
<1>1. /\ pc[r] = "user" /\ userLock[u] = None
      /\ call[r].op = "register_from_invitation" => u \notin registered
      /\ pc' = [pc EXCEPT ![r] = "store"]
      /\ userLock' = [userLock EXCEPT ![u] = r]
      /\ seen' = [seen EXCEPT ![r].version = NextVersion(u)]
      /\ UNCHANGED <<tables, workspaceLock, inviteVars, call>>
    BY DEF TakeUser, Goto
<1>2. /\ WellCalled(r) /\ TokenKnown(r) /\ HoldsTenant(r) /\ GrantStands(r)
      /\ call[r] \in InviteCall /\ Joins(call[r]) /\ u \in Users
    BY <1>1, TargetOf DEF InvitationInv, RequestInv, WellCalled, InviteLabels
<1>3. NextVersion(u) \in Nat /\ NextVersion(u) = sessionVersion[u] + 1
    BY <1>2 DEF NextVersion, InvitationInv, TablesInv, InvitationTypeOK
<1>4. seen' \in [Requests -> Seen] /\ seen'[r].version = NextVersion(u)
      /\ \A s \in Requests \ {r} : seen'[s] = seen[s]
    <2>1. seen \in [Requests -> Seen]
        BY DEF InvitationInv, TablesInv, InvitationTypeOK
    <2>2. seen[r] \in Seen
        BY <2>1
    <2>3. /\ [seen[r] EXCEPT !.version = NextVersion(u)] \in Seen
          /\ [seen[r] EXCEPT !.version = NextVersion(u)].version = NextVersion(u)
        BY <1>3, <2>2 DEF Seen
    <2> QED
        BY <1>1, <2>1, <2>3
<1>5. /\ userLock' \in [Users -> Requests \cup {None}] /\ userLock'[u] = r
      /\ \A v \in Users : userLock[v] # None => userLock'[v] = userLock[v]
    BY <1>1, <1>2 DEF InvitationInv, TablesInv, InvitationTypeOK
<1>6. /\ pc'[r] = "store" /\ pc' \in [Requests -> Labels \cup InviteLabels]
      /\ \A s \in Requests \ {r} : pc'[s] = pc[s]
    BY <1>1 DEF InviteLabels, InvitationInv, TablesInv, InvitationTypeOK
<1>7. GrantStands(r)'
    BY <1>1, <1>2 DEF GrantStands, Joins, Active, tables, inviteVars
<1>8. HoldsUser(r)' /\ AddressFree(r)'
    BY <1>1, <1>3, <1>4, <1>5 DEF HoldsUser, AddressFree, tables, inviteVars
<1>9. RequestInv(r)'
    BY <1>1, <1>2, <1>6, <1>7, <1>8
    DEF RequestInv, WellCalled, HoldsTenant, TargetKnown, OwnerLeft, TokenKnown, ClockRead,
        InTransaction, Labels, InviteLabels, Joins, tables, inviteVars
<1> QED
    BY <1>1, <1>4, <1>5, <1>6, <1>9, MoveInv DEF InvitationInv, TablesInv, InvitationTypeOK

\* The rows of an issue: the open ones for the address are revoked, one is added.
LEMMA IssuedRows ==
    ASSUME InvitationInv, NEW r \in Requests, StoreIssued(r)
    PROVE  /\ pc[r] = "store" /\ call[r].op = "issue_invitation"
           /\ call[r].ws \in workspaces /\ call[r].ws \in Workspaces /\ call[r].target \in Users
           /\ call[r].actor \in Users /\ workspaceLock[call[r].ws] = r
           /\ Len(invitations) \in Nat /\ DOMAIN invitations = 1..Len(invitations)
           /\ invitations' \in Seq(Invitation) /\ Len(invitations') = Len(invitations) + 1
           /\ \A i \in DOMAIN invitations :
                  invitations'[i] = IF i \in ActiveFor(call[r].ws, call[r].target)
                                    THEN [invitations[i] EXCEPT !.revoked = TRUE]
                                    ELSE invitations[i]
           /\ LET new == invitations'[Len(invitations) + 1] IN
                  /\ new.ws = call[r].ws /\ new.email = call[r].target
                  /\ ~new.accepted /\ ~new.revoked
<1> DEFINE c == call[r]
           n == Len(invitations) + 1
           row == [ws |-> c.ws, email |-> c.target, role |-> c.role, expires |-> c.expires,
                   accepted |-> FALSE, revoked |-> FALSE]
<1>1. /\ pc[r] = "store" /\ c.op = "issue_invitation"
      /\ invitations' = Append(Replaced(c), row)
    BY DEF StoreIssued
<1>2. /\ c \in InviteCall /\ c.ws \in workspaces /\ c.ws \in Workspaces
      /\ workspaceLock[c.ws] = r
    BY <1>1, TenantOf DEF InvitationInv, RequestInv, WellCalled, HoldsTenant, InviteLabels
<1>3. /\ c.actor \in Users /\ c.target \in Users /\ c.role \in InviteRole
      /\ c.expires \in Nat
    BY <1>1, <1>2, InviteCallFields
<1>4. invitations \in Seq(Invitation) /\ Len(invitations) \in Nat
      /\ DOMAIN invitations = 1..Len(invitations)
    BY DEF InvitationInv, TablesInv, InvitationTypeOK
<1>5. /\ Replaced(c) \in Seq(Invitation) /\ Len(Replaced(c)) = Len(invitations)
      /\ \A i \in DOMAIN invitations :
             Replaced(c)[i] = IF i \in ActiveFor(c.ws, c.target)
                              THEN [invitations[i] EXCEPT !.revoked = TRUE] ELSE invitations[i]
    <2>1. ASSUME NEW i \in 1..Len(invitations)
          PROVE  /\ invitations[i] \in Invitation
                 /\ [invitations[i] EXCEPT !.revoked = TRUE] \in Invitation
        <3>1. invitations[i] \in Invitation
            BY <1>4
        <3> QED
            BY <3>1 DEF Invitation
    <2>2. Replaced(c) \in [1..Len(invitations) -> Invitation]
        BY <1>4, <2>1 DEF Replaced
    <2> QED
        BY <1>4, <2>2 DEF Replaced
<1>6. row \in Invitation
    BY <1>2, <1>3 DEF Invitation
<1>7. /\ row.ws = c.ws /\ row.email = c.target /\ ~row.accepted /\ ~row.revoked
    OBVIOUS
<1> HIDE DEF row
<1>8. /\ invitations' \in Seq(Invitation) /\ DOMAIN invitations' = 1..n
      /\ invitations'[n] = row
      /\ \A i \in DOMAIN invitations :
             invitations'[i] = IF i \in ActiveFor(c.ws, c.target)
                               THEN [invitations[i] EXCEPT !.revoked = TRUE] ELSE invitations[i]
    BY <1>1, <1>4, <1>5, <1>6
<1> QED
    BY <1>1, <1>2, <1>3, <1>4, <1>7, <1>8

\* A stored invitation replaces only open ones that no longer block, and is the only
\* open one for its address.
LEMMA IssuedInv ==
    ASSUME InvitationInv, NEW r \in Requests, StoreIssued(r)
    PROVE  InvitationInv' /\ LeavesOthers(r)
<1> DEFINE c == call[r]
           n == Len(invitations) + 1
           row == invitations'[Len(invitations) + 1]
<1>1. /\ pc[r] = "store" /\ c.op = "issue_invitation"
      /\ audit' = Append(audit, Event("issued", c.ws, c.actor, n, None))
      /\ ReleaseLocks(r) /\ Finish(r)
      /\ UNCHANGED <<workspaces, members, sessionVersion, registered, clock>>
    BY DEF StoreIssued
<1>2. /\ c.ws \in workspaces /\ c.ws \in Workspaces /\ workspaceLock[c.ws] = r
      /\ c.target \in Users /\ c.actor \in Users
    BY IssuedRows
<1>4. Len(invitations) \in Nat /\ DOMAIN invitations = 1..Len(invitations)
    BY IssuedRows
<1>7. /\ row.ws = c.ws /\ row.email = c.target /\ ~row.accepted /\ ~row.revoked
    BY IssuedRows
<1>8. /\ invitations' \in Seq(Invitation) /\ DOMAIN invitations' = 1..n
      /\ invitations'[n] = row
      /\ \A i \in DOMAIN invitations :
             invitations'[i] = IF i \in ActiveFor(c.ws, c.target)
                               THEN [invitations[i] EXCEPT !.revoked = TRUE] ELSE invitations[i]
    <2>1. /\ invitations' \in Seq(Invitation) /\ Len(invitations') = n
          /\ \A i \in DOMAIN invitations :
                 invitations'[i] = IF i \in ActiveFor(call[r].ws, call[r].target)
                                   THEN [invitations[i] EXCEPT !.revoked = TRUE]
                                   ELSE invitations[i]
        BY IssuedRows
    <2> QED
        BY <2>1
<1> HIDE DEF row
<1>9. ASSUME NEW i \in DOMAIN invitations
      PROVE  /\ i \in 1..n /\ i # n
             /\ invitations'[i].ws = invitations[i].ws
             /\ invitations'[i].email = invitations[i].email
             /\ invitations'[i].accepted = invitations[i].accepted
             /\ i \notin ActiveFor(c.ws, c.target) => invitations'[i] = invitations[i]
             /\ i \in ActiveFor(c.ws, c.target) => invitations'[i].revoked
    <2>1. i \in 1..n /\ i # n
        BY <1>4
    <2>2. invitations[i] \in Invitation
        BY DEF InvitationInv, TablesInv, InvitationTypeOK
    <2> QED
        BY <1>8, <2>1, <2>2 DEF Invitation
<1>10. RowsInv'
    <2>1. ASSUME NEW i \in DOMAIN invitations'
          PROVE  invitations'[i].ws \in workspaces'
        <3>1. CASE i = n
            BY <1>1, <1>2, <1>7, <1>8, <3>1
        <3>2. CASE i # n
            <4>1. i \in DOMAIN invitations
                BY <1>4, <1>8, <3>2
            <4> QED
                BY <1>1, <1>9, <4>1 DEF InvitationInv, TablesInv, RowsInv
        <3> QED
            BY <3>1, <3>2
    <2>2. ASSUME NEW i \in DOMAIN invitations', i # n, Active(i)'
          PROVE  /\ i \in DOMAIN invitations /\ Active(i) /\ i \notin ActiveFor(c.ws, c.target)
                 /\ invitations'[i].ws = invitations[i].ws
                 /\ invitations'[i].email = invitations[i].email
        <3>1. i \in DOMAIN invitations
            BY <1>4, <1>8, <2>2
        <3> QED
            BY <1>9, <2>2, <3>1 DEF Active
    <2>3. ASSUME NEW i \in DOMAIN invitations', NEW j \in DOMAIN invitations',
                 Active(i)', Active(j)', invitations'[i].ws = invitations'[j].ws,
                 invitations'[i].email = invitations'[j].email, i # j
          PROVE  FALSE
        <3>1. CASE i # n /\ j # n
            BY <2>2, <2>3, <3>1 DEF InvitationInv, TablesInv, RowsInv
        <3>2. CASE i = n
            BY <1>7, <1>8, <2>2, <2>3, <3>2 DEF ActiveFor
        <3>3. CASE j = n
            BY <1>7, <1>8, <2>2, <2>3, <3>3 DEF ActiveFor
        <3> QED
            BY <3>1, <3>2, <3>3
    <2> QED
        BY <2>1, <2>3 DEF RowsInv
<1>11. audit' \in Seq(InvitationAuditEntry)
    <2>1. Event("issued", c.ws, c.actor, n, None) \in InvitationAuditEntry
        BY <1>2, <1>4 DEF Event, InvitationAuditEntry
    <2>2. audit \in Seq(InvitationAuditEntry)
        BY DEF InvitationInv, TablesInv, InvitationTypeOK
    <2> QED
        BY <1>1, <2>1, <2>2
<1>12. \A i \in DOMAIN invitations' : ~(invitations'[i].accepted /\ invitations'[i].revoked)
    <2> SUFFICES ASSUME NEW i \in DOMAIN invitations'
                 PROVE  ~(invitations'[i].accepted /\ invitations'[i].revoked)
        OBVIOUS
    <2>1. CASE i = n
        BY <1>7, <1>8, <2>1
    <2>2. CASE i # n
        <3>1. i \in DOMAIN invitations
            BY <1>4, <1>8, <2>2
        <3> QED
            BY <1>9, <3>1 DEF ActiveFor, Active, InvitationInv, TablesInv, InvitationTypeOK
    <2> QED
        BY <2>1, <2>2
<1>13. TablesInv'
    BY <1>1, <1>8, <1>10, <1>11, <1>12, ReleaseEffect, FinishEffect
    DEF InvitationInv, TablesInv, InvitationTypeOK, OwnerExists
<1>14. LeavesOthers(r)
    <2>1. ASSUME NEW w \in workspaces, workspaceLock[w] \notin {None, r},
                 NEW i \in DOMAIN invitations', invitations'[i].ws = w
          PROVE  i \in DOMAIN invitations /\ invitations'[i] = invitations[i]
        <3>1. w # c.ws
            BY <1>2, <2>1
        <3>2. i # n
            BY <1>7, <1>8, <2>1, <3>1
        <3>3. i \in DOMAIN invitations
            BY <1>4, <1>8, <3>2
        <3> QED
            BY <1>9, <2>1, <3>1, <3>3 DEF ActiveFor
    <2>2. workspaces \subseteq Workspaces /\ clock \in Nat
        BY TimeAssumption DEF InvitationInv, TablesInv, InvitationTypeOK
    <2> QED
        BY <1>1, <1>8, <1>9, <2>1, <2>2, ReleaseEffect, FinishEffect DEF LeavesOthers
<1>15. RequestInv(r)'
    BY <1>1, FinishEffect, AtRest
<1> QED
    BY <1>13, <1>14, <1>15, StepInv

\* One row is closed, for good or by a join: the rest of the table is as it was.
LEMMA RowClosed ==
    ASSUME InvitationInv, NEW token \in DOMAIN invitations, Active(token),
           \/ invitations' = [invitations EXCEPT ![token].revoked = TRUE]
           \/ invitations' = [invitations EXCEPT ![token].accepted = TRUE],
           workspaces \subseteq workspaces'
    PROVE  /\ invitations' \in Seq(Invitation) /\ DOMAIN invitations' = DOMAIN invitations
           /\ \A i \in DOMAIN invitations :
                  /\ invitations'[i].ws = invitations[i].ws
                  /\ invitations'[i].email = invitations[i].email
                  /\ i # token => invitations'[i] = invitations[i]
           /\ ~Active(token)'
           /\ \A i \in DOMAIN invitations' :
                  ~(invitations'[i].accepted /\ invitations'[i].revoked)
           /\ RowsInv'
<1>1. /\ invitations \in [1..Len(invitations) -> Invitation] /\ Len(invitations) \in Nat
      /\ invitations[token] \in Invitation /\ token \in 1..Len(invitations)
    BY DEF InvitationInv, TablesInv, InvitationTypeOK
<1>2. PICK row \in Invitation :
          /\ invitations' = [invitations EXCEPT ![token] = row]
          /\ row.ws = invitations[token].ws /\ row.email = invitations[token].email
          /\ ~(row.accepted /\ row.revoked) /\ (row.accepted \/ row.revoked)
    <2>1. ~invitations[token].accepted /\ ~invitations[token].revoked
        BY DEF Active
    <2>2. CASE invitations' = [invitations EXCEPT ![token].revoked = TRUE]
        <3> DEFINE row == [invitations[token] EXCEPT !.revoked = TRUE]
        <3>1. /\ row \in Invitation /\ row.ws = invitations[token].ws
              /\ row.email = invitations[token].email /\ ~row.accepted /\ row.revoked
            BY <1>1, <2>1 DEF Invitation
        <3> QED
            BY <1>1, <2>2, <3>1
    <2>3. CASE invitations' = [invitations EXCEPT ![token].accepted = TRUE]
        <3> DEFINE row == [invitations[token] EXCEPT !.accepted = TRUE]
        <3>1. /\ row \in Invitation /\ row.ws = invitations[token].ws
              /\ row.email = invitations[token].email /\ row.accepted /\ ~row.revoked
            BY <1>1, <2>1 DEF Invitation
        <3> QED
            BY <1>1, <2>3, <3>1
    <2> QED
        BY <2>2, <2>3
<1>3. /\ invitations' \in Seq(Invitation) /\ DOMAIN invitations' = DOMAIN invitations
      /\ invitations'[token] = row
      /\ \A i \in DOMAIN invitations : i # token => invitations'[i] = invitations[i]
    BY <1>1, <1>2
<1>4. /\ \A i \in DOMAIN invitations :
             /\ invitations'[i].ws = invitations[i].ws
             /\ invitations'[i].email = invitations[i].email
      /\ ~Active(token)'
      /\ \A i \in DOMAIN invitations : Active(i)' => Active(i)
    BY <1>2, <1>3 DEF Active
<1>5. \A i \in DOMAIN invitations' : ~(invitations'[i].accepted /\ invitations'[i].revoked)
    BY <1>2, <1>3 DEF InvitationInv, TablesInv, InvitationTypeOK
<1>6. RowsInv'
    BY <1>3, <1>4 DEF InvitationInv, TablesInv, RowsInv
<1> QED
    BY <1>3, <1>4, <1>5, <1>6

\* The row the handler found open under the lock is open when it revokes it.
LEMMA RevokedRow ==
    ASSUME InvitationInv, NEW r \in Requests, StoreRevoked(r)
    PROVE  /\ call[r].token \in DOMAIN invitations /\ Active(call[r].token)
           /\ invitations' = [invitations EXCEPT ![call[r].token].revoked = TRUE]
<1>1. /\ pc[r] = "store" /\ call[r].op = "revoke_invitation"
      /\ invitations' = RevokedIfActive(call[r].token)
    BY DEF StoreRevoked
<1>2. call[r].token \in DOMAIN invitations /\ Active(call[r].token)
    BY <1>1 DEF InvitationInv, RequestInv, GrantStands, Revocable
<1> QED
    BY <1>1, <1>2 DEF RevokedIfActive

\* A revocation closes that row.
LEMMA RevokedInv ==
    ASSUME InvitationInv, NEW r \in Requests, StoreRevoked(r)
    PROVE  InvitationInv' /\ LeavesOthers(r)
<1> DEFINE c == call[r]
<1>1. /\ pc[r] = "store" /\ c.op = "revoke_invitation"
      /\ invitations' = [invitations EXCEPT ![c.token].revoked = TRUE]
      /\ audit' = Append(audit, Event("revoked", c.ws, c.actor, c.token, None))
      /\ ReleaseLocks(r) /\ Finish(r)
      /\ UNCHANGED <<workspaces, members, sessionVersion, registered, clock>>
    BY RevokedRow DEF StoreRevoked
<1>2. /\ c \in InviteCall /\ c.ws \in workspaces /\ c.ws \in Workspaces
      /\ workspaceLock[c.ws] = r
    BY <1>1, TenantOf DEF InvitationInv, RequestInv, WellCalled, HoldsTenant, InviteLabels
<1>3. c.actor \in Users /\ c.token \in Nat
    BY <1>1, <1>2, InviteCallFields
<1>4. /\ c.token \in DOMAIN invitations /\ invitations[c.token].ws = c.ws /\ Active(c.token)
    BY <1>1 DEF InvitationInv, RequestInv, GrantStands, Revocable
<1>5. /\ invitations' \in Seq(Invitation) /\ DOMAIN invitations' = DOMAIN invitations
      /\ \A i \in DOMAIN invitations :
             /\ invitations'[i].ws = invitations[i].ws
             /\ invitations'[i].email = invitations[i].email
             /\ i # c.token => invitations'[i] = invitations[i]
      /\ \A i \in DOMAIN invitations' :
             ~(invitations'[i].accepted /\ invitations'[i].revoked)
      /\ RowsInv'
    BY <1>1, <1>4, RowClosed
<1>6. audit' \in Seq(InvitationAuditEntry)
    <2>1. Event("revoked", c.ws, c.actor, c.token, None) \in InvitationAuditEntry
        BY <1>2, <1>3 DEF Event, InvitationAuditEntry
    <2>2. audit \in Seq(InvitationAuditEntry)
        BY DEF InvitationInv, TablesInv, InvitationTypeOK
    <2> QED
        BY <1>1, <2>1, <2>2
<1>7. TablesInv'
    BY <1>1, <1>5, <1>6, ReleaseEffect, FinishEffect
    DEF InvitationInv, TablesInv, InvitationTypeOK, OwnerExists
<1>8. LeavesOthers(r)
    <2>1. workspaces \subseteq Workspaces /\ clock \in Nat
        BY TimeAssumption DEF InvitationInv, TablesInv, InvitationTypeOK
    <2> QED
        BY <1>1, <1>2, <1>4, <1>5, <2>1, ReleaseEffect, FinishEffect DEF LeavesOthers
<1>9. RequestInv(r)'
    BY <1>1, FinishEffect, AtRest
<1> QED
    BY <1>7, <1>8, <1>9, StepInv

\* What a join writes: the membership and the version of the joining user, who was no
\* member, and the one row it consumes.
LEMMA JoinEffect ==
    ASSUME InvitationInv, NEW r \in Requests, StoreMembership(r)
    PROVE  /\ pc[r] = "store" /\ pc'[r] = "readback" /\ Joins(call[r])
           /\ call[r] \in InviteCall
           /\ call[r].ws \in workspaces /\ call[r].ws \in Workspaces /\ call[r].target \in Users
           /\ workspaceLock[call[r].ws] = r /\ userLock[call[r].target] = r
           /\ call[r].token \in DOMAIN invitations
           /\ Active(call[r].token)
           /\ invitations[call[r].token].ws = call[r].ws
           /\ invitations[call[r].token].email = call[r].target
           /\ invitations[call[r].token].role \in InviteRole
           /\ members[call[r].ws][call[r].target] = None
           /\ members' = [members EXCEPT ![call[r].ws][call[r].target] =
                                            invitations[call[r].token].role]
           /\ sessionVersion' = [sessionVersion EXCEPT ![call[r].target] =
                                            sessionVersion[call[r].target] + 1]
           /\ invitations' = [invitations EXCEPT ![call[r].token].accepted = TRUE]
           /\ registered' = registered \cup {call[r].target}
           /\ audit' = Append(audit, Event("accepted", call[r].ws, call[r].target, call[r].target,
                                           invitations[call[r].token].role))
           /\ ReleaseLocks(r)
           /\ pc' = [pc EXCEPT ![r] = "readback"]
           /\ UNCHANGED <<workspaces, clock, call, seen>>
<1>1. pc[r] = "store" /\ Joins(call[r])
    BY DEF StoreMembership
<1>2. /\ call[r] \in InviteCall /\ call[r].ws \in workspaces /\ call[r].ws \in Workspaces
      /\ call[r].target \in Users /\ workspaceLock[call[r].ws] = r
    BY <1>1, TenantOf, TargetOf
    DEF InvitationInv, RequestInv, WellCalled, HoldsTenant, InviteLabels
<1>3. /\ userLock[call[r].target] = r
      /\ seen[r].version = sessionVersion[call[r].target] + 1
    BY <1>1 DEF InvitationInv, RequestInv, HoldsUser
<1>4. /\ call[r].token \in DOMAIN invitations
      /\ invitations[call[r].token].ws = call[r].ws
      /\ Active(call[r].token)
      /\ invitations[call[r].token].email = call[r].target
      /\ members[call[r].ws][call[r].target] = None
    BY <1>1 DEF InvitationInv, RequestInv, TokenKnown, GrantStands, InviteLabels
<1>5. invitations[call[r].token].role \in InviteRole
    <2>1. invitations[call[r].token] \in Invitation
        BY <1>4 DEF InvitationInv, TablesInv, InvitationTypeOK
    <2> QED
        BY <2>1 DEF Invitation
<1>6. pc' = [pc EXCEPT ![r] = "readback"] /\ pc'[r] = "readback"
    BY DEF StoreMembership, Goto, InvitationInv, TablesInv, InvitationTypeOK
<1>7. /\ members' = [members EXCEPT ![call[r].ws][call[r].target] =
                                       invitations[call[r].token].role]
      /\ sessionVersion' = [sessionVersion EXCEPT ![call[r].target] = seen[r].version]
      /\ invitations' = [invitations EXCEPT ![call[r].token].accepted = TRUE]
      /\ registered' = registered \cup {call[r].target}
      /\ audit' = Append(audit, Event("accepted", call[r].ws, call[r].target, call[r].target,
                                      invitations[call[r].token].role))
      /\ ReleaseLocks(r)
      /\ UNCHANGED <<workspaces, clock, call, seen>>
    BY DEF StoreMembership, Consumed, JoinVersion
<1> QED
    BY <1>1, <1>2, <1>3, <1>4, <1>5, <1>6, <1>7

\* A join.
LEMMA JoinedInv ==
    ASSUME InvitationInv, NEW r \in Requests, StoreMembership(r)
    PROVE  InvitationInv' /\ LeavesOthers(r)
<1> DEFINE w == call[r].ws
           u == call[r].target
           token == call[r].token
           role == invitations[call[r].token].role
<1>a. /\ call[r].ws \in workspaces /\ call[r].ws \in Workspaces /\ call[r].target \in Users
      /\ workspaceLock[call[r].ws] = r /\ userLock[call[r].target] = r
      /\ members[call[r].ws][call[r].target] = None
      /\ invitations[call[r].token].role \in InviteRole
    BY JoinEffect
<1>b. /\ call[r].token \in DOMAIN invitations
      /\ Active(call[r].token) /\ invitations[call[r].token].ws = call[r].ws
      /\ invitations' = [invitations EXCEPT ![call[r].token].accepted = TRUE]
      /\ UNCHANGED <<workspaces, clock, call, seen>>
    BY JoinEffect
<1>c. members' = [members EXCEPT ![call[r].ws][call[r].target] = invitations[call[r].token].role]
    BY JoinEffect
<1>d. /\ sessionVersion' = [sessionVersion EXCEPT ![call[r].target] =
                                       sessionVersion[call[r].target] + 1]
      /\ registered' = registered \cup {call[r].target}
    BY JoinEffect
<1>e. audit' = Append(audit, Event("accepted", call[r].ws, call[r].target, call[r].target,
                                   invitations[call[r].token].role))
    BY JoinEffect
<1>f. ReleaseLocks(r) /\ pc' = [pc EXCEPT ![r] = "readback"]
    BY JoinEffect
<1>t. /\ members \in [Workspaces -> [Users -> Role \cup {None}]]
      /\ sessionVersion \in [Users -> Nat] /\ registered \subseteq Users
      /\ workspaces \subseteq Workspaces /\ clock \in Nat
      /\ pc \in [Requests -> Labels \cup InviteLabels]
      /\ \A v \in Workspaces, t \in Users : members[v][t] # None => t \in registered
    BY TimeAssumption DEF InvitationInv, TablesInv, InvitationTypeOK
<1>1. role \in Role \ {"owner"} /\ role \in Role /\ role # None
      /\ sessionVersion[u] + 1 \in Nat
    BY <1>a, <1>t, NoneAssumption DEF InviteRole
<1>2. /\ invitations' \in Seq(Invitation) /\ DOMAIN invitations' = DOMAIN invitations
      /\ \A i \in DOMAIN invitations :
             /\ invitations'[i].ws = invitations[i].ws
             /\ invitations'[i].email = invitations[i].email
             /\ i # token => invitations'[i] = invitations[i]
      /\ \A i \in DOMAIN invitations' :
             ~(invitations'[i].accepted /\ invitations'[i].revoked)
      /\ RowsInv'
    BY <1>b, RowClosed
<1>3. audit' \in Seq(InvitationAuditEntry)
    <2>1. Event("accepted", w, u, u, role) \in InvitationAuditEntry
        BY <1>1, <1>a DEF Event, InvitationAuditEntry
    <2>2. audit \in Seq(InvitationAuditEntry)
        BY DEF InvitationInv, TablesInv, InvitationTypeOK
    <2> QED
        BY <2>1, <2>2, <1>e
<1>4. /\ members' \in [Workspaces -> [Users -> Role \cup {None}]]
      /\ \A v \in Workspaces, t \in Users :
             members'[v][t] = IF v = w /\ t = u THEN role ELSE members[v][t]
      /\ \A v \in Workspaces : v # w => members'[v] = members[v]
    BY <1>1, <1>a, <1>c, <1>t
<1>5. /\ sessionVersion' \in [Users -> Nat]
      /\ \A t \in Users : t # u => sessionVersion'[t] = sessionVersion[t]
    BY <1>1, <1>a, <1>d, <1>t
<1>6. /\ pc' \in [Requests -> Labels \cup InviteLabels]
      /\ \A s \in Requests \ {r} : pc'[s] = pc[s]
    BY <1>f, <1>t DEF Labels
<1>7. /\ \A v \in Workspaces, t \in Users : members'[v][t] # None => t \in registered'
      /\ registered' \in SUBSET Users
    BY <1>4, <1>a, <1>d, <1>t
<1>8. InvitationTypeOK'
    BY <1>2, <1>3, <1>4, <1>5, <1>6, <1>7, <1>b, <1>f, ReleaseEffect
    DEF InvitationInv, TablesInv, InvitationTypeOK
<1>9. OwnerExists'
    <2> SUFFICES ASSUME NEW v \in workspaces
                 PROVE  \E t \in Users : members'[v][t] = "owner"
        BY <1>b DEF OwnerExists
    <2>1. PICK t \in Users : members[v][t] = "owner"
        BY DEF OwnerExists, InvitationInv, TablesInv
    <2>2. v \in Workspaces /\ ~(v = w /\ t = u)
        BY <1>a, <1>t, <2>1, NoneAssumption DEF Role
    <2> QED
        BY <1>4, <2>1, <2>2
<1>10. TablesInv'
    BY <1>2, <1>8, <1>9, <1>b DEF InvitationInv, TablesInv
<1>11. LeavesOthers(r)
    BY <1>2, <1>4, <1>5, <1>6, <1>a, <1>b, <1>d, <1>f, <1>t, ReleaseEffect DEF LeavesOthers
<1>12. RequestInv(r)'
    BY JoinEffect, AtRest
<1> QED
    BY <1>10, <1>11, <1>12, StepInv

\* The clock and create_user take nothing any request relies on.
LEMMA EnvironmentInv ==
    ASSUME InvitationInv, Tick \/ \E u \in Users : CreateUser(u)
    PROVE  InvitationInv'
<1>1. /\ UNCHANGED <<vars, invitations>>
      /\ registered \subseteq registered' /\ registered' \subseteq Users
      /\ clock \in Nat /\ clock' \in 0..MaxTime /\ clock <= clock'
      /\ \A u \in Users : userLock[u] # None => (u \in registered' => u \in registered)
    <2>1. clock \in 0..MaxTime /\ registered \subseteq Users
        BY DEF InvitationInv, TablesInv, InvitationTypeOK
    <2>2. CASE Tick
        BY <2>1, <2>2, TimeAssumption DEF Tick
    <2>3. ASSUME NEW u \in Users, CreateUser(u)
          PROVE  /\ UNCHANGED <<vars, invitations, clock>>
                 /\ registered' = registered \cup {u} /\ userLock[u] = None
        BY <2>3 DEF CreateUser
    <2> QED
        BY <2>1, <2>2, <2>3, TimeAssumption
<1>2. UNCHANGED <<workspaces, members, sessionVersion, audit, workspaceLock, userLock,
                  pc, call, seen, invitations>>
    BY <1>1 DEF vars, tables, locks
<1>3. InvitationTypeOK'
    BY <1>1, <1>2 DEF InvitationInv, TablesInv, InvitationTypeOK
<1>4. RowsInv' /\ OwnerExists'
    BY <1>2 DEF InvitationInv, TablesInv, RowsInv, Active, OwnerExists
<1>5. LeavesOthers(None)
    BY <1>1, <1>2 DEF LeavesOthers
<1>6. ASSUME NEW s \in Requests
      PROVE  RequestInv(s)'
    BY <1>3, <1>5, NoneAssumption, OthersKept
<1> QED
    BY <1>2, <1>3, <1>4, <1>6 DEF InvitationInv, TablesInv

--------------------------------------------------------------------------------
(* The membership handlers, beside the invitation handlers.                    *)

\* require_permissions and the read of the target: the request's own variables.
LEMMA MembershipMoveInv ==
    ASSUME InvitationInv, NEW r \in Requests, UNCHANGED inviteVars,
           \/ \E c \in ChangeRoleCall \cup RemoveCall : Authorize(r, c)
           \/ ReadTarget(r)
           \/ CountOwners(r)
           \/ SkipUser(r)
    PROVE  InvitationInv'
<1>t. /\ members \in [Workspaces -> [Users -> Role \cup {None}]]
      /\ pc \in [Requests -> Labels \cup InviteLabels] /\ seen \in [Requests -> Seen]
      /\ call \in [Requests -> Call \cup InviteCall \cup {None}]
      /\ workspaceLock \in [Workspaces -> Requests \cup {None}]
      /\ userLock \in [Users -> Requests \cup {None}]
    BY DEF InvitationInv, TablesInv, InvitationTypeOK
<1>1. ASSUME NEW c \in ChangeRoleCall \cup RemoveCall, Authorize(r, c)
      PROVE  InvitationInv'
    <2>1. /\ c.ws \in workspaces /\ UNCHANGED <<tables, locks>>
          /\ call' = [call EXCEPT ![r] = c] /\ pc' = [pc EXCEPT ![r] = "lock"]
          /\ seen' = [seen EXCEPT ![r].actor = members[c.ws][c.actor]]
        BY <1>1 DEF Authorize, Goto
    <2>2. c \in Call /\ c.ws \in Workspaces /\ c.actor \in Users
        BY CallFields DEF Call
    <2>3. /\ pc' \in [Requests -> Labels \cup InviteLabels] /\ pc'[r] = "lock"
          /\ call' \in [Requests -> Call \cup InviteCall \cup {None}] /\ call'[r] = c
          /\ \A s \in Requests \ {r} : pc'[s] = pc[s] /\ call'[s] = call[s]
        BY <1>t, <2>1, <2>2 DEF Labels
    <2>4. seen' \in [Requests -> Seen] /\ \A s \in Requests \ {r} : seen'[s] = seen[s]
        <3>1. members[c.ws][c.actor] \in Role \cup {None} /\ seen[r] \in Seen
            BY <1>t, <2>2
        <3>2. [seen[r] EXCEPT !.actor = members[c.ws][c.actor]] \in Seen
            BY <3>1 DEF Seen
        <3> QED
            BY <1>t, <2>1, <3>2
    <2>5. RequestInv(r)'
        BY <2>1, <2>3
        DEF RequestInv, WellCalled, HoldsTenant, HoldsUser, TargetKnown, OwnerLeft, TokenKnown,
            GrantStands, AddressFree, ClockRead, InTransaction, Labels, InviteLabels, tables
    <2> QED
        BY <1>t, <2>1, <2>3, <2>4, <2>5, MoveInv DEF locks
<1>2. CASE ReadTarget(r) \/ CountOwners(r) \/ SkipUser(r)
    <2>1. /\ pc[r] \in {"read", "count", "write"} /\ UNCHANGED <<tables, locks, call>>
          /\ \E to \in {"count", "write", "commit"} : pc' = [pc EXCEPT ![r] = to]
        BY <1>2 DEF ReadTarget, CountOwners, SkipUser, Goto
    <2>2. /\ pc' \in [Requests -> Labels \cup InviteLabels]
          /\ pc'[r] \in {"count", "write", "commit"}
          /\ \A s \in Requests \ {r} : pc'[s] = pc[s]
        BY <1>t, <2>1 DEF Labels
    <2>3. /\ call[r] \in ChangeRoleCall \cup RemoveCall
          /\ call[r].ws \in workspaces /\ call[r].ws \in Workspaces /\ call[r].target \in Users
          /\ workspaceLock[call[r].ws] = r
        BY <2>1, TenantOf, TargetOf
        DEF InvitationInv, RequestInv, WellCalled, HoldsTenant, Labels, InTransaction
    <2>4. /\ seen' \in [Requests -> Seen] /\ \A s \in Requests \ {r} : seen'[s] = seen[s]
          /\ TargetKnown(r)'
        <3>1. CASE ReadTarget(r)
            <4> DEFINE target == members[call[r].ws][call[r].target]
            <4>1. target \in Role \cup {None} /\ target # None /\ seen[r] \in Seen
                BY <1>t, <2>3, <3>1 DEF ReadTarget
            <4>2. seen' = [seen EXCEPT ![r].target = target]
                BY <3>1 DEF ReadTarget
            <4>3. /\ [seen[r] EXCEPT !.target = target] \in Seen
                  /\ [seen[r] EXCEPT !.target = target].target = target
                BY <4>1 DEF Seen
            <4>4. /\ seen' \in [Requests -> Seen] /\ seen'[r].target = target
                  /\ \A s \in Requests \ {r} : seen'[s] = seen[s]
                BY <1>t, <4>2, <4>3
            <4> QED
                BY <2>1, <4>1, <4>4 DEF TargetKnown, tables
        <3>2. CASE CountOwners(r) \/ SkipUser(r)
            BY <1>t, <2>1, <2>2, <3>2
            DEF TargetKnown, InvitationInv, RequestInv, CountOwners, SkipUser, tables
        <3> QED
            BY <1>2, <3>1, <3>2
    <2>5. OwnerLeft(r)'
        <3>1. CASE ReadTarget(r)
            <4>1. pc'[r] = IF members[call[r].ws][call[r].target] = "owner"
                              /\ call[r].role # "owner"
                           THEN "count" ELSE "write"
                BY <1>t, <3>1 DEF ReadTarget, Goto
            <4>2. seen'[r].target = members[call[r].ws][call[r].target]
                BY <2>1, <2>2, <2>4 DEF TargetKnown, tables
            <4> QED
                BY <2>1, <4>1, <4>2 DEF OwnerLeft, DropsOwner
        <3>2. CASE CountOwners(r)
            <4>1. \E u \in Users \ {call[r].target} : members[call[r].ws][u] = "owner"
                BY <2>3, <3>2, AnotherOwner DEF CountOwners
            <4> QED
                BY <2>1, <4>1 DEF OwnerLeft, tables
        <3>3. CASE SkipUser(r)
            BY <2>1, <3>3 DEF SkipUser, OwnerLeft, DropsOwner, InvitationInv, RequestInv, tables
        <3> QED
            BY <1>2, <3>1, <3>2, <3>3
    <2>6. HoldsUser(r)'
        <3>1. pc'[r] = "commit" => ~Bumps(r)'
            BY <1>2, <1>t, <2>1 DEF ReadTarget, CountOwners, SkipUser, Goto, Bumps
        <3> QED
            BY <2>2, <3>1 DEF HoldsUser
    <2>7. RequestInv(r)'
        BY <2>1, <2>2, <2>3, <2>4, <2>5, <2>6
        DEF RequestInv, WellCalled, HoldsTenant, TokenKnown, GrantStands, AddressFree,
            ClockRead, InTransaction, Labels, InviteLabels, tables, locks
    <2> QED
        BY <1>t, <2>1, <2>2, <2>4, <2>7, MoveInv DEF locks
<1> QED
    BY <1>1, <1>2

\* The target's user row, free when it is taken.
LEMMA MembershipUserInv ==
    ASSUME InvitationInv, NEW r \in Requests, UNCHANGED inviteVars, LockUser(r)
    PROVE  InvitationInv'
<1> DEFINE u == call[r].target
<1>t. /\ pc \in [Requests -> Labels \cup InviteLabels] /\ seen \in [Requests -> Seen]
      /\ call \in [Requests -> Call \cup InviteCall \cup {None}]
      /\ workspaceLock \in [Workspaces -> Requests \cup {None}]
      /\ userLock \in [Users -> Requests \cup {None}] /\ sessionVersion \in [Users -> Nat]
    BY DEF InvitationInv, TablesInv, InvitationTypeOK
<1>1. /\ pc[r] = "write" /\ Bumps(r) /\ userLock[u] = None
      /\ pc' = [pc EXCEPT ![r] = "commit"] /\ userLock' = [userLock EXCEPT ![u] = r]
      /\ seen' = [seen EXCEPT ![r].version = NextVersion(u)]
      /\ UNCHANGED <<tables, workspaceLock, call>>
    BY DEF LockUser, Goto
<1>2. /\ u \in Users /\ call[r] \in ChangeRoleCall \cup RemoveCall /\ call[r].ws \in workspaces
      /\ workspaceLock[call[r].ws] = r /\ TargetKnown(r) /\ OwnerLeft(r)
    BY <1>1, TargetOf
    DEF InvitationInv, RequestInv, WellCalled, HoldsTenant, Labels, InTransaction
<1>3. NextVersion(u) \in Nat /\ NextVersion(u) = sessionVersion[u] + 1 /\ seen[r] \in Seen
    BY <1>t, <1>2 DEF NextVersion
<1>4. /\ [seen[r] EXCEPT !.version = NextVersion(u)] \in Seen
      /\ [seen[r] EXCEPT !.version = NextVersion(u)].version = NextVersion(u)
      /\ [seen[r] EXCEPT !.version = NextVersion(u)].target = seen[r].target
    BY <1>3 DEF Seen
<1>5. /\ seen' \in [Requests -> Seen]
      /\ seen'[r].version = NextVersion(u) /\ seen'[r].target = seen[r].target
      /\ \A s \in Requests \ {r} : seen'[s] = seen[s]
    BY <1>t, <1>1, <1>4
<1>6. /\ pc' \in [Requests -> Labels \cup InviteLabels] /\ pc'[r] = "commit"
      /\ \A s \in Requests \ {r} : pc'[s] = pc[s]
    BY <1>t, <1>1 DEF Labels
<1>7. /\ userLock' \in [Users -> Requests \cup {None}] /\ userLock'[u] = r
      /\ \A v \in Users : userLock[v] # None => userLock'[v] = userLock[v]
    BY <1>t, <1>1, <1>2
<1>8. HoldsUser(r)'
    BY <1>1, <1>3, <1>5, <1>7 DEF HoldsUser, tables
<1>9. TargetKnown(r)' /\ OwnerLeft(r)'
    BY <1>1, <1>2, <1>5 DEF TargetKnown, OwnerLeft, DropsOwner, tables
<1>10. RequestInv(r)'
    BY <1>1, <1>2, <1>6, <1>8, <1>9
    DEF RequestInv, WellCalled, HoldsTenant, TokenKnown, GrantStands, AddressFree, ClockRead,
        InTransaction, Labels, InviteLabels, tables
<1> QED
    BY <1>t, <1>1, <1>5, <1>6, <1>7, <1>10, MoveInv

\* What a membership commit writes: one member of one tenant, known under its lock, and
\* that user's version when the role changes.
LEMMA MembershipCommitEffect ==
    ASSUME InvitationInv, NEW r \in Requests, Commit(r)
    PROVE  /\ call[r] \in ChangeRoleCall \cup RemoveCall
           /\ call[r].ws \in workspaces /\ call[r].ws \in Workspaces /\ call[r].target \in Users
           /\ call[r].role \in Role \cup {None} /\ call[r].actor \in Users
           /\ workspaceLock[call[r].ws] = r
           /\ Bumps(r) => userLock[call[r].target] = r
           /\ members[call[r].ws][call[r].target] # None
           /\ Bumps(r) <=> members[call[r].ws][call[r].target] # call[r].role
           /\ members' = [members EXCEPT ![call[r].ws][call[r].target] = call[r].role]
           /\ sessionVersion' = IF Bumps(r)
                                THEN [sessionVersion EXCEPT ![call[r].target] =
                                          sessionVersion[call[r].target] + 1]
                                ELSE sessionVersion
           /\ UNCHANGED workspaces
           /\ ReleaseLocks(r)
<1>1. pc[r] = "commit"
    BY DEF Commit
<1>2. /\ call[r] \in ChangeRoleCall \cup RemoveCall /\ workspaceLock[call[r].ws] = r
    BY <1>1 DEF InvitationInv, RequestInv, WellCalled, HoldsTenant, Labels, InTransaction
<1>3. call[r].ws \in workspaces /\ call[r].ws \in Workspaces
    BY <1>1, TenantOf
<1>4. /\ call[r].target \in Users /\ call[r].role \in Role \cup {None}
      /\ call[r].actor \in Users
    BY <1>2, CallFields DEF Call
<1>5. /\ members[call[r].ws][call[r].target] # None
      /\ seen[r].target = members[call[r].ws][call[r].target]
    BY <1>1 DEF InvitationInv, RequestInv, TargetKnown
<1>6. Bumps(r) => /\ userLock[call[r].target] = r
                  /\ seen[r].version = sessionVersion[call[r].target] + 1
    BY <1>1 DEF InvitationInv, RequestInv, HoldsUser
<1>7. Bumps(r) <=> members[call[r].ws][call[r].target] # call[r].role
    BY <1>5 DEF Bumps
<1>8. /\ members' = [members EXCEPT ![call[r].ws][call[r].target] = call[r].role]
      /\ sessionVersion' = IF Bumps(r)
                           THEN [sessionVersion EXCEPT ![call[r].target] = seen[r].version]
                           ELSE sessionVersion
      /\ UNCHANGED workspaces /\ ReleaseLocks(r)
    BY DEF Commit
<1> QED
    BY <1>2, <1>3, <1>4, <1>5, <1>6, <1>7, <1>8

\* A membership commit, whose count of owners still holds.
LEMMA MembershipCommitInv ==
    ASSUME InvitationInv, NEW r \in Requests, UNCHANGED inviteVars, Commit(r)
    PROVE  InvitationInv'
<1> DEFINE w == call[r].ws
           u == call[r].target
           role == call[r].role
           entry == [type |-> IF call[r].op = "change_role" THEN "role_changed" ELSE "removed",
                     ws |-> w, actor |-> call[r].actor, subject |-> u,
                     from |-> seen[r].target, to |-> role]
<1>t. /\ members \in [Workspaces -> [Users -> Role \cup {None}]]
      /\ sessionVersion \in [Users -> Nat] /\ audit \in Seq(InvitationAuditEntry)
      /\ pc \in [Requests -> Labels \cup InviteLabels] /\ seen \in [Requests -> Seen]
      /\ call \in [Requests -> Call \cup InviteCall \cup {None}]
      /\ workspaces \subseteq Workspaces /\ clock \in Nat
      /\ \A v \in Workspaces, t \in Users : members[v][t] # None => t \in registered
    BY TimeAssumption DEF InvitationInv, TablesInv, InvitationTypeOK
<1>1. /\ w \in workspaces /\ w \in Workspaces /\ u \in Users /\ role \in Role \cup {None}
      /\ call[r].actor \in Users /\ workspaceLock[w] = r /\ members[w][u] # None
    BY MembershipCommitEffect
<1>2. /\ members' \in [Workspaces -> [Users -> Role \cup {None}]]
      /\ \A v \in Workspaces, t \in Users :
             members'[v][t] = IF v = w /\ t = u THEN role ELSE members[v][t]
      /\ \A v \in Workspaces : v # w => members'[v] = members[v]
    <2>1. members' = [members EXCEPT ![call[r].ws][call[r].target] = call[r].role]
        BY MembershipCommitEffect
    <2> QED
        BY <1>t, <1>1, <2>1
<1>3. /\ sessionVersion' \in [Users -> Nat]
      /\ \A t \in Users : userLock[t] # r => sessionVersion'[t] = sessionVersion[t]
    <2>1. /\ sessionVersion' = IF Bumps(r)
                               THEN [sessionVersion EXCEPT ![call[r].target] =
                                         sessionVersion[call[r].target] + 1]
                               ELSE sessionVersion
          /\ Bumps(r) => userLock[call[r].target] = r
        BY MembershipCommitEffect
    <2>2. sessionVersion[u] + 1 \in Nat
        BY <1>t, <1>1
    <2> QED
        BY <1>t, <1>1, <2>1, <2>2
<1>4. audit' \in Seq(InvitationAuditEntry)
    <2>1. seen[r].target \in Role \cup {None}
        BY <1>t DEF Seen
    <2>2. entry \in InvitationAuditEntry
        BY <1>1, <2>1 DEF InvitationAuditEntry
    <2>3. audit' = Append(audit, entry)
        BY DEF Commit
    <2> QED
        BY <1>t, <2>2, <2>3
<1>5. /\ pc' \in [Requests -> Labels \cup InviteLabels] /\ pc'[r] \in {"idle", "readback"}
      /\ call' \in [Requests -> Call \cup InviteCall \cup {None}]
      /\ seen' \in [Requests -> Seen]
      /\ \A s \in Requests \ {r} :
             pc'[s] = pc[s] /\ call'[s] = call[s] /\ seen'[s] = seen[s]
    <2>1. CASE call[r].op = "change_role"
        <3>1. pc' = [pc EXCEPT ![r] = "readback"] /\ UNCHANGED <<call, seen>>
            BY <2>1 DEF Commit, Goto
        <3> QED
            BY <1>t, <3>1 DEF Labels
    <2>2. CASE call[r].op # "change_role"
        <3>1. Finish(r)
            BY <2>2 DEF Commit
        <3> QED
            BY <3>1, FinishEffect
    <2> QED
        BY <2>1, <2>2
<1>6. UNCHANGED <<workspaces, registered, invitations, clock>> /\ ReleaseLocks(r)
    BY MembershipCommitEffect DEF inviteVars
<1>7. \A v \in Workspaces, t \in Users : members'[v][t] # None => t \in registered'
    BY <1>t, <1>1, <1>2, <1>6
<1>8. InvitationTypeOK'
    BY <1>2, <1>3, <1>4, <1>5, <1>6, <1>7, ReleaseEffect
    DEF InvitationInv, TablesInv, InvitationTypeOK
<1>9. OwnerExists'
    <2> SUFFICES ASSUME NEW v \in workspaces
                 PROVE  \E t \in Users : members'[v][t] = "owner"
        BY <1>6 DEF OwnerExists
    <2>1. v \in Workspaces
        BY <1>t
    <2>2. PICK t \in Users : members[v][t] = "owner"
        BY DEF OwnerExists, InvitationInv, TablesInv
    <2>3. CASE v # w \/ t # u
        BY <1>2, <2>1, <2>2, <2>3
    <2>4. CASE v = w /\ t = u /\ role = "owner"
        BY <1>2, <2>1, <2>4
    <2>5. CASE v = w /\ t = u /\ role # "owner"
        <3>1. pc[r] = "commit" /\ DropsOwner(r)
            BY <2>2, <2>5 DEF Commit, DropsOwner, InvitationInv, RequestInv, TargetKnown
        <3>2. PICK other \in Users \ {u} : members[w][other] = "owner"
            BY <3>1 DEF InvitationInv, RequestInv, OwnerLeft
        <3> QED
            BY <1>2, <2>1, <2>5, <3>2
    <2> QED
        BY <2>3, <2>4, <2>5
<1>10. RowsInv'
    BY <1>6 DEF InvitationInv, TablesInv, RowsInv, Active
<1>11. LeavesOthers(r)
    BY <1>t, <1>1, <1>2, <1>3, <1>5, <1>6, ReleaseEffect DEF LeavesOthers
<1>12. RequestInv(r)'
    BY <1>5, AtRest
<1> QED
    BY <1>5, <1>8, <1>9, <1>10, <1>11, <1>12, StepInv DEF TablesInv

\* A tenant made by create_workspace is nobody's yet, and its creator is registered.
LEMMA TenantCreatedInv ==
    ASSUME InvitationInv, NEW r \in Requests, UNCHANGED inviteVars, NEW c \in CreateCall,
           c.actor \in registered, CreateWorkspace(r, c)
    PROVE  InvitationInv'
<1> DEFINE entry == [type |-> "created", ws |-> c.ws, actor |-> c.actor, subject |-> c.actor,
                     from |-> None, to |-> "owner"]
<1>t. /\ members \in [Workspaces -> [Users -> Role \cup {None}]]
      /\ audit \in Seq(InvitationAuditEntry)
      /\ pc \in [Requests -> Labels \cup InviteLabels]
      /\ call \in [Requests -> Call \cup InviteCall \cup {None}]
      /\ workspaces \subseteq Workspaces /\ clock \in Nat
      /\ \A v \in Workspaces, t \in Users : members[v][t] # None => t \in registered
    BY TimeAssumption DEF InvitationInv, TablesInv, InvitationTypeOK
<1>1. c \in Call /\ c.ws \in Workspaces /\ c.actor \in Users
    BY CallFields DEF Call
<1>2. /\ c.ws \notin workspaces /\ workspaces' = workspaces \cup {c.ws}
      /\ members' = [members EXCEPT ![c.ws][c.actor] = "owner"]
      /\ audit' = Append(audit, entry)
      /\ call' = [call EXCEPT ![r] = c] /\ pc' = [pc EXCEPT ![r] = "readback"]
      /\ UNCHANGED <<sessionVersion, workspaceLock, userLock, seen>>
    BY DEF CreateWorkspace, Goto, locks
<1>3. /\ members' \in [Workspaces -> [Users -> Role \cup {None}]]
      /\ \A v \in Workspaces, t \in Users :
             members'[v][t] = IF v = c.ws /\ t = c.actor THEN "owner" ELSE members[v][t]
      /\ \A v \in Workspaces : v # c.ws => members'[v] = members[v]
    BY <1>t, <1>1, <1>2 DEF Role
<1>4. audit' \in Seq(InvitationAuditEntry)
    <2>1. entry \in InvitationAuditEntry
        BY <1>1 DEF InvitationAuditEntry, Role
    <2> QED
        BY <1>t, <1>2, <2>1
<1>5. /\ pc' \in [Requests -> Labels \cup InviteLabels] /\ pc'[r] = "readback"
      /\ call' \in [Requests -> Call \cup InviteCall \cup {None}]
      /\ \A s \in Requests \ {r} : pc'[s] = pc[s] /\ call'[s] = call[s]
    BY <1>t, <1>1, <1>2 DEF Labels
<1>6. UNCHANGED <<registered, invitations, clock>>
    BY DEF inviteVars
<1>7. \A v \in Workspaces, t \in Users : members'[v][t] # None => t \in registered'
    BY <1>t, <1>3, <1>6
<1>8. InvitationTypeOK'
    BY <1>1, <1>2, <1>3, <1>4, <1>5, <1>6, <1>7 DEF InvitationInv, TablesInv, InvitationTypeOK
<1>9. OwnerExists'
    BY <1>t, <1>1, <1>2, <1>3 DEF OwnerExists, InvitationInv, TablesInv
<1>10. RowsInv'
    BY <1>2, <1>6 DEF InvitationInv, TablesInv, RowsInv, Active
<1>11. LeavesOthers(r)
    BY <1>t, <1>2, <1>3, <1>5, <1>6 DEF LeavesOthers
<1>12. RequestInv(r)'
    BY <1>5, AtRest
<1> QED
    BY <1>5, <1>8, <1>9, <1>10, <1>11, <1>12, StepInv DEF TablesInv

--------------------------------------------------------------------------------
(* Every reachable state.                                                      *)

\* The invariant holds before any call.
LEMMA InitInvitation == InvitationInit => InvitationInv
<1> SUFFICES ASSUME InvitationInit PROVE InvitationInv
    OBVIOUS
<1>1. InvitationTypeOK /\ call \in [Requests -> Call \cup InviteCall \cup {None}]
    <2>1. Unread \in Seen
        BY DEF Unread, Seen
    <2> QED
        BY <2>1, TimeAssumption DEF InvitationInit, Init, InvitationTypeOK, Labels
<1>2. RowsInv
    BY DEF InvitationInit, RowsInv
<1>3. OwnerExists
    BY DEF InvitationInit, Init, OwnerExists, Owners
<1>4. \A r \in Requests : RequestInv(r)
    BY DEF InvitationInit, Init, RequestInv, WellCalled, HoldsTenant, HoldsUser, TargetKnown,
           OwnerLeft, TokenKnown, GrantStands, AddressFree, ClockRead, InTransaction, InviteLabels
<1> QED
    BY <1>1, <1>2, <1>3, <1>4 DEF InvitationInv, TablesInv

\* Every step of every handler, of the clock and of create_user preserves it.
LEMMA NextInvitation == InvitationInv /\ [InvitationNext]_allVars => InvitationInv'
<1> SUFFICES ASSUME InvitationInv, [InvitationNext]_allVars PROVE InvitationInv'
    OBVIOUS
<1>1. ASSUME NEW r \in Requests, InvitationProceed(r)
      PROVE  InvitationInv'
    <2>1. CASE LockTenant(r)
        BY <2>1, TenantLockedInv
    <2>2. CASE Decide(r)
        BY <2>2, DecidedInv
    <2>3. CASE Refuse(r) \/ AddressTaken(r)
        BY <2>3, EndInv DEF Refuse, AddressTaken, Abort, Rollback
    <2>4. CASE TakeUser(r)
        BY <2>4, UserTakenInv
    <2>5. CASE StoreIssued(r) \/ StoreRevoked(r) \/ StoreMembership(r)
        BY <2>5, IssuedInv, RevokedInv, JoinedInv
    <2> QED
        BY <1>1, <2>1, <2>2, <2>3, <2>4, <2>5 DEF InvitationProceed
<1>2. ASSUME NEW r \in Requests, MembershipStart(r), UNCHANGED inviteVars
      PROVE  InvitationInv'
    BY <1>2, MembershipMoveInv, TenantCreatedInv DEF MembershipStart
<1>3. ASSUME NEW r \in Requests, Proceed(r), UNCHANGED inviteVars
      PROVE  InvitationInv'
    <2>1. CASE LockWorkspace(r)
        BY <1>3, <2>1, TenantLockedInv
    <2>2. CASE ReadTarget(r) \/ CountOwners(r) \/ SkipUser(r)
        BY <1>3, <2>2, MembershipMoveInv
    <2>3. CASE RefuseTarget(r) \/ RefuseLastOwner(r)
        BY <1>3, <2>3, EndInv DEF RefuseTarget, RefuseLastOwner, Rollback
    <2>4. CASE LockUser(r)
        BY <1>3, <2>4, MembershipUserInv
    <2>5. CASE Commit(r)
        BY <1>3, <2>5, MembershipCommitInv
    <2>6. CASE ReadBack(r)
        BY <1>3, <2>6, EndInv DEF ReadBack
    <2> QED
        BY <1>3, <2>1, <2>2, <2>3, <2>4, <2>5, <2>6 DEF Proceed
<1>4. ASSUME NEW r \in Requests, Abandon(r), UNCHANGED inviteVars
      PROVE  InvitationInv'
    BY <1>4, EndInv DEF Abandon, Rollback
<1>5. ASSUME UNCHANGED allVars
      PROVE  InvitationInv'
    <2>1. UNCHANGED <<tables, inviteVars, workspaceLock, userLock, pc, call, seen>>
        BY <1>5 DEF allVars, vars, locks
    <2>2. TablesInv'
        BY <2>1, TablesKept DEF InvitationInv, TablesInv, InvitationTypeOK
    <2>3. LeavesOthers(None)
        BY <2>1, TimeAssumption
        DEF LeavesOthers, InvitationInv, TablesInv, InvitationTypeOK, tables, inviteVars
    <2>4. ASSUME NEW s \in Requests
          PROVE  RequestInv(s)'
        BY <2>2, <2>3, NoneAssumption, OthersKept DEF TablesInv
    <2> QED
        BY <2>2, <2>4 DEF InvitationInv
<1>6. ASSUME Rest, UNCHANGED inviteVars
      PROVE  InvitationInv'
    BY <1>5, <1>6 DEF Rest, allVars
<1> QED
    BY <1>1, <1>2, <1>3, <1>4, <1>5, <1>6, InvitationStartInv, EnvironmentInv
    DEF InvitationNext, MembershipStep

\* Every reachable state satisfies the inductive invariant.
THEOREM InvitationInvariance == InvitationSpec => []InvitationInv
BY InitInvitation, NextInvitation, PTL DEF InvitationSpec

\* Every table, lock and request variable keeps its type; no row is accepted and
\* revoked, and only registered identities are members.
THEOREM InvitationTypes == InvitationSpec => []InvitationTypeOK
<1>1. InvitationInv => InvitationTypeOK
    BY DEF InvitationInv, TablesInv
<1> QED
    BY <1>1, InvitationInvariance, PTL

\* The partial unique index on open invitations is never what refuses an issue
\* (repository.py, issue_invitation).
THEOREM OneOpenInvitation == InvitationSpec => []OneActivePerEmail
<1>1. InvitationInv => OneActivePerEmail
    <2> SUFFICES ASSUME InvitationInv, NEW w \in Workspaces, NEW u \in Users
                 PROVE  Cardinality(ActiveFor(w, u)) <= 1
        BY DEF OneActivePerEmail
    <2>1. CASE ActiveFor(w, u) = {}
        BY <2>1, FS_EmptySet
    <2>2. ASSUME NEW i \in ActiveFor(w, u)
          PROVE  Cardinality(ActiveFor(w, u)) <= 1
        <3>1. ActiveFor(w, u) = {i}
            BY <2>2 DEF ActiveFor, InvitationInv, TablesInv, RowsInv
        <3>2. Cardinality({i}) = 1
            BY FS_Singleton
        <3> QED
            BY <3>1, <3>2
    <2> QED
        BY <2>1, <2>2
<1> QED
    BY <1>1, InvitationInvariance, PTL

\* The conditional UPDATE that consumes an invitation never meets a row somebody else
\* has closed since the checks (repository.py, "accepted concurrently").
THEOREM NoConsumptionRace == InvitationSpec => []ConsumptionNeverRaces
<1>1. InvitationInv => ConsumptionNeverRaces
    BY DEF InvitationInv, RequestInv, GrantStands, ConsumptionNeverRaces
<1> QED
    BY <1>1, InvitationInvariance, PTL

--------------------------------------------------------------------------------
(* The action properties.                                                      *)

\* The steps that write a membership, a tenant, a version or an invitation.
LEMMA WritingSteps ==
    ASSUME InvitationInv, [InvitationNext]_allVars
    PROVE  \/ UNCHANGED <<workspaces, members, sessionVersion, invitations>>
           \/ \E r \in Requests :
                 \/ StoreIssued(r)
                 \/ StoreRevoked(r)
                 \/ StoreMembership(r)
                 \/ Commit(r) /\ UNCHANGED inviteVars
           \/ \E r \in Requests, c \in CreateCall :
                 CreateWorkspace(r, c) /\ UNCHANGED inviteVars
<1> DEFINE Quiet4 == UNCHANGED <<workspaces, members, sessionVersion, invitations>>
<1>1. ASSUME NEW r \in Requests, InvitationStart(r)
      PROVE  Quiet4
    BY <1>1 DEF InvitationStart, Issue, Revoke, Accept, Register, Begin, tables, inviteVars
<1>2. ASSUME NEW r \in Requests,
             \/ LockTenant(r) \/ Decide(r) \/ Refuse(r) \/ TakeUser(r) \/ AddressTaken(r)
      PROVE  Quiet4
    BY <1>2 DEF LockTenant, Decide, Advance, Refuse, TakeUser, AddressTaken, Abort, Rollback,
                tables, inviteVars
<1>3. ASSUME NEW r \in Requests, Proceed(r) \/ Abandon(r), UNCHANGED inviteVars
      PROVE  Commit(r) \/ Quiet4
    BY <1>3 DEF Proceed, Abandon, LockWorkspace, ReadTarget, RefuseTarget, CountOwners,
                RefuseLastOwner, SkipUser, LockUser, ReadBack, Rollback, tables, inviteVars
<1>4. ASSUME NEW r \in Requests, NEW c \in ChangeRoleCall \cup RemoveCall, Authorize(r, c),
             UNCHANGED inviteVars
      PROVE  Quiet4
    BY <1>4 DEF Authorize, tables, inviteVars
<1>5. ASSUME Tick \/ (\E u \in Users : CreateUser(u)) \/ UNCHANGED allVars
             \/ (Rest /\ UNCHANGED inviteVars)
      PROVE  Quiet4
    BY <1>5 DEF Tick, CreateUser, Rest, allVars, vars, tables, inviteVars
<1>6. ASSUME NEW r \in Requests, InvitationProceed(r)
      PROVE  StoreIssued(r) \/ StoreRevoked(r) \/ StoreMembership(r) \/ Quiet4
    BY <1>2, <1>6 DEF InvitationProceed
<1>7. ASSUME NEW r \in Requests, MembershipStep(r)
      PROVE  \/ Commit(r) /\ UNCHANGED inviteVars
             \/ \E c \in CreateCall : CreateWorkspace(r, c) /\ UNCHANGED inviteVars
             \/ Quiet4
    BY <1>3, <1>4, <1>7 DEF MembershipStep, MembershipStart
<1> HIDE DEF Quiet4
<1>8. CASE \E r \in Requests : InvitationStart(r) \/ InvitationProceed(r) \/ MembershipStep(r)
    <2> PICK r \in Requests : InvitationStart(r) \/ InvitationProceed(r) \/ MembershipStep(r)
        BY <1>8
    <2> QED
        BY <1>1, <1>6, <1>7 DEF Quiet4
<1>9. CASE \/ Tick \/ (\E u \in Users : CreateUser(u)) \/ UNCHANGED allVars
           \/ (Rest /\ UNCHANGED inviteVars)
    BY <1>5, <1>9 DEF Quiet4
<1> QED
    BY <1>8, <1>9 DEF InvitationNext

\* No step rewrites a closed invitation, and an open one is closed once: by the UPDATEs
\* of accept, register and revoke, and by the issue that replaces it.
THEOREM InvitationsStayClosed == InvitationSpec => ClosedForGood
<1> DEFINE Closing ==
        \A i \in DOMAIN invitations :
            LET old == invitations[i]  new == invitations'[i] IN
            new # old => /\ ~old.accepted /\ ~old.revoked
                         /\ \/ new = [old EXCEPT !.accepted = TRUE]
                            \/ new = [old EXCEPT !.revoked = TRUE]
<1>1. ASSUME InvitationInv, [InvitationNext]_allVars
      PROVE  Closing
    <2> SUFFICES ASSUME NEW i \in DOMAIN invitations, invitations'[i] # invitations[i]
                 PROVE  /\ Active(i)
                        /\ \/ invitations'[i] = [invitations[i] EXCEPT !.accepted = TRUE]
                           \/ invitations'[i] = [invitations[i] EXCEPT !.revoked = TRUE]
        BY DEF Active
    <2>t. invitations \in [1..Len(invitations) -> Invitation]
        BY <1>1 DEF InvitationInv, TablesInv, InvitationTypeOK
    <2>1. ASSUME NEW r \in Requests, StoreIssued(r)
          PROVE  Active(i) /\ invitations'[i] = [invitations[i] EXCEPT !.revoked = TRUE]
        BY <1>1, <2>1, IssuedRows DEF ActiveFor
    <2>2. ASSUME NEW r \in Requests, StoreRevoked(r)
          PROVE  Active(i) /\ invitations'[i] = [invitations[i] EXCEPT !.revoked = TRUE]
        BY <1>1, <2>t, <2>2, RevokedRow
    <2>3. ASSUME NEW r \in Requests, StoreMembership(r)
          PROVE  Active(i) /\ invitations'[i] = [invitations[i] EXCEPT !.accepted = TRUE]
        <3>1. /\ invitations' = [invitations EXCEPT ![call[r].token].accepted = TRUE]
              /\ call[r].token \in DOMAIN invitations /\ Active(call[r].token)
            BY <1>1, <2>3, JoinEffect
        <3> QED
            BY <2>t, <3>1
    <2> QED
        BY <1>1, <2>1, <2>2, <2>3, WritingSteps DEF inviteVars
<1>2. InvitationInv /\ [InvitationNext]_allVars => [Closing]_allVars
    BY <1>1
<1> QED
    BY <1>2, InvitationInvariance, PTL DEF InvitationSpec, ClosedForGood

\* Nobody enters a tenant that exists but by a join, which consumes an open invitation
\* for that tenant, address and role in the same commit.
THEOREM JoinsAreInvited == InvitationSpec => JoinConsumesInvitation
<1> DEFINE Invited ==
        \A w \in workspaces, u \in Users :
            members[w][u] = None /\ members'[w][u] # None =>
                \E i \in DOMAIN invitations :
                    /\ invitations[i].ws = w /\ invitations[i].email = u
                    /\ invitations[i].role = members'[w][u]
                    /\ Active(i) /\ invitations'[i].accepted
<1>1. ASSUME InvitationInv, [InvitationNext]_allVars
      PROVE  Invited
    <2> SUFFICES ASSUME NEW w \in workspaces, NEW u \in Users,
                        members[w][u] = None, members'[w][u] # None
                 PROVE  \E i \in DOMAIN invitations :
                            /\ invitations[i].ws = w /\ invitations[i].email = u
                            /\ invitations[i].role = members'[w][u]
                            /\ Active(i) /\ invitations'[i].accepted
        OBVIOUS
    <2>t. /\ invitations \in [1..Len(invitations) -> Invitation] /\ w \in Workspaces
          /\ members \in [Workspaces -> [Users -> Role \cup {None}]]
        BY <1>1 DEF InvitationInv, TablesInv, InvitationTypeOK
    <2>1. ASSUME NEW r \in Requests, StoreIssued(r) \/ StoreRevoked(r)
          PROVE  FALSE
        BY <2>1 DEF StoreIssued, StoreRevoked
    <2>2. ASSUME NEW r \in Requests, Commit(r)
          PROVE  FALSE
        <3>1. /\ members[call[r].ws][call[r].target] # None
              /\ call[r].ws \in Workspaces /\ call[r].target \in Users
              /\ members' = [members EXCEPT ![call[r].ws][call[r].target] = call[r].role]
            BY <1>1, <2>2, MembershipCommitEffect
        <3> QED
            BY <2>t, <3>1
    <2>3. ASSUME NEW r \in Requests, NEW c \in CreateCall, CreateWorkspace(r, c)
          PROVE  FALSE
        <3>1. /\ c.ws \notin workspaces
              /\ members' = [members EXCEPT ![c.ws][c.actor] = "owner"]
            BY <2>3 DEF CreateWorkspace
        <3> QED
            BY <2>t, <3>1
    <2>4. ASSUME NEW r \in Requests, StoreMembership(r)
          PROVE  \E i \in DOMAIN invitations :
                     /\ invitations[i].ws = w /\ invitations[i].email = u
                     /\ invitations[i].role = members'[w][u]
                     /\ Active(i) /\ invitations'[i].accepted
        <3> DEFINE i == call[r].token
        <3>1. /\ i \in DOMAIN invitations /\ Active(i)
              /\ invitations[i].ws = call[r].ws /\ invitations[i].email = call[r].target
              /\ call[r].ws \in Workspaces /\ call[r].target \in Users
            BY <1>1, <2>4, JoinEffect
        <3>2. members' = [members EXCEPT ![call[r].ws][call[r].target] = invitations[call[r].token].role]
            BY <1>1, <2>4, JoinEffect
        <3>3. call[r].ws = w /\ call[r].target = u /\ members'[w][u] = invitations[i].role
            BY <2>t, <3>1, <3>2
        <3>4. invitations' = [invitations EXCEPT ![call[r].token].accepted = TRUE]
            BY <1>1, <2>4, JoinEffect
        <3>5. invitations'[i].accepted
            <4>1. invitations[i] \in Invitation
                BY <2>t, <3>1
            <4>2. invitations'[i] = [invitations[i] EXCEPT !.accepted = TRUE]
                BY <2>t, <3>1, <3>4
            <4> QED
                BY <4>1, <4>2 DEF Invitation
        <3> QED
            BY <3>1, <3>3, <3>5
    <2> QED
        BY <1>1, <2>1, <2>2, <2>3, <2>4, WritingSteps
<1>2. InvitationInv /\ [InvitationNext]_allVars => [Invited]_allVars
    BY <1>1
<1> QED
    BY <1>2, InvitationInvariance, PTL DEF InvitationSpec, JoinConsumesInvitation

\* An issue that waited for the tenant still replaces only what has expired by then
\* (repository.py, issue_invitation: the expiry is compared with an earlier clock).
THEOREM OnlyExpiredGo == InvitationSpec => OnlyExpiredReplaced
<1> DEFINE Expired ==
        \A i \in DOMAIN invitations :
            (Active(i) /\ Len(invitations') > Len(invitations) /\ invitations'[i].revoked)
            => invitations[i].expires <= clock
<1>1. ASSUME InvitationInv, [InvitationNext]_allVars
      PROVE  Expired
    <2> SUFFICES ASSUME NEW i \in DOMAIN invitations, Active(i),
                        Len(invitations') > Len(invitations), invitations'[i].revoked
                 PROVE  invitations[i].expires <= clock
        OBVIOUS
    <2>t. /\ invitations \in [1..Len(invitations) -> Invitation] /\ Len(invitations) \in Nat
          /\ invitations[i] \in Invitation /\ clock \in Nat
        BY <1>1, TimeAssumption DEF InvitationInv, TablesInv, InvitationTypeOK
    <2>1. ASSUME NEW r \in Requests, StoreRevoked(r) \/ StoreMembership(r)
          PROVE  FALSE
        <3>1. PICK token, row : invitations' = [invitations EXCEPT ![token] = row]
            <4>1. CASE StoreRevoked(r)
                BY <1>1, <4>1, RevokedRow
            <4>2. CASE StoreMembership(r)
                BY <4>2 DEF StoreMembership, Consumed
            <4> QED
                BY <2>1, <4>1, <4>2
        <3>2. Len(invitations') = Len(invitations)
            BY <2>t, <3>1
        <3> QED
            BY <2>t, <3>2
    <2>2. ASSUME invitations' = invitations
          PROVE  FALSE
        BY <2>t, <2>2
    <2>3. ASSUME NEW r \in Requests, StoreIssued(r)
          PROVE  invitations[i].expires <= clock
        <3>1. /\ pc[r] = "store" /\ call[r].op = "issue_invitation"
              /\ i \in ActiveFor(call[r].ws, call[r].target)
            <4>1. \A j \in DOMAIN invitations :
                      invitations'[j] = IF j \in ActiveFor(call[r].ws, call[r].target)
                                        THEN [invitations[j] EXCEPT !.revoked = TRUE]
                                        ELSE invitations[j]
                BY <1>1, <2>3, IssuedRows
            <4>2. i \notin ActiveFor(call[r].ws, call[r].target) =>
                      invitations'[i] = invitations[i]
                BY <4>1
            <4> QED
                BY <1>1, <2>3, <4>2, IssuedRows DEF Active
        <3>2. /\ ~Blocked(call[r]) /\ call[r].now <= clock /\ call[r] \in InviteCall
            BY <1>1, <3>1
            DEF InvitationInv, RequestInv, GrantStands, ClockRead, WellCalled, InviteLabels
        <3>3. ~(invitations[i].expires > call[r].now)
            BY <3>1, <3>2 DEF Blocked
        <3>4. call[r].now \in Nat /\ invitations[i].expires \in Nat
            BY <2>t, <3>1, <3>2, InviteCallFields DEF Invitation
        <3> QED
            BY <2>t, <3>2, <3>3, <3>4
    <2> QED
        BY <1>1, <2>1, <2>2, <2>3, WritingSteps DEF inviteVars
<1>2. InvitationInv /\ [InvitationNext]_allVars => [Expired]_allVars
    BY <1>1
<1> QED
    BY <1>2, InvitationInvariance, PTL DEF InvitationSpec, OnlyExpiredReplaced

\* A registration writes over no identity another call has made
\* (repository.py, register_from_invitation: the unique address).
THEOREM RegistersOnce == InvitationSpec => IdentityCreatedOnce
<1> DEFINE Fresh ==
        \A r \in Requests :
            (/\ pc[r] = "store" /\ pc'[r] = "readback"
             /\ call[r].op = "register_from_invitation")
            => call[r].target \notin registered
<1>1. InvitationInv => Fresh
    BY DEF InvitationInv, RequestInv, AddressFree
<1>2. InvitationInv /\ [InvitationNext]_allVars => [Fresh]_allVars
    BY <1>1
<1> QED
    BY <1>2, InvitationInvariance, PTL DEF InvitationSpec, IdentityCreatedOnce

--------------------------------------------------------------------------------
(* The refinement: with invitations, every step is still a step of the tenancy  *)
(* contract or a stutter.                                                       *)

\* A join is a change of role from none, and ends the sessions opened before it.
LEMMA JoinContract ==
    ASSUME InvitationInv, NEW r \in Requests, StoreMembership(r)
    PROVE  Contract!Next
<1> DEFINE w == call[r].ws
           u == call[r].target
           role == invitations[call[r].token].role
<1>1. /\ w \in workspaces /\ w \in Workspaces /\ u \in Users /\ role \in InviteRole
      /\ members[w][u] = None /\ UNCHANGED workspaces
    BY JoinEffect
<1>2. /\ members' = [members EXCEPT ![w][u] = role]
      /\ sessionVersion' = [sessionVersion EXCEPT ![u] = sessionVersion[u] + 1]
    BY JoinEffect
<1>3. role \in Contract!Role /\ role # None
    BY <1>1, NoneAssumption, SameRoles DEF InviteRole
<1>4. \E owner \in Users : members'[w][owner] = "owner"
    BY <1>1, JoinedInv DEF InvitationInv, TablesInv, OwnerExists
<1>5. Contract!EndSessions(u)
    BY <1>2 DEF Contract!EndSessions
<1>6. Contract!SetRole(w, u, role)
    BY <1>1, <1>2, <1>3, <1>4, <1>5 DEF Contract!SetRole
<1> QED
    BY <1>1, <1>3, <1>6 DEF Contract!Next

\* So is a membership commit, or it changes nothing the contract speaks of.
LEMMA MembershipCommitContract ==
    ASSUME InvitationInv, NEW r \in Requests, Commit(r), UNCHANGED inviteVars
    PROVE  Contract!Next \/ UNCHANGED Contract!tenancy
<1> DEFINE w == call[r].ws
           u == call[r].target
           role == call[r].role
<1>1. /\ w \in workspaces /\ w \in Workspaces /\ u \in Users /\ role \in Role \cup {None}
      /\ Bumps(r) <=> members[w][u] # role
      /\ UNCHANGED workspaces
    BY MembershipCommitEffect
<1>2. /\ members' = [members EXCEPT ![w][u] = role]
      /\ sessionVersion' = IF Bumps(r)
                           THEN [sessionVersion EXCEPT ![u] = sessionVersion[u] + 1]
                           ELSE sessionVersion
    BY MembershipCommitEffect
<1>3. CASE Bumps(r)
    <2>1. Contract!EndSessions(u)
        BY <1>2, <1>3 DEF Contract!EndSessions
    <2>2. \E owner \in Users : members'[w][owner] = "owner"
        BY <1>1, MembershipCommitInv DEF InvitationInv, TablesInv, OwnerExists
    <2>3. Contract!SetRole(w, u, role)
        BY <1>1, <1>2, <1>3, <2>1, <2>2 DEF Contract!SetRole
    <2> QED
        BY <1>1, <2>3, SameRoles DEF Contract!Next
<1>4. CASE ~Bumps(r)
    <2>1. members \in [Workspaces -> [Users -> Role \cup {None}]]
        BY DEF InvitationInv, TablesInv, InvitationTypeOK
    <2>2. members' = members
        BY <1>1, <1>2, <1>4, <2>1
    <2> QED
        BY <1>1, <1>2, <1>4, <2>2 DEF Contract!tenancy
<1> QED
    BY <1>3, <1>4

\* The invitation and membership handlers together implement the contract: whoever
\* joins through an invitation loses the sessions opened before, and no interleaving
\* of the two families leaves a tenant without an owner.
THEOREM InvitationRefinement == InvitationSpec => ImplementsTenancy
<1>1. ASSUME InvitationInv, [InvitationNext]_allVars
      PROVE  [Contract!Next]_Contract!tenancy
    <2>1. ASSUME NEW r \in Requests, StoreIssued(r) \/ StoreRevoked(r)
          PROVE  UNCHANGED Contract!tenancy
        BY <2>1 DEF StoreIssued, StoreRevoked, Contract!tenancy
    <2>2. ASSUME NEW r \in Requests, NEW c \in CreateCall, CreateWorkspace(r, c)
          PROVE  Contract!Next
        <3>1. c.ws \in Workspaces /\ c.actor \in Users
            BY DEF CreateCall
        <3>2. Contract!CreateWorkspace(c.ws, c.actor)
            BY <2>2 DEF CreateWorkspace, Contract!CreateWorkspace
        <3> QED
            BY <3>1, <3>2 DEF Contract!Next
    <2>3. CASE UNCHANGED <<workspaces, members, sessionVersion, invitations>>
        BY <2>3 DEF Contract!tenancy
    <2> QED
        BY <1>1, <2>1, <2>2, <2>3, WritingSteps, JoinContract, MembershipCommitContract
<1>2. InvitationInv /\ [InvitationNext]_allVars => [Contract!Next]_Contract!tenancy
    BY <1>1
<1>3. InvitationInit => Contract!Init
    BY InitContract DEF InvitationInit
<1> QED
    BY <1>2, <1>3, InvitationInvariance, PTL DEF InvitationSpec, ImplementsTenancy, Contract!Spec
================================================================================
