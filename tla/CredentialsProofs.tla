--------------------------- MODULE CredentialsProofs ---------------------------
(* Machine-checked proofs about Credentials: resets, sign-ins and the          *)
(* membership handlers together, for any users, tenants, requests and secrets. *)
(*                                                                             *)
(* As in InvitationsProofs, the argument is by what a step of one request      *)
(* leaves to the others.  Three more rows carry it: whoever closes a user's    *)
(* open reset row holds it, whoever adds an open row holds the user's entry of *)
(* the index of open resets, and whoever resets the password holds the user.   *)
EXTENDS Credentials, MembershipsProofs

--------------------------------------------------------------------------------
(* The inductive invariant.                                                    *)

IssueLabels   == {"membership", "tenant", "select", "revoke", "insert", "issued"}
ConsumeLabels == {"token", "consume", "password", "consumed"}

\* A request past its first check carries a call its handler can have, on a tenant that
\* exists or a token that was issued.
WellCalled(r) ==
    /\ pc[r] \in Labels \ {"idle", "readback"} =>
           call[r] \in ChangeRoleCall \cup RemoveCall /\ call[r].ws \in workspaces
    /\ pc[r] \in IssueLabels => call[r] \in IssueResetCall
    /\ pc[r] \in ConsumeLabels =>
           /\ call[r] \in ConsumeCall
           /\ call[r].token \in DOMAIN resets
           /\ resets[call[r].token].user = call[r].target
    /\ pc[r] \in {"rehash", "signed"} => call[r] \in SignInCall

HoldsTenant(r) == pc[r] \in InTransaction => workspaceLock[call[r].ws] = r

\* A user row written is held, and its version is the next one.
HoldsUser(r) ==
    pc[r] = "consumed" \/ (pc[r] = "commit" /\ Bumps(r)) =>
        /\ userLock[call[r].target] = r
        /\ seen[r].version = sessionVersion[call[r].target] + 1

\* What change_role and remove_membership read of the target is still so.
TargetKnown(r) ==
    pc[r] \in {"count", "write", "commit"} =>
        /\ seen[r].target # None
        /\ seen[r].target = members[call[r].ws][call[r].target]

\* Past the count, a request about to drop an owner leaves another one.
OwnerLeft(r) ==
    pc[r] \in {"write", "commit"} /\ DropsOwner(r) =>
        \E u \in Users \ {call[r].target} : members[call[r].ws][u] = "owner"

\* An issue holds the rows it will revoke, which stay open; once its own row is in the
\* index, they are all the open rows its user has.
RevokesOpen(r) ==
    /\ pc[r] \in {"insert", "issued"} =>
        /\ revoking[r] \subseteq OpenResets(call[r].target)
        /\ revoking[r] # {} => rowLock[call[r].target] = r
    /\ pc[r] = "issued" =>
        /\ indexLock[call[r].target] = r
        /\ OpenResets(call[r].target) = revoking[r]

\* A token that is being used is held, and open.
UsesOpen(r) ==
    pc[r] \in {"password", "consumed"} =>
        rowLock[call[r].target] = r /\ Open(call[r].token)

RequestInv(r) ==
    /\ WellCalled(r) /\ HoldsTenant(r) /\ HoldsUser(r) /\ TargetKnown(r) /\ OwnerLeft(r)
    /\ RevokesOpen(r) /\ UsesOpen(r)

\* Two open tokens belong to two users.
ResetsInv == \A i, j \in DOMAIN resets :
    Open(i) /\ Open(j) /\ resets[i].user = resets[j].user => i = j

\* Every table is well formed, and every tenant keeps an owner.
TablesInv ==
    /\ CredentialTypeOK
    /\ call \in [Requests -> Call \cup ResetCall \cup {None}]
    /\ ResetsInv
    /\ OwnerExists

CredentialInv == TablesInv /\ \A r \in Requests : RequestInv(r)

\* What a step of r leaves to every other request: where it stands, and what its
\* locks protect.
LeavesOthers(r) ==
    /\ \A s \in Requests \ {r} :
           pc'[s] = pc[s] /\ call'[s] = call[s] /\ seen'[s] = seen[s] /\ revoking'[s] = revoking[s]
    /\ workspaces \subseteq workspaces'
    /\ \A w \in workspaces : workspaceLock[w] \notin {None, r} =>
           workspaceLock'[w] = workspaceLock[w] /\ members'[w] = members[w]
    /\ \A u \in Users : userLock[u] \notin {None, r} =>
           userLock'[u] = userLock[u] /\ sessionVersion'[u] = sessionVersion[u]
    /\ \A u \in Users : rowLock[u] \notin {None, r} =>
           rowLock'[u] = rowLock[u] /\ OpenResets(u) \subseteq OpenResets(u)'
    /\ \A u \in Users : indexLock[u] \notin {None, r} =>
           indexLock'[u] = indexLock[u] /\ OpenResets(u)' \subseteq OpenResets(u)
    /\ \A i \in DOMAIN resets : i \in DOMAIN resets' /\ resets'[i].user = resets[i].user

--------------------------------------------------------------------------------
(* What one request's step leaves to the others.                               *)

\* Every field of a reset or sign-in call.
LEMMA ResetCallFields ==
    ASSUME NEW c \in ResetCall
    PROVE  /\ c.target \in Users
           /\ c \in IssueResetCall => c.actor \in Users /\ c.ws \in Workspaces
           /\ c \in ConsumeCall => c.token \in Nat /\ c.secret \in Secrets
           /\ c \in SignInCall => c.secret \in Secrets
BY DEF ResetCall, IssueResetCall, ConsumeCall, SignInCall

\* Whatever a request is doing, it is about a user.
LEMMA TargetOf ==
    ASSUME CredentialInv, NEW r \in Requests, pc[r] \notin {"idle", "readback"}
    PROVE  call[r].target \in Users
<1>1. pc[r] \in Labels \cup ResetLabels
    BY DEF CredentialInv, TablesInv, CredentialTypeOK
<1>2. CASE pc[r] \in Labels
    <2>1. call[r] \in ChangeRoleCall \cup RemoveCall
        BY <1>2 DEF CredentialInv, RequestInv, WellCalled
    <2> QED
        BY <2>1, CallFields DEF Call
<1>3. CASE pc[r] \in ResetLabels
    <2>1. call[r] \in ResetCall
        BY <1>3 DEF CredentialInv, RequestInv, WellCalled, ResetLabels, IssueLabels,
                    ConsumeLabels, ResetCall
    <2> QED
        BY <2>1, ResetCallFields
<1> QED
    BY <1>1, <1>2, <1>3

\* The tenant of a membership call exists.
LEMMA TenantOf ==
    ASSUME CredentialInv, NEW r \in Requests, pc[r] \in Labels \ {"idle", "readback"}
    PROVE  call[r].ws \in workspaces /\ call[r].ws \in Workspaces
BY DEF CredentialInv, TablesInv, CredentialTypeOK, RequestInv, WellCalled

\* A request that is idle or reads back relies on nothing.
LEMMA AtRest ==
    ASSUME NEW r \in Requests, pc'[r] \in {"idle", "readback"}
    PROVE  RequestInv(r)'
BY DEF RequestInv, WellCalled, HoldsTenant, HoldsUser, TargetKnown, OwnerLeft, RevokesOpen,
       UsesOpen, InTransaction, IssueLabels, ConsumeLabels

\* What a request relies on survives a step of anybody else.
LEMMA OthersKept ==
    ASSUME CredentialInv, NEW r, NEW s \in Requests, s # r, LeavesOthers(r)
    PROVE  RequestInv(s)'
<1> DEFINE w == call[s].ws
           u == call[s].target
<1>1. /\ pc'[s] = pc[s] /\ call'[s] = call[s] /\ seen'[s] = seen[s]
      /\ revoking'[s] = revoking[s]
    BY DEF LeavesOthers
<1>2. CASE pc[s] \in {"idle", "readback"}
    BY <1>1, <1>2, AtRest
<1>3. CASE pc[s] \notin {"idle", "readback"}
    <2>1. u \in Users /\ s # None
        BY <1>3, TargetOf, NoneAssumption
    <2>2. WellCalled(s)'
        BY <1>1 DEF CredentialInv, RequestInv, WellCalled, LeavesOthers
    <2>3. ASSUME pc[s] \in InTransaction
          PROVE  workspaceLock[w] = s /\ workspaceLock'[w] = s /\ members'[w] = members[w]
        <3>1. workspaceLock[w] = s
            BY <2>3 DEF CredentialInv, RequestInv, HoldsTenant
        <3>2. w \in workspaces
            BY <2>3, TenantOf DEF InTransaction, Labels
        <3> QED
            BY <2>1, <3>1, <3>2 DEF LeavesOthers
    <2>4. HoldsTenant(s)'
        BY <1>1, <2>3 DEF HoldsTenant
    <2>5. HoldsUser(s)'
        <3> SUFFICES ASSUME pc[s] = "consumed" \/ (pc[s] = "commit" /\ Bumps(s))
                     PROVE  userLock'[u] = s /\ seen[s].version = sessionVersion'[u] + 1
            BY <1>1 DEF HoldsUser, Bumps
        <3>1. userLock[u] = s /\ seen[s].version = sessionVersion[u] + 1
            BY DEF CredentialInv, RequestInv, HoldsUser
        <3> QED
            BY <2>1, <3>1 DEF LeavesOthers
    <2>6. TargetKnown(s)' /\ OwnerLeft(s)'
        BY <1>1, <2>3 DEF TargetKnown, OwnerLeft, DropsOwner, CredentialInv, RequestInv,
                          InTransaction
    <2>7. RevokesOpen(s)'
        <3>1. ASSUME pc[s] \in {"insert", "issued"}
              PROVE  /\ revoking[s] \subseteq OpenResets(u)'
                     /\ revoking[s] # {} => rowLock'[u] = s
            <4>1. revoking[s] \subseteq OpenResets(u) /\ (revoking[s] # {} => rowLock[u] = s)
                BY <3>1 DEF CredentialInv, RequestInv, RevokesOpen
            <4>2. rowLock[u] = s => rowLock'[u] = s /\ OpenResets(u) \subseteq OpenResets(u)'
                BY <2>1 DEF LeavesOthers
            <4> QED
                BY <4>1, <4>2
        <3>2. ASSUME pc[s] = "issued"
              PROVE  indexLock'[u] = s /\ OpenResets(u)' = revoking[s]
            <4>1. indexLock[u] = s /\ OpenResets(u) = revoking[s]
                BY <3>2 DEF CredentialInv, RequestInv, RevokesOpen
            <4>2. indexLock'[u] = s /\ OpenResets(u)' \subseteq OpenResets(u)
                BY <2>1, <4>1 DEF LeavesOthers
            <4> QED
                BY <3>1, <3>2, <4>1, <4>2
        <3>3. OpenResets(call[s].target)' = OpenResets(u)'
            OBVIOUS
        <3> QED
            BY <1>1, <3>1, <3>2 DEF RevokesOpen, OpenResets
    <2>8. UsesOpen(s)'
        <3> SUFFICES ASSUME pc[s] \in {"password", "consumed"}
                     PROVE  rowLock'[u] = s /\ Open(call[s].token)'
            BY <1>1 DEF UsesOpen, Open
        <3>1. rowLock[u] = s /\ call[s].token \in OpenResets(u)
            BY DEF CredentialInv, RequestInv, UsesOpen, WellCalled, ConsumeLabels, OpenResets
        <3>2. rowLock'[u] = s /\ call[s].token \in OpenResets(u)'
            BY <2>1, <3>1 DEF LeavesOthers
        <3> QED
            BY <1>1, <3>2 DEF OpenResets, Open
    <2> QED
        BY <2>2, <2>4, <2>5, <2>6, <2>7, <2>8 DEF RequestInv
<1> QED
    BY <1>2, <1>3

\* A step that leaves the others alone, and the tables and its own request in order.
LEMMA StepInv ==
    ASSUME CredentialInv, NEW r \in Requests, LeavesOthers(r), TablesInv', RequestInv(r)'
    PROVE  CredentialInv'
<1>1. ASSUME NEW s \in Requests, s # r
      PROVE  RequestInv(s)'
    BY <1>1, OthersKept
<1> QED
    BY <1>1 DEF CredentialInv

\* The row locks given back are the request's own.
LEMMA ReleaseEffect ==
    ASSUME CredentialInv, NEW r \in Requests, ReleaseLocks(r)
    PROVE  /\ workspaceLock' \in [Workspaces -> Requests \cup {None}]
           /\ userLock' \in [Users -> Requests \cup {None}]
           /\ \A w \in Workspaces : workspaceLock[w] # r => workspaceLock'[w] = workspaceLock[w]
           /\ \A u \in Users : userLock[u] # r => userLock'[u] = userLock[u]
<1>1. /\ workspaceLock \in [Workspaces -> Requests \cup {None}]
      /\ userLock \in [Users -> Requests \cup {None}]
    BY DEF CredentialInv, TablesInv, CredentialTypeOK
<1>2. workspaceLock' = ReleasedBy(workspaceLock, r) /\ userLock' = ReleasedBy(userLock, r)
    BY DEF ReleaseLocks
<1> QED
    BY <1>1, <1>2, ReleasedByType

\* So are the locks on its user's resets, and it will revoke none of them.
LEMMA ReleaseResetEffect ==
    ASSUME CredentialInv, NEW r \in Requests, ReleaseResetLocks(r)
    PROVE  /\ {rowLock', indexLock'} \subseteq [Users -> Requests \cup {None}]
           /\ revoking' \in [Requests -> SUBSET DOMAIN resets]
           /\ \A u \in Users : rowLock[u] # r => rowLock'[u] = rowLock[u]
           /\ \A u \in Users : indexLock[u] # r => indexLock'[u] = indexLock[u]
           /\ \A s \in Requests \ {r} : revoking'[s] = revoking[s]
<1>1. /\ rowLock \in [Users -> Requests \cup {None}]
      /\ indexLock \in [Users -> Requests \cup {None}]
      /\ revoking \in [Requests -> SUBSET DOMAIN resets]
    BY DEF CredentialInv, TablesInv, CredentialTypeOK
<1>2. /\ rowLock' = ReleasedBy(rowLock, r) /\ indexLock' = ReleasedBy(indexLock, r)
      /\ revoking' = [revoking EXCEPT ![r] = {}]
    BY DEF ReleaseResetLocks
<1>3. /\ rowLock' \in [Users -> Requests \cup {None}]
      /\ indexLock' \in [Users -> Requests \cup {None}]
      /\ \A u \in Users : rowLock[u] # r => rowLock'[u] = rowLock[u]
      /\ \A u \in Users : indexLock[u] # r => indexLock'[u] = indexLock[u]
    BY <1>1, <1>2, ReleasedByType
<1> QED
    BY <1>1, <1>2, <1>3

\* A call that ends touches no other.
LEMMA FinishEffect ==
    ASSUME CredentialInv, NEW r \in Requests, Finish(r)
    PROVE  /\ pc' \in [Requests -> Labels \cup ResetLabels] /\ pc'[r] = "idle"
           /\ call' \in [Requests -> Call \cup ResetCall \cup {None}]
           /\ seen' \in [Requests -> Seen]
           /\ \A s \in Requests \ {r} :
                  pc'[s] = pc[s] /\ call'[s] = call[s] /\ seen'[s] = seen[s]
<1>1. Unread \in Seen
    BY DEF Unread, Seen
<1> QED
    BY <1>1 DEF Finish, Goto, Labels, CredentialInv, TablesInv, CredentialTypeOK

\* The tables of a step that writes none of them but, at most, sessions.
LEMMA TablesKept ==
    ASSUME CredentialInv, UNCHANGED <<tables, password, resets>>,
           sessions' \in SUBSET Session,
           workspaceLock' \in [Workspaces -> Requests \cup {None}],
           userLock' \in [Users -> Requests \cup {None}],
           {rowLock', indexLock'} \subseteq [Users -> Requests \cup {None}],
           revoking' \in [Requests -> SUBSET DOMAIN resets],
           pc' \in [Requests -> Labels \cup ResetLabels],
           call' \in [Requests -> Call \cup ResetCall \cup {None}],
           seen' \in [Requests -> Seen]
    PROVE  TablesInv'
<1>1. UNCHANGED <<workspaces, members, sessionVersion, audit, password, resets>>
    BY DEF tables
<1>2. CredentialTypeOK'
    BY <1>1 DEF CredentialInv, TablesInv, CredentialTypeOK
<1>3. ResetsInv' /\ OwnerExists'
    BY <1>1 DEF CredentialInv, TablesInv, ResetsInv, Open, OwnerExists
<1> QED
    BY <1>1, <1>2, <1>3 DEF CredentialInv, TablesInv

\* A step that moves one request on, and takes at most locks that are free.
LEMMA MoveInv ==
    ASSUME CredentialInv, NEW r \in Requests, UNCHANGED <<tables, password, resets>>,
           sessions' \in SUBSET Session,
           workspaceLock' \in [Workspaces -> Requests \cup {None}],
           userLock' \in [Users -> Requests \cup {None}],
           {rowLock', indexLock'} \subseteq [Users -> Requests \cup {None}],
           revoking' \in [Requests -> SUBSET DOMAIN resets],
           pc' \in [Requests -> Labels \cup ResetLabels],
           call' \in [Requests -> Call \cup ResetCall \cup {None}],
           seen' \in [Requests -> Seen],
           \A s \in Requests \ {r} :
               /\ pc'[s] = pc[s] /\ call'[s] = call[s] /\ seen'[s] = seen[s]
               /\ revoking'[s] = revoking[s],
           \A w \in Workspaces :
               workspaceLock[w] \notin {None, r} => workspaceLock'[w] = workspaceLock[w],
           \A u \in Users :
               /\ userLock[u] \notin {None, r} => userLock'[u] = userLock[u]
               /\ rowLock[u] \notin {None, r} => rowLock'[u] = rowLock[u]
               /\ indexLock[u] \notin {None, r} => indexLock'[u] = indexLock[u],
           RequestInv(r)'
    PROVE  CredentialInv'
<1>1. /\ workspaces \subseteq Workspaces
      /\ UNCHANGED <<workspaces, members, sessionVersion, resets>>
    BY DEF CredentialInv, TablesInv, CredentialTypeOK, tables
<1>2. \A u \in Users : OpenResets(u)' = OpenResets(u)
    BY <1>1 DEF OpenResets, Open
<1>3. LeavesOthers(r)
    BY <1>1, <1>2 DEF LeavesOthers
<1> QED
    BY <1>3, TablesKept, StepInv

\* A refused, abandoned or answered call leaves nothing behind.
LEMMA EndInv ==
    ASSUME CredentialInv, NEW r \in Requests, Finish(r), UNCHANGED <<tables, password, resets>>,
           sessions' \in SUBSET Session,
           ReleaseLocks(r) \/ UNCHANGED locks,
           ReleaseResetLocks(r) \/ UNCHANGED resetLocks
    PROVE  CredentialInv'
<1>1. /\ workspaceLock' \in [Workspaces -> Requests \cup {None}]
      /\ userLock' \in [Users -> Requests \cup {None}]
      /\ \A w \in Workspaces : workspaceLock[w] # r => workspaceLock'[w] = workspaceLock[w]
      /\ \A u \in Users : userLock[u] # r => userLock'[u] = userLock[u]
    BY ReleaseEffect DEF locks, CredentialInv, TablesInv, CredentialTypeOK
<1>2. /\ {rowLock', indexLock'} \subseteq [Users -> Requests \cup {None}]
      /\ revoking' \in [Requests -> SUBSET DOMAIN resets]
      /\ \A u \in Users : rowLock[u] # r => rowLock'[u] = rowLock[u]
      /\ \A u \in Users : indexLock[u] # r => indexLock'[u] = indexLock[u]
      /\ \A s \in Requests \ {r} : revoking'[s] = revoking[s]
    BY ReleaseResetEffect DEF resetLocks, CredentialInv, TablesInv, CredentialTypeOK
<1>3. RequestInv(r)'
    BY FinishEffect, AtRest
<1> QED
    BY <1>1, <1>2, <1>3, FinishEffect, MoveInv

--------------------------------------------------------------------------------
(* The membership handlers, beside the credential handlers.                    *)

\* A step of a membership handler that writes no table leaves the resets alone too.
LEMMA MembershipStepInv ==
    ASSUME CredentialInv, NEW r \in Requests, UNCHANGED <<tables, resetVars>>,
           workspaceLock' \in [Workspaces -> Requests \cup {None}],
           userLock' \in [Users -> Requests \cup {None}],
           pc' \in [Requests -> Labels \cup ResetLabels],
           call' \in [Requests -> Call \cup ResetCall \cup {None}],
           seen' \in [Requests -> Seen],
           \A s \in Requests \ {r} :
               pc'[s] = pc[s] /\ call'[s] = call[s] /\ seen'[s] = seen[s],
           \A w \in Workspaces :
               workspaceLock[w] \notin {None, r} => workspaceLock'[w] = workspaceLock[w],
           \A u \in Users : userLock[u] \notin {None, r} => userLock'[u] = userLock[u],
           RequestInv(r)'
    PROVE  CredentialInv'
<1>1. UNCHANGED <<password, resets, sessions, rowLock, indexLock, revoking>>
    BY DEF resetVars, credentials, resetLocks
<1>2. /\ sessions' \in SUBSET Session
      /\ {rowLock', indexLock'} \subseteq [Users -> Requests \cup {None}]
      /\ revoking' \in [Requests -> SUBSET DOMAIN resets]
    BY <1>1 DEF CredentialInv, TablesInv, CredentialTypeOK
<1> QED
    BY <1>1, <1>2, MoveInv

\* _lock_workspace, from change_role and remove_membership: the row was free.
LEMMA MembershipLockInv ==
    ASSUME CredentialInv, NEW r \in Requests, UNCHANGED resetVars, LockWorkspace(r)
    PROVE  CredentialInv'
<1>1. /\ pc[r] = "lock" /\ pc'[r] = "read" /\ pc' \in [Requests -> Labels \cup ResetLabels]
      /\ \A s \in Requests \ {r} : pc'[s] = pc[s]
      /\ UNCHANGED <<tables, userLock, call, seen>>
    BY DEF LockWorkspace, Goto, Labels, CredentialInv, TablesInv, CredentialTypeOK
<1>2. call[r].ws \in Workspaces
    BY <1>1, TenantOf DEF Labels
<1>3. /\ workspaceLock' \in [Workspaces -> Requests \cup {None}]
      /\ workspaceLock'[call[r].ws] = r
      /\ \A w \in Workspaces : workspaceLock[w] # None => workspaceLock'[w] = workspaceLock[w]
    BY <1>2 DEF LockWorkspace, CredentialInv, TablesInv, CredentialTypeOK
<1>4. WellCalled(r)
    BY DEF CredentialInv, RequestInv
<1>5. RequestInv(r)'
    BY <1>1, <1>3, <1>4
    DEF RequestInv, WellCalled, HoldsTenant, HoldsUser, TargetKnown, OwnerLeft, RevokesOpen,
        UsesOpen, InTransaction, Labels, IssueLabels, ConsumeLabels, tables
<1> QED
    BY <1>1, <1>3, <1>5, MembershipStepInv DEF CredentialInv, TablesInv, CredentialTypeOK

\* require_permissions and the read of the target: the request's own variables.
LEMMA MembershipMoveInv ==
    ASSUME CredentialInv, NEW r \in Requests, UNCHANGED resetVars,
           \/ \E c \in ChangeRoleCall \cup RemoveCall : Authorize(r, c)
           \/ ReadTarget(r)
           \/ CountOwners(r)
           \/ SkipUser(r)
    PROVE  CredentialInv'
<1>t. /\ members \in [Workspaces -> [Users -> Role \cup {None}]]
      /\ pc \in [Requests -> Labels \cup ResetLabels] /\ seen \in [Requests -> Seen]
      /\ call \in [Requests -> Call \cup ResetCall \cup {None}]
      /\ workspaceLock \in [Workspaces -> Requests \cup {None}]
      /\ userLock \in [Users -> Requests \cup {None}]
    BY DEF CredentialInv, TablesInv, CredentialTypeOK
<1>1. ASSUME NEW c \in ChangeRoleCall \cup RemoveCall, Authorize(r, c)
      PROVE  CredentialInv'
    <2>1. /\ c.ws \in workspaces /\ UNCHANGED <<tables, locks>>
          /\ call' = [call EXCEPT ![r] = c] /\ pc' = [pc EXCEPT ![r] = "lock"]
          /\ seen' = [seen EXCEPT ![r].actor = members[c.ws][c.actor]]
        BY <1>1 DEF Authorize, Goto
    <2>2. c \in Call /\ c.ws \in Workspaces /\ c.actor \in Users
        BY CallFields DEF Call
    <2>3. /\ pc' \in [Requests -> Labels \cup ResetLabels] /\ pc'[r] = "lock"
          /\ call' \in [Requests -> Call \cup ResetCall \cup {None}] /\ call'[r] = c
          /\ \A s \in Requests \ {r} : pc'[s] = pc[s] /\ call'[s] = call[s]
        BY <1>t, <2>1, <2>2 DEF Labels
    <2>4. seen' \in [Requests -> Seen] /\ \A s \in Requests \ {r} : seen'[s] = seen[s]
        <3>1. members[c.ws][c.actor] \in Role \cup {None} /\ seen[r] \in Seen
            BY <1>t, <2>2
        <3>2. [seen[r] EXCEPT !.actor = members[c.ws][c.actor]] \in Seen
            BY <3>1 DEF Seen
        <3> QED
            BY <1>t, <2>1, <3>2
    <2>5. RequestInv(r)'
        BY <2>1, <2>3
        DEF RequestInv, WellCalled, HoldsTenant, HoldsUser, TargetKnown, OwnerLeft, RevokesOpen,
            UsesOpen, InTransaction, Labels, IssueLabels, ConsumeLabels, tables
    <2> QED
        BY <1>t, <2>1, <2>3, <2>4, <2>5, MembershipStepInv DEF locks
<1>2. CASE ReadTarget(r) \/ CountOwners(r) \/ SkipUser(r)
    <2>1. /\ pc[r] \in {"read", "count", "write"} /\ UNCHANGED <<tables, locks, call>>
          /\ \E to \in {"count", "write", "commit"} : pc' = [pc EXCEPT ![r] = to]
        BY <1>2 DEF ReadTarget, CountOwners, SkipUser, Goto
    <2>2. /\ pc' \in [Requests -> Labels \cup ResetLabels]
          /\ pc'[r] \in {"count", "write", "commit"}
          /\ \A s \in Requests \ {r} : pc'[s] = pc[s]
        BY <1>t, <2>1 DEF Labels
    <2>3. /\ call[r] \in ChangeRoleCall \cup RemoveCall
          /\ call[r].ws \in workspaces /\ call[r].ws \in Workspaces /\ call[r].target \in Users
          /\ workspaceLock[call[r].ws] = r
        BY <2>1, TenantOf, TargetOf
        DEF CredentialInv, RequestInv, WellCalled, HoldsTenant, Labels, InTransaction
    <2>4. /\ seen' \in [Requests -> Seen] /\ \A s \in Requests \ {r} : seen'[s] = seen[s]
          /\ TargetKnown(r)'
        <3>1. CASE ReadTarget(r)
            <4> DEFINE target == members[call[r].ws][call[r].target]
            <4>1. target \in Role \cup {None} /\ target # None /\ seen[r] \in Seen
                BY <1>t, <2>3, <3>1 DEF ReadTarget
            <4>2. seen' = [seen EXCEPT ![r].target = target]
                BY <3>1 DEF ReadTarget
            <4>3. /\ [seen[r] EXCEPT !.target = target] \in Seen
                  /\ [seen[r] EXCEPT !.target = target].target = target
                BY <4>1 DEF Seen
            <4>4. /\ seen' \in [Requests -> Seen] /\ seen'[r].target = target
                  /\ \A s \in Requests \ {r} : seen'[s] = seen[s]
                BY <1>t, <4>2, <4>3
            <4> QED
                BY <2>1, <4>1, <4>4 DEF TargetKnown, tables
        <3>2. CASE CountOwners(r) \/ SkipUser(r)
            BY <1>t, <2>1, <2>2, <3>2
            DEF TargetKnown, CredentialInv, RequestInv, CountOwners, SkipUser, tables
        <3> QED
            BY <1>2, <3>1, <3>2
    <2>5. OwnerLeft(r)'
        <3>1. CASE ReadTarget(r)
            <4>1. pc'[r] = IF members[call[r].ws][call[r].target] = "owner"
                              /\ call[r].role # "owner"
                           THEN "count" ELSE "write"
                BY <1>t, <3>1 DEF ReadTarget, Goto
            <4>2. seen'[r].target = members[call[r].ws][call[r].target]
                BY <2>1, <2>2, <2>4 DEF TargetKnown, tables
            <4> QED
                BY <2>1, <4>1, <4>2 DEF OwnerLeft, DropsOwner
        <3>2. CASE CountOwners(r)
            <4>1. \E u \in Users \ {call[r].target} : members[call[r].ws][u] = "owner"
                BY <2>3, <3>2, AnotherOwner DEF CountOwners
            <4> QED
                BY <2>1, <4>1 DEF OwnerLeft, tables
        <3>3. CASE SkipUser(r)
            BY <2>1, <3>3 DEF SkipUser, OwnerLeft, DropsOwner, CredentialInv, RequestInv, tables
        <3> QED
            BY <1>2, <3>1, <3>2, <3>3
    <2>6. HoldsUser(r)'
        <3>1. pc'[r] = "commit" => ~Bumps(r)'
            BY <1>2, <1>t, <2>1 DEF ReadTarget, CountOwners, SkipUser, Goto, Bumps
        <3> QED
            BY <2>2, <3>1 DEF HoldsUser
    <2>7. RequestInv(r)'
        BY <2>1, <2>2, <2>3, <2>4, <2>5, <2>6
        DEF RequestInv, WellCalled, HoldsTenant, RevokesOpen, UsesOpen, InTransaction, Labels,
            IssueLabels, ConsumeLabels, tables, locks
    <2> QED
        BY <1>t, <2>1, <2>2, <2>4, <2>7, MembershipStepInv DEF locks
<1> QED
    BY <1>1, <1>2

\* The target's user row, free when it is taken.
LEMMA MembershipUserInv ==
    ASSUME CredentialInv, NEW r \in Requests, UNCHANGED resetVars, LockUser(r)
    PROVE  CredentialInv'
<1> DEFINE u == call[r].target
<1>t. /\ pc \in [Requests -> Labels \cup ResetLabels] /\ seen \in [Requests -> Seen]
      /\ call \in [Requests -> Call \cup ResetCall \cup {None}]
      /\ workspaceLock \in [Workspaces -> Requests \cup {None}]
      /\ userLock \in [Users -> Requests \cup {None}] /\ sessionVersion \in [Users -> Nat]
    BY DEF CredentialInv, TablesInv, CredentialTypeOK
<1>1. /\ pc[r] = "write" /\ Bumps(r) /\ userLock[u] = None
      /\ pc' = [pc EXCEPT ![r] = "commit"] /\ userLock' = [userLock EXCEPT ![u] = r]
      /\ seen' = [seen EXCEPT ![r].version = NextVersion(u)]
      /\ UNCHANGED <<tables, workspaceLock, call>>
    BY DEF LockUser, Goto
<1>2. /\ u \in Users /\ call[r] \in ChangeRoleCall \cup RemoveCall /\ call[r].ws \in workspaces
      /\ workspaceLock[call[r].ws] = r /\ TargetKnown(r) /\ OwnerLeft(r)
    BY <1>1, TargetOf
    DEF CredentialInv, RequestInv, WellCalled, HoldsTenant, Labels, InTransaction
<1>3. NextVersion(u) \in Nat /\ NextVersion(u) = sessionVersion[u] + 1 /\ seen[r] \in Seen
    BY <1>t, <1>2 DEF NextVersion
<1>4. /\ [seen[r] EXCEPT !.version = NextVersion(u)] \in Seen
      /\ [seen[r] EXCEPT !.version = NextVersion(u)].version = NextVersion(u)
      /\ [seen[r] EXCEPT !.version = NextVersion(u)].target = seen[r].target
    BY <1>3 DEF Seen
<1>5. /\ seen' \in [Requests -> Seen]
      /\ seen'[r].version = NextVersion(u) /\ seen'[r].target = seen[r].target
      /\ \A s \in Requests \ {r} : seen'[s] = seen[s]
    BY <1>t, <1>1, <1>4
<1>6. /\ pc' \in [Requests -> Labels \cup ResetLabels] /\ pc'[r] = "commit"
      /\ \A s \in Requests \ {r} : pc'[s] = pc[s]
    BY <1>t, <1>1 DEF Labels
<1>7. /\ userLock' \in [Users -> Requests \cup {None}] /\ userLock'[u] = r
      /\ \A v \in Users : userLock[v] # None => userLock'[v] = userLock[v]
    BY <1>t, <1>1, <1>2
<1>8. HoldsUser(r)'
    BY <1>1, <1>3, <1>5, <1>7 DEF HoldsUser, tables
<1>9. TargetKnown(r)' /\ OwnerLeft(r)'
    BY <1>1, <1>2, <1>5 DEF TargetKnown, OwnerLeft, DropsOwner, tables
<1>10. RequestInv(r)'
    BY <1>1, <1>2, <1>6, <1>8, <1>9
    DEF RequestInv, WellCalled, HoldsTenant, RevokesOpen, UsesOpen, InTransaction, Labels,
        IssueLabels, ConsumeLabels, tables
<1> QED
    BY <1>t, <1>1, <1>5, <1>6, <1>7, <1>10, MembershipStepInv

\* What a membership commit writes: one member of one tenant, known under its lock, and
\* that user's version when the role changes.
LEMMA MembershipCommitEffect ==
    ASSUME CredentialInv, NEW r \in Requests, Commit(r)
    PROVE  /\ call[r] \in ChangeRoleCall \cup RemoveCall
           /\ call[r].ws \in workspaces /\ call[r].ws \in Workspaces /\ call[r].target \in Users
           /\ call[r].role \in Role \cup {None} /\ call[r].actor \in Users
           /\ workspaceLock[call[r].ws] = r
           /\ Bumps(r) => userLock[call[r].target] = r
           /\ members[call[r].ws][call[r].target] # None
           /\ Bumps(r) <=> members[call[r].ws][call[r].target] # call[r].role
           /\ members' = [members EXCEPT ![call[r].ws][call[r].target] = call[r].role]
           /\ sessionVersion' = IF Bumps(r)
                                THEN [sessionVersion EXCEPT ![call[r].target] =
                                          sessionVersion[call[r].target] + 1]
                                ELSE sessionVersion
           /\ UNCHANGED workspaces
           /\ ReleaseLocks(r)
<1>1. pc[r] = "commit"
    BY DEF Commit
<1>2. /\ call[r] \in ChangeRoleCall \cup RemoveCall /\ workspaceLock[call[r].ws] = r
    BY <1>1 DEF CredentialInv, RequestInv, WellCalled, HoldsTenant, Labels, InTransaction
<1>3. call[r].ws \in workspaces /\ call[r].ws \in Workspaces
    BY <1>1, TenantOf DEF Labels
<1>4. /\ call[r].target \in Users /\ call[r].role \in Role \cup {None}
      /\ call[r].actor \in Users
    BY <1>2, CallFields DEF Call
<1>5. /\ members[call[r].ws][call[r].target] # None
      /\ seen[r].target = members[call[r].ws][call[r].target]
    BY <1>1 DEF CredentialInv, RequestInv, TargetKnown
<1>6. Bumps(r) => /\ userLock[call[r].target] = r
                  /\ seen[r].version = sessionVersion[call[r].target] + 1
    BY <1>1 DEF CredentialInv, RequestInv, HoldsUser
<1>7. Bumps(r) <=> members[call[r].ws][call[r].target] # call[r].role
    BY <1>5 DEF Bumps
<1>8. /\ members' = [members EXCEPT ![call[r].ws][call[r].target] = call[r].role]
      /\ sessionVersion' = IF Bumps(r)
                           THEN [sessionVersion EXCEPT ![call[r].target] = seen[r].version]
                           ELSE sessionVersion
      /\ UNCHANGED workspaces /\ ReleaseLocks(r)
    BY DEF Commit
<1> QED
    BY <1>2, <1>3, <1>4, <1>5, <1>6, <1>7, <1>8

\* A membership commit, whose count of owners still holds.
LEMMA MembershipCommitInv ==
    ASSUME CredentialInv, NEW r \in Requests, UNCHANGED resetVars, Commit(r)
    PROVE  CredentialInv'
<1> DEFINE w == call[r].ws
           u == call[r].target
           role == call[r].role
           entry == [type |-> IF call[r].op = "change_role" THEN "role_changed" ELSE "removed",
                     ws |-> w, actor |-> call[r].actor, subject |-> u,
                     from |-> seen[r].target, to |-> role]
<1>t. /\ members \in [Workspaces -> [Users -> Role \cup {None}]]
      /\ sessionVersion \in [Users -> Nat] /\ audit \in Seq(CredentialAuditEntry)
      /\ pc \in [Requests -> Labels \cup ResetLabels] /\ seen \in [Requests -> Seen]
      /\ call \in [Requests -> Call \cup ResetCall \cup {None}]
      /\ workspaces \subseteq Workspaces
    BY DEF CredentialInv, TablesInv, CredentialTypeOK
<1>1. /\ w \in workspaces /\ w \in Workspaces /\ u \in Users /\ role \in Role \cup {None}
      /\ call[r].actor \in Users /\ workspaceLock[w] = r /\ members[w][u] # None
    BY MembershipCommitEffect
<1>2. /\ members' \in [Workspaces -> [Users -> Role \cup {None}]]
      /\ \A v \in Workspaces, t \in Users :
             members'[v][t] = IF v = w /\ t = u THEN role ELSE members[v][t]
      /\ \A v \in Workspaces : v # w => members'[v] = members[v]
    <2>1. members' = [members EXCEPT ![call[r].ws][call[r].target] = call[r].role]
        BY MembershipCommitEffect
    <2> QED
        BY <1>t, <1>1, <2>1
<1>3. /\ sessionVersion' \in [Users -> Nat]
      /\ \A t \in Users : userLock[t] # r => sessionVersion'[t] = sessionVersion[t]
    <2>1. /\ sessionVersion' = IF Bumps(r)
                               THEN [sessionVersion EXCEPT ![call[r].target] =
                                         sessionVersion[call[r].target] + 1]
                               ELSE sessionVersion
          /\ Bumps(r) => userLock[call[r].target] = r
        BY MembershipCommitEffect
    <2>2. sessionVersion[u] + 1 \in Nat
        BY <1>t, <1>1
    <2> QED
        BY <1>t, <1>1, <2>1, <2>2
<1>4. audit' \in Seq(CredentialAuditEntry)
    <2>1. seen[r].target \in Role \cup {None}
        BY <1>t DEF Seen
    <2>2. entry \in CredentialAuditEntry
        BY <1>1, <2>1 DEF CredentialAuditEntry
    <2>3. audit' = Append(audit, entry)
        BY DEF Commit
    <2> QED
        BY <1>t, <2>2, <2>3
<1>5. /\ pc' \in [Requests -> Labels \cup ResetLabels] /\ pc'[r] \in {"idle", "readback"}
      /\ call' \in [Requests -> Call \cup ResetCall \cup {None}]
      /\ seen' \in [Requests -> Seen]
      /\ \A s \in Requests \ {r} :
             pc'[s] = pc[s] /\ call'[s] = call[s] /\ seen'[s] = seen[s]
    <2>1. CASE call[r].op = "change_role"
        <3>1. pc' = [pc EXCEPT ![r] = "readback"] /\ UNCHANGED <<call, seen>>
            BY <2>1 DEF Commit, Goto
        <3> QED
            BY <1>t, <3>1 DEF Labels
    <2>2. CASE call[r].op # "change_role"
        <3>1. Finish(r)
            BY <2>2 DEF Commit
        <3> QED
            BY <3>1, FinishEffect
    <2> QED
        BY <2>1, <2>2
<1>6. UNCHANGED workspaces /\ ReleaseLocks(r)
    BY MembershipCommitEffect
<1>7. UNCHANGED <<password, resets, sessions, rowLock, indexLock, revoking>>
    BY DEF resetVars, credentials, resetLocks
<1>8. CredentialTypeOK'
    BY <1>t, <1>2, <1>3, <1>4, <1>5, <1>6, <1>7, ReleaseEffect
    DEF CredentialInv, TablesInv, CredentialTypeOK
<1>9. OwnerExists'
    <2> SUFFICES ASSUME NEW v \in workspaces
                 PROVE  \E t \in Users : members'[v][t] = "owner"
        BY <1>6 DEF OwnerExists
    <2>1. v \in Workspaces
        BY <1>t
    <2>2. PICK t \in Users : members[v][t] = "owner"
        BY DEF OwnerExists, CredentialInv, TablesInv
    <2>3. CASE v # w \/ t # u
        BY <1>2, <2>1, <2>2, <2>3
    <2>4. CASE v = w /\ t = u /\ role = "owner"
        BY <1>2, <2>1, <2>4
    <2>5. CASE v = w /\ t = u /\ role # "owner"
        <3>1. pc[r] = "commit" /\ DropsOwner(r)
            BY <2>2, <2>5 DEF Commit, DropsOwner, CredentialInv, RequestInv, TargetKnown
        <3>2. PICK other \in Users \ {u} : members[w][other] = "owner"
            BY <3>1 DEF CredentialInv, RequestInv, OwnerLeft
        <3> QED
            BY <1>2, <2>1, <2>5, <3>2
    <2> QED
        BY <2>3, <2>4, <2>5
<1>10. TablesInv'
    <2>1. ResetsInv'
        BY <1>7 DEF CredentialInv, TablesInv, ResetsInv, Open
    <2> QED
        BY <1>t, <1>2, <1>5, <1>6, <1>8, <1>9, <2>1, ReleaseEffect DEF TablesInv
<1>11. LeavesOthers(r)
    <2>1. \A t \in Users : OpenResets(t)' = OpenResets(t)
        BY <1>7 DEF OpenResets, Open
    <2> QED
        BY <1>t, <1>1, <1>2, <1>3, <1>5, <1>6, <1>7, <2>1, ReleaseEffect DEF LeavesOthers
<1>12. RequestInv(r)'
    BY <1>5, AtRest
<1> QED
    BY <1>10, <1>11, <1>12, StepInv

\* A tenant made by create_workspace is nobody's yet.
LEMMA TenantCreatedInv ==
    ASSUME CredentialInv, NEW r \in Requests, UNCHANGED resetVars, NEW c \in CreateCall,
           CreateWorkspace(r, c)
    PROVE  CredentialInv'
<1> DEFINE entry == [type |-> "created", ws |-> c.ws, actor |-> c.actor, subject |-> c.actor,
                     from |-> None, to |-> "owner"]
<1>t. /\ members \in [Workspaces -> [Users -> Role \cup {None}]]
      /\ audit \in Seq(CredentialAuditEntry)
      /\ pc \in [Requests -> Labels \cup ResetLabels]
      /\ call \in [Requests -> Call \cup ResetCall \cup {None}]
      /\ workspaces \subseteq Workspaces
    BY DEF CredentialInv, TablesInv, CredentialTypeOK
<1>1. c \in Call /\ c.ws \in Workspaces /\ c.actor \in Users
    BY CallFields DEF Call
<1>2. /\ c.ws \notin workspaces /\ workspaces' = workspaces \cup {c.ws}
      /\ members' = [members EXCEPT ![c.ws][c.actor] = "owner"]
      /\ audit' = Append(audit, entry)
      /\ call' = [call EXCEPT ![r] = c] /\ pc' = [pc EXCEPT ![r] = "readback"]
      /\ UNCHANGED <<sessionVersion, workspaceLock, userLock, seen>>
    BY DEF CreateWorkspace, Goto, locks
<1>3. /\ members' \in [Workspaces -> [Users -> Role \cup {None}]]
      /\ \A v \in Workspaces, t \in Users :
             members'[v][t] = IF v = c.ws /\ t = c.actor THEN "owner" ELSE members[v][t]
      /\ \A v \in Workspaces : v # c.ws => members'[v] = members[v]
    BY <1>t, <1>1, <1>2 DEF Role
<1>4. audit' \in Seq(CredentialAuditEntry)
    <2>1. entry \in CredentialAuditEntry
        BY <1>1 DEF CredentialAuditEntry, Role
    <2> QED
        BY <1>t, <1>2, <2>1
<1>5. /\ pc' \in [Requests -> Labels \cup ResetLabels] /\ pc'[r] = "readback"
      /\ call' \in [Requests -> Call \cup ResetCall \cup {None}]
      /\ \A s \in Requests \ {r} : pc'[s] = pc[s] /\ call'[s] = call[s]
    BY <1>t, <1>1, <1>2 DEF Labels
<1>7. UNCHANGED <<password, resets, sessions, rowLock, indexLock, revoking>>
    BY DEF resetVars, credentials, resetLocks
<1>8. CredentialTypeOK'
    BY <1>t, <1>1, <1>2, <1>3, <1>4, <1>5, <1>7 DEF CredentialInv, TablesInv, CredentialTypeOK
<1>9. OwnerExists'
    BY <1>t, <1>1, <1>2, <1>3 DEF OwnerExists, CredentialInv, TablesInv
<1>10. TablesInv'
    <2>1. ResetsInv'
        BY <1>7 DEF CredentialInv, TablesInv, ResetsInv, Open
    <2>2. workspaceLock' \in [Workspaces -> Requests \cup {None}]
          /\ userLock' \in [Users -> Requests \cup {None}]
        BY <1>2 DEF CredentialInv, TablesInv, CredentialTypeOK
    <2> QED
        BY <1>t, <1>1, <1>2, <1>3, <1>5, <1>8, <1>9, <2>1, <2>2 DEF TablesInv
<1>11. LeavesOthers(r)
    <2>1. \A t \in Users : OpenResets(t)' = OpenResets(t)
        BY <1>7 DEF OpenResets, Open
    <2> QED
        BY <1>t, <1>2, <1>3, <1>5, <1>7, <2>1 DEF LeavesOthers
<1>12. RequestInv(r)'
    BY <1>5, AtRest
<1> QED
    BY <1>10, <1>11, <1>12, StepInv

--------------------------------------------------------------------------------
(* The credential handlers, up to what they write.                             *)

\* The types that every step of a handler starts from.
LEMMA Types ==
    ASSUME CredentialInv
    PROVE  /\ members \in [Workspaces -> [Users -> Role \cup {None}]]
           /\ sessionVersion \in [Users -> Nat] /\ audit \in Seq(CredentialAuditEntry)
           /\ password \in [Users -> Hash] /\ sessions \in SUBSET Session
           /\ resets \in Seq(Reset)
           /\ workspaceLock \in [Workspaces -> Requests \cup {None}]
           /\ userLock \in [Users -> Requests \cup {None}]
           /\ rowLock \in [Users -> Requests \cup {None}]
           /\ indexLock \in [Users -> Requests \cup {None}]
           /\ revoking \in [Requests -> SUBSET DOMAIN resets]
           /\ pc \in [Requests -> Labels \cup ResetLabels]
           /\ call \in [Requests -> Call \cup ResetCall \cup {None}]
           /\ seen \in [Requests -> Seen]
BY DEF CredentialInv, TablesInv, CredentialTypeOK

\* A call enters with what its first read told it.
LEMMA BeginInv ==
    ASSUME CredentialInv, NEW r \in Requests, NEW c \in ResetCall,
           NEW label \in {"membership", "token", "rehash", "signed"},
           Begin(r, c, label), UNCHANGED <<tables, locks, resetVars>>,
           seen' \in [Requests -> Seen], \A s \in Requests \ {r} : seen'[s] = seen[s],
           label = "membership" => c \in IssueResetCall,
           label = "token" =>
               c \in ConsumeCall /\ c.token \in DOMAIN resets /\ resets[c.token].user = c.target,
           label \in {"rehash", "signed"} => c \in SignInCall
    PROVE  CredentialInv'
<1>1. /\ pc' \in [Requests -> Labels \cup ResetLabels] /\ pc'[r] = label
      /\ call' \in [Requests -> Call \cup ResetCall \cup {None}] /\ call'[r] = c
      /\ \A s \in Requests \ {r} : pc'[s] = pc[s] /\ call'[s] = call[s]
    BY Types DEF Begin, Goto, ResetLabels
<1>2. UNCHANGED <<password, resets, sessions, rowLock, indexLock, revoking>>
    BY DEF resetVars, credentials, resetLocks
<1>3. RequestInv(r)'
    BY <1>1, <1>2 DEF RequestInv, WellCalled, HoldsTenant, HoldsUser, TargetKnown, OwnerLeft,
                      RevokesOpen, UsesOpen, InTransaction, Labels, IssueLabels, ConsumeLabels
<1> QED
    BY <1>1, <1>3, Types, MembershipStepInv DEF locks

\* issue_password_reset, consume_password_reset and authenticate, at their first read.
LEMMA CredentialStartInv ==
    ASSUME CredentialInv, NEW r \in Requests, CredentialStart(r)
    PROVE  CredentialInv'
<1>1. ASSUME NEW actor \in Users, NEW target \in Users, NEW w \in Workspaces,
             IssueReset(r, actor, w, target)
      PROVE  CredentialInv'
    <2> DEFINE c == [op |-> "issue_password_reset", actor |-> actor, ws |-> w,
                     target |-> target]
    <2>1. c \in IssueResetCall /\ c \in ResetCall
        BY DEF ResetCall, IssueResetCall
    <2>2. /\ Begin(r, c, "membership") /\ UNCHANGED <<tables, locks, resetVars>>
          /\ seen' = [seen EXCEPT ![r].actor = members[w][actor]]
        BY <1>1 DEF IssueReset
    <2>3. seen' \in [Requests -> Seen] /\ \A s \in Requests \ {r} : seen'[s] = seen[s]
        <3>1. members[w][actor] \in Role \cup {None} /\ seen[r] \in Seen
            BY Types
        <3>2. [seen[r] EXCEPT !.actor = members[w][actor]] \in Seen
            BY <3>1 DEF Seen
        <3> QED
            BY <2>2, <3>2, Types
    <2> HIDE DEF c
    <2> QED
        BY <2>1, <2>2, <2>3, BeginInv
<1>2. ASSUME NEW token \in DOMAIN resets, NEW secret \in Secrets,
             ConsumeReset(r, token, secret)
      PROVE  CredentialInv'
    <2> DEFINE c == [op |-> "consume_password_reset", target |-> resets[token].user,
                     token |-> token, secret |-> secret]
    <2>1. token \in Nat /\ resets[token] \in Reset
        BY Types
    <2>2. c \in ConsumeCall /\ c.token = token /\ c.target = resets[token].user
        BY <2>1 DEF ConsumeCall, Reset
    <2>3. Begin(r, c, "token") /\ UNCHANGED <<tables, locks, resetVars, seen>>
        BY <1>2 DEF ConsumeReset
    <2> HIDE DEF c
    <2> QED
        BY <2>2, <2>3, Types, BeginInv DEF ResetCall
<1>3. ASSUME NEW u \in Users, NEW secret \in Secrets, SignIn(r, u, secret)
      PROVE  CredentialInv'
    <2> DEFINE c == [op |-> "authenticate", target |-> u, secret |-> secret]
    <2>1. c \in SignInCall /\ c \in ResetCall
        BY DEF ResetCall, SignInCall
    <2>2. PICK label \in {"rehash", "signed"} : Begin(r, c, label)
        BY <1>3 DEF SignIn
    <2>3. /\ UNCHANGED <<tables, locks, resetVars>>
          /\ seen' = [seen EXCEPT ![r].version = sessionVersion[u]]
        BY <1>3 DEF SignIn
    <2>4. seen' \in [Requests -> Seen] /\ \A s \in Requests \ {r} : seen'[s] = seen[s]
        <3>1. sessionVersion[u] \in Nat /\ seen[r] \in Seen
            BY Types
        <3>2. [seen[r] EXCEPT !.version = sessionVersion[u]] \in Seen
            BY <3>1 DEF Seen
        <3> QED
            BY <2>3, <3>2, Types
    <2> HIDE DEF c
    <2> QED
        BY <2>1, <2>2, <2>3, <2>4, BeginInv
<1> QED
    BY <1>1, <1>2, <1>3 DEF CredentialStart

\* The steps of a reset that read, or lock the tenant's row.
LEMMA ReadingInv ==
    ASSUME CredentialInv, NEW r \in Requests, JudgeTarget(r) \/ LockTenant(r) \/ ReadToken(r)
    PROVE  CredentialInv'
<1>1. /\ pc[r] \in {"membership", "tenant", "token"}
      /\ pc' \in [Requests -> Labels \cup ResetLabels]
      /\ pc'[r] = CASE pc[r] = "membership" -> "tenant" [] pc[r] = "tenant" -> "select"
                    [] OTHER -> "consume"
      /\ \A s \in Requests \ {r} : pc'[s] = pc[s]
      /\ UNCHANGED <<tables, userLock, resetVars, call>>
    BY Types DEF JudgeTarget, LockTenant, ReadToken, Goto, ResetLabels, locks
<1>2. WellCalled(r) /\ (pc[r] \in IssueLabels => call[r].ws \in Workspaces)
    <2>1. WellCalled(r)
        BY DEF CredentialInv, RequestInv
    <2> QED
        BY <2>1, ResetCallFields DEF WellCalled, ResetCall
<1>3. seen' \in [Requests -> Seen] /\ \A s \in Requests \ {r} : seen'[s] = seen[s]
    <2>1. CASE JudgeTarget(r)
        <3> DEFINE target == members[call[r].ws][call[r].target]
        <3>1. call[r].ws \in Workspaces /\ call[r].target \in Users
            BY <1>2, <2>1, TargetOf DEF JudgeTarget, IssueLabels
        <3>2. target \in Role \cup {None} /\ seen[r] \in Seen
            BY <3>1, Types
        <3>3. [seen[r] EXCEPT !.target = target] \in Seen
            BY <3>2 DEF Seen
        <3>4. seen' = [seen EXCEPT ![r].target = target]
            BY <2>1 DEF JudgeTarget
        <3> QED
            BY <3>3, <3>4, Types
    <2>2. CASE LockTenant(r) \/ ReadToken(r)
        BY <2>2, Types DEF LockTenant, ReadToken
    <2> QED
        BY <2>1, <2>2
<1>4. /\ workspaceLock' \in [Workspaces -> Requests \cup {None}]
      /\ \A w \in Workspaces : workspaceLock[w] # None => workspaceLock'[w] = workspaceLock[w]
    <2>1. CASE LockTenant(r)
        BY <1>1, <1>2, <2>1, Types DEF LockTenant, IssueLabels
    <2>2. CASE JudgeTarget(r) \/ ReadToken(r)
        BY <2>2, Types DEF JudgeTarget, ReadToken, locks
    <2> QED
        BY <2>1, <2>2
<1>5. resets' = resets
    BY <1>1 DEF resetVars, credentials
<1>6. RequestInv(r)'
    BY <1>1, <1>2, <1>5
    DEF RequestInv, WellCalled, HoldsTenant, HoldsUser, TargetKnown, OwnerLeft, RevokesOpen,
        UsesOpen, InTransaction, Labels, IssueLabels, ConsumeLabels
<1> QED
    BY <1>1, <1>3, <1>4, <1>6, Types, MembershipStepInv

\* The rows an issue finds open, and those it then locks: only if nobody else holds them.
LEMMA SelectedInv ==
    ASSUME CredentialInv, NEW r \in Requests, SelectOpen(r) \/ RevokeOpen(r)
    PROVE  CredentialInv'
<1> DEFINE u == call[r].target
<1>1. /\ pc[r] \in {"select", "revoke"} /\ pc' \in [Requests -> Labels \cup ResetLabels]
      /\ pc'[r] = IF pc[r] = "select" THEN "revoke" ELSE "insert"
      /\ \A s \in Requests \ {r} : pc'[s] = pc[s]
      /\ UNCHANGED <<tables, workspaceLock, userLock, password, resets, sessions, indexLock,
                     call, seen>>
    BY Types DEF SelectOpen, RevokeOpen, Goto, ResetLabels, locks, credentials
<1>2. WellCalled(r) /\ u \in Users
    BY <1>1, TargetOf DEF CredentialInv, RequestInv
<1>3. /\ revoking' \in [Requests -> SUBSET DOMAIN resets]
      /\ revoking'[r] \subseteq OpenResets(u)
      /\ \A s \in Requests \ {r} : revoking'[s] = revoking[s]
    BY Types DEF SelectOpen, RevokeOpen, OpenResets
<1>4. /\ rowLock' \in [Users -> Requests \cup {None}]
      /\ \A v \in Users : rowLock[v] # None => rowLock'[v] = rowLock[v]
      /\ pc[r] = "revoke" /\ revoking'[r] # {} => rowLock'[u] = r
    <2>1. CASE SelectOpen(r)
        BY <1>1, <2>1, Types DEF SelectOpen
    <2>2. CASE RevokeOpen(r)
        BY <1>2, <2>2, Types DEF RevokeOpen
    <2> QED
        BY <2>1, <2>2
<1>5. OpenResets(u)' = OpenResets(u)
    BY <1>1 DEF OpenResets, Open
<1>6. RevokesOpen(r)'
    <2>1. call'[r].target = u
        BY <1>1
    <2>2. revoking'[r] \subseteq OpenResets(call[r].target)'
        BY <1>1, <1>3, <1>5
    <2> QED
        BY <1>1, <1>4, <2>1, <2>2 DEF RevokesOpen
<1>7. RequestInv(r)'
    BY <1>1, <1>2, <1>6
    DEF RequestInv, WellCalled, HoldsTenant, HoldsUser, TargetKnown, OwnerLeft,
        UsesOpen, InTransaction, Labels, IssueLabels, ConsumeLabels
<1> QED
    BY <1>1, <1>3, <1>4, <1>7, Types, MoveInv

\* The new row's entry in the index: the rows to be revoked are all the user has open.
LEMMA InsertedInv ==
    ASSUME CredentialInv, NEW r \in Requests, InsertReset(r)
    PROVE  CredentialInv'
<1> DEFINE u == call[r].target
<1>1. /\ pc[r] = "insert" /\ pc' = [pc EXCEPT ![r] = "issued"]
      /\ indexLock[u] = None /\ indexLock' = [indexLock EXCEPT ![u] = r]
      /\ OpenResets(u) \subseteq revoking[r]
      /\ UNCHANGED <<tables, locks, password, resets, sessions, rowLock, revoking, call, seen>>
    BY DEF InsertReset, IndexFree, Goto, credentials
<1>2. WellCalled(r) /\ u \in Users
    BY <1>1, TargetOf DEF CredentialInv, RequestInv
<1>3. /\ revoking[r] \subseteq OpenResets(u)
      /\ revoking[r] # {} => rowLock[u] = r
    BY <1>1 DEF CredentialInv, RequestInv, RevokesOpen
<1>4. /\ pc' \in [Requests -> Labels \cup ResetLabels] /\ pc'[r] = "issued"
      /\ \A s \in Requests \ {r} : pc'[s] = pc[s]
    BY <1>1, Types DEF ResetLabels
<1>5. /\ indexLock' \in [Users -> Requests \cup {None}] /\ indexLock'[u] = r
      /\ \A v \in Users : indexLock[v] # None => indexLock'[v] = indexLock[v]
    BY <1>1, <1>2, Types
<1>6. OpenResets(u)' = OpenResets(u)
    BY <1>1 DEF OpenResets, Open
<1>7. RevokesOpen(r)'
    <2>1. /\ revoking'[r] \subseteq OpenResets(call[r].target)'
          /\ OpenResets(call[r].target)' = revoking'[r]
        BY <1>1, <1>3, <1>6
    <2> QED
        BY <1>1, <1>3, <1>5, <2>1 DEF RevokesOpen
<1>8. RequestInv(r)'
    <2>1. WellCalled(r)'
        BY <1>1, <1>2, <1>4 DEF WellCalled, Labels, IssueLabels, ConsumeLabels
    <2>2. HoldsTenant(r)' /\ HoldsUser(r)' /\ TargetKnown(r)' /\ OwnerLeft(r)' /\ UsesOpen(r)'
        BY <1>4 DEF HoldsTenant, HoldsUser, TargetKnown, OwnerLeft, UsesOpen, InTransaction
    <2> QED
        BY <1>7, <2>1, <2>2 DEF RequestInv
<1>9. /\ sessions' \in SUBSET Session
      /\ workspaceLock' \in [Workspaces -> Requests \cup {None}]
      /\ userLock' \in [Users -> Requests \cup {None}]
      /\ {rowLock', indexLock'} \subseteq [Users -> Requests \cup {None}]
      /\ revoking' \in [Requests -> SUBSET DOMAIN resets]
      /\ call' \in [Requests -> Call \cup ResetCall \cup {None}]
      /\ seen' \in [Requests -> Seen]
      /\ UNCHANGED <<tables, password, resets, workspaceLock, userLock, rowLock, revoking,
                     call, seen>>
    BY <1>1, <1>5, Types DEF locks
<1> QED
    BY <1>4, <1>5, <1>8, <1>9, MoveInv

\* The conditional UPDATE of a token's row: held by nobody, and open.
LEMMA TokenUsedInv ==
    ASSUME CredentialInv, NEW r \in Requests, UseToken(r)
    PROVE  CredentialInv'
<1> DEFINE u == call[r].target
<1>1. /\ pc[r] = "consume" /\ pc' = [pc EXCEPT ![r] = "password"]
      /\ rowLock[u] = None /\ rowLock' = [rowLock EXCEPT ![u] = r]
      /\ Open(call[r].token)
      /\ UNCHANGED <<tables, locks, password, resets, sessions, indexLock, revoking, call, seen>>
    BY DEF UseToken, StillOpen, Goto, credentials
<1>2. WellCalled(r) /\ u \in Users
    BY <1>1, TargetOf DEF CredentialInv, RequestInv
<1>3. /\ pc' \in [Requests -> Labels \cup ResetLabels] /\ pc'[r] = "password"
      /\ \A s \in Requests \ {r} : pc'[s] = pc[s]
    BY <1>1, Types DEF ResetLabels
<1>4. /\ rowLock' \in [Users -> Requests \cup {None}] /\ rowLock'[u] = r
      /\ \A v \in Users : rowLock[v] # None => rowLock'[v] = rowLock[v]
    BY <1>1, <1>2, Types
<1>5. UsesOpen(r)'
    BY <1>1, <1>4 DEF UsesOpen, Open
<1>6. RequestInv(r)'
    <2>1. WellCalled(r)'
        BY <1>1, <1>2, <1>3 DEF WellCalled, Labels, IssueLabels, ConsumeLabels
    <2>2. /\ HoldsTenant(r)' /\ HoldsUser(r)' /\ TargetKnown(r)' /\ OwnerLeft(r)'
          /\ RevokesOpen(r)'
        BY <1>3 DEF HoldsTenant, HoldsUser, TargetKnown, OwnerLeft, RevokesOpen, InTransaction
    <2> QED
        BY <1>5, <2>1, <2>2 DEF RequestInv
<1>7. /\ sessions' \in SUBSET Session
      /\ workspaceLock' \in [Workspaces -> Requests \cup {None}]
      /\ userLock' \in [Users -> Requests \cup {None}]
      /\ {rowLock', indexLock'} \subseteq [Users -> Requests \cup {None}]
      /\ revoking' \in [Requests -> SUBSET DOMAIN resets]
      /\ call' \in [Requests -> Call \cup ResetCall \cup {None}]
      /\ seen' \in [Requests -> Seen]
      /\ UNCHANGED <<tables, password, resets, workspaceLock, userLock, indexLock, revoking,
                     call, seen>>
    BY <1>1, <1>4, Types DEF locks
<1> QED
    BY <1>3, <1>4, <1>6, <1>7, MoveInv

\* The user's row, taken by a membership handler or by a reset: free, and its next
\* version is read from what the last writer committed.
LEMMA UserTakenInv ==
    ASSUME CredentialInv, NEW r \in Requests, WritePassword(r)
    PROVE  CredentialInv'
<1> DEFINE u == call[r].target
<1>1. /\ pc[r] = "password" /\ pc' = [pc EXCEPT ![r] = "consumed"]
      /\ userLock[u] = None /\ userLock' = [userLock EXCEPT ![u] = r]
      /\ seen' = [seen EXCEPT ![r].version = NextVersion(u)]
      /\ UNCHANGED <<tables, workspaceLock, resetVars, call>>
    BY DEF WritePassword, Goto
<1>2. WellCalled(r) /\ UsesOpen(r) /\ u \in Users
    BY <1>1, TargetOf DEF CredentialInv, RequestInv
<1>3. NextVersion(u) \in Nat /\ NextVersion(u) = sessionVersion[u] + 1 /\ seen[r] \in Seen
    BY <1>2, Types DEF NextVersion
<1>4. /\ [seen[r] EXCEPT !.version = NextVersion(u)] \in Seen
      /\ [seen[r] EXCEPT !.version = NextVersion(u)].version = NextVersion(u)
    BY <1>3 DEF Seen
<1>5. /\ seen' \in [Requests -> Seen] /\ seen'[r].version = NextVersion(u)
      /\ \A s \in Requests \ {r} : seen'[s] = seen[s]
    BY <1>1, <1>4, Types
<1>6. /\ pc' \in [Requests -> Labels \cup ResetLabels] /\ pc'[r] = "consumed"
      /\ \A s \in Requests \ {r} : pc'[s] = pc[s]
    BY <1>1, Types DEF ResetLabels
<1>7. /\ userLock' \in [Users -> Requests \cup {None}] /\ userLock'[u] = r
      /\ \A v \in Users : userLock[v] # None => userLock'[v] = userLock[v]
    BY <1>1, <1>2, Types
<1>8. HoldsUser(r)'
    BY <1>1, <1>3, <1>5, <1>7 DEF HoldsUser, tables
<1>9. UNCHANGED <<resets, rowLock>>
    BY <1>1 DEF resetVars, credentials, resetLocks
<1>10. RequestInv(r)'
    BY <1>1, <1>2, <1>6, <1>8, <1>9
    DEF RequestInv, WellCalled, HoldsTenant, TargetKnown, OwnerLeft, RevokesOpen, UsesOpen,
        Open, InTransaction, Labels, IssueLabels, ConsumeLabels
<1> QED
    BY <1>1, <1>5, <1>6, <1>7, <1>10, Types, MembershipStepInv

\* A session is signed for the user, version and secret its request carries.
LEMMA SignedInv ==
    ASSUME CredentialInv, NEW r \in Requests, Sign(r)
    PROVE  CredentialInv'
<1>1. /\ pc[r] = "signed" /\ Finish(r)
      /\ sessions' = sessions \cup {[user |-> call[r].target, version |-> SignedVersion(r),
                                     secret |-> call[r].secret]}
      /\ UNCHANGED <<tables, locks, password, resets, resetLocks>>
    BY DEF Sign
<1>2. call[r] \in SignInCall /\ call[r].target \in Users
    BY <1>1, TargetOf DEF CredentialInv, RequestInv, WellCalled
<1>3. call[r].secret \in Secrets /\ SignedVersion(r) \in Nat
    <2>1. seen[r] \in Seen
        BY Types
    <2> QED
        BY <1>2, <2>1 DEF SignInCall, SignedVersion, Seen
<1>4. sessions' \in SUBSET Session
    BY <1>1, <1>2, <1>3, Types DEF Session
<1> QED
    BY <1>1, <1>4, EndInv

--------------------------------------------------------------------------------
(* What the credential handlers write.                                         *)

\* An issue that commits: the rows it holds are closed, and one open row is added.
LEMMA IssuedRows ==
    ASSUME CredentialInv, NEW r \in Requests, CommitIssued(r)
    PROVE  /\ call[r] \in IssueResetCall /\ call[r].target \in Users
           /\ OpenResets(call[r].target) = revoking[r]
           /\ revoking[r] # {} => rowLock[call[r].target] = r
           /\ indexLock[call[r].target] = r
           /\ Len(resets) \in Nat /\ DOMAIN resets = 1..Len(resets)
           /\ resets' \in Seq(Reset) /\ DOMAIN resets' = 1..(Len(resets) + 1)
           /\ \A i \in DOMAIN resets :
                  /\ i \in DOMAIN resets' /\ i # Len(resets) + 1
                  /\ resets'[i].user = resets[i].user /\ resets'[i].used = resets[i].used
                  /\ resets'[i].revoked = (i \in revoking[r] \/ resets[i].revoked)
           /\ LET new == resets'[Len(resets) + 1] IN
                  new.user = call[r].target /\ ~new.used /\ ~new.revoked
<1> DEFINE u == call[r].target
           n == Len(resets) + 1
           row == [user |-> u, used |-> FALSE, revoked |-> FALSE, expired |-> FALSE]
           closed == [i \in DOMAIN resets |->
                         IF i \in revoking[r] THEN [resets[i] EXCEPT !.revoked = TRUE]
                         ELSE resets[i]]
<1>1. pc[r] = "issued" /\ resets' = Append(closed, row)
    BY DEF CommitIssued
<1>2. /\ call[r] \in IssueResetCall /\ u \in Users
      /\ OpenResets(u) = revoking[r] /\ indexLock[u] = r
      /\ revoking[r] # {} => rowLock[u] = r
    BY <1>1, TargetOf DEF CredentialInv, RequestInv, WellCalled, RevokesOpen, IssueLabels
<1>3. Len(resets) \in Nat /\ DOMAIN resets = 1..Len(resets)
    BY Types
<1>4. ASSUME NEW i \in DOMAIN resets
      PROVE  /\ closed[i] \in Reset /\ closed[i].user = resets[i].user
             /\ closed[i].used = resets[i].used
             /\ closed[i].revoked = (i \in revoking[r] \/ resets[i].revoked)
    <2>1. resets[i] \in Reset
        BY Types
    <2>2. /\ [resets[i] EXCEPT !.revoked = TRUE] \in Reset
          /\ [resets[i] EXCEPT !.revoked = TRUE].user = resets[i].user
          /\ [resets[i] EXCEPT !.revoked = TRUE].used = resets[i].used
          /\ [resets[i] EXCEPT !.revoked = TRUE].revoked = TRUE
        BY <2>1 DEF Reset
    <2>3. resets[i].revoked \in BOOLEAN
        BY <2>1 DEF Reset
    <2>4. CASE i \in revoking[r]
        BY <2>2, <2>4
    <2>5. CASE i \notin revoking[r]
        BY <2>1, <2>3, <2>5
    <2> QED
        BY <2>4, <2>5
<1>5. row \in Reset /\ row.user = u /\ ~row.used /\ ~row.revoked
    BY <1>2 DEF Reset
<1>6. closed \in Seq(Reset) /\ Len(closed) = Len(resets) /\ DOMAIN closed = 1..Len(resets)
    <2>1. closed \in [1..Len(resets) -> Reset]
        BY <1>3, <1>4
    <2> QED
        BY <1>3, <2>1
<1> HIDE DEF row, closed
<1>7. /\ resets' \in Seq(Reset) /\ Len(resets') = n /\ DOMAIN resets' = 1..n
      /\ resets'[n] = row /\ \A i \in 1..Len(resets) : resets'[i] = closed[i]
    BY <1>1, <1>3, <1>5, <1>6
<1>8. ASSUME NEW i \in DOMAIN resets
      PROVE  i \in 1..n /\ i # n /\ resets'[i] = closed[i]
    BY <1>3, <1>7
<1> QED
    BY <1>2, <1>3, <1>4, <1>5, <1>7, <1>8

\* The unique index of open resets, and everybody's locks, hold through it.
LEMMA IssuedInv ==
    ASSUME CredentialInv, NEW r \in Requests, CommitIssued(r)
    PROVE  CredentialInv'
<1> DEFINE c == call[r]
           u == call[r].target
           n == Len(resets) + 1
           entry == Event("reset_issued", c.ws, c.actor, c.target)
<1>1. /\ audit' = Append(audit, entry) /\ ReleaseLocks(r) /\ ReleaseResetLocks(r) /\ Finish(r)
      /\ UNCHANGED <<workspaces, members, sessionVersion, password, sessions>>
    BY DEF CommitIssued, End
<1>2. c \in IssueResetCall /\ u \in Users
    BY IssuedRows
<1>3. OpenResets(u) = revoking[r] /\ (revoking[r] # {} => rowLock[u] = r) /\ indexLock[u] = r
    BY IssuedRows
<1>4. /\ DOMAIN resets \subseteq DOMAIN resets'
      /\ \A i \in DOMAIN resets' : i \in DOMAIN resets \/ i = n
    BY IssuedRows
<1>5. ASSUME NEW i \in DOMAIN resets
      PROVE  /\ i \in DOMAIN resets' /\ i # n
             /\ resets'[i].user = resets[i].user /\ resets'[i].used = resets[i].used
             /\ resets'[i].revoked = (i \in revoking[r] \/ resets[i].revoked)
    BY IssuedRows
<1>6. resets'[n].user = u /\ ~resets'[n].used /\ ~resets'[n].revoked
    BY IssuedRows
<1>7. ASSUME NEW i \in DOMAIN resets
      PROVE  Open(i)' <=> Open(i) /\ i \notin revoking[r]
    BY <1>5 DEF Open
<1>8. audit' \in Seq(CredentialAuditEntry)
    <2>1. entry \in CredentialAuditEntry
        BY <1>2, ResetCallFields DEF Event, CredentialAuditEntry, ResetCall
    <2> QED
        BY <1>1, <2>1, Types
<1>9. CredentialTypeOK'
    <2>1. resets' \in Seq(Reset)
        BY IssuedRows
    <2>2. \A i \in DOMAIN resets' : ~(resets'[i].used /\ resets'[i].revoked)
        <3>1. \A i \in DOMAIN resets : ~(resets[i].used /\ resets[i].revoked)
            BY DEF CredentialInv, TablesInv, CredentialTypeOK
        <3>2. \A i \in revoking[r] : ~resets[i].used
            BY <1>3 DEF OpenResets, Open
        <3> QED
            BY <1>4, <1>5, <1>6, <3>1, <3>2
    <2>3. revoking' \in [Requests -> SUBSET DOMAIN resets]
        BY <1>1, ReleaseResetEffect
    <2>4. revoking' \in [Requests -> SUBSET DOMAIN resets']
        BY <1>4, <2>3
    <2>5. {rowLock', indexLock'} \subseteq [Users -> Requests \cup {None}]
        BY <1>1, ReleaseResetEffect
    <2>6. /\ pc' \in [Requests -> Labels \cup ResetLabels] /\ seen' \in [Requests -> Seen]
          /\ call' \in [Requests -> Call \cup ResetCall \cup {None}]
        BY <1>1, FinishEffect
    <2>7. /\ workspaces' \in SUBSET Workspaces
          /\ workspaceLock' \in [Workspaces -> Requests \cup {None}]
          /\ userLock' \in [Users -> Requests \cup {None}]
        BY <1>1, ReleaseEffect DEF CredentialInv, TablesInv, CredentialTypeOK
    <2> QED
        BY <1>1, <1>8, <2>1, <2>2, <2>4, <2>5, <2>6, <2>7, Types DEF CredentialTypeOK
<1>10. ResetsInv'
    <2> SUFFICES ASSUME NEW i \in DOMAIN resets', NEW j \in DOMAIN resets',
                        Open(i)', Open(j)', resets'[i].user = resets'[j].user
                 PROVE  i = j
        BY DEF ResetsInv, Open
    <2>1. ASSUME NEW k \in DOMAIN resets, Open(k)'
          PROVE  resets'[k].user # u
        BY <1>3, <1>5, <1>7, <2>1 DEF OpenResets
    <2>2. i \in DOMAIN resets /\ j \in DOMAIN resets => i = j
        BY <1>5, <1>7 DEF CredentialInv, TablesInv, ResetsInv
    <2> QED
        BY <1>4, <1>6, <2>1, <2>2
<1>11. TablesInv'
    BY <1>1, <1>9, <1>10, ReleaseEffect, FinishEffect DEF CredentialInv, TablesInv, OwnerExists
<1>12. LeavesOthers(r)
    <2>1. ASSUME NEW v \in Users, rowLock[v] \notin {None, r}
          PROVE  OpenResets(v) \subseteq OpenResets(v)'
        <3>1. \A i \in OpenResets(v) : i \notin revoking[r]
            BY <1>3, <2>1 DEF OpenResets
        <3> QED
            BY <1>5, <1>7, <3>1 DEF OpenResets
    <2>2. ASSUME NEW v \in Users, indexLock[v] \notin {None, r}
          PROVE  OpenResets(v)' \subseteq OpenResets(v)
        BY <1>3, <1>4, <1>5, <1>6, <1>7, <2>2 DEF OpenResets
    <2>3. workspaces \subseteq Workspaces
        BY DEF CredentialInv, TablesInv, CredentialTypeOK
    <2> QED
        BY <1>1, <1>5, <2>1, <2>2, <2>3, ReleaseEffect, ReleaseResetEffect, FinishEffect
        DEF LeavesOthers
<1>13. RequestInv(r)'
    BY <1>1, FinishEffect, AtRest
<1> QED
    BY <1>11, <1>12, <1>13, StepInv

\* A reset that commits: the token it holds is closed, the password replaced, and the
\* version it computed is still the next one.
LEMMA ConsumedEffect ==
    ASSUME CredentialInv, NEW r \in Requests, CommitConsumed(r)
    PROVE  /\ call[r] \in ConsumeCall /\ call[r].target \in Users
           /\ call[r].token \in OpenResets(call[r].target)
           /\ rowLock[call[r].target] = r /\ userLock[call[r].target] = r
           /\ sessionVersion' = [sessionVersion EXCEPT ![call[r].target] =
                                    sessionVersion[call[r].target] + 1]
           /\ password' = [password EXCEPT ![call[r].target] =
                              [secret |-> call[r].secret, outdated |-> FALSE]]
           /\ resets' \in Seq(Reset) /\ DOMAIN resets' = DOMAIN resets
           /\ \A i \in DOMAIN resets :
                  /\ resets'[i].user = resets[i].user /\ resets'[i].revoked = resets[i].revoked
                  /\ resets'[i].used = (i = call[r].token \/ resets[i].used)
<1>1. /\ pc[r] = "consumed"
      /\ password' = [password EXCEPT ![call[r].target] =
                         [secret |-> call[r].secret, outdated |-> FALSE]]
      /\ resets' = [resets EXCEPT ![call[r].token].used = TRUE]
      /\ sessionVersion' = [sessionVersion EXCEPT ![call[r].target] = seen[r].version]
    BY DEF CommitConsumed, ResetVersion
<1>2. /\ call[r] \in ConsumeCall /\ call[r].target \in Users
      /\ call[r].token \in DOMAIN resets /\ resets[call[r].token].user = call[r].target
    BY <1>1, TargetOf DEF CredentialInv, RequestInv, WellCalled, ConsumeLabels
<1>3. /\ rowLock[call[r].target] = r /\ Open(call[r].token)
      /\ userLock[call[r].target] = r
      /\ seen[r].version = sessionVersion[call[r].target] + 1
    BY <1>1 DEF CredentialInv, RequestInv, UsesOpen, HoldsUser
<1>4. resets \in [1..Len(resets) -> Reset] /\ DOMAIN resets = 1..Len(resets)
    BY Types
<1>5. resets[call[r].token] \in Reset
    BY <1>2, <1>4
<1>6. /\ [resets[call[r].token] EXCEPT !.used = TRUE] \in Reset
      /\ [resets[call[r].token] EXCEPT !.used = TRUE].user = resets[call[r].token].user
      /\ [resets[call[r].token] EXCEPT !.used = TRUE].revoked = resets[call[r].token].revoked
      /\ [resets[call[r].token] EXCEPT !.used = TRUE].used = TRUE
    BY <1>5 DEF Reset
<1>7. resets' \in [1..Len(resets) -> Reset] /\ Len(resets) \in Nat
    BY <1>1, <1>2, <1>4, <1>6, Types
<1>8. resets' \in Seq(Reset) /\ DOMAIN resets' = DOMAIN resets
    BY <1>4, <1>7
<1>9. ASSUME NEW i \in DOMAIN resets
      PROVE  /\ resets'[i].user = resets[i].user /\ resets'[i].revoked = resets[i].revoked
             /\ resets'[i].used = (i = call[r].token \/ resets[i].used)
    <2>1. resets[i].used \in BOOLEAN
        <3>1. resets[i] \in Reset
            BY <1>4
        <3> QED
            BY <3>1 DEF Reset
    <2>2. CASE i = call[r].token
        BY <1>1, <1>2, <1>6, <2>2
    <2>3. CASE i # call[r].token
        BY <1>1, <1>2, <2>1, <2>3
    <2> QED
        BY <2>2, <2>3
<1> QED
    BY <1>1, <1>2, <1>3, <1>8, <1>9 DEF OpenResets

\* Nobody else holds what a reset closes or counts on the version it writes.
LEMMA ConsumedInv ==
    ASSUME CredentialInv, NEW r \in Requests, CommitConsumed(r)
    PROVE  CredentialInv'
<1> DEFINE c == call[r]
           u == call[r].target
           entry == Event("reset_consumed", None, u, u)
<1>1. /\ audit' = Append(audit, entry) /\ ReleaseLocks(r) /\ ReleaseResetLocks(r) /\ Finish(r)
      /\ UNCHANGED <<workspaces, members, sessions>>
    BY DEF CommitConsumed, End
<1>2. /\ c \in ConsumeCall /\ u \in Users /\ c.token \in OpenResets(u)
      /\ rowLock[u] = r /\ userLock[u] = r
    BY ConsumedEffect
<1>3. sessionVersion' = [sessionVersion EXCEPT ![u] = sessionVersion[u] + 1]
    BY ConsumedEffect
<1>4. resets' \in Seq(Reset) /\ DOMAIN resets' = DOMAIN resets
    BY ConsumedEffect
<1>5. ASSUME NEW i \in DOMAIN resets
      PROVE  /\ resets'[i].user = resets[i].user /\ resets'[i].revoked = resets[i].revoked
             /\ resets'[i].used = (i = c.token \/ resets[i].used)
    BY ConsumedEffect
<1>6. ASSUME NEW i \in DOMAIN resets
      PROVE  Open(i)' <=> Open(i) /\ i # c.token
    BY <1>5 DEF Open
<1>7. password' \in [Users -> Hash]
    <2>1. [secret |-> c.secret, outdated |-> FALSE] \in Hash
        BY <1>2, ResetCallFields DEF Hash, ResetCall
    <2>2. password' = [password EXCEPT ![u] = [secret |-> c.secret, outdated |-> FALSE]]
        BY ConsumedEffect
    <2> QED
        BY <2>1, <2>2, Types
<1>8. /\ sessionVersion' \in [Users -> Nat]
      /\ \A v \in Users : v # u => sessionVersion'[v] = sessionVersion[v]
    <2>1. sessionVersion[u] + 1 \in Nat
        BY <1>2, Types
    <2> QED
        BY <1>3, <2>1, Types
<1>9. audit' \in Seq(CredentialAuditEntry)
    <2>1. entry \in CredentialAuditEntry
        BY <1>2 DEF Event, CredentialAuditEntry
    <2> QED
        BY <1>1, <2>1, Types
<1>10. CredentialTypeOK'
    <2>1. \A i \in DOMAIN resets' : ~(resets'[i].used /\ resets'[i].revoked)
        <3>1. \A i \in DOMAIN resets : ~(resets[i].used /\ resets[i].revoked)
            BY DEF CredentialInv, TablesInv, CredentialTypeOK
        <3>2. ~resets[c.token].revoked
            BY <1>2 DEF OpenResets, Open
        <3> QED
            BY <1>4, <1>5, <3>1, <3>2
    <2>2. revoking' \in [Requests -> SUBSET DOMAIN resets]
        BY <1>1, ReleaseResetEffect
    <2>3. revoking' \in [Requests -> SUBSET DOMAIN resets']
        BY <1>4, <2>2
    <2>4. {rowLock', indexLock'} \subseteq [Users -> Requests \cup {None}]
        BY <1>1, ReleaseResetEffect
    <2>5. /\ pc' \in [Requests -> Labels \cup ResetLabels] /\ seen' \in [Requests -> Seen]
          /\ call' \in [Requests -> Call \cup ResetCall \cup {None}]
        BY <1>1, FinishEffect
    <2>6. /\ workspaces' \in SUBSET Workspaces
          /\ workspaceLock' \in [Workspaces -> Requests \cup {None}]
          /\ userLock' \in [Users -> Requests \cup {None}]
        BY <1>1, ReleaseEffect DEF CredentialInv, TablesInv, CredentialTypeOK
    <2> QED
        BY <1>1, <1>4, <1>7, <1>8, <1>9, <2>1, <2>3, <2>4, <2>5, <2>6, Types
        DEF CredentialTypeOK
<1>11. ResetsInv'
    BY <1>4, <1>5, <1>6 DEF CredentialInv, TablesInv, ResetsInv, Open
<1>12. TablesInv'
    BY <1>1, <1>10, <1>11, ReleaseEffect, FinishEffect
    DEF CredentialInv, TablesInv, OwnerExists
<1>13. LeavesOthers(r)
    <2>1. ASSUME NEW v \in Users
          PROVE  /\ OpenResets(v)' \subseteq OpenResets(v)
                 /\ rowLock[v] # r => OpenResets(v) \subseteq OpenResets(v)'
        BY <1>2, <1>4, <1>5, <1>6 DEF OpenResets
    <2>2. workspaces \subseteq Workspaces
        BY DEF CredentialInv, TablesInv, CredentialTypeOK
    <2> QED
        BY <1>1, <1>2, <1>4, <1>5, <1>8, <2>1, <2>2, ReleaseEffect, ReleaseResetEffect,
           FinishEffect
        DEF LeavesOthers
<1>14. RequestInv(r)'
    BY <1>1, FinishEffect, AtRest
<1> QED
    BY <1>12, <1>13, <1>14, StepInv

\* The hash authenticate writes back, for the user and secret its request carries.
LEMMA RehashedInv ==
    ASSUME CredentialInv, NEW r \in Requests, Rehash(r)
    PROVE  CredentialInv'
<1>1. /\ pc[r] = "rehash" /\ pc' = [pc EXCEPT ![r] = "signed"]
      /\ password' = [password EXCEPT ![call[r].target] =
                         [secret |-> call[r].secret, outdated |-> FALSE]]
      /\ UNCHANGED <<workspaces, members, sessionVersion, audit, workspaceLock, userLock,
                     resets, sessions, rowLock, indexLock, revoking, call, seen>>
    BY DEF Rehash, Goto, tables, locks, resetLocks
<1>2. WellCalled(r) /\ call[r] \in SignInCall /\ call[r].target \in Users
    BY <1>1, TargetOf DEF CredentialInv, RequestInv, WellCalled
<1>3. /\ pc' \in [Requests -> Labels \cup ResetLabels] /\ pc'[r] = "signed"
      /\ \A s \in Requests \ {r} : pc'[s] = pc[s]
    BY <1>1, Types DEF ResetLabels
<1>4. password' \in [Users -> Hash]
    <2>1. [secret |-> call[r].secret, outdated |-> FALSE] \in Hash
        BY <1>2 DEF Hash, SignInCall
    <2> QED
        BY <1>1, <2>1, Types
<1>5. CredentialTypeOK'
    BY <1>1, <1>3, <1>4 DEF CredentialInv, TablesInv, CredentialTypeOK
<1>6. TablesInv'
    BY <1>1, <1>5 DEF CredentialInv, TablesInv, ResetsInv, Open, OwnerExists
<1>7. LeavesOthers(r)
    <2>1. \A v \in Users : OpenResets(v)' = OpenResets(v)
        BY <1>1 DEF OpenResets, Open
    <2> QED
        BY <1>1, <1>3, <2>1 DEF LeavesOthers
<1>8. RequestInv(r)'
    BY <1>1, <1>2, <1>3
    DEF RequestInv, WellCalled, HoldsTenant, HoldsUser, TargetKnown, OwnerLeft, RevokesOpen,
        UsesOpen, InTransaction, Labels, IssueLabels, ConsumeLabels
<1> QED
    BY <1>6, <1>7, <1>8, StepInv

\* A token that expires stays open: only issues and resets close it.
LEMMA ExpiredInv ==
    ASSUME CredentialInv, NEW t \in DOMAIN resets, Expire(t)
    PROVE  /\ CredentialInv'
           /\ DOMAIN resets' = DOMAIN resets
           /\ \A i \in DOMAIN resets :
                  /\ resets'[i].user = resets[i].user /\ resets'[i].used = resets[i].used
                  /\ resets'[i].revoked = resets[i].revoked
<1>1. /\ resets' = [resets EXCEPT ![t].expired = TRUE]
      /\ UNCHANGED <<workspaces, members, sessionVersion, audit, workspaceLock, userLock,
                     pc, call, seen, password, sessions, rowLock, indexLock, revoking>>
    BY DEF Expire, vars, tables, locks, resetLocks
<1>2. /\ resets \in [1..Len(resets) -> Reset] /\ DOMAIN resets = 1..Len(resets)
      /\ Len(resets) \in Nat
    BY Types
<1>3. resets[t] \in Reset
    BY <1>2
<1>4. /\ [resets[t] EXCEPT !.expired = TRUE] \in Reset
      /\ [resets[t] EXCEPT !.expired = TRUE].user = resets[t].user
      /\ [resets[t] EXCEPT !.expired = TRUE].revoked = resets[t].revoked
      /\ [resets[t] EXCEPT !.expired = TRUE].used = resets[t].used
    BY <1>3 DEF Reset
<1>5. resets' \in [1..Len(resets) -> Reset]
    BY <1>1, <1>2, <1>4
<1>6. resets' \in Seq(Reset) /\ DOMAIN resets' = DOMAIN resets
    BY <1>2, <1>5
<1>7. ASSUME NEW i \in DOMAIN resets
      PROVE  /\ resets'[i].user = resets[i].user /\ resets'[i].used = resets[i].used
             /\ resets'[i].revoked = resets[i].revoked
    BY <1>1, <1>2, <1>4
<1>8. \A i \in DOMAIN resets : Open(i)' <=> Open(i)
    BY <1>7 DEF Open
<1>9. CredentialTypeOK'
    <2>1. \A i \in DOMAIN resets' : ~(resets'[i].used /\ resets'[i].revoked)
        BY <1>6, <1>7 DEF CredentialInv, TablesInv, CredentialTypeOK
    <2> QED
        BY <1>1, <1>6, <2>1 DEF CredentialInv, TablesInv, CredentialTypeOK
<1>10. TablesInv'
    <2>1. ResetsInv'
        BY <1>6, <1>7, <1>8 DEF CredentialInv, TablesInv, ResetsInv, Open
    <2> QED
        BY <1>1, <1>9, <2>1 DEF CredentialInv, TablesInv, OwnerExists
<1>11. LeavesOthers(None)
    <2>1. \A v \in Users : OpenResets(v)' = OpenResets(v)
        BY <1>6, <1>7, <1>8 DEF OpenResets
    <2> QED
        BY <1>1, <1>6, <1>7, <2>1 DEF LeavesOthers
<1>12. ASSUME NEW s \in Requests
       PROVE  RequestInv(s)'
    BY <1>11, NoneAssumption, OthersKept
<1> QED
    BY <1>6, <1>7, <1>10, <1>12 DEF CredentialInv

--------------------------------------------------------------------------------
(* Every reachable state.                                                      *)

\* The invariant holds before any call.
LEMMA InitCredential == CredentialInit => CredentialInv
<1> SUFFICES ASSUME CredentialInit PROVE CredentialInv
    OBVIOUS
<1>1. Unread \in Seen /\ <<>> \in Seq(Reset) /\ <<>> \in Seq(CredentialAuditEntry)
    BY DEF Unread, Seen
<1>2. password \in [Users -> Hash]
    BY OutdatedAssumption DEF CredentialInit, Hash
<1>3. CredentialTypeOK
    BY <1>1, <1>2 DEF CredentialInit, Init, CredentialTypeOK, Labels
<1>4. ResetsInv /\ OwnerExists
    BY DEF CredentialInit, Init, ResetsInv, OwnerExists, Owners
<1>5. \A r \in Requests : RequestInv(r)
    BY DEF CredentialInit, Init, RequestInv, WellCalled, HoldsTenant, HoldsUser, TargetKnown,
           OwnerLeft, RevokesOpen, UsesOpen, InTransaction, IssueLabels, ConsumeLabels
<1> QED
    BY <1>3, <1>4, <1>5 DEF CredentialInit, Init, CredentialInv, TablesInv

\* Every step of every handler, and of time, preserves it.
LEMMA NextCredential == CredentialInv /\ [CredentialNext]_allVars => CredentialInv'
<1> SUFFICES ASSUME CredentialInv, [CredentialNext]_allVars PROVE CredentialInv'
    OBVIOUS
<1>1. ASSUME NEW r \in Requests, Abort(r)
      PROVE  CredentialInv'
    BY <1>1, Types, EndInv DEF Abort, Rollback, credentials
<1>2. ASSUME NEW r \in Requests, CredentialProceed(r)
      PROVE  CredentialInv'
    <2>1. CASE JudgeTarget(r) \/ LockTenant(r) \/ ReadToken(r)
        BY <2>1, ReadingInv
    <2>2. CASE RefuseReset(r) \/ DuplicateReset(r) \/ RefuseToken(r) \/ TokenGone(r)
        BY <1>1, <2>2 DEF RefuseReset, DuplicateReset, RefuseToken, TokenGone
    <2>3. CASE SelectOpen(r) \/ RevokeOpen(r)
        BY <2>3, SelectedInv
    <2>4. CASE InsertReset(r) \/ UseToken(r) \/ WritePassword(r)
        BY <2>4, InsertedInv, TokenUsedInv, UserTakenInv
    <2>5. CASE CommitIssued(r) \/ CommitConsumed(r) \/ Rehash(r) \/ Sign(r)
        BY <2>5, IssuedInv, ConsumedInv, RehashedInv, SignedInv
    <2> QED
        BY <1>2, <2>1, <2>2, <2>3, <2>4, <2>5 DEF CredentialProceed
<1>3. ASSUME NEW r \in Requests, Start(r), UNCHANGED resetVars
      PROVE  CredentialInv'
    BY <1>3, MembershipMoveInv, TenantCreatedInv DEF Start
<1>4. ASSUME NEW r \in Requests, Proceed(r), UNCHANGED resetVars
      PROVE  CredentialInv'
    <2>1. CASE LockWorkspace(r)
        BY <1>4, <2>1, MembershipLockInv
    <2>2. CASE ReadTarget(r) \/ CountOwners(r) \/ SkipUser(r)
        BY <1>4, <2>2, MembershipMoveInv
    <2>3. UNCHANGED <<password, resets, sessions, resetLocks>> /\ sessions' \in SUBSET Session
        BY <1>4, Types DEF resetVars, credentials
    <2>4. CASE RefuseTarget(r) \/ RefuseLastOwner(r)
        BY <2>3, <2>4, EndInv DEF RefuseTarget, RefuseLastOwner, Rollback
    <2>5. CASE LockUser(r)
        BY <1>4, <2>5, MembershipUserInv
    <2>6. CASE Commit(r)
        BY <1>4, <2>6, MembershipCommitInv
    <2>7. CASE ReadBack(r)
        BY <2>3, <2>7, EndInv DEF ReadBack
    <2> QED
        BY <1>4, <2>1, <2>2, <2>4, <2>5, <2>6, <2>7 DEF Proceed
<1>5. ASSUME UNCHANGED allVars
      PROVE  CredentialInv'
    <2>1. UNCHANGED <<workspaces, members, sessionVersion, audit, workspaceLock, userLock,
                      pc, call, seen, password, resets, sessions, rowLock, indexLock, revoking>>
        BY <1>5 DEF allVars, vars, tables, locks, resetVars, credentials, resetLocks
    <2>2. TablesInv'
        BY <2>1 DEF CredentialInv, TablesInv, CredentialTypeOK, ResetsInv, Open, OwnerExists
    <2>3. LeavesOthers(None)
        <3>1. \A u \in Users : OpenResets(u)' = OpenResets(u)
            BY <2>1 DEF OpenResets, Open
        <3> QED
            BY <2>1, <3>1 DEF LeavesOthers
    <2>4. ASSUME NEW s \in Requests
          PROVE  RequestInv(s)'
        BY <2>3, NoneAssumption, OthersKept
    <2> QED
        BY <2>2, <2>4 DEF CredentialInv
<1>6. ASSUME Rest, UNCHANGED resetVars
      PROVE  CredentialInv'
    BY <1>5, <1>6 DEF Rest, allVars
<1> QED
    BY <1>1, <1>2, <1>3, <1>4, <1>5, <1>6, CredentialStartInv, ExpiredInv
    DEF CredentialNext, MembershipStep, CutOff

\* Every reachable state satisfies the inductive invariant.
THEOREM CredentialInvariance == CredentialSpec => []CredentialInv
BY InitCredential, NextCredential, PTL DEF CredentialSpec

\* Every table, lock and request variable keeps its type, and no token is both used and
\* revoked (repository.py, issue_password_reset and consume_password_reset).
THEOREM CredentialTypes == CredentialSpec => []CredentialTypeOK
<1>1. CredentialInv => CredentialTypeOK
    BY DEF CredentialInv, TablesInv
<1> QED
    BY <1>1, CredentialInvariance, PTL

\* However issues from several tenants and resets interleave, a user has at most one
\* open token (repository.py, issue_password_reset: revoke, then insert).
THEOREM OneOpenToken == CredentialSpec => []OneOpenReset
<1>1. CredentialInv => OneOpenReset
    <2> SUFFICES ASSUME CredentialInv, NEW u \in Users
                 PROVE  Cardinality(OpenResets(u)) <= 1
        BY DEF OneOpenReset
    <2>1. CASE OpenResets(u) = {}
        BY <2>1, FS_EmptySet
    <2>2. ASSUME NEW i \in OpenResets(u)
          PROVE  Cardinality(OpenResets(u)) <= 1
        <3>1. OpenResets(u) = {i}
            BY <2>2 DEF OpenResets, CredentialInv, TablesInv, ResetsInv
        <3>2. Cardinality({i}) = 1
            BY FS_Singleton
        <3> QED
            BY <3>1, <3>2
    <2> QED
        BY <2>1, <2>2
<1> QED
    BY <1>1, CredentialInvariance, PTL

--------------------------------------------------------------------------------
(* Tokens and passwords.                                                       *)

\* The steps that write a table, a password or a token.
LEMMA WritingSteps ==
    ASSUME CredentialInv, [CredentialNext]_allVars
    PROVE  \/ UNCHANGED <<workspaces, members, sessionVersion, audit, password, resets>>
           \/ \E r \in Requests :
                 \/ CommitIssued(r)
                 \/ CommitConsumed(r)
                 \/ Rehash(r)
                 \/ Commit(r) /\ UNCHANGED resetVars
           \/ \E r \in Requests, c \in CreateCall :
                 CreateWorkspace(r, c) /\ UNCHANGED resetVars
           \/ \E i \in DOMAIN resets : Expire(i)
<1> DEFINE Quiet6 == UNCHANGED <<workspaces, members, sessionVersion, audit, password, resets>>
<1>1. ASSUME NEW r \in Requests, CredentialStart(r)
      PROVE  Quiet6
    BY <1>1 DEF CredentialStart, IssueReset, ConsumeReset, SignIn, tables, resetVars, credentials
<1>2. ASSUME NEW r \in Requests, CredentialProceed(r) \/ CutOff(r)
      PROVE  CommitIssued(r) \/ CommitConsumed(r) \/ Rehash(r) \/ Quiet6
    <2>1. CASE JudgeTarget(r) \/ LockTenant(r) \/ ReadToken(r) \/ WritePassword(r)
        BY <2>1 DEF JudgeTarget, LockTenant, ReadToken, WritePassword, tables, resetVars,
                    credentials
    <2>2. CASE \/ RefuseReset(r) \/ DuplicateReset(r) \/ RefuseToken(r) \/ TokenGone(r)
               \/ CutOff(r)
        BY <2>2 DEF RefuseReset, DuplicateReset, RefuseToken, TokenGone, CutOff, Abort,
                    Rollback, tables, credentials
    <2>3. CASE SelectOpen(r) \/ RevokeOpen(r) \/ InsertReset(r) \/ UseToken(r) \/ Sign(r)
        BY <2>3 DEF SelectOpen, RevokeOpen, InsertReset, UseToken, Sign, tables, credentials
    <2> QED
        BY <1>2, <2>1, <2>2, <2>3 DEF CredentialProceed
<1>3. ASSUME NEW r \in Requests, Proceed(r), UNCHANGED resetVars
      PROVE  Commit(r) \/ Quiet6
    BY <1>3 DEF Proceed, LockWorkspace, ReadTarget, RefuseTarget, CountOwners,
                RefuseLastOwner, SkipUser, LockUser, ReadBack, Rollback, tables, resetVars,
                credentials
<1>4. ASSUME NEW r \in Requests, NEW c \in ChangeRoleCall \cup RemoveCall, Authorize(r, c),
             UNCHANGED resetVars
      PROVE  Quiet6
    BY <1>4 DEF Authorize, tables, resetVars, credentials
<1>5. ASSUME UNCHANGED allVars \/ (Rest /\ UNCHANGED resetVars)
      PROVE  Quiet6
    BY <1>5 DEF Rest, allVars, vars, tables, resetVars, credentials
<1>6. ASSUME NEW r \in Requests, MembershipStep(r)
      PROVE  \/ Commit(r) /\ UNCHANGED resetVars
             \/ \E c \in CreateCall : CreateWorkspace(r, c) /\ UNCHANGED resetVars
             \/ Quiet6
    BY <1>3, <1>4, <1>6 DEF MembershipStep, Start
<1> HIDE DEF Quiet6
<1>7. CASE \E r \in Requests :
               CredentialStart(r) \/ CredentialProceed(r) \/ MembershipStep(r) \/ CutOff(r)
    <2> PICK r \in Requests :
            CredentialStart(r) \/ CredentialProceed(r) \/ MembershipStep(r) \/ CutOff(r)
        BY <1>7
    <2> QED
        BY <1>1, <1>2, <1>6 DEF Quiet6
<1>8. CASE UNCHANGED allVars \/ (Rest /\ UNCHANGED resetVars)
    BY <1>5, <1>8 DEF Quiet6
<1> QED
    BY <1>7, <1>8 DEF CredentialNext

\* A used or revoked token never changes again and no reset commits with it: the UPDATE
\* that consumes a token and the one that revokes it meet only open rows, whatever they
\* read before
\* (repository.py, issue_password_reset and consume_password_reset).
THEOREM ClosedTokensStayClosed == CredentialSpec => TokenClosedForGood
<1> DEFINE Kept ==
        \A i \in DOMAIN resets :
            ~Open(i) => /\ resets'[i].used = resets[i].used
                        /\ resets'[i].revoked = resets[i].revoked
       UsedOpen ==
        \A r \in Requests :
            pc[r] = "consumed" /\ resets' # resets /\ pc'[r] = "idle" => Open(call[r].token)
<1>1. ASSUME CredentialInv, [CredentialNext]_allVars
      PROVE  Kept
    <2> SUFFICES ASSUME NEW i \in DOMAIN resets, ~Open(i)
                 PROVE  resets'[i].used = resets[i].used /\ resets'[i].revoked = resets[i].revoked
        OBVIOUS
    <2>t. resets[i].used \in BOOLEAN /\ resets[i].revoked \in BOOLEAN
        <3>1. resets[i] \in Reset
            BY <1>1, Types
        <3> QED
            BY <3>1 DEF Reset
    <2>1. CASE UNCHANGED <<workspaces, members, sessionVersion, audit, password, resets>>
        BY <2>1
    <2>2. ASSUME NEW r \in Requests, CommitIssued(r)
          PROVE  resets'[i].used = resets[i].used /\ resets'[i].revoked = resets[i].revoked
        <3>1. /\ resets'[i].used = resets[i].used
              /\ resets'[i].revoked = (i \in revoking[r] \/ resets[i].revoked)
              /\ OpenResets(call[r].target) = revoking[r]
            BY <1>1, <2>2, IssuedRows
        <3>2. i \notin revoking[r]
            BY <3>1 DEF OpenResets
        <3> QED
            BY <2>t, <3>1, <3>2
    <2>3. ASSUME NEW r \in Requests, CommitConsumed(r)
          PROVE  resets'[i].used = resets[i].used /\ resets'[i].revoked = resets[i].revoked
        <3>1. /\ resets'[i].revoked = resets[i].revoked
              /\ resets'[i].used = (i = call[r].token \/ resets[i].used)
              /\ call[r].token \in OpenResets(call[r].target)
            BY <1>1, <2>3, ConsumedEffect
        <3>2. i # call[r].token
            BY <3>1 DEF OpenResets
        <3> QED
            BY <2>t, <3>1, <3>2
    <2>4. ASSUME NEW r \in Requests, Rehash(r)
          PROVE  resets' = resets
        BY <2>4 DEF Rehash
    <2>5. ASSUME UNCHANGED resetVars
          PROVE  resets' = resets
        BY <2>5 DEF resetVars, credentials
    <2>6. ASSUME NEW t \in DOMAIN resets, Expire(t)
          PROVE  resets'[i].used = resets[i].used /\ resets'[i].revoked = resets[i].revoked
        BY <1>1, <2>6, ExpiredInv
    <2> QED
        BY <1>1, <2>1, <2>2, <2>3, <2>4, <2>5, <2>6, WritingSteps
<1>2. CredentialInv => UsedOpen
    BY DEF CredentialInv, RequestInv, UsesOpen
<1>3. CredentialInv /\ [CredentialNext]_allVars => [Kept /\ UsedOpen]_allVars
    BY <1>1, <1>2
<1> QED
    BY <1>3, CredentialInvariance, PTL DEF CredentialSpec, TokenClosedForGood

--------------------------------------------------------------------------------
(* Sessions.  Where no stored hash is out of date, nothing rewrites a password *)
(* but a reset; MCCredentialsRehash shows what a rewrite does otherwise.       *)

\* A request's step moves no other request.
LEMMA OwnStep ==
    ASSUME CredentialInv, NEW r \in Requests,
           CredentialStart(r) \/ CredentialProceed(r) \/ MembershipStep(r) \/ CutOff(r),
           NEW s \in Requests, s # r
    PROVE  pc'[s] = pc[s] /\ call'[s] = call[s] /\ seen'[s] = seen[s]
<1> USE Types
<1>1. CASE CredentialStart(r)
    BY <1>1 DEF CredentialStart, IssueReset, ConsumeReset, SignIn, Begin, Goto
<1>2. CASE Abort(r)
    BY <1>2 DEF Abort, Rollback, Finish, Goto
<1>3. CASE JudgeTarget(r) \/ LockTenant(r) \/ SelectOpen(r) \/ RevokeOpen(r) \/ InsertReset(r)
    BY <1>3 DEF JudgeTarget, LockTenant, SelectOpen, RevokeOpen, InsertReset, Goto
<1>4. CASE ReadToken(r) \/ UseToken(r) \/ WritePassword(r) \/ Rehash(r)
    BY <1>4 DEF ReadToken, UseToken, WritePassword, Rehash, Goto
<1>5. CASE CommitIssued(r) \/ CommitConsumed(r) \/ Sign(r)
    BY <1>5 DEF CommitIssued, CommitConsumed, Sign, End, Finish, Goto
<1>6. CASE Start(r)
    BY <1>6 DEF Start, Authorize, CreateWorkspace, Goto
<1>7. CASE Proceed(r)
    BY <1>7 DEF Proceed, LockWorkspace, ReadTarget, RefuseTarget, CountOwners,
                RefuseLastOwner, SkipUser, LockUser, Commit, ReadBack, Rollback, Finish, Goto
<1> QED
    BY <1>1, <1>2, <1>3, <1>4, <1>5, <1>6, <1>7
    DEF CredentialProceed, MembershipStep, CutOff, RefuseReset, DuplicateReset, RefuseToken,
        TokenGone

\* A request about to write a hash back or to sign was so before, or has just verified
\* the password or written the hash.
LEMMA SigningOrigin ==
    ASSUME CredentialInv, [CredentialNext]_allVars,
           NEW s \in Requests, pc'[s] \in {"rehash", "signed"}
    PROVE  \/ pc'[s] = pc[s] /\ call'[s] = call[s] /\ seen'[s] = seen[s]
           \/ Rehash(s)
           \/ \E u \in Users, secret \in Secrets : SignIn(s, u, secret)
<1> DEFINE Still == pc'[s] = pc[s] /\ call'[s] = call[s] /\ seen'[s] = seen[s]
<1>1. ASSUME NEW r \in Requests, r # s,
             CredentialStart(r) \/ CredentialProceed(r) \/ MembershipStep(r) \/ CutOff(r)
      PROVE  Still
    BY <1>1, OwnStep
<1>2. ASSUME Abort(s) PROVE FALSE
    BY <1>2, Types DEF Abort, Rollback, Finish, Goto
<1>3. ASSUME CredentialStart(s)
      PROVE  \E u \in Users, secret \in Secrets : SignIn(s, u, secret)
    BY <1>3, Types DEF CredentialStart, IssueReset, ConsumeReset, Begin, Goto
<1>4. ASSUME CredentialProceed(s)
      PROVE  Rehash(s)
    <2>1. ASSUME \/ JudgeTarget(s) \/ LockTenant(s) \/ SelectOpen(s) \/ RevokeOpen(s)
                 \/ InsertReset(s) \/ ReadToken(s) \/ UseToken(s) \/ WritePassword(s)
          PROVE  FALSE
        BY <2>1, Types DEF JudgeTarget, LockTenant, SelectOpen, RevokeOpen, InsertReset,
                           ReadToken, UseToken, WritePassword, Goto
    <2>2. ASSUME CommitIssued(s) \/ CommitConsumed(s) \/ Sign(s)
          PROVE  FALSE
        BY <2>2, Types DEF CommitIssued, CommitConsumed, Sign, End, Finish, Goto
    <2> QED
        BY <1>2, <1>4, <2>1, <2>2
        DEF CredentialProceed, RefuseReset, DuplicateReset, RefuseToken, TokenGone
<1>5. ASSUME MembershipStep(s) PROVE FALSE
    <2>1. ASSUME Start(s) PROVE FALSE
        BY <2>1, Types DEF Start, Authorize, CreateWorkspace, Goto
    <2>2. ASSUME Proceed(s) PROVE FALSE
        BY <2>2, Types DEF Proceed, LockWorkspace, ReadTarget, RefuseTarget, CountOwners,
                    RefuseLastOwner, SkipUser, LockUser, Commit, ReadBack, Rollback, Finish, Goto
    <2> QED
        BY <1>5, <2>1, <2>2 DEF MembershipStep
<1>6. ASSUME UNCHANGED allVars \/ (Rest /\ UNCHANGED resetVars) \/ \E i \in DOMAIN resets : Expire(i)
      PROVE  Still
    BY <1>6 DEF Rest, Expire, allVars, vars
<1> HIDE DEF Still
<1>7. CASE \E r \in Requests :
               CredentialStart(r) \/ CredentialProceed(r) \/ MembershipStep(r) \/ CutOff(r)
    <2>1. PICK r \in Requests :
              CredentialStart(r) \/ CredentialProceed(r) \/ MembershipStep(r) \/ CutOff(r)
        BY <1>7
    <2>2. CASE r # s
        BY <1>1, <2>1, <2>2 DEF Still
    <2>3. CASE r = s
        BY <1>2, <1>3, <1>4, <1>5, <2>1, <2>3 DEF CutOff
    <2> QED
        BY <2>2, <2>3
<1>8. CASE UNCHANGED allVars \/ (Rest /\ UNCHANGED resetVars) \/ \E i \in DOMAIN resets : Expire(i)
    BY <1>6, <1>8 DEF Still
<1> QED
    BY <1>7, <1>8 DEF CredentialNext

\* Passwords whose hashes are all up to date, and nobody about to write one back.
UpToDate ==
    /\ \A u \in Users : ~password[u].outdated
    /\ \A r \in Requests : pc[r] # "rehash"

\* A session is no newer than its user's version, and one that carries that version was
\* opened with the password in force; so is one about to be signed.
Knows(u, version, secret) ==
    /\ version <= sessionVersion[u]
    /\ version = sessionVersion[u] => secret = password[u].secret

SessionInv ==
    /\ \A r \in Requests :
           pc[r] = "signed" => Knows(call[r].target, seen[r].version, call[r].secret)
    /\ \A s \in sessions : Knows(s.user, s.version, s.secret)

\* What a step does to a user's password and version: a new password comes with the
\* version after, and uses up one open token.
Guarded(u) ==
    /\ sessionVersion'[u] >= sessionVersion[u]
    /\ sessionVersion'[u] = sessionVersion[u] => password'[u].secret = password[u].secret
    /\ password'[u].secret # password[u].secret =>
           \E i \in OpenResets(u) : resets'[i].used /\ ~resets'[i].revoked

LEMMA PasswordStep ==
    ASSUME CredentialInv, UpToDate, [CredentialNext]_allVars, NEW u \in Users
    PROVE  Guarded(u) /\ ~password'[u].outdated
<1>t. sessionVersion \in [Users -> Nat] /\ password \in [Users -> Hash]
    BY Types
<1>1. CASE UNCHANGED <<sessionVersion, password>>
    BY <1>t, <1>1 DEF Guarded, UpToDate
<1>2. ASSUME NEW r \in Requests, CommitConsumed(r)
      PROVE  Guarded(u) /\ ~password'[u].outdated
    <2>1. /\ call[r].target \in Users /\ call[r].token \in OpenResets(call[r].target)
          /\ sessionVersion' = [sessionVersion EXCEPT ![call[r].target] =
                                   sessionVersion[call[r].target] + 1]
          /\ password' = [password EXCEPT ![call[r].target] =
                             [secret |-> call[r].secret, outdated |-> FALSE]]
        BY <1>2, ConsumedEffect
    <2>2. /\ resets'[call[r].token].used = TRUE
          /\ resets'[call[r].token].revoked = resets[call[r].token].revoked
        BY <1>2, <2>1, ConsumedEffect DEF OpenResets
    <2>3. resets'[call[r].token].used /\ ~resets'[call[r].token].revoked
        BY <2>1, <2>2 DEF OpenResets, Open
    <2>4. CASE u = call[r].target
        <3>1. sessionVersion'[u] = sessionVersion[u] + 1 /\ sessionVersion[u] \in Nat
              /\ ~password'[u].outdated
            BY <1>t, <2>1, <2>4
        <3> QED
            BY <2>1, <2>3, <2>4, <3>1 DEF Guarded
    <2>5. CASE u # call[r].target
        <3>1. sessionVersion'[u] = sessionVersion[u] /\ password'[u] = password[u]
              /\ sessionVersion[u] \in Nat
            BY <1>t, <2>1, <2>5
        <3> QED
            BY <3>1 DEF Guarded, UpToDate
    <2> QED
        BY <2>4, <2>5
<1>3. ASSUME NEW r \in Requests, Commit(r), UNCHANGED resetVars
      PROVE  Guarded(u) /\ ~password'[u].outdated
    <2>1. /\ call[r].target \in Users
          /\ sessionVersion' = IF Bumps(r)
                               THEN [sessionVersion EXCEPT ![call[r].target] =
                                         sessionVersion[call[r].target] + 1]
                               ELSE sessionVersion
        BY <1>3, MembershipCommitEffect
    <2>2. sessionVersion'[u] \in {sessionVersion[u], sessionVersion[u] + 1}
        BY <1>t, <2>1
    <2>3. password' = password
        BY <1>3 DEF resetVars, credentials
    <2> QED
        BY <1>t, <2>2, <2>3 DEF Guarded, UpToDate
<1>4. ASSUME NEW r \in Requests, NEW c \in CreateCall, CreateWorkspace(r, c), UNCHANGED resetVars
      PROVE  UNCHANGED <<sessionVersion, password>>
    BY <1>4 DEF CreateWorkspace, resetVars, credentials
<1>5. ASSUME NEW r \in Requests, CommitIssued(r)
      PROVE  UNCHANGED <<sessionVersion, password>>
    BY <1>5 DEF CommitIssued
<1>6. ASSUME NEW r \in Requests, Rehash(r)
      PROVE  FALSE
    BY <1>6 DEF Rehash, UpToDate
<1>7. ASSUME NEW i \in DOMAIN resets, Expire(i)
      PROVE  UNCHANGED <<sessionVersion, password>>
    BY <1>7 DEF Expire, vars, tables
<1> QED
    BY <1>1, <1>2, <1>3, <1>4, <1>5, <1>6, <1>7, WritingSteps

\* Without an old hash to begin with there never is one.
LEMMA AlwaysUpToDate ==
    ASSUME TRUE \notin Outdated
    PROVE  CredentialSpec => []UpToDate
<1>1. CredentialInit => UpToDate
    <2> SUFFICES ASSUME CredentialInit PROVE UpToDate
        OBVIOUS
    <2>1. PICK secret \in Secrets, outdated \in Outdated :
              password = [u \in Users |-> [secret |-> secret, outdated |-> outdated]]
        BY DEF CredentialInit
    <2>2. ~outdated
        BY OutdatedAssumption
    <2>3. \A u \in Users : password[u].outdated = outdated
        BY <2>1
    <2>4. \A r \in Requests : pc[r] # "rehash"
        BY DEF CredentialInit, Init
    <2> QED
        BY <2>2, <2>3, <2>4 DEF UpToDate
<1>2. CredentialInv /\ UpToDate /\ [CredentialNext]_allVars => UpToDate'
    <2> SUFFICES ASSUME CredentialInv, UpToDate, [CredentialNext]_allVars
                 PROVE  UpToDate'
        OBVIOUS
    <2>1. \A u \in Users : ~password'[u].outdated
        BY PasswordStep
    <2>2. ASSUME NEW s \in Requests, pc'[s] = "rehash"
          PROVE  FALSE
        <3>1. ASSUME NEW u \in Users, NEW secret \in Secrets, SignIn(s, u, secret)
              PROVE  FALSE
            BY <2>2, <3>1, Types DEF SignIn, Begin, Goto, UpToDate
        <3> QED
            BY <2>2, <3>1, SigningOrigin DEF UpToDate, Rehash
    <2> QED
        BY <2>1, <2>2 DEF UpToDate
<1> QED
    BY <1>1, <1>2, CredentialInvariance, PTL DEF CredentialSpec

\* A user who knows a version and secret goes on knowing them, or the version is old.
LEMMA KnowsKept ==
    ASSUME CredentialInv, UpToDate, [CredentialNext]_allVars,
           NEW u \in Users, NEW version \in Nat, NEW secret, Knows(u, version, secret)
    PROVE  Knows(u, version, secret)'
<1>1. /\ sessionVersion'[u] >= sessionVersion[u]
      /\ sessionVersion'[u] = sessionVersion[u] => password'[u].secret = password[u].secret
    BY PasswordStep DEF Guarded
<1>2. sessionVersion[u] \in Nat /\ sessionVersion'[u] \in Nat
    BY Types, NextCredential DEF CredentialInv, TablesInv, CredentialTypeOK
<1> QED
    BY <1>1, <1>2 DEF Knows

\* Sessions are only signed.
LEMMA SessionOrigin ==
    ASSUME [CredentialNext]_allVars, NEW x \in sessions', x \notin sessions
    PROVE  \E r \in Requests :
               /\ pc[r] = "signed"
               /\ x = [user |-> call[r].target, version |-> seen[r].version,
                       secret |-> call[r].secret]
<1>1. ASSUME NEW r \in Requests, Sign(r)
      PROVE  \E s \in Requests :
                 /\ pc[s] = "signed"
                 /\ x = [user |-> call[s].target, version |-> seen[s].version,
                         secret |-> call[s].secret]
    BY <1>1 DEF Sign, SignedVersion
<1>2. ASSUME NEW r \in Requests, CredentialStart(r) \/ MembershipStep(r) \/ CutOff(r)
      PROVE  FALSE
    BY <1>2 DEF CredentialStart, IssueReset, ConsumeReset, SignIn, MembershipStep, CutOff, Abort,
                resetVars, credentials
<1>3. ASSUME NEW r \in Requests, CredentialProceed(r)
      PROVE  Sign(r)
    <2>1. ASSUME \/ JudgeTarget(r) \/ LockTenant(r) \/ SelectOpen(r) \/ RevokeOpen(r)
                 \/ InsertReset(r) \/ ReadToken(r) \/ UseToken(r) \/ WritePassword(r)
                 \/ Rehash(r) \/ CommitIssued(r) \/ CommitConsumed(r)
          PROVE  FALSE
        BY <2>1 DEF JudgeTarget, LockTenant, SelectOpen, RevokeOpen, InsertReset, ReadToken,
                    UseToken, WritePassword, Rehash, CommitIssued, CommitConsumed, resetVars,
                    credentials
    <2>2. ASSUME RefuseReset(r) \/ DuplicateReset(r) \/ RefuseToken(r) \/ TokenGone(r)
          PROVE  FALSE
        BY <2>2 DEF RefuseReset, DuplicateReset, RefuseToken, TokenGone, Abort, credentials
    <2> QED
        BY <1>3, <2>1, <2>2 DEF CredentialProceed
<1>4. ASSUME UNCHANGED allVars \/ (Rest /\ UNCHANGED resetVars) \/ \E i \in DOMAIN resets : Expire(i)
      PROVE  FALSE
    BY <1>4 DEF Expire, allVars, resetVars, credentials
<1> QED
    BY <1>1, <1>2, <1>3, <1>4 DEF CredentialNext

\* A sign-in carries the version of the row it verified the password against.
LEMMA SessionStep ==
    ASSUME CredentialInv, UpToDate, SessionInv, [CredentialNext]_allVars
    PROVE  SessionInv'
<1>1. ASSUME NEW s \in Requests, pc'[s] = "signed"
      PROVE  Knows(call[s].target, seen[s].version, call[s].secret)'
    <2>1. CASE pc'[s] = pc[s] /\ call'[s] = call[s] /\ seen'[s] = seen[s]
        <3>1. Knows(call[s].target, seen[s].version, call[s].secret)
            BY <1>1, <2>1 DEF SessionInv
        <3>2. call[s].target \in Users
            BY <1>1, <2>1, TargetOf
        <3>3. seen[s].version \in Nat
            BY Types DEF Seen
        <3>4. /\ seen[s].version <= sessionVersion'[call[s].target]
              /\ seen[s].version = sessionVersion'[call[s].target] =>
                     call[s].secret = password'[call[s].target].secret
            BY <3>1, <3>2, <3>3, KnowsKept DEF Knows
        <3> QED
            BY <2>1, <3>4 DEF Knows
    <2>2. ASSUME Rehash(s)
          PROVE  FALSE
        BY <2>2 DEF Rehash, UpToDate
    <2>3. ASSUME NEW u \in Users, NEW secret \in Secrets, SignIn(s, u, secret)
          PROVE  Knows(call[s].target, seen[s].version, call[s].secret)'
        <3>1. /\ call'[s].target = u /\ call'[s].secret = secret
              /\ password[u].secret = secret
              /\ UNCHANGED <<sessionVersion, password>>
            BY <2>3, Types DEF SignIn, Begin, tables, resetVars, credentials
        <3>2. seen'[s].version = sessionVersion[u] /\ sessionVersion[u] \in Nat
            <4>1. seen' = [seen EXCEPT ![s].version = sessionVersion[u]] /\ seen[s] \in Seen
                BY <2>3, Types DEF SignIn
            <4>2. [seen[s] EXCEPT !.version = sessionVersion[u]].version = sessionVersion[u]
                BY <4>1 DEF Seen
            <4> QED
                BY <4>1, <4>2, Types
        <3> QED
            BY <3>1, <3>2 DEF Knows
    <2> QED
        BY <1>1, <2>1, <2>2, <2>3, SigningOrigin
<1>2. ASSUME NEW x \in sessions'
      PROVE  Knows(x.user, x.version, x.secret)'
    <2>1. CASE x \in sessions
        <3>1. x.user \in Users /\ x.version \in Nat /\ Knows(x.user, x.version, x.secret)
            BY <2>1, Types DEF SessionInv, Session
        <3> QED
            BY <3>1, KnowsKept
    <2>2. CASE x \notin sessions
        <3>1. PICK r \in Requests :
                  /\ pc[r] = "signed"
                  /\ x = [user |-> call[r].target, version |-> seen[r].version,
                          secret |-> call[r].secret]
            BY <2>2, SessionOrigin
        <3>2. Knows(call[r].target, seen[r].version, call[r].secret)
            BY <3>1 DEF SessionInv
        <3>3. call[r].target \in Users /\ seen[r].version \in Nat
            BY <3>1, TargetOf, Types DEF Seen
        <3>4. x.user = call[r].target /\ x.version = seen[r].version /\ x.secret = call[r].secret
            BY <3>1
        <3>5. x.user \in Users /\ x.version \in Nat /\ Knows(x.user, x.version, x.secret)
            BY <3>2, <3>3, <3>4 DEF Knows
        <3> QED
            BY <3>5, KnowsKept
    <2> QED
        BY <2>1, <2>2
<1> QED
    BY <1>1, <1>2 DEF SessionInv

\* The middleware honours only sessions that were opened with the password in force: a
\* sign-in that read the old password before a reset signs the version before it
\* (repository.py, authenticate and consume_password_reset).
THEOREM LiveSessionsKnow ==
    ASSUME TRUE \notin Outdated
    PROVE  CredentialSpec => []LiveSessionKnowsPassword
<1>1. CredentialInit => SessionInv
    BY DEF CredentialInit, Init, SessionInv
<1>2. CredentialInv /\ UpToDate /\ SessionInv /\ [CredentialNext]_allVars => SessionInv'
    BY SessionStep
<1>3. SessionInv => LiveSessionKnowsPassword
    BY DEF SessionInv, Knows, LiveSessionKnowsPassword
<1> QED
    BY <1>1, <1>2, <1>3, CredentialInvariance, AlwaysUpToDate, PTL DEF CredentialSpec

\* A password is replaced only by the commit that uses up an open token of that user
\* (repository.py, consume_password_reset: "exactly once").
THEOREM PasswordsNeedTokens ==
    ASSUME TRUE \notin Outdated
    PROVE  CredentialSpec => PasswordNeedsToken
<1> DEFINE Backed ==
        \A u \in Users :
            password'[u].secret # password[u].secret =>
                \E i \in OpenResets(u) : resets'[i].used /\ ~resets'[i].revoked
<1>1. ASSUME CredentialInv, UpToDate, [CredentialNext]_allVars
      PROVE  Backed
    BY <1>1, PasswordStep DEF Guarded
<1>2. CredentialInv /\ UpToDate /\ [CredentialNext]_allVars => [Backed]_allVars
    BY <1>1
<1> QED
    BY <1>2, CredentialInvariance, AlwaysUpToDate, PTL DEF CredentialSpec, PasswordNeedsToken

--------------------------------------------------------------------------------
(* The audit log and the version.                                              *)

\* Whether an entry records a change that ends sessions.
Counts(e) ==
    \/ e.type = "reset_consumed"
    \/ e.type \in {"role_changed", "removed"} /\ e.from # e.to

CountedOf(u) == {i \in DOMAIN audit : audit[i].subject = u /\ Counts(audit[i])}

\* An entry counts for its subject, if it counts at all.
LEMMA CountedOnce ==
    ASSUME audit \in Seq(CredentialAuditEntry), NEW e \in CredentialAuditEntry,
           audit' = Append(audit, e), NEW u \in Users
    PROVE  Cardinality(CountedOf(u)') =
               IF e.subject = u /\ Counts(e)
               THEN Cardinality(CountedOf(u)) + 1 ELSE Cardinality(CountedOf(u))
<1>1. /\ Len(audit) \in Nat /\ DOMAIN audit = 1..Len(audit)
      /\ DOMAIN audit' = 1..(Len(audit) + 1)
      /\ audit'[Len(audit) + 1] = e
      /\ \A i \in DOMAIN audit : audit'[i] = audit[i]
    BY Appended
<1>2. CountedOf(u)' = IF e.subject = u /\ Counts(e)
                      THEN CountedOf(u) \cup {Len(audit) + 1} ELSE CountedOf(u)
    BY <1>1 DEF CountedOf, Counts
<1>3. CountedOf(u) \in SUBSET (1..Len(audit))
    BY <1>1 DEF CountedOf
<1> QED
    BY <1>1, <1>2, <1>3, OneMore

\* An entry made by Event is well formed.
LEMMA EventEntry ==
    ASSUME NEW type \in {"reset_issued", "reset_consumed"}, NEW w \in Workspaces \cup {None},
           NEW actor \in Users, NEW subject \in Users
    PROVE  /\ Event(type, w, actor, subject) \in CredentialAuditEntry
           /\ Event(type, w, actor, subject).subject = subject
           /\ Counts(Event(type, w, actor, subject)) <=> type = "reset_consumed"
BY DEF Event, CredentialAuditEntry, Counts

\* What each step that writes the log adds to it and to the version of a user.
LEMMA VersionStep ==
    ASSUME CredentialInv, [CredentialNext]_allVars, NEW u \in Users,
           sessionVersion[u] = Cardinality(CountedOf(u))
    PROVE  sessionVersion'[u] = Cardinality(CountedOf(u)')
<1>t. /\ sessionVersion \in [Users -> Nat] /\ audit \in Seq(CredentialAuditEntry)
      /\ seen \in [Requests -> Seen]
    BY Types
<1>1. CASE UNCHANGED <<sessionVersion, audit>>
    BY <1>1 DEF CountedOf
<1>2. ASSUME NEW r \in Requests, CommitConsumed(r)
      PROVE  sessionVersion'[u] = Cardinality(CountedOf(u)')
    <2>1. /\ call[r].target \in Users
          /\ sessionVersion' = [sessionVersion EXCEPT ![call[r].target] =
                                   sessionVersion[call[r].target] + 1]
        BY <1>2, ConsumedEffect
    <2>2. audit' = Append(audit, Event("reset_consumed", None, call[r].target, call[r].target))
        BY <1>2 DEF CommitConsumed
    <2>3. /\ Event("reset_consumed", None, call[r].target, call[r].target) \in CredentialAuditEntry
          /\ Event("reset_consumed", None, call[r].target, call[r].target).subject = call[r].target
          /\ Counts(Event("reset_consumed", None, call[r].target, call[r].target))
        BY <2>1, EventEntry
    <2>4. sessionVersion'[u] = IF u = call[r].target THEN sessionVersion[u] + 1
                               ELSE sessionVersion[u]
        BY <1>t, <2>1
    <2> QED
        BY <1>t, <2>2, <2>3, <2>4, CountedOnce
<1>3. ASSUME NEW r \in Requests, CommitIssued(r)
      PROVE  sessionVersion'[u] = Cardinality(CountedOf(u)')
    <2>1. /\ pc[r] = "issued" /\ UNCHANGED sessionVersion
          /\ audit' = Append(audit, Event("reset_issued", call[r].ws, call[r].actor,
                                          call[r].target))
        BY <1>3 DEF CommitIssued
    <2>2. call[r] \in IssueResetCall
        BY <2>1 DEF CredentialInv, RequestInv, WellCalled, IssueLabels
    <2>3. call[r].ws \in Workspaces /\ call[r].actor \in Users /\ call[r].target \in Users
        BY <2>2 DEF IssueResetCall
    <2> QED
        BY <1>t, <2>1, <2>3, EventEntry, CountedOnce
<1>4. ASSUME NEW r \in Requests, Commit(r)
      PROVE  sessionVersion'[u] = Cardinality(CountedOf(u)')
    <2>1. /\ call[r].ws \in Workspaces /\ call[r].target \in Users
          /\ call[r].role \in Role \cup {None} /\ call[r].actor \in Users
          /\ sessionVersion' = IF Bumps(r)
                               THEN [sessionVersion EXCEPT ![call[r].target] =
                                         sessionVersion[call[r].target] + 1]
                               ELSE sessionVersion
        BY <1>4, MembershipCommitEffect
    <2>2. seen[r].target \in Role \cup {None}
        BY <1>t DEF Seen
    <2>3. audit' = Append(audit, CommitEntry(r))
        BY <1>4 DEF Commit, CommitEntry
    <2>4. /\ CommitEntry(r) \in CredentialAuditEntry
          /\ CommitEntry(r).subject = call[r].target
        BY <2>1, <2>2 DEF CommitEntry, CredentialAuditEntry
    <2>5. Counts(CommitEntry(r)) <=> Bumps(r)
        BY DEF Counts, CommitEntry, Bumps
    <2>6. sessionVersion'[u] = IF u = call[r].target /\ Bumps(r)
                               THEN sessionVersion[u] + 1 ELSE sessionVersion[u]
        BY <1>t, <2>1
    <2> QED
        BY <1>t, <2>3, <2>4, <2>5, <2>6, CountedOnce
<1>5. ASSUME NEW r \in Requests, NEW c \in CreateCall, CreateWorkspace(r, c)
      PROVE  sessionVersion'[u] = Cardinality(CountedOf(u)')
    <2>1. /\ CreateEntry(c) \in AuditEntry /\ audit' = Append(audit, CreateEntry(c))
          /\ UNCHANGED sessionVersion
        BY <1>5, CreateEntryType
    <2>2. CreateEntry(c) \in CredentialAuditEntry
        BY <2>1 DEF AuditEntry, CredentialAuditEntry
    <2>3. ~Counts(CreateEntry(c))
        BY DEF Counts, CreateEntry
    <2> QED
        BY <1>t, <2>1, <2>2, <2>3, CountedOnce
<1>6. ASSUME NEW r \in Requests, Rehash(r)
      PROVE  UNCHANGED <<sessionVersion, audit>>
    BY <1>6 DEF Rehash, tables
<1>7. ASSUME NEW i \in DOMAIN resets, Expire(i)
      PROVE  UNCHANGED <<sessionVersion, audit>>
    BY <1>7 DEF Expire, vars, tables
<1> QED
    BY <1>1, <1>2, <1>3, <1>4, <1>5, <1>6, <1>7, WritingSteps

\* session_version is the number of resets and changes of role the log records: the
\* increments of consume_password_reset, which locks no tenant, and those of change_role
\* and remove_membership are never lost in one another.
THEOREM ResetsAndRolesCounted == CredentialSpec => []VersionCountsResetsAndRoles
<1> DEFINE Counted == \A u \in Users : sessionVersion[u] = Cardinality(CountedOf(u))
<1>1. CredentialInit => Counted
    <2> SUFFICES ASSUME CredentialInit, NEW u \in Users
                 PROVE  sessionVersion[u] = Cardinality(CountedOf(u))
        OBVIOUS
    <2>1. CountedOf(u) = {} /\ sessionVersion[u] = 0
        BY DEF CredentialInit, Init, CountedOf
    <2> QED
        BY <2>1, FS_EmptySet
<1>2. CredentialInv /\ Counted /\ [CredentialNext]_allVars => Counted'
    BY VersionStep
<1>3. Counted => VersionCountsResetsAndRoles
    BY DEF VersionCountsResetsAndRoles, CountedOf, Counts
<1> QED
    BY <1>1, <1>2, <1>3, CredentialInvariance, PTL DEF CredentialSpec

--------------------------------------------------------------------------------
(* The refinement.                                                             *)

\* A membership commit is a SetRole of the contract, or changes nothing it speaks of.
LEMMA MembershipCommitContract ==
    ASSUME CredentialInv, NEW r \in Requests, Commit(r), UNCHANGED resetVars
    PROVE  Contract!Next \/ UNCHANGED Contract!tenancy
<1> DEFINE w == call[r].ws
           u == call[r].target
           role == call[r].role
<1>1. /\ w \in workspaces /\ w \in Workspaces /\ u \in Users /\ role \in Role \cup {None}
      /\ Bumps(r) <=> members[w][u] # role
      /\ UNCHANGED workspaces
    BY MembershipCommitEffect
<1>2. /\ members' = [members EXCEPT ![w][u] = role]
      /\ sessionVersion' = IF Bumps(r)
                           THEN [sessionVersion EXCEPT ![u] = sessionVersion[u] + 1]
                           ELSE sessionVersion
    BY MembershipCommitEffect
<1>3. CASE Bumps(r)
    <2>1. Contract!EndSessions(u)
        BY <1>2, <1>3 DEF Contract!EndSessions
    <2>2. \E owner \in Users : members'[w][owner] = "owner"
        BY <1>1, MembershipCommitInv DEF CredentialInv, TablesInv, OwnerExists
    <2>3. Contract!SetRole(w, u, role)
        BY <1>1, <1>2, <1>3, <2>1, <2>2 DEF Contract!SetRole
    <2> QED
        BY <1>1, <2>3, SameRoles DEF Contract!Next
<1>4. CASE ~Bumps(r)
    <2>1. members \in [Workspaces -> [Users -> Role \cup {None}]]
        BY DEF CredentialInv, TablesInv, CredentialTypeOK
    <2>2. members' = members
        BY <1>1, <1>2, <1>4, <2>1
    <2> QED
        BY <1>1, <1>2, <1>4, <2>2 DEF Contract!tenancy
<1> QED
    BY <1>3, <1>4

\* A reset, seen by the tenants, ends the sessions of its user and does nothing else.
LEMMA ResetContract ==
    ASSUME CredentialInv, NEW r \in Requests, CommitConsumed(r)
    PROVE  Contract!Next
<1>1. /\ call[r].target \in Users
      /\ sessionVersion' = [sessionVersion EXCEPT ![call[r].target] =
                               sessionVersion[call[r].target] + 1]
    BY ConsumedEffect
<1>2. UNCHANGED <<workspaces, members>>
    BY DEF CommitConsumed
<1>3. Contract!ResetPassword(call[r].target)
    BY <1>1, <1>2 DEF Contract!ResetPassword, Contract!EndSessions
<1> QED
    BY <1>1, <1>3 DEF Contract!Next

\* Resets, sign-ins and the membership handlers together implement the contract.
THEOREM CredentialRefinement == CredentialSpec => ImplementsTenancy
<1>1. ASSUME CredentialInv, [CredentialNext]_allVars
      PROVE  [Contract!Next]_Contract!tenancy
    <2>1. ASSUME NEW r \in Requests, CommitIssued(r) \/ Rehash(r)
          PROVE  UNCHANGED Contract!tenancy
        BY <2>1 DEF CommitIssued, Rehash, tables, Contract!tenancy
    <2>2. ASSUME NEW r \in Requests, NEW c \in CreateCall, CreateWorkspace(r, c)
          PROVE  Contract!Next
        <3>1. c.ws \in Workspaces /\ c.actor \in Users
            BY DEF CreateCall
        <3>2. Contract!CreateWorkspace(c.ws, c.actor)
            BY <2>2 DEF CreateWorkspace, Contract!CreateWorkspace
        <3> QED
            BY <3>1, <3>2 DEF Contract!Next
    <2>3. ASSUME NEW i \in DOMAIN resets, Expire(i)
          PROVE  UNCHANGED Contract!tenancy
        BY <2>3 DEF Expire, vars, tables, Contract!tenancy
    <2>4. CASE UNCHANGED <<workspaces, members, sessionVersion, audit, password, resets>>
        BY <2>4 DEF Contract!tenancy
    <2> QED
        BY <1>1, <2>1, <2>2, <2>3, <2>4, WritingSteps, ResetContract, MembershipCommitContract
<1>2. CredentialInv /\ [CredentialNext]_allVars => [Contract!Next]_Contract!tenancy
    BY <1>1
<1>3. CredentialInit => Contract!Init
    BY InitContract DEF CredentialInit
<1> QED
    BY <1>2, <1>3, CredentialInvariance, PTL DEF CredentialSpec, ImplementsTenancy, Contract!Spec
================================================================================
