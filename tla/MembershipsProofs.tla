--------------------------- MODULE MembershipsProofs ---------------------------
(* Machine-checked proofs about Memberships, for any users, tenants, requests, *)
(* operations and bound on the calls.                                          *)
EXTENDS Memberships, FiniteSetTheorems, TLAPS

--------------------------------------------------------------------------------
(* Lemmas about the operators.                                                 *)

\* Releasing gives up the request's own locks and no other.
LEMMA ReleasedByType ==
    ASSUME NEW S, NEW lock \in [S -> Requests \cup {None}], NEW r \in Requests
    PROVE  /\ ReleasedBy(lock, r) \in [S -> Requests \cup {None}]
           /\ \A x \in S : lock[x] # r => ReleasedBy(lock, r)[x] = lock[x]
BY DEF ReleasedBy

\* A tenant with more than one owner has an owner besides any given user.
LEMMA AnotherOwner ==
    ASSUME NEW w \in Workspaces, NEW t \in Users, ~LastOwner(w)
    PROVE  \E u \in Users \ {t} : members[w][u] = "owner"
<1>1. IsFiniteSet(Owners(w))
    BY UsersAssumption, FS_Subset DEF Owners
<1>2. SUFFICES ASSUME \A u \in Users \ {t} : members[w][u] # "owner"
               PROVE  FALSE
    OBVIOUS
<1>3. Owners(w) \subseteq {t}
    BY <1>2 DEF Owners
<1>4. IsFiniteSet({t}) /\ Cardinality({t}) = 1
    BY FS_Singleton
<1>5. Cardinality(Owners(w)) <= 1
    BY <1>3, <1>4, FS_Subset
<1> QED
    BY <1>5 DEF LastOwner

\* Every field of a call.
LEMMA CallFields ==
    ASSUME NEW c \in Call
    PROVE  /\ c.ws \in Workspaces
           /\ c.actor \in Users
           /\ c.target \in Users
           /\ c.role \in Role \cup {None}
           /\ c.op = "change_role" => c.role \in Role
           /\ c.op = "remove_membership" => c.role = None
           /\ c.op \in {"change_role", "remove_membership", "create_workspace"}
BY DEF Call, ChangeRoleCall, RemoveCall, CreateCall, Role

--------------------------------------------------------------------------------
(* Type correctness.                                                           *)

\* A call that ends leaves the request variables well typed.
LEMMA FinishType ==
    ASSUME TypeOK, NEW r \in Requests, Finish(r)
    PROVE  /\ pc' \in [Requests -> Labels]
           /\ call' \in [Requests -> Call \cup {None}]
           /\ seen' \in [Requests -> Seen]
BY DEF TypeOK, Finish, Goto, Labels, Seen, Unread

\* So does a transaction that is rolled back.
LEMMA RollbackType ==
    ASSUME TypeOK, NEW r \in Requests, Rollback(r)
    PROVE  TypeOK'
<1>1. workspaceLock' \in [Workspaces -> Requests \cup {None}]
    BY ReleasedByType DEF TypeOK, Rollback, ReleaseLocks
<1>2. userLock' \in [Users -> Requests \cup {None}]
    BY ReleasedByType DEF TypeOK, Rollback, ReleaseLocks
<1>3. Finish(r) /\ UNCHANGED tables
    BY DEF Rollback
<1> QED
    BY <1>1, <1>2, <1>3, FinishType DEF TypeOK, tables

\* The calls that have been authorised carry the fields their handlers use.
LEMMA StartType ==
    ASSUME TypeOK, NEW r \in Requests, Start(r)
    PROVE  TypeOK'
<1>1. ASSUME NEW c \in ChangeRoleCall \cup RemoveCall, Authorize(r, c)
      PROVE  TypeOK'
    <2>1. c \in Call /\ c.ws \in Workspaces /\ c.actor \in Users
        BY <1>1, CallFields DEF Call
    <2>2. [seen[r] EXCEPT !.actor = members[c.ws][c.actor]] \in Seen
        <3>1. members[c.ws][c.actor] \in Role \cup {None}
            BY <2>1 DEF TypeOK
        <3> QED
            BY <3>1 DEF TypeOK, Seen
    <2> QED
        BY <1>1, <2>1, <2>2 DEF Authorize, TypeOK, Goto, Labels, tables, locks
<1>2. ASSUME NEW c \in CreateCall, CreateWorkspace(r, c)
      PROVE  TypeOK'
    <2>1. c \in Call /\ c.ws \in Workspaces /\ c.actor \in Users
        BY <1>2, CallFields DEF Call
    <2>2. audit' \in Seq(AuditEntry)
        <3>1. [type |-> "created", ws |-> c.ws, actor |-> c.actor,
               subject |-> c.actor, from |-> None, to |-> "owner"] \in AuditEntry
            BY <2>1 DEF AuditEntry, Role
        <3> QED
            BY <1>2, <3>1 DEF CreateWorkspace, TypeOK
    <2>3. members' \in [Workspaces -> [Users -> Role \cup {None}]]
        BY <1>2, <2>1 DEF CreateWorkspace, TypeOK, Role
    <2>4. workspaces' \in SUBSET Workspaces
        BY <1>2, <2>1 DEF CreateWorkspace, TypeOK
    <2> QED
        BY <1>2, <2>1, <2>2, <2>3, <2>4
        DEF CreateWorkspace, TypeOK, Goto, Labels, locks
<1> QED
    BY <1>1, <1>2 DEF Start

\* A commit writes rows and an audit entry of the right kinds.
LEMMA CommitType ==
    ASSUME TypeOK, CallPresent, NEW r \in Requests, Commit(r)
    PROVE  TypeOK'
<1> DEFINE c == call[r]
           entry == [type |-> IF c.op = "change_role" THEN "role_changed" ELSE "removed",
                     ws |-> c.ws, actor |-> c.actor, subject |-> c.target,
                     from |-> seen[r].target, to |-> c.role]
<1>1. c \in Call
    BY DEF CallPresent, Commit
<1>2. /\ c.ws \in Workspaces /\ c.actor \in Users /\ c.target \in Users
      /\ c.role \in Role \cup {None}
    BY <1>1, CallFields
<1>3. seen[r].target \in Role \cup {None} /\ seen[r].version \in Nat
    BY DEF TypeOK, Seen
<1>4. audit' \in Seq(AuditEntry)
    <2>1. entry \in AuditEntry
        BY <1>2, <1>3 DEF AuditEntry
    <2> QED
        BY <2>1 DEF Commit, TypeOK
<1>5. members' \in [Workspaces -> [Users -> Role \cup {None}]]
    BY <1>2 DEF Commit, TypeOK
<1>6. sessionVersion' \in [Users -> Nat]
    BY <1>2, <1>3 DEF Commit, TypeOK
<1>7. /\ workspaceLock' \in [Workspaces -> Requests \cup {None}]
      /\ userLock' \in [Users -> Requests \cup {None}]
    BY ReleasedByType DEF TypeOK, Commit, ReleaseLocks
<1>8. /\ pc' \in [Requests -> Labels]
      /\ call' \in [Requests -> Call \cup {None}]
      /\ seen' \in [Requests -> Seen]
    <2>1. CASE c.op = "change_role"
        BY <2>1 DEF Commit, TypeOK, Goto, Labels
    <2>2. CASE c.op # "change_role"
        BY <2>2, FinishType DEF Commit
    <2> QED
        BY <2>1, <2>2
<1> QED
    BY <1>4, <1>5, <1>6, <1>7, <1>8 DEF Commit, TypeOK

\* Every step of a started call keeps the types.
LEMMA ProceedType ==
    ASSUME TypeOK, CallPresent, NEW r \in Requests, Proceed(r)
    PROVE  TypeOK'
<1> DEFINE c == call[r]
<1>1. ASSUME pc[r] # "idle"
      PROVE  c.ws \in Workspaces /\ c.target \in Users
    BY <1>1, CallFields DEF CallPresent
<1>2. CASE LockWorkspace(r)
    BY <1>1, <1>2 DEF LockWorkspace, TypeOK, Goto, Labels, tables
<1>3. CASE ReadTarget(r)
    <2>1. members[c.ws][c.target] \in Role \cup {None}
        BY <1>1, <1>3 DEF ReadTarget, TypeOK
    <2>2. [seen[r] EXCEPT !.target = members[c.ws][c.target]] \in Seen
        BY <2>1 DEF TypeOK, Seen
    <2> QED
        BY <1>3, <2>2 DEF ReadTarget, TypeOK, Goto, Labels, tables, locks
<1>4. CASE CountOwners(r) \/ SkipUser(r)
    BY <1>4 DEF CountOwners, SkipUser, TypeOK, Goto, Labels, tables, locks
<1>5. CASE LockUser(r)
    <2>1. NextVersion(c.target) \in Nat
        BY <1>1, <1>5 DEF LockUser, NextVersion, TypeOK
    <2>2. [seen[r] EXCEPT !.version = NextVersion(c.target)] \in Seen
        BY <2>1 DEF TypeOK, Seen
    <2> QED
        BY <1>1, <1>5, <2>2 DEF LockUser, TypeOK, Goto, Labels, tables
<1>6. CASE Commit(r)
    BY <1>6, CommitType
<1>7. CASE RefuseTarget(r) \/ RefuseLastOwner(r)
    BY <1>7, RollbackType DEF RefuseTarget, RefuseLastOwner
<1>8. CASE ReadBack(r)
    BY <1>8, FinishType DEF ReadBack, TypeOK, tables, locks
<1> QED
    BY <1>2, <1>3, <1>4, <1>5, <1>6, <1>7, <1>8 DEF Proceed

--------------------------------------------------------------------------------
(* The inductive invariant.                                                    *)

\* Two requests inside a transaction on one tenant are the same request.
LEMMA Exclusive ==
    ASSUME LocksHeld, NEW r \in Requests, NEW s \in Requests,
           pc[r] \in InTransaction, pc[s] \in InTransaction, call[r].ws = call[s].ws
    PROVE  r = s
BY DEF LocksHeld

\* The invariant holds before any call.
LEMMA InitInv == Init => IInv
<1> SUFFICES ASSUME Init PROVE IInv
    OBVIOUS
<1>1. TypeOK
    <2>1. Unread \in Seen
        BY DEF Unread, Seen
    <2> QED
        BY <2>1 DEF Init, TypeOK, Labels
<1>2. OwnerExists
    BY DEF Init, OwnerExists, Owners
<1> QED
    BY <1>1, <1>2 DEF Init, IInv, CallPresent, LocksHeld, InTransaction, TargetCurrent,
                      OwnerCounted, VersionCurrent

\* A refused or abandoned transaction disturbs nobody else.
LEMMA RollbackInv ==
    ASSUME IInv, NEW r \in Requests, Rollback(r)
    PROVE  IInv'
<1> USE DEF IInv
<1>1. TypeOK'
    BY RollbackType
<1>2. /\ pc'[r] = "idle"
      /\ \A s \in Requests : s # r =>
             pc'[s] = pc[s] /\ call'[s] = call[s] /\ seen'[s] = seen[s]
      /\ UNCHANGED tables
    BY DEF Rollback, Finish, Goto, TypeOK
<1>3. /\ \A w \in Workspaces : workspaceLock[w] # r => workspaceLock'[w] = workspaceLock[w]
      /\ \A u \in Users : userLock[u] # r => userLock'[u] = userLock[u]
    BY DEF Rollback, ReleaseLocks, ReleasedBy, TypeOK
<1>4. \A s \in Requests : pc[s] # "idle" =>
          call[s].ws \in Workspaces /\ call[s].target \in Users
    BY CallFields DEF CallPresent
<1>5. CallPresent'
    BY <1>2 DEF CallPresent, tables
<1>6. LocksHeld'
    BY <1>2, <1>3, <1>4 DEF LocksHeld, InTransaction
<1>7. TargetCurrent'
    BY <1>2 DEF TargetCurrent, tables
<1>8. OwnerCounted'
    BY <1>2 DEF OwnerCounted, DropsOwner, tables
<1>9. VersionCurrent'
    BY <1>2, <1>3, <1>4 DEF VersionCurrent, Bumps, tables
<1>10. OwnerExists'
    BY <1>2 DEF OwnerExists, tables
<1> QED
    BY <1>1, <1>5, <1>6, <1>7, <1>8, <1>9, <1>10

\* An authorised call holds nothing yet.
LEMMA AuthorizeInv ==
    ASSUME IInv, NEW r \in Requests, NEW c \in ChangeRoleCall \cup RemoveCall,
           Authorize(r, c)
    PROVE  IInv'
<1> USE DEF IInv
<1>1. TypeOK'
    BY StartType DEF Start
<1>2. /\ pc'[r] = "lock" /\ call'[r] = c
      /\ \A s \in Requests : s # r =>
             pc'[s] = pc[s] /\ call'[s] = call[s] /\ seen'[s] = seen[s]
      /\ UNCHANGED <<tables, locks>>
    BY DEF Authorize, Goto, TypeOK
<1>3. c \in Call /\ c.ws \in workspaces /\ c.op # "create_workspace"
    BY DEF Authorize, Call, ChangeRoleCall, RemoveCall
<1>4. CallPresent'
    BY <1>2, <1>3 DEF CallPresent, tables
<1>5. LocksHeld'
    BY <1>2 DEF LocksHeld, InTransaction, locks
<1>6. TargetCurrent'
    BY <1>2 DEF TargetCurrent, tables
<1>7. OwnerCounted'
    BY <1>2 DEF OwnerCounted, DropsOwner, tables
<1>8. VersionCurrent'
    BY <1>2 DEF VersionCurrent, Bumps, tables, locks
<1>9. OwnerExists'
    BY <1>2 DEF OwnerExists, tables
<1> QED
    BY <1>1, <1>4, <1>5, <1>6, <1>7, <1>8, <1>9

\* A new tenant is nobody else's and starts with an owner.
LEMMA CreateWorkspaceInv ==
    ASSUME IInv, NEW r \in Requests, NEW c \in CreateCall, CreateWorkspace(r, c)
    PROVE  IInv'
<1> USE DEF IInv
<1>1. TypeOK'
    BY StartType DEF Start
<1>2. /\ pc'[r] = "readback" /\ call'[r] = c
      /\ \A s \in Requests : s # r => pc'[s] = pc[s] /\ call'[s] = call[s]
      /\ UNCHANGED <<sessionVersion, locks, seen>>
      /\ workspaces' = workspaces \cup {c.ws}
    BY DEF CreateWorkspace, Goto, TypeOK
<1>3. c \in Call /\ c.ws \in Workspaces /\ c.actor \in Users /\ c.ws \notin workspaces
    BY CallFields DEF CreateWorkspace, Call
<1>4. \A v \in Workspaces, t \in Users :
          members'[v][t] = IF v = c.ws /\ t = c.actor THEN "owner" ELSE members[v][t]
    <2>1. members' = [members EXCEPT ![c.ws][c.actor] = "owner"]
        BY DEF CreateWorkspace
    <2>2. TypeOK
        OBVIOUS
    <2> QED
        BY <1>3, <2>1, <2>2 DEF TypeOK
<1>5. \A s \in Requests : pc[s] # "idle" =>
          /\ call[s].ws \in workspaces /\ call[s].ws \in Workspaces
          /\ call[s].target \in Users
    BY CallFields DEF CallPresent
<1>6. CallPresent'
    BY <1>2, <1>3 DEF CallPresent
<1>7. LocksHeld'
    BY <1>2 DEF LocksHeld, InTransaction, locks
<1>8. TargetCurrent'
    BY <1>2, <1>3, <1>4, <1>5 DEF TargetCurrent
<1>9. OwnerCounted'
    BY <1>2, <1>3, <1>4, <1>5 DEF OwnerCounted, DropsOwner
<1>10. VersionCurrent'
    BY <1>2 DEF VersionCurrent, Bumps, locks
<1>11. OwnerExists'
    <2> SUFFICES ASSUME NEW w \in workspaces'
                 PROVE  \E u \in Users : members'[w][u] = "owner"
        BY DEF OwnerExists
    <2>1. CASE w = c.ws
        BY <2>1, <1>3, <1>4
    <2>2. CASE w # c.ws
        <3>1. w \in workspaces /\ w \in Workspaces
            BY <2>2, <1>2 DEF TypeOK
        <3>2. PICK u \in Users : members[w][u] = "owner"
            BY <3>1 DEF OwnerExists
        <3> QED
            BY <2>2, <3>1, <3>2, <1>4
    <2> QED
        BY <2>1, <2>2
<1> QED
    BY <1>1, <1>6, <1>7, <1>8, <1>9, <1>10, <1>11

\* The steps that touch neither a table nor a lock, and move one request on.
LEMMA LocalInv ==
    ASSUME IInv, NEW r \in Requests,
           ReadTarget(r) \/ CountOwners(r) \/ SkipUser(r)
    PROVE  IInv'
<1> USE DEF IInv
<1>1. TypeOK'
    BY ProceedType DEF Proceed
<1>2. /\ \A s \in Requests : s # r => pc'[s] = pc[s] /\ seen'[s] = seen[s]
      /\ pc[r] \in {"read", "count", "write"}
      /\ pc'[r] \in {"count", "write", "commit"}
      /\ UNCHANGED <<tables, locks, call>>
    BY DEF ReadTarget, CountOwners, SkipUser, Goto, TypeOK
<1>3. /\ call[r] \in Call /\ call[r].ws \in Workspaces /\ call[r].target \in Users
      /\ call[r].op # "create_workspace"
    BY <1>2, CallFields DEF CallPresent
<1>4. CallPresent'
    BY <1>2 DEF CallPresent, tables
<1>5. LocksHeld'
    BY <1>2 DEF LocksHeld, InTransaction, locks
<1>6. TargetCurrent'
    <2>1. CASE ReadTarget(r)
        <3>1. /\ seen'[r].target = members[call[r].ws][call[r].target]
              /\ seen'[r].actor = seen[r].actor
            BY <2>1 DEF ReadTarget, TypeOK, Seen
        <3> QED
            BY <1>2, <2>1, <3>1 DEF TargetCurrent, ReadTarget, tables
    <2>2. CASE CountOwners(r) \/ SkipUser(r)
        BY <1>2, <2>2 DEF TargetCurrent, CountOwners, SkipUser, tables
    <2> QED
        BY <2>1, <2>2
<1>7. OwnerCounted'
    <2>1. CASE ReadTarget(r)
        <3>1. seen'[r].target = members[call[r].ws][call[r].target]
            BY <2>1 DEF ReadTarget, TypeOK, Seen
        <3>2. ~(pc'[r] \in {"write", "commit"} /\ DropsOwner(r)')
            <4>1. pc'[r] = IF seen'[r].target = "owner" /\ call[r].role # "owner"
                           THEN "count" ELSE "write"
                BY <2>1, <3>1 DEF ReadTarget, Goto, TypeOK
            <4> QED
                BY <1>2, <4>1 DEF DropsOwner
        <3> QED
            BY <1>2, <3>2 DEF OwnerCounted, DropsOwner, tables
    <2>2. CASE CountOwners(r)
        <3>1. \E u \in Users \ {call[r].target} : members[call[r].ws][u] = "owner"
            BY <1>3, <2>2, AnotherOwner DEF CountOwners
        <3> QED
            BY <1>2, <2>2, <3>1 DEF CountOwners, OwnerCounted, DropsOwner, tables
    <2>3. CASE SkipUser(r)
        BY <1>2, <2>3 DEF SkipUser, OwnerCounted, DropsOwner, tables
    <2> QED
        BY <2>1, <2>2, <2>3
<1>8. VersionCurrent'
    <2>1. pc'[r] = "commit" => ~Bumps(r)'
        BY <1>2 DEF ReadTarget, CountOwners, SkipUser, Goto, TypeOK, Bumps
    <2> QED
        BY <1>2, <2>1 DEF VersionCurrent, Bumps, tables, locks
<1>9. OwnerExists'
    BY <1>2 DEF OwnerExists, tables
<1> QED
    BY <1>1, <1>4, <1>5, <1>6, <1>7, <1>8, <1>9

\* The row lock is granted to one request at a time.
LEMMA LockWorkspaceInv ==
    ASSUME IInv, NEW r \in Requests, LockWorkspace(r)
    PROVE  IInv'
<1> USE DEF IInv
<1>1. TypeOK'
    BY ProceedType DEF Proceed
<1>2. /\ \A s \in Requests : s # r => pc'[s] = pc[s]
      /\ pc[r] = "lock" /\ pc'[r] = "read"
      /\ UNCHANGED <<tables, userLock, call, seen>>
    BY DEF LockWorkspace, Goto, TypeOK
<1>3. CallPresent'
    BY <1>2 DEF CallPresent, tables
<1>4. LocksHeld'
    <2> SUFFICES ASSUME NEW s \in Requests, pc'[s] \in InTransaction
                 PROVE  workspaceLock'[call[s].ws] = s
        BY <1>2 DEF LocksHeld
    <2>1. \A q \in Requests : pc[q] # "idle" => call[q].ws \in Workspaces
        BY CallFields DEF CallPresent
    <2>2. CASE s = r
        BY <1>2, <2>1, <2>2 DEF LockWorkspace, TypeOK
    <2>3. CASE s # r
        <3>1. pc[s] \in InTransaction /\ workspaceLock[call[s].ws] = s
            BY <1>2, <2>3 DEF LocksHeld
        <3>2. call[s].ws # call[r].ws
            BY <3>1, NoneAssumption DEF LockWorkspace
        <3> QED
            BY <2>1, <3>1, <3>2 DEF LockWorkspace, TypeOK, InTransaction
    <2> QED
        BY <2>2, <2>3
<1>5. TargetCurrent'
    BY <1>2 DEF TargetCurrent, tables
<1>6. OwnerCounted'
    BY <1>2 DEF OwnerCounted, DropsOwner, tables
<1>7. VersionCurrent'
    BY <1>2 DEF VersionCurrent, Bumps, tables
<1>8. OwnerExists'
    BY <1>2 DEF OwnerExists, tables
<1> QED
    BY <1>1, <1>3, <1>4, <1>5, <1>6, <1>7, <1>8

\* The next session_version is computed by the only writer of the row.
LEMMA LockUserInv ==
    ASSUME IInv, NEW r \in Requests, LockUser(r)
    PROVE  IInv'
<1> USE DEF IInv
<1>1. TypeOK'
    BY ProceedType DEF Proceed
<1>2. /\ \A s \in Requests : s # r => pc'[s] = pc[s] /\ seen'[s] = seen[s]
      /\ pc[r] = "write" /\ pc'[r] = "commit"
      /\ UNCHANGED <<tables, workspaceLock, call>>
    BY DEF LockUser, Goto, TypeOK
<1>3. /\ seen'[r].target = seen[r].target /\ seen'[r].actor = seen[r].actor
      /\ seen'[r].version = sessionVersion[call[r].target] + 1
    BY DEF LockUser, TypeOK, Seen, NextVersion
<1>4. CallPresent'
    BY <1>2 DEF CallPresent, tables
<1>5. LocksHeld'
    BY <1>2 DEF LocksHeld, InTransaction
<1>6. TargetCurrent'
    BY <1>2, <1>3 DEF TargetCurrent, tables
<1>7. OwnerCounted'
    BY <1>2, <1>3 DEF OwnerCounted, DropsOwner, tables
<1>8. VersionCurrent'
    <2> SUFFICES ASSUME NEW s \in Requests, pc'[s] = "commit", Bumps(s)'
                 PROVE  /\ userLock'[call[s].target] = s
                        /\ seen'[s].version = sessionVersion[call[s].target] + 1
        BY <1>2 DEF VersionCurrent, tables
    <2>1. \A q \in Requests : pc[q] # "idle" => call[q].target \in Users
        BY CallFields DEF CallPresent
    <2>2. CASE s = r
        BY <1>2, <1>3, <2>1, <2>2 DEF LockUser, TypeOK
    <2>3. CASE s # r
        <3>1. /\ userLock[call[s].target] = s
              /\ seen[s].version = sessionVersion[call[s].target] + 1
            BY <1>2, <2>3 DEF VersionCurrent, Bumps
        <3>2. call[s].target # call[r].target
            BY <3>1, NoneAssumption DEF LockUser
        <3> QED
            BY <1>2, <2>1, <2>3, <3>1, <3>2 DEF LockUser, TypeOK
    <2> QED
        BY <2>2, <2>3
<1>9. OwnerExists'
    BY <1>2 DEF OwnerExists, tables
<1> QED
    BY <1>1, <1>4, <1>5, <1>6, <1>7, <1>8, <1>9

\* Reading back changes no table.
LEMMA ReadBackInv ==
    ASSUME IInv, NEW r \in Requests, ReadBack(r)
    PROVE  IInv'
<1> USE DEF IInv
<1>1. TypeOK'
    BY ProceedType DEF Proceed
<1>2. /\ pc'[r] = "idle"
      /\ \A s \in Requests : s # r =>
             pc'[s] = pc[s] /\ call'[s] = call[s] /\ seen'[s] = seen[s]
      /\ UNCHANGED <<tables, locks>>
    BY DEF ReadBack, Finish, Goto, TypeOK
<1>3. CallPresent' /\ LocksHeld'
    BY <1>2 DEF CallPresent, LocksHeld, InTransaction, tables, locks
<1>4. TargetCurrent' /\ OwnerCounted'
    BY <1>2 DEF TargetCurrent, OwnerCounted, DropsOwner, tables
<1>5. VersionCurrent' /\ OwnerExists'
    BY <1>2 DEF VersionCurrent, Bumps, OwnerExists, tables, locks
<1> QED
    BY <1>1, <1>3, <1>4, <1>5

\* What a commit writes, and that it concerns its own tenant and user only.
LEMMA CommitEffect ==
    ASSUME IInv, NEW r \in Requests, Commit(r)
    PROVE  /\ call[r].ws \in workspaces /\ call[r].ws \in Workspaces
           /\ call[r].target \in Users
           /\ \A v \in Workspaces, t \in Users :
                  members'[v][t] = IF v = call[r].ws /\ t = call[r].target
                                   THEN call[r].role ELSE members[v][t]
           /\ \A t \in Users :
                  sessionVersion'[t] = IF t = call[r].target /\ Bumps(r)
                                       THEN sessionVersion[t] + 1 ELSE sessionVersion[t]
           /\ \A s \in Requests \ {r} :
                  /\ pc'[s] = pc[s] /\ call'[s] = call[s] /\ seen'[s] = seen[s]
                  /\ pc[s] \in InTransaction => call[s].ws # call[r].ws
           /\ pc'[r] \in {"readback", "idle"}
           /\ pc'[r] = "readback" => call'[r] = call[r]
           /\ UNCHANGED workspaces
<1> USE DEF IInv
<1>1. /\ call[r] \in Call /\ call[r].ws \in workspaces /\ call[r].ws \in Workspaces
      /\ call[r].target \in Users
    BY CallFields DEF Commit, CallPresent
<1>2. \A v \in Workspaces, t \in Users :
          members'[v][t] = IF v = call[r].ws /\ t = call[r].target
                           THEN call[r].role ELSE members[v][t]
    BY <1>1 DEF Commit, TypeOK
<1>3. \A t \in Users :
          sessionVersion'[t] = IF t = call[r].target /\ Bumps(r)
                               THEN sessionVersion[t] + 1 ELSE sessionVersion[t]
    <2>1. Bumps(r) => seen[r].version = sessionVersion[call[r].target] + 1
        BY DEF Commit, VersionCurrent
    <2> QED
        BY <1>1, <2>1 DEF Commit, TypeOK
<1>4. \A s \in Requests \ {r} :
          pc'[s] = pc[s] /\ call'[s] = call[s] /\ seen'[s] = seen[s]
    BY DEF Commit, Finish, Goto, TypeOK
<1>5. \A s \in Requests \ {r} : pc[s] \in InTransaction => call[s].ws # call[r].ws
    BY Exclusive DEF Commit, InTransaction
<1>6. /\ pc'[r] \in {"readback", "idle"}
      /\ pc'[r] = "readback" => call'[r] = call[r]
      /\ UNCHANGED workspaces
    BY DEF Commit, Finish, Goto, TypeOK
<1> QED
    BY <1>1, <1>2, <1>3, <1>4, <1>5, <1>6

\* The commit: the count taken before it still holds when it writes.
LEMMA CommitInv ==
    ASSUME IInv, NEW r \in Requests, Commit(r)
    PROVE  IInv'
<1> USE DEF IInv
<1>1. TypeOK'
    BY CommitType
<1>2. \A s \in Requests : pc[s] # "idle" =>
          call[s].ws \in Workspaces /\ call[s].target \in Users
    BY CallFields DEF CallPresent
<1>3. /\ \A w \in Workspaces : workspaceLock[w] # r => workspaceLock'[w] = workspaceLock[w]
      /\ \A u \in Users : userLock[u] # r => userLock'[u] = userLock[u]
    BY DEF Commit, ReleaseLocks, ReleasedBy, TypeOK
<1>4. CallPresent'
    BY CommitEffect DEF CallPresent, Commit
<1>5. LocksHeld'
    BY CommitEffect, <1>2, <1>3 DEF LocksHeld, InTransaction
<1>6. TargetCurrent'
    BY CommitEffect, <1>2 DEF TargetCurrent, InTransaction
<1>7. OwnerCounted'
    <2> SUFFICES ASSUME NEW s \in Requests,
                        pc'[s] \in {"write", "commit"}, DropsOwner(s)'
                 PROVE  \E u \in Users \ {call'[s].target} :
                            members'[call'[s].ws][u] = "owner"
        BY DEF OwnerCounted
    <2>1. s \in Requests \ {r}
        BY CommitEffect
    <2>2. pc'[s] = pc[s] /\ call'[s] = call[s] /\ seen'[s] = seen[s]
        BY <2>1, CommitEffect
    <2>3. PICK u \in Users \ {call[s].target} : members[call[s].ws][u] = "owner"
        BY <2>2 DEF OwnerCounted, DropsOwner
    <2>4. call[s].ws # call[r].ws /\ call[s].ws \in Workspaces
        BY <1>2, <2>1, <2>2, CommitEffect DEF InTransaction
    <2>5. members'[call[s].ws][u] = "owner"
        BY <2>3, <2>4, CommitEffect
    <2> QED
        BY <2>2, <2>5
<1>8. VersionCurrent'
    <2> SUFFICES ASSUME NEW s \in Requests, pc'[s] = "commit", Bumps(s)'
                 PROVE  /\ userLock'[call'[s].target] = s
                        /\ seen'[s].version = sessionVersion'[call'[s].target] + 1
        BY DEF VersionCurrent
    <2>1. s # r /\ pc'[s] = pc[s] /\ call'[s] = call[s] /\ seen'[s] = seen[s]
        BY CommitEffect
    <2>2. /\ userLock[call[s].target] = s
          /\ seen[s].version = sessionVersion[call[s].target] + 1
        BY <2>1 DEF VersionCurrent, Bumps
    <2>3. call[s].target \in Users
        BY <1>2, <2>1
    <2>4. ~(call[s].target = call[r].target /\ Bumps(r))
        BY <2>1, <2>2 DEF VersionCurrent, Commit
    <2>5. sessionVersion'[call[s].target] = sessionVersion[call[s].target]
        BY <2>3, <2>4, CommitEffect
    <2> QED
        BY <1>3, <2>1, <2>2, <2>3, <2>5
<1>9. OwnerExists'
    <2> SUFFICES ASSUME NEW w \in workspaces
                 PROVE  \E u \in Users : members'[w][u] = "owner"
        BY CommitEffect DEF OwnerExists
    <2>1. w \in Workspaces
        BY DEF TypeOK
    <2>2. PICK u \in Users : members[w][u] = "owner"
        BY DEF OwnerExists
    <2>3. CASE w # call[r].ws \/ u # call[r].target
        BY <2>1, <2>2, <2>3, CommitEffect
    <2>4. CASE w = call[r].ws /\ u = call[r].target /\ call[r].role = "owner"
        BY <2>1, <2>4, CommitEffect
    <2>5. CASE w = call[r].ws /\ u = call[r].target /\ call[r].role # "owner"
        <3>1. DropsOwner(r)
            BY <2>2, <2>5 DEF DropsOwner, TargetCurrent, Commit
        <3>2. PICK other \in Users \ {call[r].target} : members[w][other] = "owner"
            BY <2>5, <3>1 DEF OwnerCounted, Commit
        <3> QED
            BY <2>1, <3>2, CommitEffect
    <2> QED
        BY <2>3, <2>4, <2>5
<1> QED
    BY <1>1, <1>4, <1>5, <1>6, <1>7, <1>8, <1>9

\* Every step preserves the invariant.
LEMMA NextInv == IInv /\ [Next]_vars => IInv'
<1> SUFFICES ASSUME IInv, [Next]_vars PROVE IInv'
    OBVIOUS
<1>1. ASSUME NEW r \in Requests, Start(r)
      PROVE  IInv'
    BY <1>1, AuthorizeInv, CreateWorkspaceInv DEF Start
<1>2. ASSUME NEW r \in Requests, Proceed(r)
      PROVE  IInv'
    <2>1. CASE LockWorkspace(r)
        BY <2>1, LockWorkspaceInv
    <2>2. CASE ReadTarget(r) \/ CountOwners(r) \/ SkipUser(r)
        BY <2>2, LocalInv
    <2>3. CASE RefuseTarget(r) \/ RefuseLastOwner(r)
        BY <2>3, RollbackInv DEF RefuseTarget, RefuseLastOwner
    <2>4. CASE LockUser(r)
        BY <2>4, LockUserInv
    <2>5. CASE Commit(r)
        BY <2>5, CommitInv
    <2>6. CASE ReadBack(r)
        BY <2>6, ReadBackInv
    <2> QED
        BY <1>2, <2>1, <2>2, <2>3, <2>4, <2>5, <2>6 DEF Proceed
<1>3. ASSUME NEW r \in Requests, Abandon(r)
      PROVE  IInv'
    BY <1>3, RollbackInv DEF Abandon
<1>4. CASE UNCHANGED vars
    BY <1>4 DEF vars, tables, locks, IInv, TypeOK, CallPresent, LocksHeld, TargetCurrent,
                OwnerCounted, DropsOwner, VersionCurrent, Bumps, OwnerExists
<1> QED
    BY <1>1, <1>2, <1>3, <1>4 DEF Next, Rest

\* Every reachable state satisfies the inductive invariant.
THEOREM Invariance == Spec => []IInv
BY InitInv, NextInv, PTL DEF Spec

\* Every variable keeps its type.
THEOREM TypeCorrect == Spec => []TypeOK
<1>1. IInv => TypeOK
    BY DEF IInv
<1> QED
    BY <1>1, Invariance, PTL

\* Workspace must retain at least one owner (repository.py 1126, 1192), however
\* demotions and removals interleave.
THEOREM OwnerAlwaysExists == Spec => []OwnerExists
<1>1. IInv => OwnerExists
    BY DEF IInv
<1> QED
    BY <1>1, Invariance, PTL

--------------------------------------------------------------------------------
(* The action properties.                                                      *)

\* Only a commit writes a membership row of a tenant that exists.
LEMMA WhoWritesMembers ==
    ASSUME IInv, [Next]_vars, NEW w \in workspaces, NEW u \in Users,
           members'[w][u] # members[w][u]
    PROVE  \E r \in Requests : Commit(r)
<1>1. ASSUME NEW r \in Requests, NEW c \in CreateCall, CreateWorkspace(r, c)
      PROVE  FALSE
    <2>1. c.ws # w /\ members' = [members EXCEPT ![c.ws][c.actor] = "owner"]
        BY <1>1 DEF CreateWorkspace
    <2>2. w \in Workspaces /\ members \in [Workspaces -> [Users -> Role \cup {None}]]
        BY DEF IInv, TypeOK
    <2> QED
        BY <2>1, <2>2
<1>2. ASSUME NEW r \in Requests, NEW c \in ChangeRoleCall \cup RemoveCall, Authorize(r, c)
      PROVE  FALSE
    BY <1>2 DEF Authorize, tables
<1>3. ASSUME NEW r \in Requests, Proceed(r) \/ Abandon(r)
      PROVE  Commit(r)
    BY <1>3 DEF Proceed, Abandon, LockWorkspace, ReadTarget, RefuseTarget, CountOwners,
                RefuseLastOwner, SkipUser, LockUser, ReadBack, Rollback, tables
<1>4. ~UNCHANGED vars
    BY DEF vars, tables
<1> QED
    BY <1>1, <1>2, <1>3, <1>4 DEF Next, Start, Rest

\* A change of role or a removal increments the target's session_version in the
\* same commit (repository.py 1139-1144, 1205-1211).
THEOREM SessionsEnd == Spec => RoleChangeEndsSessions
<1>1. ASSUME IInv, [Next]_vars, NEW w \in workspaces, NEW u \in Users,
             members'[w][u] # members[w][u]
      PROVE  sessionVersion'[u] > sessionVersion[u]
    <2>1. PICK r \in Requests : Commit(r)
        BY <1>1, WhoWritesMembers
    <2>2. w \in Workspaces /\ sessionVersion[u] \in Nat
        BY <1>1 DEF IInv, TypeOK
    <2>3. w = call[r].ws /\ u = call[r].target /\ members'[w][u] = call[r].role
        BY <1>1, <2>1, <2>2, CommitEffect
    <2>4. Bumps(r)
        BY <1>1, <2>1, <2>3 DEF IInv, TargetCurrent, Commit, Bumps
    <2>5. sessionVersion'[u] = sessionVersion[u] + 1
        BY <1>1, <2>1, <2>3, <2>4, CommitEffect
    <2> QED
        BY <2>2, <2>5
<1>2. IInv /\ [Next]_vars =>
          [\A w \in workspaces, u \in Users :
             members'[w][u] # members[w][u] => sessionVersion'[u] > sessionVersion[u]]_vars
    BY <1>1
<1> QED
    BY <1>2, Invariance, PTL DEF Spec, RoleChangeEndsSessions

\* A privileged row changes only on behalf of an actor authorised as an owner
\* (repository.py 1109-1114, 1175-1181).
THEOREM PrivilegedRows == Spec => PrivilegedRowsNeedOwner
<1> DEFINE Guarded ==
        \A r \in Requests, w \in Workspaces, u \in Users :
            (/\ pc[r] = "commit" /\ pc'[r] # "commit"
             /\ members'[w][u] # members[w][u]
             /\ {members[w][u], members'[w][u]} \cap Privileged # {})
            => seen[r].actor = "owner"
<1>1. ASSUME IInv, [Next]_vars, NEW r \in Requests, NEW w \in Workspaces, NEW u \in Users,
             pc[r] = "commit", pc'[r] # "commit", members'[w][u] # members[w][u],
             {members[w][u], members'[w][u]} \cap Privileged # {}
      PROVE  seen[r].actor = "owner"
    <2>1. ASSUME NEW s \in Requests, NEW c \in CreateCall, CreateWorkspace(s, c)
          PROVE  FALSE
        BY <1>1, <2>1 DEF CreateWorkspace, Goto, IInv, TypeOK
    <2>2. ASSUME NEW s \in Requests, NEW c \in ChangeRoleCall \cup RemoveCall, Authorize(s, c)
          PROVE  FALSE
        BY <1>1, <2>2 DEF Authorize, tables
    <2>3. ASSUME NEW s \in Requests, Proceed(s) \/ Abandon(s)
          PROVE  Commit(s)
        BY <1>1, <2>3 DEF Proceed, Abandon, LockWorkspace, ReadTarget, RefuseTarget,
                    CountOwners, RefuseLastOwner, SkipUser, LockUser, ReadBack, Rollback, tables
    <2>4. PICK s \in Requests : Commit(s)
        BY <1>1, <2>1, <2>2, <2>3 DEF Next, Start, Rest, vars, tables
    <2>5. s = r
        BY <1>1, <2>4, CommitEffect
    <2>6. /\ w = call[r].ws /\ u = call[r].target
          /\ members'[w][u] = call[r].role
        BY <1>1, <2>4, <2>5, CommitEffect
    <2>7. /\ members[w][u] = seen[r].target
          /\ TargetAllowed(call[r], seen[r].actor, seen[r].target)
        BY <1>1, <2>6 DEF IInv, TargetCurrent
    <2>8. /\ call[r] \in Call /\ call[r].op \in {"change_role", "remove_membership"}
          /\ call[r].op = "remove_membership" => call[r].role = None
        BY <1>1, CallFields DEF IInv, CallPresent
    <2>9. None \notin Privileged
        BY NoneAssumption DEF Privileged, Role
    <2> QED
        BY <1>1, <2>6, <2>7, <2>8, <2>9 DEF TargetAllowed, MayChangeRole, MayRemove
<1>2. IInv /\ [Next]_vars => [Guarded]_vars
    BY <1>1
<1> QED
    BY <1>2, Invariance, PTL DEF Spec, PrivilegedRowsNeedOwner

--------------------------------------------------------------------------------
(* The audit log as history: what it says of versions and of memberships.      *)

\* One more index makes one more element.
LEMMA OneMore ==
    ASSUME NEW n \in Nat, NEW S \in SUBSET (1..n)
    PROVE  /\ Cardinality(S) \in Nat
           /\ Cardinality(S \cup {n + 1}) = Cardinality(S) + 1
<1>1. IsFiniteSet(1..n)
    BY FS_Interval
<1>2. IsFiniteSet(S)
    BY <1>1, FS_Subset
<1>3. n + 1 \notin S
    OBVIOUS
<1> QED
    BY <1>2, <1>3, FS_AddElement, FS_CardinalityType

\* The entries that record a change of authority of u.
ChangesOf(u) ==
    {i \in DOMAIN audit : /\ audit[i].subject = u
                          /\ audit[i].type # "created"
                          /\ audit[i].from # audit[i].to}

\* An entry is added at the end, and the others stay what they are.
LEMMA Appended ==
    ASSUME NEW S, audit \in Seq(S), NEW e \in S, audit' = Append(audit, e)
    PROVE  /\ Len(audit) \in Nat /\ DOMAIN audit = 1..Len(audit)
           /\ DOMAIN audit' = 1..(Len(audit) + 1)
           /\ audit'[Len(audit) + 1] = e
           /\ \A i \in DOMAIN audit : audit'[i] = audit[i]
OBVIOUS

\* An entry counts for its subject, if it records a change.
LEMMA CountedEntry ==
    ASSUME audit \in Seq(AuditEntry), NEW e \in AuditEntry, audit' = Append(audit, e),
           NEW u \in Users
    PROVE  Cardinality(ChangesOf(u)') =
               IF e.subject = u /\ e.type # "created" /\ e.from # e.to
               THEN Cardinality(ChangesOf(u)) + 1 ELSE Cardinality(ChangesOf(u))
<1>1. /\ Len(audit) \in Nat /\ DOMAIN audit = 1..Len(audit)
      /\ DOMAIN audit' = 1..(Len(audit) + 1)
      /\ audit'[Len(audit) + 1] = e
      /\ \A i \in DOMAIN audit : audit'[i] = audit[i]
    BY Appended
<1>2. ChangesOf(u)' = IF e.subject = u /\ e.type # "created" /\ e.from # e.to
                      THEN ChangesOf(u) \cup {Len(audit) + 1} ELSE ChangesOf(u)
    BY <1>1 DEF ChangesOf
<1>3. ChangesOf(u) \in SUBSET (1..Len(audit))
    BY <1>1 DEF ChangesOf
<1> QED
    BY <1>1, <1>2, <1>3, OneMore

\* The steps that write a version or an audit entry.
LEMMA AuditedSteps ==
    ASSUME [Next]_vars
    PROVE  \/ UNCHANGED <<workspaces, members, sessionVersion, audit>>
           \/ \E r \in Requests : Commit(r)
           \/ \E r \in Requests, c \in CreateCall : CreateWorkspace(r, c)
<1>1. ASSUME NEW r \in Requests, Proceed(r) \/ Abandon(r)
      PROVE  Commit(r) \/ UNCHANGED tables
    BY <1>1 DEF Proceed, Abandon, LockWorkspace, ReadTarget, RefuseTarget, CountOwners,
                RefuseLastOwner, SkipUser, LockUser, ReadBack, Rollback
<1>2. ASSUME NEW r \in Requests, NEW c \in ChangeRoleCall \cup RemoveCall, Authorize(r, c)
      PROVE  UNCHANGED tables
    BY <1>2 DEF Authorize
<1>3. UNCHANGED vars => UNCHANGED tables
    BY DEF vars
<1>4. UNCHANGED tables => UNCHANGED <<workspaces, members, sessionVersion, audit>>
    BY DEF tables
<1> QED
    BY <1>1, <1>2, <1>3, <1>4 DEF Next, Start, Rest

\* What a commit writes about its target.
CommitEntry(r) ==
    [type |-> IF call[r].op = "change_role" THEN "role_changed" ELSE "removed",
     ws |-> call[r].ws, actor |-> call[r].actor, subject |-> call[r].target,
     from |-> seen[r].target, to |-> call[r].role]

CreateEntry(c) ==
    [type |-> "created", ws |-> c.ws, actor |-> c.actor, subject |-> c.actor,
     from |-> None, to |-> "owner"]

\* A commit's entry is well formed, and says what the commit writes.
LEMMA CommitEntryType ==
    ASSUME IInv, NEW r \in Requests, Commit(r)
    PROVE  /\ CommitEntry(r) \in AuditEntry /\ audit' = Append(audit, CommitEntry(r))
           /\ CommitEntry(r).from = members[call[r].ws][call[r].target]
           /\ CommitEntry(r).to = call[r].role
           /\ CommitEntry(r).ws = call[r].ws /\ CommitEntry(r).subject = call[r].target
           /\ CommitEntry(r).type # "created"
           /\ Bumps(r) <=> CommitEntry(r).from # CommitEntry(r).to
<1>1. call[r] \in Call /\ seen[r].target = members[call[r].ws][call[r].target]
    BY DEF IInv, CallPresent, TargetCurrent, Commit
<1>2. call[r].actor \in Users /\ call[r].ws \in Workspaces /\ call[r].target \in Users
      /\ call[r].role \in Role \cup {None}
    BY <1>1, CallFields
<1>3. seen[r].target \in Role \cup {None}
    BY DEF IInv, TypeOK, Seen
<1>4. audit' = Append(audit, CommitEntry(r))
    BY DEF Commit, CommitEntry
<1> QED
    BY <1>1, <1>2, <1>3, <1>4 DEF AuditEntry, CommitEntry, Bumps

\* So is the entry of a creation.
LEMMA CreateEntryType ==
    ASSUME NEW r \in Requests, NEW c \in CreateCall, CreateWorkspace(r, c)
    PROVE  /\ CreateEntry(c) \in AuditEntry /\ audit' = Append(audit, CreateEntry(c))
           /\ c.ws \in Workspaces /\ c.actor \in Users /\ c.ws \notin workspaces
           /\ workspaces' = workspaces \cup {c.ws}
           /\ members' = [members EXCEPT ![c.ws][c.actor] = "owner"]
           /\ UNCHANGED sessionVersion
BY DEF CreateWorkspace, CreateEntry, CreateCall, AuditEntry, Role

\* However two tenants' changes to the same user interleave, session_version is the
\* number of changes the log records: no increment is lost and none is made in silence
\* (repository.py 1139-1144, 1205-1211).
THEOREM VersionsCounted == Spec => []SessionVersionCounts
<1>1. Init => SessionVersionCounts
    <2> SUFFICES ASSUME Init, NEW u \in Users
                 PROVE  sessionVersion[u] = Cardinality(ChangesOf(u))
        BY DEF SessionVersionCounts, ChangesOf
    <2>1. ChangesOf(u) = {} /\ sessionVersion[u] = 0
        BY DEF Init, ChangesOf
    <2> QED
        BY <2>1, FS_EmptySet
<1>2. IInv /\ SessionVersionCounts /\ [Next]_vars => SessionVersionCounts'
    <2> SUFFICES ASSUME IInv, SessionVersionCounts, [Next]_vars, NEW u \in Users
                 PROVE  sessionVersion'[u] = Cardinality(ChangesOf(u)')
        BY DEF SessionVersionCounts, ChangesOf
    <2>1. /\ sessionVersion[u] = Cardinality(ChangesOf(u)) /\ audit \in Seq(AuditEntry)
        BY DEF SessionVersionCounts, ChangesOf, IInv, TypeOK
    <2>2. CASE UNCHANGED <<workspaces, members, sessionVersion, audit>>
        BY <2>1, <2>2 DEF ChangesOf
    <2>3. ASSUME NEW r \in Requests, Commit(r)
          PROVE  sessionVersion'[u] = Cardinality(ChangesOf(u)')
        <3>1. sessionVersion'[u] = IF u = call[r].target /\ Bumps(r)
                                   THEN sessionVersion[u] + 1 ELSE sessionVersion[u]
            BY <2>3, CommitEffect
        <3>2. /\ CommitEntry(r) \in AuditEntry /\ audit' = Append(audit, CommitEntry(r))
              /\ CommitEntry(r).subject = call[r].target /\ CommitEntry(r).type # "created"
              /\ Bumps(r) <=> CommitEntry(r).from # CommitEntry(r).to
            BY <2>3, CommitEntryType
        <3> QED
            BY <2>1, <3>1, <3>2, CountedEntry
    <2>4. ASSUME NEW r \in Requests, NEW c \in CreateCall, CreateWorkspace(r, c)
          PROVE  sessionVersion'[u] = Cardinality(ChangesOf(u)')
        <3>1. /\ CreateEntry(c) \in AuditEntry /\ audit' = Append(audit, CreateEntry(c))
              /\ UNCHANGED sessionVersion
            BY <2>4, CreateEntryType
        <3>2. CreateEntry(c).type = "created"
            BY DEF CreateEntry
        <3> QED
            BY <2>1, <3>1, <3>2, CountedEntry
    <2> QED
        BY <2>2, <2>3, <2>4, AuditedSteps
<1> QED
    BY <1>1, <1>2, Invariance, PTL DEF Spec

\* A tenant nobody has created has no members.
NoMembersYet == \A w \in Workspaces \ workspaces, u \in Users : members[w][u] = None

\* An entry that starts from the present role and names the new one continues the chain.
LEMMA ChainContinues ==
    ASSUME AuditChain, audit \in Seq(AuditEntry), NEW e \in AuditEntry,
           audit' = Append(audit, e), e.from = members[e.ws][e.subject],
           \A w \in Workspaces, u \in Users :
               members'[w][u] = IF w = e.ws /\ u = e.subject THEN e.to ELSE members[w][u]
    PROVE  AuditChain'
<1> DEFINE n == Len(audit) + 1
<1>1. /\ Len(audit) \in Nat /\ DOMAIN audit = 1..Len(audit) /\ DOMAIN audit' = 1..n
      /\ audit'[n] = e /\ \A i \in DOMAIN audit : audit'[i] = audit[i]
    BY Appended
<1> SUFFICES ASSUME NEW w \in Workspaces, NEW u \in Users, NEW i \in EntriesAbout(w, u)'
             PROVE  /\ \A j \in EntriesAbout(w, u)' :
                           (i < j /\ \A k \in EntriesAbout(w, u)' : k <= i \/ j <= k)
                               => audit'[j].from = audit'[i].to
                    /\ (\A j \in EntriesAbout(w, u)' : j <= i) => members'[w][u] = audit'[i].to
    BY DEF AuditChain
<1>2. EntriesAbout(w, u)' = IF w = e.ws /\ u = e.subject THEN EntriesAbout(w, u) \cup {n}
                            ELSE EntriesAbout(w, u)
    BY <1>1 DEF EntriesAbout
<1>3. /\ EntriesAbout(w, u) \subseteq 1..Len(audit) /\ i \in 1..n
      /\ \A k \in EntriesAbout(w, u) : audit'[k] = audit[k]
    BY <1>1, <1>2 DEF EntriesAbout
<1>4. ASSUME NEW j \in EntriesAbout(w, u)', i < j,
             \A k \in EntriesAbout(w, u)' : k <= i \/ j <= k
      PROVE  audit'[j].from = audit'[i].to
    <2>1. i \in EntriesAbout(w, u)
        BY <1>1, <1>2, <1>3, <1>4
    <2>2. CASE j \in EntriesAbout(w, u)
        BY <1>2, <1>3, <1>4, <2>1, <2>2 DEF AuditChain
    <2>3. CASE j = n /\ w = e.ws /\ u = e.subject
        <3>1. \A k \in EntriesAbout(w, u) : k <= i
            BY <1>1, <1>2, <1>3, <1>4, <2>3
        <3>2. members[w][u] = audit[i].to
            BY <2>1, <3>1 DEF AuditChain
        <3> QED
            BY <1>1, <1>3, <2>1, <2>3, <3>2
    <2> QED
        BY <1>2, <2>2, <2>3
<1>5. ASSUME \A j \in EntriesAbout(w, u)' : j <= i
      PROVE  members'[w][u] = audit'[i].to
    <2>1. CASE w = e.ws /\ u = e.subject
        <3>1. i = n
            BY <1>1, <1>2, <1>3, <1>5, <2>1
        <3> QED
            BY <1>1, <2>1, <3>1
    <2>2. CASE ~(w = e.ws /\ u = e.subject)
        <3>1. /\ i \in EntriesAbout(w, u) /\ \A j \in EntriesAbout(w, u) : j <= i
              /\ members'[w][u] = members[w][u]
            BY <1>2, <1>5, <2>2
        <3>2. members[w][u] = audit[i].to
            BY <3>1 DEF AuditChain
        <3> QED
            BY <1>3, <3>1, <3>2
    <2> QED
        BY <2>1, <2>2
<1> QED
    BY <1>4, <1>5

\* The log is the history of every membership: each recorded change starts from the role
\* the one before it left, and the last one left the present role, although the role in
\* `from` was read some steps before the commit (repository.py, change_role and
\* remove_membership).
THEOREM AuditIsHistory == Spec => []AuditChain
<1> DEFINE Inv == NoMembersYet /\ AuditChain
<1>1. Init => Inv
    BY DEF Init, NoMembersYet, AuditChain, EntriesAbout
<1>2. IInv /\ Inv /\ [Next]_vars => Inv'
    <2> SUFFICES ASSUME IInv, Inv, [Next]_vars PROVE Inv'
        OBVIOUS
    <2>1. /\ audit \in Seq(AuditEntry) /\ workspaces \subseteq Workspaces
          /\ members \in [Workspaces -> [Users -> Role \cup {None}]]
        BY DEF IInv, TypeOK
    <2>2. CASE UNCHANGED <<workspaces, members, sessionVersion, audit>>
        BY <2>2 DEF NoMembersYet, AuditChain, EntriesAbout
    <2>3. ASSUME NEW r \in Requests, Commit(r)
          PROVE  Inv'
        <3>1. /\ call[r].ws \in workspaces /\ UNCHANGED workspaces
              /\ \A v \in Workspaces, t \in Users :
                     members'[v][t] = IF v = call[r].ws /\ t = call[r].target
                                      THEN call[r].role ELSE members[v][t]
            BY <2>3, CommitEffect
        <3>2. NoMembersYet'
            BY <3>1 DEF NoMembersYet
        <3>3. /\ CommitEntry(r) \in AuditEntry /\ audit' = Append(audit, CommitEntry(r))
              /\ CommitEntry(r).from = members[call[r].ws][call[r].target]
              /\ CommitEntry(r).to = call[r].role
              /\ CommitEntry(r).ws = call[r].ws /\ CommitEntry(r).subject = call[r].target
            BY <2>3, CommitEntryType
        <3>4. AuditChain'
            BY <2>1, <3>1, <3>3, ChainContinues
        <3> QED
            BY <3>2, <3>4
    <2>4. ASSUME NEW r \in Requests, NEW c \in CreateCall, CreateWorkspace(r, c)
          PROVE  Inv'
        <3>1. /\ CreateEntry(c) \in AuditEntry /\ audit' = Append(audit, CreateEntry(c))
              /\ c.ws \in Workspaces /\ c.actor \in Users /\ c.ws \notin workspaces
              /\ workspaces' = workspaces \cup {c.ws}
              /\ members' = [members EXCEPT ![c.ws][c.actor] = "owner"]
            BY <2>4, CreateEntryType
        <3>2. \A v \in Workspaces, t \in Users :
                  members'[v][t] = IF v = c.ws /\ t = c.actor THEN "owner" ELSE members[v][t]
            BY <2>1, <3>1
        <3>3. NoMembersYet'
            BY <3>1, <3>2 DEF NoMembersYet
        <3>4. /\ CreateEntry(c).ws = c.ws /\ CreateEntry(c).subject = c.actor
              /\ CreateEntry(c).from = None /\ CreateEntry(c).to = "owner"
            BY DEF CreateEntry
        <3>5. members[c.ws][c.actor] = None
            BY <3>1 DEF NoMembersYet
        <3>6. AuditChain'
            BY <2>1, <3>1, <3>2, <3>4, <3>5, ChainContinues
        <3> QED
            BY <3>3, <3>6
    <2> QED
        BY <2>2, <2>3, <2>4, AuditedSteps
<1>3. Inv => AuditChain
    OBVIOUS
<1> QED
    BY <1>1, <1>2, <1>3, Invariance, PTL DEF Spec

--------------------------------------------------------------------------------
(* The refinement: every step is a step of the tenancy contract or a stutter.   *)

\* The contract's roles are the repository's.
LEMMA SameRoles == Contract!Role = Role
BY DEF Contract!Role, Role

\* Any tenants the repository starts with are tenants of the contract.
LEMMA InitContract == Init => Contract!Init
BY SameRoles DEF Init, Contract!Init, Contract!HasOwner, Owners

\* A step of any request but a commit or a creation shows nothing of itself.
LEMMA HiddenSteps ==
    ASSUME NEW r \in Requests, Proceed(r) \/ Abandon(r), ~Commit(r)
    PROVE  UNCHANGED Contract!tenancy
BY DEF Contract!tenancy, Proceed, Abandon, LockWorkspace, ReadTarget, RefuseTarget,
       CountOwners, RefuseLastOwner, SkipUser, LockUser, ReadBack, Rollback, tables

\* create_workspace inserts the tenant and its owner together (repository.py 574-600).
LEMMA CreateContract ==
    ASSUME IInv, NEW r \in Requests, NEW c \in CreateCall, CreateWorkspace(r, c)
    PROVE  Contract!Next
<1>1. c.ws \in Workspaces /\ c.actor \in Users
    BY DEF CreateCall
<1>2. Contract!CreateWorkspace(c.ws, c.actor)
    BY DEF CreateWorkspace, Contract!CreateWorkspace
<1> QED
    BY <1>1, <1>2 DEF Contract!Next

\* A commit writes the role and the version of one user of one tenant, and the
\* owners it counted under the lock still leave one.
LEMMA CommitContract ==
    ASSUME IInv, NEW r \in Requests, Commit(r)
    PROVE  Contract!Next \/ UNCHANGED Contract!tenancy
<1> DEFINE w == call[r].ws
           u == call[r].target
           role == call[r].role
<1> USE DEF IInv
<1>1. /\ call[r] \in Call /\ w \in workspaces /\ w \in Workspaces /\ u \in Users
      /\ role \in Role \cup {None}
    BY CallFields, CommitEffect DEF CallPresent, Commit
<1>2. /\ members' = [members EXCEPT ![w][u] = role]
      /\ sessionVersion' = IF Bumps(r)
                           THEN [sessionVersion EXCEPT ![u] = seen[r].version]
                           ELSE sessionVersion
      /\ UNCHANGED workspaces
    BY DEF Commit
<1>3. Bumps(r) <=> members[w][u] # role
    BY DEF TargetCurrent, Commit, Bumps
<1>4. CASE Bumps(r)
    <2>1. seen[r].version = sessionVersion[u] + 1
        BY <1>4 DEF VersionCurrent, Commit
    <2>2. Contract!EndSessions(u)
        BY <1>2, <1>4, <2>1 DEF Contract!EndSessions
    <2>3. OwnerExists'
        BY CommitInv
    <2>4. Contract!SetRole(w, u, role)
        BY <1>1, <1>2, <1>3, <1>4, <2>2, <2>3 DEF OwnerExists, Contract!SetRole
    <2> QED
        BY <1>1, <2>4, SameRoles DEF Contract!Next
<1>5. CASE ~Bumps(r)
    <2>1. members' = members
        <3>1. members \in [Workspaces -> [Users -> Role \cup {None}]]
            BY DEF TypeOK
        <3> QED
            BY <1>1, <1>2, <1>3, <1>5, <3>1
    <2> QED
        BY <1>2, <1>5, <2>1 DEF Contract!tenancy
<1> QED
    BY <1>4, <1>5

\* The membership handlers implement the contract, for any number of users, tenants
\* and requests.
THEOREM Refinement == Spec => ImplementsTenancy
<1>1. ASSUME IInv, [Next]_vars
      PROVE  [Contract!Next]_Contract!tenancy
    <2>1. ASSUME NEW r \in Requests, Start(r)
          PROVE  Contract!Next \/ UNCHANGED Contract!tenancy
        <3>1. ASSUME NEW c \in ChangeRoleCall \cup RemoveCall, Authorize(r, c)
              PROVE  UNCHANGED Contract!tenancy
            BY <3>1 DEF Authorize, tables, Contract!tenancy
        <3> QED
            BY <1>1, <2>1, <3>1, CreateContract DEF Start
    <2>2. ASSUME NEW r \in Requests, Proceed(r) \/ Abandon(r)
          PROVE  Contract!Next \/ UNCHANGED Contract!tenancy
        BY <1>1, <2>2, HiddenSteps, CommitContract
    <2>3. CASE UNCHANGED vars
        BY <2>3 DEF vars, tables, Contract!tenancy
    <2> QED
        BY <1>1, <2>1, <2>2, <2>3 DEF Next, Rest
<1>2. IInv /\ [Next]_vars => [Contract!Next]_Contract!tenancy
    BY <1>1
<1> QED
    BY <1>2, InitContract, Invariance, PTL DEF Spec, ImplementsTenancy, Contract!Spec
================================================================================
