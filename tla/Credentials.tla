------------------------------ MODULE Credentials ------------------------------
(* Local passwords, reset tokens and the sessions they end, on top of          *)
(* Memberships: issue_password_reset, consume_password_reset and authenticate. *)
(*                                                                             *)
(* A hash is the secret it was made from and whether its parameters are out of *)
(* date, which makes authenticate rewrite it.  A token is the index of its     *)
(* row.  A session is what Chirp signs into the cookie: the user and the       *)
(* session_version that authenticate returned; the middleware honours it while *)
(* the two versions agree.                                                     *)
EXTENDS Memberships

CONSTANTS
    Secrets,    \* passwords
    Outdated    \* whether stored hashes may be out of date: a set of booleans

ASSUME OutdatedAssumption == Outdated \in SUBSET BOOLEAN

VARIABLES
    password,   \* workspace_core_users.password_hash
    resets,     \* workspace_core_password_resets, in order of insertion
    rowLock,    \* writer of the open reset row of each user
    indexLock,  \* writer of a new entry in the index of open resets
    revoking,   \* rows a request's transaction has read and will revoke
    sessions    \* sessions signed in so far

credentials == <<password, resets, sessions>>
resetLocks  == <<rowLock, indexLock, revoking>>
resetVars   == <<credentials, resetLocks>>
allVars     == <<vars, resetVars>>

Hash    == [secret : Secrets, outdated : BOOLEAN]
Reset   == [user : Users, used : BOOLEAN, revoked : BOOLEAN, expired : BOOLEAN]
Session == [user : Users, version : Nat, secret : Secrets]

ResetLabels == {"membership", "tenant", "select", "revoke", "insert", "issued",
                "token", "consume", "password", "consumed", "rehash", "signed"}

IssueResetCall == [op : {"issue_password_reset"}, actor : Users, ws : Workspaces,
                   target : Users]
ConsumeCall    == [op : {"consume_password_reset"}, target : Users, token : Nat,
                   secret : Secrets]
SignInCall     == [op : {"authenticate"}, target : Users, secret : Secrets]
ResetCall      == IssueResetCall \cup ConsumeCall \cup SignInCall

Open(i) == ~resets[i].used /\ ~resets[i].revoked

OpenResets(u) == {i \in DOMAIN resets : resets[i].user = u /\ Open(i)}

Event(type, w, actor, subject) ==
    [type |-> type, ws |-> w, actor |-> actor, subject |-> subject,
     from |-> None, to |-> None]

Begin(r, c, label) ==
    /\ pc[r] = "idle"
    /\ Budget
    /\ c.op \in Operations
    /\ call' = [call EXCEPT ![r] = c]
    /\ Goto(r, label)

ReleaseResetLocks(r) ==
    /\ rowLock' = ReleasedBy(rowLock, r)
    /\ indexLock' = ReleasedBy(indexLock, r)
    /\ revoking' = [revoking EXCEPT ![r] = {}]

Abort(r) == Rollback(r) /\ ReleaseResetLocks(r) /\ UNCHANGED credentials

End(r) == ReleaseLocks(r) /\ ReleaseResetLocks(r) /\ Finish(r)

--------------------------------------------------------------------------------
(* issue_password_reset.                                                       *)

\* require_permissions, before the transaction.
IssueReset(r, actor, w, target) ==
    /\ w \in workspaces
    /\ HasPermission(members[w][actor], "members:manage")
    /\ Begin(r, [op |-> "issue_password_reset", actor |-> actor, ws |-> w,
                 target |-> target], "membership")
    /\ seen' = [seen EXCEPT ![r].actor = members[w][actor]]
    /\ UNCHANGED <<tables, locks, resetVars>>

\* The target's membership, read and judged before the transaction as well.
JudgeTarget(r) ==
    LET target == members[call[r].ws][call[r].target] IN
    /\ pc[r] = "membership"
    /\ target # None
    /\ MayRemove(seen[r].actor, target)
    /\ seen' = [seen EXCEPT ![r].target = target]
    /\ Goto(r, "tenant")
    /\ UNCHANGED <<tables, locks, resetVars, call>>

RefuseReset(r) ==
    LET target == members[call[r].ws][call[r].target] IN
    /\ pc[r] = "membership"
    /\ target = None \/ ~MayRemove(seen[r].actor, target)
    /\ Abort(r)

LockTenant(r) ==
    /\ pc[r] = "tenant"
    /\ workspaceLock[call[r].ws] = None
    /\ workspaceLock' = [workspaceLock EXCEPT ![call[r].ws] = r]
    /\ Goto(r, "select")
    /\ UNCHANGED <<tables, userLock, resetVars, call, seen>>

\* UPDATE ... SET revoked_at: the rows its snapshot finds open,
SelectOpen(r) ==
    /\ pc[r] = "select"
    /\ revoking' = [revoking EXCEPT ![r] = OpenResets(call[r].target)]
    /\ Goto(r, "revoke")
    /\ UNCHANGED <<tables, locks, credentials, rowLock, indexLock, call, seen>>

\* ... each waited for and looked at again: a row another transaction has closed
\* meanwhile is skipped, and a row it has opened is not seen.
RevokeOpen(r) ==
    LET u == call[r].target
        rows == revoking[r] \cap OpenResets(u)
    IN
    /\ pc[r] = "revoke"
    /\ rows # {} => rowLock[u] = None
    /\ rowLock' = IF rows = {} THEN rowLock ELSE [rowLock EXCEPT ![u] = r]
    /\ revoking' = [revoking EXCEPT ![r] = rows]
    /\ Goto(r, "insert")
    /\ UNCHANGED <<tables, locks, credentials, indexLock, call, seen>>

\* The unique index of open resets: an INSERT waits for whoever is adding or
\* closing an entry of the same user.
IndexFree(r) ==
    LET u == call[r].target IN
    /\ indexLock[u] = None
    /\ rowLock[u] \in {None, r}

\* Variant: the index does not exist, so nothing refuses a second open row.
InsertUnindexed(r) ==
    /\ pc[r] = "insert"
    /\ Goto(r, "issued")
    /\ UNCHANGED <<tables, locks, credentials, resetLocks, call, seen>>

InsertReset(r) ==
    /\ pc[r] = "insert"
    /\ IndexFree(r)
    /\ OpenResets(call[r].target) \subseteq revoking[r]
    /\ indexLock' = [indexLock EXCEPT ![call[r].target] = r]
    /\ Goto(r, "issued")
    /\ UNCHANGED <<tables, locks, credentials, rowLock, revoking, call, seen>>

\* The index refuses the row: issue_password_reset has no handler for QueryError.
DuplicateReset(r) ==
    /\ pc[r] = "insert"
    /\ IndexFree(r)
    /\ ~(OpenResets(call[r].target) \subseteq revoking[r])
    /\ Abort(r)

CommitIssued(r) ==
    LET c == call[r] IN
    /\ pc[r] = "issued"
    /\ resets' = Append([i \in DOMAIN resets |->
                            IF i \in revoking[r]
                            THEN [resets[i] EXCEPT !.revoked = TRUE] ELSE resets[i]],
                        [user |-> c.target, used |-> FALSE, revoked |-> FALSE,
                         expired |-> FALSE])
    /\ audit' = Append(audit, Event("reset_issued", c.ws, c.actor, c.target))
    /\ End(r)
    /\ UNCHANGED <<workspaces, members, sessionVersion, password, sessions>>

--------------------------------------------------------------------------------
(* consume_password_reset: no tenant, no workspace lock.                       *)

ConsumeReset(r, token, secret) ==
    /\ Begin(r, [op |-> "consume_password_reset", target |-> resets[token].user,
                 token |-> token, secret |-> secret], "token")
    /\ UNCHANGED <<tables, locks, resetVars, seen>>

\* The token's row as read at first, without a lock.
ReadToken(r) ==
    /\ pc[r] = "token"
    /\ Open(call[r].token)
    /\ ~resets[call[r].token].expired
    /\ Goto(r, "consume")
    /\ UNCHANGED <<tables, locks, resetVars, call, seen>>

RefuseToken(r) ==
    /\ pc[r] = "token"
    /\ ~Open(call[r].token) \/ resets[call[r].token].expired
    /\ Abort(r)

\* Variant: UPDATE ... SET used_at without "AND used_at IS NULL AND revoked_at IS NULL".
StillThere(token) == TRUE

\* The condition of the UPDATE that marks the row used.
StillOpen(token) == Open(token)

UseToken(r) ==
    LET u == call[r].target IN
    /\ pc[r] = "consume"
    /\ rowLock[u] = None
    /\ StillOpen(call[r].token)
    /\ rowLock' = [rowLock EXCEPT ![u] = r]
    /\ Goto(r, "password")
    /\ UNCHANGED <<tables, locks, credentials, indexLock, revoking, call, seen>>

\* "Password reset token was used concurrently."
TokenGone(r) ==
    /\ pc[r] = "consume"
    /\ rowLock[call[r].target] = None
    /\ ~StillOpen(call[r].token)
    /\ Abort(r)

\* Variant: session_version is computed without waiting for the row's writer.
WritePasswordWithoutWait(r) ==
    LET u == call[r].target IN
    /\ pc[r] = "password"
    /\ userLock' = [userLock EXCEPT ![u] = r]
    /\ seen' = [seen EXCEPT ![r].version = NextVersion(u)]
    /\ Goto(r, "consumed")
    /\ UNCHANGED <<tables, workspaceLock, resetVars, call>>

\* Variant: the tenants of the user are locked as well, after the user's row.
WritePasswordThenTenants(r) ==
    LET u == call[r].target
        tenants == {w \in workspaces : members[w][u] # None}
    IN
    /\ pc[r] = "password"
    /\ \/ /\ userLock[u] = None
          /\ userLock' = [userLock EXCEPT ![u] = r]
          /\ UNCHANGED <<seen, pc>>
       \/ /\ userLock[u] = r
          /\ \A w \in tenants : workspaceLock[w] = None
          /\ seen' = [seen EXCEPT ![r].version = NextVersion(u)]
          /\ Goto(r, "consumed")
          /\ UNCHANGED userLock
    /\ UNCHANGED <<tables, workspaceLock, resetVars, call>>

WritePassword(r) ==
    LET u == call[r].target IN
    /\ pc[r] = "password"
    /\ userLock[u] = None
    /\ userLock' = [userLock EXCEPT ![u] = r]
    /\ seen' = [seen EXCEPT ![r].version = NextVersion(u)]
    /\ Goto(r, "consumed")
    /\ UNCHANGED <<tables, workspaceLock, resetVars, call>>

ResetVersion(r) == [sessionVersion EXCEPT ![call[r].target] = seen[r].version]

CommitConsumed(r) ==
    LET c == call[r] IN
    /\ pc[r] = "consumed"
    /\ password' = [password EXCEPT ![c.target] = [secret |-> c.secret, outdated |-> FALSE]]
    /\ resets' = [resets EXCEPT ![c.token].used = TRUE]
    /\ sessionVersion' = ResetVersion(r)
    /\ audit' = Append(audit, Event("reset_consumed", None, c.target, c.target))
    /\ End(r)
    /\ UNCHANGED <<workspaces, members, sessions>>

--------------------------------------------------------------------------------
(* authenticate, and the session its caller signs.                             *)

SignIn(r, u, secret) ==
    /\ password[u].secret = secret
    /\ Begin(r, [op |-> "authenticate", target |-> u, secret |-> secret],
             IF password[u].outdated THEN "rehash" ELSE "signed")
    /\ seen' = [seen EXCEPT ![r].version = sessionVersion[u]]
    /\ UNCHANGED <<tables, locks, resetVars>>

\* The upgraded hash of the password as it was read: one autocommitted UPDATE by
\* id, which waits for the row and does not look at it again.
Rehash(r) ==
    LET u == call[r].target IN
    /\ pc[r] = "rehash"
    /\ userLock[u] = None
    /\ password' = [password EXCEPT ![u] = [secret |-> call[r].secret, outdated |-> FALSE]]
    /\ Goto(r, "signed")
    /\ UNCHANGED <<tables, locks, resets, sessions, resetLocks, call, seen>>

\* Variant: the session carries the version at the time it is signed.
SignedVersionNow(r) == sessionVersion[call[r].target]

\* The version in the row authenticate read, not the one at the time of signing.
SignedVersion(r) == seen[r].version

Sign(r) ==
    /\ pc[r] = "signed"
    /\ sessions' = sessions \cup
           {[user |-> call[r].target, version |-> SignedVersion(r), secret |-> call[r].secret]}
    /\ Finish(r)
    /\ UNCHANGED <<tables, locks, password, resets, resetLocks>>

--------------------------------------------------------------------------------
\* Time passes: a token that has not been used can expire.
Expire(i) ==
    /\ ~resets[i].expired
    /\ resets' = [resets EXCEPT ![i].expired = TRUE]
    /\ UNCHANGED <<vars, password, sessions, resetLocks>>

CredentialStart(r) ==
    \/ \E actor, target \in Users, w \in Workspaces : IssueReset(r, actor, w, target)
    \/ \E token \in DOMAIN resets, secret \in Secrets : ConsumeReset(r, token, secret)
    \/ \E u \in Users, secret \in Secrets : SignIn(r, u, secret)

CredentialProceed(r) ==
    \/ JudgeTarget(r)
    \/ RefuseReset(r)
    \/ LockTenant(r)
    \/ SelectOpen(r)
    \/ RevokeOpen(r)
    \/ InsertReset(r)
    \/ DuplicateReset(r)
    \/ CommitIssued(r)
    \/ ReadToken(r)
    \/ RefuseToken(r)
    \/ UseToken(r)
    \/ TokenGone(r)
    \/ WritePassword(r)
    \/ CommitConsumed(r)
    \/ Rehash(r)
    \/ Sign(r)

\* A call of either kind is cut off; the locks of its transaction go with it.
CutOff(r) == pc[r] # "idle" /\ Abort(r)

CredentialInit ==
    /\ Init
    /\ \E secret \in Secrets, outdated \in Outdated :
           password = [u \in Users |-> [secret |-> secret, outdated |-> outdated]]
    /\ resets = <<>>
    /\ rowLock = [u \in Users |-> None]
    /\ indexLock = [u \in Users |-> None]
    /\ revoking = [r \in Requests |-> {}]
    /\ sessions = {}

MembershipStep(r) == (Start(r) \/ Proceed(r)) /\ UNCHANGED resetVars

CredentialNext ==
    \/ \E r \in Requests :
           CredentialStart(r) \/ CredentialProceed(r) \/ MembershipStep(r) \/ CutOff(r)
    \/ \E i \in DOMAIN resets : Expire(i)
    \/ Rest /\ UNCHANGED resetVars

CredentialSpec == CredentialInit /\ [][CredentialNext]_allVars

\* As in Invitations: locks are granted in arrival order and tasks are resumed.
CredentialFairness == \A r \in Requests :
    SF_allVars((Proceed(r) /\ UNCHANGED resetVars) \/ CredentialProceed(r))

--------------------------------------------------------------------------------
(* Properties.                                                                 *)

CredentialAuditEntry ==
    [type : {"created", "role_changed", "removed", "reset_issued", "reset_consumed"},
     ws : Workspaces \cup {None}, actor : Users, subject : Users,
     from : Role \cup {None}, to : Role \cup {None}]

\* Every table, lock and request variable holds a value of its kind, and no token is both
\* used and revoked.
CredentialTypeOK ==
    /\ workspaces \in SUBSET Workspaces
    /\ members \in [Workspaces -> [Users -> Role \cup {None}]]
    /\ workspaceLock \in [Workspaces -> Requests \cup {None}]
    /\ {userLock, rowLock, indexLock} \subseteq [Users -> Requests \cup {None}]
    /\ sessionVersion \in [Users -> Nat]
    /\ audit \in Seq(CredentialAuditEntry)
    /\ pc \in [Requests -> Labels \cup ResetLabels]
    /\ \A r \in Requests : call[r] = None \/ call[r] \in Call \cup ResetCall
    /\ seen \in [Requests -> Seen]
    /\ password \in [Users -> Hash]
    /\ resets \in Seq(Reset)
    /\ \A i \in DOMAIN resets : ~(resets[i].used /\ resets[i].revoked)
    /\ revoking \in [Requests -> SUBSET DOMAIN resets]
    /\ sessions \in SUBSET Session

\* A user never has two open reset tokens, whichever tenants issue them.
OneOpenReset == \A u \in Users : Cardinality(OpenResets(u)) <= 1

\* A stored password is replaced by exactly one open token of that user, which the
\* same commit uses up.
PasswordNeedsToken ==
    [][\A u \in Users :
         password'[u].secret # password[u].secret =>
             \E i \in OpenResets(u) : resets'[i].used /\ ~resets'[i].revoked]_allVars

\* A used or revoked token is never used, revoked or reopened again: its row stays as it
\* is, and no reset commits with it.
TokenClosedForGood ==
    [][/\ \A i \in DOMAIN resets :
            ~Open(i) => /\ resets'[i].used = resets[i].used
                        /\ resets'[i].revoked = resets[i].revoked
       /\ \A r \in Requests :
            pc[r] = "consumed" /\ resets' # resets /\ pc'[r] = "idle" => Open(call[r].token)
      ]_allVars

\* The middleware honours a session only if it was opened with the password that
\* is in force: a reset ends even the sign-in that was under way.
LiveSessionKnowsPassword ==
    \A s \in sessions :
        s.version = sessionVersion[s.user] => s.secret = password[s.user].secret

\* No increment of session_version is lost between resets and role changes.
VersionCountsResetsAndRoles ==
    \A u \in Users :
        sessionVersion[u] =
            Cardinality({i \in DOMAIN audit :
                            /\ audit[i].subject = u
                            /\ \/ audit[i].type = "reset_consumed"
                               \/ audit[i].type \in {"role_changed", "removed"}
                                  /\ audit[i].from # audit[i].to})

\* consume_password_reset replaces a password "exactly once": nothing but another
\* reset changes it afterwards.
ResetSticks ==
    [][\A u \in Users :
         password'[u].secret # password[u].secret =>
             sessionVersion'[u] > sessionVersion[u]]_allVars

\* The repository raises domain errors instead of leaking the driver's: the index
\* of open resets never refuses a token.
NoDriverErrorOnReset ==
    \A r \in Requests :
        pc[r] = "insert" /\ IndexFree(r) => OpenResets(call[r].target) \subseteq revoking[r]
================================================================================
