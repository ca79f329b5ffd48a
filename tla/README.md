# Workspace Core: TLA+ specifications and proofs

Specifications of `chirp_workspace_core`, the Python package that keeps the
local identities, tenant memberships, invitations, password resets, activity
and notifications of a Chirp application. The package holds no lock of its own:
every handler is a coroutine that suspends at each statement it sends to
PostgreSQL, and what keeps it correct is the order of its statements, the row
locks they take, the conditions they repeat and the unique indexes behind them.
That is what these modules are about.

Paths below are relative to the repository; `repository.py`, `activity.py` and
the like are in `src/chirp_workspace_core/`.

## 1. The system

| Component | State | Operations | Talks to |
| --- | --- | --- | --- |
| Roles and permissions (`permissions.py`, `models.py`) | none | `permissions_for_role`, `has_permission` | read by every handler |
| Memberships (`repository.py`) | `workspace_core_workspaces`, `_memberships`, `_users.session_version`, `_audit_events` | `create_workspace`, `change_role`, `remove_membership`, `require_permissions` | the workspace row lock; the user row, shared by tenants |
| Invitations (`repository.py`) | `_invitations`, `_users` | `issue_invitation`, `revoke_invitation`, `accept_invitation`, `register_from_invitation`, `create_user` | memberships, under the same workspace lock; the clock |
| Local credentials (`repository.py`, `auth.py`) | `_users.password_hash`, `_password_resets`, signed sessions | `authenticate`, `issue_password_reset`, `consume_password_reset` | memberships (authority, `session_version`); Chirp's session middleware |
| First-owner bootstrap (`repository.py`) | `_bootstrap` singleton | `bootstrap_first_owner`, `bootstrap_state` | users, workspaces |
| Activity and notifications (`activity.py`) | `_activity_events`, `_notifications`, `_notification_sequence` | `record`, `notifications_after`, `mark_read`, `list_activity` | memberships (checks, and the cascading foreign key) |
| Notification stream (`activity.py`) | a cursor per connection | `notification_event_stream`, `parse_last_event_id` | `notifications_after`, the application's `authorize` callback, the browser's `Last-Event-ID` |
| Reads (`repository.py`) | none | `principal`, `principals_for_user`, `list_audit_events` | all tables |
| Conformance application (`conformance/application.py`) | the session cookie | login, setup, pages, activity form, event stream | everything above |
| Shell, value types (`shell.py`, `events.py`, `assets/`) | immutable values | filtering, validation, rendering contracts | pages |
| Tokens, migrations (`_tokens.py`, `migrations/`) | none | digests; schema | PostgreSQL |

What is hard here, and what would make each part wrong:

- **Authority read before the lock.** Every handler resolves the actor with
  `require_permissions` before it opens its transaction. The rules are applied
  to that reading after the lock is granted.
- **One owner at least.** Two owners who demote or remove each other must not
  both count two. The count is under the workspace row lock taken by the no-op
  `UPDATE` of `_lock_workspace`.
- **Two tenants, one user.** Workspace locks do not order changes to the same
  user row: `session_version` must not lose an increment, and the unique index
  of open reset tokens is met from both sides.
- **Tokens are single-use** although they are first read without a lock.
- **Sessions.** Whatever changes a role or a password must end the sessions
  signed before it, including one whose sign-in is under way.
- **Pages and streams.** A request reads the session, the membership, the choices
  and the notifications at different awaits; a page and its stream outlive all of
  them. What they still claim when the tenants have changed has to be harmless,
  and no notification may fall between the list of a page and its stream.
- **Sequence and cursor.** A reader that has passed a number never looks below
  it: numbers must become visible in the order they are drawn.
- **Failure.** Any call may be cancelled, disconnected or cut off by a restart
  at any await.

`PROJECT.json` lists these hazards at their lines, with the properties that
cover each.

## 2. Modules

```
Roles
  Tenancy               contract of the tenants
  Memberships ── MembershipsProofs        implements Tenancy (checked and proved)
    ├─ Invitations ── InvitationsProofs    memberships and invitations; implements Tenancy
    └─ Credentials ── CredentialsProofs    memberships, resets, sign-ins; implements Tenancy
Inbox                   contract of the notifications
  Notifications ── NotificationsProofs    record, inbox, stream, browser; implements Inbox
Tenancy + Inbox
  Application ── ApplicationProofs        routes, session cookie, page, stream
Bootstrap ── BootstrapProofs              first-owner setup
MCMemberships, MCInvitations, MCCredentials, MCNotifications, MCApplication
                        (instances for TLC)
```

`Invitations` and `Credentials` extend `Memberships` with variables, labels and
actions of their own; their next-state relations contain the membership actions,
so requests of both kinds interleave under the same locks. `Application` does not
repeat those steps: each change to tenants in it is a step of `Tenancy`, each
notification a step of `Inbox`, and the modules below are shown to be
implementations of the two.

### What a step is

The database is PostgreSQL at READ COMMITTED. The table variables hold what is
committed. A request is a program counter (`pc`), its arguments (`call`) and
what it has read (`seen`; in `Notifications` one record). A statement that may
wait for a lock, that reads something another request can change, or that
commits is a step; statements of one transaction that neither wait nor read
anything contended are merged into the step of the commit, which is where their
effect becomes visible. A row lock is a variable naming its holder, set when the
locking statement runs and cleared at commit or rollback. An `UPDATE ... SET
x = x + 1` computes its value when it gets the row lock. An `UPDATE ... WHERE
open` that waits re-evaluates its condition (`RevokeOpen`, `UseToken`,
`Complete`). An `INSERT` waits for an uncommitted row with the same unique key.

`Abandon` (`CutOff` in `Credentials`) is the crash: from any label the request's
transaction is rolled back, its locks go, and the tables stay.

A call the code refuses before it opens a transaction changes nothing and is no
step; a refusal inside the transaction is one (`Refuse...`, `AddressTaken`,
`DuplicateReset`, `TokenGone`, ...), because it releases locks.

### Roles
The enumeration, the four permission sets, and the bounds that `change_role`,
`remove_membership` and `issue_invitation` apply inline.

### Tenancy
What all handlers together promise about tenants, in atomic steps: a tenant is
created with an owner (`CreateWorkspace`); a role in an existing tenant is
gained, changed or lost in the step that increments the user's `session_version`,
and an owner is left (`SetRole`); a reset increments the version too
(`ResetPassword`). Creation leaves versions alone, as the code does.
`ImplementsTenancy` in `Memberships` is this specification under the mapping that
forgets locks, requests, audit events and tokens: `Commit`, `StoreMembership` and
`CommitConsumed` are its steps and all others stutter.

### Memberships
`Authorize` is `require_permissions` (the actor's role goes to `seen`);
`LockWorkspace` is `_lock_workspace`; `ReadTarget` / `RefuseTarget` the target's
row and the bounds; `CountOwners` / `RefuseLastOwner` the last-owner guard;
`LockUser` / `SkipUser` the `session_version` update, skipped when the role stays
the same; `Commit` the row, the audit event and the end of the transaction;
`ReadBack` the read and the assertion that follow it. A removal is a change to
the role `None`. `create_workspace` is one step: nobody can name a tenant before
it is committed. Users are always active: nothing in the package writes
`is_active`.

### Invitations
An identity is its normalised address; a token is the index of its row. Time
runs in ticks, `TicksPerSecond` to a second, because `_stamp` drops what is
below the second and `_validate_invitation_state` compares with a full clock.
`Issue`, `Revoke`, `Accept`, `Register` are what each handler does before the
lock, `Decide` / `Refuse` the checks under it, `TakeUser` / `AddressTaken` the
user row, and `StoreIssued`, `StoreRevoked`, `StoreMembership` the commits.

### Credentials
A hash is a secret and whether its parameters are out of date (then
`authenticate` rewrites it, `Rehash`). A session carries the `session_version`
of the row `authenticate` read (`SignedVersion`), signed one step later (`Sign`);
the middleware honours it while it equals the user's. `SelectOpen` and
`RevokeOpen` are the two halves of the statement that revokes open tokens: the
rows its snapshot finds, then the wait and the second look. `InsertReset` and
`DuplicateReset` are the partial unique index over the open tokens of a user,
which two tenants meet without sharing a workspace lock.

### Notifications
A user of this module is a user in a tenant: all tenants draw from one sequence row
and share the activity ids, and nothing else of one is read by another. `record` as
its checks, the activity row, the sequence row
(`NextSequence`, held until the commit) and one projection per recipient;
`Leave` and `Join` stand for the commits of `remove_membership` and
`accept_invitation`, with the cascade to notifications; the stream as its
generator (`Authorize`, `Fetch`, `AuthorizeDelivery`, `Emit`), the connection
(`wire`) and the browser (`received`), which reconnects with the last id it has.
The query of `notifications_after` is its clauses: `Seqs` and the cursor condition,
`FirstOf` (`LIMIT`), `InOrder` (`ORDER BY`). They are written with sets and a
`CHOOSE`, not with the sorting operators of the library, which rest on one that TLC
implements in Java and about which nothing can be proved.

### Inbox
What a reader with a cursor may rely on: the drafts of one activity get the next
numbers, appear together, and nothing appears below a number handed out before.
`ImplementsInbox` maps the notifications table to the numbers each user can read
and the sequence row to the last one; rows that are not committed, the locks and
the streams are forgotten. A departure is `Clear`.

### Application
A browser has one document under way (`request`), one page (`page`: the tenant and
role its shell and its main part were built for, and the notifications listed) and
one stream. Each await of a route is a step:

| Route | Steps |
| --- | --- |
| workspace and commands pages | `Open`, `Authenticated` / `Anonymous`, `Principal` / `NotCurrent`, `Choices`, `List`, `ShowPage` |
| `record_activity` | `Submit`, `Authenticated`, `Principal`, `Permitted` / `NotPermitted`, `Record` / `RecordRefused`, `ShowFragment` or the redirect |
| `index` | `Visit`, `IndexPublic` / `IndexUser`, `IndexLanding` / `IndexHomeless` |
| `login_submit` | `Login`, `Authenticate`, `LoginLanding` / `LoginHomeless`, `Sign` |
| `setup_submit` | `Setup`, `CompleteSetup` / `SetupRefused`, `Sign` |
| `logout_submit` | `Logout` |
| `notification_events` | `Connect` / `ConnectRefused`, `Authorize` / `Unauthorized`, `Fetch`, `Emit`, `Drop` |

`full` tells a full load from one by htmx. `shell.html` boosts every link into
`#workspace-main`, so a boosted answer replaces the main part and leaves the
shell, its list and its stream; an answer without that element (the public page)
leaves the main part empty, and htmx ignores error statuses. `Claim`, `Change`
and `Notify` are the rest of the deployment. `principals_for_user` orders tenants by
name, which is the order of their numbers here.

A wrong password, a wrong setup token and a form of the wrong length are refused
before anything is read that these properties are about; `NotPermitted` stands
for the refusals of a note. Chirp's session middleware, htmx and the
`EventSource` are external and modelled from how the application and its
templates use them.

### Bootstrap
`bootstrap_first_owner` with the right setup token: the unlocked reading of the
singleton, the counts, the two inserts with their unique indexes, and the
conditional `UPDATE` that completes the setup, racing `create_user` and
`create_workspace`.

## 3. Runs

| Run | Instance | Shows |
| --- | --- | --- |
| `memberships` | 2 users, 2 tenants, 2 requests, 3 calls, initial roles owner, admin or viewer | `OwnerExists`, `AuditChain`, `SessionVersionCounts`, `PrivilegedRowsNeedOwner`, `ImplementsTenancy` |
| `invitations` | 2 users, 1 tenant, 2 requests, 3 calls, 2 ticks a second, 4 instants | `OneActivePerEmail`, `ClosedForGood`, `JoinConsumesInvitation`, `OnlyExpiredReplaced`, `ConsumptionNeverRaces` |
| `registration` | 2 addresses, 2 tenants with an open invitation each, 2 calls, removals among them | `IdentityCreatedOnce`, `ImplementsTenancy`, and that every call is answered |
| `credentials` | 2 users, 2 tenants, 2 secrets, 2 calls, one token out | `OneOpenReset`, `PasswordNeedsToken`, `TokenClosedForGood`, `LiveSessionKnowsPassword`, `VersionCountsResetsAndRoles`, `ImplementsTenancy` |
| `credentials_live` | 1 user, 2 tenants, 3 calls, outdated hashes | every call is answered |
| `inboxes` | 2 recipients, 2 recorders, 2 activities, 1 departure, no readers | `OneProjectionEach`, `InboxOfMembers`, `ImplementsInbox` |
| `delivery` | 1 recipient, 2 recorders, 2 activities, pages of 1, 1 departure, 1 lost connection | `NothingSkipped`, `DeliveredInOrder`, `EventuallyDelivered` |
| `bootstrap` | 2 calls at a time, 3 addresses, 2 slugs | `CompletedOnce`, `EverySetupEnds` |
| `application` | 1 browser, 1 user who visits, 2 tenants, pages of 1 and polls of 2, 1 change, 2 notifications, 1 lost connection | `SessionsOfMembers`, `StaleAuthorityHasEnded`, `RedirectsLand`, `OneLateEvent`, `RemovalClosesStream`, `EventuallyShown` |
| `admin_bounds`, `rehash`, `reset_driver_error` | as needed | the disagreements of section 6 |

Each run also checks the type invariant of its module where the module has one of
its own.

Bounds and why they are enough. `MaxCalls` bounds the calls that commit or are
under way; refused and abandoned calls are free. Every lock of this code is
taken by at most two kinds of holders and every hazard needs two requests that
overlap; the third call lets a later one find what an overlap left (a second
entry about the same membership, an invitation accepted after a removal). Two
tenants make one user row or one unique index reachable under different
workspace locks. Two ticks to the second separate a stamp from the instant it
was taken at. Pages of one row are the smallest that make a reader fetch twice
with something outstanding. `MaxDrops` and `MaxDepartures` bound how often the
environment interferes.

In `application`, browsers meet only in the database, where each other's doings
are the `Claim`, `Change` and `Notify` of the rest of the deployment, so one browser is
enough, and so is one user who visits. A change and a request that spans it are
what every property needs; a second change (leaving and returning) was tried for
the safety properties, which held in 5.3 million states, and the theorems of
section 5 cover any number of browsers, users and changes. Two notifications with
a page of one leave one that only the stream can show; two tenants make the
boosted switch between them; polls of two put a second event behind the first,
where the check before each event matters. `StartInit` gives a visitor of a
founded deployment one membership, and `CompleteSetup` and `Change` the rest.

`OpenInit` in `MCInvitations` and `MCCredentials` starts at a moment that calls
of this module reach (every tenant has an open invitation, a user has one open
token), so that the bounded calls are spent on what happens next. `credentials`
gives every user a current hash: with outdated ones `ResetSticks` fails (run
`rehash`), and then a session opened with the new password can outlive it.

`TableSpec` in `MCNotifications` leaves the streams and browsers out: the tables of
`inboxes` do not depend on who reads them, and without readers there is room for
two recipients and two activities, whose notifications have to appear together.
`delivery` has the readers, and leaves `MarkRead` out in turn (`DeliverySpec`): no stream
looks at whether a notification is read.

`StartSpec` in `MCMemberships` starts without plain members, who have a viewer's
authority in these handlers and appear by the first role change.

Symmetry is used for users, tenants, requests, secrets and activities where a
run checks no liveness; the runs with a liveness property use none.

Deadlock is checked by every run. `Rest` (all calls answered, no more to come)
is the one state in which a bounded system may stay; anything else that cannot
move is reported.

### Fairness

`InvitationFairness`, `CredentialFairness` and the ones of `Notifications` and
`Bootstrap` are strong fairness of the steps of one started request. A step that
waits for a row lock is enabled only while the lock is free, so weak fairness
would let other requests pass a waiter for ever; PostgreSQL queues the waiters of
a row and grants it in arrival order, and the event loop resumes a task whose
statement has been answered. Nothing obliges a client to call, a clock to
advance, a member to leave, or a connection to fail. For the stream, weak
fairness says that the generator is resumed, an `EventSource` reconnects, and an
event that was sent arrives unless the connection drops; a drop takes with it
what is on the wire, and the bound on drops is what makes them finitely many.

In `Application` weak fairness of `RequestStep` and `StreamStep` for each browser
says that the event loop resumes a handler and a generator, and that the htmx
extension connects again. No lock is waited for there, so weak fairness is
enough. A user need not do anything, and the deployment need not change.

## 4. Properties worth knowing

`OwnerExists` (no tenant without an owner), `PrivilegedRowsNeedOwner` (a commit
that touches or grants owner or administrator was authorised as an owner),
`SessionVersionCounts` (no lost increment across tenants), `AuditChain` (the
`from` and `to` of the entries about a membership fit together and end in the
present role), `ConsumptionNeverRaces` (the error "accepted concurrently" is
unreachable: the workspace lock alone is enough), `LiveSessionKnowsPassword` (a
sign-in that verified the old password and finishes after the reset does not
yield a session that is honoured), `OneOpenReset` across tenants,
`NothingSkipped` and `EventuallyDelivered` for the cursor, `CompletedOnce` for
the setup. For the application: `StaleAuthorityHasEnded` (a handler or a page
that works with a role its user no longer has belongs to a session that has
ended, so the next request is turned away: the two facts are read at different
times and the contract of `Tenancy` is what ties them), `RedirectsLand` and
`SessionsOfMembers` (a removal during a sign-in cannot leave a live session that
is sent to a tenant it may not enter), `OneLateEvent` and `RemovalClosesStream`
(a stream ends after a removal, at most one event late), `EventuallyShown` (what
is in the inbox of an open page gets into its list, through the list, the stream
or a reconnection). The comment above each says which behaviour it is about.

A definition whose comment starts with "Variant:" is a mistaken form of the one
after it. Nothing uses it: it serves to show that a property notices the
mistake.

## 5. Proofs

Every safety property of section 3 that a passing run checks is also a theorem,
for every value of the constants the assumptions allow, and so are the three
refinements. Six modules hold them, one for each module with a state of its own
besides the two contracts.

Each theorem follows from an inductive invariant of its module, which TLC checked
on the instances of section 3 before it was proved: the initial states satisfy it,
each action keeps it (one lemma or step per action, and in it one step per conjunct
the action can disturb), and the property follows. Action properties and
refinements are then a case for each action under that invariant.

### MembershipsProofs

| Theorem | Statement |
| --- | --- |
| `Invariance` | `Spec => []IInv` |
| `TypeCorrect` | `Spec => []TypeOK` |
| `OwnerAlwaysExists` | `Spec => []OwnerExists` |
| `VersionsCounted` | `Spec => []SessionVersionCounts` |
| `AuditIsHistory` | `Spec => []AuditChain` |
| `PrivilegedRows` | `Spec => PrivilegedRowsNeedOwner` |
| `SessionsEnd` | `Spec => RoleChangeEndsSessions` |
| `Refinement` | `Spec => ImplementsTenancy` |

`OwnerExists` is not inductive: a request at `commit` that drops an owner keeps
the invariant only if somebody else owns the tenant at that moment. `OwnerCounted`
says so, and it survives the steps of other requests because of `LocksHeld`: a
second request between its lock and its commit in the same tenant would hold the
same row lock. `TargetCurrent` (what was read of the target is still so, and
within the actor's bounds) rests on the same lock and is what both the owner
count and `PrivilegedRows` need; `VersionCurrent` (the new version is one above
the stored one while the user row is held) gives `SessionsEnd`. `CallPresent`
ties a request's label to its arguments. The step from the count to a second
owner is a lemma on finite sets: more than one member means one besides any
given element.

`VersionsCounted` and `AuditIsHistory` speak of the whole audit log, which only
grows at its end. The first needs that an entry appended adds itself, and nothing
else, to the set that is counted (`VersionCurrent` makes the stored increment the
same one); the second is kept by an entry whose `from` is the present role, which
is `TargetCurrent`, together with `NoMembersYet`: a tenant that does not exist has
no members, so its first entry starts from nothing.

`Refinement` takes `Commit` and `CreateWorkspace` to the steps of `Tenancy` and
every other action to a stutter; that an owner is left is the owner count again.

### InvitationsProofs

| Theorem | Statement |
| --- | --- |
| `InvitationInvariance` | `InvitationSpec => []InvitationInv` |
| `InvitationTypes` | `InvitationSpec => []InvitationTypeOK` |
| `OneOpenInvitation` | `InvitationSpec => []OneActivePerEmail` |
| `NoConsumptionRace` | `InvitationSpec => []ConsumptionNeverRaces` |
| `InvitationsStayClosed` | `InvitationSpec => ClosedForGood` |
| `JoinsAreInvited` | `InvitationSpec => JoinConsumesInvitation` |
| `OnlyExpiredGo` | `InvitationSpec => OnlyExpiredReplaced` |
| `RegistersOnce` | `InvitationSpec => IdentityCreatedOnce` |
| `InvitationRefinement` | `InvitationSpec => ImplementsTenancy` |

Here the handlers of two modules interleave, and a proof that took every action
with every conjunct of every request would be a product of the two. The argument
goes by what a step leaves to the others instead. `LeavesOthers(r)` says what a
step of `r` may not touch: whoever holds a tenant's row finds that tenant's members
and invitations unchanged, whoever holds a user's row finds that user's version and
registration unchanged, and nobody is moved by another's step. Each action is
shown to satisfy it once, one lemma shows that a request's part of the invariant
(`RequestInv`) survives any step of another that does, and what is left is the
request's own step.

`RequestInv` says for each label what the handler has established. The parts that
matter are `GrantStands` (what `Decide` found under the lock still holds when the
handler writes: the row open, its address that of the target, the target no member)
and `AddressFree` (the address a registration is about to insert is nobody's). The
first gives `NoConsumptionRace` and `JoinsAreInvited`; `RowsInv` (two open rows
differ in tenant or address) with `Blocked` gives `OneOpenInvitation`; `ClockRead`
(an issue compares with a clock that has only moved on) gives `OnlyExpiredGo`.

### CredentialsProofs

| Theorem | Statement |
| --- | --- |
| `CredentialInvariance` | `CredentialSpec => []CredentialInv` |
| `CredentialTypes` | `CredentialSpec => []CredentialTypeOK` |
| `OneOpenToken` | `CredentialSpec => []OneOpenReset` |
| `ClosedTokensStayClosed` | `CredentialSpec => TokenClosedForGood` |
| `ResetsAndRolesCounted` | `CredentialSpec => []VersionCountsResetsAndRoles` |
| `LiveSessionsKnow` | `CredentialSpec => []LiveSessionKnowsPassword`, where no hash is outdated |
| `PasswordsNeedTokens` | `CredentialSpec => PasswordNeedsToken`, where no hash is outdated |
| `CredentialRefinement` | `CredentialSpec => ImplementsTenancy` |

The argument is the same, with three more rows that a step leaves alone: whoever
closes a user's open reset row holds it, whoever adds an open row holds the user's
entry of the index of open resets, and whoever resets a password holds the user.
`RevokesOpen` is the heart of it: an issue that holds the index entry has exactly
the open rows of its user in its hands, so that the row it inserts is the only open
one after its commit, although another tenant's issue was under no common lock
until then.

`LiveSessionsKnow` needs what a sign-in knows and a session says: its version is
not ahead of the user's, and if it equals it then the secret is the one in force
(`Knows`, for the sessions signed and for the requests at `signed`). A role change
or a reset makes the version larger, so that the second half holds vacuously from
then on.

The hypothesis of the last two property theorems, `TRUE \notin Outdated`, says that
no stored hash needs an upgrade, which is so from the first day of a deployment to
the day the parameters of the hasher are raised. It is not a convenience: without
it both are false, because the upgrade in `authenticate` can write back the
password a reset has replaced (run `rehash`, section 6).

### NotificationsProofs

| Theorem | Statement |
| --- | --- |
| `Invariance` | `Spec => []Inv` |
| `TypeCorrect` | `Spec => []TypeOK` |
| `ProjectedOnce` | `Spec => []OneProjectionEach` |
| `OnlyMembersNotified` | `Spec => []InboxOfMembers` |
| `NothingIsSkipped` | `Spec => []NothingSkipped` |
| `OrderedDelivery` | `Spec => []DeliveredInOrder` |
| `InboxRefinement` | `Spec => ImplementsInbox` |

The invariant has two halves that meet in `nextValue`. The recorders' half
(`RecorderInv`, `OneWriterEach`): whoever has drawn a number holds the sequence row,
the rows it has written are numbered from `nextValue` on in the order of the drafts,
and nobody else has written any; so a commit makes one block of numbers visible, all
of it above what was visible before. The readers' half (`StreamInv`): what has been
received, what is on the wire and what is in the batch are in order and below
`nextValue`, what was sent leaves out nothing that lies below it, and neither does a
batch of what lies between the cursor and its end. A commit adds only above
`nextValue` and a departure only removes, so neither disturbs it; a lost connection
takes the wire away, and the cursor of the next one is the last number received.

Both halves need `PageFacts`: the page is in ascending order, its elements are the
first `PageSize` of what follows the cursor, and it is empty only if nothing follows.
That a finite set of numbers can be put in order at all (`Sortable`) is an induction
over data. The provers cannot instantiate the library's induction theorems, which
take an operator as a parameter, so it goes by the least counterexample: the set of
bounds for which the claim fails is a set of numbers, and a set of numbers that is
not empty has a least element (`LeastNumber`, from the theorem that `<` is well
founded).

### BootstrapProofs

| Theorem | Statement |
| --- | --- |
| `SetupInvariance` | `Spec => []SetupInv` |
| `SetupTypeCorrect` | `Spec => []TypeOK` |
| `OneFirstOwner` | `Spec => []CompletedOnce` |

A call at `commit` holds the row of a singleton that is still open, and the entry of
its slug in the index. The first makes its completion the only one; the second keeps
`TypeOK`, part of which is that slugs are unique.

### ApplicationProofs

| Theorem | Statement |
| --- | --- |
| `Invariance` | `Spec => []IInv` |
| `TypeCorrect` | `Spec => []TypeOK` |
| `SessionsBelong` | `Spec => []SessionsOfMembers` |
| `AuthorityEnds` | `Spec => []StaleAuthorityHasEnded` |
| `RedirectsAlwaysLand` | `Spec => []RedirectsLand` |
| `LateEventIsLast` | `Spec => []OneLateEvent` |

The invariant adds to these what makes them survive a step: no version in a
cookie, a request or a page runs ahead of the user's (`VersionsPast`), so a version
that differs has ended for good; a handler serves the session of the cookie, and
so did the one behind the page (`SameSession`); where a session that is about to
be signed leads (`Landing`); and what each label carries (`RequestFields`,
`StreamFields`). The argument has two halves. `TenancyStep` shows that every step
of the contract is `Honest`: versions only grow, and a role that somebody had
changes only with a larger version. `ClientKept` shows that a browser which does
nothing keeps its part of the invariant through any honest step, which settles
`Claim`, `Change`, `Notify` and the steps of other browsers at once. One lemma for each
kind of step of a browser (`Sending`, `Advancing`, `Refusing`, `Showing`,
`Signing`, `SettingUp`, `Streams`, `Emitting`, ...) then shows that its own part
holds again, and `BrowserMoves` and `InvariantStep` put them together. `LeastOf` (a
set of numbers has a least element) comes from the library's theorem that the finite
sets are well founded.

`Application` works on the contracts, and `Refinement`, `InvitationRefinement`,
`CredentialRefinement` and `InboxRefinement` are the proofs that the repositories
keep them.

### What is assumed

TLC evaluates each of these in the runs of its module:

| Module | Assumption | Says |
| --- | --- | --- |
| `Memberships` (and the two that extend it) | `UsersAssumption` | users are finitely many |
| | `NoneAssumption` | `None` is neither a role nor a request |
| | `CallsAssumption` | the bound on calls is a number |
| `Invitations` | `TimeAssumption` | a second has ticks; lifetimes and the bound on time are numbers |
| `Credentials` | `OutdatedAssumption` | what a hash may be is drawn from current and outdated |
| `Notifications` | `UsersAssumption`, `PageAssumption`, `BoundsAssumption`, `NobodyAssumption` | users are finitely many, a page has room for a row, bounds are numbers, nobody is neither user nor recorder |
| `Bootstrap` | `NoneAssumption` | `None` is neither a request nor what a setup is completed with |
| `Application` | `WorkspacesAssumption`, `VisitorsAssumption`, `BoundsAssumption`, `GrantedRolesAssumption`, `NoneAssumption` | tenants are numbers, the bounds are drawn from users, roles and numbers, `None` is a value of its own |

The theorems start from `InvitationInit` and `CredentialInit`. The runs that start
later (`OpenInit`, section 3) do so at states which satisfy the invariants; the
lemmas `NextInvitation` and `NextCredential` hold for every state that does.

### Only model-checked

- All liveness (`EveryCallEnds`, `EverySetupEnds`, `EventuallyDelivered`,
  `RemovalClosesStream`, `EventuallyShown`), and with it that no two requests wait
  for each other: it rests on fairness and `ENABLED`, which the prover does not
  handle.
- That the system never stops elsewhere than at `Rest`, for the same reason.
- The disagreements of section 6, which are counterexamples.

`SessionsEnd` is the opposite case: no run lists `RoleChangeEndsSessions`, because
`ImplementsTenancy` contains it.

## 6. Where the code and its documentation disagree

Shown by a run:

- `admin_bounds`: an owner demoted to administrator while waiting for the
  workspace lock still changes an administrator (`repository.py:1106`, against
  the docstring of `change_role`).
- `rehash`: the hash upgrade of `authenticate` (`repository.py:531`) restores the
  password a reset has just replaced.
- `reset_driver_error`: two tenants that issue a reset for one user together make
  one of them raise the driver's `QueryError` (`repository.py:1257`), which
  `errors.py` says handlers never see.

Visible in the models, without a run of their own:

- `register_from_invitation` (`AddressTaken`) and `record` (`RecipientGone`) let
  a `QueryError` out in the same way.
- `issue_password_reset` judges the target's role before its transaction, so a
  member promoted in between gets a token an administrator issued.
- A note whose writer is demoted after the permission check is still recorded
  (`conformance/application.py:352`): `Record` asks for a membership, not for the
  permission again. `StaleAuthorityHasEnded` says what the code does promise, that
  its session has ended.
- A lifetime below one second passes the check of `issue_invitation`
  (`repository.py:800`), whose message says at least one second, and its stamped
  expiry may already be over.
- `create_workspace` adds a membership without incrementing `session_version`,
  which `README.md` says every membership change does.
- The assertion after `change_role` (`repository.py:1151`, `assert updated is not
  None`) fails when a removal commits between the commit and the read. `ReadBack` ends the
  call either way: the change stands, and the model does not tell the two apart.
- The stream checks, then emits: one event can follow a removal that commits
  between the two, which `conformance/EVIDENCE.md:33` excludes ("no event emits
  after current authorization is lost"). `OneLateEvent` shows that it is one.
- `README.md:208` says of the stream's callback that "a role or membership change
  closes the stream". The application's `authorize` asks for a membership only:
  after a change of role, a reset or a logout the open stream goes on
  (`Application`, `StillMember`), and the version of the session is looked at
  again when the browser reconnects (`Connect`).
- A boosted switch of tenants keeps the shell of the tenant before, with its list
  and stream, and the fragment of a note saved in the new tenant joins that list
  (`ShowPage`, `ShowFragment`).
- The first poll of a stream starts from 0 and sends again what the page lists,
  and a note saved by htmx arrives with the answer and by the stream; the browser
  shows it twice. The list is a set in the model.

## 7. Not modelled

Text and URL validation, redaction of metadata keys, formatting, rendering and
assets; password hashing and its timing; digests (a fresh token never collides);
Chirp's middleware beyond the comparison of versions; the migration runner;
schema and connection errors, which refuse a call before it changes anything or
are an `Abandon`. The list operations change nothing. `mark_read` is its
`UPDATE`; the read after it can find the row gone. In the application: wrong
passwords and setup tokens, notes of the wrong length, CSRF, security headers,
health checks and static assets; requests that overlap in one browser, and an
answer that arrives after its user has gone elsewhere. In the shell: the filters
of navigation and commands by permission, the text and URL checks of its
immutable values, and `shell.js` (focus, the palette, the status line).

Three conditions are left out because nothing can depend on them here: that of the
`UPDATE` which consumes an invitation (`repository.py:972`; `ConsumptionNeverRaces`
says the row is always open), the upper bound of 30 days on a lifetime
(`MaxLifetime` bounds it anyway), and the wait between the two counts of the setup
(a tenant never exists without a user).

SQLite, which the tests use, serialises writers: its behaviours are among those
of the models.

## 8. Plan

Done: `Roles`, `Tenancy`, `Memberships`, `Invitations`, `Credentials`, `Inbox`,
`Notifications`, `Bootstrap`, `Application`, and the proofs of every safety property
and refinement that a run checks.

Next, in this order:

1. Consequences of the contracts, proved once and for all implementations: that a
   `Tenancy` keeps an owner and ends the sessions of whoever changes role, and that an
   `Inbox` never lets a number appear below one handed out.
2. The safety half of the liveness properties: that a request waits for a lock only
   while it holds none that comes later in the order tenant, address or token, user.
3. The audit chain over invitations and removals together, as `AuditIsHistory` states
   it for the membership handlers alone.
4. The filters of the shell as pure operators, against a reference definition.
