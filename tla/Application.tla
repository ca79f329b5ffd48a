------------------------------- MODULE Application -----------------------------
(* The conformance application: its routes as requests that read, one await at  *)
(* a time, what membership handlers and recorders change meanwhile; the cookie  *)
(* Chirp signs; and a browser that shows one page with its notification list    *)
(* and event stream.                                                            *)
(*                                                                              *)
(* The repositories appear as their contracts.  Every change to tenants is a    *)
(* step of Tenancy, which Memberships, Invitations and Credentials implement,   *)
(* and every notification is published as Inbox has it, which Notifications     *)
(* implements; a member who leaves a tenant leaves an empty inbox.              *)
(*                                                                              *)
(* A browser has one page and one request for a document under way.  A boosted  *)
(* link replaces the main part and keeps the shell with its list and stream; a  *)
(* full load replaces everything.  An event that is sent arrives, unless the    *)
(* connection is lost before (Notifications has events on the wire as well).    *)
EXTENDS Naturals, Sequences, FiniteSets

CONSTANTS
    Browsers,
    Users,
    Workspaces,    \* numbered in the order of their names
    Visitors,      \* bound: users who sign in, change role or reset their password
    GrantedRoles,  \* bound: what a change of role can lead to
    PageLimit,     \* notifications listed by a page
    StreamLimit,   \* notifications fetched by a poll of the stream
    MaxChanges,    \* bound: changes of tenants, memberships and passwords
    MaxNumber,     \* bound: notifications
    MaxDrops,      \* bound: connections lost
    None           \* no role, user, tenant, page or cookie

ASSUME WorkspacesAssumption == Workspaces \subseteq Nat
ASSUME VisitorsAssumption == Visitors \subseteq Users
ASSUME BoundsAssumption ==
    /\ {PageLimit, StreamLimit} \subseteq Nat \ {0}
    /\ {MaxChanges, MaxNumber, MaxDrops} \subseteq Nat

VARIABLES
    workspaces, members, sessionVersion,  \* as in Tenancy
    inbox, last,                          \* as in Inbox, a reader being <<w, u>>
    completed,   \* the bootstrap singleton
    cookie,      \* the signed session of each browser
    request,     \* the document each browser has asked for
    page,        \* what it shows
    stream,      \* its EventSource, and the generator that serves it
    changes,
    drops

Tenants == INSTANCE Tenancy
Feed    == INSTANCE Inbox WITH Readers <- Workspaces \X Users

Role == Tenants!Role

ASSUME GrantedRolesAssumption == GrantedRoles \subseteq Role

tenancy == <<workspaces, members, sessionVersion>>
feed    == <<inbox, last>>
server  == <<tenancy, feed, completed, changes>>
vars    == <<server, cookie, request, page, stream, drops>>

--------------------------------------------------------------------------------
(* State.                                                                       *)

Cookie == [user : Users, version : Nat]

\* The cookie is compared with the database when a request arrives.
Honoured(b) == cookie[b] # None /\ cookie[b].version = sessionVersion[cookie[b].user]

RequestLabels == {"idle", "auth", "principal", "permission", "record", "choices", "list",
                  "answer", "index", "principals", "authenticate", "login", "setup",
                  "sign"}

\* full: the answer replaces the document, not only its main part; redirected: the
\* application itself has sent the browser here; list: notifications in the answer.
Request == [pc : RequestLabels, activity : BOOLEAN, full : BOOLEAN, redirected : BOOLEAN,
            user : Users \cup {None}, version : Nat, ws : Workspaces \cup {None},
            role : Role \cup {None}, list : SUBSET Nat]

NoRequest == [pc |-> "idle", activity |-> FALSE, full |-> TRUE, redirected |-> FALSE,
              user |-> None, version |-> 0, ws |-> None, role |-> None, list |-> {}]

\* shell and main: the tenant and the role their navigation and forms are built for.
View == [ws : Workspaces, role : Role]
Page == [user : Users, version : Nat, shell : View, main : View \cup {None},
         shown : SUBSET Nat]

ASSUME NoneAssumption ==
    /\ None \notin Users /\ None \notin Workspaces /\ None \notin Role
    /\ None \notin Cookie /\ None \notin View /\ None \notin Page

StreamLabels == {"off", "connect", "authorize", "fetch", "deliver", "emit"}

\* lastId: the browser's; cursor, batch: the generator's; late: events sent to somebody
\* who is no longer a member, since the generator last found a membership.
Stream == [pc : StreamLabels, lastId : Nat, cursor : Nat, batch : SUBSET Nat,
           late : Nat]

NewStream == [pc |-> "connect", lastId |-> 0, cursor |-> 0, batch |-> {}, late |-> 0]
NoStream  == [NewStream EXCEPT !.pc = "off"]

Member(w, u) == members[w][u] # None

Memberships(u) == {w \in Workspaces : Member(w, u)}

\* The bound on notifications counts those about to be recorded.
NumberLeft ==
    last + Cardinality({b \in Browsers : request[b].activity /\ request[b].pc # "answer"})
        < MaxNumber

Least(numbers) == CHOOSE n \in numbers : \A m \in numbers : n <= m

FirstOf(limit, numbers) == {n \in numbers : Cardinality({m \in numbers : m < n}) < limit}

--------------------------------------------------------------------------------
(* Sending and answering a request.                                             *)

BrowserOnly == UNCHANGED <<server, cookie, drops>>

Send(b, r) ==
    /\ request[b].pc = "idle"
    /\ request' = [request EXCEPT ![b] = r]

Continue(b, r) == request' = [request EXCEPT ![b] = r]

Answered(b) == request' = [request EXCEPT ![b] = NoRequest]

\* A full load leaves the page, its list and its stream.
LeavePage(b) ==
    /\ page' = [page EXCEPT ![b] = None]
    /\ stream' = [stream EXCEPT ![b] = NoStream]

KeepPage == UNCHANGED <<page, stream>>

\* An error status: shown after a full load, ignored by htmx.
Refuse(b) ==
    /\ Answered(b)
    /\ IF request[b].full THEN LeavePage(b) ELSE KeepPage

\* The public page: htmx finds no main part in it to select.
PublicPage(b) ==
    /\ Answered(b)
    /\ IF request[b].full THEN LeavePage(b)
       ELSE page' = [page EXCEPT ![b].main = None] /\ UNCHANGED stream

\* Redirect: the browser asks for the tenant's page.
RedirectTo(b, w) ==
    Continue(b, [NoRequest EXCEPT !.pc = "auth", !.redirected = TRUE, !.ws = w,
                                  !.full = request[b].full])

--------------------------------------------------------------------------------
(* What a user does.                                                            *)

\* A link or a typed address; boosted links are in the page.
Visit(b, full) ==
    /\ ~full => page[b] # None
    /\ Send(b, [NoRequest EXCEPT !.pc = "index", !.full = full])
    /\ KeepPage /\ BrowserOnly

Open(b, w, full) ==
    /\ ~full => page[b] # None
    /\ Send(b, [NoRequest EXCEPT !.pc = "auth", !.full = full, !.ws = w])
    /\ KeepPage /\ BrowserOnly

\* The form of the main part, by htmx or without it.
Submit(b, full) ==
    /\ page[b] # None
    /\ page[b].main # None
    /\ Tenants!HasPermission(page[b].main.role, "content:write")
    /\ NumberLeft
    /\ Send(b, [NoRequest EXCEPT !.pc = "auth", !.activity = TRUE, !.full = full,
                                 !.ws = page[b].main.ws])
    /\ KeepPage /\ BrowserOnly

\* From the public page, with the right password.
Login(b, u) ==
    /\ page[b] = None
    /\ completed
    /\ Send(b, [NoRequest EXCEPT !.pc = "authenticate", !.user = u])
    /\ KeepPage /\ BrowserOnly

\* From the setup page.
Setup(b, u, w) ==
    /\ page[b] = None
    /\ ~completed
    /\ Send(b, [NoRequest EXCEPT !.pc = "setup", !.user = u, !.ws = w])
    /\ KeepPage /\ BrowserOnly

\* logout_submit has no await; its redirect leads to the index.
Logout(b) ==
    /\ page[b] # None
    /\ Send(b, [NoRequest EXCEPT !.pc = "index"])
    /\ cookie' = [cookie EXCEPT ![b] = None]
    /\ KeepPage /\ UNCHANGED <<server, drops>>

--------------------------------------------------------------------------------
(* The handlers.                                                                *)

\* AuthMiddleware, then the handler's own check that the user is authenticated.
Authenticated(b) ==
    /\ request[b].pc = "auth"
    /\ Honoured(b)
    /\ Continue(b, [request[b] EXCEPT !.pc = "principal", !.user = cookie[b].user,
                                      !.version = cookie[b].version])
    /\ KeepPage /\ BrowserOnly

Anonymous(b) ==
    /\ request[b].pc = "auth"
    /\ ~Honoured(b)
    /\ Refuse(b)
    /\ BrowserOnly

\* current_principal.
Principal(b) ==
    LET role == members[request[b].ws][request[b].user] IN
    /\ request[b].pc = "principal"
    /\ role # None
    /\ Continue(b, [request[b] EXCEPT
                        !.pc = IF request[b].activity THEN "permission" ELSE "choices",
                        !.role = role])
    /\ KeepPage /\ BrowserOnly

\* principals_for_user, for the workspace switcher.
Choices(b) ==
    /\ request[b].pc = "choices"
    /\ Member(request[b].ws, request[b].user)
    /\ Continue(b, [request[b] EXCEPT !.pc = "list"])
    /\ KeepPage /\ BrowserOnly

\* 404, or the ValidationError of a ShellContext none of whose choices is current,
\* which nothing catches.
NotCurrent(b) ==
    /\ request[b].pc \in {"principal", "choices"}
    /\ ~Member(request[b].ws, request[b].user)
    /\ Refuse(b)
    /\ BrowserOnly

\* notifications_after from the beginning: the oldest ones.
List(b) ==
    /\ request[b].pc = "list"
    /\ Continue(b, [request[b] EXCEPT
                        !.pc = "answer",
                        !.list = FirstOf(PageLimit, inbox[<<request[b].ws, request[b].user>>])])
    /\ KeepPage /\ BrowserOnly

\* The page arrives: a full one with a list and a stream of its own; a boosted one
\* replaces the main part.
ShowPage(b) ==
    LET r    == request[b]
        view == [ws |-> r.ws, role |-> r.role]
    IN
    /\ r.pc = "answer" /\ ~r.activity
    /\ IF r.full
       THEN /\ page' = [page EXCEPT ![b] = [user |-> r.user, version |-> r.version,
                                            shell |-> view, main |-> view, shown |-> r.list]]
            /\ stream' = [stream EXCEPT ![b] = NewStream]
       ELSE page' = [page EXCEPT ![b].main = view] /\ UNCHANGED stream
    /\ Answered(b)
    /\ BrowserOnly

\* require_permissions reads the membership again.
Permitted(b) ==
    LET role == members[request[b].ws][request[b].user] IN
    /\ request[b].pc = "permission"
    /\ Tenants!HasPermission(role, "content:write")
    /\ Continue(b, [request[b] EXCEPT !.pc = "record", !.role = role])
    /\ KeepPage /\ BrowserOnly

\* 403, or 422 for a note of the wrong length.
NotPermitted(b) ==
    /\ request[b].pc = "permission"
    /\ Refuse(b)
    /\ BrowserOnly

\* record(), with the actor as its only recipient.
Record(b) ==
    LET r == request[b] IN
    /\ r.pc = "record"
    /\ Member(r.ws, r.user)
    /\ Feed!Publish(<< <<r.ws, r.user>> >>)
    /\ IF r.full THEN RedirectTo(b, r.ws)
       ELSE Continue(b, [r EXCEPT !.pc = "answer", !.list = {last'}])
    /\ KeepPage /\ UNCHANGED <<tenancy, completed, changes, cookie, drops>>

\* record's ValidationError is not caught either.
RecordRefused(b) ==
    /\ request[b].pc = "record"
    /\ ~Member(request[b].ws, request[b].user)
    /\ Refuse(b)
    /\ BrowserOnly

\* The out-of-band fragment joins the list, whichever tenant the shell is of.
ShowFragment(b) ==
    /\ request[b].pc = "answer" /\ request[b].activity
    /\ page' = [page EXCEPT ![b].shown = @ \cup request[b].list]
    /\ Answered(b)
    /\ UNCHANGED stream /\ BrowserOnly

\* index: an incomplete deployment is set up, a stranger signs in.
IndexPublic(b) ==
    /\ request[b].pc = "index"
    /\ ~completed \/ ~Honoured(b)
    /\ PublicPage(b)
    /\ BrowserOnly

IndexUser(b) ==
    /\ request[b].pc = "index"
    /\ completed
    /\ Honoured(b)
    /\ Continue(b, [request[b] EXCEPT !.pc = "principals", !.user = cookie[b].user,
                                      !.version = cookie[b].version])
    /\ KeepPage /\ BrowserOnly

\* authenticate: the version is read with the password hash.
Authenticate(b) ==
    /\ request[b].pc = "authenticate"
    /\ Continue(b, [request[b] EXCEPT !.pc = "login",
                                      !.version = sessionVersion[request[b].user]])
    /\ KeepPage /\ BrowserOnly

\* principals_for_user lists tenants by name; the first is where both routes lead.
Destination(u) == Least(Memberships(u))

IndexLanding(b) ==
    /\ request[b].pc = "principals"
    /\ Memberships(request[b].user) # {}
    /\ RedirectTo(b, Destination(request[b].user))
    /\ KeepPage /\ BrowserOnly

\* 403, and the session is cleared.
IndexHomeless(b) ==
    /\ request[b].pc = "principals"
    /\ Memberships(request[b].user) = {}
    /\ cookie' = [cookie EXCEPT ![b] = None]
    /\ Refuse(b)
    /\ UNCHANGED <<server, drops>>

LoginLanding(b) ==
    /\ request[b].pc = "login"
    /\ Memberships(request[b].user) # {}
    /\ Continue(b, [request[b] EXCEPT !.pc = "sign", !.ws = Destination(request[b].user)])
    /\ KeepPage /\ BrowserOnly

LoginHomeless(b) ==
    /\ request[b].pc = "login"
    /\ Memberships(request[b].user) = {}
    /\ Refuse(b)
    /\ BrowserOnly

\* bootstrap_first_owner.
CompleteSetup(b) ==
    LET r == request[b] IN
    /\ r.pc = "setup"
    /\ ~completed
    /\ Tenants!CreateWorkspace(r.ws, r.user)
    /\ completed' = TRUE
    /\ Continue(b, [r EXCEPT !.pc = "sign", !.version = sessionVersion[r.user]])
    /\ KeepPage /\ UNCHANGED <<feed, changes, cookie, drops>>

SetupRefused(b) ==
    /\ request[b].pc = "setup"
    /\ completed
    /\ Refuse(b)
    /\ BrowserOnly

\* Variant: the session is signed with the version of the moment.
SignedNow(b) == [user |-> request[b].user, version |-> sessionVersion[request[b].user]]

\* Variant: the session carries no version.
SignedWithoutVersion(b) == [user |-> request[b].user, version |-> None]

\* login signs the user that authenticate or bootstrap_first_owner has returned.
Signed(b) == [user |-> request[b].user, version |-> request[b].version]

Sign(b) ==
    /\ request[b].pc = "sign"
    /\ cookie' = [cookie EXCEPT ![b] = Signed(b)]
    /\ RedirectTo(b, request[b].ws)
    /\ KeepPage /\ UNCHANGED <<server, drops>>

--------------------------------------------------------------------------------
(* The stream.                                                                  *)

StreamWs(b)   == page[b].shell.ws
StreamUser(b) == page[b].user
StreamInbox(b) == inbox[<<StreamWs(b), StreamUser(b)>>]

StillMember(b) == Member(StreamWs(b), StreamUser(b))

StreamOnly == UNCHANGED <<server, cookie, request>>

Generate(b, s) ==
    /\ stream' = [stream EXCEPT ![b] = s]
    /\ UNCHANGED <<page, drops>>
    /\ StreamOnly

\* Variant: a connection without Last-Event-ID starts at the present.
PresentCursor(b) == IF stream[b].lastId = 0 THEN last ELSE stream[b].lastId

\* parse_last_event_id: without a header, from the beginning.
FirstCursor(b) == stream[b].lastId

\* notification_events: the request passes the middleware like any other.  That and the
\* read of the principal are one step; nothing is sent before Authorize reads the
\* membership again.
Connect(b) ==
    /\ stream[b].pc = "connect"
    /\ Honoured(b) /\ StillMember(b)
    /\ Generate(b, [stream[b] EXCEPT !.pc = "authorize", !.cursor = FirstCursor(b)])

\* 404 closes the EventSource; the htmx extension makes a new one, which has no
\* last event id.
ConnectRefused(b) ==
    /\ stream[b].pc = "connect"
    /\ ~Honoured(b) \/ ~StillMember(b)
    /\ Generate(b, NewStream)

\* The authorize callback before a poll and before each event.
Authorize(b) ==
    /\ stream[b].pc \in {"authorize", "deliver"}
    /\ StillMember(b)
    /\ Generate(b, [stream[b] EXCEPT
                        !.pc = IF stream[b].pc = "authorize" THEN "fetch" ELSE "emit",
                        !.late = 0])

\* AuthorizationError ends the response; the EventSource connects again.
Unauthorized(b) ==
    /\ stream[b].pc \in {"authorize", "deliver"}
    /\ ~StillMember(b)
    /\ Generate(b, [NewStream EXCEPT !.lastId = stream[b].lastId])

\* Variant: authorisation is checked when the stream opens and before each event.
PollUnchecked(batch) == IF batch = {} THEN "fetch" ELSE "deliver"

\* Variant: authorisation is checked before each poll only.
EventUnchecked(batch) == IF batch = {} THEN "authorize" ELSE "emit"

\* Either way the authorize callback comes first.
Following(batch) == IF batch = {} THEN "authorize" ELSE "deliver"

Fetch(b) ==
    LET batch == FirstOf(StreamLimit, {n \in StreamInbox(b) : n > stream[b].cursor}) IN
    /\ stream[b].pc = "fetch"
    /\ Generate(b, [stream[b] EXCEPT !.pc = Following(batch), !.batch = batch])

\* The event and its arrival in the list.
Emit(b) ==
    LET n    == Least(stream[b].batch)
        rest == stream[b].batch \ {n}
    IN
    /\ stream[b].pc = "emit"
    /\ stream' = [stream EXCEPT ![b] =
           [pc |-> Following(rest), lastId |-> n, cursor |-> n, batch |-> rest,
            late |-> IF StillMember(b) THEN 0 ELSE stream[b].late + 1]]
    /\ page' = [page EXCEPT ![b].shown = @ \cup {n}]
    /\ UNCHANGED drops /\ StreamOnly

\* The connection is lost; the browser's last event id is not.
Drop(b) ==
    /\ stream[b].pc \notin {"off", "connect"}
    /\ drops < MaxDrops
    /\ stream' = [stream EXCEPT ![b] = [NewStream EXCEPT !.lastId = stream[b].lastId]]
    /\ drops' = drops + 1
    /\ UNCHANGED page /\ StreamOnly

--------------------------------------------------------------------------------
(* The rest of the deployment.                                                  *)

ClientsKeep == UNCHANGED <<cookie, request, page, stream, drops>>

\* Somebody with the setup token completes the setup elsewhere.
Claim ==
    /\ ~completed
    /\ completed' = TRUE
    /\ \E w \in Workspaces, u \in Users : Tenants!CreateWorkspace(w, u)
    /\ UNCHANGED <<feed, changes>> /\ ClientsKeep

\* A change by any handler; leaving a tenant empties the inbox there.
Change ==
    /\ completed
    /\ changes < MaxChanges
    /\ changes' = changes + 1
    /\ UNCHANGED completed /\ ClientsKeep
    /\ \E u \in Visitors :
        \/ Tenants!ResetPassword(u) /\ UNCHANGED feed
        \/ \E w \in Workspaces :
            \/ Tenants!CreateWorkspace(w, u) /\ UNCHANGED feed
            \/ \E role \in GrantedRoles :
                   Tenants!SetRole(w, u, role) /\ UNCHANGED feed
            \/ Tenants!SetRole(w, u, None) /\ Feed!Clear(<<w, u>>)

\* An activity recorded elsewhere in the product.
Notify ==
    /\ NumberLeft
    /\ \E w \in Workspaces, u \in Visitors :
           Member(w, u) /\ Feed!Publish(<< <<w, u>> >>)
    /\ UNCHANGED <<tenancy, completed, changes>> /\ ClientsKeep

Init ==
    /\ sessionVersion = [u \in Users |-> 1]
    /\ Tenants!Init
    /\ Feed!Init
    /\ completed = (workspaces # {})
    /\ cookie = [b \in Browsers |-> None]
    /\ request = [b \in Browsers |-> NoRequest]
    /\ page = [b \in Browsers |-> None]
    /\ stream = [b \in Browsers |-> NoStream]
    /\ changes = 0
    /\ drops = 0

UserStep(b) ==
    \/ \E full \in BOOLEAN :
        \/ Visit(b, full)
        \/ Submit(b, full)
        \/ \E w \in Workspaces : Open(b, w, full)
    \/ \E u \in Visitors : Login(b, u) \/ \E w \in Workspaces : Setup(b, u, w)
    \/ Logout(b)

RequestStep(b) ==
    \/ Authenticated(b)
    \/ Anonymous(b)
    \/ Principal(b)
    \/ Choices(b)
    \/ NotCurrent(b)
    \/ List(b)
    \/ ShowPage(b)
    \/ Permitted(b)
    \/ NotPermitted(b)
    \/ Record(b)
    \/ RecordRefused(b)
    \/ ShowFragment(b)
    \/ IndexPublic(b)
    \/ IndexUser(b)
    \/ Authenticate(b)
    \/ IndexLanding(b)
    \/ IndexHomeless(b)
    \/ LoginLanding(b)
    \/ LoginHomeless(b)
    \/ CompleteSetup(b)
    \/ SetupRefused(b)
    \/ Sign(b)

StreamStep(b) ==
    \/ Connect(b)
    \/ ConnectRefused(b)
    \/ Authorize(b)
    \/ Unauthorized(b)
    \/ Fetch(b)
    \/ Emit(b)

Next ==
    \/ \E b \in Browsers : UserStep(b) \/ RequestStep(b) \/ StreamStep(b) \/ Drop(b)
    \/ Claim
    \/ Change
    \/ Notify

Spec == Init /\ [][Next]_vars

\* The event loop resumes handlers and generators, and an EventSource or the htmx
\* extension connects again.  Users and the rest of the deployment need not act.
Fairness == \A b \in Browsers : WF_vars(RequestStep(b)) /\ WF_vars(StreamStep(b))

LiveSpec == Spec /\ Fairness

--------------------------------------------------------------------------------
(* Properties.                                                                  *)

\* Every variable holds a value of its kind.
TypeOK ==
    /\ workspaces \in SUBSET Workspaces
    /\ members \in [Workspaces -> [Users -> Role \cup {None}]]
    /\ sessionVersion \in [Users -> Nat]
    /\ inbox \in [Workspaces \X Users -> SUBSET Nat]
    /\ last \in Nat
    /\ completed \in BOOLEAN
    /\ cookie \in [Browsers -> Cookie \cup {None}]
    /\ request \in [Browsers -> Request]
    /\ page \in [Browsers -> Page \cup {None}]
    /\ stream \in [Browsers -> Stream]
    /\ changes \in Nat
    /\ drops \in Nat

\* A session that is honoured belongs to somebody with a tenant to go to: a removal
\* while login_submit is under way leaves it a session that is already over.
SessionsOfMembers ==
    \A b \in Browsers : Honoured(b) => Memberships(cookie[b].user) # {}

\* The role a handler or a page works with is the present one, or the session behind
\* it has ended and the next request will be turned away.
Current(version, u, view) ==
    version = sessionVersion[u] => members[view.ws][u] = view.role

PastPrincipal == {"permission", "record", "choices", "list", "answer"}

StaleAuthorityHasEnded ==
    \A b \in Browsers :
        /\ request[b].pc \in PastPrincipal =>
               Current(request[b].version, request[b].user, request[b])
        /\ page[b] # None =>
               /\ Current(page[b].version, page[b].user, page[b].shell)
               /\ page[b].main # None =>
                      Current(page[b].version, page[b].user, page[b].main)

\* The application never sends a browser to a tenant it then refuses while its session
\* is still honoured.
RedirectsLand ==
    \A b \in Browsers :
        (request[b].redirected /\ request[b].pc = "auth" /\ Honoured(b))
        => Member(request[b].ws, cookie[b].user)

\* Whoever has left a tenant receives at most one more event from a stream.
OneLateEvent == \A b \in Browsers : stream[b].late <= 1

Streaming(b) == stream[b].pc \notin {"off", "connect"}

\* The stream of somebody who has left, and does not return, ends.
RemovalClosesStream ==
    \A b \in Browsers :
        (Streaming(b) /\ ~StillMember(b)) ~> (~Streaming(b) \/ StillMember(b))

\* A notification in the inbox of an open page gets into its list, unless the page is
\* left, the session behind it has ended or the notification is gone: none falls
\* between the list of the page and the first poll of its stream, or between two
\* connections.
Missing(b, n) ==
    /\ page[b] # None
    /\ n \in StreamInbox(b)
    /\ n \notin page[b].shown
    /\ Honoured(b)
    /\ page[b].version = sessionVersion[page[b].user]
    /\ ~(request[b].pc # "idle" /\ request[b].full)

EventuallyShown ==
    \A b \in Browsers, n \in 1..MaxNumber : Missing(b, n) ~> ~Missing(b, n)
================================================================================
