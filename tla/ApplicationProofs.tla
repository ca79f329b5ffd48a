---------------------------- MODULE ApplicationProofs --------------------------
(* Machine-checked proofs about Application, for any browsers, users, tenants,  *)
(* page sizes and bounds: what a session, a page and a redirect may still claim *)
(* after the tenants have changed.                                              *)
EXTENDS Application, FiniteSetTheorems, TLAPS

--------------------------------------------------------------------------------
(* The inductive invariant.                                                     *)

\* Requests that the middleware has let through.
Handling == PastPrincipal \cup {"principal", "principals"}

\* Requests whose handler works with a user, and with a tenant.
WithUser   == Handling \cup {"authenticate", "login", "setup", "sign"}
WithTenant == PastPrincipal \cup {"auth", "principal", "setup", "sign"}

\* Nobody is a member of a tenant that does not exist.
TenantsExist == \A w \in Workspaces, u \in Users : members[w][u] # None => w \in workspaces

\* What a request at each label carries, and what page it comes from.
RequestFields(b) ==
    /\ request[b].pc \in WithUser => request[b].user \in Users
    /\ request[b].pc \in WithTenant => request[b].ws \in Workspaces
    /\ request[b].pc \in PastPrincipal => request[b].role \in Role
    /\ request[b].pc \in {"choices", "list"} => ~request[b].activity
    /\ request[b].pc = "answer" /\ request[b].activity => ~request[b].full
    /\ ~request[b].full => page[b] # None
    /\ request[b].pc \in WithUser \ Handling => page[b] = None

StreamFields(b) ==
    /\ stream[b].pc # "off" => page[b] # None
    /\ stream[b].pc \in {"deliver", "emit"} => stream[b].batch # {}
    /\ stream[b].pc \in {"fetch", "emit"} => stream[b].late = 0
    /\ stream[b].late <= 1

\* No version runs ahead of the user's: one that differs has ended for good.
VersionsPast(b) ==
    /\ cookie[b] # None => cookie[b].version <= sessionVersion[cookie[b].user]
    /\ page[b] # None => page[b].version <= sessionVersion[page[b].user]
    /\ request[b].pc \in Handling \cup {"login", "sign"} =>
           request[b].version <= sessionVersion[request[b].user]

\* A handler serves the session of the cookie, and so did the one behind the page.
SameSession(b) ==
    /\ request[b].pc \in Handling =>
           /\ cookie[b] # None
           /\ cookie[b] = [user |-> request[b].user, version |-> request[b].version]
    /\ page[b] # None =>
           cookie[b] \in {None, [user |-> page[b].user, version |-> page[b].version]}

AuthorityEnded(b) ==
    /\ request[b].pc \in PastPrincipal =>
           Current(request[b].version, request[b].user, request[b])
    /\ page[b] # None =>
           /\ Current(page[b].version, page[b].user, page[b].shell)
           /\ page[b].main # None =>
                  Current(page[b].version, page[b].user, page[b].main)

\* Where a session leads, before it is signed and after.
Landing(b) ==
    /\ Honoured(b) => Memberships(cookie[b].user) # {}
    /\ (request[b].redirected /\ request[b].pc = "auth" /\ Honoured(b)) =>
           Member(request[b].ws, cookie[b].user)
    /\ (request[b].pc = "sign" /\ request[b].version = sessionVersion[request[b].user]) =>
           Member(request[b].ws, request[b].user)

ClientInv(b) ==
    /\ RequestFields(b)
    /\ StreamFields(b)
    /\ VersionsPast(b)
    /\ SameSession(b)
    /\ AuthorityEnded(b)
    /\ Landing(b)

IInv ==
    /\ TypeOK
    /\ TenantsExist
    /\ \A b \in Browsers : ClientInv(b)

--------------------------------------------------------------------------------
(* Lemmas about the operators.                                                  *)

\* A set of numbers that is not empty has a least element: of the intervals that end
\* in it, one contains no other.
LEMMA LeastOf ==
    ASSUME NEW S \in SUBSET Nat, S # {}
    PROVE  Least(S) \in S
<1> DEFINE T == {0..n : n \in S}
<1>1. T # {} /\ T \subseteq FiniteSubsetsOf(Nat)
    <2>1. \A n \in S : IsFiniteSet(0..n) /\ 0..n \subseteq Nat
        BY FS_Interval
    <2> QED
        BY <2>1 DEF FiniteSubsetsOf
<1>2. PICK t \in T : \A s \in T : <<s, t>> \notin StrictSubsetOrdering(Nat)
    <2> HIDE DEF T
    <2> QED
        BY <1>1, FS_StrictSubsetOrderingWellFounded, WFMin
<1>3. PICK n \in S : t = 0..n
    OBVIOUS
<1>4. \A m \in S : n <= m
    <2>1. SUFFICES ASSUME NEW m \in S, m < n
                   PROVE  FALSE
        OBVIOUS
    <2>2. 0..m \subseteq 0..n /\ n \in 0..n /\ n \notin 0..m
        BY <2>1
    <2>3. 0..m \in T /\ 0..m \in SUBSET Nat /\ 0..n \in SUBSET Nat
        OBVIOUS
    <2> QED
        BY <1>2, <1>3, <2>2, <2>3 DEF StrictSubsetOrdering
<1> QED
    BY <1>4 DEF Least

\* One notification published keeps the inboxes typed.
LEMMA PublishType ==
    ASSUME TypeOK, NEW w \in Workspaces, NEW u \in Users, Feed!Publish(<< <<w, u>> >>)
    PROVE  /\ inbox' \in [Workspaces \X Users -> SUBSET Nat]
           /\ last' = last + 1
<1> DEFINE to == << <<w, u>> >>
<1>1. DOMAIN to = {1} /\ Len(to) = 1
    OBVIOUS
<1>2. \A i \in DOMAIN to : last + i \in Nat
    BY <1>1 DEF TypeOK
<1> QED
    BY <1>1, <1>2 DEF Feed!Publish, TypeOK

--------------------------------------------------------------------------------
(* What changes of tenants leave true.                                          *)

\* Versions only grow, and a role that changes takes its user's version along.
Honest ==
    /\ \A u \in Users : sessionVersion[u] <= sessionVersion'[u]
    /\ \A w \in Workspaces, u \in Users :
           (members[w][u] # None /\ sessionVersion'[u] = sessionVersion[u])
           => members'[w][u] = members[w][u]

TenancyTyped ==
    /\ workspaces \in SUBSET Workspaces
    /\ members \in [Workspaces -> [Users -> Role \cup {None}]]
    /\ sessionVersion \in [Users -> Nat]

\* Every step of the contract is honest.
LEMMA TenancyStep ==
    ASSUME TypeOK, TenantsExist, Tenants!Next
    PROVE  TenancyTyped' /\ TenantsExist' /\ Honest
<1> USE NoneAssumption
<1>1. ASSUME NEW u \in Users, Tenants!EndSessions(u)
      PROVE  /\ sessionVersion' \in [Users -> Nat]
             /\ sessionVersion'[u] = sessionVersion[u] + 1
             /\ \A v \in Users \ {u} : sessionVersion'[v] = sessionVersion[v]
    BY <1>1 DEF Tenants!EndSessions, TypeOK
<1>2. ASSUME NEW u \in Users, Tenants!ResetPassword(u)
      PROVE  TenancyTyped' /\ TenantsExist' /\ Honest
    BY <1>1, <1>2 DEF Tenants!ResetPassword, TypeOK, TenancyTyped, TenantsExist, Honest
<1>3. ASSUME NEW u \in Users, NEW w \in Workspaces, Tenants!CreateWorkspace(w, u)
      PROVE  TenancyTyped' /\ TenantsExist' /\ Honest
    <2>1. members' \in [Workspaces -> [Users -> Role \cup {None}]]
        BY <1>3 DEF Tenants!CreateWorkspace, TypeOK, Role, Tenants!Role
    <2> QED
        BY <1>3, <2>1 DEF Tenants!CreateWorkspace, TypeOK, TenancyTyped, TenantsExist, Honest
<1>4. ASSUME NEW u \in Users, NEW w \in Workspaces, NEW role \in Role \cup {None},
             Tenants!SetRole(w, u, role)
      PROVE  TenancyTyped' /\ TenantsExist' /\ Honest
    <2>1. members' \in [Workspaces -> [Users -> Role \cup {None}]]
        BY <1>4 DEF Tenants!SetRole, TypeOK
    <2>2. Tenants!EndSessions(u)
        BY <1>4 DEF Tenants!SetRole
    <2> QED
        BY <1>1, <1>4, <2>1, <2>2
        DEF Tenants!SetRole, TypeOK, TenancyTyped, TenantsExist, Honest
<1> QED
    BY <1>2, <1>3, <1>4 DEF Tenants!Next, Role

\* A version that was not ahead of its user's has fallen behind, or nothing of the
\* user's has changed.
LEMMA VersionsMove ==
    ASSUME TypeOK, TenancyTyped', Honest, NEW u \in Users, NEW n \in Nat,
           n <= sessionVersion[u]
    PROVE  /\ n <= sessionVersion'[u]
           /\ n = sessionVersion'[u] =>
                  /\ n = sessionVersion[u]
                  /\ \A w \in Workspaces :
                         members[w][u] # None => members'[w][u] = members[w][u]
<1>1. sessionVersion[u] \in Nat
    BY DEF TypeOK
<1>2. sessionVersion'[u] \in Nat
    BY DEF TenancyTyped
<1>3. sessionVersion[u] <= sessionVersion'[u]
    BY DEF Honest
<1>4. n <= sessionVersion'[u]
    BY <1>1, <1>2, <1>3
<1>5. n = sessionVersion'[u] => n = sessionVersion[u] /\ sessionVersion'[u] = sessionVersion[u]
    BY <1>1, <1>2, <1>3
<1> QED
    BY <1>4, <1>5 DEF Honest

\* A browser that does nothing keeps its part of the invariant through such a step:
\* wherever a role is no longer the present one, the version has moved on.
LEMMA ClientKept ==
    ASSUME IInv, TenancyTyped', Honest, NEW b \in Browsers,
           cookie'[b] = cookie[b], request'[b] = request[b],
           page'[b] = page[b], stream'[b] = stream[b]
    PROVE  ClientInv(b)'
<1> USE NoneAssumption
<1>1. /\ cookie[b] \in Cookie \cup {None} /\ request[b] \in Request
      /\ page[b] \in Page \cup {None}
    BY DEF IInv, TypeOK
<1>2. ClientInv(b)
    BY DEF IInv
<1>3. RequestFields(b)' /\ StreamFields(b)' /\ SameSession(b)'
    BY <1>2 DEF ClientInv, RequestFields, StreamFields, SameSession
<1>4. \A u \in Users, n \in Nat :
          n <= sessionVersion[u] =>
              /\ n <= sessionVersion'[u]
              /\ n = sessionVersion'[u] => n = sessionVersion[u]
    BY VersionsMove DEF IInv
<1>5. VersionsPast(b)'
    <2>1. cookie[b] # None => cookie[b].user \in Users /\ cookie[b].version \in Nat
        BY <1>1 DEF Cookie
    <2>2. page[b] # None => page[b].user \in Users /\ page[b].version \in Nat
        BY <1>1 DEF Page
    <2>3. request[b].version \in Nat
        BY <1>1 DEF Request
    <2> QED
        BY <1>2, <1>4, <2>1, <2>2, <2>3
        DEF ClientInv, VersionsPast, RequestFields, WithUser, Handling
<1>6. ASSUME NEW u \in Users, NEW n \in Nat, n <= sessionVersion[u],
             NEW w \in Workspaces, NEW role \in Role,
             n = sessionVersion[u] => members[w][u] = role
      PROVE  n = sessionVersion'[u] => members'[w][u] = role
    BY <1>6, VersionsMove DEF IInv
<1>7. AuthorityEnded(b)'
    <2>1. ASSUME request[b].pc \in PastPrincipal
          PROVE  Current(request[b].version, request[b].user, request[b])'
        <3>1. /\ request[b].user \in Users /\ request[b].ws \in Workspaces
              /\ request[b].role \in Role /\ request[b].version \in Nat
              /\ request[b].version <= sessionVersion[request[b].user]
            BY <1>1, <1>2, <2>1 DEF ClientInv, RequestFields, VersionsPast, WithUser,
                                    WithTenant, Handling, Request
        <3>2. Current(request[b].version, request[b].user, request[b])
            BY <1>2, <2>1 DEF ClientInv, AuthorityEnded
        <3> QED
            BY <1>6, <3>1, <3>2 DEF Current
    <2>2. ASSUME page[b] # None, NEW view \in View,
                 Current(page[b].version, page[b].user, view)
          PROVE  Current(page[b].version, page[b].user, view)'
        <3>1. /\ page[b].user \in Users /\ page[b].version \in Nat
              /\ page[b].version <= sessionVersion[page[b].user]
            BY <1>1, <1>2, <2>2 DEF ClientInv, VersionsPast, Page
        <3>2. view.ws \in Workspaces /\ view.role \in Role
            BY DEF View
        <3> QED
            BY <1>6, <2>2, <3>1, <3>2 DEF Current
    <2>3. page[b] # None =>
              page[b].shell \in View /\ (page[b].main # None => page[b].main \in View)
        BY <1>1 DEF Page
    <2> QED
        BY <1>2, <2>1, <2>2, <2>3 DEF ClientInv, AuthorityEnded
<1>8. ASSUME NEW u \in Users, NEW n \in Nat, n <= sessionVersion[u],
             NEW w \in Workspaces, n = sessionVersion'[u], Member(w, u)
      PROVE  Member(w, u)'
    BY <1>8, VersionsMove DEF IInv, Member
<1>9. Landing(b)'
    <2>1. ASSUME Honoured(b)'
          PROVE  /\ Honoured(b)
                 /\ cookie[b].user \in Users /\ cookie[b].version \in Nat
                 /\ cookie[b].version <= sessionVersion[cookie[b].user]
                 /\ cookie[b].version = sessionVersion'[cookie[b].user]
        BY <1>1, <1>2, <1>4, <2>1 DEF Honoured, Cookie, ClientInv, VersionsPast
    <2>2. Honoured(b)' => Memberships(cookie[b].user)' # {}
        BY <1>2, <1>8, <2>1 DEF ClientInv, Landing, Memberships
    <2>3. (request[b].redirected /\ request[b].pc = "auth" /\ Honoured(b)') =>
              Member(request[b].ws, cookie[b].user)'
        BY <1>2, <1>8, <2>1 DEF ClientInv, Landing, RequestFields, WithTenant
    <2>4. (request[b].pc = "sign" /\ request[b].version = sessionVersion'[request[b].user]) =>
              Member(request[b].ws, request[b].user)'
        <3>1. SUFFICES ASSUME request[b].pc = "sign",
                              request[b].version = sessionVersion'[request[b].user]
                       PROVE  Member(request[b].ws, request[b].user)'
            OBVIOUS
        <3>2. /\ request[b].user \in Users /\ request[b].ws \in Workspaces
              /\ request[b].version \in Nat
              /\ request[b].version <= sessionVersion[request[b].user]
            BY <1>1, <1>2, <3>1 DEF ClientInv, RequestFields, VersionsPast, WithUser,
                                    WithTenant, Request
        <3> QED
            BY <1>2, <1>4, <1>8, <3>1, <3>2 DEF ClientInv, Landing
    <2> QED
        BY <2>2, <2>3, <2>4 DEF Landing, Memberships, Member
<1> QED
    BY <1>3, <1>5, <1>7, <1>9 DEF ClientInv

--------------------------------------------------------------------------------
(* A browser's own steps: its variables keep their types, and its part of the   *)
(* invariant holds again.                                                       *)

\* What the invariant asks of a request r of browser b.
RequestInv(b, r) ==
    /\ r.pc \in WithUser => r.user \in Users
    /\ r.pc \in WithTenant => r.ws \in Workspaces
    /\ r.pc \in PastPrincipal =>
           r.role \in Role /\ Current(r.version, r.user, r)
    /\ r.pc \in {"choices", "list"} => ~r.activity
    /\ r.pc = "answer" /\ r.activity => ~r.full
    /\ ~r.full => page[b] # None
    /\ r.pc \in WithUser \ Handling => page[b] = None
    /\ r.pc \in Handling \cup {"login", "sign"} => r.version <= sessionVersion[r.user]
    /\ r.pc \in Handling =>
           cookie[b] # None /\ cookie[b] = [user |-> r.user, version |-> r.version]
    /\ (r.redirected /\ r.pc = "auth" /\ Honoured(b)) => Member(r.ws, cookie[b].user)
    /\ (r.pc = "sign" /\ r.version = sessionVersion[r.user]) => Member(r.ws, r.user)

\* What it asks of the page and the cookie.
PageInv(b) ==
    /\ stream[b].pc # "off" => page[b] # None
    /\ cookie[b] # None => cookie[b].version <= sessionVersion[cookie[b].user]
    /\ Honoured(b) => Memberships(cookie[b].user) # {}
    /\ page[b] # None =>
           /\ page[b].version <= sessionVersion[page[b].user]
           /\ cookie[b] \in {None, [user |-> page[b].user, version |-> page[b].version]}
           /\ Current(page[b].version, page[b].user, page[b].shell)
           /\ page[b].main # None =>
                  Current(page[b].version, page[b].user, page[b].main)

\* What it asks of the stream besides.
EventInv(b) ==
    /\ stream[b].pc \in {"deliver", "emit"} => stream[b].batch # {}
    /\ stream[b].pc \in {"fetch", "emit"} => stream[b].late = 0
    /\ stream[b].late <= 1

LEMMA ClientParts ==
    ASSUME NEW b \in Browsers
    PROVE  ClientInv(b) <=> RequestInv(b, request[b]) /\ PageInv(b) /\ EventInv(b)
BY DEF ClientInv, RequestFields, StreamFields, VersionsPast, SameSession, AuthorityEnded,
       Landing, RequestInv, PageInv, EventInv, Handling

\* The answer to a request leaves none.
LEMMA NoRequestInv ==
    ASSUME NEW b \in Browsers
    PROVE  NoRequest \in Request /\ RequestInv(b, NoRequest)
BY DEF NoRequest, Request, RequestLabels, RequestInv, WithUser, WithTenant, Handling,
       PastPrincipal

ClientTyped ==
    /\ cookie \in [Browsers -> Cookie \cup {None}]
    /\ request \in [Browsers -> Request]
    /\ page \in [Browsers -> Page \cup {None}]
    /\ stream \in [Browsers -> Stream]

\* What the other browsers see of it.
OthersKept(b) ==
    \A c \in Browsers \ {b} :
        /\ cookie'[c] = cookie[c] /\ request'[c] = request[c]
        /\ page'[c] = page[c] /\ stream'[c] = stream[c]

Kept(b) == ClientTyped' /\ ClientInv(b)' /\ OthersKept(b)

\* A step that sends, advances or ends the request and shows nothing yet.
LEMMA RequestAdvances ==
    ASSUME IInv, NEW b \in Browsers, NEW r \in Request, RequestInv(b, r),
           Continue(b, r), KeepPage, UNCHANGED <<tenancy, cookie>>
    PROVE  Kept(b)
<1>1. /\ request' \in [Browsers -> Request] /\ request'[b] = r
      /\ \A c \in Browsers \ {b} : request'[c] = request[c]
    BY DEF IInv, TypeOK, Continue
<1>2. ClientTyped'
    BY <1>1 DEF IInv, TypeOK, ClientTyped, KeepPage
<1>3. RequestInv(b, request[b])'
    BY <1>1 DEF RequestInv, Current, Honoured, Member, KeepPage, tenancy
<1>4. PageInv(b) /\ EventInv(b)
    BY ClientParts DEF IInv
<1>5. PageInv(b)' /\ EventInv(b)'
    BY <1>4 DEF PageInv, EventInv, Current, Honoured, Memberships, Member, KeepPage, tenancy
<1>6. OthersKept(b)
    BY <1>1 DEF OthersKept, KeepPage
<1>7. ClientInv(b)'
    BY <1>3, <1>5, ClientParts, PTL
<1> QED
    BY <1>2, <1>6, <1>7 DEF Kept

\* What the user does, but for signing out.
LEMMA Sending ==
    ASSUME IInv, NEW b \in Browsers, UserStep(b), ~Logout(b)
    PROVE  Kept(b)
<1> USE DEF NoRequest, Request, RequestLabels, RequestInv, WithUser, WithTenant, Handling,
            PastPrincipal, Send, Continue
<1>1. ASSUME NEW full \in BOOLEAN, Visit(b, full)
      PROVE  Kept(b)
    <2> DEFINE r == [NoRequest EXCEPT !.pc = "index", !.full = full]
    <2>1. r \in Request /\ RequestInv(b, r)
        BY <1>1 DEF Visit
    <2>2. Continue(b, r) /\ KeepPage /\ UNCHANGED <<tenancy, cookie>>
        BY <1>1 DEF Visit, BrowserOnly, server
    <2> QED
        BY <2>1, <2>2, RequestAdvances
<1>2. ASSUME NEW full \in BOOLEAN, NEW w \in Workspaces, Open(b, w, full)
      PROVE  Kept(b)
    <2> DEFINE r == [NoRequest EXCEPT !.pc = "auth", !.full = full, !.ws = w]
    <2>1. r \in Request /\ RequestInv(b, r)
        BY <1>2 DEF Open
    <2>2. Continue(b, r) /\ KeepPage /\ UNCHANGED <<tenancy, cookie>>
        BY <1>2 DEF Open, BrowserOnly, server
    <2> QED
        BY <2>1, <2>2, RequestAdvances
<1>3. ASSUME NEW full \in BOOLEAN, Submit(b, full)
      PROVE  Kept(b)
    <2> DEFINE w == page[b].main.ws
               r == [NoRequest EXCEPT !.pc = "auth", !.activity = TRUE, !.full = full,
                                      !.ws = w]
    <2>1. w \in Workspaces
        BY <1>3 DEF Submit, IInv, TypeOK, Page, View
    <2>2. r \in Request /\ RequestInv(b, r)
        BY <1>3, <2>1 DEF Submit
    <2>3. Continue(b, r) /\ KeepPage /\ UNCHANGED <<tenancy, cookie>>
        BY <1>3 DEF Submit, BrowserOnly, server
    <2> QED
        BY <2>2, <2>3, RequestAdvances
<1>4. ASSUME NEW u \in Visitors, Login(b, u)
      PROVE  Kept(b)
    <2> DEFINE r == [NoRequest EXCEPT !.pc = "authenticate", !.user = u]
    <2>1. r \in Request /\ RequestInv(b, r)
        BY <1>4, VisitorsAssumption DEF Login
    <2>2. Continue(b, r) /\ KeepPage /\ UNCHANGED <<tenancy, cookie>>
        BY <1>4 DEF Login, BrowserOnly, server
    <2> QED
        BY <2>1, <2>2, RequestAdvances
<1>5. ASSUME NEW u \in Visitors, NEW w \in Workspaces, Setup(b, u, w)
      PROVE  Kept(b)
    <2> DEFINE r == [NoRequest EXCEPT !.pc = "setup", !.user = u, !.ws = w]
    <2>1. r \in Request /\ RequestInv(b, r)
        BY <1>5, VisitorsAssumption DEF Setup
    <2>2. Continue(b, r) /\ KeepPage /\ UNCHANGED <<tenancy, cookie>>
        BY <1>5 DEF Setup, BrowserOnly, server
    <2> QED
        BY <2>1, <2>2, RequestAdvances
<1> QED
    BY <1>1, <1>2, <1>3, <1>4, <1>5 DEF UserStep

\* What a request carries once the invariant is unfolded for it.
LEMMA RequestFacts ==
    ASSUME IInv, NEW b \in Browsers
    PROVE  /\ request[b] \in Request
           /\ cookie[b] \in Cookie \cup {None}
           /\ RequestInv(b, request[b]) /\ PageInv(b) /\ EventInv(b)
BY ClientParts DEF IInv, TypeOK

\* A handler that goes on.
LEMMA Advancing ==
    ASSUME IInv, NEW b \in Browsers,
           \/ Authenticated(b) \/ Principal(b) \/ Choices(b) \/ List(b) \/ Permitted(b)
           \/ IndexUser(b) \/ Authenticate(b) \/ IndexLanding(b) \/ LoginLanding(b)
    PROVE  Kept(b)
<1> USE DEF RequestLabels, RequestInv, WithUser, WithTenant, Handling, PastPrincipal
<1> DEFINE q == request[b]
<1>1. /\ q \in Request /\ RequestInv(b, q) /\ PageInv(b)
      /\ cookie[b] \in Cookie \cup {None}
    BY RequestFacts
<1>2. ASSUME NEW pc \in {"principal", "principals"}, q.pc \in {"auth", "index"}, Honoured(b),
             pc = "principal" => q.pc = "auth",
             Continue(b, [q EXCEPT !.pc = pc, !.user = cookie[b].user,
                                   !.version = cookie[b].version]),
             KeepPage, BrowserOnly
      PROVE  Kept(b)
    <2> DEFINE r == [q EXCEPT !.pc = pc, !.user = cookie[b].user,
                              !.version = cookie[b].version]
    <2>1. cookie[b] # None /\ cookie[b] \in Cookie
        BY <1>1, <1>2 DEF Honoured
    <2>2. /\ cookie[b].user \in Users /\ cookie[b].version \in Nat
          /\ cookie[b] = [user |-> cookie[b].user, version |-> cookie[b].version]
        BY <2>1 DEF Cookie
    <2>3. r \in Request
        BY <1>1, <2>2 DEF Request
    <2>4. RequestInv(b, r)
        BY <1>1, <1>2, <2>1, <2>2 DEF PageInv, Request
    <2> QED
        BY <1>2, <2>3, <2>4, RequestAdvances DEF BrowserOnly, server
<1>3. CASE Authenticated(b)
    BY <1>2, <1>3 DEF Authenticated
<1>4. CASE IndexUser(b)
    BY <1>2, <1>4 DEF IndexUser
<1>5. CASE Principal(b)
    <2> DEFINE role == members[q.ws][q.user]
               r == [q EXCEPT !.pc = IF q.activity THEN "permission" ELSE "choices",
                              !.role = role]
    <2>1. role \in Role
        <3>1. q.ws \in Workspaces /\ q.user \in Users
            BY <1>1, <1>5 DEF Principal
        <3>2. role \in Role \cup {None}
            BY <3>1 DEF IInv, TypeOK
        <3> QED
            BY <1>5, <3>2 DEF Principal
    <2>2. r \in Request
        BY <1>1, <2>1 DEF Request
    <2>3. RequestInv(b, r)
        BY <1>1, <1>5, <2>1 DEF Principal, Request, Current
    <2> QED
        BY <1>5, <2>2, <2>3, RequestAdvances DEF Principal, BrowserOnly, server
<1>6. CASE Choices(b)
    <2> DEFINE r == [q EXCEPT !.pc = "list"]
    <2>1. r \in Request
        BY <1>1 DEF Request
    <2>2. RequestInv(b, r)
        BY <1>1, <1>6 DEF Choices, Request, Current
    <2> QED
        BY <1>6, <2>1, <2>2, RequestAdvances DEF Choices, BrowserOnly, server
<1>7. CASE List(b)
    <2> DEFINE list == FirstOf(PageLimit, inbox[<<q.ws, q.user>>])
               r == [q EXCEPT !.pc = "answer", !.list = list]
    <2>1. <<q.ws, q.user>> \in Workspaces \X Users
        BY <1>1, <1>7 DEF List
    <2>2. list \in SUBSET Nat
        BY <2>1 DEF IInv, TypeOK, FirstOf
    <2>3. r \in Request
        <3> HIDE DEF list
        <3> QED
            BY <1>1, <2>2 DEF Request
    <2>4. RequestInv(b, r)
        <3> HIDE DEF list
        <3> QED
            BY <1>1, <1>7 DEF List, Request, Current
    <2> QED
        BY <1>7, <2>3, <2>4, RequestAdvances DEF List, BrowserOnly, server
<1>8. CASE Permitted(b)
    <2> DEFINE role == members[q.ws][q.user]
               r == [q EXCEPT !.pc = "record", !.role = role]
    <2>1. role \in Role \cup {None}
        BY <1>1, <1>8 DEF Permitted, IInv, TypeOK
    <2>2. role \in Role
        BY <1>8, <2>1 DEF Permitted, Role, Tenants!Role, Tenants!HasPermission,
                          Tenants!PermissionsForRole
    <2>3. r \in Request
        BY <1>1, <2>2 DEF Request
    <2>4. RequestInv(b, r)
        BY <1>1, <1>8, <2>2 DEF Permitted, Request, Current
    <2> QED
        BY <1>8, <2>3, <2>4, RequestAdvances DEF Permitted, BrowserOnly, server
<1>9. CASE Authenticate(b)
    <2> DEFINE r == [q EXCEPT !.pc = "login", !.version = sessionVersion[q.user]]
    <2>1. q.user \in Users
        BY <1>1, <1>9 DEF Authenticate
    <2>2. sessionVersion[q.user] \in Nat
        BY <2>1 DEF IInv, TypeOK
    <2>3. r \in Request
        BY <1>1, <2>2 DEF Request
    <2>4. RequestInv(b, r)
        BY <1>1, <1>9, <2>2 DEF Authenticate, Request
    <2> QED
        BY <1>9, <2>3, <2>4, RequestAdvances DEF Authenticate, BrowserOnly, server
<1>10. ASSUME Memberships(q.user) # {}
       PROVE  /\ Destination(q.user) \in Workspaces
              /\ Member(Destination(q.user), q.user)
    <2>1. Memberships(q.user) \in SUBSET Nat
        BY WorkspacesAssumption DEF Memberships
    <2>2. Destination(q.user) \in Memberships(q.user)
        BY <1>10, <2>1, LeastOf DEF Destination
    <2> QED
        BY <2>2 DEF Memberships
<1>11. CASE IndexLanding(b)
    <2> DEFINE w == Destination(q.user)
               r == [NoRequest EXCEPT !.pc = "auth", !.redirected = TRUE, !.ws = w,
                                      !.full = q.full]
    <2>1. w \in Workspaces /\ Member(w, q.user)
        BY <1>10, <1>11 DEF IndexLanding
    <2>2. cookie[b].user = q.user
        BY <1>1, <1>11 DEF IndexLanding
    <2>3. r \in Request
        <3> HIDE DEF w
        <3> QED
            BY <1>1, <2>1 DEF Request, NoRequest
    <2>4. RequestInv(b, r)
        <3> HIDE DEF w
        <3> QED
            BY <1>1, <2>1, <2>2 DEF Request, NoRequest
    <2> QED
        BY <1>11, <2>3, <2>4, RequestAdvances DEF IndexLanding, RedirectTo, BrowserOnly, server
<1>12. CASE LoginLanding(b)
    <2> DEFINE w == Destination(q.user)
               r == [q EXCEPT !.pc = "sign", !.ws = w]
    <2>1. w \in Workspaces /\ Member(w, q.user)
        BY <1>10, <1>12 DEF LoginLanding
    <2>2. r \in Request
        <3> HIDE DEF w
        <3> QED
            BY <1>1, <2>1 DEF Request
    <2>3. RequestInv(b, r)
        <3> HIDE DEF w
        <3> QED
            BY <1>1, <1>12, <2>1 DEF LoginLanding, Request
    <2> QED
        BY <1>12, <2>2, <2>3, RequestAdvances DEF LoginLanding, BrowserOnly, server
<1> QED
    BY <1>3, <1>4, <1>5, <1>6, <1>7, <1>8, <1>9, <1>11, <1>12

\* A note that is recorded: by htmx the answer follows, without it a redirect.
LEMMA Recording ==
    ASSUME IInv, NEW b \in Browsers, Record(b)
    PROVE  Kept(b) /\ inbox' \in [Workspaces \X Users -> SUBSET Nat] /\ last' \in Nat
<1> USE DEF RequestLabels, RequestInv, WithUser, WithTenant, Handling, PastPrincipal
<1> DEFINE q == request[b]
<1>1. q \in Request /\ RequestInv(b, q)
    BY RequestFacts
<1>2. /\ inbox' \in [Workspaces \X Users -> SUBSET Nat]
      /\ last' = last + 1 /\ last' \in Nat
    BY <1>1, PublishType DEF Record, IInv, TypeOK
<1>3. CASE q.full
    <2> DEFINE r == [NoRequest EXCEPT !.pc = "auth", !.redirected = TRUE, !.ws = q.ws,
                                      !.full = q.full]
    <2>1. r \in Request
        BY <1>1, <1>3 DEF Record, Request, NoRequest
    <2>2. RequestInv(b, r)
        BY <1>1, <1>3 DEF Record, Request, NoRequest
    <2>3. Continue(b, r) /\ KeepPage /\ UNCHANGED <<tenancy, cookie>>
        BY <1>3 DEF Record, RedirectTo
    <2> QED
        BY <1>2, <2>1, <2>2, <2>3, RequestAdvances
<1>4. CASE ~q.full
    <2> DEFINE r == [q EXCEPT !.pc = "answer", !.list = {last + 1}]
    <2>1. r \in Request
        <3>1. last + 1 \in Nat
            BY DEF IInv, TypeOK
        <3> QED
            BY <1>1, <3>1 DEF Request
    <2>2. RequestInv(b, r)
        BY <1>1, <1>4 DEF Record, Request, Current
    <2>3. Continue(b, r) /\ KeepPage /\ UNCHANGED <<tenancy, cookie>>
        BY <1>2, <1>4 DEF Record
    <2> QED
        BY <1>2, <2>1, <2>2, <2>3, RequestAdvances
<1> QED
    BY <1>3, <1>4

\* A browser without a page, a stream or a request.
LEMMA NothingShown ==
    ASSUME IInv, NEW b \in Browsers, Answered(b), LeavePage(b), UNCHANGED <<tenancy, cookie>>
    PROVE  Kept(b)
<1>1. /\ request' \in [Browsers -> Request] /\ request'[b] = NoRequest
      /\ page' \in [Browsers -> Page \cup {None}] /\ page'[b] = None
      /\ stream' \in [Browsers -> Stream] /\ stream'[b] = NoStream
    BY NoRequestInv DEF IInv, TypeOK, Answered, LeavePage, NoStream, NewStream, Stream,
                        StreamLabels
<1>2. ClientTyped' /\ OthersKept(b)
    BY <1>1 DEF IInv, TypeOK, ClientTyped, OthersKept, Answered, LeavePage
<1>3. RequestInv(b, request[b])'
    BY <1>1 DEF RequestInv, NoRequest, WithUser, WithTenant, Handling, PastPrincipal
<1>4. PageInv(b)
    BY RequestFacts
<1>5. PageInv(b)' /\ EventInv(b)'
    BY <1>1, <1>4 DEF PageInv, EventInv, NoStream, NewStream, Honoured, Memberships, Member,
                      tenancy
<1>6. ClientInv(b)'
    BY <1>3, <1>5, ClientParts, PTL
<1> QED
    BY <1>2, <1>6 DEF Kept

\* A refusal, or a redirect to the public page.
LEMMA Refusing ==
    ASSUME IInv, NEW b \in Browsers, Refuse(b) \/ PublicPage(b), UNCHANGED <<tenancy, cookie>>
    PROVE  Kept(b)
<1>1. CASE request[b].full
    BY <1>1, NothingShown DEF Refuse, PublicPage
<1>2. CASE ~request[b].full /\ Refuse(b)
    BY <1>2, NoRequestInv, RequestAdvances DEF Refuse, Answered, Continue
<1>3. CASE ~request[b].full /\ PublicPage(b)
    <2>1. page[b] \in Page /\ page[b] # None
        BY <1>3, RequestFacts DEF RequestInv, IInv, TypeOK
    <2> DEFINE p == [page[b] EXCEPT !.main = None]
    <2>2. p \in Page
        BY <2>1 DEF Page
    <2>3. /\ request' \in [Browsers -> Request] /\ request'[b] = NoRequest
          /\ page' \in [Browsers -> Page \cup {None}] /\ page'[b] = p
          /\ stream' = stream
        BY <1>3, <2>2, NoRequestInv DEF IInv, TypeOK, Answered, PublicPage
    <2>4. ClientTyped' /\ OthersKept(b)
        BY <1>3, <2>3 DEF IInv, TypeOK, ClientTyped, OthersKept, Answered, PublicPage
    <2>5. RequestInv(b, request[b])'
        BY <2>3 DEF RequestInv, NoRequest, WithUser, WithTenant, Handling, PastPrincipal
    <2>6. PageInv(b) /\ EventInv(b)
        BY RequestFacts
    <2>7. /\ p.user = page[b].user /\ p.version = page[b].version
          /\ p.shell = page[b].shell /\ p.main = None
        BY <2>1 DEF Page
    <2>8. PageInv(b)' /\ EventInv(b)'
        <3> HIDE DEF p
        <3>1. EventInv(b)'
            BY <2>3, <2>6 DEF EventInv
        <3>2. cookie'[b] # None => cookie'[b].version <= sessionVersion'[cookie'[b].user]
            BY <2>6 DEF PageInv, tenancy
        <3>3. Honoured(b)' => Memberships(cookie[b].user)' # {}
            BY <2>6 DEF PageInv, Honoured, Memberships, Member, tenancy
        <3>4. p.version = sessionVersion'[p.user] =>
                  members'[p.shell.ws][p.user] = p.shell.role
            BY <2>1, <2>6, <2>7 DEF PageInv, Current, tenancy
        <3>5. cookie'[b] \in {None, [user |-> p.user, version |-> p.version]}
            BY <2>1, <2>6, <2>7 DEF PageInv
        <3>6. p.version <= sessionVersion'[p.user]
            BY <2>1, <2>6, <2>7 DEF PageInv, tenancy
        <3> QED
            BY <2>1, <2>2, <2>3, <2>7, <3>1, <3>2, <3>3, <3>4, <3>5, <3>6, NoneAssumption
            DEF PageInv, Current
    <2>9. ClientInv(b)'
        BY <2>5, <2>8, ClientParts, PTL
    <2> QED
        BY <2>4, <2>9 DEF Kept
<1> QED
    BY <1>1, <1>2, <1>3

\* Signing out, and a session nobody can use any more.
LEMMA SigningOut ==
    ASSUME IInv, NEW b \in Browsers, Logout(b) \/ IndexHomeless(b)
    PROVE  Kept(b)
<1> DEFINE r == request'[b]
<1>1. cookie' \in [Browsers -> Cookie \cup {None}] /\ cookie'[b] = None
    BY DEF IInv, TypeOK, Logout, IndexHomeless
<1>2. request' \in [Browsers -> Request] /\ r.pc \in {"idle", "index"} /\ r.full
      /\ ~r.redirected
    <2>1. request \in [Browsers -> Request]
        BY DEF IInv, TypeOK
    <2>2. CASE Logout(b)
        BY <2>1, <2>2 DEF Logout, Send, NoRequest, Request, RequestLabels
    <2>3. CASE IndexHomeless(b)
        BY <2>1, <2>3, NoRequestInv DEF IndexHomeless, Refuse, Answered, NoRequest
    <2> QED
        BY <2>2, <2>3
<1>3. /\ page' \in [Browsers -> Page \cup {None}] /\ stream' \in [Browsers -> Stream]
      /\ \/ page'[b] = page[b] /\ stream'[b] = stream[b]
         \/ page'[b] = None /\ stream'[b] = NoStream
    <2>1. /\ page \in [Browsers -> Page \cup {None}] /\ stream \in [Browsers -> Stream]
          /\ NoStream \in Stream
        BY DEF IInv, TypeOK, NoStream, NewStream, Stream, StreamLabels
    <2>2. KeepPage \/ LeavePage(b)
        BY DEF Logout, IndexHomeless, Refuse
    <2> QED
        BY <2>1, <2>2 DEF KeepPage, LeavePage
<1>4. OthersKept(b)
    BY DEF IInv, TypeOK, Logout, IndexHomeless, Refuse, KeepPage, LeavePage, Answered, Send,
           OthersKept
<1>5. RequestInv(b, request[b])'
    BY <1>2 DEF RequestInv, WithUser, WithTenant, Handling, PastPrincipal
<1>6. PageInv(b) /\ EventInv(b)
    BY RequestFacts
<1>7. UNCHANGED tenancy
    BY DEF Logout, IndexHomeless, server
<1>8. PageInv(b)' /\ EventInv(b)'
    BY <1>1, <1>3, <1>6, <1>7
    DEF PageInv, EventInv, Honoured, Current, NoStream, NewStream, tenancy
<1>9. ClientInv(b)'
    BY <1>5, <1>8, ClientParts, PTL
<1> QED
    BY <1>1, <1>2, <1>3, <1>4, <1>9 DEF Kept, ClientTyped

\* A page that arrives: it was asked for with the session of the cookie.
LEMMA Showing ==
    ASSUME IInv, NEW b \in Browsers, ShowPage(b)
    PROVE  Kept(b)
<1> DEFINE q    == request[b]
           view == [ws |-> q.ws, role |-> q.role]
           new  == [user |-> q.user, version |-> q.version, shell |-> view, main |-> view,
                    shown |-> q.list]
           old  == [page[b] EXCEPT !.main = view]
<1>1. /\ q \in Request /\ RequestInv(b, q) /\ PageInv(b) /\ EventInv(b)
    BY RequestFacts
<1>2. /\ q.user \in Users /\ q.version \in Nat /\ q.list \in SUBSET Nat /\ view \in View
      /\ q.version <= sessionVersion[q.user]
      /\ cookie[b] = [user |-> q.user, version |-> q.version] /\ cookie[b] # None
      /\ Current(q.version, q.user, view)
    BY <1>1 DEF ShowPage, RequestInv, WithUser, WithTenant, Handling, PastPrincipal, Request,
                View, Current
<1>3. /\ request' \in [Browsers -> Request] /\ request'[b] = NoRequest
      /\ cookie' = cookie /\ UNCHANGED tenancy
    BY NoRequestInv DEF IInv, TypeOK, Answered, ShowPage, BrowserOnly, server
<1>4. RequestInv(b, request[b])'
    BY <1>3 DEF RequestInv, NoRequest, WithUser, WithTenant, Handling, PastPrincipal
<1>5. /\ cookie'[b] # None => cookie'[b].version <= sessionVersion'[cookie'[b].user]
      /\ Honoured(b)' => Memberships(cookie[b].user)' # {}
    BY <1>1, <1>3 DEF PageInv, Honoured, Memberships, Member, tenancy
<1>6. ASSUME NEW p \in Page, page'[b] = p,
             p.user = q.user, p.version = q.version, p.main = view,
             Current(p.version, p.user, p.shell)
      PROVE  PageInv(b)'
    BY <1>2, <1>3, <1>5, <1>6, NoneAssumption DEF PageInv, Current, tenancy
<1>7. CASE q.full
    <2>1. new \in Page
        <3> HIDE DEF view
        <3> QED
            BY <1>2 DEF Page
    <2>2. NewStream \in Stream
        BY DEF NewStream, Stream, StreamLabels
    <2>3. /\ page' = [page EXCEPT ![b] = new] /\ stream' = [stream EXCEPT ![b] = NewStream]
        BY <1>7 DEF ShowPage
    <2>4. /\ page' \in [Browsers -> Page \cup {None}] /\ page'[b] = new
          /\ stream' \in [Browsers -> Stream] /\ stream'[b] = NewStream
        <3> HIDE DEF new
        <3> QED
            BY <2>1, <2>2, <2>3 DEF IInv, TypeOK
    <2>5. PageInv(b)'
        BY <1>2, <1>6, <2>1, <2>4
    <2>6. EventInv(b)'
        BY <2>4 DEF EventInv, NewStream
    <2>7. OthersKept(b)
        <3> HIDE DEF new
        <3> QED
            BY <1>3, <2>3 DEF IInv, TypeOK, OthersKept, ShowPage, Answered
    <2>8. ClientTyped'
        BY <1>3, <2>4 DEF IInv, TypeOK, ClientTyped
    <2>9. ClientInv(b)'
        BY <1>4, <2>5, <2>6, ClientParts, PTL
    <2> QED
        BY <2>7, <2>8, <2>9 DEF Kept
<1>8. CASE ~q.full
    <2>1. page[b] \in Page /\ page[b] # None
        BY <1>1, <1>8 DEF RequestInv, IInv, TypeOK
    <2>2. /\ old \in Page /\ old.user = page[b].user /\ old.version = page[b].version
          /\ old.shell = page[b].shell /\ old.main = view
        <3> HIDE DEF view
        <3> QED
            BY <1>2, <2>1 DEF Page
    <2>3. page[b].user = q.user /\ page[b].version = q.version
        BY <1>1, <1>2, <2>1 DEF PageInv
    <2>4. page' = [page EXCEPT ![b] = old] /\ stream' = stream
        BY <1>8 DEF ShowPage
    <2>5. page' \in [Browsers -> Page \cup {None}] /\ page'[b] = old
        <3> HIDE DEF old
        <3> QED
            BY <2>2, <2>4 DEF IInv, TypeOK
    <2>6. PageInv(b)'
        <3>1. Current(old.version, old.user, old.shell)
            BY <1>1, <2>1, <2>2 DEF PageInv
        <3> HIDE DEF old, view
        <3> QED
            BY <1>6, <2>2, <2>3, <2>5, <3>1
    <2>7. EventInv(b)'
        BY <1>1, <2>4 DEF EventInv
    <2>8. OthersKept(b)
        <3> HIDE DEF old
        <3> QED
            BY <1>3, <2>4 DEF IInv, TypeOK, OthersKept, ShowPage, Answered
    <2>9. ClientTyped'
        BY <1>3, <2>4, <2>5 DEF IInv, TypeOK, ClientTyped
    <2>10. ClientInv(b)'
        BY <1>4, <2>6, <2>7, ClientParts, PTL
    <2> QED
        BY <2>8, <2>9, <2>10 DEF Kept
<1> QED
    BY <1>7, <1>8

\* More notifications in the list disturb nothing else.
LEMMA Listing ==
    ASSUME IInv, NEW b \in Browsers, page[b] # None, NEW numbers \in SUBSET Nat,
           page' = [page EXCEPT ![b].shown = @ \cup numbers],
           UNCHANGED <<tenancy, cookie>>
    PROVE  /\ page' \in [Browsers -> Page \cup {None}] /\ page'[b] # None
           /\ PageInv(b)'
<1> DEFINE p == [page[b] EXCEPT !.shown = @ \cup numbers]
<1>1. page[b] \in Page
    BY DEF IInv, TypeOK
<1>2. /\ p \in Page /\ p.user = page[b].user /\ p.version = page[b].version
      /\ p.shell = page[b].shell /\ p.main = page[b].main
    BY <1>1 DEF Page
<1>3. page' \in [Browsers -> Page \cup {None}] /\ page'[b] = p
    BY <1>2 DEF IInv, TypeOK
<1>4. p # None
    BY <1>2, NoneAssumption
<1>5. PageInv(b)
    BY RequestFacts
<1>6. /\ cookie'[b] # None => cookie'[b].version <= sessionVersion'[cookie'[b].user]
      /\ Honoured(b)' => Memberships(cookie[b].user)' # {}
    BY <1>5 DEF PageInv, Honoured, Memberships, Member, tenancy
<1>7. PageInv(b)'
    <2> HIDE DEF p
    <2> QED
        BY <1>2, <1>3, <1>4, <1>5, <1>6 DEF PageInv, Current, tenancy
<1> QED
    BY <1>3, <1>4, <1>7

LEMMA ShowingFragment ==
    ASSUME IInv, NEW b \in Browsers, ShowFragment(b)
    PROVE  Kept(b)
<1>1. request[b] \in Request /\ RequestInv(b, request[b]) /\ EventInv(b)
    BY RequestFacts
<1>2. page[b] # None /\ request[b].list \in SUBSET Nat
    BY <1>1 DEF ShowFragment, RequestInv, Request
<1>3. UNCHANGED <<tenancy, cookie>> /\ stream' = stream
    BY DEF ShowFragment, BrowserOnly, server
<1>4. /\ page' \in [Browsers -> Page \cup {None}] /\ page'[b] # None
      /\ PageInv(b)'
    BY <1>2, <1>3, Listing DEF ShowFragment
<1>5. request' \in [Browsers -> Request] /\ request'[b] = NoRequest
    BY NoRequestInv DEF IInv, TypeOK, Answered, ShowFragment
<1>6. RequestInv(b, request[b])' /\ EventInv(b)'
    BY <1>1, <1>3, <1>5 DEF RequestInv, EventInv, NoRequest, WithUser, WithTenant, Handling,
                            PastPrincipal
<1>7. OthersKept(b)
    BY <1>3 DEF IInv, TypeOK, OthersKept, ShowFragment, Answered
<1>8. ClientInv(b)'
    BY <1>4, <1>6, ClientParts, PTL
<1>9. ClientTyped'
    BY <1>3, <1>4, <1>5 DEF IInv, TypeOK, ClientTyped
<1> QED
    BY <1>7, <1>8, <1>9 DEF Kept

\* The session that is signed: where it leads, its user was a member, or it is over.
LEMMA Signing ==
    ASSUME IInv, NEW b \in Browsers, Sign(b)
    PROVE  Kept(b)
<1> DEFINE q == request[b]
           k == [user |-> q.user, version |-> q.version]
           r == [NoRequest EXCEPT !.pc = "auth", !.redirected = TRUE, !.ws = q.ws,
                                  !.full = q.full]
<1>1. q \in Request /\ RequestInv(b, q) /\ PageInv(b) /\ EventInv(b)
    BY RequestFacts
<1>2. /\ q.user \in Users /\ q.ws \in Workspaces /\ q.version \in Nat /\ q.full \in BOOLEAN
      /\ q.version <= sessionVersion[q.user]
      /\ q.version = sessionVersion[q.user] => Member(q.ws, q.user)
      /\ page[b] = None /\ q.full
    BY <1>1 DEF Sign, RequestInv, WithUser, WithTenant, Handling, PastPrincipal, Request
<1>3. k \in Cookie /\ k.user = q.user /\ k.version = q.version
    BY <1>2 DEF Cookie
<1>4. r \in Request
    BY <1>2 DEF Request, NoRequest, RequestLabels
<1>5. /\ cookie' \in [Browsers -> Cookie \cup {None}] /\ cookie'[b] = k
      /\ request' \in [Browsers -> Request] /\ request'[b] = r
      /\ page' = page /\ stream' = stream /\ UNCHANGED tenancy
    <2>1. /\ cookie' = [cookie EXCEPT ![b] = k] /\ request' = [request EXCEPT ![b] = r]
          /\ page' = page /\ stream' = stream /\ UNCHANGED tenancy
        BY DEF Sign, Signed, RedirectTo, Continue, KeepPage, server
    <2> HIDE DEF k, r
    <2> QED
        BY <1>3, <1>4, <2>1 DEF IInv, TypeOK
<1>6. Honoured(b)' => members'[q.ws][q.user] # None
    <2> HIDE DEF k
    <2> QED
        BY <1>2, <1>3, <1>5 DEF Honoured, Member, tenancy
<1>7. RequestInv(b, request[b])'
    <2>1. /\ r.pc = "auth" /\ r.ws = q.ws /\ r.full = q.full
        BY DEF NoRequest
    <2>2. /\ request'[b].pc = "auth" /\ request'[b].ws = q.ws /\ request'[b].full = q.full
          /\ cookie'[b].user = q.user
        BY <1>3, <1>5, <2>1
    <2> HIDE DEF k, r
    <2> QED
        BY <1>2, <1>5, <1>6, <2>2
        DEF RequestInv, WithUser, WithTenant, Handling, PastPrincipal, Member
<1>8. PageInv(b)'
    <2>1. stream'[b].pc = "off"
        BY <1>1, <1>2, <1>5 DEF PageInv
    <2>2. cookie'[b].version <= sessionVersion'[cookie'[b].user]
        BY <1>2, <1>3, <1>5 DEF tenancy
    <2>3. Honoured(b)' => Memberships(cookie[b].user)' # {}
        BY <1>2, <1>3, <1>5, <1>6 DEF Memberships, Member
    <2> HIDE DEF k, r
    <2> QED
        BY <1>2, <1>5, <2>1, <2>2, <2>3 DEF PageInv
<1>9. EventInv(b)'
    BY <1>1, <1>5 DEF EventInv
<1>10. OthersKept(b)
    BY <1>5 DEF OthersKept, Sign, RedirectTo, Continue, IInv, TypeOK
<1>11. ClientInv(b)'
    BY <1>7, <1>8, <1>9, ClientParts, PTL
<1>12. ClientTyped'
    BY <1>5 DEF IInv, TypeOK, ClientTyped
<1> QED
    BY <1>10, <1>11, <1>12 DEF Kept

\* The setup that completes: its user owns the tenant the browser is sent to.
LEMMA SettingUp ==
    ASSUME IInv, NEW b \in Browsers, CompleteSetup(b)
    PROVE  Kept(b) /\ Tenants!Next
<1> DEFINE q == request[b]
           r == [q EXCEPT !.pc = "sign", !.version = sessionVersion[q.user]]
<1>1. /\ q \in Request /\ RequestInv(b, q) /\ PageInv(b) /\ EventInv(b)
      /\ cookie[b] \in Cookie \cup {None}
    BY RequestFacts
<1>2. /\ q.user \in Users /\ q.ws \in Workspaces /\ q.full \in BOOLEAN
      /\ page[b] = None /\ q.full
    BY <1>1 DEF CompleteSetup, RequestInv, WithUser, WithTenant, Handling, PastPrincipal,
                Request
<1>3. Tenants!CreateWorkspace(q.ws, q.user)
    BY DEF CompleteSetup
<1>4. Tenants!Next
    BY <1>2, <1>3 DEF Tenants!Next
<1>5. TenancyTyped' /\ Honest
    BY <1>4, TenancyStep DEF IInv
<1>6. sessionVersion[q.user] \in Nat /\ sessionVersion' = sessionVersion
    BY <1>2, <1>3 DEF Tenants!CreateWorkspace, IInv, TypeOK
<1>7. r \in Request
    BY <1>1, <1>6 DEF Request, RequestLabels
<1>8. /\ request' \in [Browsers -> Request] /\ request'[b] = r
      /\ cookie' = cookie /\ page' = page /\ stream' = stream
    <2>1. /\ request' = [request EXCEPT ![b] = r]
          /\ cookie' = cookie /\ page' = page /\ stream' = stream
        BY DEF CompleteSetup, Continue, KeepPage
    <2> HIDE DEF r
    <2> QED
        BY <1>7, <2>1 DEF IInv, TypeOK
<1>9. members'[q.ws][q.user] # None
    <2>1. members'[q.ws][q.user] = "owner"
        BY <1>2, <1>3 DEF Tenants!CreateWorkspace, IInv, TypeOK
    <2> QED
        BY <2>1, NoneAssumption DEF Role, Tenants!Role
<1>10. RequestInv(b, request[b])'
    <2>1. /\ request'[b].pc = "sign" /\ request'[b].ws = q.ws /\ request'[b].user = q.user
          /\ request'[b].full = q.full /\ request'[b].version = sessionVersion[q.user]
        BY <1>1, <1>8 DEF Request
    <2> HIDE DEF r
    <2> QED
        BY <1>2, <1>6, <1>8, <1>9, <2>1
        DEF RequestInv, WithUser, WithTenant, Handling, PastPrincipal, Member
<1>11. PageInv(b)'
    <2>1. stream'[b].pc = "off"
        BY <1>1, <1>2, <1>8 DEF PageInv
    <2>2. cookie[b] # None => cookie[b].user \in Users /\ cookie[b].version \in Nat
        BY <1>1 DEF Cookie
    <2>3. cookie'[b] # None => cookie'[b].version <= sessionVersion'[cookie'[b].user]
        BY <1>1, <1>6, <1>8 DEF PageInv
    <2>4. ASSUME Honoured(b)'
          PROVE  Memberships(cookie[b].user)' # {}
        <3>1. Honoured(b)
            BY <1>6, <1>8, <2>4 DEF Honoured
        <3>2. PICK w \in Workspaces : Member(w, cookie[b].user)
            BY <1>1, <3>1 DEF PageInv, Memberships
        <3>3. members'[w][cookie[b].user] = members[w][cookie[b].user]
            BY <1>5, <1>6, <2>2, <3>1, <3>2 DEF Honest, Honoured, Member
        <3> QED
            BY <1>8, <3>2, <3>3 DEF Memberships, Member
    <2> QED
        BY <1>2, <1>8, <2>1, <2>3, <2>4 DEF PageInv
<1>12. EventInv(b)'
    BY <1>1, <1>8 DEF EventInv
<1>13. OthersKept(b)
    BY <1>8 DEF OthersKept, CompleteSetup, Continue, IInv, TypeOK
<1>14. ClientInv(b)'
    BY <1>10, <1>11, <1>12, ClientParts, PTL
<1>15. ClientTyped'
    BY <1>8 DEF IInv, TypeOK, ClientTyped
<1> QED
    BY <1>4, <1>13, <1>14, <1>15 DEF Kept

\* A stream that moves on.
LEMMA StreamMoves ==
    ASSUME IInv, NEW b \in Browsers, stream[b].pc # "off", NEW s \in Stream,
           s.pc \in {"deliver", "emit"} => s.batch # {},
           s.pc \in {"fetch", "emit"} => s.late = 0,
           s.late <= 1,
           stream' = [stream EXCEPT ![b] = s],
           UNCHANGED <<tenancy, cookie, request, page>>
    PROVE  Kept(b)
<1>1. stream' \in [Browsers -> Stream] /\ stream'[b] = s
    BY DEF IInv, TypeOK
<1>2. RequestInv(b, request[b]) /\ PageInv(b) /\ EventInv(b)
    BY RequestFacts
<1>3. RequestInv(b, request[b])'
    BY <1>2 DEF RequestInv, Current, Honoured, Member, tenancy
<1>4. PageInv(b)'
    BY <1>2 DEF PageInv, Current, Honoured, Memberships, Member, tenancy
<1>5. EventInv(b)'
    BY <1>1 DEF EventInv
<1>6. ClientInv(b)'
    BY <1>3, <1>4, <1>5, ClientParts, PTL
<1>7. ClientTyped' /\ OthersKept(b)
    BY <1>1 DEF IInv, TypeOK, ClientTyped, OthersKept
<1> QED
    BY <1>6, <1>7 DEF Kept

\* The generator, but for the event itself, and the connection.
LEMMA Streams ==
    ASSUME IInv, NEW b \in Browsers,
           \/ Connect(b) \/ ConnectRefused(b) \/ Authorize(b) \/ Unauthorized(b) \/ Fetch(b)
           \/ Drop(b)
    PROVE  Kept(b)
<1> DEFINE s == stream[b]
<1>1. s \in Stream /\ EventInv(b)
    BY RequestFacts DEF IInv, TypeOK
<1>2. /\ s.lastId \in Nat /\ s.cursor \in Nat /\ s.batch \in SUBSET Nat /\ s.late \in Nat
      /\ s.pc \in StreamLabels
    BY <1>1 DEF Stream
<1>3. UNCHANGED <<tenancy, cookie, request, page>>
    BY DEF Connect, ConnectRefused, Authorize, Unauthorized, Fetch, Drop, Generate, StreamOnly,
           server
<1>4. s.pc # "off"
    BY DEF Connect, ConnectRefused, Authorize, Unauthorized, Fetch, Drop
<1>5. CASE Connect(b)
    <2> DEFINE t == [s EXCEPT !.pc = "authorize", !.cursor = FirstCursor(b)]
    <2>1. /\ t \in Stream /\ t.pc = "authorize" /\ t.late = s.late
        BY <1>1, <1>2 DEF Stream, StreamLabels, FirstCursor
    <2>2. stream' = [stream EXCEPT ![b] = t]
        BY <1>5 DEF Connect, Generate
    <2> HIDE DEF t
    <2> QED
        BY <1>1, <1>3, <1>4, <2>1, <2>2, StreamMoves DEF EventInv
<1>6. ASSUME NEW id \in Nat, stream' = [stream EXCEPT ![b] = [NewStream EXCEPT !.lastId = id]]
      PROVE  Kept(b)
    <2> DEFINE t == [NewStream EXCEPT !.lastId = id]
    <2>1. t \in Stream /\ t.pc = "connect" /\ t.late <= 1
        BY DEF Stream, StreamLabels, NewStream
    <2>2. stream' = [stream EXCEPT ![b] = t]
        BY <1>6
    <2> HIDE DEF t
    <2> QED
        BY <1>3, <1>4, <2>1, <2>2, StreamMoves
<1>7. CASE ConnectRefused(b)
    <2>1. NewStream = [NewStream EXCEPT !.lastId = 0]
        BY DEF NewStream
    <2>2. stream' = [stream EXCEPT ![b] = NewStream]
        BY <1>7 DEF ConnectRefused, Generate
    <2> QED
        BY <1>6, <2>1, <2>2
<1>8. CASE Unauthorized(b)
    BY <1>2, <1>6, <1>8 DEF Unauthorized, Generate
<1>9. CASE Drop(b)
    BY <1>2, <1>6, <1>9 DEF Drop
<1>10. CASE Authorize(b)
    <2> DEFINE t == [s EXCEPT !.pc = IF s.pc = "authorize" THEN "fetch" ELSE "emit",
                              !.late = 0]
    <2>1. t \in Stream
        BY <1>1, <1>2 DEF Stream, StreamLabels
    <2>2. t.late = 0 /\ t.batch = s.batch /\ t.pc \in {"fetch", "emit"}
        BY <1>1 DEF Stream
    <2>3. t.pc = "emit" => t.batch # {}
        BY <1>1, <1>10, <2>2 DEF Stream, EventInv, Authorize
    <2>4. stream' = [stream EXCEPT ![b] = t]
        BY <1>10 DEF Authorize, Generate
    <2> HIDE DEF t
    <2>5. t.late <= 1
        BY <2>2
    <2> QED
        BY <1>3, <1>4, <2>1, <2>2, <2>3, <2>4, <2>5, StreamMoves
<1>11. CASE Fetch(b)
    <2> DEFINE batch == FirstOf(StreamLimit, {n \in StreamInbox(b) : n > s.cursor})
               t     == [s EXCEPT !.pc = Following(batch), !.batch = batch]
    <2>1. batch \in SUBSET Nat
        <3>1. page[b] # None
            BY <1>4, RequestFacts DEF PageInv
        <3>2. page[b].user \in Users /\ page[b].shell.ws \in Workspaces
            BY <3>1 DEF IInv, TypeOK, Page, View
        <3>3. StreamInbox(b) \in SUBSET Nat
            BY <3>2 DEF StreamInbox, StreamWs, StreamUser, IInv, TypeOK
        <3> QED
            BY <3>3 DEF FirstOf
    <2>2. stream' = [stream EXCEPT ![b] = t]
        BY <1>11 DEF Fetch, Generate
    <2>3. /\ t \in Stream /\ t.pc = Following(batch) /\ t.late <= 1 /\ t.batch = batch
        <3>1. Following(batch) \in StreamLabels
            BY DEF Following, StreamLabels
        <3> HIDE DEF batch
        <3> QED
            BY <1>1, <2>1, <3>1 DEF Stream, EventInv
    <2>4. /\ t.pc \in {"authorize", "deliver"}
          /\ t.pc = "deliver" => t.batch # {}
        <3> HIDE DEF batch, t
        <3> QED
            BY <2>3 DEF Following
    <2> HIDE DEF t
    <2> QED
        BY <1>3, <1>4, <2>2, <2>3, <2>4, StreamMoves
<1> QED
    BY <1>5, <1>7, <1>8, <1>9, <1>10, <1>11

LEMMA Emitting ==
    ASSUME IInv, NEW b \in Browsers, Emit(b)
    PROVE  Kept(b)
<1> DEFINE s == stream[b]
           n == Least(s.batch)
           rest == s.batch \ {n}
           t == [pc |-> Following(rest), lastId |-> n, cursor |-> n, batch |-> rest,
                 late |-> IF StillMember(b) THEN 0 ELSE s.late + 1]
<1>1. s \in Stream /\ RequestInv(b, request[b]) /\ PageInv(b) /\ EventInv(b)
    BY RequestFacts DEF IInv, TypeOK
<1>2. s.batch \in SUBSET Nat /\ s.batch # {} /\ s.late = 0 /\ page[b] # None
    BY <1>1 DEF Stream, EventInv, PageInv, Emit
<1>3. n \in Nat
    BY <1>2, LeastOf
<1>4. /\ t \in Stream /\ t.pc = Following(rest) /\ t.batch = rest /\ t.late <= 1
    <2> HIDE DEF n
    <2> QED
        BY <1>2, <1>3 DEF Stream, StreamLabels, Following
<1>5. /\ stream' = [stream EXCEPT ![b] = t]
      /\ page' = [page EXCEPT ![b].shown = @ \cup {n}]
      /\ UNCHANGED <<tenancy, cookie, request>>
    BY DEF Emit, StreamOnly, server
<1>6. /\ page' \in [Browsers -> Page \cup {None}] /\ page'[b] # None
      /\ PageInv(b)'
    <2>1. {n} \in SUBSET Nat
        BY <1>3
    <2> HIDE DEF n, t
    <2> QED
        BY <1>2, <1>5, <2>1, Listing
<1>7. stream' \in [Browsers -> Stream] /\ stream'[b] = t
    <2> HIDE DEF t
    <2> QED
        BY <1>4, <1>5 DEF IInv, TypeOK
<1>8. EventInv(b)'
    <2> HIDE DEF rest, t
    <2> QED
        BY <1>4, <1>7 DEF EventInv, Following
<1>9. RequestInv(b, request[b])'
    BY <1>1, <1>2, <1>5, <1>6 DEF RequestInv, Current, Honoured, Member, tenancy
<1>10. ClientInv(b)'
    BY <1>6, <1>8, <1>9, ClientParts, PTL
<1>11. ClientTyped' /\ OthersKept(b)
    <2> HIDE DEF n, t
    <2> QED
        BY <1>5, <1>6, <1>7 DEF IInv, TypeOK, ClientTyped, OthersKept
<1> QED
    BY <1>10, <1>11 DEF Kept

--------------------------------------------------------------------------------
(* Every step.                                                                  *)

ServerTyped ==
    /\ inbox \in [Workspaces \X Users -> SUBSET Nat]
    /\ last \in Nat
    /\ completed \in BOOLEAN
    /\ changes \in Nat
    /\ drops \in Nat

LEMMA ServerKept ==
    ASSUME IInv, UNCHANGED <<server, drops>>
    PROVE  UNCHANGED tenancy /\ ServerTyped'
BY DEF IInv, TypeOK, ServerTyped, server, feed

\* A step of a browser, of its request or of its stream.
LEMMA BrowserMoves ==
    ASSUME IInv, NEW b \in Browsers,
           UserStep(b) \/ RequestStep(b) \/ StreamStep(b) \/ Drop(b)
    PROVE  Kept(b) /\ (UNCHANGED tenancy \/ Tenants!Next) /\ ServerTyped'
<1>1. CASE UserStep(b) /\ ~Logout(b)
    <2>1. BrowserOnly
        BY <1>1, Zenon DEF UserStep, Visit, Open, Submit, Login, Setup
    <2>2. UNCHANGED <<server, drops>>
        BY <2>1 DEF BrowserOnly
    <2> QED
        BY <1>1, <2>2, Sending, ServerKept
<1>2. CASE Logout(b) \/ IndexHomeless(b)
    <2>1. UNCHANGED <<server, drops>>
        BY <1>2 DEF Logout, IndexHomeless
    <2> QED
        BY <1>2, <2>1, SigningOut, ServerKept
<1>3. CASE \/ Authenticated(b) \/ Principal(b) \/ Choices(b) \/ List(b) \/ Permitted(b)
           \/ IndexUser(b) \/ Authenticate(b) \/ IndexLanding(b) \/ LoginLanding(b)
    <2>1. UNCHANGED <<server, drops>>
        BY <1>3 DEF Authenticated, Principal, Choices, List, Permitted, IndexUser,
                    Authenticate, IndexLanding, LoginLanding, BrowserOnly
    <2> QED
        BY <1>3, <2>1, Advancing, ServerKept
<1>4. CASE \/ Anonymous(b) \/ NotCurrent(b) \/ NotPermitted(b) \/ RecordRefused(b)
           \/ IndexPublic(b) \/ LoginHomeless(b) \/ SetupRefused(b)
    <2>1. BrowserOnly /\ (Refuse(b) \/ PublicPage(b))
        BY <1>4 DEF Anonymous, NotCurrent, NotPermitted, RecordRefused, IndexPublic,
                    LoginHomeless, SetupRefused
    <2>2. UNCHANGED <<server, drops>> /\ UNCHANGED cookie
        BY <2>1 DEF BrowserOnly
    <2> QED
        BY <2>1, <2>2, Refusing, ServerKept
<1>5. CASE ShowPage(b) \/ ShowFragment(b)
    <2>1. UNCHANGED <<server, drops>>
        BY <1>5 DEF ShowPage, ShowFragment, BrowserOnly
    <2> QED
        BY <1>5, <2>1, Showing, ShowingFragment, ServerKept
<1>6. CASE Sign(b)
    <2>1. UNCHANGED <<server, drops>>
        BY <1>6 DEF Sign
    <2> QED
        BY <1>6, <2>1, Signing, ServerKept
<1>7. CASE Record(b)
    <2>1. UNCHANGED tenancy /\ UNCHANGED <<completed, changes, drops>>
        BY <1>7 DEF Record
    <2> QED
        BY <1>7, <2>1, Recording DEF IInv, TypeOK, ServerTyped
<1>8. CASE CompleteSetup(b)
    <2>1. completed' = TRUE /\ UNCHANGED <<inbox, last, changes, drops>>
        BY <1>8 DEF CompleteSetup, feed
    <2> QED
        BY <1>8, <2>1, SettingUp DEF IInv, TypeOK, ServerTyped
<1>9. CASE \/ Connect(b) \/ ConnectRefused(b) \/ Authorize(b) \/ Unauthorized(b)
           \/ Fetch(b)
    <2>1. UNCHANGED <<server, drops>>
        BY <1>9 DEF Connect, ConnectRefused, Authorize, Unauthorized, Fetch, Generate,
                    StreamOnly
    <2> QED
        BY <1>9, <2>1, Streams, ServerKept
<1>10. CASE Emit(b)
    <2>1. UNCHANGED <<server, drops>>
        BY <1>10 DEF Emit, StreamOnly
    <2> QED
        BY <1>10, <2>1, Emitting, ServerKept
<1>11. CASE Drop(b)
    <2>1. UNCHANGED server /\ drops' = drops + 1
        BY <1>11 DEF Drop, StreamOnly
    <2>2. UNCHANGED tenancy /\ UNCHANGED <<inbox, last, completed, changes>>
        BY <2>1 DEF server, feed
    <2> QED
        BY <1>11, <2>1, <2>2, Streams DEF IInv, TypeOK, ServerTyped
<1> QED
    BY <1>1, <1>2, <1>3, <1>4, <1>5, <1>6, <1>7, <1>8, <1>9, <1>10, <1>11
    DEF UserStep, RequestStep, StreamStep

\* A change made elsewhere in the deployment is one of the contract.
LEMMA Changing ==
    ASSUME IInv, Change
    PROVE  Tenants!Next /\ ServerTyped'
<1>1. /\ changes' = changes + 1 /\ UNCHANGED <<completed, drops>>
      /\ changes \in Nat /\ completed \in BOOLEAN /\ drops \in Nat
      /\ inbox \in [Workspaces \X Users -> SUBSET Nat] /\ last \in Nat
    BY DEF IInv, TypeOK, Change, ClientsKeep
<1>2. PICK u \in Visitors :
        \/ Tenants!ResetPassword(u) /\ UNCHANGED feed
        \/ \E w \in Workspaces :
            \/ Tenants!CreateWorkspace(w, u) /\ UNCHANGED feed
            \/ \E role \in GrantedRoles :
                   Tenants!SetRole(w, u, role) /\ UNCHANGED feed
            \/ Tenants!SetRole(w, u, None) /\ Feed!Clear(<<w, u>>)
    BY DEF Change
<1>3. u \in Users
    BY VisitorsAssumption
<1>4. Tenants!Next
    BY <1>2, <1>3, GrantedRolesAssumption DEF Tenants!Next, Role
<1>5. inbox' \in [Workspaces \X Users -> SUBSET Nat] /\ last' \in Nat
    BY <1>1, <1>2 DEF feed, Feed!Clear
<1> QED
    BY <1>1, <1>4, <1>5 DEF ServerTyped

LEMMA Claiming ==
    ASSUME IInv, Claim
    PROVE  Tenants!Next /\ ServerTyped'
<1>1. Tenants!Next
    BY DEF Claim, Tenants!Next
<1>2. completed' = TRUE /\ UNCHANGED <<inbox, last, changes, drops>>
    BY DEF Claim, ClientsKeep, feed
<1> QED
    BY <1>1, <1>2 DEF IInv, TypeOK, ServerTyped

LEMMA Notifying ==
    ASSUME IInv, Notify
    PROVE  UNCHANGED tenancy /\ ServerTyped'
<1>1. PICK w \in Workspaces, u \in Visitors : Feed!Publish(<< <<w, u>> >>)
    BY DEF Notify
<1>2. u \in Users
    BY VisitorsAssumption
<1>3. inbox' \in [Workspaces \X Users -> SUBSET Nat] /\ last' = last + 1
    BY <1>1, <1>2, PublishType DEF IInv
<1>4. UNCHANGED tenancy /\ UNCHANGED <<completed, changes, drops>>
    BY DEF Notify, ClientsKeep
<1> QED
    BY <1>3, <1>4 DEF IInv, TypeOK, ServerTyped

\* Whoever moves, tenants change as the contract says or not at all.
LEMMA TenancyKept ==
    ASSUME IInv, UNCHANGED tenancy \/ Tenants!Next
    PROVE  TenancyTyped' /\ TenantsExist' /\ Honest
<1>1. CASE UNCHANGED tenancy
    <2>1. \A u \in Users : sessionVersion[u] \in Nat
        BY DEF IInv, TypeOK
    <2>2. \A u \in Users : sessionVersion[u] <= sessionVersion'[u]
        BY <1>1, <2>1 DEF tenancy
    <2> QED
        BY <1>1, <2>2 DEF IInv, TypeOK, TenancyTyped, TenantsExist, Honest, tenancy
<1>2. CASE Tenants!Next
    BY <1>2, TenancyStep DEF IInv
<1> QED
    BY <1>1, <1>2

LEMMA InvariantStep ==
    ASSUME IInv, Next
    PROVE  IInv'
<1>1. ASSUME NEW b \in Browsers,
             UserStep(b) \/ RequestStep(b) \/ StreamStep(b) \/ Drop(b)
      PROVE  IInv'
    <2>1. /\ Kept(b) /\ ServerTyped'
          /\ TenancyTyped' /\ TenantsExist' /\ Honest
        BY <1>1, BrowserMoves, TenancyKept
    <2>2. TypeOK'
        BY <2>1 DEF Kept, ClientTyped, TenancyTyped, ServerTyped, TypeOK
    <2>3. \A c \in Browsers \ {b} : ClientInv(c)'
        BY <2>1, ClientKept DEF Kept, OthersKept
    <2> QED
        BY <2>1, <2>2, <2>3 DEF Kept, IInv
<1>2. CASE Claim \/ Change \/ Notify
    <2>1. /\ ServerTyped'
          /\ TenancyTyped' /\ TenantsExist' /\ Honest
        BY <1>2, Claiming, Changing, Notifying, TenancyKept
    <2>2. UNCHANGED <<cookie, request, page, stream>>
        BY <1>2 DEF Claim, Change, Notify, ClientsKeep
    <2>3. TypeOK'
        BY <2>1, <2>2 DEF TenancyTyped, ServerTyped, IInv, TypeOK
    <2>4. \A c \in Browsers : ClientInv(c)'
        BY <2>1, <2>2, ClientKept
    <2> QED
        BY <2>1, <2>3, <2>4 DEF IInv
<1> QED
    BY <1>1, <1>2 DEF Next

LEMMA InvariantStutter ==
    ASSUME IInv, UNCHANGED vars
    PROVE  IInv'
<1>1. UNCHANGED tenancy /\ ServerTyped' /\ UNCHANGED <<cookie, request, page, stream>>
    BY ServerKept DEF vars
<1>2. TenancyTyped' /\ TenantsExist' /\ Honest
    BY <1>1, TenancyKept
<1>3. TypeOK'
    BY <1>1, <1>2 DEF TenancyTyped, ServerTyped, IInv, TypeOK
<1>4. \A c \in Browsers : ClientInv(c)'
    BY <1>1, <1>2, ClientKept
<1> QED
    BY <1>2, <1>3, <1>4 DEF IInv

\* Nobody is signed in, nothing is shown and nothing asked for.
LEMMA InvariantInit ==
    ASSUME Init
    PROVE  IInv
<1> USE NoneAssumption
<1>1. TypeOK
    <2>1. NoRequest \in Request /\ NoStream \in Stream
        BY DEF NoRequest, Request, RequestLabels, NoStream, NewStream, Stream, StreamLabels
    <2>2. workspaces \in SUBSET Workspaces /\ sessionVersion \in [Users -> Nat]
        BY DEF Init, Tenants!Init
    <2>3. members \in [Workspaces -> [Users -> Role \cup {None}]]
        BY DEF Init, Tenants!Init, Role
    <2>4. inbox \in [Workspaces \X Users -> SUBSET Nat] /\ last \in Nat
        BY DEF Init, Feed!Init
    <2> QED
        BY <2>1, <2>2, <2>3, <2>4 DEF Init, TypeOK
<1>2. TenantsExist
    BY DEF Init, Tenants!Init, TenantsExist
<1>3. ASSUME NEW b \in Browsers
      PROVE  ClientInv(b)
    <2>1. RequestInv(b, request[b])
        BY NoRequestInv DEF Init
    <2>2. PageInv(b) /\ EventInv(b)
        BY DEF Init, PageInv, EventInv, Honoured, NoStream, NewStream
    <2> QED
        BY <2>1, <2>2, ClientParts
<1> QED
    BY <1>1, <1>2, <1>3 DEF IInv

--------------------------------------------------------------------------------
(* Theorems.                                                                    *)

\* In every reachable state what requests, pages, streams and sessions carry about a
\* user is present or belongs to a session that has ended.
THEOREM Invariance == Spec => []IInv
<1>1. IInv /\ [Next]_vars => IInv'
    BY InvariantStep, InvariantStutter
<1> QED
    BY <1>1, InvariantInit, PTL DEF Spec

\* Every variable holds a value of its kind.
THEOREM TypeCorrect == Spec => []TypeOK
<1>1. IInv => TypeOK
    BY DEF IInv
<1> QED
    BY <1>1, Invariance, PTL

\* A session that is honoured belongs to somebody with a tenant to go to: login_submit
\* signs the version that authenticate returned, and a removal since has passed it.
THEOREM SessionsBelong == Spec => []SessionsOfMembers
<1>1. IInv => SessionsOfMembers
    BY DEF IInv, ClientInv, Landing, SessionsOfMembers
<1> QED
    BY <1>1, Invariance, PTL

\* A handler or a page that works with a role its user no longer has is one whose
\* session has ended.
THEOREM AuthorityEnds == Spec => []StaleAuthorityHasEnded
<1>1. IInv => StaleAuthorityHasEnded
    BY DEF IInv, ClientInv, AuthorityEnded, StaleAuthorityHasEnded
<1> QED
    BY <1>1, Invariance, PTL

\* The redirects of index, login, setup and record_activity lead where the middleware
\* and current_principal let the browser in, as long as its session is honoured.
THEOREM RedirectsAlwaysLand == Spec => []RedirectsLand
<1>1. IInv => RedirectsLand
    BY DEF IInv, ClientInv, Landing, RedirectsLand
<1> QED
    BY <1>1, Invariance, PTL

\* The authorize callback before each event leaves room for one event after a removal.
THEOREM LateEventIsLast == Spec => []OneLateEvent
<1>1. IInv => OneLateEvent
    BY DEF IInv, ClientInv, StreamFields, OneLateEvent
<1> QED
    BY <1>1, Invariance, PTL
================================================================================
