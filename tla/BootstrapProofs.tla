---------------------------- MODULE BootstrapProofs ----------------------------
(* Machine-checked proofs about Bootstrap, for any number of setup calls,      *)
(* addresses and slugs.                                                        *)
EXTENDS Bootstrap, FiniteSetTheorems, TLAPS

\* The inductive invariant: a call holds the slug it has inserted, which nobody has
\* committed, and the call about to commit found the setup open and holds the row.
SetupInv ==
    /\ TypeOK
    /\ CompletedOnce
    /\ \A r \in Requests :
        /\ pc[r] # "idle" => call[r] \in Setup
        /\ pc[r] \in {"complete", "commit"} =>
               slugLock[call[r].slug] = r /\ call[r].slug \notin TakenSlugs
        /\ pc[r] = "commit" => rowLock = r /\ singleton = None

\* What a call is doing, in the words of the invariant.
LEMMA CallParts ==
    ASSUME SetupInv, NEW r \in Requests, pc[r] # "idle"
    PROVE  /\ call[r] \in Setup /\ call[r] # None
           /\ call[r].email \in Emails /\ call[r].slug \in Slugs
BY NoneAssumption DEF SetupInv, Setup

\* A transaction that ends gives back its own index entries and no others.
LEMMA EndEffect ==
    ASSUME SetupInv, NEW r \in Requests, End(r)
    PROVE  /\ emailLock' \in [Emails -> Requests \cup {None}]
           /\ slugLock' \in [Slugs -> Requests \cup {None}]
           /\ rowLock' \in Requests \cup {None}
           /\ pc' \in [Requests -> Labels] /\ pc'[r] = "idle"
           /\ call' \in [Requests -> Setup \cup {None}]
           /\ \A s \in Slugs : slugLock[s] # r => slugLock'[s] = slugLock[s]
           /\ rowLock # r => rowLock' = rowLock
           /\ \A s \in Requests \ {r} : pc'[s] = pc[s] /\ call'[s] = call[s]
<1> USE DEF SetupInv, TypeOK
<1>1. pc' = [pc EXCEPT ![r] = "idle"] /\ call' = [call EXCEPT ![r] = None]
    BY DEF End, Goto
<1>2. /\ emailLock' = [e \in Emails |-> IF emailLock[e] = r THEN None ELSE emailLock[e]]
      /\ slugLock' = [s \in Slugs |-> IF slugLock[s] = r THEN None ELSE slugLock[s]]
    BY DEF End, ReleasedBy
<1>3. rowLock' = IF rowLock = r THEN None ELSE rowLock
    BY DEF End
<1> QED
    BY <1>1, <1>2, <1>3 DEF Labels

\* The empty deployment satisfies the invariant.
LEMMA InitSetup == Init => SetupInv
BY FS_EmptySet DEF Init, SetupInv, TypeOK, CompletedOnce, Labels

\* A refused or abandoned call leaves everybody else's claims as they were.
LEMMA RefuseSetup ==
    ASSUME SetupInv, NEW r \in Requests, Refuse(r)
    PROVE  SetupInv'
<1>1. End(r) /\ UNCHANGED tables
    BY DEF Refuse
<1>2. TypeOK' /\ CompletedOnce'
    BY <1>1, EndEffect DEF SetupInv, TypeOK, CompletedOnce, tables
<1>3. ASSUME NEW s \in Requests
      PROVE  /\ pc'[s] # "idle" => call'[s] \in Setup
             /\ pc'[s] \in {"complete", "commit"} =>
                    slugLock'[call'[s].slug] = s /\ call'[s].slug \notin TakenSlugs'
             /\ pc'[s] = "commit" => rowLock' = s /\ singleton' = None
    <2>1. CASE s = r
        BY <1>1, <2>1, EndEffect
    <2>2. CASE s # r
        <3>1. pc'[s] = pc[s] /\ call'[s] = call[s]
            BY <1>1, <2>2, EndEffect
        <3>2. pc[s] # "idle" => call[s].slug \in Slugs
            BY CallParts
        <3> QED
            BY <1>1, <2>2, <3>1, <3>2, EndEffect DEF SetupInv, TakenSlugs, tables
    <2> QED
        BY <2>1, <2>2
<1> QED
    BY <1>2, <1>3 DEF SetupInv

\* The steps before the commit that take an index entry, the row, or nothing.
LEMMA AdvanceSetup ==
    ASSUME SetupInv, NEW r \in Requests,
           \/ \E setup \in Setup : Begin(r, setup)
           \/ ReadState(r) \/ CountRows(r) \/ InsertUser(r)
           \/ InsertWorkspace(r) \/ Complete(r)
    PROVE  SetupInv'
<1> USE DEF SetupInv
<1>1. UNCHANGED tables
    BY DEF Begin, ReadState, CountRows, InsertUser, InsertWorkspace, Complete
<1>2. pc[r] # "idle" => call[r].email \in Emails /\ call[r].slug \in Slugs
    BY CallParts
<1>3. TypeOK' /\ CompletedOnce'
    BY <1>1, <1>2 DEF TypeOK, CompletedOnce, tables, locks, Labels, Goto, Begin, ReadState,
                      CountRows, InsertUser, InsertWorkspace, Complete
<1>4. /\ \A s \in Requests \ {r} : pc'[s] = pc[s] /\ call'[s] = call[s]
      /\ pc'[r] # "idle" => call'[r] \in Setup
    BY DEF TypeOK, Goto, Begin, ReadState, CountRows, InsertUser, InsertWorkspace, Complete
<1>5. ASSUME NEW s \in Slugs, slugLock[s] # None
      PROVE  slugLock'[s] = slugLock[s]
    BY <1>2, <1>5 DEF TypeOK, locks, Begin, ReadState, CountRows, InsertUser,
                      InsertWorkspace, Complete
<1>6. rowLock # None => rowLock' = rowLock
    BY DEF locks, Begin, ReadState, CountRows, InsertUser, InsertWorkspace, Complete
<1>7. ASSUME pc'[r] \in {"complete", "commit"}
      PROVE  /\ slugLock'[call'[r].slug] = r /\ call'[r].slug \notin TakenSlugs
             /\ pc'[r] = "commit" => rowLock' = r /\ singleton = None
    <2>1. CASE InsertWorkspace(r)
        BY <1>2, <2>1 DEF InsertWorkspace, TypeOK, Goto
    <2>2. CASE Complete(r)
        BY <1>2, <2>2 DEF Complete, TypeOK, Goto
    <2>3. CASE \/ \E setup \in Setup : Begin(r, setup)
               \/ ReadState(r) \/ CountRows(r) \/ InsertUser(r)
        BY <1>7, <2>3 DEF TypeOK, Goto, Begin, ReadState, CountRows, InsertUser
    <2> QED
        BY <2>1, <2>2, <2>3
<1>8. ASSUME NEW s \in Requests \ {r}, pc[s] \in {"complete", "commit"}
      PROVE  /\ slugLock'[call[s].slug] = s /\ call[s].slug \notin TakenSlugs
             /\ pc[s] = "commit" => rowLock' = s /\ singleton = None
    BY <1>5, <1>6, <1>8, CallParts, NoneAssumption
<1>9. TakenSlugs' = TakenSlugs /\ singleton' = singleton
    BY <1>1 DEF TakenSlugs, tables
<1> QED
    BY <1>3, <1>4, <1>7, <1>8, <1>9

\* The commit: the row it holds lets nobody else complete the setup, and the slug it
\* holds is nobody's.
LEMMA CommitSetup ==
    ASSUME SetupInv, NEW r \in Requests, Commit(r)
    PROVE  SetupInv'
<1> USE DEF SetupInv
<1> DEFINE made == [slug |-> call[r].slug, owner |-> call[r].email]
<1>1. /\ call[r] \in Setup /\ call[r] # None /\ call[r].slug \notin TakenSlugs
      /\ slugLock[call[r].slug] = r /\ rowLock = r /\ singleton = None
      /\ call[r].email \in Emails /\ call[r].slug \in Slugs
    BY CallParts DEF Commit
<1>2. /\ users' = users \cup {call[r].email} /\ workspaces' = workspaces \cup {made}
      /\ singleton' = call[r] /\ completions' = completions \cup {call[r]}
    BY DEF Commit
<1>3. completions' = {call[r]}
    BY <1>1, <1>2 DEF CompletedOnce
<1>4. CompletedOnce'
    <2>1. Cardinality(completions') <= 1
        <3>1. Cardinality({call[r]}) = 1
            BY FS_Singleton
        <3> QED
            BY <1>3, <3>1
    <2>2. [slug |-> singleton'.slug, owner |-> singleton'.email] \in workspaces'
        <3>1. singleton' = call[r]
            BY <1>2
        <3>2. [slug |-> singleton'.slug, owner |-> singleton'.email] = made
            BY <3>1
        <3> HIDE DEF made
        <3> QED
            BY <1>2, <3>2
    <2> QED
        BY <1>1, <1>2, <1>3, <2>1, <2>2 DEF CompletedOnce
<1>5. \A v, w \in workspaces' : v.slug = w.slug => v = w
    BY <1>1, <1>2 DEF TypeOK, TakenSlugs
<1>6. End(r)
    BY DEF Commit
<1>7. TypeOK'
    BY <1>1, <1>2, <1>3, <1>5, <1>6, EndEffect DEF TypeOK
<1>8. ASSUME NEW s \in Requests \ {r}, pc[s] \in {"complete", "commit"}
      PROVE  /\ call[s].slug \in Slugs /\ call[s].slug # call[r].slug
             /\ slugLock[call[s].slug] = s /\ call[s].slug \notin TakenSlugs
             /\ pc[s] # "commit"
    BY <1>1, <1>8, CallParts
<1>9. TakenSlugs' = TakenSlugs \cup {call[r].slug}
    <2>1. made.slug = call[r].slug
        OBVIOUS
    <2> HIDE DEF made
    <2> QED
        BY <1>2, <2>1 DEF TakenSlugs
<1>10. ASSUME NEW s \in Requests
       PROVE  /\ pc'[s] # "idle" => call'[s] \in Setup
              /\ pc'[s] \in {"complete", "commit"} =>
                     slugLock'[call'[s].slug] = s /\ call'[s].slug \notin TakenSlugs'
              /\ pc'[s] # "commit"
    <2>1. CASE s = r
        BY <1>6, <2>1, EndEffect
    <2>2. CASE s # r
        BY <1>6, <1>8, <1>9, <2>2, EndEffect
    <2> QED
        BY <2>1, <2>2
<1> QED
    BY <1>4, <1>7, <1>10

\* What other callers commit meanwhile takes no address or slug a setup call holds.
LEMMA OthersSetup ==
    ASSUME SetupInv,
           \/ \E email \in Emails : CreateUser(email)
           \/ \E owner \in Emails, slug \in Slugs : CreateWorkspace(owner, slug)
    PROVE  SetupInv'
<1> USE DEF SetupInv
<1>1. UNCHANGED <<singleton, completions, locks, pc, call>>
    BY DEF CreateUser, CreateWorkspace
<1>2. CASE \E email \in Emails : CreateUser(email)
    <2>1. users' \subseteq Emails /\ UNCHANGED workspaces
        BY <1>2 DEF CreateUser, TypeOK
    <2> QED
        BY <1>1, <2>1 DEF TypeOK, CompletedOnce, TakenSlugs, locks
<1>3. ASSUME NEW owner \in Emails, NEW slug \in Slugs, CreateWorkspace(owner, slug)
      PROVE  SetupInv'
    <2> DEFINE made == [slug |-> slug, owner |-> owner]
    <2>1. /\ workspaces' = workspaces \cup {made}
          /\ UNCHANGED users /\ slug \notin TakenSlugs /\ slugLock[slug] = None
        BY <1>3 DEF CreateWorkspace
    <2>2. TypeOK'
        BY <1>1, <2>1 DEF TypeOK, TakenSlugs, locks
    <2>3. CompletedOnce'
        BY <1>1, <2>1 DEF CompletedOnce
    <2>4. TakenSlugs' = TakenSlugs \cup {slug}
        <3>1. made.slug = slug
            OBVIOUS
        <3> HIDE DEF made
        <3> QED
            BY <2>1, <3>1 DEF TakenSlugs
    <2>5. \A s \in Requests : pc[s] \in {"complete", "commit"} => call[s].slug # slug
        BY <2>1, NoneAssumption
    <2> QED
        BY <1>1, <2>2, <2>3, <2>4, <2>5 DEF locks
<1> QED
    BY <1>2, <1>3

\* Every step preserves the invariant.
LEMMA NextSetup == SetupInv /\ [Next]_vars => SetupInv'
<1> SUFFICES ASSUME SetupInv, [Next]_vars PROVE SetupInv'
    OBVIOUS
<1>1. ASSUME NEW r \in Requests, (\E setup \in Setup : Begin(r, setup)) \/ Proceed(r)
      PROVE  SetupInv'
    <2>1. CASE \/ AlreadyComplete(r) \/ ExistingData(r) \/ Duplicate(r)
               \/ CompletedConcurrently(r)
        BY <2>1, RefuseSetup DEF AlreadyComplete, ExistingData, Duplicate,
                                 CompletedConcurrently
    <2> QED
        BY <1>1, <2>1, AdvanceSetup, CommitSetup DEF Proceed
<1>2. ASSUME NEW r \in Requests, Abandon(r)
      PROVE  SetupInv'
    BY <1>2, RefuseSetup DEF Abandon
<1>3. CASE UNCHANGED vars
    BY <1>3 DEF vars, tables, locks, SetupInv, TypeOK, CompletedOnce, TakenSlugs
<1> QED
    BY <1>1, <1>2, <1>3, OthersSetup DEF Next

\* Every reachable state satisfies the inductive invariant.
THEOREM SetupInvariance == Spec => []SetupInv
BY InitSetup, NextSetup, PTL DEF Spec

\* Every variable keeps its type, and a slug names one tenant (the UNIQUE column of
\* workspace_core_workspaces), whoever creates it.
THEOREM SetupTypeCorrect == Spec => []TypeOK
<1>1. SetupInv => TypeOK
    BY DEF SetupInv
<1> QED
    BY <1>1, SetupInvariance, PTL

\* bootstrap_first_owner commits once (the conditional UPDATE of the singleton,
\* repository.py), however many calls pass its first check together.
THEOREM OneFirstOwner == Spec => []CompletedOnce
<1>1. SetupInv => CompletedOnce
    BY DEF SetupInv
<1> QED
    BY <1>1, SetupInvariance, PTL
================================================================================
