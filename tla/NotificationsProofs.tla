-------------------------- MODULE NotificationsProofs --------------------------
(* Machine-checked proofs about Notifications, for any members, recorders,      *)
(* activities and page sizes.                                                   *)
(*                                                                              *)
(* Two halves that meet in nextValue.  Recorders: the holder of the sequence    *)
(* row has numbered exactly the rows it has written, from nextValue on, and     *)
(* nobody else has written any.  Streams: everything below nextValue that is    *)
(* still to be read lies above what was sent, so an activity that appears later *)
(* never falls behind a cursor.                                                 *)
EXTENDS Notifications, FiniteSetTheorems, WellFoundedInduction, TLAPS

--------------------------------------------------------------------------------
(* The inductive invariant.                                                     *)

Writing      == {"sequence", "project", "commit"}
StreamLabels == {"closed", "authorize", "fetch", "deliver", "emit"}

RecordState == [pc : RecordLabels, actor : Users \cup {Nobody},
                activity : Activities \cup {Nobody}, drafts : DraftLists, done : Nat,
                next : Nat, rows : SUBSET Notification]
StreamState == [pc : StreamLabels, cursor : Nat, batch : Seq(Nat)]

Types ==
    /\ members \in SUBSET Users
    /\ activities \in SUBSET Activities
    /\ notifications \in SUBSET Notification
    /\ nextValue \in Nat \ {0}
    /\ sequenceLock \in Recorders \cup {Nobody}
    /\ record \in [Recorders -> RecordState]
    /\ stream \in [Users -> StreamState]
    /\ wire \in [Users -> Seq(Nat)]
    /\ received \in [Users -> Seq(Nat)]

\* The row of the i-th draft, when its writer holds the sequence.
Row(r, i) == [seq |-> nextValue + i - 1, user |-> Call(r).drafts[i],
              activity |-> Call(r).activity, read |-> FALSE]

Rows(r) == {Row(r, i) : i \in 1..Call(r).done}

\* A recorder that has inserted its activity is the only one with it, and has written
\* the rows of the drafts it is done with, each to a member, under the sequence row.
RecorderInv(r) ==
    /\ Call(r).pc \notin Writing => Call(r).rows = {} /\ sequenceLock # r
    /\ Call(r).pc # "idle" => Call(r).activity \in Activities
                              /\ Call(r).done <= Len(Call(r).drafts)
    /\ Call(r).pc \in {"sequence", "project"} => Call(r).done < Len(Call(r).drafts)
    /\ Call(r).pc = "commit" => Call(r).done = Len(Call(r).drafts)
    /\ Call(r).pc \in Writing =>
           /\ Call(r).rows = Rows(r)
           /\ \A i \in 1..Call(r).done : Call(r).drafts[i] \in members
           /\ Call(r).activity \notin activities
    /\ Call(r).pc \in {"sequence", "commit"} =>
           IF Call(r).done > 0
           THEN sequenceLock = r /\ Call(r).next = nextValue + Call(r).done
           ELSE sequenceLock # r
    /\ Call(r).pc = "project" =>
           sequenceLock = r /\ Call(r).next = nextValue + Call(r).done + 1

OneWriterEach == \A r, s \in Recorders :
    (/\ Call(r).pc \in Writing /\ Call(s).pc \in Writing
     /\ Call(r).activity = Call(s).activity)
    => r = s

\* What the tables hold is numbered below nextValue, each number once.
TablesInv ==
    /\ \A n \in notifications : n.seq < nextValue
    /\ \A n, m \in notifications : n.seq = m.seq => n = m
    /\ OneProjectionEach
    /\ InboxOfMembers

Elements(s) == {s[i] : i \in DOMAIN s}

Ascending(s) == \A i, j \in DOMAIN s : i < j => s[i] < s[j]

Sent(u) == Elements(received[u]) \cup Elements(wire[u])

\* What has been sent, what is on its way and what the generator is about to emit are in
\* order, below nextValue, and leave nothing of the inbox out.
StreamInv(u) ==
    LET batch == stream[u].batch
        cursor == stream[u].cursor
    IN  /\ Ascending(received[u]) /\ Ascending(wire[u]) /\ Ascending(batch)
        /\ \A x \in Elements(received[u]), y \in Elements(wire[u]) : x < y
        /\ \A x \in Sent(u) : 0 < x /\ x < nextValue
        /\ \A seq \in Seqs(u), x \in Sent(u) : seq <= x => seq \in Sent(u)
        /\ cursor < nextValue
        /\ stream[u].pc # "closed" =>
               /\ cursor \in Sent(u) \cup {0}
               /\ \A x \in Sent(u) : x <= cursor
        /\ stream[u].pc \in {"deliver", "emit"} <=> batch # <<>>
        /\ \A x \in Elements(batch) : cursor < x /\ x < nextValue
        /\ \A seq \in Seqs(u), x \in Elements(batch) :
               cursor < seq /\ seq <= x => seq \in Elements(batch)

Inv ==
    /\ Types
    /\ TablesInv
    /\ OneWriterEach
    /\ \A r \in Recorders : RecorderInv(r)
    /\ \A u \in Users : StreamInv(u)

--------------------------------------------------------------------------------
(* The page of a cursor.                                                        *)

\* The least-number principle, for a set of numbers.
LEMMA LeastNumber ==
    ASSUME NEW S \in SUBSET Nat, S # {}
    PROVE  \E n \in S : \A m \in S : n <= m
<1>1. PICK n \in S : \A m \in S : ~(<<m, n>> \in OpToRel(<, Nat))
    BY NatLessThanWellFounded, WFMin
<1>2. \A m \in S : ~(m < n)
    BY <1>1 DEF OpToRel
<1> QED
    BY <1>2

Enumerates(s, S) == Ascending(s) /\ Elements(s) = S

\* Any bounded set of numbers can be put in order.
LEMMA Sortable ==
    ASSUME NEW b \in Nat, NEW S \in SUBSET Nat, \A x \in S : x < b
    PROVE  \E n \in Nat : \E s \in [1..n -> S] : Enumerates(s, S)
<1> DEFINE Good(c) == \A U \in SUBSET Nat :
                          (\A x \in U : x < c)
                          => \E n \in Nat : \E s \in [1..n -> U] : Enumerates(s, U)
           Bad == {c \in Nat : ~Good(c)}
<1>1. SUFFICES ASSUME Bad # {} PROVE FALSE
    <2>1. Good(b)
        BY <1>1
    <2> QED
        BY <2>1
<1>2. PICK c \in Bad : \A m \in Bad : c <= m
    BY <1>1, LeastNumber
<1>3. PICK U \in SUBSET Nat :
          /\ \A x \in U : x < c
          /\ ~\E n \in Nat : \E s \in [1..n -> U] : Enumerates(s, U)
    BY <1>2
<1>4. c # 0
    <2> SUFFICES ASSUME c = 0 PROVE FALSE
        OBVIOUS
    <2>1. U = {}
        BY <1>3
    <2>2. <<>> \in [1..0 -> U] /\ Enumerates(<<>>, U)
        BY <2>1 DEF Enumerates, Ascending, Elements
    <2> QED
        BY <1>3, <2>2
<1>5. c - 1 \in Nat /\ Good(c - 1)
    <2>1. c - 1 \in Nat /\ ~(c <= c - 1)
        BY <1>2, <1>4
    <2>2. c - 1 \notin Bad
        BY <1>2, <2>1
    <2> HIDE DEF Good
    <2> QED
        BY <2>1, <2>2
<1> DEFINE V == U \ {c - 1}
<1>6. PICK n \in Nat : \E s \in [1..n -> V] : Enumerates(s, V)
    <2>1. V \in SUBSET Nat /\ \A x \in V : x < c - 1
        BY <1>2, <1>3
    <2> QED
        BY <1>5, <2>1
<1>7. PICK s \in [1..n -> V] : Enumerates(s, V)
    BY <1>6
<1>8. c - 1 \in U
    BY <1>3, <1>6, <1>7
<1> DEFINE t == [i \in 1..(n + 1) |-> IF i = n + 1 THEN c - 1 ELSE s[i]]
<1>9. t \in [1..(n + 1) -> U] /\ n + 1 \in Nat
    BY <1>7, <1>8
<1>10. Ascending(t)
    <2> SUFFICES ASSUME NEW i \in 1..(n + 1), NEW j \in 1..(n + 1), i < j
                 PROVE  t[i] < t[j]
        BY DEF Ascending
    <2>1. i \in 1..n /\ t[i] = s[i]
        OBVIOUS
    <2>2. CASE j = n + 1
        <3>1. s[i] \in V /\ t[j] = c - 1
            BY <1>7, <2>1, <2>2
        <3>2. s[i] \in Nat /\ s[i] < c /\ s[i] # c - 1 /\ c \in Nat
            BY <1>2, <1>3, <3>1
        <3> QED
            BY <2>1, <3>1, <3>2
    <2>3. CASE j # n + 1
        BY <1>7, <2>1, <2>3 DEF Enumerates, Ascending
    <2> QED
        BY <2>2, <2>3
<1>11. Elements(t) = U
    <2>1. Elements(t) \subseteq U
        BY <1>9 DEF Elements
    <2>2. ASSUME NEW x \in U
          PROVE  x \in Elements(t)
        <3>1. CASE x = c - 1
            BY <3>1 DEF Elements
        <3>2. CASE x # c - 1
            <4>1. PICK i \in 1..n : s[i] = x
                BY <1>7, <3>2 DEF Enumerates, Elements
            <4>2. i \in 1..(n + 1) /\ t[i] = x
                BY <4>1
            <4> QED
                BY <4>2 DEF Elements
        <3> QED
            BY <3>1, <3>2
    <2> QED
        BY <2>1, <2>2
<1> QED
    BY <1>3, <1>9, <1>10, <1>11 DEF Enumerates

\* ORDER BY: the numbers of a bounded set, all of them, in ascending order.
LEMMA InOrderEnumerates ==
    ASSUME NEW b \in Nat, NEW S \in SUBSET Nat, \A x \in S : x < b
    PROVE  InOrder(S) \in Seq(S) /\ Enumerates(InOrder(S), S)
<1>1. PICK n \in Nat : \E s \in [1..n -> S] : Enumerates(s, S)
    BY Sortable
<1>2. PICK s \in [1..n -> S] : Enumerates(s, S)
    BY <1>1
<1>3. s \in Bijection(1..n, S)
    <2>1. ASSUME NEW i \in 1..n, NEW j \in 1..n, s[i] = s[j]
          PROVE  i = j
        <3>1. s[i] \in Nat /\ s[j] \in Nat /\ DOMAIN s = 1..n
            BY <1>2
        <3>2. ~(i < j) /\ ~(j < i)
            BY <1>2, <2>1, <3>1 DEF Enumerates, Ascending
        <3> QED
            BY <3>2
    <2>2. \A x \in S : \E i \in 1..n : s[i] = x
        BY <1>2 DEF Enumerates, Elements
    <2> QED
        BY <1>2, <2>1, <2>2 DEF Bijection, Injection, Surjection, IsInjective
<1>4. IsFiniteSet(S) /\ Cardinality(S) = n
    <2>1. IsFiniteSet(1..n) /\ Cardinality(1..n) = n
        BY FS_Interval
    <2>2. ExistsBijection(1..n, S)
        BY <1>3 DEF ExistsBijection
    <2> QED
        BY <2>1, <2>2, FS_Bijection
<1> DEFINE o == InOrder(S)
<1>5. o \in [1..n -> S] /\ \A i, j \in DOMAIN o : i < j => o[i] < o[j]
    <2>1. \E x \in [1..n -> S] : \A i, j \in DOMAIN x : i < j => x[i] < x[j]
        BY <1>2 DEF Enumerates, Ascending
    <2> QED
        BY <1>4, <2>1 DEF InOrder
<1> HIDE DEF o
<1>6. o \in Injection(1..n, S)
    <2>1. ASSUME NEW i \in 1..n, NEW j \in 1..n, o[i] = o[j]
          PROVE  i = j
        <3>1. o[i] \in Nat /\ o[j] \in Nat /\ DOMAIN o = 1..n
            BY <1>5
        <3>2. ~(i < j) /\ ~(j < i)
            BY <1>5, <2>1, <3>1
        <3> QED
            BY <3>2
    <2> QED
        BY <1>5, <2>1 DEF Injection, IsInjective
<1>7. o \in Surjection(1..n, S)
    <2>1. Cardinality(1..n) = n
        BY FS_Interval
    <2> QED
        BY <1>4, <1>6, <2>1, FS_Injection
<1>8. Elements(o) = S
    BY <1>5, <1>7 DEF Surjection, Elements
<1> QED
    BY <1>5, <1>8 DEF o, Enumerates, Ascending

\* Whatever is in a page is preceded there by everything of the set below it.
LEMMA FirstOfDownward ==
    ASSUME NEW b \in Nat, NEW S \in SUBSET Nat, \A x \in S : x < b,
           NEW n \in FirstOf(S), NEW m \in S, m <= n
    PROVE  m \in FirstOf(S)
<1> DEFINE Below(k) == {x \in S : x < k}
<1>1. n \in S /\ Cardinality(Below(n)) < PageSize
    BY DEF FirstOf
<1>2. IsFiniteSet(S)
    BY FS_BoundedSetOfNaturals
<1>3. Below(m) \in SUBSET Below(n) /\ Below(n) \in SUBSET S
    <2>1. n \in Nat /\ m \in Nat /\ \A x \in S : x \in Nat
        BY <1>1
    <2>2. \A x \in S : x < m => x < n
        BY <2>1
    <2> QED
        BY <2>2
<1>4. IsFiniteSet(Below(n)) /\ IsFiniteSet(Below(m))
    BY <1>2, <1>3, FS_Subset
<1>5. Cardinality(Below(m)) <= Cardinality(Below(n))
    BY <1>3, <1>4, FS_Subset
<1>6. Cardinality(Below(m)) \in Nat /\ Cardinality(Below(n)) \in Nat
    BY <1>4, FS_CardinalityType
<1>7. PageSize \in Nat
    BY PageAssumption
<1>8. Cardinality(Below(m)) < PageSize
    BY <1>1, <1>5, <1>6, <1>7
<1> QED
    BY <1>8 DEF FirstOf

\* The numbers of an inbox are naturals below the next one.
LEMMA SeqsBounded ==
    ASSUME Types, TablesInv, NEW u \in Users
    PROVE  /\ Seqs(u) \in SUBSET Nat
           /\ \A x \in Seqs(u) : 0 < x /\ x < nextValue
<1>1. \A n \in notifications : n.seq \in Nat /\ 0 < n.seq /\ n.seq < nextValue
    BY DEF Types, TablesInv, Notification
<1> QED
    BY <1>1 DEF Seqs

\* notifications_after: numbers of the inbox above the cursor, in order, and all of them up
\* to the last (activity.py 333-346).
LEMMA PageFacts ==
    ASSUME Types, TablesInv, NEW u \in Users, NEW cursor \in Nat
    PROVE  LET page == NotificationsAfter(u, cursor) IN
           /\ page \in Seq(Nat) /\ Ascending(page)
           /\ \A x \in Elements(page) : x \in Seqs(u) /\ cursor < x /\ x < nextValue
           /\ \A seq \in Seqs(u), x \in Elements(page) :
                  cursor < seq /\ seq <= x => seq \in Elements(page)
<1> DEFINE rows == {seq \in Seqs(u) : seq > cursor}
           first == FirstOf(rows)
           page == NotificationsAfter(u, cursor)
<1>1. nextValue \in Nat /\ rows \in SUBSET Nat /\ \A x \in rows : x < nextValue
    BY SeqsBounded DEF Types
<1>2. first \in SUBSET rows
    BY DEF FirstOf
<1>3. first \in SUBSET Nat /\ \A x \in first : x < nextValue
    BY <1>1, <1>2
<1>4. page = InOrder(first)
    BY DEF NotificationsAfter
<1> HIDE DEF page, first
<1>5. page \in Seq(first) /\ Ascending(page) /\ Elements(page) = first
    BY <1>1, <1>3, <1>4, InOrderEnumerates DEF Enumerates
<1>6. page \in Seq(Nat)
    <2>1. page \in [1..Len(page) -> first] /\ Len(page) \in Nat
        BY <1>5
    <2>2. page \in [1..Len(page) -> Nat]
        BY <1>3, <2>1
    <2> QED
        BY <2>1, <2>2
<1>7. \A x \in Elements(page) : x \in Seqs(u) /\ cursor < x /\ x < nextValue
    BY <1>1, <1>2, <1>5
<1>8. ASSUME NEW seq \in Seqs(u), NEW x \in Elements(page), cursor < seq, seq <= x
      PROVE  seq \in Elements(page)
    <2>1. seq \in rows /\ x \in FirstOf(rows)
        BY <1>5, <1>8, <1>1, SeqsBounded DEF first
    <2>2. seq \in FirstOf(rows)
        BY <1>1, <1>8, <2>1, FirstOfDownward
    <2> QED
        BY <1>5, <2>2 DEF first
<1> QED
    BY <1>5, <1>6, <1>7, <1>8 DEF page

--------------------------------------------------------------------------------
(* What a step leaves to everybody it is not about.                             *)

\* A list of drafts names users, none twice.
LEMMA DraftFacts ==
    ASSUME NEW d \in DraftLists
    PROVE  /\ Len(d) \in Nat /\ DOMAIN d = 1..Len(d) /\ d \in [1..Len(d) -> Users]
           /\ \A i, j \in 1..Len(d) : d[i] = d[j] => i = j
           /\ Len(d) = 0 <=> d = <<>>
<1>1. Cardinality(Users) \in Nat
    BY UsersAssumption, FS_CardinalityType
<1>2. PICK n \in 0..Cardinality(Users) : d \in [1..n -> Users]
    BY DEF DraftLists
<1>3. n \in Nat
    BY <1>1
<1>4. Len(d) = n /\ DOMAIN d = 1..n
    BY <1>2, <1>3
<1>5. \A i, j \in DOMAIN d : d[i] = d[j] => i = j
    BY DEF DraftLists
<1>6. Len(d) = 0 <=> d = <<>>
    BY <1>2, <1>3, <1>4
<1> QED
    BY <1>2, <1>3, <1>4, <1>5, <1>6

LEMMA NoDrafts == <<>> \in DraftLists
<1>1. Cardinality(Users) \in Nat
    BY UsersAssumption, FS_CardinalityType
<1>2. <<>> \in [1..0 -> Users] /\ 0 \in 0..Cardinality(Users)
    BY <1>1
<1> QED
    BY <1>2 DEF DraftLists

\* A call's fields.
LEMMA CallTypes ==
    ASSUME Types, NEW r \in Recorders
    PROVE  /\ Call(r) \in RecordState /\ Call(r).pc \in RecordLabels
           /\ Call(r).actor \in Users \cup {Nobody}
           /\ Call(r).activity \in Activities \cup {Nobody} /\ Call(r).drafts \in DraftLists
           /\ Call(r).done \in Nat /\ Call(r).next \in Nat
           /\ Call(r).rows \in SUBSET Notification
<1>1. Call(r) \in RecordState
    BY DEF Types, Call
<1> QED
    BY <1>1 DEF RecordState

LEMMA NoRecordType == NoRecord \in RecordState
BY NoDrafts DEF NoRecord, RecordState, RecordLabels

\* What a recorder relies on: its own call, the sequence row while it holds it, the members
\* it has written to, and its activity.
LEMMA RecorderKept ==
    ASSUME Types, NEW r \in Recorders, RecorderInv(r),
           record'[r] = record[r],
           sequenceLock' = r <=> sequenceLock = r,
           sequenceLock = r => nextValue' = nextValue,
           \A n \in Call(r).rows : n.user \in members => n.user \in members',
           Call(r).pc \in Writing => Call(r).activity \notin activities'
    PROVE  RecorderInv(r)'
<1>1. /\ Call(r)' = Call(r) /\ Call(r).done \in Nat
    BY CallTypes DEF Call
<1>2. CASE Call(r).pc \in Writing
    <2>1. Call(r).rows = Rows(r) /\ \A i \in 1..Call(r).done : Call(r).drafts[i] \in members
        BY <1>2 DEF RecorderInv
    <2>2. \A i \in 1..Call(r).done : Row(r, i) \in Call(r).rows /\ Row(r, i).user = Call(r).drafts[i]
        BY <2>1 DEF Rows, Row
    <2>3. \A i \in 1..Call(r).done : Call(r).drafts[i] \in members'
        BY <2>1, <2>2
    <2>4. Rows(r)' = Rows(r)
        <3>1. CASE sequenceLock = r
            BY <1>1, <3>1 DEF Rows, Row
        <3>2. CASE sequenceLock # r
            <4>1. Call(r).done = 0
                BY <1>1, <1>2, <3>2 DEF RecorderInv, Writing
            <4>2. 1..Call(r).done = {}
                BY <4>1
            <4> QED
                BY <1>1, <4>2 DEF Rows
        <3> QED
            BY <3>1, <3>2
    <2>5. Call(r).rows = Rows(r)'
        BY <2>1, <2>4
    <2> QED
        BY <1>1, <1>2, <2>3, <2>5 DEF RecorderInv, Writing
<1>3. CASE Call(r).pc \notin Writing
    BY <1>1, <1>3 DEF RecorderInv, Writing
<1> QED
    BY <1>2, <1>3

\* What a stream relies on: nothing appears in the inbox below nextValue.
LEMMA StreamKept ==
    ASSUME Types, NEW u \in Users, StreamInv(u),
           stream'[u] = stream[u], wire'[u] = wire[u], received'[u] = received[u],
           nextValue' \in Nat, nextValue <= nextValue',
           \A seq \in Seqs(u)' : seq \in Nat /\ (seq \in Seqs(u) \/ nextValue <= seq)
    PROVE  StreamInv(u)'
<1>1. /\ Sent(u)' = Sent(u) /\ nextValue \in Nat
      /\ stream[u] \in StreamState /\ wire[u] \in Seq(Nat) /\ received[u] \in Seq(Nat)
    BY DEF Types, Sent, Elements
<1>2. stream[u].cursor \in Nat /\ stream[u].batch \in Seq(Nat)
    BY <1>1 DEF StreamState
<1>3. /\ \A x \in Elements(stream[u].batch) : x \in Nat
      /\ \A x \in Sent(u) : x \in Nat
    BY <1>1, <1>2 DEF Sent, Elements
<1>4. \A seq \in Seqs(u)', x \in Sent(u) : seq <= x => seq \in Sent(u)
    BY <1>1, <1>3 DEF StreamInv
<1>5. \A seq \in Seqs(u)', x \in Elements(stream[u].batch) :
          stream[u].cursor < seq /\ seq <= x => seq \in Elements(stream[u].batch)
    <2> SUFFICES ASSUME NEW seq \in Seqs(u)', NEW x \in Elements(stream[u].batch),
                        stream[u].cursor < seq, seq <= x
                 PROVE  seq \in Elements(stream[u].batch)
        OBVIOUS
    <2>1. x < nextValue /\ x \in Nat /\ seq \in Nat
        BY <1>3 DEF StreamInv
    <2>2. seq \in Seqs(u)
        BY <1>1, <2>1
    <2> QED
        BY <2>2 DEF StreamInv
<1>6. \A x \in Sent(u) : 0 < x /\ x < nextValue'
    BY <1>1, <1>3 DEF StreamInv
<1>7. /\ stream[u].cursor < nextValue'
      /\ \A x \in Elements(stream[u].batch) : stream[u].cursor < x /\ x < nextValue'
    BY <1>1, <1>2, <1>3 DEF StreamInv
<1> QED
    BY <1>1, <1>4, <1>5, <1>6, <1>7 DEF StreamInv

--------------------------------------------------------------------------------
(* Recorders.                                                                   *)

\* A step of a recorder before its commit leaves everybody else's invariant alone.
LEMMA RecorderMoveInv ==
    ASSUME Inv, NEW r \in Recorders, NEW c \in RecordState,
           record' = [record EXCEPT ![r] = c],
           UNCHANGED <<members, tables, streamVars>>,
           sequenceLock' \in Recorders \cup {Nobody},
           sequenceLock' # sequenceLock => {sequenceLock, sequenceLock'} \subseteq {r, Nobody},
           RecorderInv(r)',
           c.pc \in Writing => \A s \in Recorders \ {r} :
               Call(s).pc \in Writing => Call(s).activity # c.activity
    PROVE  Inv'
<1>t. Types
    BY DEF Inv
<1>k. /\ UNCHANGED <<members, activities, notifications, nextValue, stream, wire, received>>
      /\ record \in [Recorders -> RecordState] /\ nextValue \in Nat
    BY <1>t DEF Types, tables, streamVars
<1>1. Types'
    BY <1>t, <1>k DEF Types
<1>2. TablesInv'
    BY <1>k DEF Inv, TablesInv, OneProjectionEach, InboxOfMembers
<1>3. /\ record'[r] = c /\ \A s \in Recorders \ {r} : record'[s] = record[s]
    BY <1>k
<1>4. OneWriterEach'
    BY <1>3 DEF Inv, OneWriterEach, Call
<1>5. ASSUME NEW s \in Recorders
      PROVE  RecorderInv(s)'
    <2>1. CASE s = r
        BY <2>1
    <2>2. CASE s # r
        <3>1. /\ record'[s] = record[s] /\ RecorderInv(s)
              /\ sequenceLock' = s <=> sequenceLock = s
            BY <1>3, <2>2, NobodyAssumption DEF Inv
        <3>2. Call(s).pc \in Writing => Call(s).activity \notin activities'
            BY <1>k, <3>1 DEF RecorderInv
        <3> QED
            BY <1>t, <1>k, <3>1, <3>2, RecorderKept
    <2> QED
        BY <2>1, <2>2
<1>6. ASSUME NEW u \in Users
      PROVE  StreamInv(u)'
    <2>1. Seqs(u)' = Seqs(u) /\ Seqs(u) \in SUBSET Nat /\ StreamInv(u)
        BY <1>t, <1>k, SeqsBounded DEF Inv, Seqs
    <2> QED
        BY <1>t, <1>k, <2>1, StreamKept
<1> QED
    BY <1>1, <1>2, <1>4, <1>5, <1>6 DEF Inv

\* A call that ends without a commit.
LEMMA FailInv ==
    ASSUME Inv, NEW r \in Recorders, Fail(r)
    PROVE  Inv'
<1>1. /\ record' = [record EXCEPT ![r] = NoRecord]
      /\ UNCHANGED <<members, tables, streamVars>>
      /\ sequenceLock' = IF sequenceLock = r THEN Nobody ELSE sequenceLock
    BY DEF Fail, End, Release
<1>2. record \in [Recorders -> RecordState] /\ sequenceLock \in Recorders \cup {Nobody}
    BY DEF Inv, Types
<1>3. Call(r)' = NoRecord /\ sequenceLock' # r
    BY <1>1, <1>2, NobodyAssumption DEF Call
<1>4. RecorderInv(r)'
    BY <1>3 DEF RecorderInv, NoRecord, Writing
<1>5. NoRecord.pc \notin Writing
    BY DEF NoRecord, Writing
<1> QED
    BY <1>1, <1>2, <1>4, <1>5, NoRecordType, RecorderMoveInv

\* What Step writes.
LEMMA StepEffect ==
    ASSUME Inv, NEW r \in Recorders, NEW c, Step(r, c)
    PROVE  /\ record' = [record EXCEPT ![r] = c] /\ Call(r)' = c
           /\ UNCHANGED <<members, tables, streamVars>>
           /\ UNCHANGED <<members, activities, nextValue>>
           /\ sequenceLock \in Recorders \cup {Nobody}
BY DEF Step, Inv, Types, Call, tables

LEMMA RecordInv ==
    ASSUME Inv, NEW r \in Recorders, NEW activity \in Activities,
           NEW actor \in Users \cup {Nobody}, NEW drafts \in DraftLists,
           Record(r, activity, actor, drafts)
    PROVE  Inv'
<1> DEFINE c == [NoRecord EXCEPT !.pc = IF actor = Nobody THEN "recipients" ELSE "actor",
                                 !.actor = actor, !.activity = activity, !.drafts = drafts]
<1>1. Call(r).pc = "idle" /\ Step(r, c) /\ UNCHANGED sequenceLock
    BY DEF Record
<1>2. /\ c \in RecordState /\ c.pc \in {"actor", "recipients"}
      /\ c.activity = activity /\ c.done = 0 /\ c.rows = {} /\ c.drafts = drafts
    BY DEF NoRecord, RecordState, RecordLabels
<1> HIDE DEF c
<1>3. sequenceLock # r
    BY <1>1 DEF Inv, RecorderInv, Writing
<1>4. Len(drafts) \in Nat
    BY DraftFacts
<1>5. RecorderInv(r)'
    <2>1. Call(r)' = c /\ sequenceLock' # r
        BY <1>1, <1>3, StepEffect
    <2> QED
        BY <1>2, <1>4, <2>1 DEF RecorderInv, Writing
<1>6. c.pc \notin Writing
    BY <1>2 DEF Writing
<1> QED
    BY <1>1, <1>2, <1>5, <1>6, StepEffect, RecorderMoveInv

\* Who reads members moves on; nothing is written.
LEMMA CheckInv ==
    ASSUME Inv, NEW r \in Recorders, CheckActor(r) \/ CheckRecipient(r)
    PROVE  Inv'
<1> DEFINE done == IF Call(r).pc = "actor" THEN Call(r).done ELSE Call(r).done + 1
           c == [Call(r) EXCEPT !.pc = "recipients", !.done = done]
<1>1. /\ Call(r) \in RecordState /\ Call(r).done \in Nat /\ Len(Call(r).drafts) \in Nat
    BY CallTypes, DraftFacts DEF Inv
<1>2. /\ Call(r).pc \in {"actor", "recipients"} /\ Step(r, c) /\ UNCHANGED sequenceLock
      /\ Call(r).pc = "recipients" => Call(r).done # Len(Call(r).drafts)
    <2>1. CASE CheckActor(r)
        <3>1. c = [Call(r) EXCEPT !.pc = "recipients"]
            BY <1>1, <2>1 DEF CheckActor, RecordState
        <3> QED
            BY <2>1, <3>1 DEF CheckActor
    <2>2. CASE CheckRecipient(r)
        <3>1. c = [Call(r) EXCEPT !.done = @ + 1]
            BY <1>1, <2>2 DEF CheckRecipient, RecordState
        <3> QED
            BY <2>2, <3>1 DEF CheckRecipient, Done
    <2> QED
        BY <2>1, <2>2
<1>3. /\ Call(r).activity \in Activities /\ Call(r).done <= Len(Call(r).drafts)
      /\ Call(r).rows = {} /\ sequenceLock # r
    BY <1>2 DEF Inv, RecorderInv, Writing
<1>5. done \in Nat /\ done <= Len(Call(r).drafts)
    BY <1>1, <1>2, <1>3
<1> HIDE DEF done
<1>4. /\ c \in RecordState /\ c.pc = "recipients" /\ c.done = done /\ c.rows = {}
      /\ c.activity = Call(r).activity /\ c.drafts = Call(r).drafts
    BY <1>1, <1>3, <1>5 DEF RecordState, RecordLabels
<1> HIDE DEF c
<1>6. RecorderInv(r)'
    <2>1. Call(r)' = c /\ sequenceLock' # r
        BY <1>2, <1>3, StepEffect
    <2> QED
        BY <1>3, <1>4, <1>5, <2>1 DEF RecorderInv, Writing
<1>7. c.pc \notin Writing
    BY <1>4 DEF Writing
<1> QED
    BY <1>2, <1>4, <1>6, <1>7, StepEffect, RecorderMoveInv

\* The activity is inserted: nobody else has it, under way or committed.
LEMMA InsertActivityInv ==
    ASSUME Inv, NEW r \in Recorders, InsertActivity(r)
    PROVE  Inv'
<1> DEFINE pc2 == IF Call(r).drafts = <<>> THEN "commit" ELSE "sequence"
           c == [Call(r) EXCEPT !.pc = pc2, !.done = 0]
<1>1. /\ Call(r).pc = "recipients" /\ Step(r, c) /\ UNCHANGED sequenceLock
      /\ Inserting(Call(r).activity) = {} /\ Call(r).activity \notin activities
    BY DEF InsertActivity
<1>2. /\ Call(r) \in RecordState /\ Len(Call(r).drafts) \in Nat
      /\ Len(Call(r).drafts) = 0 <=> Call(r).drafts = <<>>
    BY CallTypes, DraftFacts DEF Inv
<1>3. Call(r).activity \in Activities /\ Call(r).rows = {} /\ sequenceLock # r
    BY <1>1 DEF Inv, RecorderInv, Writing
<1>4. /\ c \in RecordState /\ c.pc = pc2 /\ c.done = 0 /\ c.rows = {}
      /\ c.activity = Call(r).activity /\ c.drafts = Call(r).drafts
    BY <1>2, <1>3 DEF RecordState, RecordLabels
<1> HIDE DEF c
<1>5. /\ Call(r)' = c /\ sequenceLock' # r /\ activities' = activities
    BY <1>1, <1>3, StepEffect
<1>6. 1..c.done = {}
    BY <1>4
<1>7. Rows(r)' = {}
    BY <1>5, <1>6 DEF Rows
<1>8. RecorderInv(r)'
    BY <1>1, <1>2, <1>3, <1>4, <1>5, <1>6, <1>7 DEF RecorderInv, Writing
<1>9. \A s \in Recorders \ {r} : Call(s).pc \in Writing => Call(s).activity # c.activity
    BY <1>1, <1>4 DEF Inserting, Writing
<1> QED
    BY <1>1, <1>4, <1>8, <1>9, StepEffect, RecorderMoveInv

\* The sequence row is taken, or held already, and the next number drawn from it.
LEMMA NextSequenceInv ==
    ASSUME Inv, NEW r \in Recorders, NextSequence(r)
    PROVE  Inv'
<1> DEFINE next == (IF sequenceLock = r THEN Call(r).next ELSE nextValue) + 1
           c == [Call(r) EXCEPT !.pc = "project", !.next = next]
<1>1. /\ Call(r) \in RecordState /\ Call(r).next \in Nat /\ Call(r).done \in Nat
      /\ Len(Call(r).drafts) \in Nat /\ nextValue \in Nat
    BY CallTypes, DraftFacts DEF Inv, Types
<1>2. /\ Call(r).pc = "sequence" /\ sequenceLock \in {Nobody, r} /\ sequenceLock' = r
      /\ Step(r, c)
    <2>1. Step(r, [Call(r) EXCEPT !.pc = "project",
                        !.next = (IF sequenceLock = r THEN @ ELSE nextValue) + 1])
        BY DEF NextSequence
    <2>2. [Call(r) EXCEPT !.pc = "project",
               !.next = (IF sequenceLock = r THEN @ ELSE nextValue) + 1] = c
        BY <1>1 DEF RecordState
    <2> QED
        BY <2>1, <2>2 DEF NextSequence
<1>3. /\ Call(r).activity \in Activities /\ Call(r).done < Len(Call(r).drafts)
      /\ Call(r).rows = Rows(r) /\ Call(r).activity \notin activities
      /\ \A i \in 1..Call(r).done : Call(r).drafts[i] \in members
      /\ IF Call(r).done > 0
         THEN sequenceLock = r /\ Call(r).next = nextValue + Call(r).done
         ELSE sequenceLock # r
    BY <1>2 DEF Inv, RecorderInv, Writing
<1>4. next = nextValue + Call(r).done + 1 /\ next \in Nat
    BY <1>1, <1>3
<1>5. /\ c \in RecordState /\ c.pc = "project" /\ c.done = Call(r).done /\ c.next = next
      /\ c.rows = Call(r).rows /\ c.activity = Call(r).activity /\ c.drafts = Call(r).drafts
    BY <1>1, <1>4 DEF RecordState, RecordLabels
<1> HIDE DEF c, next
<1>6. /\ Call(r)' = c /\ UNCHANGED <<members, activities, nextValue>>
    BY <1>2, StepEffect
<1>7. Rows(r)' = Rows(r)
    BY <1>5, <1>6 DEF Rows, Row
<1>8. RecorderInv(r)'
    BY <1>1, <1>2, <1>3, <1>4, <1>5, <1>6, <1>7 DEF RecorderInv, Writing
<1>9. \A s \in Recorders \ {r} : Call(s).pc \in Writing => Call(s).activity # c.activity
    BY <1>2, <1>5 DEF Inv, OneWriterEach, Writing
<1> QED
    BY <1>2, <1>5, <1>8, <1>9, StepEffect, RecorderMoveInv

\* A row is written for a member, with the number drawn.
LEMMA ProjectInv ==
    ASSUME Inv, NEW r \in Recorders, Project(r)
    PROVE  Inv'
<1> DEFINE done == Call(r).done + 1
           row == [seq |-> Call(r).next - 1, user |-> Recipient(r),
                   activity |-> Call(r).activity, read |-> FALSE]
           pc2 == IF done = Len(Call(r).drafts) THEN "commit" ELSE "sequence"
           c == [Call(r) EXCEPT !.pc = pc2, !.done = done, !.rows = Call(r).rows \cup {row}]
<1>1. /\ Call(r) \in RecordState /\ Call(r).next \in Nat /\ Call(r).done \in Nat
      /\ Len(Call(r).drafts) \in Nat /\ nextValue \in Nat \ {0}
      /\ Call(r).drafts \in [1..Len(Call(r).drafts) -> Users]
      /\ Call(r).rows \in SUBSET Notification
    BY CallTypes, DraftFacts DEF Inv, Types
<1>2. /\ Call(r).pc = "project" /\ Recipient(r) \in members /\ UNCHANGED sequenceLock
      /\ Step(r, c)
    <2>1. Step(r, [Call(r) EXCEPT
                       !.pc   = IF Call(r).done + 1 = Len(Call(r).drafts) THEN "commit"
                                ELSE "sequence",
                       !.done = @ + 1,
                       !.rows = @ \cup {[seq |-> Call(r).next - 1, user |-> Recipient(r),
                                         activity |-> Call(r).activity, read |-> FALSE]}])
        BY DEF Project
    <2>2. [Call(r) EXCEPT
               !.pc   = IF Call(r).done + 1 = Len(Call(r).drafts) THEN "commit" ELSE "sequence",
               !.done = @ + 1,
               !.rows = @ \cup {[seq |-> Call(r).next - 1, user |-> Recipient(r),
                                 activity |-> Call(r).activity, read |-> FALSE]}] = c
        BY <1>1 DEF RecordState
    <2> QED
        BY <2>1, <2>2 DEF Project
<1>3. /\ Call(r).activity \in Activities /\ Call(r).done < Len(Call(r).drafts)
      /\ Call(r).rows = Rows(r) /\ Call(r).activity \notin activities
      /\ \A i \in 1..Call(r).done : Call(r).drafts[i] \in members
      /\ sequenceLock = r /\ Call(r).next = nextValue + Call(r).done + 1
    BY <1>2 DEF Inv, RecorderInv, Writing
<1>4. /\ done \in Nat /\ done > 0 /\ done <= Len(Call(r).drafts)
      /\ Recipient(r) = Call(r).drafts[done] /\ Recipient(r) \in Users
      /\ Call(r).next - 1 = nextValue + done - 1 /\ Call(r).next - 1 \in Nat \ {0}
    <2>1. done \in 1..Len(Call(r).drafts)
        BY <1>1, <1>3
    <2>2. Recipient(r) = Call(r).drafts[done]
        BY DEF Recipient
    <2>3. Call(r).drafts[done] \in Users
        BY <1>1, <2>1
    <2>4. Call(r).next - 1 = nextValue + done - 1 /\ Call(r).next - 1 \in Nat \ {0}
        BY <1>1, <1>3
    <2> QED
        BY <2>1, <2>2, <2>3, <2>4
<1>5. row \in Notification
    BY <1>3, <1>4 DEF Notification
<1>6. /\ c \in RecordState /\ c.pc = pc2 /\ c.done = done /\ c.next = Call(r).next
      /\ c.rows = Call(r).rows \cup {row} /\ c.activity = Call(r).activity
      /\ c.drafts = Call(r).drafts
    <2>1. Call(r).rows \cup {row} \in SUBSET Notification
        BY <1>1, <1>5
    <2> QED
        BY <1>1, <1>4, <2>1 DEF RecordState, RecordLabels
<1> HIDE DEF c
<1>7. /\ Call(r)' = c /\ UNCHANGED <<members, activities, nextValue>>
    BY <1>2, StepEffect
<1>8. Rows(r)' = Call(r).rows \cup {row}
    <2>1. \A i \in 1..done : Row(r, i)' = Row(r, i)
        BY <1>6, <1>7 DEF Row
    <2>2. Row(r, done) = row
        BY <1>4 DEF Row
    <2>3. 1..done = (1..Call(r).done) \cup {done}
        BY <1>1
    <2>4. Rows(r)' = {Row(r, i)' : i \in 1..done}
        BY <1>6, <1>7 DEF Rows
    <2>5. Rows(r) = {Row(r, i) : i \in 1..Call(r).done}
        BY DEF Rows
    <2> HIDE DEF row
    <2>6. {Row(r, i)' : i \in 1..done} = {Row(r, i) : i \in 1..done}
        BY <2>1
    <2>7. {Row(r, i) : i \in 1..done} = {Row(r, i) : i \in 1..Call(r).done} \cup {row}
        BY <2>2, <2>3
    <2> QED
        BY <1>3, <2>4, <2>5, <2>6, <2>7
<1>9. ASSUME NEW i \in 1..done
      PROVE  Call(r).drafts[i] \in members
    <2>1. CASE i = done
        BY <1>2, <1>4, <2>1
    <2>2. CASE i # done
        <3>1. i \in 1..Call(r).done
            BY <1>1, <2>2
        <3> QED
            BY <1>3, <3>1
    <2> QED
        BY <2>1, <2>2
<1> HIDE DEF row
<1>10. RecorderInv(r)'
    <2>1. /\ c.pc \in {"sequence", "commit"} /\ sequenceLock' = r
          /\ c.pc = "sequence" => done < Len(c.drafts)
          /\ c.pc = "commit" => done = Len(c.drafts)
        BY <1>1, <1>2, <1>3, <1>4, <1>6
    <2>2. c.next = nextValue' + done /\ c.activity \notin activities' /\ c.activity \in Activities
        BY <1>1, <1>3, <1>6, <1>7
    <2>3. \A i \in 1..done : c.drafts[i] \in members'
        BY <1>6, <1>7, <1>9
    <2> QED
        BY <1>4, <1>6, <1>7, <1>8, <2>1, <2>2, <2>3 DEF RecorderInv, Writing
<1>11. \A s \in Recorders \ {r} : Call(s).pc \in Writing => Call(s).activity # c.activity
    BY <1>2, <1>6 DEF Inv, OneWriterEach, Writing
<1> QED
    BY <1>2, <1>3, <1>6, <1>10, <1>11, StepEffect, RecorderMoveInv

\* What a commit publishes: the i-th draft under the number nextValue + i - 1.
LEMMA CommitEffect ==
    ASSUME Inv, NEW r \in Recorders, CommitRecord(r)
    PROVE  /\ Call(r).pc = "commit" /\ Call(r).drafts \in DraftLists
           /\ Call(r).activity \in Activities \ activities
           /\ activities' = activities \cup {Call(r).activity}
           /\ notifications' = notifications \cup {Row(r, i) : i \in 1..Len(Call(r).drafts)}
           /\ nextValue' = nextValue + Len(Call(r).drafts)
           /\ \A i \in 1..Len(Call(r).drafts) :
                  /\ Row(r, i) \in Notification /\ Call(r).drafts[i] \in members
           /\ Call(r).drafts # <<>> => sequenceLock = r
<1> DEFINE len == Len(Call(r).drafts)
<1>1. /\ Call(r).pc = "commit" /\ activities' = activities \cup {Call(r).activity}
      /\ notifications' = notifications \cup Call(r).rows
      /\ nextValue' = IF Call(r).rows = {} THEN nextValue ELSE Call(r).next
    BY DEF CommitRecord
<1>2. /\ Call(r).drafts \in DraftLists /\ len \in Nat /\ nextValue \in Nat
      /\ len = 0 <=> Call(r).drafts = <<>>
      /\ Call(r).rows \in SUBSET Notification
    BY CallTypes, DraftFacts DEF Inv, Types
<1>3. /\ Call(r).done = len /\ Call(r).rows = Rows(r)
      /\ Call(r).activity \in Activities \ activities
      /\ \A i \in 1..Call(r).done : Call(r).drafts[i] \in members
      /\ Call(r).done > 0 => sequenceLock = r /\ Call(r).next = nextValue + Call(r).done
    BY <1>1 DEF Inv, RecorderInv, Writing
<1>4. Call(r).rows = {Row(r, i) : i \in 1..len}
    BY <1>3 DEF Rows
<1>5. nextValue' = nextValue + len
    <2>1. CASE len = 0
        <3>1. 1..len = {}
            BY <2>1
        <3>2. Call(r).rows = {}
            BY <1>4, <3>1
        <3> QED
            BY <1>1, <1>2, <2>1, <3>2
    <2>2. CASE len # 0
        <3>1. 1 \in 1..len
            BY <1>2, <2>2
        <3>2. Call(r).rows # {}
            BY <1>4, <3>1
        <3> QED
            BY <1>1, <1>2, <1>3, <2>2, <3>2
    <2> QED
        BY <2>1, <2>2
<1>6. Call(r).drafts # <<>> => sequenceLock = r
    BY <1>2, <1>3
<1>7. \A i \in 1..len : Row(r, i) \in Notification
    BY <1>2, <1>4
<1> QED
    BY <1>1, <1>2, <1>3, <1>4, <1>5, <1>6, <1>7

\* Rows of one commit differ in number and user, and come after every row before.
LEMMA CommitTablesInv ==
    ASSUME Inv, NEW r \in Recorders, CommitRecord(r)
    PROVE  TablesInv'
<1> DEFINE c == Call(r)
           len == Len(Call(r).drafts)
           new == {Row(r, i) : i \in 1..len}
<1>1. /\ c.drafts \in DraftLists /\ c.activity \notin activities
      /\ activities' = activities \cup {c.activity} /\ notifications' = notifications \cup new
      /\ nextValue' = nextValue + len
      /\ \A i \in 1..len : c.drafts[i] \in members
    BY CommitEffect
<1>2. /\ len \in Nat /\ nextValue \in Nat /\ UNCHANGED members
      /\ \A i, j \in 1..len : c.drafts[i] = c.drafts[j] => i = j
    BY <1>1, DraftFacts DEF Inv, Types, CommitRecord
<1>3. ASSUME NEW n \in notifications
      PROVE  /\ n.seq \in Nat /\ n.seq < nextValue /\ n.user \in members
             /\ n.activity \in activities
    BY DEF Inv, Types, TablesInv, InboxOfMembers, Notification
<1>4. ASSUME NEW n \in new
      PROVE  \E i \in 1..len : /\ n = Row(r, i) /\ n.seq = nextValue + i - 1
                               /\ n.user = c.drafts[i] /\ n.activity = c.activity
    BY DEF Row
<1> HIDE DEF new, c
<1>5. ASSUME NEW n \in new
      PROVE  /\ n.seq \in Nat /\ nextValue <= n.seq /\ n.seq < nextValue + len
             /\ n.user \in members /\ n.activity = c.activity
    <2>1. PICK i \in 1..len : /\ n.seq = nextValue + i - 1
                              /\ n.user = c.drafts[i] /\ n.activity = c.activity
        BY <1>4
    <2> QED
        BY <1>1, <1>2, <2>1
<1>6. ASSUME NEW n \in new, NEW m \in new, n.seq = m.seq \/ n.user = m.user
      PROVE  n = m
    <2>1. PICK i \in 1..len : n = Row(r, i) /\ n.seq = nextValue + i - 1 /\ n.user = c.drafts[i]
        BY <1>4
    <2>2. PICK j \in 1..len : m = Row(r, j) /\ m.seq = nextValue + j - 1 /\ m.user = c.drafts[j]
        BY <1>4
    <2>3. i = j
        BY <1>2, <1>6, <2>1, <2>2
    <2> QED
        BY <2>1, <2>2, <2>3
<1>7. \A n \in notifications' : n.seq < nextValue'
    BY <1>1, <1>2, <1>3, <1>5
<1>8. ASSUME NEW n \in notifications', NEW m \in notifications', n.seq = m.seq
      PROVE  n = m
    <2>1. CASE n \in notifications /\ m \in notifications
        BY <1>8, <2>1 DEF Inv, TablesInv
    <2>2. CASE n \in new /\ m \in new
        BY <1>6, <1>8, <2>2
    <2>3. CASE (n \in notifications /\ m \in new) \/ (n \in new /\ m \in notifications)
        BY <1>2, <1>3, <1>5, <1>8, <2>3
    <2> QED
        BY <1>1, <2>1, <2>2, <2>3
<1>9. ASSUME NEW n \in notifications', NEW m \in notifications',
             n.user = m.user, n.activity = m.activity
      PROVE  n = m
    <2>1. CASE n \in notifications /\ m \in notifications
        BY <1>9, <2>1 DEF Inv, TablesInv, OneProjectionEach
    <2>2. CASE n \in new /\ m \in new
        BY <1>6, <1>9, <2>2
    <2>3. CASE (n \in notifications /\ m \in new) \/ (n \in new /\ m \in notifications)
        BY <1>1, <1>3, <1>5, <1>9, <2>3 DEF c
    <2> QED
        BY <1>1, <2>1, <2>2, <2>3
<1>10. \A n \in notifications' : n.user \in members' /\ n.activity \in activities'
    BY <1>1, <1>2, <1>3, <1>5
<1> QED
    BY <1>7, <1>8, <1>9, <1>10 DEF TablesInv, OneProjectionEach, InboxOfMembers

\* A commit: whoever else writes has another activity and no number yet.
LEMMA CommitInv ==
    ASSUME Inv, NEW r \in Recorders, CommitRecord(r)
    PROVE  Inv'
<1> DEFINE len == Len(Call(r).drafts)
<1>t. Types
    BY DEF Inv
<1>1. /\ Call(r).pc = "commit" /\ Call(r).drafts \in DraftLists
      /\ Call(r).activity \in Activities \ activities
      /\ activities' = activities \cup {Call(r).activity}
      /\ notifications' = notifications \cup {Row(r, i) : i \in 1..len}
      /\ nextValue' = nextValue + len
      /\ \A i \in 1..len : Row(r, i) \in Notification /\ Call(r).drafts[i] \in members
      /\ Call(r).drafts # <<>> => sequenceLock = r
    BY CommitEffect
<1>2. /\ len \in Nat /\ len = 0 <=> Call(r).drafts = <<>>
    BY <1>1, DraftFacts
<1>3. /\ record' = [record EXCEPT ![r] = NoRecord]
      /\ sequenceLock' = IF sequenceLock = r THEN Nobody ELSE sequenceLock
      /\ UNCHANGED <<members, stream, wire, received>>
    BY DEF CommitRecord, End, Release, streamVars
<1>4. /\ nextValue' \in Nat \ {0} /\ nextValue <= nextValue'
      /\ sequenceLock' \in Recorders \cup {Nobody} /\ sequenceLock' # r
      /\ notifications' \in SUBSET Notification
    BY <1>t, <1>1, <1>2, <1>3, NobodyAssumption DEF Types
<1>5. record' \in [Recorders -> RecordState]
    BY <1>t, <1>3, NoRecordType DEF Types
<1>6. Types'
    BY <1>t, <1>1, <1>3, <1>4, <1>5 DEF Types
<1>7. /\ record'[r] = NoRecord /\ \A s \in Recorders \ {r} : record'[s] = record[s]
    BY <1>t, <1>3 DEF Types
<1>8. NoRecord.pc \notin Writing /\ NoRecord.pc = "idle" /\ NoRecord.rows = {}
    BY DEF NoRecord, Writing
<1>9. OneWriterEach'
    BY <1>7, <1>8 DEF Inv, OneWriterEach, Call
<1>10. ASSUME NEW s \in Recorders
       PROVE  RecorderInv(s)'
    <2>1. CASE s = r
        <3>1. Call(s)' = NoRecord /\ sequenceLock' # s
            BY <1>4, <1>7, <2>1 DEF Call
        <3> QED
            BY <1>8, <3>1 DEF RecorderInv, Writing
    <2>2. CASE s # r
        <3>1. /\ record'[s] = record[s] /\ RecorderInv(s)
              /\ sequenceLock' = s <=> sequenceLock = s
            BY <1>3, <1>7, <2>2, NobodyAssumption DEF Inv
        <3>2. sequenceLock = s => nextValue' = nextValue
            BY <1>t, <1>1, <1>2, <2>2 DEF Types
        <3>3. Call(s).pc \in Writing => Call(s).activity \notin activities'
            <4>1. Call(r).pc \in Writing
                BY <1>1 DEF Writing
            <4>2. Call(s).pc \in Writing => Call(s).activity # Call(r).activity
                BY <2>2, <4>1 DEF Inv, OneWriterEach
            <4>3. Call(s).pc \in Writing => Call(s).activity \notin activities
                BY <3>1 DEF RecorderInv
            <4> QED
                BY <1>1, <4>2, <4>3
        <3> QED
            BY <1>t, <1>3, <3>1, <3>2, <3>3, RecorderKept
    <2> QED
        BY <2>1, <2>2
<1>11. ASSUME NEW u \in Users
       PROVE  StreamInv(u)'
    <2>1. \A seq \in Seqs(u)' : seq \in Nat /\ (seq \in Seqs(u) \/ nextValue <= seq)
        <3> SUFFICES ASSUME NEW n \in notifications', n.user = u
                     PROVE  n.seq \in Nat /\ (n.seq \in Seqs(u) \/ nextValue <= n.seq)
            BY DEF Seqs
        <3>1. CASE n \in notifications
            BY <1>t, <3>1 DEF Seqs, Types, Notification
        <3>2. ASSUME NEW i \in 1..len, n = Row(r, i)
              PROVE  n.seq \in Nat /\ nextValue <= n.seq
            <4>1. n.seq = nextValue + i - 1 /\ nextValue \in Nat
                BY <1>t, <3>2 DEF Row, Types
            <4> QED
                BY <1>2, <4>1
        <3> QED
            BY <1>1, <3>1, <3>2
    <2> QED
        BY <1>t, <1>3, <1>4, <2>1, StreamKept DEF Inv
<1> QED
    BY <1>6, <1>9, <1>10, <1>11, CommitTablesInv DEF Inv

--------------------------------------------------------------------------------
(* Members.                                                                     *)

\* A step that only members see: their rows may go or change, none is numbered.
LEMMA MemberMoveInv ==
    ASSUME Inv, UNCHANGED <<activities, nextValue, sequenceLock, record, stream, wire, received>>,
           members' \in SUBSET Users, notifications' \in SUBSET Notification, TablesInv',
           \A r \in Recorders : \A n \in Call(r).rows : n.user \in members => n.user \in members',
           \A u \in Users : Seqs(u)' \subseteq Seqs(u)
    PROVE  Inv'
<1>t. Types /\ TablesInv
    BY DEF Inv
<1>1. Types'
    BY <1>t DEF Types
<1>2. OneWriterEach'
    BY DEF Inv, OneWriterEach, Call
<1>3. ASSUME NEW r \in Recorders
      PROVE  RecorderInv(r)'
    <2>1. Call(r).pc \in Writing => Call(r).activity \notin activities'
        BY DEF Inv, RecorderInv
    <2> QED
        BY <1>t, <2>1, RecorderKept DEF Inv
<1>4. ASSUME NEW u \in Users
      PROVE  StreamInv(u)'
    <2>1. Seqs(u) \in SUBSET Nat /\ nextValue \in Nat
        BY <1>t, SeqsBounded DEF Types
    <2>2. \A seq \in Seqs(u)' : seq \in Nat /\ (seq \in Seqs(u) \/ nextValue <= seq)
        BY <2>1
    <2>3. nextValue' \in Nat /\ nextValue <= nextValue'
        BY <2>1
    <2> QED
        BY <1>t, <2>2, <2>3, StreamKept DEF Inv
<1> QED
    BY <1>1, <1>2, <1>3, <1>4 DEF Inv

LEMMA LeaveInv ==
    ASSUME Inv, NEW u \in Users, Leave(u)
    PROVE  Inv'
<1>1. /\ members' = members \ {u}
      /\ notifications' = {n \in notifications : n.user # u}
      /\ \A r \in Recorders : \A n \in Call(r).rows : n.user # u
      /\ UNCHANGED <<activities, nextValue, sequenceLock, record, stream, wire, received>>
    BY DEF Leave, LeftAfterLeaving, streamVars
<1>2. TablesInv'
    BY <1>1 DEF Inv, TablesInv, OneProjectionEach, InboxOfMembers
<1>3. \A v \in Users : Seqs(v)' \subseteq Seqs(v)
    BY <1>1 DEF Seqs
<1>4. members' \in SUBSET Users /\ notifications' \in SUBSET Notification
    BY <1>1 DEF Inv, Types
<1> QED
    BY <1>1, <1>2, <1>3, <1>4, MemberMoveInv

LEMMA JoinInv ==
    ASSUME Inv, NEW u \in Users, Join(u)
    PROVE  Inv'
<1>1. /\ members' = members \cup {u}
      /\ UNCHANGED <<notifications, activities, nextValue, sequenceLock, record, stream, wire,
                     received>>
    BY DEF Join, streamVars, tables
<1>2. TablesInv'
    BY <1>1 DEF Inv, TablesInv, OneProjectionEach, InboxOfMembers
<1>3. \A v \in Users : Seqs(v)' \subseteq Seqs(v)
    BY <1>1 DEF Seqs
<1>4. members' \in SUBSET Users /\ notifications' \in SUBSET Notification
    BY <1>1 DEF Inv, Types
<1> QED
    BY <1>1, <1>2, <1>3, <1>4, MemberMoveInv

\* A read mark changes one row's mark and no number.
LEMMA MarkReadEffect ==
    ASSUME Inv, NEW u \in Users, NEW n \in notifications, MarkRead(u, n)
    PROVE  /\ notifications' \in SUBSET Notification
           /\ \A x \in notifications' : \E y \in notifications :
                  x.seq = y.seq /\ x.user = y.user /\ x.activity = y.activity
           /\ \A y \in notifications : \E x \in notifications' :
                  x.seq = y.seq /\ x.user = y.user /\ x.activity = y.activity
           /\ TablesInv'
           /\ UNCHANGED <<members, activities, nextValue, sequenceLock, record, stream, wire,
                          received>>
<1> DEFINE read == [n EXCEPT !.read = TRUE]
<1>1. /\ notifications' = (notifications \ {n}) \cup {read}
      /\ UNCHANGED <<members, activities, nextValue, sequenceLock, record, stream, wire,
                     received>>
    BY DEF MarkRead, streamVars
<1>2. n \in Notification /\ notifications \in SUBSET Notification
    BY DEF Inv, Types
<1>3. /\ read \in Notification /\ read.seq = n.seq /\ read.user = n.user
      /\ read.activity = n.activity
    BY <1>2 DEF Notification
<1> HIDE DEF read
<1>4. \A x \in notifications' : x = read \/ x \in notifications \ {n}
    BY <1>1
<1>5. /\ \A x \in notifications' : x.seq < nextValue' /\ x.user \in members'
                                   /\ x.activity \in activities'
    BY <1>1, <1>3 DEF Inv, TablesInv, InboxOfMembers
<1>6. ASSUME NEW x \in notifications', NEW y \in notifications',
             x.seq = y.seq \/ (x.user = y.user /\ x.activity = y.activity)
      PROVE  x = y
    <2>1. CASE x \in notifications \ {n} /\ y \in notifications \ {n}
        BY <1>6, <2>1 DEF Inv, TablesInv, OneProjectionEach
    <2>2. CASE x = read /\ y \in notifications \ {n}
        <3>1. y = n
            BY <1>3, <1>6, <2>2 DEF Inv, TablesInv, OneProjectionEach
        <3> QED
            BY <2>2, <3>1
    <2>3. CASE y = read /\ x \in notifications \ {n}
        <3>1. x = n
            BY <1>3, <1>6, <2>3 DEF Inv, TablesInv, OneProjectionEach
        <3> QED
            BY <2>3, <3>1
    <2> QED
        BY <1>4, <2>1, <2>2, <2>3
<1>7. TablesInv'
    BY <1>5, <1>6 DEF TablesInv, OneProjectionEach, InboxOfMembers
<1> QED
    BY <1>1, <1>2, <1>3, <1>4, <1>7

LEMMA MarkReadInv ==
    ASSUME Inv, NEW u \in Users, NEW n \in notifications, MarkRead(u, n)
    PROVE  Inv'
<1>1. /\ notifications' \in SUBSET Notification /\ TablesInv'
      /\ \A x \in notifications' : \E y \in notifications :
             x.seq = y.seq /\ x.user = y.user /\ x.activity = y.activity
      /\ UNCHANGED <<members, activities, nextValue, sequenceLock, record, stream, wire,
                     received>>
    BY MarkReadEffect
<1>2. \A v \in Users : Seqs(v)' \subseteq Seqs(v)
    BY <1>1 DEF Seqs
<1>3. members' \in SUBSET Users
    BY <1>1 DEF Inv, Types
<1> QED
    BY <1>1, <1>2, <1>3, MemberMoveInv

--------------------------------------------------------------------------------
(* Streams.                                                                     *)

\* A number put at the end.
LEMMA Appending ==
    ASSUME NEW s \in Seq(Nat), NEW x \in Nat
    PROVE  /\ Append(s, x) \in Seq(Nat)
           /\ Elements(Append(s, x)) = Elements(s) \cup {x}
           /\ Ascending(s) /\ (\A y \in Elements(s) : y < x) => Ascending(Append(s, x))
<1>1. /\ Append(s, x) \in Seq(Nat) /\ Len(s) \in Nat /\ DOMAIN s = 1..Len(s)
      /\ DOMAIN Append(s, x) = 1..(Len(s) + 1) /\ Append(s, x)[Len(s) + 1] = x
      /\ \A i \in 1..Len(s) : Append(s, x)[i] = s[i]
    OBVIOUS
<1> DEFINE t == Append(s, x)
<1> HIDE DEF t
<1>2. Elements(t) = Elements(s) \cup {x}
    <2>1. \A y \in Elements(t) : y \in Elements(s) \cup {x}
        BY <1>1 DEF t, Elements
    <2>2. \A i \in DOMAIN s : i \in DOMAIN t /\ t[i] = s[i]
        BY <1>1 DEF t
    <2>3. Len(s) + 1 \in DOMAIN t /\ t[Len(s) + 1] = x
        BY <1>1 DEF t
    <2> QED
        BY <2>1, <2>2, <2>3 DEF Elements
<1>3. ASSUME Ascending(s), \A y \in Elements(s) : y < x
      PROVE  Ascending(t)
    <2> SUFFICES ASSUME NEW i \in 1..(Len(s) + 1), NEW j \in 1..(Len(s) + 1), i < j
                 PROVE  t[i] < t[j]
        BY <1>1 DEF Ascending, t
    <2>1. i \in 1..Len(s) /\ t[i] = s[i]
        BY <1>1 DEF t
    <2>2. CASE j = Len(s) + 1
        BY <1>1, <1>3, <2>1, <2>2 DEF Elements, t
    <2>3. CASE j \in 1..Len(s)
        BY <1>1, <1>3, <2>1, <2>3 DEF Ascending, t
    <2> QED
        BY <1>1, <2>2, <2>3
<1> QED
    BY <1>1, <1>2, <1>3 DEF t

\* The first number and the rest.
LEMMA Splitting ==
    ASSUME NEW s \in Seq(Nat), s # <<>>
    PROVE  /\ Head(s) \in Nat /\ Tail(s) \in Seq(Nat)
           /\ Elements(s) = {Head(s)} \cup Elements(Tail(s))
           /\ Ascending(s) => /\ Ascending(Tail(s))
                              /\ \A x \in Elements(Tail(s)) : Head(s) < x
           /\ Len(s) = 1 <=> Tail(s) = <<>>
<1>1. /\ Len(s) \in Nat /\ Len(s) > 0 /\ DOMAIN s = 1..Len(s) /\ Head(s) = s[1]
      /\ Tail(s) \in Seq(Nat) /\ Len(Tail(s)) = Len(s) - 1
      /\ \A i \in 1..(Len(s) - 1) : Tail(s)[i] = s[i + 1]
      /\ \A i \in 1..Len(s) : s[i] \in Nat
    OBVIOUS
<1> DEFINE t == Tail(s)
<1>2. /\ DOMAIN t = 1..(Len(s) - 1) /\ \A i \in DOMAIN t : t[i] = s[i + 1]
      /\ Len(s) = 1 <=> t = <<>>
    <2>1. \A q \in Seq(Nat) : DOMAIN q = 1..Len(q) /\ Len(q) \in Nat /\ (Len(q) = 0 <=> q = <<>>)
        OBVIOUS
    <2>2. DOMAIN t = 1..Len(t) /\ (Len(t) = 0 <=> t = <<>>)
        BY <1>1, <2>1
    <2> HIDE DEF t
    <2>3. Len(t) = Len(s) - 1 /\ \A i \in 1..(Len(s) - 1) : t[i] = s[i + 1]
        BY <1>1 DEF t
    <2> QED
        BY <1>1, <2>2, <2>3
<1> HIDE DEF t
<1>3. Elements(s) = {s[1]} \cup Elements(t)
    <2>1. \A i \in 1..Len(s) : i = 1 \/ (i - 1 \in DOMAIN t /\ t[i - 1] = s[i])
        BY <1>1, <1>2
    <2>2. \A i \in DOMAIN t : i + 1 \in 1..Len(s) /\ t[i] = s[i + 1]
        BY <1>1, <1>2
    <2>3. 1 \in 1..Len(s)
        BY <1>1
    <2> QED
        BY <1>1, <2>1, <2>2, <2>3 DEF Elements
<1>4. ASSUME Ascending(s)
      PROVE  Ascending(t) /\ \A x \in Elements(t) : s[1] < x
    <2>1. \A i \in DOMAIN t : i \in Nat /\ 1 < i + 1 /\ i + 1 \in DOMAIN s /\ 1 \in DOMAIN s
        BY <1>1, <1>2
    <2>2. \A i, j \in DOMAIN t : i < j => s[i + 1] < s[j + 1]
        BY <1>4, <2>1 DEF Ascending
    <2>3. \A i \in DOMAIN t : s[1] < s[i + 1]
        BY <1>4, <2>1 DEF Ascending
    <2> QED
        BY <1>2, <2>2, <2>3 DEF Ascending, Elements
<1> QED
    BY <1>1, <1>2, <1>3, <1>4 DEF t

\* What the numbers of a stream are.
LEMMA StreamTypes ==
    ASSUME Inv, NEW u \in Users
    PROVE  /\ stream[u] \in StreamState /\ stream[u].pc \in StreamLabels
           /\ stream[u].cursor \in Nat /\ stream[u].batch \in Seq(Nat)
           /\ wire[u] \in Seq(Nat) /\ received[u] \in Seq(Nat)
           /\ \A x \in Sent(u) \cup Elements(stream[u].batch) : x \in Nat
           /\ nextValue \in Nat \ {0}
           /\ \A seq \in Seqs(u) : seq \in Nat /\ 0 < seq
<1>1. /\ stream[u] \in StreamState /\ wire[u] \in Seq(Nat) /\ received[u] \in Seq(Nat)
      /\ nextValue \in Nat \ {0}
    BY DEF Inv, Types
<1>2. /\ stream[u].pc \in StreamLabels /\ stream[u].cursor \in Nat
      /\ stream[u].batch \in Seq(Nat)
    BY <1>1 DEF StreamState
<1>3. \A x \in Sent(u) \cup Elements(stream[u].batch) : x \in Nat
    BY <1>1, <1>2 DEF Sent, Elements
<1>4. \A seq \in Seqs(u) : seq \in Nat /\ 0 < seq
    BY SeqsBounded DEF Inv
<1> QED
    BY <1>1, <1>2, <1>3, <1>4

\* The last event received is the highest.
LEMMA LastReceived ==
    ASSUME Inv, NEW u \in Users
    PROVE  /\ LastEventId(u) \in Elements(received[u]) \cup {0}
           /\ \A x \in Elements(received[u]) : x <= LastEventId(u)
<1>1. /\ received[u] \in Seq(Nat) /\ Ascending(received[u])
    BY StreamTypes DEF Inv, StreamInv
<1> DEFINE s == received[u]
           n == Len(received[u])
<1>2. n \in Nat /\ DOMAIN s = 1..n /\ \A i \in 1..n : s[i] \in Nat
    BY <1>1
<1>3. CASE s = <<>>
    BY <1>3 DEF LastEventId, Elements
<1>4. CASE s # <<>>
    <2>1. n \in 1..n /\ LastEventId(u) = s[n]
        BY <1>1, <1>2, <1>4 DEF LastEventId
    <2>2. \A i \in 1..n : s[i] <= s[n]
        <3> SUFFICES ASSUME NEW i \in 1..n PROVE s[i] <= s[n]
            OBVIOUS
        <3>1. i = n \/ i < n
            BY <1>2
        <3>2. i < n => s[i] < s[n]
            BY <1>1, <1>2, <2>1 DEF Ascending
        <3> QED
            BY <1>2, <2>1, <3>1, <3>2
    <2> QED
        BY <1>2, <2>1, <2>2 DEF Elements
<1> QED
    BY <1>3, <1>4

\* A step of one stream is nobody else's business.
LEMMA StreamMoveInv ==
    ASSUME Inv, NEW u \in Users, StreamOnly,
           stream' \in [Users -> StreamState], wire' \in [Users -> Seq(Nat)],
           received' \in [Users -> Seq(Nat)],
           \A v \in Users \ {u} :
               stream'[v] = stream[v] /\ wire'[v] = wire[v] /\ received'[v] = received[v],
           StreamInv(u)'
    PROVE  Inv'
<1>t. Types /\ TablesInv
    BY DEF Inv
<1>k. UNCHANGED <<members, activities, notifications, nextValue, sequenceLock, record>>
    BY DEF StreamOnly, tables
<1>1. Types'
    BY <1>t, <1>k DEF Types
<1>2. TablesInv'
    BY <1>t, <1>k DEF TablesInv, OneProjectionEach, InboxOfMembers
<1>3. OneWriterEach'
    BY <1>k DEF Inv, OneWriterEach, Call
<1>4. \A r \in Recorders : RecorderInv(r)'
    BY <1>k DEF Inv, RecorderInv, Call, Rows, Row
<1>5. ASSUME NEW v \in Users
      PROVE  StreamInv(v)'
    <2>1. CASE v = u
        BY <2>1
    <2>2. CASE v # u
        <3>1. Seqs(v)' = Seqs(v) /\ Seqs(v) \in SUBSET Nat /\ nextValue \in Nat
            BY <1>t, <1>k, SeqsBounded DEF Seqs, Types
        <3> QED
            BY <1>t, <1>k, <2>2, <3>1, StreamKept DEF Inv
    <2> QED
        BY <2>1, <2>2
<1> QED
    BY <1>1, <1>2, <1>3, <1>4, <1>5 DEF Inv

\* The empty sequence, and a closed stream.
LEMMA Nothing == Elements(<<>>) = {} /\ Ascending(<<>>) /\ <<>> \in Seq(Nat)
BY DEF Elements, Ascending

LEMMA NoStreamFacts ==
    /\ NoStream \in StreamState /\ NoStream.pc = "closed" /\ NoStream.cursor = 0
    /\ NoStream.batch = <<>>
BY DEF NoStream, StreamState, StreamLabels

\* The cursor of a new connection is the highest number the browser has received.
LEMMA ConnectInv ==
    ASSUME Inv, NEW u \in Users, Connect(u)
    PROVE  Inv'
<1> DEFINE new == [pc |-> "authorize", cursor |-> LastEventId(u), batch |-> <<>>]
<1>1. /\ stream[u].pc = "closed" /\ wire[u] = <<>>
      /\ stream' = [stream EXCEPT ![u] = new]
      /\ StreamOnly /\ UNCHANGED <<wire, received>>
    BY DEF Connect
<1>2. StreamInv(u) /\ stream \in [Users -> StreamState] /\ wire \in [Users -> Seq(Nat)]
      /\ received \in [Users -> Seq(Nat)]
    BY DEF Inv, Types
<1>3. Sent(u) = Elements(received[u])
    BY <1>1, Nothing DEF Sent
<1>4. /\ LastEventId(u) \in Sent(u) \cup {0} /\ \A x \in Sent(u) : x <= LastEventId(u)
    BY <1>3, LastReceived
<1>5. LastEventId(u) \in Nat /\ LastEventId(u) < nextValue
    BY <1>2, <1>4, StreamTypes DEF StreamInv
<1>6. /\ new \in StreamState /\ new.pc = "authorize" /\ new.cursor = LastEventId(u)
      /\ new.batch = <<>>
    BY <1>5, Nothing DEF StreamState, StreamLabels
<1> HIDE DEF new
<1>7. stream'[u] = new /\ stream' \in [Users -> StreamState]
    BY <1>1, <1>2, <1>6
<1>8. Sent(u)' = Sent(u) /\ Seqs(u)' = Seqs(u) /\ nextValue' = nextValue
    BY <1>1 DEF Sent, Seqs, StreamOnly, tables
<1>9. StreamInv(u)'
    BY <1>1, <1>2, <1>4, <1>5, <1>6, <1>7, <1>8, Nothing DEF StreamInv
<1> QED
    BY <1>1, <1>2, <1>7, <1>9, StreamMoveInv

\* An authorization that is granted moves the generator on.
LEMMA AuthorizeInv ==
    ASSUME Inv, NEW u \in Users, Authorize(u) \/ AuthorizeDelivery(u)
    PROVE  Inv'
<1> DEFINE label == IF stream[u].pc = "authorize" THEN "fetch" ELSE "emit"
<1>1. /\ stream[u].pc \in {"authorize", "deliver"} /\ stream' = [stream EXCEPT ![u].pc = label]
      /\ StreamOnly /\ UNCHANGED <<wire, received>>
    BY DEF Authorize, AuthorizeDelivery, MoveTo
<1>2. StreamInv(u) /\ stream \in [Users -> StreamState] /\ wire \in [Users -> Seq(Nat)]
      /\ received \in [Users -> Seq(Nat)] /\ stream[u] \in StreamState
    BY DEF Inv, Types
<1>3. stream'[u] = [stream[u] EXCEPT !.pc = label]
    BY <1>1, <1>2
<1>4. /\ stream'[u] \in StreamState /\ stream'[u].pc = label
      /\ stream'[u].cursor = stream[u].cursor /\ stream'[u].batch = stream[u].batch
    BY <1>2, <1>3 DEF StreamState, StreamLabels
<1>5. stream' \in [Users -> StreamState]
    BY <1>1, <1>2, <1>3, <1>4
<1>6. Sent(u)' = Sent(u) /\ Seqs(u)' = Seqs(u) /\ nextValue' = nextValue
    BY <1>1 DEF Sent, Seqs, StreamOnly, tables
<1>7. /\ label # "closed" /\ stream[u].pc # "closed"
      /\ label \in {"deliver", "emit"} <=> stream[u].pc \in {"deliver", "emit"}
    BY <1>1
<1> HIDE DEF label
<1>8. StreamInv(u)'
    BY <1>1, <1>2, <1>4, <1>6, <1>7 DEF StreamInv
<1> QED
    BY <1>1, <1>2, <1>5, <1>8, StreamMoveInv

\* A page is fetched: it continues what was sent without a gap.
LEMMA FetchInv ==
    ASSUME Inv, NEW u \in Users, Fetch(u)
    PROVE  Inv'
<1> DEFINE batch == NotificationsAfter(u, stream[u].cursor)
           label == IF batch = <<>> THEN "authorize" ELSE "deliver"
<1>1. /\ stream[u].pc = "fetch"
      /\ stream' = [stream EXCEPT ![u].pc = label, ![u].batch = batch]
      /\ StreamOnly /\ UNCHANGED <<wire, received>>
    BY DEF Fetch
<1>2. StreamInv(u) /\ stream \in [Users -> StreamState] /\ wire \in [Users -> Seq(Nat)]
      /\ received \in [Users -> Seq(Nat)] /\ stream[u] \in StreamState
      /\ stream[u].cursor \in Nat
    BY StreamTypes DEF Inv, Types
<1>3. /\ batch \in Seq(Nat) /\ Ascending(batch)
      /\ \A x \in Elements(batch) : x \in Seqs(u) /\ stream[u].cursor < x /\ x < nextValue
      /\ \A seq \in Seqs(u), x \in Elements(batch) :
             stream[u].cursor < seq /\ seq <= x => seq \in Elements(batch)
    BY <1>2, PageFacts DEF Inv
<1>4. label \in {"authorize", "deliver"} /\ (label = "deliver" <=> batch # <<>>)
    OBVIOUS
<1> HIDE DEF batch, label
<1>5. stream'[u] = [[stream[u] EXCEPT !.pc = label] EXCEPT !.batch = batch]
    BY <1>1, <1>2
<1>6. /\ stream'[u] \in StreamState /\ stream'[u].pc = label
      /\ stream'[u].cursor = stream[u].cursor /\ stream'[u].batch = batch
    BY <1>2, <1>3, <1>4, <1>5 DEF StreamState, StreamLabels
<1>7. stream' \in [Users -> StreamState]
    BY <1>1, <1>2, <1>5, <1>6
<1>8. Sent(u)' = Sent(u) /\ Seqs(u)' = Seqs(u) /\ nextValue' = nextValue
    BY <1>1 DEF Sent, Seqs, StreamOnly, tables
<1>9. StreamInv(u)'
    BY <1>1, <1>2, <1>3, <1>4, <1>6, <1>8 DEF StreamInv
<1> QED
    BY <1>1, <1>2, <1>7, <1>9, StreamMoveInv

\* The first number of the page is sent and becomes the cursor.
LEMMA EmitInv ==
    ASSUME Inv, NEW u \in Users, Emit(u)
    PROVE  Inv'
<1> DEFINE batch == stream[u].batch
           cursor == stream[u].cursor
           h == Head(stream[u].batch)
           rest == Tail(stream[u].batch)
           label == IF Len(stream[u].batch) = 1 THEN "authorize" ELSE "deliver"
<1>1. /\ stream[u].pc = "emit" /\ wire' = [wire EXCEPT ![u] = Append(@, h)]
      /\ stream' = [stream EXCEPT ![u] = [pc |-> label, cursor |-> h, batch |-> rest]]
      /\ StreamOnly /\ UNCHANGED received
    BY DEF Emit
<1>2. StreamInv(u) /\ stream \in [Users -> StreamState] /\ wire \in [Users -> Seq(Nat)]
      /\ received \in [Users -> Seq(Nat)]
    BY DEF Inv, Types
<1>3. /\ cursor \in Nat /\ batch \in Seq(Nat) /\ wire[u] \in Seq(Nat) /\ nextValue \in Nat
      /\ \A x \in Sent(u) \cup Elements(batch) : x \in Nat
      /\ \A seq \in Seqs(u) : seq \in Nat /\ 0 < seq
    BY StreamTypes
<1>4. /\ batch # <<>> /\ Ascending(batch)
      /\ cursor \in Sent(u) \cup {0} /\ \A x \in Sent(u) : x <= cursor
      /\ \A x \in Elements(batch) : cursor < x /\ x < nextValue
      /\ \A seq \in Seqs(u), x \in Elements(batch) :
             cursor < seq /\ seq <= x => seq \in Elements(batch)
    BY <1>1, <1>2 DEF StreamInv
<1>5. /\ h \in Nat /\ rest \in Seq(Nat) /\ Elements(batch) = {h} \cup Elements(rest)
      /\ Ascending(rest) /\ \A x \in Elements(rest) : h < x
      /\ label \in {"authorize", "deliver"} /\ (label = "deliver" <=> rest # <<>>)
    BY <1>3, <1>4, Splitting
<1> HIDE DEF h, rest, label
<1>6. cursor < h /\ h < nextValue /\ \A x \in Sent(u) : x < h
    <2>1. h \in Elements(batch)
        BY <1>5
    <2>2. cursor < h /\ h < nextValue
        BY <1>4, <2>1
    <2>3. \A x \in Sent(u) : x \in Nat /\ x <= cursor
        BY <1>3, <1>4
    <2> HIDE DEF cursor, batch
    <2> QED
        BY <1>3, <1>5, <2>2, <2>3
<1>7. /\ Append(wire[u], h) \in Seq(Nat)
      /\ Elements(Append(wire[u], h)) = Elements(wire[u]) \cup {h}
      /\ Ascending(Append(wire[u], h))
    BY <1>2, <1>3, <1>5, <1>6, Appending DEF Sent, StreamInv
<1>8. /\ stream'[u].pc = label /\ stream'[u].cursor = h /\ stream'[u].batch = rest
      /\ wire'[u] = Append(wire[u], h) /\ received'[u] = received[u]
    BY <1>1, <1>2
<1>9. /\ stream' \in [Users -> StreamState] /\ wire' \in [Users -> Seq(Nat)]
    <2>1. [pc |-> label, cursor |-> h, batch |-> rest] \in StreamState
        BY <1>5 DEF StreamState, StreamLabels
    <2> QED
        BY <1>1, <1>2, <1>7, <2>1
<1>10. Sent(u)' = Sent(u) \cup {h} /\ Seqs(u)' = Seqs(u) /\ nextValue' = nextValue
    BY <1>1, <1>7, <1>8 DEF Sent, Seqs, StreamOnly, tables
<1>11. ASSUME NEW seq \in Seqs(u), NEW x \in Sent(u) \cup {h}, seq <= x
       PROVE  seq \in Sent(u) \cup {h}
    <2>1. CASE x \in Sent(u)
        BY <1>2, <1>11, <2>1 DEF StreamInv
    <2>2. CASE x = h /\ seq <= cursor
        <3>1. cursor \in Sent(u)
            BY <1>3, <1>4, <2>2
        <3> QED
            BY <1>2, <2>2, <3>1 DEF StreamInv
    <2>3. CASE x = h /\ cursor < seq
        <3>1. seq \in {h} \cup Elements(rest)
            BY <1>4, <1>5, <1>11, <2>3
        <3>2. seq \notin Elements(rest)
            BY <1>3, <1>5, <1>11, <2>3
        <3> QED
            BY <3>1, <3>2
    <2> QED
        BY <1>3, <1>11, <2>1, <2>2, <2>3
<1>12. ASSUME NEW seq \in Seqs(u), NEW x \in Elements(rest), h < seq, seq <= x
       PROVE  seq \in Elements(rest)
    <2>1. cursor < seq /\ x \in Elements(batch)
        BY <1>3, <1>5, <1>6, <1>12
    <2>2. seq \in {h} \cup Elements(rest)
        BY <1>4, <1>5, <1>12, <2>1
    <2> QED
        BY <1>3, <1>5, <1>12, <2>2
<1>13. /\ \A x \in Sent(u) \cup {h} : 0 < x /\ x < nextValue /\ x <= h
       /\ \A x \in Elements(rest) : h < x /\ x < nextValue
       /\ \A x \in Elements(received[u]), y \in Elements(wire[u]) \cup {h} : x < y
    <2>1. \A x \in Elements(rest) : h < x /\ x < nextValue
        BY <1>4, <1>5
    <2>2. \A x \in Sent(u) \cup {h} : 0 < x /\ x < nextValue /\ x <= h
        BY <1>2, <1>3, <1>5, <1>6 DEF StreamInv
    <2>3. \A x \in Elements(received[u]) : x \in Sent(u)
        BY DEF Sent
    <2>4. \A x \in Elements(received[u]), y \in Elements(wire[u]) \cup {h} : x < y
        BY <1>2, <1>6, <2>3 DEF StreamInv
    <2> QED
        BY <2>1, <2>2, <2>4
<1>14. StreamInv(u)'
    BY <1>2, <1>5, <1>6, <1>7, <1>8, <1>10, <1>11, <1>12, <1>13 DEF StreamInv
<1> QED
    BY <1>1, <1>2, <1>9, <1>14, StreamMoveInv

\* The generator ends; what it has sent stays on its way.
LEMMA UnauthorizedInv ==
    ASSUME Inv, NEW u \in Users, Unauthorized(u)
    PROVE  Inv'
<1>1. /\ stream' = [stream EXCEPT ![u] = NoStream]
      /\ StreamOnly /\ UNCHANGED <<wire, received>>
    BY DEF Unauthorized
<1>2. StreamInv(u) /\ stream \in [Users -> StreamState] /\ wire \in [Users -> Seq(Nat)]
      /\ received \in [Users -> Seq(Nat)] /\ nextValue \in Nat \ {0}
    BY DEF Inv, Types
<1>3. stream'[u] = NoStream /\ stream' \in [Users -> StreamState]
    BY <1>1, <1>2, NoStreamFacts
<1>4. Sent(u)' = Sent(u) /\ Seqs(u)' = Seqs(u) /\ nextValue' = nextValue
    BY <1>1 DEF Sent, Seqs, StreamOnly, tables
<1>5. 0 < nextValue
    BY <1>2
<1>6. StreamInv(u)'
    BY <1>1, <1>2, <1>3, <1>4, <1>5, NoStreamFacts, Nothing DEF StreamInv
<1> QED
    BY <1>1, <1>2, <1>3, <1>6, StreamMoveInv

\* An event arrives.
LEMMA ReceiveInv ==
    ASSUME Inv, NEW u \in Users, Receive(u)
    PROVE  Inv'
<1> DEFINE h == Head(wire[u])
           rest == Tail(wire[u])
<1>1. /\ wire[u] # <<>> /\ received' = [received EXCEPT ![u] = Append(@, h)]
      /\ wire' = [wire EXCEPT ![u] = Tail(@)] /\ StreamOnly /\ UNCHANGED stream
    BY DEF Receive
<1>2. StreamInv(u) /\ stream \in [Users -> StreamState] /\ wire \in [Users -> Seq(Nat)]
      /\ received \in [Users -> Seq(Nat)] /\ wire[u] \in Seq(Nat) /\ received[u] \in Seq(Nat)
    BY DEF Inv, Types
<1>3. /\ Ascending(received[u]) /\ Ascending(wire[u])
      /\ \A x \in Elements(received[u]), y \in Elements(wire[u]) : x < y
    BY <1>2 DEF StreamInv
<1>4. /\ h \in Nat /\ rest \in Seq(Nat) /\ Elements(wire[u]) = {h} \cup Elements(rest)
      /\ Ascending(rest) /\ \A x \in Elements(rest) : h < x
    BY <1>1, <1>2, <1>3, Splitting
<1>5. wire'[u] = rest /\ received'[u] = Append(received[u], h)
    BY <1>1, <1>2
<1> HIDE DEF h, rest
<1>6. /\ Append(received[u], h) \in Seq(Nat)
      /\ Elements(Append(received[u], h)) = Elements(received[u]) \cup {h}
      /\ Ascending(Append(received[u], h))
    BY <1>2, <1>3, <1>4, Appending
<1>7. wire' \in [Users -> Seq(Nat)] /\ received' \in [Users -> Seq(Nat)]
    BY <1>1, <1>2, <1>4, <1>5, <1>6
<1>8. Sent(u)' = Sent(u) /\ Seqs(u)' = Seqs(u) /\ nextValue' = nextValue
    BY <1>1, <1>4, <1>5, <1>6 DEF Sent, Seqs, StreamOnly, tables
<1>9. \A x \in Elements(received[u]) \cup {h}, y \in Elements(rest) : x < y
    BY <1>3, <1>4
<1>10. stream'[u] = stream[u]
    BY <1>1
<1>11. Ascending(received[u])' /\ Ascending(wire[u])'
    BY <1>4, <1>5, <1>6
<1>12. \A x \in Elements(received[u])', y \in Elements(wire[u])' : x < y
    BY <1>5, <1>6, <1>9
<1>13. StreamInv(u)'
    BY <1>2, <1>8, <1>10, <1>11, <1>12 DEF StreamInv
<1> QED
    BY <1>1, <1>2, <1>7, <1>13, StreamMoveInv

\* A lost connection takes with it what the browser has not received, which lies above
\* everything it has.
LEMMA DropInv ==
    ASSUME Inv, NEW u \in Users, Drop(u)
    PROVE  Inv'
<1>1. /\ stream' = [stream EXCEPT ![u] = NoStream] /\ wire' = [wire EXCEPT ![u] = <<>>]
      /\ StreamOnly /\ UNCHANGED received
    BY DEF Drop
<1>2. StreamInv(u) /\ stream \in [Users -> StreamState] /\ wire \in [Users -> Seq(Nat)]
      /\ received \in [Users -> Seq(Nat)] /\ nextValue \in Nat \ {0}
    BY DEF Inv, Types
<1>3. stream'[u] = NoStream /\ stream' \in [Users -> StreamState]
    BY <1>1, <1>2, NoStreamFacts
<1>4. wire'[u] = <<>> /\ wire' \in [Users -> Seq(Nat)]
    BY <1>1, <1>2, Nothing
<1>5. Sent(u)' = Elements(received[u]) /\ Seqs(u)' = Seqs(u) /\ nextValue' = nextValue
    BY <1>1, <1>4, Nothing DEF Sent, Seqs, StreamOnly, tables
<1>6. 0 < nextValue
    BY <1>2
<1>7. ASSUME NEW seq \in Seqs(u), NEW x \in Elements(received[u]), seq <= x
      PROVE  seq \in Elements(received[u])
    <2>1. seq \in Sent(u) /\ x \in Sent(u)
        BY <1>2, <1>7 DEF StreamInv, Sent
    <2>2. seq \notin Elements(wire[u])
        BY <1>2, <1>7, <2>1, StreamTypes DEF StreamInv
    <2> QED
        BY <2>1, <2>2 DEF Sent
<1>8. \A x \in Elements(received[u]) : 0 < x /\ x < nextValue
    BY <1>2 DEF StreamInv, Sent
<1>9. StreamInv(u)'
    BY <1>1, <1>2, <1>3, <1>4, <1>5, <1>6, <1>7, <1>8, NoStreamFacts, Nothing DEF StreamInv
<1> QED
    BY <1>1, <1>2, <1>3, <1>4, <1>9, StreamMoveInv

--------------------------------------------------------------------------------
(* The theorems.                                                                *)

LEMMA InitInv == Init => Inv
<1> SUFFICES ASSUME Init PROVE Inv
    OBVIOUS
<1>1. /\ members = Users /\ activities = {} /\ notifications = {} /\ nextValue = 1
      /\ sequenceLock = Nobody /\ record = [r \in Recorders |-> NoRecord]
      /\ stream = [u \in Users |-> NoStream] /\ wire = [u \in Users |-> <<>>]
      /\ received = [u \in Users |-> <<>>]
    BY DEF Init
<1>2. Types
    BY <1>1, NoRecordType, NoStreamFacts, Nothing DEF Types
<1>3. TablesInv
    BY <1>1 DEF TablesInv, OneProjectionEach, InboxOfMembers
<1>4. \A r \in Recorders : Call(r).pc = "idle" /\ Call(r).rows = {} /\ sequenceLock # r
    BY <1>1, NobodyAssumption DEF Call, NoRecord
<1>5. OneWriterEach /\ \A r \in Recorders : RecorderInv(r)
    BY <1>4 DEF OneWriterEach, RecorderInv, Writing
<1>6. ASSUME NEW u \in Users
      PROVE  StreamInv(u)
    <2>1. /\ stream[u] = NoStream /\ wire[u] = <<>> /\ received[u] = <<>> /\ 0 < nextValue
        BY <1>1
    <2>2. Sent(u) = {} /\ Seqs(u) = {}
        BY <1>1, <2>1, Nothing DEF Sent, Seqs
    <2> QED
        BY <2>1, <2>2, NoStreamFacts, Nothing DEF StreamInv
<1> QED
    BY <1>2, <1>3, <1>5, <1>6 DEF Inv

LEMMA RecorderSteps ==
    ASSUME Inv, NEW r \in Recorders,
           \/ \E activity \in Activities, actor \in Users \cup {Nobody}, drafts \in DraftLists :
                  Record(r, activity, actor, drafts)
           \/ RecordProceed(r)
           \/ Abandon(r)
    PROVE  Inv'
<1>1. CASE \E activity \in Activities, actor \in Users \cup {Nobody}, drafts \in DraftLists :
               Record(r, activity, actor, drafts)
    BY <1>1, RecordInv
<1>2. CASE CheckActor(r) \/ CheckRecipient(r)
    BY <1>2, CheckInv
<1>3. CASE NotMember(r) \/ DuplicateActivity(r) \/ RecipientGone(r) \/ Abandon(r)
    BY <1>3, FailInv DEF NotMember, DuplicateActivity, RecipientGone, Abandon
<1> QED
    BY <1>1, <1>2, <1>3, InsertActivityInv, NextSequenceInv, ProjectInv, CommitInv
    DEF RecordProceed

LEMMA StreamSteps ==
    ASSUME Inv, NEW u \in Users, StreamProceed(u) \/ Receive(u) \/ Drop(u)
    PROVE  Inv'
BY ConnectInv, AuthorizeInv, FetchInv, EmitInv, UnauthorizedInv, ReceiveInv, DropInv
   DEF StreamProceed

LEMMA MemberSteps ==
    ASSUME Inv, NEW u \in Users,
           Leave(u) \/ Join(u) \/ \E n \in notifications : MarkRead(u, n)
    PROVE  Inv'
BY LeaveInv, JoinInv, MarkReadInv

LEMMA NextInv == Inv /\ [Next]_vars => Inv'
<1> SUFFICES ASSUME Inv, [Next]_vars PROVE Inv'
    OBVIOUS
<1>1. CASE UNCHANGED vars
    <2>1. /\ UNCHANGED <<members, activities, notifications, nextValue, sequenceLock, record,
                         stream, wire, received>>
        BY <1>1 DEF vars, tables, streamVars
    <2>2. Types' /\ TablesInv' /\ OneWriterEach'
        BY <2>1 DEF Inv, Types, TablesInv, OneWriterEach, OneProjectionEach, InboxOfMembers, Call
    <2>3. \A r \in Recorders : RecorderInv(r)'
        BY <2>1 DEF Inv, RecorderInv, Call, Rows, Row
    <2>4. \A u \in Users : StreamInv(u)'
        BY <2>1 DEF Inv, StreamInv, Sent, Seqs
    <2> QED
        BY <2>2, <2>3, <2>4 DEF Inv
<1>2. CASE Next
    BY <1>2, RecorderSteps, StreamSteps, MemberSteps DEF Next
<1> QED
    BY <1>1, <1>2

\* Every recorder between its insert and its commit holds what it has numbered, and every
\* stream is in order and without a gap, whatever recorders, members and connections do.
THEOREM Invariance == Spec => []Inv
    BY InitInv, NextInv, PTL DEF Spec

\* Tables, calls and streams hold values of their kinds, and every number is one
\* notification's.
THEOREM TypeCorrect == Spec => []TypeOK
<1>1. Inv => TypeOK
    <2> SUFFICES ASSUME Inv PROVE TypeOK
        OBVIOUS
    <2>1. Types /\ TablesInv
        BY DEF Inv
    <2>2. \A r \in Recorders : Call(r).pc \in RecordLabels /\ Call(r).drafts \in DraftLists
        BY <2>1, CallTypes
    <2>3. \A u \in Users : stream[u].cursor < nextValue /\ received[u] \in Seq(Nat)
        BY StreamTypes DEF Inv, StreamInv
    <2> QED
        BY <2>1, <2>2, <2>3 DEF TypeOK, Types, TablesInv
<1> QED
    BY <1>1, Invariance, PTL

\* An activity retried with the same id is projected once: the INSERT of the second waits
\* for the first and then finds the row (activity.py 242-260).
THEOREM ProjectedOnce == Spec => []OneProjectionEach
<1>1. Inv => OneProjectionEach
    BY DEF Inv, TablesInv
<1> QED
    BY <1>1, Invariance, PTL

\* A notification always belongs to a member: one that is being written holds the
\* membership it refers to, and those that are there go with it (sql/0002 64-65).
THEOREM OnlyMembersNotified == Spec => []InboxOfMembers
<1>1. Inv => InboxOfMembers
    BY DEF Inv, TablesInv
<1> QED
    BY <1>1, Invariance, PTL

\* Last-Event-ID never skips: numbers are committed in the order in which they are drawn,
\* so none appears below a number that a browser has received (activity.py 185-198, 333-346).
THEOREM NothingIsSkipped == Spec => []NothingSkipped
<1>1. Inv => NothingSkipped
    <2> SUFFICES ASSUME Inv, NEW u \in Users, NEW seq \in Seqs(u), seq <= LastEventId(u)
                 PROVE  \E i \in DOMAIN received[u] : received[u][i] = seq
        BY DEF NothingSkipped
    <2>1. StreamInv(u) /\ seq \in Nat /\ 0 < seq
        BY StreamTypes DEF Inv
    <2>2. LastEventId(u) \in Elements(received[u])
        BY <2>1, LastReceived
    <2>3. seq \in Sent(u)
        BY <2>1, <2>2 DEF StreamInv, Sent
    <2>4. LastEventId(u) \in Nat
        BY <2>2, StreamTypes DEF Sent
    <2>5. seq \notin Elements(wire[u])
        BY <2>1, <2>2, <2>4 DEF StreamInv
    <2> QED
        BY <2>3, <2>5 DEF Sent, Elements
<1> QED
    BY <1>1, Invariance, PTL

\* Over any number of connections a browser receives its notifications in ascending
\* order, so none of them twice (activity.py, notification_event_stream).
THEOREM OrderedDelivery == Spec => []DeliveredInOrder
<1>1. Inv => DeliveredInOrder
    BY DEF Inv, StreamInv, Ascending, DeliveredInOrder
<1> QED
    BY <1>1, Invariance, PTL

--------------------------------------------------------------------------------
(* The refinement: the tables are an Inbox.                                     *)

\* A commit adds to each inbox the numbers of the drafts addressed to it.
LEMMA CommitSeqs ==
    ASSUME Inv, NEW r \in Recorders, CommitRecord(r), NEW u \in Users
    PROVE  Seqs(u)' = Seqs(u) \cup
               {(nextValue - 1) + i : i \in {j \in DOMAIN Call(r).drafts : Call(r).drafts[j] = u}}
<1> DEFINE len == Len(Call(r).drafts)
<1>1. /\ Call(r).drafts \in DraftLists
      /\ notifications' = notifications \cup {Row(r, i) : i \in 1..len}
    BY CommitEffect
<1>2. DOMAIN Call(r).drafts = 1..len /\ len \in Nat /\ nextValue \in Nat
    BY <1>1, DraftFacts DEF Inv, Types
<1>3. \A i \in 1..len : Row(r, i).seq = (nextValue - 1) + i /\ Row(r, i).user = Call(r).drafts[i]
    BY <1>2 DEF Row
<1>4. \A n \in notifications' : n \in notifications \/ \E i \in 1..len : n = Row(r, i)
    BY <1>1
<1>5. \A n \in notifications : n \in notifications'
    BY <1>1
<1>6. \A i \in 1..len : Row(r, i) \in notifications'
    BY <1>1
<1> DEFINE mine == {j \in DOMAIN Call(r).drafts : Call(r).drafts[j] = u}
           added == {(nextValue - 1) + i : i \in mine}
<1>7. ASSUME NEW x \in Seqs(u)'
      PROVE  x \in Seqs(u) \cup added
    <2>1. PICK n \in notifications' : n.user = u /\ n.seq = x
        BY DEF Seqs
    <2>2. CASE n \in notifications
        BY <2>1, <2>2 DEF Seqs
    <2>3. ASSUME NEW i \in 1..len, n = Row(r, i)
          PROVE  x \in added
        <3>1. i \in mine /\ x = (nextValue - 1) + i
            BY <1>2, <1>3, <2>1, <2>3
        <3> QED
            BY <3>1
    <2> QED
        BY <1>4, <2>2, <2>3
<1>8. ASSUME NEW i \in mine
      PROVE  (nextValue - 1) + i \in Seqs(u)'
    <2>1. i \in 1..len /\ Call(r).drafts[i] = u
        BY <1>2
    <2>2. Row(r, i) \in notifications' /\ Row(r, i).user = u /\ Row(r, i).seq = (nextValue - 1) + i
        BY <1>3, <1>6, <2>1
    <2> QED
        BY <2>2 DEF Seqs
<1>9. Seqs(u) \subseteq Seqs(u)'
    BY <1>5 DEF Seqs
<1> QED
    BY <1>7, <1>8, <1>9

\* A commit publishes its drafts, or has none and shows nothing.
LEMMA CommitFeed ==
    ASSUME Inv, NEW r \in Recorders, CommitRecord(r)
    PROVE  Feed!Next
<1> DEFINE to == Call(r).drafts
<1>1. to \in DraftLists /\ nextValue' = nextValue + Len(to)
    BY CommitEffect
<1>2. /\ Len(to) \in Nat /\ to \in [1..Len(to) -> Users] /\ nextValue \in Nat
      /\ \A i, j \in DOMAIN to : to[i] = to[j] => i = j
    BY <1>1, DraftFacts DEF Inv, Types
<1>3. (nextValue - 1)' - (nextValue - 1) = Len(to) /\ (nextValue - 1)' = (nextValue - 1) + Len(to)
    BY <1>1, <1>2
<1>4. [u \in Users |-> Seqs(u)]' =
          [u \in Users |-> [v \in Users |-> Seqs(v)][u] \cup
               {(nextValue - 1) + i : i \in {j \in DOMAIN to : to[j] = u}}]
    BY CommitSeqs
<1>5. Feed!Publish(to)
    BY <1>2, <1>3, <1>4 DEF Feed!Publish
<1> QED
    BY <1>2, <1>3, <1>5 DEF Feed!Next

\* A member who leaves takes the inbox along.
LEMMA LeaveFeed ==
    ASSUME NEW u \in Users, Leave(u)
    PROVE  Feed!Next
<1>1. notifications' = {n \in notifications : n.user # u} /\ UNCHANGED nextValue
    BY DEF Leave, LeftAfterLeaving
<1>2. \A v \in Users : Seqs(v)' = IF v = u THEN {} ELSE Seqs(v)
    BY <1>1 DEF Seqs
<1>3. [v \in Users |-> Seqs(v)]' = [[v \in Users |-> Seqs(v)] EXCEPT ![u] = {}]
    BY <1>2
<1>4. Feed!Clear(u)
    BY <1>1, <1>3 DEF Feed!Clear
<1> QED
    BY <1>4 DEF Feed!Next

LEMMA MarkReadFeed ==
    ASSUME Inv, NEW u \in Users, NEW n \in notifications, MarkRead(u, n)
    PROVE  UNCHANGED <<nextValue, [v \in Users |-> Seqs(v)]>>
<1>1. /\ \A x \in notifications' : \E y \in notifications : x.seq = y.seq /\ x.user = y.user
      /\ \A y \in notifications : \E x \in notifications' : x.seq = y.seq /\ x.user = y.user
      /\ UNCHANGED nextValue
    BY MarkReadEffect
<1>2. \A v \in Users : Seqs(v)' = Seqs(v)
    BY <1>1 DEF Seqs
<1> QED
    BY <1>1, <1>2

\* Every other step leaves the tables alone.
LEMMA OtherSteps ==
    ASSUME [Next]_vars
    PROVE  \/ UNCHANGED tables
           \/ \E r \in Recorders : CommitRecord(r)
           \/ \E u \in Users : Leave(u) \/ \E n \in notifications : MarkRead(u, n)
<1>1. ASSUME NEW r \in Recorders,
             \/ \E activity \in Activities, actor \in Users \cup {Nobody}, drafts \in DraftLists :
                    Record(r, activity, actor, drafts)
             \/ RecordProceed(r)
             \/ Abandon(r)
      PROVE  UNCHANGED tables \/ CommitRecord(r)
    BY <1>1 DEF Record, RecordProceed, Abandon, CheckActor, CheckRecipient, NotMember,
                InsertActivity, DuplicateActivity, NextSequence, Project, RecipientGone, Step, Fail
<1>2. ASSUME NEW u \in Users, StreamProceed(u) \/ Receive(u) \/ Drop(u) \/ Join(u)
      PROVE  UNCHANGED tables
    BY <1>2 DEF StreamProceed, Connect, Authorize, Fetch, AuthorizeDelivery, Emit, Unauthorized,
                Receive, Drop, Join, StreamOnly
<1>3. UNCHANGED vars => UNCHANGED tables
    BY DEF vars
<1> QED
    BY <1>1, <1>2, <1>3 DEF Next

\* Whatever recorders, members and readers do together, the tables are the inbox that
\* readers with a cursor are promised: numbers without gaps, published in order.
THEOREM InboxRefinement == Spec => ImplementsInbox
<1>1. Init => Feed!Init
    <2> SUFFICES ASSUME Init PROVE Feed!Init
        OBVIOUS
    <2>1. notifications = {} /\ nextValue = 1
        BY DEF Init
    <2>2. \A u \in Users : Seqs(u) = {}
        BY <2>1 DEF Seqs
    <2>3. [u \in Users |-> Seqs(u)] = [u \in Users |-> {}]
        BY <2>2
    <2> QED
        BY <2>1, <2>3 DEF Feed!Init
<1>2. ASSUME Inv, [Next]_vars
      PROVE  [Feed!Next]_Feed!feed
    <2>1. CASE UNCHANGED tables
        BY <2>1 DEF tables, Seqs, Feed!feed
    <2>2. ASSUME NEW u \in Users, NEW n \in notifications, MarkRead(u, n)
          PROVE  UNCHANGED Feed!feed
        BY <1>2, <2>2, MarkReadFeed DEF Feed!feed
    <2> QED
        BY <1>2, <2>1, <2>2, OtherSteps, CommitFeed, LeaveFeed
<1>3. Inv /\ [Next]_vars => [Feed!Next]_Feed!feed
    BY <1>2
<1> QED
    BY <1>1, <1>3, Invariance, PTL DEF Spec, ImplementsInbox, Feed!Spec
================================================================================
