-------------------------- MODULE ChatListsProofs --------------------------
(***************************************************************************)
(* Proofs about ChatLists for any number of users, groups, messages and    *)
(* handlers, and pages of any length.                                      *)
(***************************************************************************)
EXTENDS ChatLists, TLAPS, FiniteSetTheorems, FunctionTheorems, SequenceTheorems

-----------------------------------------------------------------------------
(* Sorting a finite set.  A comparison is a set of pairs here.             *)

IsOrder(R, S) ==
  /\ \A x \in S : <<x, x>> \notin R
  /\ \A x, y, z \in S : <<x, y>> \in R /\ <<y, z>> \in R => <<x, z>> \in R

InOrderOf(R, s) == \A i, j \in DOMAIN s : i < j => <<s[j], s[i]>> \notin R

\* s goes through S, each element once.
Enumerates(s, S) ==
  s \in Seq(S) /\ Range(s) = S /\ IsInjective(s) /\ Len(s) = Cardinality(S)

\* Some element of a finite set comes before no other.
LEMMA LastOne ==
  ASSUME NEW S, IsFiniteSet(S), S # {}, NEW R, IsOrder(R, S)
  PROVE  \E m \in S : \A y \in S : <<m, y>> \notin R
<1> DEFINE After(x) == {y \in S : <<x, y>> \in R}
           T == {After(x) : x \in S}
<1>1. T \subseteq FiniteSubsetsOf(S) /\ T # {}
  <2>1. FiniteSubsetsOf(S) = SUBSET S
    BY FS_FiniteSubsetsOfFinite
  <2>2. \A x \in S : After(x) \in SUBSET S /\ After(x) \in T
    OBVIOUS
  <2>3. T # {}
    BY <2>2
  <2>4. T \subseteq SUBSET S
    OBVIOUS
  <2> QED BY <2>1, <2>3, <2>4
<1>2. PICK A \in T : \A B \in T : <<B, A>> \notin StrictSubsetOrdering(S)
  <2> HIDE DEF T
  <2> QED BY <1>1, FS_StrictSubsetOrderingWellFounded, WFMin
<1>3. PICK m \in S : A = After(m)
  OBVIOUS
<1>4. ASSUME NEW y \in S, <<m, y>> \in R  PROVE FALSE
  <2>1. After(y) \subseteq After(m) /\ y \in After(m) /\ y \notin After(y)
    BY <1>4 DEF IsOrder
  <2>2. <<After(y), After(m)>> \in StrictSubsetOrdering(S)
    BY <2>1 DEF StrictSubsetOrdering
  <2> QED BY <2>2, <1>2, <1>3
<1> QED BY <1>4

LEMMA SeqsEnumerate ==
  ASSUME NEW S, IsFiniteSet(S), NEW s \in SetToSeqs(S)
  PROVE  Enumerates(s, S)
<1> DEFINE n == Cardinality(S)
<1>1. n \in Nat /\ s \in [1..n -> S] /\ \A i, j \in 1..n : i # j => s[i] # s[j]
  BY FS_CardinalityType DEF SetToSeqs
<1>2. s \in Injection(1..n, S)
  BY <1>1, Fun_IsInj
<1>3. Cardinality(1..n) = n
  BY <1>1, FS_Interval
<1>4. s \in Surjection(1..n, S)
  BY <1>2, <1>3, FS_Injection
<1>5. s \in Seq(S) /\ Len(s) = n
  BY <1>1
<1>6. Range(s) = S
  BY <1>4, Fun_SurjectionProperties
<1>7. IsInjective(s)
  BY <1>1 DEF IsInjective
<1> QED BY <1>5, <1>6, <1>7 DEF Enumerates

\* A finite set can be sorted.
LEMMA CanBeSorted ==
  ASSUME NEW S, IsFiniteSet(S), NEW R, IsOrder(R, S)
  PROVE  \E s \in SetToSeqs(S) : InOrderOf(R, s)
<1> DEFINE Sortable(T) == \E s \in SetToSeqs(T) : InOrderOf(R, s)
           Bad == {T \in SUBSET S : ~Sortable(T)}
<1> SUFFICES ASSUME ~Sortable(S) PROVE FALSE
  OBVIOUS
<1>1. Bad \subseteq FiniteSubsetsOf(S) /\ Bad # {}
  BY FS_FiniteSubsetsOfFinite
<1>2. PICK T \in Bad : \A U \in Bad : <<U, T>> \notin StrictSubsetOrdering(S)
  <2> HIDE DEF Bad
  <2> QED BY <1>1, FS_StrictSubsetOrderingWellFounded, WFMin
<1>3. IsFiniteSet(T) /\ T \subseteq S
  BY FS_Subset
<1>4. T # {}
  <2>1. <<>> \in SetToSeqs({}) 
    BY FS_EmptySet DEF SetToSeqs
  <2>2. InOrderOf(R, <<>>)
    BY DEF InOrderOf
  <2> QED BY <2>1, <2>2
<1>5. PICK m \in T : \A y \in T : <<m, y>> \notin R
  BY <1>3, <1>4, LastOne DEF IsOrder
<1> DEFINE U == T \ {m}
<1>a. IsFiniteSet(U) /\ Cardinality(U) = Cardinality(T) - 1
  BY <1>3, FS_RemoveElement
<1>b. Cardinality(U) \in Nat /\ Cardinality(T) \in Nat
  BY <1>3, <1>a, FS_CardinalityType
<1> PICK n \in Nat : n = Cardinality(U)
  BY <1>b
<1>6. Cardinality(T) = n + 1
  BY <1>a, <1>b
<1>7. Sortable(U)
  <2>1. <<U, T>> \in StrictSubsetOrdering(S)
    BY <1>3 DEF StrictSubsetOrdering
  <2> QED BY <2>1, <1>2, <1>3
<1>8. PICK s \in SetToSeqs(U) : InOrderOf(R, s)
  BY <1>7
<1>9. s \in [1..n -> U] /\ \A i, j \in 1..n : i # j => s[i] # s[j]
  BY DEF SetToSeqs
<1> DEFINE r == [i \in 1..(n + 1) |-> IF i = n + 1 THEN m ELSE s[i]]
<1> HIDE DEF Sortable, Bad
<1>10. r \in [1..(n + 1) -> T] /\ \A i, j \in 1..(n + 1) : i # j => r[i] # r[j]
  <2>0. \A i \in 1..n : s[i] \in T /\ s[i] # m
    BY <1>9
  <2>1. \A i \in 1..(n + 1) : r[i] \in T /\ (i # n + 1 => i \in 1..n /\ r[i] = s[i] /\ s[i] # m)
    BY <2>0
  <2>2. r[n + 1] = m
    OBVIOUS
  <2> HIDE DEF r
  <2>3. \A i, j \in 1..(n + 1) : i # j => r[i] # r[j]
    BY <2>1, <2>2, <1>9
  <2> QED BY <2>1, <2>3 DEF r
<1>11. r \in SetToSeqs(T)
  <2> HIDE DEF r
  <2> QED BY <1>6, <1>10 DEF SetToSeqs
<1>12. InOrderOf(R, r)
  <2>1. ASSUME NEW i \in 1..(n + 1), NEW j \in 1..(n + 1), i < j, <<r[j], r[i]>> \in R
        PROVE FALSE
    <3>0. i \in 1..n /\ i # n + 1
      BY <2>1
    <3>1. r[i] = s[i] /\ s[i] \in T
      BY <3>0, <1>9
    <3>2. CASE j = n + 1
      BY <3>1, <3>2, <2>1, <1>5
    <3>3. CASE j # n + 1
      <4>1. j \in 1..n /\ r[j] = s[j]
        BY <3>3
      <4>2. ~(<<s[j], s[i]>> \in R)
        BY <4>1, <3>0, <2>1, <1>8, <1>9 DEF InOrderOf
      <4> QED BY <4>1, <4>2, <3>1, <2>1
    <3> QED BY <3>2, <3>3
  <2>2. DOMAIN r = 1..(n + 1)
    OBVIOUS
  <2> HIDE DEF r
  <2> QED BY <2>1, <2>2 DEF InOrderOf
<1>13. T \in Bad
  OBVIOUS
<1> USE DEF Sortable, Bad
<1> QED BY <1>11, <1>12, <1>13
-----------------------------------------------------------------------------
(* The invariant.                                                          *)

\* The conversations u has now, and the entry of one of them.
ConversationsOf(u) == Partners(u) \cup GroupsWith(u)

EntryOf(u, c) == [with |-> c, last |-> Newest(In(u, c)), unread |-> Cardinality(Unread(u, c))]

Item == Entry \cup Nat \cup Groups

Task == [op : Ops \cup {"none"}, at : Calls \cup {"idle", "answered"},
         user : Users \cup {NoUser}, with : Conversations \cup Texts \cup {NoUser},
         page : Int, limit : Int, todo : Seq(Conversations), last : Nat, items : Seq(Item), total : Nat]

TablesOK ==
  /\ table \in Seq(Message \cup {Gone}) /\ Len(table) <= MaxMessages
  /\ members \subseteq Users \X groups /\ IsFiniteSet(members) /\ groups \subseteq Groups
  /\ \A i \in Live : table[i].group \in groups \cup {NoGroup}

TasksOK == task \in [Handlers -> Task]

HistoriesOK ==
  /\ since \in [Handlers -> {"none", "added", "removed"}]
  /\ stays \in [Handlers -> SUBSET Conversations]

Sorting == {"groups", "last", "unread"}

\* What a query holds at each of its calls.
TypedOK(t) ==
  /\ t.at # "idle" => t.op \in Ops /\ t.user \in Users /\ skip(t.page, t.limit) \in Nat
  /\ t.at \in {"find", "count"} => t.op # "chats"
  /\ t.at \in {"directMessages", "groupMessages"} \cup Sorting => t.op = "chats"
  /\ t.op = "group" => t.with \in Groups
  /\ t.op = "direct" => t.with \in Receivers
  /\ t.op = "chats" => t.items \in Seq(Entry)
  /\ t.op # "chats" => t.items \in Seq(DOMAIN table \cup Groups)
  /\ t.at \in {"directMessages", "groupMessages"} => t.items = <<>>
  /\ t.at \in {"last", "unread"} => t.todo # <<>>
  /\ t.at = "unread" => t.last \in DOMAIN table

Withs(items) == {items[k].with : k \in DOMAIN items}

\* No conversation is gone through twice.
EachOnce(t) ==
  /\ IsInjective(t.todo)
  /\ \A j, k \in DOMAIN t.items : t.items[j].with = t.items[k].with => j = k
  /\ Range(t.todo) \cap Withs(t.items) = {}

\* What is still to be looked at and what has been found together leave out no
\* conversation of st; and are exactly those to be listed, each as it is, but for
\* receivers that are no users, while s is none.
Listing(t, s, st) ==
  /\ EachOnce(t)
  /\ st \subseteq Range(t.todo) \cup Withs(t.items)
  /\ s = "none" =>
       /\ (Range(t.todo) \cup Withs(t.items)) \ Strangers = Listed(t.user)
       /\ \A k \in DOMAIN t.items : t.items[k] = EntryOf(t.user, t.items[k].with)

GatheringOK(t, s, st) ==
  /\ t.at \in {"directMessages", "groupMessages"} \cup Sorting =>
       st \subseteq Listed(t.user)
  /\ t.at = "groupMessages" =>
       /\ IsInjective(t.todo) /\ Range(t.todo) \subseteq Receivers
       /\ st \cap Users \subseteq Range(t.todo)
       /\ s = "none" => Range(t.todo) = Partners(t.user)
  /\ t.at \in Sorting => Listing(t, s, st)
  /\ t.at = "unread" /\ s = "none" => t.last = Newest(In(t.user, Head(t.todo)))

PageOK(t, s) ==
  t.at = "count" =>
    /\ s # "removed" /\ t.items # <<>> => skip(t.page, t.limit) < Cardinality(Selected(t))
    /\ s = "none" => t.items = Slice(t.page, t.limit, InOrder(t))

\* Of any two of W one comes before the other.
AllDiffer(W) == \A a, b \in W : a # b => Before(a, b) \/ Before(b, a)

\* The rows before e.
Rank(t, W, e) == Cardinality({r \in W : Ahead(t, r, e)})

\* A list with its answer: of n entries the page x.
Answered(t, n, x) == [t EXCEPT !.at = "answered", !.last = 0, !.total = n, !.items = x]

\* x is the page of s.
IsPage(x, page, limit, s) ==
  /\ Len(x) = Fitting(page, limit, Len(s))
  /\ \A k \in DOMAIN x :
       k \in Nat /\ \E j \in DOMAIN s :
                       j = Preceding(page, limit, Len(s), Len(x)) + k /\ x[k] = s[j]
  /\ x # <<>> => skip(page, limit) < Len(s)
  /\ page = 1 /\ Len(s) <= limit => x = s

\* The parts of the three properties that speak of one answer.
ExactAnswer(t) ==
  /\ t.total = Cardinality(RowsOf(t))
  /\ Range(t.items) \subseteq RowsOf(t) /\ IsInjective(t.items)
  /\ Len(t.items) = Fitting(t.page, t.limit, t.total)
  /\ t.op # "groups" =>
       \A k \in DOMAIN t.items :
         Rank(t, RowsOf(t), t.items[k])
           = Preceding(t.page, t.limit, t.total, Len(t.items)) + k - 1

LosesNone(t, st) ==
  /\ Cardinality(st) <= t.total
  /\ t.page = 1 /\ t.total <= t.limit => st \subseteq Withs(t.items)

AnswerOK(t, s, st) ==
  t.at = "answered" =>
    /\ s = "none" => ExactAnswer(t)
    /\ t.op = "chats" => LosesNone(t, st)
    /\ s # "removed" /\ t.items # <<>> => skip(t.page, t.limit) < t.total

HandlerOK(t, s, st) ==
  TypedOK(t) /\ GatheringOK(t, s, st) /\ PageOK(t, s) /\ AnswerOK(t, s, st)

Handlers_OK == \A h \in Handlers : HandlerOK(task[h], since[h], stays[h])

\* The inductive invariant.
IInv == TablesOK /\ TasksOK /\ HistoriesOK /\ Handlers_OK
-----------------------------------------------------------------------------
(* The rows.                                                               *)

LEMMA LiveRows ==
  ASSUME TablesOK
  PROVE  /\ Len(table) \in Nat /\ DOMAIN table = 1..Len(table)
         /\ Live \subseteq 1..Len(table) /\ IsFiniteSet(Live)
         /\ \A i \in Live : table[i] \in Message
<1>1. Len(table) \in Nat /\ DOMAIN table = 1..Len(table)
      /\ \A i \in DOMAIN table : table[i] \in Message \cup {Gone}
  BY DEF TablesOK
<1>2. Live \subseteq 1..Len(table) /\ \A i \in Live : table[i] \in Message
  BY <1>1 DEF Live
<1>3. IsFiniteSet(1..Len(table))
  BY <1>1, FS_Interval
<1> QED BY <1>1, <1>2, <1>3, FS_Subset

LEMMA NewestIsIn ==
  ASSUME NEW S, S \subseteq Nat, IsFiniteSet(S), S # {}
  PROVE  Newest(S) \in S /\ \A j \in S : j <= Newest(S)
<1> DEFINE R == {p \in S \X S : p[1] < p[2]}
<1>1. \A x, y \in S : <<x, y>> \in R <=> x < y
  OBVIOUS
<1>2. IsOrder(R, S)
  <2> HIDE DEF R
  <2> QED BY <1>1 DEF IsOrder
<1>3. PICK m \in S : \A y \in S : <<m, y>> \notin R
  <2> HIDE DEF R
  <2> QED BY <1>2, LastOne
<1>4. \A j \in S : j <= m
  <2> TAKE j \in S
  <2>1. m \in Nat /\ j \in Nat /\ <<m, j>> \notin R
    BY <1>3
  <2>2. ~(m < j)
    BY <2>1, <1>1
  <2> QED BY <2>1, <2>2
<1> QED BY <1>4 DEF Newest

\* The latest of some messages is one of them.
LEMMA NewestIsLive ==
  ASSUME TablesOK, NEW S \in SUBSET Live, S # {}
  PROVE  Newest(S) \in S /\ Newest(S) \in 1..Len(table)
<1>1. S \subseteq Nat /\ IsFiniteSet(S)
  BY LiveRows, FS_Subset
<1> QED BY <1>1, NewestIsIn, LiveRows

\* Whatever is found by way of finitely many rows is finite.
LEMMA FoundFinite ==
  ASSUME NEW S, IsFiniteSet(S), NEW V, NEW f \in [S -> V], NEW T, T \subseteq Range(f)
  PROVE  IsFiniteSet(T)
<1>2. f \in Surjection(S, Range(f))
  BY Fun_RangeProperties
<1>3. IsFiniteSet(Range(f))
  BY <1>2, FS_Surjection
<1> QED BY <1>3, FS_Subset

LEMMA ConversationsFinite ==
  ASSUME TablesOK, NEW u
  PROVE  IsFiniteSet(Partners(u)) /\ IsFiniteSet(GroupsWith(u)) /\ IsFiniteSet(GroupsOf(u))
<1>1. IsFiniteSet(Partners(u))
  <2> DEFINE f == [i \in Live |-> Other(u, i)]
  <2>1. Partners(u) \subseteq Range(f)
    BY DEF Partners, Direct, Of, Range
  <2>2. f \in [Live -> {Other(u, i) : i \in Live}]
    OBVIOUS
  <2> HIDE DEF f
  <2> QED BY <2>1, <2>2, LiveRows, FoundFinite
<1>2. IsFiniteSet(GroupsWith(u))
  <2> DEFINE f == [i \in Live |-> table[i].group]
  <2>1. GroupsWith(u) \subseteq Range(f)
    BY DEF GroupsWith, InGroup, Range
  <2>2. f \in [Live -> {table[i].group : i \in Live}]
    OBVIOUS
  <2> HIDE DEF f
  <2> QED BY <2>1, <2>2, LiveRows, FoundFinite
<1>3. IsFiniteSet(GroupsOf(u))
  <2> DEFINE f == [pair \in members |-> pair[2]]
  <2>1. GroupsOf(u) \subseteq Range(f)
    BY DEF GroupsOf, Range
  <2>2. f \in [members -> {pair[2] : pair \in members}]
    OBVIOUS
  <2> HIDE DEF f
  <2> QED BY <2>1, <2>2, FoundFinite DEF TablesOK
<1> QED BY <1>1, <1>2, <1>3

LEMMA SelectedFinite ==
  ASSUME TablesOK, NEW t, t.op \in Ops \ {"chats"}
  PROVE  /\ IsFiniteSet(Selected(t))
         /\ t.op # "groups" => Selected(t) \subseteq Live
         /\ t.op = "groups" => Selected(t) \subseteq Groups
<1>1. t.op # "groups" => Selected(t) \subseteq Live
  BY DEF Ops, Selected, InGroup, Between, SentTo, Of, Found
<1>2. t.op = "groups" => Selected(t) = GroupsOf(t.user)
  BY DEF Selected
<1>3. CASE t.op = "groups"
  BY <1>2, <1>3, ConversationsFinite DEF GroupsOf, TablesOK
<1>4. CASE t.op # "groups"
  BY <1>1, <1>4, LiveRows, FS_Subset
<1> QED BY <1>3, <1>4

-----------------------------------------------------------------------------
(* The sorts.                                                              *)

LEMMA LatestSorts ==
  ASSUME NEW S, S \subseteq Nat, IsFiniteSet(S)
  PROVE  Enumerates(Latest(S), S)
         /\ \A i, j \in DOMAIN Latest(S) : i < j => ~(Latest(S)[j] > Latest(S)[i])
<1> DEFINE R == {p \in S \X S : p[1] > p[2]}
<1>1. \A x, y \in S : <<x, y>> \in R <=> x > y
  OBVIOUS
<1>2. PICK s \in SetToSeqs(S) : InOrderOf(R, s)
  <2>1. IsOrder(R, S)
    <3> HIDE DEF R
    <3> QED BY <1>1 DEF IsOrder
  <2> HIDE DEF R
  <2> QED BY <2>1, CanBeSorted
<1>3. \A i, j \in DOMAIN s : s[i] \in S
  BY DEF SetToSeqs
<1>4. \A i, j \in DOMAIN s : i < j => ~(s[j] > s[i])
  BY <1>1, <1>2, <1>3 DEF InOrderOf
<1>5. /\ Latest(S) \in SetToSeqs(S)
      /\ \A i, j \in DOMAIN Latest(S) : i < j => ~(Latest(S)[j] > Latest(S)[i])
  BY <1>4 DEF Latest, Sorted
<1> QED BY <1>5, SeqsEnumerate

LEMMA PartnersSorted ==
  ASSUME TablesOK, NEW u
  PROVE  Enumerates(uniqueUserIds(u), Partners(u))
<1> DEFINE S == Partners(u)
           R == {p \in S \X S : Newest(Direct(u, p[1])) > Newest(Direct(u, p[2]))}
<1>1. \A x, y \in S : <<x, y>> \in R <=> Newest(Direct(u, x)) > Newest(Direct(u, y))
  OBVIOUS
<1>a. \A x \in S : Newest(Direct(u, x)) \in Nat
  <2> TAKE x \in S
  <2>1. Direct(u, x) \subseteq Live /\ Direct(u, x) # {}
    BY DEF Partners, Direct, Of
  <2> QED BY <2>1, NewestIsLive, LiveRows
<1>2. PICK s \in SetToSeqs(S) : InOrderOf(R, s)
  <2>1. IsOrder(R, S)
    <3> HIDE DEF R, S
    <3> QED BY <1>1, <1>a DEF IsOrder
  <2> HIDE DEF R
  <2> QED BY <2>1, CanBeSorted, ConversationsFinite
<1>3. \A i, j \in DOMAIN s : s[i] \in S
  BY DEF SetToSeqs
<1>4. \A i, j \in DOMAIN s : i < j => ~(Newest(Direct(u, s[j])) > Newest(Direct(u, s[i])))
  <2> HIDE DEF R, S
  <2> QED BY <1>1, <1>2, <1>3 DEF InOrderOf
<1>5. uniqueUserIds(u) \in SetToSeqs(S)
  BY <1>4 DEF Sorted, uniqueUserIds
<1> QED BY <1>5, SeqsEnumerate, ConversationsFinite

LEMMA GroupsSorted ==
  ASSUME TablesOK, NEW u
  PROVE  Enumerates(uniqueGroupIds(u), GroupsWith(u))
<1> DEFINE S == GroupsWith(u)
           R == {p \in S \X S : Newest(InGroup(p[1])) > Newest(InGroup(p[2]))}
<1>1. \A x, y \in S : <<x, y>> \in R <=> Newest(InGroup(x)) > Newest(InGroup(y))
  OBVIOUS
<1>a. \A x \in S : Newest(InGroup(x)) \in Nat
  <2> TAKE x \in S
  <2>1. InGroup(x) \subseteq Live /\ InGroup(x) # {}
    BY DEF GroupsWith, InGroup
  <2> QED BY <2>1, NewestIsLive, LiveRows
<1>2. PICK s \in SetToSeqs(S) : InOrderOf(R, s)
  <2>1. IsOrder(R, S)
    <3> HIDE DEF R, S
    <3> QED BY <1>1, <1>a DEF IsOrder
  <2> HIDE DEF R
  <2> QED BY <2>1, CanBeSorted, ConversationsFinite
<1>3. \A i, j \in DOMAIN s : s[i] \in S
  BY DEF SetToSeqs
<1>4. \A i, j \in DOMAIN s : i < j => ~(Newest(InGroup(s[j])) > Newest(InGroup(s[i])))
  <2> HIDE DEF R, S
  <2> QED BY <1>1, <1>2, <1>3 DEF InOrderOf
<1>5. uniqueGroupIds(u) \in SetToSeqs(S)
  BY <1>4 DEF Sorted, uniqueGroupIds
<1> QED BY <1>5, SeqsEnumerate, ConversationsFinite

\* Entries are sorted by Before, whose equals no two conversations are.
LEMMA EntriesSorted ==
  ASSUME NEW S, S \subseteq Entry, IsFiniteSet(S)
  PROVE  LET s == allChats(S)
         IN Enumerates(s, S) /\ \A i, j \in DOMAIN s : i < j => ~Before(s[j], s[i])
<1> DEFINE R == {p \in S \X S : Before(p[1], p[2])}
<1>1. \A x, y \in S : <<x, y>> \in R <=> Before(x, y)
  OBVIOUS
<1>2. PICK s \in SetToSeqs(S) : InOrderOf(R, s)
  <2>1. IsOrder(R, S)
    <3> HIDE DEF R
    <3>1. \A x \in S : x.last \in Nat
      BY DEF Entry
    <3> QED BY <1>1, <3>1, ListAssumption DEF IsOrder, Before
  <2> HIDE DEF R
  <2> QED BY <2>1, CanBeSorted
<1>3. \A i, j \in DOMAIN s : s[i] \in S
  BY DEF SetToSeqs
<1>4. \A i, j \in DOMAIN s : i < j => ~Before(s[j], s[i])
  <2> HIDE DEF R
  <2> QED BY <1>1, <1>2, <1>3 DEF InOrderOf
<1>5. /\ allChats(S) \in SetToSeqs(S)
      /\ \A i, j \in DOMAIN allChats(S) :
           i < j => ~Before(allChats(S)[j], allChats(S)[i])
  BY <1>4 DEF Sorted, allChats
<1> QED BY <1>5, SeqsEnumerate

\* The place of an element in the sorted whole is the number of those before it.
LEMMA Ranked ==
  ASSUME NEW S, IsFiniteSet(S), NEW R, \A a \in S : <<a, a>> \notin R,
         \A a, b \in S : a # b => <<a, b>> \in R \/ <<b, a>> \in R,
         NEW s, Enumerates(s, S), InOrderOf(R, s), NEW k \in DOMAIN s
  PROVE  Cardinality({r \in S : <<r, s[k]>> \in R}) = k - 1
<1>1. \A i, j \in DOMAIN s : i < j => <<s[j], s[i]>> \notin R
  BY DEF InOrderOf
<1>2. /\ DOMAIN s = 1..Len(s) /\ Len(s) \in Nat /\ k \in 1..Len(s)
      /\ \A i \in 1..Len(s) : s[i] \in S
      /\ \A r \in S : \E i \in 1..Len(s) : s[i] = r
      /\ \A i, j \in 1..Len(s) : s[i] = s[j] => i = j
  BY DEF Enumerates, Range, IsInjective
<1> DEFINE T == {r \in S : <<r, s[k]>> \in R}
           f == [i \in 1..(k - 1) |-> s[i]]
<1>4. \A i \in 1..(k - 1) : f[i] = s[i] /\ i \in 1..Len(s) /\ f[i] \in T
  <2> TAKE i \in 1..(k - 1)
  <2>1. i \in 1..Len(s) /\ i < k /\ i # k
    BY <1>2
  <2>2. s[i] \in S /\ s[i] # s[k] /\ s[k] \in S /\ <<s[k], s[i]>> \notin R
    BY <2>1, <1>1, <1>2
  <2> QED BY <2>1, <2>2
<1>5. \A r \in T : \E i \in 1..(k - 1) : f[i] = r
  <2> TAKE r \in T
  <2>1. PICK i \in 1..Len(s) : s[i] = r
    BY <1>2
  <2>2. i # k
    BY <2>1
  <2>3. ~(k < i)
    BY <2>1, <1>1, <1>2
  <2>4. i \in 1..(k - 1)
    BY <2>2, <2>3, <1>2
  <2> QED BY <2>1, <2>4
<1>6. f \in [1..(k - 1) -> T]
  BY <1>4
<1>7. \A i, j \in 1..(k - 1) : f[i] = f[j] => i = j
  BY <1>4, <1>2
<1>8. f \in Bijection(1..(k - 1), T)
  <2> HIDE DEF f, T
  <2> QED BY <1>5, <1>6, <1>7, Fun_IsBij
<1>9. k - 1 \in Nat
  BY <1>2
<1>10. Cardinality(T) = k - 1
  <2> HIDE DEF f, T
  <2> QED BY <1>8, <1>9, FS_CountingElements DEF ExistsBijection
<1> QED BY <1>10

-----------------------------------------------------------------------------
(* Pages.                                                                  *)

LEMMA CountTo ==
  ASSUME NEW n \in Nat
  PROVE  IsFiniteSet(1..n) /\ Cardinality(1..n) = n
BY FS_Interval

LEMMA SliceIs ==
  ASSUME NEW S, NEW s \in Seq(S), NEW page \in Int, NEW limit \in Int,
         skip(page, limit) \in Nat, NEW x, x = Slice(page, limit, s)
  PROVE  x \in Seq(S) /\ IsPage(x, page, limit, s)
<1>p. PICK d \in Nat : d = skip(page, limit)
  OBVIOUS
<1>q. PICK n \in Nat : n = Len(s)
  BY LenProperties
<1>w. PICK w \in Nat : w = IF limit < 0 THEN -limit ELSE limit
  OBVIOUS
<1>m. PICK m \in Nat : m = IF n <= d THEN 0 ELSE IF w < n - d THEN w ELSE n - d
  BY <1>p, <1>q, <1>w
<1>a. PICK a \in Nat : a = IF limit < 0 THEN IF n - d + limit < 0 THEN 0 ELSE n - d + limit
                          ELSE d
  BY <1>p, <1>q
<1>b. PICK b \in Int : b = IF limit < 0 THEN n - d ELSE IF d + limit < n THEN d + limit ELSE n
  BY <1>p, <1>q
<1>0. x = SubSeq(s, a + 1, b)
  <2>1. (IF (IF limit < 0 THEN n - d + limit ELSE d) < 0 THEN 1
         ELSE (IF limit < 0 THEN n - d + limit ELSE d) + 1) = a + 1
    BY <1>a
  <2>2. (IF (IF limit < 0 THEN n - d ELSE d + limit) < n
         THEN (IF limit < 0 THEN n - d ELSE d + limit) ELSE n) = b
    BY <1>b
  <2> QED BY <2>1, <2>2, <1>p, <1>q DEF Slice
<1>1. b <= n /\ m = IF a < b THEN b - a ELSE 0
  BY <1>w, <1>m, <1>a, <1>b
<1>2. \A i \in (a + 1)..b : s[i] \in S
  <2>1. \A i \in (a + 1)..b : i \in 1..n
    BY <1>1
  <2> QED BY <2>1, <1>q, ElementOfSeq
<1>3. /\ x \in Seq(S)
      /\ Len(x) = IF a + 1 <= b THEN b - (a + 1) + 1 ELSE 0
      /\ \A i \in 1 .. b - (a + 1) + 1 : x[i] = s[a + 1 + i - 1]
  <2>1. PICK c \in Int : c = a + 1
    OBVIOUS
  <2>2. \A i \in c..b : s[i] \in S
    BY <2>1, <1>2
  <2>3. /\ SubSeq(s, c, b) \in Seq(S)
        /\ Len(SubSeq(s, c, b)) = IF c <= b THEN b - c + 1 ELSE 0
        /\ \A i \in 1 .. b - c + 1 : SubSeq(s, c, b)[i] = s[c + i - 1]
    BY <2>2, SubSeqProperties
  <2> QED BY <2>1, <2>3, <1>0
<1>4. Len(x) = m
  BY <1>1, <1>3
<1>5. \A k \in 1..m : a + k \in 1..n /\ x[k] = s[a + k] /\ m # 0
  <2> TAKE k \in 1..m
  <2>1. k \in Nat /\ 1 <= k /\ k <= m /\ m # 0
    OBVIOUS
  <2>2. k \in 1 .. b - (a + 1) + 1 /\ a + 1 + k - 1 = a + k
    BY <1>1, <2>1
  <2>3. a + k \in 1..n
    BY <1>1, <2>1
  <2> QED BY <2>1, <2>2, <2>3, <1>3
<1>6. {k \in 1..w : d + k <= n} = 1..m
  <2>1. \A k \in 1..w : d + k <= n <=> k <= m
    BY <1>m, <1>w, <1>p, <1>q
  <2>2. m <= w
    BY <1>m, <1>w, <1>p, <1>q
  <2>3. m \in Nat /\ w \in Nat
    BY <1>m, <1>w
  <2>4. ASSUME NEW k \in 1..w, d + k <= n PROVE k \in 1..m
    BY <2>1, <2>3, <2>4
  <2>5. ASSUME NEW k \in 1..m PROVE k \in 1..w /\ d + k <= n
    <3>1. k \in 1..w
      BY <2>2, <2>3, <2>5
    <3> QED BY <2>1, <2>3, <2>5, <3>1
  <2> QED BY <2>4, <2>5
<1>7. Cardinality(1..m) = m
  BY CountTo
<1>8. x # <<>> => d < n
  <2>1. x # <<>> => Len(x) # 0
    BY <1>3, EmptySeq
  <2> QED BY <2>1, <1>4, <1>m
<1>9. page = 1 /\ n <= limit => x = s
  <2> SUFFICES ASSUME page = 1, n <= limit PROVE x = s
    OBVIOUS
  <2>1. d = 0
    BY <1>p DEF skip
  <2>2. a = 0 /\ b = n
    BY <2>1, <1>a, <1>b
  <2> QED BY <2>2, <1>0, <1>q, SubSeqFull
<1>10. m # 0 => a = Preceding(page, limit, n, m)
  <2>1. m # 0 => a = IF limit < 0 THEN n - d - m ELSE d
    BY <1>m, <1>a, <1>w
  <2> QED BY <2>1, <1>p DEF Preceding
<1>11. \A k \in 1..m : k \in Nat /\ a + k \in 1..n /\ x[k] = s[a + k]
                      /\ a = Preceding(page, limit, n, m)
  BY <1>5, <1>10
<1>12. m = Fitting(page, limit, n)
  <2>1. {k \in 1..(IF limit < 0 THEN -limit ELSE limit) : skip(page, limit) + k <= n} = 1..m
    BY <1>6, <1>p, <1>w
  <2> QED BY <2>1, <1>7 DEF Fitting
<1>13. DOMAIN x = 1..m /\ DOMAIN s = 1..n
  BY <1>3, <1>4, <1>q, LenProperties
<1>14. \A k \in DOMAIN x :
         k \in Nat /\ \E j \in DOMAIN s :
           j = Preceding(page, limit, Len(s), Len(x)) + k /\ x[k] = s[j]
  BY <1>4, <1>11, <1>13, <1>q
<1> QED BY <1>3, <1>4, <1>8, <1>9, <1>12, <1>14, <1>p, <1>q DEF IsPage

\* A page of the whole.
LEMMA PageOfWhole ==
  ASSUME NEW S, NEW s, Enumerates(s, S), NEW page \in Int, NEW limit \in Int,
         skip(page, limit) \in Nat, NEW x, x = Slice(page, limit, s)
  PROVE  /\ x \in Seq(S) /\ Range(x) \subseteq S /\ IsInjective(x)
         /\ Len(x) = Fitting(page, limit, Cardinality(S))
         /\ x # <<>> => skip(page, limit) < Cardinality(S)
         /\ page = 1 /\ Cardinality(S) <= limit => x = s
         /\ \A k \in DOMAIN x :
              k \in Nat /\ \E j \in DOMAIN s :
                j = Preceding(page, limit, Cardinality(S), Len(x)) + k /\ x[k] = s[j]
<1>1. s \in Seq(S) /\ Len(s) = Cardinality(S)
      /\ \A i, j \in DOMAIN s : s[i] = s[j] => i = j
  BY DEF Enumerates, IsInjective
<1>2. x \in Seq(S) /\ IsPage(x, page, limit, s)
  BY <1>1, SliceIs
<1>3. Range(x) \subseteq S
  BY <1>2, RangeOfSeq
<1>4. PICK d \in Int : d = Preceding(page, limit, Len(s), Len(x))
  BY <1>1, <1>2, LenProperties DEF Preceding
<1>5. \A k \in DOMAIN x : k \in Nat /\ \E j \in DOMAIN s : j = d + k /\ x[k] = s[j]
  BY <1>2, <1>4 DEF IsPage
<1>6. IsInjective(x)
  <2>1. \A j, k \in DOMAIN x : x[j] = x[k] => d + j = d + k /\ j \in Nat /\ k \in Nat
    BY <1>1, <1>5
  <2>2. \A j, k \in Nat : d + j = d + k => j = k
    OBVIOUS
  <2> QED BY <2>1, <2>2 DEF IsInjective
<1> QED BY <1>1, <1>2, <1>3, <1>4, <1>5, <1>6 DEF IsPage

\* The place of a row of a page in the whole is what the page begins with and its own.
LEMMA PageRanked ==
  ASSUME NEW S, IsFiniteSet(S), NEW R, \A a \in S : <<a, a>> \notin R,
         \A a, b \in S : a # b => <<a, b>> \in R \/ <<b, a>> \in R,
         NEW s, Enumerates(s, S), InOrderOf(R, s), NEW page \in Int, NEW limit \in Int,
         skip(page, limit) \in Nat, NEW x, x = Slice(page, limit, s), NEW k \in DOMAIN x
  PROVE  Cardinality({r \in S : <<r, x[k]>> \in R})
           = Preceding(page, limit, Cardinality(S), Len(x)) + k - 1
<1>1. PICK j \in DOMAIN s :
        j = Preceding(page, limit, Cardinality(S), Len(x)) + k /\ x[k] = s[j]
  BY PageOfWhole
<1>2. Cardinality({r \in S : <<r, s[j]>> \in R}) = j - 1
  BY Ranked
<1>3. Preceding(page, limit, Cardinality(S), Len(x)) \in Int /\ k \in Nat
  <2>1. Cardinality(S) \in Nat /\ x \in Seq(S)
    BY FS_CardinalityType, PageOfWhole
  <2>2. Len(x) \in Nat /\ k \in Nat
    BY <2>1, LenProperties
  <2> QED BY <2>1, <2>2 DEF Preceding
<1> QED BY <1>1, <1>2, <1>3

\* A page that starts within the total is one of its pages.
LEMMA PagesCover ==
  ASSUME NEW page \in Int, NEW limit \in Nat \ {0}, NEW total \in Nat,
         skip(page, limit) < total
  PROVE  page <= totalPages(total, limit)
<1> PICK q \in Int : q = totalPages(total, limit)
  BY DEF totalPages
<1>1. total + limit - 1 < limit * (q + 1)
  BY DEF totalPages
<1>2. ASSUME q < page  PROVE FALSE
  <2>1. q + 1 <= page
    BY <1>2
  <2>2. limit * (q + 1) <= limit * page
    BY <2>1
  <2>3. (page - 1) * limit = limit * page - limit
    OBVIOUS
  <2>4. limit * page \in Int /\ limit * (q + 1) \in Int
    OBVIOUS
  <2>5. limit * page - limit < total
    BY <2>3 DEF skip
  <2> QED BY <2>2, <2>4, <2>5, <1>1
<1> QED BY <1>2

-----------------------------------------------------------------------------
(* Conversations and their entries.                                        *)

LEMMA CountInTable ==
  ASSUME TablesOK, NEW S \in SUBSET Live
  PROVE  Cardinality(S) \in 0..MaxMessages
<1>1. Len(table) \in Nat /\ IsFiniteSet(1..Len(table)) /\ Cardinality(1..Len(table)) = Len(table)
  BY LiveRows, CountTo, FS_Interval
<1>2. IsFiniteSet(S) /\ Cardinality(S) <= Len(table)
  BY <1>1, LiveRows, FS_Subset
<1>3. Cardinality(S) \in Nat
  BY <1>2, FS_CardinalityType
<1> QED BY <1>1, <1>2, <1>3, ListAssumption DEF TablesOK

LEMMA InIsLive ==
  ASSUME NEW u, NEW c
  PROVE  In(u, c) \subseteq Live /\ Unread(u, c) \subseteq Live
BY DEF In, Unread, Between, SentTo, InGroup

\* A conversation has messages, and none without has been one.
LEMMA ConversationsHaveMessages ==
  ASSUME NEW u \in Users, NEW c \in ConversationsOf(u)
  PROVE  c \in Conversations /\ In(u, c) # {}
<1>1. CASE c \in Partners(u)
  <2>1. c \in Receivers /\ c \notin Groups /\ Direct(u, c) # {}
    BY <1>1, ListAssumption DEF Partners, Receivers
  <2> QED BY <2>1 DEF Direct, Of, Other, In, Between, SentTo, Conversations
<1>2. CASE c \in GroupsWith(u)
  BY <1>2 DEF GroupsWith, In, Conversations
<1> QED BY <1>1, <1>2 DEF ConversationsOf

\* Those to be listed are those with a user or of a group.
LEMMA ListedAre ==
  ASSUME NEW u
  PROVE  /\ Listed(u) = ConversationsOf(u) \ Strangers
         /\ Listed(u) \subseteq Users \cup Groups /\ Listed(u) \subseteq Conversations
BY ListAssumption DEF Listed, ConversationsOf, Partners, GroupsWith, Receivers, Conversations

\* What a message found last and counted of it amounts to.
LEMMA EntryType ==
  ASSUME TablesOK, NEW u, NEW c \in Users \cup Groups, NEW last \in DOMAIN table
  PROVE  [with |-> c, last |-> last, unread |-> Cardinality(Unread(u, c))] \in Entry
<1>1. last \in 1..MaxMessages
  BY LiveRows, ListAssumption DEF TablesOK
<1>2. Cardinality(Unread(u, c)) \in 0..MaxMessages
  BY InIsLive, CountInTable
<1> QED BY <1>1, <1>2 DEF Entry

LEMMA EntryOfType ==
  ASSUME TablesOK, NEW u \in Users, NEW c \in Listed(u)
  PROVE  EntryOf(u, c) \in Entry /\ EntryOf(u, c).last \in In(u, c) /\ EntryOf(u, c).with = c
<1>1. c \in Users \cup Groups /\ In(u, c) # {} /\ In(u, c) \in SUBSET Live
  BY ListedAre, ConversationsHaveMessages, InIsLive
<1>2. Newest(In(u, c)) \in In(u, c) /\ Newest(In(u, c)) \in DOMAIN table
  BY <1>1, NewestIsLive, LiveRows
<1> QED BY <1>1, <1>2, EntryType DEF EntryOf

\* One query over the tables finds what the calls find.
LEMMA SharedIsIn ==
  ASSUME NEW u, NEW c \in Conversations
  PROVE  Shared(u, c) = In(u, c)
<1>1. CASE c \in Groups
  BY <1>1 DEF Shared, In, InGroup
<1>2. CASE c \notin Groups
  <2>1. ASSUME NEW i
        PROVE  {table[i].from, table[i].to} = {u, c} <=>
                 \/ table[i].from = u /\ table[i].to = c
                 \/ table[i].from = c /\ table[i].to = u
    OBVIOUS
  <2> QED BY <1>2, <2>1 DEF Shared, In, Between, SentTo
<1> QED BY <1>1, <1>2

LEMMA ChatsAreEntries ==
  ASSUME NEW u \in Users
  PROVE  ChatsOf(u) = {EntryOf(u, c) : c \in Listed(u)}
<1>1. ASSUME NEW c \in Listed(u)
      PROVE  /\ Shared(u, c) = In(u, c)
             /\ {i \in Shared(u, c) :
                   /\ ~table[i].seen
                   /\ IF c \in Users THEN table[i].to = u /\ table[i].from = c
                      ELSE table[i].from # u} = Unread(u, c)
  <2>1. Shared(u, c) = In(u, c)
    BY ListedAre, SharedIsIn
  <2>2. c \in Users <=> c \notin Groups
    BY ListedAre, ListAssumption
  <2> QED BY <2>1, <2>2 DEF Unread
<1>2. ASSUME NEW c \in Listed(u)
      PROVE  EntryOf(u, c) =
               [with |-> c, last |-> Newest(Shared(u, c)),
                unread |-> Cardinality({i \in Shared(u, c) :
                   /\ ~table[i].seen
                   /\ IF c \in Users THEN table[i].to = u /\ table[i].from = c
                      ELSE table[i].from # u})]
  BY <1>1 DEF EntryOf
<1> QED BY <1>2 DEF ChatsOf

LEMMA RowsAreSelected ==
  ASSUME TablesOK, NEW t, t.op \in Ops \ {"chats"},
         t.op = "group" => t.with \in Groups, t.op = "direct" => t.with \in Receivers
  PROVE  RowsOf(t) = Selected(t)
<1>1. CASE t.op = "group"
  <2>1. Shared(t.user, t.with) = InGroup(t.with)
    BY <1>1, SharedIsIn DEF In, Conversations
  <2> QED BY <1>1, <2>1 DEF RowsOf, Selected
<1>2. CASE t.op = "direct"
  <2>1. Shared(t.user, t.with) = Between(t.user, t.with)
    BY <1>2, SharedIsIn, ListAssumption DEF In, Conversations, Receivers
  <2> QED BY <1>2, <2>1 DEF RowsOf, Selected
<1>3. CASE t.op = "search"
  <2>1. Found(t.user, t.with) =
          {i \in Live : /\ t.with \in table[i].has
                        /\ table[i].from = t.user \/ table[i].to = t.user}
    BY DEF Found, Of
  <2> QED BY <1>3, <2>1 DEF RowsOf, Selected
<1>4. CASE t.op = "groups"
  <2>1. GroupsOf(t.user) = {g \in groups : \E pair \in members : pair = <<t.user, g>>}
    BY DEF GroupsOf
  <2> QED BY <1>4, <2>1 DEF RowsOf, Selected
<1> QED BY <1>1, <1>2, <1>3, <1>4 DEF Ops

\* No message is the latest of two conversations, but of a group and of a user.
LEMMA EntriesDiffer ==
  ASSUME TablesOK, NEW u \in Users
  PROVE  AllDiffer(ChatsOf(u))
<1> SUFFICES ASSUME NEW c \in Listed(u), NEW d \in Listed(u), c # d
             PROVE  Before(EntryOf(u, c), EntryOf(u, d)) \/ Before(EntryOf(u, d), EntryOf(u, c))
  BY ChatsAreEntries DEF AllDiffer
<1> PICK a : a = EntryOf(u, c)
  OBVIOUS
<1> PICK b : b = EntryOf(u, d)
  OBVIOUS
<1>1. /\ a.last \in In(u, c) /\ a.with = c /\ a.last \in Nat
      /\ b.last \in In(u, d) /\ b.with = d /\ b.last \in Nat
  BY EntryOfType DEF Entry
<1>2. c \in Users \cup Groups /\ d \in Users \cup Groups
  BY ListedAre
<1>3. CASE a.last # b.last
  BY <1>1, <1>3 DEF Before
<1>4. CASE a.last = b.last
  <2>1. ~(c \notin Groups /\ d \notin Groups)
    BY <1>1, <1>4 DEF In, Between, SentTo
  <2>2. ~(c \in Groups /\ d \in Groups)
    BY <1>1, <1>4 DEF In, InGroup
  <2>3. (c \in Users /\ d \in Groups) \/ (d \in Users /\ c \in Groups)
    BY <2>1, <2>2, <1>2
  <2> QED BY <2>3, <1>1, <1>4 DEF Before
<1> QED BY <1>3, <1>4

-----------------------------------------------------------------------------
(* Going through a sequence.                                               *)

LEMMA HeadLeaves ==
  ASSUME NEW S, NEW s \in Seq(S), s # <<>>
  PROVE  /\ Head(s) \in S /\ Tail(s) \in Seq(S)
         /\ Range(s) = {Head(s)} \cup Range(Tail(s))
         /\ IsInjective(s) => IsInjective(Tail(s)) /\ Head(s) \notin Range(Tail(s))
<1> PICK r : r = Tail(s)
  OBVIOUS
<1> PICK n \in Nat : n = Len(s)
  BY LenProperties
<1>1. /\ Head(s) \in S /\ r \in Seq(S) /\ n # 0 /\ Len(r) = n - 1
      /\ \A i \in 1..(n - 1) : r[i] = s[i + 1]
  BY HeadTailProperties, EmptySeq
<1>2. Head(s) = s[1] /\ DOMAIN s = 1..n /\ DOMAIN r = 1..(n - 1)
  BY <1>1
<1>3. Range(s) = {s[i] : i \in 1..n} /\ Range(r) = {r[i] : i \in 1..(n - 1)}
  BY <1>2 DEF Range
<1>4. \A i \in 1..(n - 1) : i + 1 \in 1..n /\ i + 1 # 1
  OBVIOUS
<1>5. \A i \in 1..n : i = 1 \/ (i - 1 \in 1..(n - 1) /\ s[i] = r[i - 1])
  <2> TAKE i \in 1..n
  <2>1. i = 1 \/ (i - 1 \in 1..(n - 1) /\ (i - 1) + 1 = i)
    OBVIOUS
  <2> QED BY <2>1, <1>1
<1>6. 1 \in 1..n
  BY <1>1
<1>7. Range(s) = {Head(s)} \cup Range(r)
  <2>1. Range(s) \subseteq {Head(s)} \cup Range(r)
    BY <1>2, <1>3, <1>5
  <2>2. Head(s) \in Range(s)
    BY <1>2, <1>3, <1>6
  <2>3. Range(r) \subseteq Range(s)
    BY <1>1, <1>3, <1>4
  <2> QED BY <2>1, <2>2, <2>3
<1>8. ASSUME IsInjective(s)  PROVE IsInjective(r) /\ Head(s) \notin Range(r)
  <2>1. \A i, j \in 1..n : s[i] = s[j] => i = j
    BY <1>8, <1>2 DEF IsInjective
  <2>2. \A i, j \in 1..(n - 1) : r[i] = r[j] => i + 1 = j + 1
    BY <2>1, <1>1, <1>4
  <2>3. \A i, j \in 1..(n - 1) : i + 1 = j + 1 => i = j
    OBVIOUS
  <2>4. IsInjective(r)
    BY <2>2, <2>3, <1>2 DEF IsInjective
  <2>5. \A i \in 1..(n - 1) : r[i] # s[1]
    BY <2>1, <1>1, <1>4, <1>6
  <2> QED BY <2>4, <2>5, <1>2, <1>3
<1> QED BY <1>1, <1>7, <1>8

LEMMA EntryJoins ==
  ASSUME NEW s \in Seq(Entry), NEW e \in Entry, e.with \notin Withs(s),
         \A j, k \in DOMAIN s : s[j].with = s[k].with => j = k
  PROVE  LET r == Append(s, e)
         IN /\ r \in Seq(Entry) /\ Withs(r) = Withs(s) \cup {e.with}
            /\ \A j, k \in DOMAIN r : r[j].with = r[k].with => j = k
            /\ \A k \in DOMAIN r : r[k] = e \/ (k \in DOMAIN s /\ r[k] = s[k])
<1> PICK r : r = Append(s, e)
  OBVIOUS
<1> PICK n \in Nat : n = Len(s)
  BY LenProperties
<1>1. /\ r \in Seq(Entry) /\ Len(r) = n + 1 /\ r[n + 1] = e
      /\ \A i \in 1..n : r[i] = s[i]
  BY AppendProperties
<1>2. DOMAIN s = 1..n /\ DOMAIN r = 1..(n + 1)
  BY <1>1
<1>3. 1..(n + 1) = 1..n \cup {n + 1} /\ n + 1 \notin 1..n
  OBVIOUS
<1>4. \A k \in DOMAIN r : (k = n + 1 /\ r[k] = e) \/ (k \in DOMAIN s /\ r[k] = s[k])
  BY <1>1, <1>2, <1>3
<1>5. \A k \in DOMAIN s : k \in DOMAIN r /\ r[k] = s[k] /\ s[k].with \in Withs(s)
  BY <1>1, <1>2, <1>3 DEF Withs
<1>6. Withs(r) = Withs(s) \cup {e.with}
  <2>1. Withs(r) \subseteq Withs(s) \cup {e.with}
    BY <1>4 DEF Withs
  <2>2. e.with \in Withs(r)
    BY <1>1, <1>2, <1>3 DEF Withs
  <2>3. Withs(s) \subseteq Withs(r)
    BY <1>5 DEF Withs
  <2> QED BY <2>1, <2>2, <2>3
<1>7. \A j, k \in DOMAIN r : r[j].with = r[k].with => j = k
  BY <1>4, <1>5
<1> QED BY <1>1, <1>4, <1>6, <1>7

-----------------------------------------------------------------------------
(* The answer of a chat list.                                              *)

LEMMA SeqOfEntries ==
  ASSUME NEW s \in Seq(Entry)
  PROVE  s \in Seq(Item)
BY SeqMonotonic DEF Item

\* Entries of distinct conversations are as many as they are conversations.
LEMMA ListCounted ==
  ASSUME NEW s \in Seq(Entry), \A j, k \in DOMAIN s : s[j].with = s[k].with => j = k
  PROVE  /\ Range(s) \subseteq Entry /\ IsFiniteSet(Range(s))
         /\ Cardinality(Range(s)) = Len(s)
         /\ \A C \in SUBSET Withs(s) : IsFiniteSet(C) /\ Cardinality(C) <= Len(s)
<1> PICK n \in Nat : n = Len(s)
  BY LenProperties
<1>1. DOMAIN s = 1..n /\ s \in [1..n -> Entry] /\ IsFiniteSet(1..n) /\ Cardinality(1..n) = n
  <2>1. DOMAIN s = 1..n /\ s \in [1..n -> Entry]
    BY LenProperties
  <2> QED BY <2>1, CountTo
<1>2. s \in Bijection(1..n, Range(s))
  <2>1. s \in Surjection(1..n, Range(s))
    BY <1>1, Fun_RangeProperties
  <2>2. \A j, k \in 1..n : s[j] = s[k] => j = k
    BY <1>1
  <2>3. s \in [1..n -> Range(s)]
    BY <2>1, Fun_SurjectionProperties
  <2> QED BY <2>1, <2>2, <2>3, Fun_IsBij
<1>3. IsFiniteSet(Range(s)) /\ Cardinality(Range(s)) = n
  BY <1>1, <1>2, FS_Bijection DEF ExistsBijection
<1>4. PICK f : f = [k \in 1..n |-> s[k].with]
  OBVIOUS
<1>5. f \in Surjection(1..n, Withs(s))
  <2>1. f \in [1..n -> Withs(s)] /\ \A c \in Withs(s) : \E k \in 1..n : f[k] = c
    BY <1>1, <1>4 DEF Withs
  <2> QED BY <2>1, Fun_IsSurj
<1>6. IsFiniteSet(Withs(s)) /\ Cardinality(Withs(s)) <= n
  BY <1>1, <1>5, FS_Surjection
<1>7. ASSUME NEW C \in SUBSET Withs(s)
      PROVE  IsFiniteSet(C) /\ Cardinality(C) <= n
  <2>1. IsFiniteSet(C) /\ Cardinality(C) <= Cardinality(Withs(s))
    BY <1>6, FS_Subset
  <2>2. Cardinality(C) \in Nat /\ Cardinality(Withs(s)) \in Nat
    BY <1>6, <2>1, FS_CardinalityType
  <2> QED BY <2>1, <2>2, <1>6
<1>8. Range(s) \subseteq Entry
  BY RangeOfSeq
<1> QED BY <1>3, <1>7, <1>8

\* A page of the sorted entries.
LEMMA EntriesPaged ==
  ASSUME NEW W, W \subseteq Entry, IsFiniteSet(W), NEW page \in Int, NEW limit \in Int,
         skip(page, limit) \in Nat, NEW x, x = Slice(page, limit, allChats(W))
  PROVE  /\ x \in Seq(Entry) /\ Range(x) \subseteq W /\ IsInjective(x)
         /\ Len(x) = Fitting(page, limit, Cardinality(W))
         /\ x # <<>> => skip(page, limit) < Cardinality(W)
         /\ page = 1 /\ Cardinality(W) <= limit => Range(x) = W
         /\ AllDiffer(W) =>
              \A k \in DOMAIN x :
                Cardinality({r \in W : Before(r, x[k])})
                  = Preceding(page, limit, Cardinality(W), Len(x)) + k - 1
<1>1. PICK q : q = allChats(W) /\ x = Slice(page, limit, q)
  OBVIOUS
<1>2. Enumerates(q, W) /\ \A i, j \in DOMAIN q : i < j => ~Before(q[j], q[i])
  BY <1>1, EntriesSorted
<1>3. /\ x \in Seq(W) /\ Range(x) \subseteq W /\ IsInjective(x)
      /\ Len(x) = Fitting(page, limit, Cardinality(W))
      /\ x # <<>> => skip(page, limit) < Cardinality(W)
      /\ page = 1 /\ Cardinality(W) <= limit => x = q
  BY <1>1, <1>2, PageOfWhole
<1>4. x \in Seq(Entry)
  BY <1>3, SeqMonotonic
<1>5. Range(q) = W
  BY <1>2 DEF Enumerates
<1>6. ASSUME AllDiffer(W), NEW k \in DOMAIN x
      PROVE  Cardinality({r \in W : Before(r, x[k])})
               = Preceding(page, limit, Cardinality(W), Len(x)) + k - 1
  <2> DEFINE R == {p \in W \X W : Before(p[1], p[2])}
  <2>1. \A a, b \in W : <<a, b>> \in R <=> Before(a, b)
    OBVIOUS
  <2>2. \A a \in W : ~Before(a, a)
    <3> TAKE a \in W
    <3>1. a.last \in Nat /\ ~(a.with \in Users /\ a.with \in Groups)
      BY ListAssumption DEF Entry
    <3>2. ~(a.last > a.last)
      BY <3>1
    <3> QED BY <3>1, <3>2 DEF Before
  <2> HIDE DEF R
  <2>3. \A a \in W : <<a, a>> \notin R
    BY <2>1, <2>2
  <2>4. \A a, b \in W : a # b => <<a, b>> \in R \/ <<b, a>> \in R
    BY <2>1, <1>6 DEF AllDiffer
  <2>5. InOrderOf(R, q)
    <3>1. \A i \in DOMAIN q : q[i] \in W
      BY <1>5 DEF Range
    <3> QED BY <3>1, <2>1, <1>2 DEF InOrderOf
  <2>6. Cardinality({r \in W : <<r, x[k]>> \in R})
          = Preceding(page, limit, Cardinality(W), Len(x)) + k - 1
    BY <2>3, <2>4, <2>5, <1>1, <1>2, <1>6, PageRanked
  <2>7. x[k] \in W
    BY <1>3, <1>6 DEF Range
  <2>8. {r \in W : <<r, x[k]>> \in R} = {r \in W : Before(r, x[k])}
    BY <2>1, <2>7
  <2> QED BY <2>6, <2>8
<1> QED BY <1>3, <1>4, <1>5, <1>6

LEMMA AnswerTyped ==
  ASSUME NEW t \in Task, NEW x \in Seq(Entry), NEW n \in Nat
  PROVE  /\ Answered(t, n, x) \in Task
         /\ Answered(t, n, x).at = "answered" /\ Answered(t, n, x).op = t.op
         /\ Answered(t, n, x).user = t.user /\ Answered(t, n, x).page = t.page
         /\ Answered(t, n, x).limit = t.limit
         /\ Answered(t, n, x).total = n /\ Answered(t, n, x).items = x
<1>1. x \in Seq(Item)
  BY SeqOfEntries
<1> QED BY <1>1 DEF Task, Answered

LEMMA ListAnswered ==
  ASSUME TablesOK, NEW t \in Task, t.op = "chats", t.user \in Users,
         skip(t.page, t.limit) \in Nat,
         t.items \in Seq(Entry), t.todo = <<>>, NEW s, NEW st, Listing(t, s, st),
         NEW n, n = Len(t.items), NEW x, x = Slice(t.page, t.limit, allChats(Range(t.items))),
         NEW r, r = Answered(t, n, x)
  PROVE  r \in Task /\ HandlerOK(r, s, st)
<1>1. n \in Nat
  BY LenProperties
<1>2. PICK W : W = Range(t.items)
  OBVIOUS
<1>3. W \subseteq Entry /\ IsFiniteSet(W) /\ Cardinality(W) = n
      /\ \A C \in SUBSET Withs(t.items) : Cardinality(C) <= n
  BY <1>1, <1>2, ListCounted DEF Listing, EachOnce
<1>4. x = Slice(t.page, t.limit, allChats(W))
  BY <1>2
<1>5. t.page \in Int /\ t.limit \in Int
  BY DEF Task
<1>6. /\ x \in Seq(Entry) /\ Range(x) \subseteq W /\ IsInjective(x)
      /\ Len(x) = Fitting(t.page, t.limit, n)
      /\ x # <<>> => skip(t.page, t.limit) < n
      /\ t.page = 1 /\ n <= t.limit => Range(x) = W
      /\ AllDiffer(W) =>
           \A k \in DOMAIN x :
             Cardinality({e \in W : Before(e, x[k])})
               = Preceding(t.page, t.limit, n, Len(x)) + k - 1
  BY <1>3, <1>4, <1>5, EntriesPaged
<1>8. /\ r \in Task /\ r.at = "answered" /\ r.op = "chats" /\ r.user = t.user
      /\ r.page = t.page /\ r.limit = t.limit /\ r.total = n /\ r.items = x
  <2>1. x \in Seq(Entry)
    BY <1>6
  <2> QED BY <2>1, <1>1, AnswerTyped
<1>9. W = {t.items[k] : k \in DOMAIN t.items}
  BY <1>2 DEF Range
<1>10. st \subseteq Withs(t.items)
       /\ (s = "none" =>
             /\ Withs(t.items) = Listed(t.user)
             /\ \A k \in DOMAIN t.items : t.items[k] = EntryOf(t.user, t.items[k].with))
  <2>1. Range(t.todo) = {}
    BY DEF Range
  <2>2. Withs(t.items) \cap Strangers = {}
    <3>1. \A k \in DOMAIN t.items : t.items[k] \in Entry
      BY ElementOfSeq, LenProperties
    <3> QED BY <3>1, ListAssumption DEF Withs, Entry
  <2> QED BY <2>1, <2>2 DEF Listing
<1>11. LosesNone(r, st)
  <2>1. Cardinality(st) <= n
    BY <1>3, <1>10
  <2>2. ASSUME Range(x) = W  PROVE Withs(t.items) \subseteq Withs(x)
    <3> SUFFICES ASSUME NEW k \in DOMAIN t.items PROVE t.items[k].with \in Withs(x)
      BY DEF Withs
    <3>1. t.items[k] \in Range(x)
      BY <2>2, <1>9
    <3> QED BY <3>1 DEF Range, Withs
  <2> QED BY <2>1, <2>2, <1>6, <1>8, <1>10 DEF LosesNone
<1>12. ASSUME s = "none"  PROVE ExactAnswer(r)
  <2>1. RowsOf(r) = {EntryOf(t.user, c) : c \in Listed(t.user)}
        /\ RowsOf(r) = ChatsOf(t.user)
    BY <1>8, ChatsAreEntries DEF RowsOf
  <2>2. ASSUME NEW e \in W  PROVE \E c \in Listed(t.user) : e = EntryOf(t.user, c)
    BY <1>9, <1>10, <1>12 DEF Withs
  <2>3. ASSUME NEW c \in Listed(t.user)  PROVE EntryOf(t.user, c) \in W
    <3>1. PICK k \in DOMAIN t.items : t.items[k].with = c
      BY <1>10, <1>12 DEF Withs
    <3> QED BY <3>1, <1>9, <1>10, <1>12
  <2>4. RowsOf(r) = W
    BY <2>1, <2>2, <2>3
  <2>5. AllDiffer(W)
    BY <2>1, <2>4, EntriesDiffer
  <2>6. \A e : Rank(r, W, e) = Cardinality({y \in W : Before(y, e)})
    BY <1>8 DEF Rank, Ahead
  <2> QED BY <2>4, <2>5, <2>6, <1>3, <1>6, <1>8 DEF ExactAnswer
<1>13. TypedOK(r)
  BY <1>8, <1>6 DEF TypedOK, Ops, Calls, Sorting
<1>14. AnswerOK(r, s, st)
  BY <1>8, <1>6, <1>11, <1>12 DEF AnswerOK
<1>15. GatheringOK(r, s, st) /\ PageOK(r, s)
  BY <1>8 DEF GatheringOK, PageOK, Sorting
<1> QED BY <1>8, <1>13, <1>14, <1>15 DEF HandlerOK

-----------------------------------------------------------------------------
(* What does not change.                                                   *)

\* Handler h moves to a task that is in order; tables and histories stay.
Advance(h) ==
  \E t \in Task : task' = [task EXCEPT ![h] = t] /\ HandlerOK(t, since[h], stays[h])

LEMMA SameRows ==
  ASSUME UNCHANGED tables
  PROVE  /\ Live' = Live
         /\ \A g : InGroup(g)' = InGroup(g)
         /\ \A u, c : Between(u, c)' = Between(u, c) /\ In(u, c)' = In(u, c)
         /\ \A u : Of(u)' = Of(u) /\ Partners(u)' = Partners(u)
         /\ \A u : GroupsWith(u)' = GroupsWith(u) /\ GroupsOf(u)' = GroupsOf(u)
         /\ \A u : Listed(u)' = Listed(u) /\ \A text : Found(u, text)' = Found(u, text)
<1>1. table' = table /\ members' = members /\ groups' = groups
  BY DEF tables
<1>2. Live' = Live
  BY <1>1 DEF Live
<1>3. \A g : InGroup(g)' = InGroup(g)
  BY <1>1, <1>2 DEF InGroup
<1>4. \A u, c : Between(u, c)' = Between(u, c)
  BY <1>1, <1>2 DEF Between, SentTo
<1>5. \A u, c : In(u, c)' = In(u, c)
  BY <1>3, <1>4 DEF In
<1>6. \A u : Of(u)' = Of(u)
  BY <1>1, <1>2 DEF Of
<1>7. \A u : Partners(u)' = Partners(u)
  <2>1. \A u, v : Direct(u, v)' = Direct(u, v)
    BY <1>1, <1>6 DEF Direct, Other
  <2> QED BY <2>1 DEF Partners
<1>8. \A u : GroupsWith(u)' = GroupsWith(u)
  BY <1>1, <1>3 DEF GroupsWith
<1>9. \A u : GroupsOf(u)' = GroupsOf(u)
  BY <1>1 DEF GroupsOf
<1>10. \A u, text : Found(u, text)' = Found(u, text)
  BY <1>1, <1>6 DEF Found
<1>11. \A u : Listed(u)' = Listed(u)
  BY <1>7, <1>8 DEF Listed
<1> QED BY <1>2, <1>3, <1>4, <1>5, <1>6, <1>7, <1>8, <1>9, <1>10, <1>11

LEMMA SameAnswers ==
  ASSUME UNCHANGED tables
  PROVE  /\ \A u : ConversationsOf(u)' = ConversationsOf(u) /\ ChatsOf(u)' = ChatsOf(u)
         /\ \A u, c : EntryOf(u, c)' = EntryOf(u, c)
         /\ \A t : Selected(t)' = Selected(t) /\ InOrder(t)' = InOrder(t) /\ RowsOf(t)' = RowsOf(t)
<1>1. table' = table
  BY DEF tables
<1>2. \A u : ConversationsOf(u)' = ConversationsOf(u)
  BY SameRows DEF ConversationsOf
<1>3. \A u, c : EntryOf(u, c)' = EntryOf(u, c)
  BY <1>1, SameRows DEF EntryOf, Unread
<1>4. \A t : Selected(t)' = Selected(t)
  BY SameRows DEF Selected
<1>5. \A t : InOrder(t)' = InOrder(t)
  BY <1>4 DEF InOrder
<1>7. \A u, c : Shared(u, c)' = Shared(u, c)
  BY <1>1, SameRows DEF Shared
<1>6. \A u : ChatsOf(u)' = ChatsOf(u)
  <2> TAKE u
  <2>1. \A c : Shared(u, c)' = Shared(u, c)
    BY <1>7
  <2>2. Listed(u)' = Listed(u)
    BY SameRows
  <2>3. \A c : {i \in Shared(u, c) :
                 /\ ~table[i].seen
                 /\ IF c \in Users THEN table[i].to = u /\ table[i].from = c
                    ELSE table[i].from # u}'
               = {i \in Shared(u, c) :
                 /\ ~table[i].seen
                 /\ IF c \in Users THEN table[i].to = u /\ table[i].from = c
                    ELSE table[i].from # u}
    BY <1>1, <2>1
  <2> QED BY <2>1, <2>2, <2>3, Zenon DEF ChatsOf
<1>8. \A t : RowsOf(t)' = RowsOf(t)
  <2> TAKE t
  <2>1. members' = members /\ groups' = groups /\ Live' = Live
    BY SameRows DEF tables
  <2> QED BY <1>1, <1>6, <1>7, <2>1 DEF RowsOf
<1> QED BY <1>2, <1>3, <1>4, <1>5, <1>6, <1>8

LEMMA HandlerStable ==
  ASSUME UNCHANGED tables, NEW t, NEW s, NEW st, HandlerOK(t, s, st)
  PROVE  HandlerOK(t, s, st)'
<1>1. TypedOK(t)'
  BY DEF HandlerOK, TypedOK, tables
<1>2. GatheringOK(t, s, st)'
  <2>1. Listing(t, s, st)' = Listing(t, s, st)
    BY SameRows, SameAnswers DEF Listing
  <2> QED BY <2>1, SameRows, SameAnswers DEF HandlerOK, GatheringOK
<1>3. PageOK(t, s)'
  BY SameAnswers DEF HandlerOK, PageOK
<1>4. AnswerOK(t, s, st)'
  <2>1. ExactAnswer(t)' = ExactAnswer(t)
    BY SameAnswers DEF ExactAnswer
  <2> QED BY <2>1 DEF HandlerOK, AnswerOK
<1> QED BY <1>1, <1>2, <1>3, <1>4 DEF HandlerOK

LEMMA TablesStable ==
  ASSUME TablesOK, UNCHANGED tables
  PROVE  TablesOK'
BY SameRows DEF TablesOK, tables

LEMMA AdvanceKeepsIInv ==
  ASSUME IInv, NEW h \in Handlers, UNCHANGED <<tables, history>>, Advance(h)
  PROVE  IInv'
<1>1. UNCHANGED tables /\ since' = since /\ stays' = stays
  BY DEF history
<1>2. PICK t \in Task : task' = [task EXCEPT ![h] = t] /\ HandlerOK(t, since[h], stays[h])
  BY DEF Advance
<1>3. task \in [Handlers -> Task]
  BY DEF IInv, TasksOK
<1>4. TablesOK' /\ HistoriesOK'
  BY <1>1, TablesStable DEF IInv, HistoriesOK
<1>5. TasksOK'
  BY <1>2, <1>3 DEF TasksOK
<1>6. ASSUME NEW k \in Handlers  PROVE HandlerOK(task[k], since[k], stays[k])'
  <2>1. PICK tk, s, st : tk = task'[k] /\ s = since[k] /\ st = stays[k]
    OBVIOUS
  <2>2. HandlerOK(tk, s, st)
    <3>1. CASE k = h
      BY <3>1, <2>1, <1>2, <1>3
    <3>2. CASE k # h
      BY <3>2, <2>1, <1>2, <1>3 DEF IInv, Handlers_OK
    <3> QED BY <3>1, <3>2
  <2>3. HandlerOK(tk, s, st)'
    BY <2>2, <1>1, HandlerStable
  <2> QED BY <2>1, <2>3, <1>1
<1> QED BY <1>4, <1>5, <1>6 DEF IInv, Handlers_OK

-----------------------------------------------------------------------------
(* A page and its total.                                                   *)

LEMMA SelectedEnumerated ==
  ASSUME TablesOK, NEW t, t.op \in Ops \ {"chats"}
  PROVE  /\ Enumerates(InOrder(t), Selected(t))
         /\ t.op # "groups" =>
              \A i, j \in DOMAIN InOrder(t) : i < j => ~(InOrder(t)[j] > InOrder(t)[i])
<1>1. PICK S : S = Selected(t)
  OBVIOUS
<1>2. IsFiniteSet(S)
  BY <1>1, SelectedFinite
<1>3. CASE t.op = "groups"
  <2>1. InOrder(t) = SetToSeq(S)
    BY <1>1, <1>3 DEF InOrder
  <2>2. \E s : s \in [1..Cardinality(S) -> S] /\ IsInjective(s)
    <3>1. ExistsBijection(1..Cardinality(S), S)
      BY <1>2, FS_CardinalityType
    <3> QED BY <3>1 DEF ExistsBijection, Bijection, Injection
  <2>3. SetToSeq(S) \in [1..Cardinality(S) -> S] /\ IsInjective(SetToSeq(S))
    BY <2>2 DEF SetToSeq
  <2>4. SetToSeq(S) \in SetToSeqs(S)
    BY <2>3 DEF SetToSeqs, IsInjective
  <2> QED BY <1>1, <1>2, <1>3, <2>1, <2>4, SeqsEnumerate
<1>4. CASE t.op # "groups"
  <2>1. S \subseteq Nat
    BY <1>1, <1>4, SelectedFinite, LiveRows
  <2>2. InOrder(t) = Latest(S)
    BY <1>1, <1>4 DEF InOrder
  <2> QED BY <1>1, <1>2, <2>1, <2>2, LatestSorts
<1> QED BY <1>3, <1>4

LEMMA SelectedSame ==
  ASSUME NEW t, NEW r, r.op = t.op, r.user = t.user, r.with = t.with
  PROVE  Selected(r) = Selected(t) /\ InOrder(r) = InOrder(t)
<1>1. Selected(r) = Selected(t)
  BY DEF Selected
<1> QED BY <1>1 DEF InOrder

PageOfLatest(S, q, page, limit, x) ==
  /\ S \subseteq Nat /\ IsFiniteSet(S) /\ Enumerates(q, S)
  /\ \A i, j \in DOMAIN q : i < j => ~(q[j] > q[i])
  /\ page \in Int /\ limit \in Int /\ skip(page, limit) \in Nat
  /\ x = Slice(page, limit, q)

Later(S, i) == Cardinality({r \in S : r > i})

\* As many messages are later than one on a page as come before it in the list.
LEMMA LatestPaged ==
  ASSUME NEW S, NEW q, NEW page, NEW limit, NEW x, PageOfLatest(S, q, page, limit, x),
         NEW k \in DOMAIN x
  PROVE  Later(S, x[k]) = Preceding(page, limit, Cardinality(S), Len(x)) + k - 1
<1>0. /\ S \subseteq Nat /\ IsFiniteSet(S) /\ Enumerates(q, S)
      /\ \A i, j \in DOMAIN q : i < j => ~(q[j] > q[i])
      /\ page \in Int /\ limit \in Int /\ skip(page, limit) \in Nat
      /\ x = Slice(page, limit, q) /\ k \in DOMAIN x
  BY DEF PageOfLatest
<1> DEFINE R == {p \in S \X S : p[1] > p[2]}
<1>1. \A a, b \in S : <<a, b>> \in R <=> a > b
  OBVIOUS
<1> HIDE DEF R
<1>2. \A a \in S : <<a, a>> \notin R
  BY <1>0, <1>1
<1>3. \A a, b \in S : a # b => <<a, b>> \in R \/ <<b, a>> \in R
  BY <1>0, <1>1
<1>4. InOrderOf(R, q)
  <2>1. \A i \in DOMAIN q : q[i] \in S
    BY <1>0 DEF Enumerates, Range
  <2> QED BY <2>1, <1>0, <1>1 DEF InOrderOf
<1>5. Cardinality({r \in S : <<r, x[k]>> \in R})
        = Preceding(page, limit, Cardinality(S), Len(x)) + k - 1
  <2>1. /\ IsFiniteSet(S) /\ Enumerates(q, S) /\ page \in Int /\ limit \in Int
        /\ skip(page, limit) \in Nat /\ x = Slice(page, limit, q) /\ k \in DOMAIN x
    BY <1>0
  <2> QED BY ONLY <2>1, <1>2, <1>3, <1>4, PageRanked
<1>6. x[k] \in S
  BY <1>0, PageOfWhole DEF Range
<1>7. {r \in S : <<r, x[k]>> \in R} = {r \in S : r > x[k]}
  BY <1>1, <1>6
<1> QED BY <1>5, <1>7 DEF Later

\* A page of what is selected.
LEMMA SelectedPaged ==
  ASSUME TablesOK, NEW t, t.op \in Ops \ {"chats"}, t.page \in Int, t.limit \in Int,
         skip(t.page, t.limit) \in Nat, NEW x, x = Slice(t.page, t.limit, InOrder(t))
  PROVE  /\ x \in Seq(DOMAIN table \cup Groups) /\ x \in Seq(Item)
         /\ Range(x) \subseteq Selected(t) /\ IsInjective(x)
         /\ Len(x) = Fitting(t.page, t.limit, Cardinality(Selected(t)))
         /\ x # <<>> => skip(t.page, t.limit) < Cardinality(Selected(t))
         /\ t.op # "groups" =>
              \A k \in DOMAIN x :
                Rank(t, Selected(t), x[k])
                  = Preceding(t.page, t.limit, Cardinality(Selected(t)), Len(x)) + k - 1
<1>1. PICK S : S = Selected(t)
  OBVIOUS
<1>2. PICK q : q = InOrder(t)
  OBVIOUS
<1>3. Enumerates(q, S)
      /\ (t.op # "groups" => \A i, j \in DOMAIN q : i < j => ~(q[j] > q[i]))
  BY <1>1, <1>2, SelectedEnumerated
<1>a. PICK page \in Int, limit \in Int : page = t.page /\ limit = t.limit
  OBVIOUS
<1>b. skip(page, limit) \in Nat /\ x = Slice(page, limit, q)
  BY <1>2, <1>a
<1>4. /\ x \in Seq(S) /\ Range(x) \subseteq S /\ IsInjective(x)
      /\ Len(x) = Fitting(page, limit, Cardinality(S))
      /\ x # <<>> => skip(page, limit) < Cardinality(S)
  BY <1>b, <1>3, PageOfWhole
<1>5. S \subseteq DOMAIN table \cup Groups /\ DOMAIN table \subseteq Nat
  BY <1>1, SelectedFinite, LiveRows
<1>6. x \in Seq(DOMAIN table \cup Groups) /\ x \in Seq(Item)
  BY <1>4, <1>5, SeqMonotonic DEF Item
<1>7. ASSUME t.op # "groups", NEW k \in DOMAIN x
      PROVE  Rank(t, S, x[k]) = Preceding(page, limit, Cardinality(S), Len(x)) + k - 1
  <2>1. S \subseteq Nat /\ IsFiniteSet(S)
    BY <1>1, <1>7, SelectedFinite, LiveRows
  <2>2. PageOfLatest(S, q, page, limit, x)
    BY <2>1, <1>3, <1>7, <1>a, <1>b DEF PageOfLatest
  <2>3. Later(S, x[k]) = Preceding(page, limit, Cardinality(S), Len(x)) + k - 1
    BY <2>2, <1>7, LatestPaged
  <2>4. Rank(t, S, x[k]) = Later(S, x[k])
    BY <1>7 DEF Rank, Ahead, Ops, Later
  <2> QED BY <2>3, <2>4
<1> QED BY <1>1, <1>a, <1>4, <1>6, <1>7

LEMMA FindAdvances ==
  ASSUME IInv, NEW h \in Handlers, Find(h)
  PROVE  Advance(h)
<1>1. PICK t \in Task : t = task[h]
  BY DEF IInv, TasksOK
<1>2. t.at = "find" /\ HandlerOK(t, since[h], stays[h]) /\ TablesOK
  BY <1>1 DEF IInv, Handlers_OK, Find, Awaits
<1>3. t.op \in Ops \ {"chats"} /\ t.user \in Users /\ t.page \in Int /\ t.limit \in Int
      /\ skip(t.page, t.limit) \in Nat
  BY <1>2 DEF HandlerOK, TypedOK, Task
<1>4. PICK x : x = Slice(t.page, t.limit, InOrder(t))
  OBVIOUS
<1>5. /\ x \in Seq(DOMAIN table \cup Groups) /\ x \in Seq(Item)
      /\ x # <<>> => skip(t.page, t.limit) < Cardinality(Selected(t))
  BY <1>2, <1>3, <1>4, SelectedPaged
<1>6. PICK r : r = [t EXCEPT !.at = "count", !.items = x]
  OBVIOUS
<1>7. r \in Task /\ r.at = "count" /\ r.op = t.op /\ r.user = t.user /\ r.with = t.with
      /\ r.page = t.page /\ r.limit = t.limit /\ r.items = x
  BY <1>5, <1>6 DEF Task, Calls
<1>8. task' = [task EXCEPT ![h] = r]
  BY <1>1, <1>4, <1>6 DEF Find
<1>9. Selected(r) = Selected(t) /\ InOrder(r) = InOrder(t)
  BY <1>7, SelectedSame
<1>10. TypedOK(r)
  BY <1>2, <1>3, <1>5, <1>7 DEF HandlerOK, TypedOK, Sorting
<1>11. PageOK(r, since[h])
  BY <1>4, <1>5, <1>7, <1>9 DEF PageOK
<1>12. GatheringOK(r, since[h], stays[h]) /\ AnswerOK(r, since[h], stays[h])
  BY <1>7 DEF GatheringOK, AnswerOK, Sorting
<1> QED BY <1>7, <1>8, <1>10, <1>11, <1>12 DEF Advance, HandlerOK

LEMMA CountAdvances ==
  ASSUME IInv, NEW h \in Handlers, Count(h)
  PROVE  Advance(h)
<1>1. PICK t \in Task : t = task[h]
  BY DEF IInv, TasksOK
<1>2. t.at = "count" /\ HandlerOK(t, since[h], stays[h]) /\ TablesOK
  BY <1>1 DEF IInv, Handlers_OK, Count, Awaits
<1>3. t.op \in Ops \ {"chats"} /\ t.user \in Users /\ t.page \in Int /\ t.limit \in Int
      /\ skip(t.page, t.limit) \in Nat
  BY <1>2 DEF HandlerOK, TypedOK, Task
<1>4. PICK n : n = Cardinality(Selected(t))
  OBVIOUS
<1>5. n \in Nat
  BY <1>2, <1>3, <1>4, SelectedFinite, FS_CardinalityType
<1>6. PICK r : r = [t EXCEPT !.at = "answered", !.total = n]
  OBVIOUS
<1>7. r \in Task /\ r.at = "answered" /\ r.op = t.op /\ r.user = t.user /\ r.with = t.with
      /\ r.page = t.page /\ r.limit = t.limit /\ r.items = t.items /\ r.total = n
  BY <1>5, <1>6 DEF Task, Calls
<1>8. task' = [task EXCEPT ![h] = r]
  BY <1>1, <1>4, <1>6 DEF Count
<1>9. RowsOf(r) = Selected(t)
  <2>1. RowsOf(r) = Selected(r)
    BY <1>2, <1>3, <1>7, RowsAreSelected DEF HandlerOK, TypedOK
  <2> QED BY <2>1, <1>7, SelectedSame
<1>10. TypedOK(r)
  BY <1>2, <1>3, <1>7 DEF HandlerOK, TypedOK, Sorting
<1>11. ASSUME since[h] = "none"  PROVE ExactAnswer(r)
  <2>1. t.items = Slice(t.page, t.limit, InOrder(t))
    BY <1>2, <1>11 DEF HandlerOK, PageOK
  <2>2. /\ Range(t.items) \subseteq Selected(t) /\ IsInjective(t.items)
        /\ Len(t.items) = Fitting(t.page, t.limit, n)
        /\ t.op # "groups" =>
             \A k \in DOMAIN t.items :
               Rank(t, Selected(t), t.items[k])
                 = Preceding(t.page, t.limit, n, Len(t.items)) + k - 1
    BY <2>1, <1>2, <1>3, <1>4, SelectedPaged
  <2>3. \A W, e : Rank(r, W, e) = Rank(t, W, e)
    BY <1>7 DEF Rank, Ahead
  <2> QED BY <2>2, <2>3, <1>3, <1>4, <1>7, <1>9 DEF ExactAnswer
<1>12. AnswerOK(r, since[h], stays[h])
  BY <1>2, <1>3, <1>4, <1>7, <1>11 DEF HandlerOK, PageOK, AnswerOK
<1>13. GatheringOK(r, since[h], stays[h]) /\ PageOK(r, since[h])
  BY <1>7 DEF GatheringOK, PageOK, Sorting
<1> QED BY <1>7, <1>8, <1>10, <1>12, <1>13 DEF Advance, HandlerOK

-----------------------------------------------------------------------------
(* The calls of a chat list.                                               *)

LEMMA GoAdvances ==
  ASSUME TablesOK, NEW h \in Handlers, NEW t \in Task, t.op = "chats", t.user \in Users,
         skip(t.page, t.limit) \in Nat, t.items \in Seq(Entry),
         Listing(t, since[h], stays[h]), stays[h] \subseteq Listed(t.user), Go(h, t)
  PROVE  Advance(h)
<1>1. CASE t.todo = <<>>
  <2>1. PICK n, x, r : /\ n = Len(t.items) /\ x = Slice(t.page, t.limit, allChats(Range(t.items)))
                       /\ r = Answered(t, n, x)
    OBVIOUS
  <2>2. r \in Task /\ HandlerOK(r, since[h], stays[h])
    BY <1>1, <2>1, ListAnswered
  <2>3. task' = [task EXCEPT ![h] = r]
    BY <1>1, <2>1 DEF Go, Answered
  <2> QED BY <2>2, <2>3 DEF Advance
<1>2. CASE t.todo # <<>>
  <2>1. PICK r : r = [t EXCEPT !.at = "last", !.last = 0]
    OBVIOUS
  <2>2. r \in Task /\ r.at = "last" /\ r.op = t.op /\ r.user = t.user
        /\ r.page = t.page /\ r.limit = t.limit /\ r.items = t.items /\ r.todo = t.todo
    BY <2>1 DEF Task, Calls
  <2>3. task' = [task EXCEPT ![h] = r]
    BY <1>2, <2>1 DEF Go
  <2>4. TypedOK(r)
    BY <1>2, <2>2 DEF TypedOK, Ops, Sorting
  <2>5. GatheringOK(r, since[h], stays[h])
    <3>1. Listing(r, since[h], stays[h])
      BY <2>2 DEF Listing, EachOnce
    <3> QED BY <2>2, <3>1 DEF GatheringOK
  <2>6. PageOK(r, since[h]) /\ AnswerOK(r, since[h], stays[h])
    BY <2>2 DEF PageOK, AnswerOK
  <2> QED BY <2>2, <2>3, <2>4, <2>5, <2>6 DEF Advance, HandlerOK
<1> QED BY <1>1, <1>2

\* What is known of a handler at one of the calls of a chat list.
LEMMA AtListCall ==
  ASSUME IInv, NEW h \in Handlers,
         task[h].at \in {"directMessages", "groupMessages"} \cup Sorting
  PROVE  /\ TablesOK /\ task[h] \in Task /\ HandlerOK(task[h], since[h], stays[h])
         /\ task[h].op = "chats" /\ task[h].user \in Users
         /\ skip(task[h].page, task[h].limit) \in Nat /\ task[h].items \in Seq(Entry)
         /\ stays[h] \subseteq Listed(task[h].user)
<1>1. TablesOK /\ task[h] \in Task /\ HandlerOK(task[h], since[h], stays[h])
  BY DEF IInv, TasksOK, Handlers_OK
<1> QED BY <1>1 DEF HandlerOK, TypedOK, GatheringOK, Sorting

LEMMA FindDirectAdvances ==
  ASSUME IInv, NEW h \in Handlers, FindDirect(h)
  PROVE  Advance(h)
<1>1. PICK t : t = task[h]
  OBVIOUS
<1>2. t.at = "directMessages"
  BY <1>1 DEF FindDirect, Awaits
<1>3. /\ TablesOK /\ t \in Task /\ HandlerOK(t, since[h], stays[h])
      /\ t.op = "chats" /\ t.user \in Users /\ skip(t.page, t.limit) \in Nat
      /\ t.items \in Seq(Entry) /\ stays[h] \subseteq Listed(t.user)
  BY <1>1, <1>2, AtListCall DEF Sorting
<1>4. PICK q : q = uniqueUserIds(t.user)
  OBVIOUS
<1>5. q \in Seq(Partners(t.user)) /\ Range(q) = Partners(t.user) /\ IsInjective(q)
  BY <1>3, <1>4, PartnersSorted DEF Enumerates
<1>6. Partners(t.user) \subseteq Receivers /\ GroupsWith(t.user) \subseteq Groups
  BY DEF Partners, GroupsWith
<1>7. q \in Seq(Conversations)
  BY <1>5, <1>6, SeqMonotonic DEF Conversations
<1>8. PICK r : r = [t EXCEPT !.at = "groupMessages", !.todo = q]
  OBVIOUS
<1>9. r \in Task /\ r.at = "groupMessages" /\ r.op = t.op /\ r.user = t.user
      /\ r.page = t.page /\ r.limit = t.limit /\ r.items = t.items /\ r.todo = q
  BY <1>3, <1>7, <1>8 DEF Task, Calls
<1>10. task' = [task EXCEPT ![h] = r]
  BY <1>1, <1>4, <1>8 DEF FindDirect
<1>11. t.items = <<>>
  BY <1>2, <1>3 DEF HandlerOK, TypedOK
<1>12. TypedOK(r)
  BY <1>3, <1>9, <1>11 DEF TypedOK, Ops, Sorting
<1>13. GatheringOK(r, since[h], stays[h])
  <2>1. stays[h] \cap Users \subseteq Range(q)
    BY <1>3, <1>5, <1>6, ListAssumption DEF Listed
  <2> QED BY <1>3, <1>5, <1>6, <1>9, <2>1 DEF GatheringOK, Sorting
<1>14. PageOK(r, since[h]) /\ AnswerOK(r, since[h], stays[h])
  BY <1>9 DEF PageOK, AnswerOK
<1> QED BY <1>9, <1>10, <1>12, <1>13, <1>14 DEF Advance, HandlerOK

\* Two lists of different conversations, one after the other.
LEMMA TwoLists ==
  ASSUME NEW S, NEW p \in Seq(S), NEW q \in Seq(S), IsInjective(p), IsInjective(q),
         Range(p) \cap Range(q) = {}
  PROVE  p \o q \in Seq(S) /\ Range(p \o q) = Range(p) \cup Range(q) /\ IsInjective(p \o q)
<1>1. PICK s : s = p \o q
  OBVIOUS
<1>2. PICK m \in Nat, n \in Nat : m = Len(p) /\ n = Len(q)
  BY LenProperties
<1>3. s \in Seq(S) /\ Len(s) = m + n
      /\ \A i \in 1..(m + n) : s[i] = IF i <= m THEN p[i] ELSE q[i - m]
  BY <1>1, <1>2, ConcatProperties
<1>4. DOMAIN s = 1..(m + n) /\ DOMAIN p = 1..m /\ DOMAIN q = 1..n
  BY <1>2, <1>3, LenProperties
<1>5. \A i \in DOMAIN s : \/ i \in DOMAIN p /\ s[i] = p[i]
                          \/ i - m \in DOMAIN q /\ s[i] = q[i - m] /\ i \in Nat
  <2> TAKE i \in DOMAIN s
  <2>1. i \in Nat /\ (i <= m => i \in 1..m) /\ (~(i <= m) => i - m \in 1..n)
    BY <1>4
  <2> QED BY <2>1, <1>3, <1>4
<1>6. \A i \in DOMAIN p : p[i] \in Range(p)
  BY DEF Range
<1>7. \A i \in DOMAIN q : q[i] \in Range(q)
  BY DEF Range
<1>8. ASSUME NEW i \in DOMAIN s, NEW j \in DOMAIN s, s[i] = s[j]  PROVE i = j
  <2>1. CASE i \in DOMAIN p /\ s[i] = p[i] /\ j \in DOMAIN p /\ s[j] = p[j]
    BY <2>1, <1>8 DEF IsInjective
  <2>2. CASE i - m \in DOMAIN q /\ s[i] = q[i - m] /\ j - m \in DOMAIN q /\ s[j] = q[j - m]
             /\ i \in Nat /\ j \in Nat
    <3>1. i - m = j - m
      BY <2>2, <1>8 DEF IsInjective
    <3> QED BY <3>1, <2>2
  <2> QED BY <2>1, <2>2, <1>5, <1>6, <1>7, <1>8
<1>9. IsInjective(s)
  BY <1>8 DEF IsInjective
<1> QED BY <1>1, <1>3, <1>9, RangeConcatenation

LEMMA FindGroupMessagesAdvances ==
  ASSUME IInv, NEW h \in Handlers, FindGroupMessages(h)
  PROVE  Advance(h)
<1>1. PICK t : t = task[h]
  OBVIOUS
<1>2. t.at = "groupMessages"
  BY <1>1 DEF FindGroupMessages, Awaits
<1>3. /\ TablesOK /\ t \in Task /\ HandlerOK(t, since[h], stays[h])
      /\ t.op = "chats" /\ t.user \in Users /\ skip(t.page, t.limit) \in Nat
      /\ t.items \in Seq(Entry) /\ stays[h] \subseteq Listed(t.user)
  BY <1>1, <1>2, AtListCall DEF Sorting
<1>4. PICK q : q = uniqueGroupIds(t.user)
  OBVIOUS
<1>5. q \in Seq(GroupsWith(t.user)) /\ Range(q) = GroupsWith(t.user) /\ IsInjective(q)
  BY <1>3, <1>4, GroupsSorted DEF Enumerates
<1>6. Partners(t.user) \subseteq Receivers /\ GroupsWith(t.user) \subseteq Groups
  BY DEF Partners, GroupsWith
<1>7. q \in Seq(Conversations) /\ t.todo \in Seq(Conversations)
  BY <1>3, <1>5, <1>6, SeqMonotonic DEF Conversations, Task
<1>8. /\ IsInjective(t.todo) /\ Range(t.todo) \subseteq Receivers
      /\ stays[h] \cap Users \subseteq Range(t.todo)
      /\ since[h] = "none" => Range(t.todo) = Partners(t.user)
  BY <1>2, <1>3 DEF HandlerOK, GatheringOK
<1>9. PICK s : s = t.todo \o q
  OBVIOUS
<1>10. s \in Seq(Conversations) /\ Range(s) = Range(t.todo) \cup GroupsWith(t.user)
       /\ IsInjective(s)
  <2>1. Range(t.todo) \cap Range(q) = {}
    BY <1>5, <1>6, <1>8, ListAssumption DEF Receivers
  <2> QED BY <2>1, <1>5, <1>7, <1>8, <1>9, TwoLists
<1>11. PICK r : r = [t EXCEPT !.at = "groups", !.todo = s]
  OBVIOUS
<1>12. r \in Task /\ r.at = "groups" /\ r.op = t.op /\ r.user = t.user
      /\ r.page = t.page /\ r.limit = t.limit /\ r.items = t.items /\ r.todo = s
  BY <1>3, <1>10, <1>11 DEF Task, Calls
<1>13. task' = [task EXCEPT ![h] = r]
  BY <1>1, <1>4, <1>9, <1>11 DEF FindGroupMessages
<1>14. t.items = <<>>
  BY <1>2, <1>3 DEF HandlerOK, TypedOK
<1>15. TypedOK(r)
  BY <1>3, <1>12 DEF TypedOK, Ops, Sorting
<1>16. Listing(r, since[h], stays[h])
  <2>1. Withs(r.items) = {} /\ DOMAIN r.items = {}
    BY <1>12, <1>14 DEF Withs
  <2>2. EachOnce(r)
    BY <2>1, <1>10, <1>12 DEF EachOnce
  <2>3. stays[h] \subseteq Range(s)
    BY <1>3, <1>6, <1>8, <1>10 DEF Listed, Receivers
  <2>4. since[h] = "none" => Range(s) \ Strangers = Listed(t.user)
    BY <1>8, <1>10, ListedAre DEF ConversationsOf
  <2> QED BY <2>1, <2>2, <2>3, <2>4, <1>12 DEF Listing
<1>17. GatheringOK(r, since[h], stays[h])
  BY <1>3, <1>12, <1>16 DEF GatheringOK
<1>18. PageOK(r, since[h]) /\ AnswerOK(r, since[h], stays[h])
  BY <1>12 DEF PageOK, AnswerOK
<1> QED BY <1>12, <1>13, <1>15, <1>17, <1>18 DEF Advance, HandlerOK

LEMMA FindGroupsAdvances ==
  ASSUME IInv, NEW h \in Handlers, FindGroups(h)
  PROVE  Advance(h)
<1>1. task[h].at = "groups" /\ Go(h, task[h])
  BY DEF FindGroups, Awaits
<1>2. task[h].at \in {"directMessages", "groupMessages"} \cup Sorting
  BY <1>1 DEF Sorting
<1>3. Listing(task[h], since[h], stays[h])
  BY <1>1, <1>2, AtListCall DEF HandlerOK, GatheringOK, Sorting
<1> QED BY <1>1, <1>2, <1>3, AtListCall, GoAdvances

LEMMA FindLastAdvances ==
  ASSUME IInv, NEW h \in Handlers, FindLast(h)
  PROVE  Advance(h)
<1>1. PICK t : t = task[h]
  OBVIOUS
<1>2. t.at = "last"
  BY <1>1 DEF FindLast, Awaits
<1>3. /\ TablesOK /\ t \in Task /\ HandlerOK(t, since[h], stays[h])
      /\ t.op = "chats" /\ t.user \in Users /\ skip(t.page, t.limit) \in Nat
      /\ t.items \in Seq(Entry) /\ stays[h] \subseteq Listed(t.user)
  BY <1>1, <1>2, AtListCall DEF Sorting
<1>4. t.todo \in Seq(Conversations) /\ t.todo # <<>> /\ Listing(t, since[h], stays[h])
  BY <1>2, <1>3 DEF HandlerOK, TypedOK, GatheringOK, Sorting, Task
<1>5. PICK c : c = Head(t.todo)
  OBVIOUS
<1>6. c \in Conversations /\ Tail(t.todo) \in Seq(Conversations)
      /\ Range(t.todo) = {c} \cup Range(Tail(t.todo))
      /\ (IsInjective(t.todo) => IsInjective(Tail(t.todo)) /\ c \notin Range(Tail(t.todo)))
  BY <1>4, <1>5, HeadLeaves
<1>7. CASE In(t.user, c) = {}
  <2>1. c \notin Listed(t.user)
    BY <1>3, <1>7, ListedAre, ConversationsHaveMessages
  <2>2. PICK r : r = [t EXCEPT !.todo = Tail(t.todo)]
    OBVIOUS
  <2>3. r \in Task /\ r.op = t.op /\ r.user = t.user
        /\ r.page = t.page /\ r.limit = t.limit /\ r.items = t.items /\ r.todo = Tail(t.todo)
    BY <1>3, <1>6, <2>2 DEF Task
  <2>4. Go(h, r)
    BY <1>1, <1>5, <1>7, <2>2 DEF FindLast
  <2>5. since[h] = "none" => c \in Strangers
    BY <1>4, <1>6, <2>1 DEF Listing
  <2>6. EachOnce(r)
    BY <1>4, <1>6, <2>3 DEF Listing, EachOnce
  <2>7. Listing(r, since[h], stays[h])
    BY <1>3, <1>4, <1>6, <2>1, <2>3, <2>5, <2>6 DEF Listing
  <2> QED BY <1>3, <2>3, <2>4, <2>7, GoAdvances
<1>8. CASE In(t.user, c) # {}
  <2>1. PICK n : n = Newest(In(t.user, c))
    OBVIOUS
  <2>2. n \in DOMAIN table /\ n \in Nat
    BY <1>3, <1>8, <2>1, InIsLive, NewestIsLive, LiveRows
  <2>3. PICK r : r = [t EXCEPT !.at = "unread", !.last = n]
    OBVIOUS
  <2>4. r \in Task /\ r.at = "unread" /\ r.op = t.op /\ r.user = t.user /\ r.last = n
        /\ r.page = t.page /\ r.limit = t.limit /\ r.items = t.items /\ r.todo = t.todo
    BY <1>3, <2>2, <2>3 DEF Task, Calls
  <2>5. task' = [task EXCEPT ![h] = r]
    BY <1>1, <1>5, <1>8, <2>1, <2>3 DEF FindLast
  <2>6. TypedOK(r)
    BY <1>3, <1>4, <2>2, <2>4 DEF TypedOK, Ops, Sorting
  <2>7. Listing(r, since[h], stays[h])
    BY <1>4, <2>4 DEF Listing, EachOnce
  <2>8. GatheringOK(r, since[h], stays[h])
    BY <1>3, <1>5, <2>1, <2>4, <2>7 DEF GatheringOK
  <2>9. PageOK(r, since[h]) /\ AnswerOK(r, since[h], stays[h])
    BY <2>4 DEF PageOK, AnswerOK
  <2> QED BY <2>4, <2>5, <2>6, <2>8, <2>9 DEF Advance, HandlerOK
<1> QED BY <1>7, <1>8

LEMMA CountUnreadAdvances ==
  ASSUME IInv, NEW h \in Handlers, CountUnread(h)
  PROVE  Advance(h)
<1>1. PICK t : t = task[h]
  OBVIOUS
<1>2. t.at = "unread"
  BY <1>1 DEF CountUnread, Awaits
<1>3. /\ TablesOK /\ t \in Task /\ HandlerOK(t, since[h], stays[h])
      /\ t.op = "chats" /\ t.user \in Users /\ skip(t.page, t.limit) \in Nat
      /\ t.items \in Seq(Entry) /\ stays[h] \subseteq Listed(t.user)
  BY <1>1, <1>2, AtListCall DEF Sorting
<1>4. t.todo \in Seq(Conversations) /\ t.todo # <<>> /\ Listing(t, since[h], stays[h])
      /\ t.last \in DOMAIN table
      /\ (since[h] = "none" => t.last = Newest(In(t.user, Head(t.todo))))
  BY <1>2, <1>3 DEF HandlerOK, TypedOK, GatheringOK, Sorting, Task
<1>5. PICK c : c = Head(t.todo)
  OBVIOUS
<1>6. c \in Conversations /\ Tail(t.todo) \in Seq(Conversations)
      /\ Range(t.todo) = {c} \cup Range(Tail(t.todo))
      /\ (IsInjective(t.todo) => IsInjective(Tail(t.todo)) /\ c \notin Range(Tail(t.todo)))
  BY <1>4, <1>5, HeadLeaves
<1>7. PICK r : r = [t EXCEPT !.todo = Tail(t.todo),
          !.items = IF c \in Strangers THEN t.items ELSE
            Append(t.items, [with |-> c, last |-> t.last,
                             unread |-> Cardinality(Unread(t.user, c))])]
  OBVIOUS
<1>8. Go(h, r)
  BY <1>1, <1>5, <1>7 DEF CountUnread
<1>9. SUFFICES ASSUME TRUE
               PROVE  /\ r \in Task /\ r.op = t.op /\ r.user = t.user /\ r.page = t.page
                      /\ r.limit = t.limit /\ r.items \in Seq(Entry)
                      /\ Listing(r, since[h], stays[h])
  BY <1>3, <1>8, GoAdvances
<1>10. CASE c \in Strangers
  <2>1. r = [t EXCEPT !.todo = Tail(t.todo)]
    BY <1>3, <1>7, <1>10 DEF Task
  <2>2. r \in Task /\ r.op = t.op /\ r.user = t.user /\ r.page = t.page
        /\ r.limit = t.limit /\ r.items = t.items /\ r.todo = Tail(t.todo)
    BY <1>3, <1>6, <2>1 DEF Task
  <2>3. EachOnce(r)
    BY <1>4, <1>6, <2>2 DEF Listing, EachOnce
  <2>4. c \notin Listed(t.user)
    BY <1>10, ListedAre
  <2>5. Listing(r, since[h], stays[h])
    BY <1>3, <1>4, <1>6, <1>10, <2>2, <2>3, <2>4 DEF Listing
  <2> QED BY <1>3, <2>2, <2>5
<1>11. CASE c \notin Strangers
  <2>1. PICK e : e = [with |-> c, last |-> t.last, unread |-> Cardinality(Unread(t.user, c))]
    OBVIOUS
  <2>2. e \in Entry /\ e.with = c /\ (since[h] = "none" => e = EntryOf(t.user, c))
    <3>1. c \in Users \cup Groups
      BY <1>6, <1>11 DEF Conversations, Receivers
    <3>2. e \in Entry /\ e.with = c
      BY <1>3, <1>4, <2>1, <3>1, EntryType
    <3>3. since[h] = "none" => e = EntryOf(t.user, c)
      BY <1>4, <1>5, <2>1 DEF EntryOf
    <3> QED BY <3>2, <3>3
  <2>3. c \notin Withs(t.items)
        /\ \A j, k \in DOMAIN t.items : t.items[j].with = t.items[k].with => j = k
    BY <1>4, <1>6 DEF Listing, EachOnce
  <2>4. PICK x : x = Append(t.items, e)
    OBVIOUS
  <2>5. /\ x \in Seq(Entry) /\ Withs(x) = Withs(t.items) \cup {c}
        /\ \A j, k \in DOMAIN x : x[j].with = x[k].with => j = k
        /\ \A k \in DOMAIN x : x[k] = e \/ (k \in DOMAIN t.items /\ x[k] = t.items[k])
    BY <1>3, <2>2, <2>3, <2>4, EntryJoins
  <2>6. r = [t EXCEPT !.todo = Tail(t.todo), !.items = x]
    BY <1>7, <1>11, <2>1, <2>4
  <2>7. r \in Task /\ r.op = t.op /\ r.user = t.user /\ r.page = t.page
        /\ r.limit = t.limit /\ r.items = x /\ r.todo = Tail(t.todo)
    <3>1. x \in Seq(Item)
      BY <2>5, SeqOfEntries
    <3> QED BY <3>1, <1>3, <1>6, <2>6 DEF Task
  <2>8. EachOnce(r)
    BY <1>4, <1>6, <2>5, <2>7 DEF Listing, EachOnce
  <2>9. ASSUME since[h] = "none", NEW k \in DOMAIN x
        PROVE  x[k] = EntryOf(t.user, x[k].with)
    <3>1. CASE x[k] = e
      BY <3>1, <2>2, <2>9
    <3>2. CASE k \in DOMAIN t.items /\ x[k] = t.items[k]
      BY <3>2, <1>4, <2>9 DEF Listing
    <3> QED BY <3>1, <3>2, <2>5
  <2>10. Range(r.todo) \cup Withs(r.items) = Range(t.todo) \cup Withs(t.items)
    BY <1>6, <2>5, <2>7
  <2>11. Listing(r, since[h], stays[h])
    BY <2>10, <1>4, <2>7, <2>8, <2>9 DEF Listing
  <2> QED BY <2>5, <2>7, <2>11
<1> QED BY <1>10, <1>11

-----------------------------------------------------------------------------
(* A query begins or fails.                                                *)

LEMMA IdleOK ==
  ASSUME NEW s, NEW st
  PROVE  Idle \in Task /\ HandlerOK(Idle, s, st)
<1>1. Idle \in Task
  <2>1. <<>> \in Seq(Conversations) /\ <<>> \in Seq(Item)
    BY EmptySeq
  <2> QED BY <2>1 DEF Idle, Task, Conversations
<1>2. TypedOK(Idle)
  BY DEF Idle, TypedOK, Ops, Sorting
<1>3. GatheringOK(Idle, s, st) /\ PageOK(Idle, s) /\ AnswerOK(Idle, s, st)
  BY DEF Idle, GatheringOK, PageOK, AnswerOK, Sorting
<1> QED BY <1>1, <1>2, <1>3 DEF HandlerOK

LEMMA AbortKeepsIInv ==
  ASSUME IInv, NEW h \in Handlers, Abort(h)
  PROVE  IInv'
<1>1. Advance(h)
  BY IdleOK DEF Abort, Advance
<1> QED BY <1>1, AdvanceKeepsIInv DEF Abort

LEMMA BeginKeepsIInv ==
  ASSUME IInv, NEW h \in Handlers, NEW op \in Ops, NEW call \in {"directMessages", "find"},
         op = "chats" <=> call = "directMessages",
         NEW u \in Users, NEW with \in Conversations \cup Texts \cup {NoUser},
         op = "group" => with \in Groups, op = "direct" => with \in Receivers,
         Begin(h, op, call, u, with)
  PROVE  IInv'
<1>1. PICK page \in Pages, limit \in Limits :
        task' = [task EXCEPT ![h] = IF skip(page, limit) < 0 THEN Idle ELSE
          [Idle EXCEPT !.op = op, !.at = call, !.user = u, !.with = with,
                       !.page = page, !.limit = limit]]
  BY DEF Begin
<1>2. PICK st : st = IF op = "chats" THEN Listed(u) ELSE {}
  OBVIOUS
<1>p. page \in Int /\ limit \in Int /\ skip(page, limit) \in Int
  <2>1. page \in Int /\ limit \in Int
    BY ListAssumption
  <2>2. (page - 1) * limit \in Int
    BY <2>1
  <2> QED BY <2>1, <2>2 DEF skip
<1>3. /\ since' = [since EXCEPT ![h] = "none"] /\ stays' = [stays EXCEPT ![h] = st]
      /\ UNCHANGED tables
  BY <1>2 DEF Begin
<1>4. PICK t : t = IF skip(page, limit) < 0 THEN Idle ELSE
          [Idle EXCEPT !.op = op, !.at = call, !.user = u, !.with = with,
                       !.page = page, !.limit = limit]
  OBVIOUS
<1>5. st \subseteq Listed(u) /\ st \subseteq Conversations
  BY <1>2, ListedAre
<1>6. t \in Task /\ HandlerOK(t, "none", st)
  <2>1. CASE skip(page, limit) < 0
    BY <2>1, <1>4, IdleOK
  <2>2. CASE ~(skip(page, limit) < 0)
    <3>1. skip(page, limit) \in Nat
      BY <2>2, <1>p
    <3>2. t = [Idle EXCEPT !.op = op, !.at = call, !.user = u, !.with = with,
                           !.page = page, !.limit = limit]
      BY <2>2, <1>4
    <3>3. t \in Task /\ t.op = op /\ t.at = call /\ t.user = u /\ t.with = with
          /\ t.page = page /\ t.limit = limit /\ t.items = <<>> /\ t.todo = <<>>
      <4>1. Idle \in Task
        BY IdleOK
      <4>2. t.op = op /\ t.at = call /\ t.user = u /\ t.with = with
          /\ t.page = page /\ t.limit = limit /\ t.items = <<>> /\ t.todo = <<>>
        BY <3>2 DEF Idle
      <4> QED BY <4>1, <4>2, <1>p, <3>2 DEF Task, Calls
    <3>4. TypedOK(t)
      <4>1. <<>> \in Seq(Entry) /\ <<>> \in Seq(DOMAIN table \cup Groups)
        BY EmptySeq
      <4> QED BY <3>1, <3>3, <4>1 DEF TypedOK, Sorting
    <3>5. GatheringOK(t, "none", st) /\ PageOK(t, "none") /\ AnswerOK(t, "none", st)
      BY <3>3, <1>5 DEF GatheringOK, PageOK, AnswerOK, Sorting
    <3> QED BY <3>3, <3>4, <3>5 DEF HandlerOK
  <2> QED BY <2>1, <2>2
<1>7. task' = [task EXCEPT ![h] = t]
  BY <1>1, <1>4
<1>8. task \in [Handlers -> Task] /\ since \in [Handlers -> {"none", "added", "removed"}]
      /\ stays \in [Handlers -> SUBSET Conversations]
  BY DEF IInv, TasksOK, HistoriesOK
<1>9. TablesOK' /\ TasksOK' /\ HistoriesOK'
  BY <1>3, <1>5, <1>6, <1>7, <1>8, TablesStable DEF IInv, TasksOK, HistoriesOK
<1>10. ASSUME NEW k \in Handlers  PROVE HandlerOK(task[k], since[k], stays[k])'
  <2>1. PICK tk, sk, sty : tk = task'[k] /\ sk = since'[k] /\ sty = stays'[k]
    OBVIOUS
  <2>2. HandlerOK(tk, sk, sty)
    <3>1. CASE k = h
      BY <3>1, <2>1, <1>3, <1>6, <1>7, <1>8
    <3>2. CASE k # h
      BY <3>2, <2>1, <1>3, <1>7, <1>8 DEF IInv, Handlers_OK
    <3> QED BY <3>1, <3>2
  <2>3. HandlerOK(tk, sk, sty)'
    BY <2>2, <1>3, HandlerStable
  <2> QED BY <2>1, <2>3
<1> QED BY <1>9, <1>10 DEF IInv, Handlers_OK

LEMMA StartKeepsIInv ==
  ASSUME IInv, NEW h \in Handlers, Start(h)
  PROVE  IInv'
<1>1. CASE StartChats(h)
  BY <1>1, BeginKeepsIInv DEF StartChats, Ops, Conversations
<1>2. CASE StartGroupMessages(h)
  BY <1>2, BeginKeepsIInv DEF StartGroupMessages, Ops, Conversations
<1>3. CASE StartDirectMessages(h)
  BY <1>3, BeginKeepsIInv DEF StartDirectMessages, Ops, Conversations, Receivers
<1>4. CASE StartSearch(h)
  BY <1>4, BeginKeepsIInv DEF StartSearch, Ops, Conversations
<1>5. CASE StartUserGroups(h)
  BY <1>5, BeginKeepsIInv DEF StartUserGroups, Ops, Conversations
<1> QED BY <1>1, <1>2, <1>3, <1>4, <1>5 DEF Start

LEMMA CallMoves ==
  ASSUME IInv, NEW h \in Handlers, Call(h)
  PROVE  Advance(h)
BY FindAdvances, CountAdvances, FindDirectAdvances, FindGroupMessagesAdvances,
   FindGroupsAdvances, FindLastAdvances, CountUnreadAdvances DEF Call

LEMMA CallKeepsIInv ==
  ASSUME IInv, NEW h \in Handlers, Call(h)
  PROVE  IInv'
<1>1. Advance(h)
  BY CallMoves
<1>2. UNCHANGED <<tables, history>>
  BY DEF Call, Find, Count, FindDirect, FindGroupMessages, FindGroups, FindLast,
         CountUnread, Awaits
<1> QED BY <1>1, <1>2, AdvanceKeepsIInv

-----------------------------------------------------------------------------
(* Others write.                                                           *)

\* Whatever a list selects it still selects.
Grows ==
  /\ members \subseteq members' /\ groups \subseteq groups'
  /\ \A i \in Live : i \in Live' /\ table'[i].from = table[i].from
                     /\ table'[i].to = table[i].to /\ table'[i].group = table[i].group
                     /\ table[i].has \subseteq table'[i].has

LEMMA SelectedGrows ==
  ASSUME Grows, NEW t, t.op \in Ops \ {"chats"}
  PROVE  Selected(t) \subseteq Selected(t)'
<1>1. \A g : InGroup(g) \subseteq InGroup(g)'
  BY DEF Grows, InGroup
<1>2. \A u, v : Between(u, v) \subseteq Between(u, v)'
  BY DEF Grows, Between, SentTo
<1>3. \A u : Of(u) \subseteq Of(u)'
  BY DEF Grows, Of
<1>4. \A u : GroupsOf(u) \subseteq GroupsOf(u)'
  BY DEF Grows, GroupsOf
<1>5. \A u, text : Found(u, text) \subseteq Found(u, text)'
  BY <1>3 DEF Grows, Found, Of
<1> QED BY <1>1, <1>2, <1>4, <1>5 DEF Selected, Ops

ListsFinite == \A t : t.op \in Ops \ {"chats"} => IsFiniteSet(Selected(t))

LEMMA AlwaysFinite ==
  TablesOK => ListsFinite
BY SelectedFinite DEF ListsFinite

LEMMA WrittenKeepsIInv ==
  ASSUME IInv, TablesOK', NEW kind \in {"added", "removed"}, Written(kind),
         DOMAIN table \subseteq DOMAIN table', kind = "added" => Grows
  PROVE  IInv'
<1>1. task' = task /\ TasksOK /\ HistoriesOK
  BY DEF Written, IInv
<1>2. TasksOK'
  BY <1>1 DEF TasksOK
<1>3. ASSUME NEW k \in Handlers
      PROVE  /\ since'[k] = IF task[k].at = "idle" \/ since[k] = "removed"
                            THEN since[k] ELSE kind
             /\ stays'[k] \subseteq stays[k]
             /\ task[k].at \in {"idle", "answered"} => stays'[k] = stays[k]
             /\ task[k].at \notin {"idle", "answered"} =>
                  stays'[k] \subseteq Listed(task[k].user)'
  BY <1>1 DEF Written
<1>4. HistoriesOK'
  <2>1. since' = [k \in Handlers |-> since'[k]] /\ stays' = [k \in Handlers |-> stays'[k]]
    BY DEF Written
  <2>2. \A k \in Handlers : since'[k] \in {"none", "added", "removed"}
                            /\ stays'[k] \in SUBSET Conversations
    BY <1>1, <1>3 DEF HistoriesOK
  <2> QED BY <2>1, <2>2 DEF HistoriesOK
<1>5. ASSUME NEW k \in Handlers  PROVE HandlerOK(task[k], since[k], stays[k])'
  <2>1. PICK t, s, st : t = task[k] /\ s = since[k] /\ st = stays[k]
    OBVIOUS
  <2>2. PICK sn, stn : sn = since'[k] /\ stn = stays'[k]
    OBVIOUS
  <2>3. HandlerOK(t, s, st) /\ t \in Task
    BY <2>1, <1>1 DEF IInv, Handlers_OK, TasksOK
  <2>4. /\ sn = IF t.at = "idle" \/ s = "removed" THEN s ELSE kind
        /\ stn \subseteq st
        /\ t.at = "answered" => stn = st
        /\ t.at \notin {"idle", "answered"} => stn \subseteq Listed(t.user)'
    <3>1. \A u : u = task[k].user => Listed(u)' = Listed(task[k].user)'
      BY <1>1
    <3> QED BY <2>1, <2>2, <1>3, <3>1
  <2>5. t.at # "idle" => sn # "none" /\ (sn # "removed" => s # "removed" /\ kind = "added")
    BY <2>4
  <2>6. TypedOK(t)'
    <3>1. t.items \in Seq(DOMAIN table \cup Groups) => t.items \in Seq(DOMAIN table' \cup Groups)
      BY SeqMonotonic
    <3> QED BY <2>3, <3>1 DEF HandlerOK, TypedOK
  <2>7. GatheringOK(t, sn, stn)'
    <3>1. t.at \in Sorting => Listing(t, sn, stn)'
      BY <2>3, <2>4, <2>5 DEF HandlerOK, GatheringOK, Listing, EachOnce, Sorting
    <3> QED BY <2>3, <2>4, <2>5, <3>1 DEF HandlerOK, GatheringOK, Sorting
  <2>8. PageOK(t, sn)'
    <3> SUFFICES ASSUME t.at = "count", sn # "removed", t.items # <<>>
                 PROVE  (skip(t.page, t.limit) < Cardinality(Selected(t)))'
      BY <2>5 DEF PageOK
    <3>1. t.op \in Ops \ {"chats"} /\ skip(t.page, t.limit) \in Nat
      BY <2>3 DEF HandlerOK, TypedOK, Task
    <3>2. skip(t.page, t.limit) < Cardinality(Selected(t)) /\ Grows
      BY <2>3, <2>5 DEF HandlerOK, PageOK
    <3>3. Selected(t) \subseteq Selected(t)' /\ IsFiniteSet(Selected(t)')
      <4>1. TablesOK' => ListsFinite'
        BY AlwaysFinite, PTL
      <4> QED BY <4>1, <3>1, <3>2, SelectedGrows DEF ListsFinite
    <3>4. IsFiniteSet(Selected(t)) /\ Cardinality(Selected(t)) <= Cardinality(Selected(t)')
      BY <3>3, FS_Subset
    <3>5. Cardinality(Selected(t)) \in Nat /\ Cardinality(Selected(t)') \in Nat
      BY <3>3, <3>4, FS_CardinalityType
    <3> QED BY <3>1, <3>2, <3>4, <3>5 DEF skip
  <2>9. AnswerOK(t, sn, stn)'
    BY <2>3, <2>4, <2>5 DEF HandlerOK, AnswerOK, LosesNone, skip
  <2>10. HandlerOK(t, sn, stn)'
    BY <2>6, <2>7, <2>8, <2>9 DEF HandlerOK
  <2> QED BY <2>1, <2>2, <2>10, <1>1
<1> QED BY <1>2, <1>4, <1>5 DEF IInv, Handlers_OK

\* No message is Gone, which is from nobody.
LEMMA GoneIsNone ==
  /\ \A m \in Message : m # Gone /\ m.group \in Groups \cup {NoGroup}
  /\ Gone \notin Message
BY ListAssumption DEF Message, Gone

LEMMA sendKeepsIInv ==
  ASSUME IInv, send
  PROVE  IInv'
<1>1. PICK from \in Users, to \in Receivers \cup {NoUser}, g \in groups \cup {NoGroup},
           seen \in BOOLEAN, has \in SUBSET Texts :
        table' = Append(table, [from |-> from, to |-> to, group |-> g, seen |-> seen,
                                has |-> has])
  BY DEF send
<1>2. PICK m : m = [from |-> from, to |-> to, group |-> g, seen |-> seen, has |-> has]
  OBVIOUS
<1>3. Len(table) < MaxMessages /\ UNCHANGED <<members, groups>> /\ Written("added") /\ TablesOK
  BY DEF send, IInv
<1>4. m \in Message /\ m # Gone /\ m.group = g
  BY <1>2, <1>3, GoneIsNone DEF Message, TablesOK
<1> PICK n \in Nat : n = Len(table)
  BY <1>3, LiveRows
<1>5. /\ table' \in Seq(Message \cup {Gone}) /\ Len(table') = n + 1
      /\ \A i \in 1..n : table'[i] = table[i]
      /\ table'[n + 1] = m
  BY <1>1, <1>2, <1>3, <1>4, AppendProperties DEF TablesOK
<1>6. DOMAIN table = 1..n /\ DOMAIN table' = 1..(n + 1)
  BY <1>3, <1>5, LiveRows, LenProperties
<1>7. 1..n \subseteq 1..(n + 1) /\ \A i \in 1..(n + 1) : i \in 1..n \/ i = n + 1
  OBVIOUS
<1>8. \A i \in Live : i \in Live' /\ table'[i] = table[i]
  BY <1>5, <1>6, <1>7 DEF Live
<1>9. \A i \in Live' : (i \in Live /\ table'[i] = table[i]) \/ table'[i] = m
  BY <1>5, <1>6, <1>7 DEF Live
<1>10. TablesOK'
  <2>1. Len(table') <= MaxMessages
    BY <1>3, <1>5, ListAssumption
  <2>2. \A i \in Live' : table'[i].group \in groups' \cup {NoGroup}
    BY <1>3, <1>4, <1>9 DEF TablesOK
  <2> QED BY <2>1, <2>2, <1>3, <1>5 DEF TablesOK
<1>11. Grows
  BY <1>3, <1>8 DEF Grows
<1> QED BY <1>3, <1>6, <1>7, <1>10, <1>11, WrittenKeepsIInv

LEMMA markKeepsIInv ==
  ASSUME IInv, mark
  PROVE  IInv'
<1>1. PICK i \in Live, seen \in BOOLEAN : table' = [table EXCEPT ![i].seen = seen]
  BY DEF mark
<1>2. UNCHANGED <<members, groups>> /\ Written("added") /\ TablesOK
  BY DEF mark, IInv
<1>3. i \in 1..Len(table) /\ table[i] \in Message
  BY <1>2, LiveRows
<1>4. PICK m : m = [table[i] EXCEPT !.seen = seen]
  OBVIOUS
<1>5. m \in Message /\ m.from = table[i].from /\ m.to = table[i].to
      /\ m.group = table[i].group /\ m.has = table[i].has
  BY <1>3, <1>4 DEF Message
<1>6. table' = [table EXCEPT ![i] = m]
  BY <1>1, <1>4
<1>7. /\ table' \in Seq(Message \cup {Gone}) /\ Len(table') = Len(table)
      /\ DOMAIN table' = DOMAIN table
      /\ \A j \in DOMAIN table : table'[j] = IF j = i THEN m ELSE table[j]
  BY <1>2, <1>3, <1>5, <1>6 DEF TablesOK
<1>8. \A j \in Live : j \in Live' /\ table'[j].from = table[j].from
                      /\ table'[j].to = table[j].to /\ table'[j].group = table[j].group
                      /\ table[j].has \subseteq table'[j].has
  BY <1>5, <1>7, GoneIsNone DEF Live
<1>9. Live' \subseteq Live
  BY <1>1, <1>7 DEF Live
<1>10. TablesOK'
  BY <1>2, <1>7, <1>8, <1>9 DEF TablesOK
<1>11. Grows
  BY <1>2, <1>8 DEF Grows
<1> QED BY <1>2, <1>7, <1>10, <1>11, WrittenKeepsIInv

LEMMA editKeepsIInv ==
  ASSUME IInv, edit
  PROVE  IInv'
<1>1. PICK i \in Live, has \in SUBSET Texts :
        /\ table' = [table EXCEPT ![i].has = has]
        /\ Written(IF table[i].has \subseteq has THEN "added" ELSE "removed")
  BY DEF edit
<1>2. UNCHANGED <<members, groups>> /\ TablesOK
  BY DEF edit, IInv
<1>3. i \in 1..Len(table) /\ table[i] \in Message
  BY <1>2, LiveRows
<1>4. PICK m : m = [table[i] EXCEPT !.has = has]
  OBVIOUS
<1>5. m \in Message /\ m.from = table[i].from /\ m.to = table[i].to
      /\ m.group = table[i].group /\ m.has = has
  BY <1>3, <1>4 DEF Message
<1>6. table' = [table EXCEPT ![i] = m]
  BY <1>1, <1>4
<1>7. /\ table' \in Seq(Message \cup {Gone}) /\ Len(table') = Len(table)
      /\ DOMAIN table' = DOMAIN table
      /\ \A j \in DOMAIN table : table'[j] = IF j = i THEN m ELSE table[j]
  BY <1>2, <1>3, <1>5, <1>6 DEF TablesOK
<1>8. \A j \in Live : j \in Live' /\ table'[j].from = table[j].from
                      /\ table'[j].to = table[j].to /\ table'[j].group = table[j].group
                      /\ (table[i].has \subseteq has => table[j].has \subseteq table'[j].has)
  BY <1>5, <1>7, GoneIsNone DEF Live
<1>9. Live' \subseteq Live
  BY <1>1, <1>7 DEF Live
<1>10. TablesOK'
  BY <1>2, <1>7, <1>8, <1>9 DEF TablesOK
<1>11. table[i].has \subseteq has => Grows
  BY <1>2, <1>8 DEF Grows
<1> QED BY <1>1, <1>7, <1>10, <1>11, WrittenKeepsIInv

LEMMA deleteKeepsIInv ==
  ASSUME IInv, delete
  PROVE  IInv'
<1>1. PICK i \in Live : table' = [table EXCEPT ![i] = Gone]
  BY DEF delete
<1>2. UNCHANGED <<members, groups>> /\ Written("removed") /\ TablesOK
  BY DEF delete, IInv
<1>3. i \in 1..Len(table)
  BY <1>2, LiveRows
<1>4. /\ table' \in Seq(Message \cup {Gone}) /\ Len(table') = Len(table)
      /\ DOMAIN table' = DOMAIN table
      /\ \A j \in DOMAIN table : table'[j] = IF j = i THEN Gone ELSE table[j]
  BY <1>1, <1>2, <1>3 DEF TablesOK
<1>5. \A j \in Live' : j \in Live /\ table'[j] = table[j]
  BY <1>4 DEF Live
<1>6. TablesOK'
  BY <1>2, <1>4, <1>5 DEF TablesOK
<1> QED BY <1>2, <1>4, <1>6, WrittenKeepsIInv

LEMMA joinKeepsIInv ==
  ASSUME IInv, join
  PROVE  IInv'
<1>1. PICK u \in Users, g \in groups : members' = members \cup {<<u, g>>}
  BY DEF join
<1>2. UNCHANGED <<table, groups>> /\ Written("added") /\ TablesOK
  BY DEF join, IInv
<1>3. Live' = Live
  BY <1>2 DEF Live
<1>4. IsFiniteSet(members')
  BY <1>1, <1>2, FS_AddElement DEF TablesOK
<1>5. TablesOK'
  BY <1>1, <1>2, <1>3, <1>4 DEF TablesOK
<1>6. Grows
  BY <1>1, <1>2, <1>3 DEF Grows
<1> QED BY <1>2, <1>5, <1>6, WrittenKeepsIInv

LEMMA leaveKeepsIInv ==
  ASSUME IInv, leave
  PROVE  IInv'
<1>1. PICK pair \in members : members' = members \ {pair}
  BY DEF leave
<1>2. UNCHANGED <<table, groups>> /\ Written("removed") /\ TablesOK
  BY DEF leave, IInv
<1>3. Live' = Live
  BY <1>2 DEF Live
<1>4. IsFiniteSet(members')
  BY <1>1, <1>2, FS_RemoveElement DEF TablesOK
<1>5. TablesOK'
  BY <1>1, <1>2, <1>3, <1>4 DEF TablesOK
<1> QED BY <1>2, <1>5, WrittenKeepsIInv

LEMMA deleteGroupKeepsIInv ==
  ASSUME IInv, deleteGroup
  PROVE  IInv'
<1>1. PICK g \in groups :
        /\ groups' = groups \ {g}
        /\ members' = {pair \in members : pair[2] # g}
        /\ table' = [i \in DOMAIN table |-> IF table[i].group = g THEN Gone ELSE table[i]]
  BY DEF deleteGroup
<1>2. Written("removed") /\ TablesOK
  BY DEF deleteGroup, IInv
<1>3. DOMAIN table = 1..Len(table) /\ Len(table) \in Nat
      /\ \A i \in DOMAIN table : table[i] \in Message \cup {Gone}
  BY <1>2, LiveRows DEF TablesOK
<1>4. /\ DOMAIN table' = DOMAIN table
      /\ \A i \in DOMAIN table : table'[i] = IF table[i].group = g THEN Gone ELSE table[i]
  BY <1>1
<1>5. table' \in Seq(Message \cup {Gone}) /\ Len(table') = Len(table)
  BY <1>1, <1>3
<1>6. \A i \in Live' : i \in Live /\ table'[i] = table[i] /\ table[i].group # g
  BY <1>4 DEF Live
<1>7. IsFiniteSet(members') /\ members' \subseteq Users \X groups'
  <2>1. members' \subseteq members
    BY <1>1
  <2>2. IsFiniteSet(members')
    BY <2>1, <1>2, FS_Subset DEF TablesOK
  <2>3. \A pair \in members' : pair \in Users \X groups /\ pair[2] # g
    BY <1>1, <1>2 DEF TablesOK
  <2> QED BY <2>2, <2>3, <1>1
<1>8. TablesOK'
  BY <1>1, <1>2, <1>4, <1>5, <1>6, <1>7 DEF TablesOK
<1> QED BY <1>2, <1>4, <1>8, WrittenKeepsIInv

-----------------------------------------------------------------------------
(* The theorems.                                                           *)

LEMMA InitIInv == Init => IInv
<1> SUFFICES ASSUME Init PROVE IInv
  OBVIOUS
<1>1. table = <<>> /\ Live = {} /\ Len(table) = 0
  BY DEF Init, Live
<1>2. TablesOK
  <2>1. table \in Seq(Message \cup {Gone})
    BY <1>1, EmptySeq
  <2>2. IsFiniteSet(members)
    BY FS_EmptySet DEF Init
  <2> QED BY <2>1, <2>2, <1>1, ListAssumption DEF Init, TablesOK
<1>3. TasksOK /\ HistoriesOK
  BY IdleOK DEF Init, TasksOK, HistoriesOK
<1>4. Handlers_OK
  BY IdleOK DEF Init, Handlers_OK
<1> QED BY <1>2, <1>3, <1>4 DEF IInv

LEMMA NextIInv == IInv /\ [Next]_vars => IInv'
<1> SUFFICES ASSUME IInv, [Next]_vars PROVE IInv'
  OBVIOUS
<1>1. ASSUME NEW h \in Handlers, Start(h) \/ Call(h) \/ Abort(h)  PROVE IInv'
  BY <1>1, StartKeepsIInv, CallKeepsIInv, AbortKeepsIInv
<1>2. ASSUME Writes  PROVE IInv'
  BY <1>2, sendKeepsIInv, editKeepsIInv, markKeepsIInv, deleteKeepsIInv, joinKeepsIInv,
     leaveKeepsIInv, deleteGroupKeepsIInv DEF Writes
<1>3. ASSUME UNCHANGED vars  PROVE IInv'
  <2>1. UNCHANGED tables /\ task' = task /\ since' = since /\ stays' = stays
    BY <1>3 DEF vars, history
  <2>2. TablesOK' /\ TasksOK' /\ HistoriesOK'
    BY <2>1, TablesStable DEF IInv, TasksOK, HistoriesOK
  <2>3. ASSUME NEW k \in Handlers  PROVE HandlerOK(task[k], since[k], stays[k])'
    <3>1. PICK t, s, st : t = task[k] /\ s = since[k] /\ st = stays[k]
      OBVIOUS
    <3>2. HandlerOK(t, s, st)'
      BY <2>1, <3>1, HandlerStable DEF IInv, Handlers_OK
    <3> QED BY <2>1, <3>1, <3>2
  <2> QED BY <2>2, <2>3 DEF IInv, Handlers_OK
<1> QED BY <1>1, <1>2, <1>3 DEF Next

\* The inductive invariant holds in every state.
THEOREM Invariant == Spec => []IInv
BY InitIInv, NextIInv, PTL DEF Spec

\* Every variable has its type, and what a query holds can be looked at.
THEOREM TypeCorrect == Spec => []TypeOK
<1>1. ASSUME IInv  PROVE TypeOK
  <2>1. table \in SeqOf(Message \cup {Gone}, MaxMessages)
    BY <1>1, LiveRows, ListAssumption DEF IInv, TablesOK, SeqOf
  <2>2. ASSUME NEW h \in Handlers, NEW t, t = task[h]
        PROVE  /\ t.at \in Calls \cup {"idle", "answered"}
               /\ t.at # "idle" => t.op \in Ops /\ t.user \in Users
               /\ t.at \in {"last", "unread"} => t.todo # <<>>
               /\ t.at = "unread" => t.last \in DOMAIN table
               /\ \A k \in DOMAIN t.items :
                    t.items[k] \in IF t.op = "chats" THEN Entry ELSE DOMAIN table \cup Groups
    <3>1. t \in Task /\ TypedOK(t)
      BY <1>1, <2>2 DEF IInv, TasksOK, Handlers_OK, HandlerOK
    <3>2. ASSUME NEW k \in DOMAIN t.items, t.op = "chats"  PROVE t.items[k] \in Entry
      <4>1. t.items \in Seq(Entry)
        BY <3>1, <3>2 DEF TypedOK
      <4> QED BY <3>2, <4>1, ElementOfSeq, LenProperties
    <3>3. ASSUME NEW k \in DOMAIN t.items, t.op # "chats"
          PROVE  t.items[k] \in DOMAIN table \cup Groups
      <4>1. t.items \in Seq(DOMAIN table \cup Groups)
        BY <3>1, <3>3 DEF TypedOK
      <4> QED BY <3>3, <4>1, ElementOfSeq, LenProperties
    <3>4. /\ t.at \in Calls \cup {"idle", "answered"}
          /\ t.at # "idle" => t.op \in Ops /\ t.user \in Users
          /\ t.at \in {"last", "unread"} => t.todo # <<>>
          /\ t.at = "unread" => t.last \in DOMAIN table
      BY <3>1 DEF TypedOK, Task
    <3> QED BY <3>2, <3>3, <3>4
  <2> QED BY <1>1, <2>1, <2>2 DEF IInv, TablesOK, TypeOK
<1> QED BY <1>1, Invariant, PTL

LEMMA AnswersOK ==
  ASSUME IInv, NEW h \in Handlers
  PROVE  AnswerOK(task[h], since[h], stays[h]) /\ TypedOK(task[h]) /\ task[h] \in Task
BY DEF IInv, TasksOK, Handlers_OK, HandlerOK

\* message.repository.ts:211: where nothing was written meanwhile, the calls of a
\* query amount to one: the page and the total are those of the sorted whole, for
\* any page and limit the database does not refuse.
THEOREM UndisturbedExact == Spec => []UndisturbedIsExact
<1>1. IInv => UndisturbedIsExact
  BY AnswersOK DEF UndisturbedIsExact, AnswerOK, ExactAnswer, Rank
<1> QED BY <1>1, Invariant, PTL

\* message.repository.ts:301: a chat list leaves out no conversation with a user or
\* of a group that was there from its first call to its last, whatever others write
\* during its calls.
THEOREM NoneLost == Spec => []NoConversationLost
<1>1. IInv => NoConversationLost
  BY AnswersOK DEF NoConversationLost, AnswerOK, LosesNone, Withs
<1> QED BY <1>1, Invariant, PTL

\* response.ts:66: unless something was removed or edited out of the list between
\* the page and its count, a page with entries is within totalPages, if the limit
\* is positive.
THEOREM PagesWithinTotal == Spec => []PageWithinTotal
<1>1. ASSUME IInv, NEW h \in Handlers, task[h].at = "answered", since[h] # "removed",
             task[h].items # <<>>, task[h].limit > 0
      PROVE  task[h].page <= totalPages(task[h].total, task[h].limit)
  <2>1. skip(task[h].page, task[h].limit) < task[h].total /\ task[h].page \in Int
        /\ task[h].limit \in Nat \ {0} /\ task[h].total \in Nat
    BY <1>1, AnswersOK DEF AnswerOK, TypedOK, Task
  <2> QED BY <2>1, PagesCover
<1>2. IInv => PageWithinTotal
  BY <1>1 DEF PageWithinTotal
<1> QED BY <1>2, Invariant, PTL

-----------------------------------------------------------------------------
(* What makes a query end (QueriesEnd): each call leaves less to do.         *)

\* The lists still to be fetched, and the calls for the conversations found.
Stage(t) ==
  CASE t.at = "directMessages" -> 3
    [] t.at = "groupMessages" -> 2
    [] t.at \in {"groups", "find"} -> 1
    [] OTHER -> 0

Left(t) ==
  CASE t.at = "last" -> 2 * Len(t.todo)
    [] t.at = "unread" -> 2 * Len(t.todo) - 1
    [] OTHER -> 0

Less(r, t) ==
  Stage(r) < Stage(t) \/ (Stage(r) = Stage(t) /\ Left(r) < Left(t))

\* A query's own call answers it or leaves it less to do, and no other step
\* touches what it holds, unless it is the failure that ends it.
LessLeft ==
  \A h \in Handlers :
    task[h].at \in Calls =>
      /\ Call(h) => /\ task'[h].at = "answered" \/ Less(task'[h], task[h])
                    /\ Left(task'[h]) \in Nat
      /\ ~Call(h) => task'[h] \in {task[h], Idle}

\* Either the list is complete or the next conversation is looked at.
LEMMA GoLeavesLess ==
  ASSUME IInv, NEW h \in Handlers, NEW t \in Task, NEW r, r = task[h], Go(h, t),
         \/ r.at = "groups"
         \/ /\ r.at \in {"last", "unread"} /\ r.todo # <<>> /\ r.todo \in Seq(Conversations)
            /\ t.todo = Tail(r.todo)
  PROVE  /\ task'[h].at = "answered" \/ Less(task'[h], r)
         /\ Left(task'[h]) \in Nat
<1>1. task \in [Handlers -> Task] /\ t.todo \in Seq(Conversations)
  BY DEF IInv, TasksOK, Task
<1>2. CASE t.todo = <<>>
  <2>1. task'[h].at = "answered"
    BY <1>1, <1>2 DEF Go, Task
  <2> QED BY <2>1 DEF Left
<1>3. CASE t.todo # <<>>
  <2>1. task'[h].at = "last" /\ task'[h].todo = t.todo
    BY <1>1, <1>3 DEF Go, Task
  <2>2. Stage(task'[h]) = 0 /\ Left(task'[h]) = 2 * Len(t.todo) /\ Len(t.todo) \in Nat
    BY <1>1, <2>1, LenProperties DEF Stage, Left
  <2>3. CASE r.at = "groups"
    <3>1. Stage(r) = 1
      BY <2>3 DEF Stage
    <3> QED BY <2>2, <3>1 DEF Less
  <2>4. CASE r.at \in {"last", "unread"} /\ r.todo # <<>> /\ r.todo \in Seq(Conversations)
             /\ t.todo = Tail(r.todo)
    <3>1. Len(r.todo) \in Nat /\ Len(t.todo) = Len(r.todo) - 1
      BY <2>4, LenProperties, HeadTailProperties
    <3>2. Stage(r) = 0 /\ Left(r) \in {2 * Len(r.todo), 2 * Len(r.todo) - 1}
      BY <2>4 DEF Stage, Left
    <3> QED BY <2>2, <3>1, <3>2 DEF Less
  <2> QED BY <2>3, <2>4
<1> QED BY <1>2, <1>3

LEMMA CallLeavesLess ==
  ASSUME IInv, NEW h \in Handlers, Call(h)
  PROVE  /\ task'[h].at = "answered" \/ Less(task'[h], task[h])
         /\ Left(task'[h]) \in Nat
<1>1. PICK r \in Task : r = task[h] /\ TypedOK(r)
  BY DEF IInv, TasksOK, Handlers_OK, HandlerOK
<1>2. task \in [Handlers -> Task] /\ r.todo \in Seq(Conversations)
  BY <1>1 DEF IInv, TasksOK, Task
<1>3. CASE Find(h)
  <2>1. r.at = "find" /\ task'[h].at = "count"
    BY <1>1, <1>2, <1>3 DEF Find, Awaits, Task
  <2> QED BY <1>1, <2>1 DEF Less, Stage, Left
<1>4. CASE Count(h)
  <2>1. task'[h].at = "answered"
    BY <1>2, <1>4 DEF Count, Task
  <2> QED BY <2>1 DEF Left
<1>5. CASE FindDirect(h)
  <2>1. r.at = "directMessages" /\ task'[h].at = "groupMessages"
    BY <1>1, <1>2, <1>5 DEF FindDirect, Awaits, Task
  <2> QED BY <1>1, <2>1 DEF Less, Stage, Left
<1>6. CASE FindGroupMessages(h)
  <2>1. r.at = "groupMessages" /\ task'[h].at = "groups"
    BY <1>1, <1>2, <1>6 DEF FindGroupMessages, Awaits, Task
  <2> QED BY <1>1, <2>1 DEF Less, Stage, Left
<1>7. CASE FindGroups(h)
  <2>1. r.at = "groups" /\ Go(h, r)
    BY <1>1, <1>7 DEF FindGroups, Awaits
  <2> QED BY <1>1, <2>1, GoLeavesLess
<1>8. CASE FindLast(h)
  <2>1. r.at = "last" /\ r.todo # <<>>
    BY <1>1, <1>8 DEF FindLast, Awaits, TypedOK
  <2>2. CASE In(r.user, Head(r.todo)) = {}
    <3>1. PICK t : t = [r EXCEPT !.todo = Tail(@)]
      OBVIOUS
    <3>2. Tail(r.todo) \in Seq(Conversations)
      BY <1>2, <2>1, HeadTailProperties
    <3>3. t \in Task /\ t.todo = Tail(r.todo)
      BY <3>1, <3>2 DEF Task
    <3>4. Go(h, t)
      BY <1>1, <1>8, <2>2, <3>1 DEF FindLast
    <3> QED BY <1>1, <1>2, <2>1, <3>3, <3>4, GoLeavesLess
  <2>3. CASE In(r.user, Head(r.todo)) # {}
    <3>1. task'[h].at = "unread" /\ task'[h].todo = r.todo
      BY <1>1, <1>2, <1>8, <2>3 DEF FindLast, Task
    <3>2. Len(r.todo) \in Nat \ {0}
      BY <1>2, <2>1, LenProperties, EmptySeq
    <3>3. /\ Stage(task'[h]) = 0 /\ Stage(r) = 0
          /\ Left(task'[h]) = 2 * Len(r.todo) - 1 /\ Left(r) = 2 * Len(r.todo)
      BY <2>1, <3>1 DEF Stage, Left
    <3> QED BY <1>1, <3>2, <3>3 DEF Less
  <2> QED BY <2>2, <2>3
<1>9. CASE CountUnread(h)
  <2>1. r.at = "unread" /\ r.todo # <<>>
    BY <1>1, <1>9 DEF CountUnread, Awaits, TypedOK
  <2>2. TablesOK /\ r.items \in Seq(Entry) /\ r.user \in Users /\ r.last \in DOMAIN table
    BY <1>1, <2>1, AtListCall DEF Sorting, TypedOK
  <2>3. Head(r.todo) \in Conversations /\ Tail(r.todo) \in Seq(Conversations)
    BY <1>2, <2>1, HeadTailProperties
  <2>4. PICK e : e = [with |-> Head(r.todo), last |-> r.last,
                      unread |-> Cardinality(Unread(r.user, Head(r.todo)))]
    OBVIOUS
  <2>5. PICK x : x = IF Head(r.todo) \in Strangers THEN r.items ELSE Append(r.items, e)
    OBVIOUS
  <2>6. x \in Seq(Item)
    <3>1. CASE Head(r.todo) \in Strangers
      BY <2>2, <2>5, <3>1, SeqOfEntries
    <3>2. CASE Head(r.todo) \notin Strangers
      <4>1. Head(r.todo) \in Users \cup Groups
        BY <2>3, <3>2 DEF Conversations, Receivers
      <4>2. e \in Entry
        BY <2>2, <2>4, <4>1, EntryType
      <4> QED BY <2>2, <2>5, <3>2, <4>2, AppendProperties, SeqOfEntries
    <3> QED BY <3>1, <3>2
  <2>7. PICK t : t = [r EXCEPT !.todo = Tail(r.todo), !.items = x]
    OBVIOUS
  <2>8. t \in Task /\ t.todo = Tail(r.todo)
    BY <2>3, <2>6, <2>7 DEF Task
  <2>9. Go(h, t)
    BY <1>1, <1>9, <2>4, <2>5, <2>7 DEF CountUnread
  <2> QED BY <1>1, <1>2, <2>1, <2>8, <2>9, GoLeavesLess
<1> QED BY <1>3, <1>4, <1>5, <1>6, <1>7, <1>8, <1>9 DEF Call

\* message.repository.ts:297: whatever others write between its calls, each call of
\* a query leaves it less to do, and only the query itself or its failure moves it.
\* With calls that are answered this is why a query ends (QueriesEnd).
THEOREM QueriesAdvance == Spec => [][LessLeft]_vars
<1>1. ASSUME IInv, [Next]_vars  PROVE LessLeft
  <2>1. SUFFICES ASSUME NEW h \in Handlers, task[h].at \in Calls, ~Call(h), task'[h] # task[h]
                 PROVE  task'[h] = Idle
    BY <1>1, CallLeavesLess DEF LessLeft
  <2>2. ASSUME NEW k \in Handlers, Start(k) \/ Call(k) \/ Abort(k)
        PROVE  k = h
    <3>1. CASE Start(k)
      BY <2>1, <3>1, <1>1 DEF Start, StartChats, StartGroupMessages, StartDirectMessages,
         StartSearch, StartUserGroups, Begin, IInv, TasksOK
    <3>2. CASE Call(k)
      <4>1. Advance(k)
        BY <1>1, <3>2, CallMoves
      <4> QED BY <1>1, <2>1, <4>1 DEF Advance, IInv, TasksOK
    <3>3. CASE Abort(k)
      BY <1>1, <2>1, <3>3 DEF Abort, IInv, TasksOK
    <3> QED BY <2>2, <3>1, <3>2, <3>3
  <2>3. CASE Abort(h)
    BY <1>1, <2>3 DEF Abort, IInv, TasksOK
  <2>4. ~Start(h)
    BY <2>1 DEF Start, StartChats, StartGroupMessages, StartDirectMessages, StartSearch,
       StartUserGroups, Begin, Calls
  <2>5. ~Writes /\ ~UNCHANGED vars
    BY <2>1 DEF Writes, send, edit, mark, delete, join, leave, deleteGroup, Written, vars
  <2> QED BY <1>1, <2>1, <2>2, <2>3, <2>4, <2>5 DEF Next
<1> QED BY <1>1, Invariant, PTL DEF Spec
=====
