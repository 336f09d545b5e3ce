---------------------------- MODULE ListingProofs ----------------------------
(* Walks through the paged lists, for any number of rows, limits and       *)
(* walks: no row is skipped but for one that was removed.                  *)
EXTENDS Listing, FiniteSetTheorems, TLAPS

(* A row is inserted once and does not come back. *)
RowsOnce ==
    /\ \A r \in Rows : inserting[r] # Nil => rows[r] = Nil /\ r \notin gone
    /\ \A r \in Rows : rows[r] # Nil => r \notin gone
    /\ began \subseteq gone \cup {r \in Rows : rows[r] # Nil}
    /\ removed \subseteq gone

(* Between walks, and between a page and the next query, nothing is shown. *)
WalkFits ==
    /\ pc # "answered" => page = {}
    /\ pc = "idle" => offset = 0

(* A walk that has asked knows the ties of the rows it found.              *)
TiesKnown ==
    (offset > 0 \/ pc = "answered") =>
        \A r, s \in began \cap Listed :
            r # s /\ rows[r].at = rows[s].at => r \in tied

-----------------------------------------------------------------------------
(* Counting *)

LEMMA OneMore ==
  ASSUME NEW S, IsFiniteSet(S), NEW T, \A a, b \in T \ S : a = b
  PROVE  IsFiniteSet(T) /\ Cardinality(T) <= Cardinality(S) + 1
<1>1. Cardinality(S) \in Nat
  BY FS_CardinalityType
<1>2. CASE T \subseteq S
  <2>1. IsFiniteSet(T) /\ Cardinality(T) <= Cardinality(S)
    BY <1>2, FS_Subset
  <2>2. Cardinality(T) \in Nat
    BY <2>1, FS_CardinalityType
  <2>3. QED
    BY <1>1, <2>1, <2>2
<1>3. CASE ~(T \subseteq S)
  <2>1. PICK a \in T : a \notin S
    BY <1>3
  <2>2. T \in SUBSET (S \cup {a})
    BY <2>1
  <2>3. IsFiniteSet(S \cup {a}) /\ Cardinality(S \cup {a}) = Cardinality(S) + 1
    BY <2>1, FS_AddElement
  <2>4. QED
    BY <2>2, <2>3, FS_Subset
<1>4. QED
  BY <1>2, <1>3

(* As many rows come before a row as its number says. *)
LEMMA RankCounts ==
  ASSUME NEW L, IsFiniteSet(L), NEW rank \in Bijection(L, 0..(Cardinality(L) - 1)),
         NEW r \in L
  PROVE  /\ rank[r] \in Nat
         /\ Cardinality({s \in L : rank[s] < rank[r]}) = rank[r]
<1> DEFINE N == {s \in L : rank[s] < rank[r]}
<1>0. Cardinality(L) \in Nat
  BY FS_CardinalityType
<1>1. /\ rank \in [L -> 0..(Cardinality(L) - 1)]
      /\ \A s, t \in L : rank[s] = rank[t] => s = t
      /\ \A i \in 0..(Cardinality(L) - 1) : \E s \in L : rank[s] = i
  BY DEF Bijection, Injection, Surjection, IsInjective
<1>2. rank[r] \in 0..(Cardinality(L) - 1)
  BY <1>1
<1> DEFINE f == [s \in N |-> rank[s]]
<1>3. f \in Bijection(N, 0..(rank[r] - 1))
  <2>1. f \in [N -> 0..(rank[r] - 1)]
    BY <1>0, <1>1, <1>2
  <2>2. \A s, t \in N : f[s] = f[t] => s = t
    BY <1>1
  <2>3. ASSUME NEW i \in 0..(rank[r] - 1) PROVE \E s \in N : f[s] = i
    <3>1. i \in 0..(Cardinality(L) - 1) /\ i < rank[r]
      BY <1>0, <1>2
    <3>2. PICK s \in L : rank[s] = i
      BY <1>1, <3>1
    <3>3. QED
      BY <3>1, <3>2
  <2>4. QED
    BY <2>1, <2>2, <2>3 DEF Bijection, Injection, Surjection, IsInjective
<1>4. IsFiniteSet(N)
  BY FS_Subset
<1>5. Cardinality(0..(rank[r] - 1)) = Cardinality(N)
  BY <1>3, <1>4, FS_Bijection DEF ExistsBijection
<1>6. 0 \in Int /\ rank[r] - 1 \in Int /\ rank[r] \in Nat
  BY <1>0, <1>2
<1>7. Cardinality(0..(rank[r] - 1)) = IF 0 > rank[r] - 1 THEN 0 ELSE (rank[r] - 1) - 0 + 1
  BY <1>6, FS_Interval
<1>8. QED
  BY <1>5, <1>6, <1>7

(* A page is no longer than its limit. *)
LEMMA PageBound ==
  ASSUME NEW L, IsFiniteSet(L), NEW rank \in Bijection(L, 0..(Cardinality(L) - 1)),
         NEW l \in Nat, NEW o \in Nat
  PROVE  /\ Between(rank, l, o) \in SUBSET L
         /\ Cardinality(Between(rank, l, o)) \in Nat
         /\ Cardinality(Between(rank, l, o)) <= l
<1> DEFINE P == {s \in L : o <= rank[s] /\ rank[s] < o + l}
<1>0. Cardinality(L) \in Nat
  BY FS_CardinalityType
<1>1. /\ rank \in [L -> 0..(Cardinality(L) - 1)]
      /\ \A s, t \in L : rank[s] = rank[t] => s = t
  BY DEF Bijection, Injection, IsInjective
<1>2. Between(rank, l, o) = P
  BY <1>1 DEF Between
<1> DEFINE f == [s \in P |-> rank[s]]
<1>3. f \in Injection(P, o..(o + l - 1))
  <2>1. f \in [P -> o..(o + l - 1)]
    BY <1>0, <1>1
  <2>2. \A s, t \in P : f[s] = f[t] => s = t
    BY <1>1
  <2>3. QED
    BY <2>1, <2>2 DEF Injection, IsInjective
<1>4. /\ IsFiniteSet(o..(o + l - 1))
      /\ Cardinality(o..(o + l - 1)) = IF o > o + l - 1 THEN 0 ELSE (o + l - 1) - o + 1
  <2>1. o \in Int /\ o + l - 1 \in Int
    OBVIOUS
  <2>2. QED
    BY <2>1, FS_Interval
<1>5. IsFiniteSet(P) /\ Cardinality(P) <= Cardinality(o..(o + l - 1))
  BY <1>3, <1>4, FS_Injection
<1>6. Cardinality(P) \in Nat
  BY <1>5, FS_CardinalityType
<1>7. QED
  BY <1>2, <1>4, <1>5, <1>6

-----------------------------------------------------------------------------
(* Rows and their positions *)

FiniteLists ==
    /\ Listed \in SUBSET Rows /\ IsFiniteSet(Listed)
    /\ \A r \in Rows : /\ Newer(r) \in SUBSET Listed /\ IsFiniteSet(Newer(r))
                       /\ Cardinality(Newer(r)) \in Nat
    /\ \A r \in Listed : rows[r] \in Row /\ rows[r].at \in Nat

LEMMA ListedFinite == TypeOK => FiniteLists
<1> SUFFICES ASSUME TypeOK PROVE FiniteLists
  OBVIOUS
<1>1. Listed \in SUBSET Rows /\ IsFiniteSet(Listed)
  BY ListingAssumption, FS_Subset DEF Listed
<1>2. ASSUME NEW r \in Rows
      PROVE  /\ Newer(r) \in SUBSET Listed /\ IsFiniteSet(Newer(r))
             /\ Cardinality(Newer(r)) \in Nat
  <2>1. Newer(r) \in SUBSET Listed
    BY DEF Newer
  <2>2. QED
    BY <1>1, <2>1, FS_Subset, FS_CardinalityType
<1>3. \A r \in Listed : rows[r] \in Row /\ rows[r].at \in Nat
  BY ListingAssumption DEF Listed, TypeOK, Row
<1>4. QED
  BY <1>1, <1>2, <1>3 DEF FiniteLists

LEMMA ListedFiniteNext == TypeOK' => FiniteLists'
  BY ListedFinite, PTL

(* What the walk has missed, without and with the answer under way. *)
Missed == Passed(seen, offset)

MissedByPage == Passed(seen \cup page, offset + Cardinality(page))

LEMMA MissedFinite ==
  ASSUME TypeOK
  PROVE  /\ IsFiniteSet(Missed) /\ Cardinality(Missed) \in Nat
         /\ IsFiniteSet(MissedByPage) /\ Cardinality(MissedByPage) \in Nat
         /\ IsFiniteSet(removed) /\ Cardinality(removed) \in Nat
         /\ Cardinality(page) \in Nat /\ offset + Cardinality(page) \in Nat
<1>1. Missed \in SUBSET Listed /\ MissedByPage \in SUBSET Listed
  BY DEF Missed, MissedByPage, Passed
<1>2. removed \in SUBSET Rows /\ page \in SUBSET Rows /\ offset \in Nat
  BY DEF TypeOK
<1>3. IsFiniteSet(Missed) /\ IsFiniteSet(MissedByPage)
  BY <1>1, ListedFinite, FS_Subset DEF FiniteLists
<1>4. IsFiniteSet(removed) /\ IsFiniteSet(page)
  BY <1>2, ListingAssumption, FS_Subset
<1>5. QED
  BY <1>2, <1>3, <1>4, FS_CardinalityType

CountsAreNumbers == Cardinality(Missed) \in Nat /\ Cardinality(MissedByPage) \in Nat

LEMMA MissedCounts == TypeOK => CountsAreNumbers
  BY MissedFinite DEF CountsAreNumbers

LEMMA MissedCountsNext == TypeOK' => CountsAreNumbers'
  BY MissedCounts, PTL

MissedForRemovals ==
    /\ Cardinality(Missed) <= Cardinality(removed)
    /\ Cardinality(MissedByPage) <= Cardinality(removed)

LEMMA MissesAre == SkipsOnlyForRemovals <=> MissedForRemovals
  BY DEF SkipsOnlyForRemovals, MissedForRemovals, Missed, MissedByPage

LEMMA MissesAreNext == MissedForRemovals' => SkipsOnlyForRemovals'
  BY MissesAre, PTL

(* Nothing lies above the first row. *)
NothingShown == offset = 0 /\ page = {}

LEMMA NothingMissed == TypeOK /\ NothingShown => SkipsOnlyForRemovals
<1> SUFFICES ASSUME TypeOK, NothingShown PROVE SkipsOnlyForRemovals
  OBVIOUS
<1>1. Cardinality(page) = 0 /\ offset = 0
  BY FS_EmptySet DEF NothingShown
<1>2. \A r \in Listed : Cardinality(Newer(r)) \in Nat
  BY ListedFinite DEF FiniteLists
<1>3. Missed = {} /\ MissedByPage = {}
  BY <1>1, <1>2 DEF Missed, MissedByPage, Passed
<1>4. QED
  BY <1>3, MissedFinite, MissesAre, FS_EmptySet DEF MissedForRemovals

LEMMA NothingMissedNext == TypeOK' /\ NothingShown' => SkipsOnlyForRemovals'
  BY NothingMissed, PTL

(* Where no more rows are passed, no more are missed. *)
LEMMA NoMoreMissed ==
  ASSUME TypeOK, SkipsOnlyForRemovals, UNCHANGED removed,
         NEW S, S = Missed \/ S = MissedByPage, NEW T \in SUBSET S
  PROVE  Cardinality(T) <= Cardinality(removed')
<1>1. IsFiniteSet(S) /\ Cardinality(S) \in Nat /\ Cardinality(removed) \in Nat
  BY MissedFinite
<1>2. Cardinality(S) <= Cardinality(removed)
  BY MissesAre DEF MissedForRemovals
<1>3. IsFiniteSet(T) /\ Cardinality(T) <= Cardinality(S)
  BY <1>1, FS_Subset
<1>4. Cardinality(T) \in Nat
  BY <1>3, FS_CardinalityType
<1>5. Cardinality(T) <= Cardinality(removed)
  BY <1>1, <1>2, <1>3, <1>4
<1>6. QED
  BY <1>5

-----------------------------------------------------------------------------
(* Steps under which rows keep their order *)

(* Rows keep their places or get later ones, and the walk stays where it   *)
(* is.                                                                     *)
LEMMA LaterKeeps ==
  ASSUME TypeOK, TypeOK', SkipsOnlyForRemovals,
         UNCHANGED <<offset, page, began, seen, tied, removed>>,
         \A r \in began \cap Listed' : r \in Listed /\ Newer(r) \in SUBSET (Newer(r)')
  PROVE  SkipsOnlyForRemovals'
<1>1. ASSUME NEW r \in began \cap Listed'
      PROVE  /\ r \in Listed
             /\ Cardinality(Newer(r)') \in Nat /\ Cardinality(Newer(r)) \in Nat
             /\ Cardinality(Newer(r)) <= Cardinality(Newer(r)')
  <2>1. r \in Rows /\ Newer(r) \in SUBSET (Newer(r)')
    BY DEF TypeOK
  <2>2. IsFiniteSet(Newer(r)') /\ Cardinality(Newer(r)') \in Nat
    BY <2>1, ListedFiniteNext DEF FiniteLists
  <2>3. QED
    BY <2>1, <2>2, FS_Subset, ListedFinite DEF FiniteLists
<1>2. /\ offset \in Nat /\ offset' = offset
      /\ Cardinality(page) \in Nat /\ Cardinality(page') = Cardinality(page)
  BY MissedFinite DEF TypeOK
<1>3. Missed' \in SUBSET Missed
  BY <1>1, <1>2 DEF Missed, Passed
<1>4. MissedByPage' \in SUBSET MissedByPage
  BY <1>1, <1>2 DEF MissedByPage, Passed
<1>5. /\ Cardinality(Missed') <= Cardinality(removed')
      /\ Cardinality(MissedByPage') <= Cardinality(removed')
  BY <1>3, <1>4, NoMoreMissed
<1>6. QED
  BY <1>5, MissesAreNext DEF MissedForRemovals

-----------------------------------------------------------------------------
(* What one query carries *)

(* Whatever list and parameters: the rows at some number of positions,     *)
(* at least one, after the offset.                                         *)
LEMMA AnswerIsBetween ==
  ASSUME TypeOK, NEW rank \in Orders
  PROVE  \E l \in Nat \ {0} : Answer(rank, limit, offset) = Between(rank, l, offset)
<1>1. /\ limit \in Int \cup {Nil} /\ offset \in Nat /\ offset # Nil /\ list \in Lists
      /\ DefaultLimit \in Nat \ {0} /\ LogsLimit \in Nat \ {0}
  BY ListingAssumption, ListingNilAssumption DEF TypeOK
<1>2. QueryInt(offset, 0) = offset
  BY <1>1 DEF QueryInt
<1>3. /\ QueryInt(limit, DefaultLimit) \in Nat
      /\ QueryInt(limit, LogsLimit) \in Nat
  BY <1>1 DEF QueryInt
<1>4. \A l \in Nat : ServiceLimit(l) \in Nat \ {0}
  BY <1>1 DEF ServiceLimit
<1>5. ASSUME NEW l \in Nat \ {0}
      PROVE  SelectLinks(rank, l, offset) = Between(rank, l, offset)
  <2>1. l > 0 /\ (IF offset > 0 THEN offset ELSE 0) = offset
    BY <1>1
  <2>2. QED
    BY <2>1 DEF SelectLinks
<1>6. CASE list = "links"
  BY <1>2, <1>3, <1>4, <1>5, <1>6 DEF Answer, ListLinks
<1>7. CASE list = "mine"
  BY <1>2, <1>3, <1>4, <1>5, <1>7 DEF Answer, List, ListMyLinks
<1>8. CASE list = "users"
  BY <1>2, <1>3, <1>4, <1>8 DEF Answer, ListUsers
<1>9. CASE list = "logs"
  BY <1>2, <1>3, <1>4, <1>9 DEF Answer, ListAccessLogs
<1>10. QED
  BY <1>1, <1>6, <1>7, <1>8, <1>9 DEF Lists

(* A row with a time stamp of its own has one position in every order.     *)
LEMMA UntiedHasPlace ==
  ASSUME TypeOK, NEW rank \in Orders, NEW r \in Listed, r \notin Tied
  PROVE  rank[r] = Cardinality(Newer(r))
<1>1. /\ IsFiniteSet(Listed)
      /\ rank \in Bijection(Listed, 0..(Cardinality(Listed) - 1))
      /\ \A s, t \in Listed : rows[s].at > rows[t].at => rank[s] < rank[t]
      /\ \A s \in Listed : rows[s].at \in Nat
  BY ListedFinite DEF Orders, FiniteLists
<1>2. /\ rank \in [Listed -> 0..(Cardinality(Listed) - 1)]
      /\ Cardinality(Listed) \in Nat
  BY <1>1, FS_CardinalityType DEF Bijection, Injection
<1>3. ASSUME NEW s \in Listed
      PROVE  rank[s] < rank[r] <=> rows[s].at > rows[r].at
  <2>1. /\ rank[s] \in Int /\ rank[r] \in Int
        /\ rows[s].at \in Nat /\ rows[r].at \in Nat
    BY <1>1, <1>2
  <2>2. CASE s = r
    BY <2>1, <2>2
  <2>3. CASE s # r
    <3>1. rows[s].at # rows[r].at
      BY <2>3 DEF Tied
    <3>2. rows[r].at > rows[s].at => rank[r] < rank[s]
      BY <1>1
    <3>3. rows[s].at > rows[r].at => rank[s] < rank[r]
      BY <1>1
    <3>4. QED
      BY <2>1, <3>1, <3>2, <3>3
  <2>4. QED
    BY <2>2, <2>3
<1>4. Newer(r) = {s \in Listed : rank[s] < rank[r]}
  BY <1>3 DEF Newer
<1>5. QED
  BY <1>1, <1>4, RankCounts

-----------------------------------------------------------------------------
(* Types *)

LEMMA TypeOKInit == Init => TypeOK
  BY ListingAssumption DEF Init, TypeOK, PCs

LEMMA TypeOKNext ==
  ASSUME TypeOK, [Next]_vars
  PROVE  TypeOK'
<1>1. CASE UNCHANGED vars
  BY <1>1 DEF TypeOK, vars, table, walk, history
<1>2. ASSUME NEW r \in Rows, NEW owner \in Owners, BeginInsert(r, owner) PROVE TypeOK'
  <2>1. [at |-> now, owner |-> owner] \in Row
    BY DEF TypeOK, Row
  <2>2. QED
    BY <1>2, <2>1 DEF TypeOK, BeginInsert, walk, history
<1>3. ASSUME NEW r \in Rows, CommitInsert(r) PROVE TypeOK'
  BY <1>3 DEF TypeOK, CommitInsert, walk, history
<1>4. ASSUME NEW r \in Rows, Remove(r) PROVE TypeOK'
  BY <1>4 DEF TypeOK, Remove, walk, history
<1>5. CASE Tick
  BY <1>5, ListingAssumption DEF TypeOK, Tick, walk, history
<1>6. ASSUME NEW l \in Asked, BeginWalk(l) PROVE TypeOK'
  BY <1>6 DEF TypeOK, BeginWalk, table, PCs, Listed
<1>7. CASE Query
  <2>1. PICK rank \in Orders : page' = Answer(rank, limit, offset)
    BY <1>7 DEF Query
  <2>2. PICK l \in Nat \ {0} : page' = Between(rank, l, offset)
    BY <2>1, AnswerIsBetween
  <2>3. DOMAIN rank = Listed
    BY DEF Orders, Bijection, Injection
  <2>4. page' \subseteq Rows
    BY <2>2, <2>3 DEF Between, Listed
  <2>5. QED
    BY <1>7, <2>4 DEF TypeOK, Query, table, PCs, Tied, Listed
<1>8. CASE LoseAnswer
  BY <1>8 DEF TypeOK, LoseAnswer, table, history, PCs
<1>9. CASE Receive
  <2>1. offset + Cardinality(page) \in Nat
    BY MissedFinite
  <2>2. QED
    BY <1>9, <2>1 DEF TypeOK, Receive, table, PCs
<1>10. CASE EndWalk
  BY <1>10 DEF TypeOK, EndWalk, NoWalk, table, PCs
<1>11. QED
  BY <1>1, <1>2, <1>3, <1>4, <1>5, <1>6, <1>7, <1>8, <1>9, <1>10 DEF Next

-----------------------------------------------------------------------------
(* The history of rows and of the walk *)

Book == RowsOnce /\ WalkFits /\ TiesKnown

LEMMA BookInit == Init => Book
  BY DEF Init, Book, RowsOnce, WalkFits, TiesKnown

(* Steps of the table show a walk no row that it did not find. *)
TableStep ==
    /\ UNCHANGED <<list, walk, began, seen, tied>>
    /\ \A r \in began \cap Listed' : r \in Listed /\ rows'[r] = rows[r]

LEMMA TableSteps ==
  ASSUME TypeOK, RowsOnce, NEW r \in Rows,
         (\E owner \in Owners : BeginInsert(r, owner)) \/ CommitInsert(r) \/ Remove(r)
  PROVE  TableStep
<1>1. CASE \E owner \in Owners : BeginInsert(r, owner)
  BY <1>1 DEF BeginInsert, TableStep, history, walk, Listed, Matches
<1>2. CASE CommitInsert(r)
  <2>1. r \notin began
    BY <1>2 DEF CommitInsert, RowsOnce
  <2>2. QED
    BY <1>2, <2>1 DEF CommitInsert, TableStep, history, walk, Listed, Matches, TypeOK
<1>3. CASE Remove(r)
  BY <1>3 DEF Remove, TableStep, walk, Listed, Matches, TypeOK
<1>4. QED
  BY <1>1, <1>2, <1>3

LEMMA BookOverTable ==
  ASSUME Book, TableStep
  PROVE  WalkFits' /\ TiesKnown'
<1>1. WalkFits'
  BY DEF Book, WalkFits, TableStep, walk
<1>2. TiesKnown'
  <2>1. /\ offset' = offset /\ pc' = pc /\ began' = began /\ tied' = tied
        /\ \A r \in began \cap Listed' : r \in Listed /\ rows'[r] = rows[r]
    BY DEF TableStep, walk
  <2>2. QED
    BY <2>1 DEF Book, TiesKnown
<1>3. QED
  BY <1>1, <1>2

LEMMA BookNext ==
  ASSUME TypeOK, Book, [Next]_vars
  PROVE  Book'
<1>1. CASE UNCHANGED vars
  <2>1. RowsOnce' /\ WalkFits'
    BY <1>1 DEF Book, RowsOnce, WalkFits, vars, table, walk, history
  <2>2. Listed' = Listed
    BY <1>1 DEF Listed, Matches, vars, table
  <2>3. QED
    BY <1>1, <2>1, <2>2 DEF Book, TiesKnown, vars, table, walk, history
<1>2. ASSUME NEW r \in Rows, NEW owner \in Owners, BeginInsert(r, owner) PROVE Book'
  <2>1. RowsOnce'
    BY <1>2 DEF Book, RowsOnce, BeginInsert, walk, history, TypeOK
  <2>2. TableStep
    BY <1>2, TableSteps DEF Book
  <2>3. QED
    BY <2>1, <2>2, BookOverTable DEF Book
<1>3. ASSUME NEW r \in Rows, CommitInsert(r) PROVE Book'
  <2>1. RowsOnce'
    BY <1>3 DEF Book, RowsOnce, CommitInsert, walk, history, TypeOK
  <2>2. TableStep
    BY <1>3, TableSteps DEF Book
  <2>3. QED
    BY <2>1, <2>2, BookOverTable DEF Book
<1>4. ASSUME NEW r \in Rows, Remove(r) PROVE Book'
  <2>1. RowsOnce'
    BY <1>4 DEF Book, RowsOnce, Remove, walk, history, TypeOK
  <2>2. TableStep
    BY <1>4, TableSteps DEF Book
  <2>3. QED
    BY <2>1, <2>2, BookOverTable DEF Book
<1>5. CASE Tick
  <2>1. RowsOnce'
    BY <1>5 DEF Book, RowsOnce, Tick, walk, history
  <2>2. TableStep
    BY <1>5 DEF Tick, TableStep, history, walk, Listed, Matches
  <2>3. QED
    BY <2>1, <2>2, BookOverTable DEF Book
<1>6. ASSUME NEW l \in Asked, BeginWalk(l) PROVE Book'
  BY <1>6 DEF Book, RowsOnce, WalkFits, TiesKnown, BeginWalk, table, Listed
<1>7. CASE Query
  <2>1. RowsOnce' /\ WalkFits'
    BY <1>7 DEF Book, RowsOnce, WalkFits, Query, table
  <2>2. Listed' = Listed /\ rows' = rows /\ tied' = tied \cup Tied
    BY <1>7 DEF Query, table, Listed, Matches
  <2>3. \A r, s \in Listed : r # s /\ rows[r].at = rows[s].at => r \in Tied
    BY DEF Tied
  <2>4. TiesKnown'
    BY <2>2, <2>3 DEF TiesKnown
  <2>5. QED
    BY <2>1, <2>4 DEF Book
<1>8. CASE LoseAnswer
  <2>1. RowsOnce' /\ WalkFits'
    BY <1>8 DEF Book, RowsOnce, WalkFits, LoseAnswer, table, history
  <2>2. Listed' = Listed
    BY <1>8 DEF LoseAnswer, table, Listed, Matches
  <2>3. QED
    BY <1>8, <2>1, <2>2 DEF Book, TiesKnown, LoseAnswer, table, history
<1>9. CASE Receive
  <2>1. RowsOnce' /\ WalkFits'
    BY <1>9 DEF Book, RowsOnce, WalkFits, Receive, table
  <2>2. Listed' = Listed
    BY <1>9 DEF Receive, table, Listed, Matches
  <2>3. QED
    BY <1>9, <2>1, <2>2 DEF Book, TiesKnown, Receive, table
<1>10. CASE EndWalk
  BY <1>10 DEF Book, RowsOnce, WalkFits, TiesKnown, EndWalk, NoWalk, table
<1>11. QED
  BY <1>1, <1>2, <1>3, <1>4, <1>5, <1>6, <1>7, <1>8, <1>9, <1>10 DEF Next

-----------------------------------------------------------------------------
(* What a walk misses *)

(* A row that comes moves others down, and is none that the walk looks for. *)
LEMMA InsertsKeep ==
  ASSUME TypeOK, TypeOK', Book, SkipsOnlyForRemovals, NEW r \in Rows,
         (\E owner \in Owners : BeginInsert(r, owner)) \/ CommitInsert(r)
  PROVE  SkipsOnlyForRemovals'
<1>1. /\ UNCHANGED <<list, offset, page, began, seen, tied, removed>>
      /\ \A s \in Rows : rows[s] # Nil => rows'[s] = rows[s]
  BY DEF BeginInsert, CommitInsert, walk, history, Book, RowsOnce, TypeOK
<1>2. \A s \in began \cap Listed' : s \in Listed /\ rows'[s] = rows[s]
  BY TableSteps DEF TableStep, Book
<1>3. Listed \in SUBSET (Listed')
  BY <1>1 DEF Listed, Matches
<1>4. ASSUME NEW s \in began \cap Listed'
      PROVE  s \in Listed /\ Newer(s) \in SUBSET (Newer(s)')
  BY <1>1, <1>2, <1>3 DEF Newer, Listed
<1>5. QED
  BY <1>1, <1>4, LaterKeeps

(* Of rows with time stamps of their own, at most one comes next. *)
LEMMA OneIsNext ==
  ASSUME TypeOK, NEW a \in Listed, NEW b \in Listed, rows[a].at # rows[b].at
  PROVE  Cardinality(Newer(a)) # Cardinality(Newer(b))
<1>1. ASSUME NEW x \in Listed, NEW y \in Listed, rows[x].at > rows[y].at
      PROVE  Cardinality(Newer(x)) < Cardinality(Newer(y))
  <2>1. /\ IsFiniteSet(Newer(x)) /\ IsFiniteSet(Newer(y))
        /\ Cardinality(Newer(x)) \in Nat /\ Cardinality(Newer(y)) \in Nat
        /\ \A s \in Listed : rows[s].at \in Nat
    BY ListedFinite DEF FiniteLists
  <2>2. x \notin Newer(x) /\ Newer(x) \cup {x} \in SUBSET Newer(y)
    BY <1>1, <2>1 DEF Newer
  <2>3. Cardinality(Newer(x) \cup {x}) = Cardinality(Newer(x)) + 1
    BY <2>1, <2>2, FS_AddElement
  <2>4. Cardinality(Newer(x) \cup {x}) <= Cardinality(Newer(y))
    BY <2>1, <2>2, FS_Subset
  <2>5. QED
    BY <2>1, <2>3, <2>4
<1>2. /\ rows[a].at \in Nat /\ rows[b].at \in Nat
      /\ Cardinality(Newer(a)) \in Nat /\ Cardinality(Newer(b)) \in Nat
  BY ListedFinite DEF FiniteLists
<1>3. rows[a].at > rows[b].at \/ rows[b].at > rows[a].at
  BY <1>2
<1>4. QED
  BY <1>1, <1>2, <1>3

(* One more row is out of reach when one is removed. *)
LEMMA RemovalMissesOne ==
  ASSUME TypeOK, TypeOK', TiesKnown, pc # "idle", offset > 0 \/ pc = "answered",
         NEW x \in Listed, Remove(x), NEW shown, NEW n \in Nat
  PROVE  \A a, b \in {r \in (began \cap Listed') \ (shown \cup tied) :
                          Cardinality(Newer(r)') < n} \ Passed(shown, n) : a = b
<1> DEFINE After == {r \in (began \cap Listed') \ (shown \cup tied) :
                        Cardinality(Newer(r)') < n}
<1>1. /\ Listed' = Listed \ {x}
      /\ \A r \in Rows \ {x} : rows'[r] = rows[r]
  BY DEF Remove, Listed, Matches, TypeOK
<1>2. ASSUME NEW r \in After \ Passed(shown, n)
      PROVE  Cardinality(Newer(r)) = n /\ r \in (began \cap Listed) \ tied
  <2>1. r \in Rows \ {x} /\ r \in Listed /\ r \notin tied
    BY <1>1 DEF Listed
  <2>2. Newer(r)' = Newer(r) \ {x}
    BY <1>1, <2>1 DEF Newer, Listed
  <2>3. IsFiniteSet(Newer(r)) /\ Cardinality(Newer(r)) \in Nat
    BY <2>1, ListedFinite DEF FiniteLists
  <2>4. Cardinality(Newer(r) \ {x}) >= Cardinality(Newer(r)) - 1
    <3>1. Cardinality(Newer(r) \ {x}) = IF x \in Newer(r) THEN Cardinality(Newer(r)) - 1
                                                          ELSE Cardinality(Newer(r))
      BY <2>3, FS_RemoveElement
    <3>2. QED
      BY <2>3, <3>1
  <2>5. Cardinality(Newer(r)) >= n
    BY <2>1, <2>3 DEF Passed
  <2>6. Cardinality(Newer(r) \ {x}) < n
    BY <2>2
  <2>7. IsFiniteSet(Newer(r) \ {x}) /\ Cardinality(Newer(r) \ {x}) \in Nat
    BY <2>3, FS_Subset, FS_CardinalityType
  <2>8. QED
    BY <2>1, <2>3, <2>4, <2>5, <2>6, <2>7
<1>3. ASSUME NEW a \in After \ Passed(shown, n), NEW b \in After \ Passed(shown, n),
             a # b
      PROVE  FALSE
  <2>1. /\ a \in Listed /\ b \in Listed /\ a \notin tied /\ a \in began /\ b \in began
        /\ Cardinality(Newer(a)) = Cardinality(Newer(b))
    BY <1>2
  <2>2. rows[a].at = rows[b].at
    BY <2>1, OneIsNext
  <2>3. QED
    BY <1>3, <2>1, <2>2 DEF TiesKnown
<1>4. QED
  BY <1>3

LEMMA RemoveKeeps ==
  ASSUME TypeOK, TypeOK', Book, Book', SkipsOnlyForRemovals,
         NEW x \in Rows, Remove(x)
  PROVE  SkipsOnlyForRemovals'
<1>1. UNCHANGED <<list, offset, page, pc, began, seen, tied>>
  BY DEF Remove, walk
<1>2. CASE offset = 0 /\ pc # "answered"
  <2>1. offset' = 0 /\ page' = {}
    BY <1>1, <1>2 DEF Book, WalkFits
  <2>2. QED
    BY <2>1, NothingMissedNext DEF NothingShown
<1>3. CASE x \notin Listed /\ ~(offset = 0 /\ pc # "answered")
  <2>1. pc # "idle" /\ removed \in SUBSET (removed') /\ removed' \in SUBSET removed
    BY <1>3 DEF Remove, Book, WalkFits
  <2>2. Listed' = Listed /\ \A r \in Listed : rows'[r] = rows[r]
    BY <1>3 DEF Remove, Listed, Matches, TypeOK
  <2>3. \A r \in began \cap Listed' : r \in Listed /\ Newer(r) \in SUBSET (Newer(r)')
    BY <2>2 DEF Newer
  <2>4. removed' = removed
    BY <2>1
  <2>5. QED
    BY <1>1, <2>3, <2>4, LaterKeeps
<1>4. CASE x \in Listed /\ ~(offset = 0 /\ pc # "answered")
  <2>1. /\ pc # "idle" /\ (offset > 0 \/ pc = "answered") /\ offset \in Nat
        /\ TiesKnown
    BY <1>4 DEF Book, WalkFits, TypeOK
  <2>2. /\ IsFiniteSet(removed) /\ Cardinality(removed) \in Nat
        /\ IsFiniteSet(Missed) /\ Cardinality(Missed) \in Nat
        /\ IsFiniteSet(MissedByPage) /\ Cardinality(MissedByPage) \in Nat
        /\ offset + Cardinality(page) \in Nat
    BY MissedFinite
  <2>3. removed' = removed \cup {x}
    BY <1>4, <2>1 DEF Remove
  <2>4. x \notin removed
    BY <1>4 DEF Book, RowsOnce, Listed
  <2>5. Cardinality(removed') = Cardinality(removed) + 1
    BY <2>2, <2>3, <2>4, FS_AddElement
  <2>6. \A a, b \in Missed' \ Missed : a = b
    BY <1>1, <1>4, <2>1, RemovalMissesOne DEF Missed, Passed
  <2>7. \A a, b \in MissedByPage' \ MissedByPage : a = b
    BY <1>1, <1>4, <2>1, <2>2, RemovalMissesOne DEF MissedByPage, Passed
  <2>8. Cardinality(Missed') <= Cardinality(Missed) + 1
    BY <2>2, <2>6, OneMore
  <2>9. Cardinality(MissedByPage') <= Cardinality(MissedByPage) + 1
    BY <2>2, <2>7, OneMore
  <2>10. Cardinality(Missed') \in Nat /\ Cardinality(MissedByPage') \in Nat
    BY MissedCountsNext DEF CountsAreNumbers
  <2>11. QED
    BY <2>2, <2>5, <2>8, <2>9, <2>10, MissesAre, MissesAreNext DEF MissedForRemovals
<1>5. QED
  BY <1>2, <1>3, <1>4

(* The answer carries what lies between the offset and its last row, but   *)
(* for rows that a tie may have put elsewhere.                             *)
LEMMA QueryKeeps ==
  ASSUME TypeOK, TypeOK', SkipsOnlyForRemovals, Query
  PROVE  SkipsOnlyForRemovals'
<1>1. PICK rank \in Orders : page' = Answer(rank, limit, offset)
  BY DEF Query
<1>2. PICK l \in Nat \ {0} : page' = Between(rank, l, offset)
  BY <1>1, AnswerIsBetween
<1>3. /\ UNCHANGED <<offset, began, seen, removed>>
      /\ tied' = tied \cup Tied
      /\ Listed' = Listed
      /\ \A r \in Listed : Newer(r)' = Newer(r)
  BY DEF Query, table, Listed, Newer, Matches
<1>4. /\ IsFiniteSet(Listed)
      /\ rank \in Bijection(Listed, 0..(Cardinality(Listed) - 1))
      /\ DOMAIN rank = Listed
      /\ \A r \in Listed : Cardinality(Newer(r)) \in Nat
  BY ListedFinite DEF FiniteLists, Orders, Bijection, Injection
<1>5. offset \in Nat /\ Cardinality(page') \in Nat /\ Cardinality(page') <= l
  BY <1>2, <1>4, PageBound DEF TypeOK
<1>6. Missed' \in SUBSET Missed
  BY <1>3 DEF Missed, Passed
<1>7. ASSUME NEW r \in MissedByPage'
      PROVE  r \in Missed
  <2>1. /\ r \in began \cap Listed /\ r \notin seen \cup page' /\ r \notin tied \cup Tied
        /\ Cardinality(Newer(r)) < offset + Cardinality(page')
    BY <1>3 DEF MissedByPage, Passed
  <2>2. rank[r] = Cardinality(Newer(r)) /\ Cardinality(Newer(r)) \in Nat
    BY <1>4, <2>1, UntiedHasPlace
  <2>3. ~(offset <= rank[r] /\ rank[r] < offset + l)
    BY <1>2, <1>4, <2>1 DEF Between
  <2>4. Cardinality(Newer(r)) < offset
    BY <1>5, <2>1, <2>2, <2>3
  <2>5. QED
    BY <2>1, <2>4 DEF Missed, Passed
<1>8. MissedByPage' \in SUBSET Missed
  BY <1>7
<1>9. /\ Cardinality(Missed') <= Cardinality(removed')
      /\ Cardinality(MissedByPage') <= Cardinality(removed')
  BY <1>3, <1>6, <1>8, NoMoreMissed
<1>10. QED
  BY <1>9, MissesAreNext DEF MissedForRemovals

(* The rest of a walk only moves the page over. *)
LEMMA WalkKeeps ==
  ASSUME TypeOK, TypeOK', Book, SkipsOnlyForRemovals, LoseAnswer \/ Receive
  PROVE  SkipsOnlyForRemovals'
<1>1. /\ UNCHANGED <<began, tied, removed>> /\ page' = {}
      /\ Listed' = Listed
      /\ \A r \in Listed : Newer(r)' = Newer(r)
  BY DEF LoseAnswer, Receive, table, history, Listed, Newer, Matches
<1>2. Cardinality(page') = 0 /\ offset \in Nat
  BY <1>1, FS_EmptySet DEF TypeOK
<1>3. CASE LoseAnswer
  <2>1. seen' = seen /\ seen' \cup page' = seen /\ offset' = offset
    BY <1>1, <1>3 DEF LoseAnswer, history
  <2>2. offset' + Cardinality(page') = offset
    BY <1>2, <2>1
  <2>3. Missed' \in SUBSET Missed /\ MissedByPage' \in SUBSET Missed
    BY <1>1, <2>1, <2>2 DEF Missed, MissedByPage, Passed
  <2>4. QED
    BY <1>1, <2>3, NoMoreMissed, MissesAreNext DEF MissedForRemovals
<1>4. CASE Receive
  <2>1. /\ seen' = seen \cup page /\ seen' \cup page' = seen \cup page
        /\ offset' = offset + Cardinality(page)
    BY <1>1, <1>4 DEF Receive
  <2>2. offset' + Cardinality(page') = offset + Cardinality(page)
    BY <1>2, <2>1, MissedFinite
  <2>3. Missed' \in SUBSET MissedByPage /\ MissedByPage' \in SUBSET MissedByPage
    BY <1>1, <2>1, <2>2 DEF Missed, MissedByPage, Passed
  <2>4. QED
    BY <1>1, <2>3, NoMoreMissed, MissesAreNext DEF MissedForRemovals
<1>5. QED
  BY <1>3, <1>4

LEMMA MissesNext ==
  ASSUME TypeOK, TypeOK', Book, Book', SkipsOnlyForRemovals, [Next]_vars
  PROVE  SkipsOnlyForRemovals'
<1>1. CASE UNCHANGED vars
  <2>1. UNCHANGED <<list, rows, offset, page, began, seen, tied, removed>>
    BY <1>1 DEF vars, table, walk, history
  <2>2. Listed' = Listed /\ \A r \in Listed : Newer(r)' = Newer(r)
    BY <2>1 DEF Listed, Newer, Matches
  <2>3. QED
    BY <2>1, <2>2, LaterKeeps
<1>2. ASSUME NEW r \in Rows, NEW owner \in Owners, BeginInsert(r, owner)
      PROVE  SkipsOnlyForRemovals'
  BY <1>2, InsertsKeep
<1>3. ASSUME NEW r \in Rows, CommitInsert(r) PROVE SkipsOnlyForRemovals'
  BY <1>3, InsertsKeep
<1>4. ASSUME NEW r \in Rows, Remove(r) PROVE SkipsOnlyForRemovals'
  BY <1>4, RemoveKeeps
<1>5. CASE Tick
  <2>1. UNCHANGED <<list, rows, offset, page, began, seen, tied, removed>>
    BY <1>5 DEF Tick, walk, history
  <2>2. Listed' = Listed /\ \A r \in Listed : Newer(r)' = Newer(r)
    BY <2>1 DEF Listed, Newer, Matches
  <2>3. QED
    BY <2>1, <2>2, LaterKeeps
<1>6. ASSUME NEW l \in Asked, BeginWalk(l) PROVE SkipsOnlyForRemovals'
  <2>1. NothingShown'
    BY <1>6 DEF BeginWalk, Book, WalkFits, NothingShown
  <2>2. QED
    BY <2>1, NothingMissedNext
<1>7. CASE Query
  BY <1>7, QueryKeeps
<1>8. CASE LoseAnswer \/ Receive
  BY <1>8, WalkKeeps
<1>9. CASE EndWalk
  <2>1. NothingShown'
    BY <1>9 DEF EndWalk, NoWalk, NothingShown
  <2>2. QED
    BY <2>1, NothingMissedNext
<1>10. QED
  BY <1>1, <1>2, <1>3, <1>4, <1>5, <1>6, <1>7, <1>8, <1>9 DEF Next

-----------------------------------------------------------------------------

(* Types: whatever rows come and go, a page holds rows and an offset is a  *)
(* number (every step of BeginInsert to EndWalk).                          *)
THEOREM ListingTypes == Spec => []TypeOK
<1>1. Init => TypeOK
  BY TypeOKInit
<1>2. TypeOK /\ [Next]_vars => TypeOK'
  BY TypeOKNext
<1>3. QED
  BY <1>1, <1>2, PTL DEF Spec

-----------------------------------------------------------------------------
(* The end of a walk *)

(* An empty page begins after the last row, so that every row has been     *)
(* passed.                                                                 *)
LEMMA EmptyPageIsLast ==
  ASSUME TypeOK, TypeOK', SkipsOnlyForRemovals, Query, page' = {}
  PROVE  Cardinality(Unshown') <= Cardinality(removed')
<1>1. PICK rank \in Orders : page' = Answer(rank, limit, offset)
  BY DEF Query
<1>2. PICK l \in Nat \ {0} : page' = Between(rank, l, offset)
  BY <1>1, AnswerIsBetween
<1>3. /\ UNCHANGED <<offset, began, seen, removed>>
      /\ tied' = tied \cup Tied
      /\ Listed' = Listed
  BY DEF Query, table, Listed, Matches
<1>4. /\ IsFiniteSet(Listed) /\ Cardinality(Listed) \in Nat
      /\ rank \in [Listed -> 0..(Cardinality(Listed) - 1)]
      /\ \A i \in 0..(Cardinality(Listed) - 1) : \E s \in Listed : rank[s] = i
  BY ListedFinite, FS_CardinalityType
     DEF FiniteLists, Orders, Bijection, Injection, Surjection
<1>5. offset \in Nat
  BY DEF TypeOK
<1>6. Cardinality(Listed) <= offset
  <2>1. SUFFICES ASSUME offset < Cardinality(Listed) PROVE FALSE
    BY <1>4, <1>5
  <2>2. PICK s \in Listed : rank[s] = offset
    BY <1>4, <1>5, <2>1
  <2>3. s \in Between(rank, l, offset)
    BY <1>4, <1>5, <2>2 DEF Between
  <2>4. QED
    BY <1>2, <2>3
<1>7. ASSUME NEW r \in Unshown'
      PROVE  r \in Missed
  <2>1. r \in began \cap Listed /\ r \notin seen /\ r \notin tied /\ r \notin Tied
    BY <1>3, <1>7 DEF Unshown
  <2>2. rank[r] = Cardinality(Newer(r))
    BY <2>1, UntiedHasPlace
  <2>3. rank[r] < offset
    BY <1>4, <1>5, <1>6, <2>1
  <2>4. QED
    BY <2>1, <2>2, <2>3 DEF Missed, Passed
<1>8. Unshown' \in SUBSET Missed
  BY <1>7
<1>9. QED
  BY <1>3, <1>8, NoMoreMissed

(* What comes later is not looked for, and what goes is not missed twice.  *)
LEMMA UnshownShrinks ==
  ASSUME TypeOK, TypeOK', EndsInFull, pc = "answered", page = {},
         UNCHANGED <<began, seen, tied>>,
         \A r \in began \cap Listed' : r \in Listed,
         removed' = removed \/ \E r \in Rows : removed' = removed \cup ({r} \cap Listed)
  PROVE  Cardinality(Unshown') <= Cardinality(removed')
<1>1. Unshown' \in SUBSET Unshown
  BY DEF Unshown
<1>2. /\ Unshown \in SUBSET Rows /\ Unshown' \in SUBSET Rows
      /\ removed \in SUBSET (removed') /\ removed' \in SUBSET Rows
  BY DEF Unshown, Listed, TypeOK
<1>3. /\ IsFiniteSet(Unshown) /\ IsFiniteSet(removed')
      /\ Cardinality(Unshown) \in Nat /\ Cardinality(Unshown') \in Nat
  BY <1>2, ListingAssumption, FS_Subset, FS_CardinalityType
<1>4. /\ Cardinality(removed) \in Nat /\ Cardinality(removed') \in Nat
      /\ Cardinality(removed) <= Cardinality(removed')
  BY <1>2, <1>3, MissedFinite, FS_Subset, FS_CardinalityType
<1>5. Cardinality(Unshown') <= Cardinality(Unshown)
  BY <1>1, <1>3, FS_Subset
<1>6. Cardinality(Unshown) <= Cardinality(removed)
  BY DEF EndsInFull
<1>7. QED
  BY <1>3, <1>4, <1>5, <1>6

LEMMA EndsInFullNext ==
  ASSUME TypeOK, TypeOK', Book, SkipsOnlyForRemovals, EndsInFull, [Next]_vars
  PROVE  EndsInFull'
<1> SUFFICES ASSUME pc' = "answered", page' = {}
             PROVE  Cardinality(Unshown') <= Cardinality(removed')
  BY DEF EndsInFull
<1>1. CASE UNCHANGED vars \/ Tick
  <2>1. /\ UNCHANGED <<page, pc, began, seen, tied, removed>>
        /\ Listed' = Listed
    BY <1>1 DEF vars, table, walk, history, Tick, Listed, Matches
  <2>2. QED
    BY <2>1, UnshownShrinks
<1>2. ASSUME NEW r \in Rows,
             (\E owner \in Owners : BeginInsert(r, owner)) \/ CommitInsert(r) \/ Remove(r)
      PROVE  Cardinality(Unshown') <= Cardinality(removed')
  <2>1. TableStep
    BY <1>2, TableSteps DEF Book
  <2>2. page = {} /\ pc = "answered"
    BY <2>1 DEF TableStep, walk
  <2>3. removed' = removed \/ removed' = removed \cup ({r} \cap Listed)
    BY <1>2, <2>2 DEF BeginInsert, CommitInsert, Remove, history
  <2>4. QED
    BY <2>1, <2>2, <2>3, UnshownShrinks DEF TableStep
<1>3. CASE Query
  BY <1>3, EmptyPageIsLast
<1>4. CASE \/ \E l \in Asked : BeginWalk(l)
           \/ LoseAnswer \/ Receive \/ EndWalk
  BY <1>4 DEF BeginWalk, LoseAnswer, Receive, EndWalk, NoWalk
<1>5. QED
  BY <1>1, <1>2, <1>3, <1>4 DEF Next

-----------------------------------------------------------------------------

IInv == TypeOK /\ Book /\ SkipsOnlyForRemovals /\ EndsInFull

(* A client that goes through any of the lists, page by page, with any     *)
(* limit, while any rows are inserted, committed late and deleted under it *)
(* and any answers are lost, misses at most as many rows as were removed   *)
(* during its walk, and has missed no more when it is given the page       *)
(* without rows that ends it (ORDER BY ... DESC with LIMIT and OFFSET).    *)
THEOREM WalksMissOnlyForRemovals == Spec => []MissesOnlyForRemovals
<1>1. Init => IInv
  <2>1. Init => NothingShown /\ EndsInFull
    BY DEF Init, NothingShown, EndsInFull
  <2>2. QED
    BY <2>1, TypeOKInit, BookInit, NothingMissed DEF IInv
<1>2. IInv /\ [Next]_vars => IInv'
  BY TypeOKNext, BookNext, MissesNext, EndsInFullNext DEF IInv
<1>3. IInv => MissesOnlyForRemovals
  BY DEF IInv, MissesOnlyForRemovals
<1>4. QED
  BY <1>1, <1>2, <1>3, PTL DEF Spec

-----------------------------------------------------------------------------
(* The bound of a walk *)

(* A page with rows ends within the list. *)
LEMMA PageWithin ==
  ASSUME NEW L, IsFiniteSet(L), NEW rank \in Bijection(L, 0..(Cardinality(L) - 1)),
         NEW l \in Nat, NEW o \in Nat, Between(rank, l, o) # {}
  PROVE  o + Cardinality(Between(rank, l, o)) <= Cardinality(L)
<1> DEFINE P == Between(rank, l, o)
           n == Cardinality(L)
<1>0. n \in Nat
  BY FS_CardinalityType
<1>1. /\ rank \in [L -> 0..(n - 1)]
      /\ \A s, t \in L : rank[s] = rank[t] => s = t
  BY DEF Bijection, Injection, IsInjective
<1>2. \A s \in P : s \in L /\ rank[s] \in o..(n - 1)
  BY <1>0, <1>1 DEF Between
<1>3. o <= n - 1
  BY <1>0, <1>2
<1> DEFINE f == [s \in P |-> rank[s]]
<1>4. f \in Injection(P, o..(n - 1))
  BY <1>1, <1>2 DEF Injection, IsInjective
<1>5. IsFiniteSet(o..(n - 1)) /\ Cardinality(o..(n - 1)) = n - o
  <2> HIDE DEF n
  <2>1. o \in Int /\ n - 1 \in Int
    BY <1>0
  <2>2. /\ IsFiniteSet(o..(n - 1))
        /\ Cardinality(o..(n - 1)) = IF o > n - 1 THEN 0 ELSE (n - 1) - o + 1
    BY <2>1, FS_Interval
  <2>3. QED
    BY <1>0, <1>3, <2>2
<1>6. IsFiniteSet(P) /\ Cardinality(P) <= Cardinality(o..(n - 1))
  BY <1>4, <1>5, FS_Injection
<1>7. Cardinality(P) \in Nat
  BY <1>6, FS_CardinalityType
<1> HIDE DEF P, n
<1>8. o + Cardinality(P) <= n
  BY <1>0, <1>5, <1>6, <1>7
<1>9. QED
  BY <1>8 DEF P, n

PagesWithinRows == page # {} => offset + Cardinality(page) <= MaxOffset

(* Rows that the list ever came to hold. *)
Ever == gone \cup {r \in Rows : rows[r] # Nil}

LEMMA EverGrows ==
  ASSUME TypeOK, TypeOK', [Next]_vars
  PROVE  /\ Ever \in SUBSET (Ever') /\ IsFiniteSet(Ever')
         /\ Cardinality(Ever) \in Nat /\ Cardinality(Ever') \in Nat
         /\ Cardinality(Ever) <= Cardinality(Ever')
<1>1. Ever \in SUBSET (Ever')
  BY DEF Ever, Next, BeginInsert, CommitInsert, Remove, Tick, BeginWalk, Query,
         LoseAnswer, Receive, EndWalk, vars, table, TypeOK
<1>2. Ever' \in SUBSET Rows
  BY DEF Ever, TypeOK
<1>3. IsFiniteSet(Ever')
  BY <1>2, ListingAssumption, FS_Subset
<1>4. QED
  BY <1>1, <1>3, FS_Subset, FS_CardinalityType

LEMMA PagesNext ==
  ASSUME TypeOK, TypeOK', PagesWithinRows, [Next]_vars
  PROVE  PagesWithinRows'
<1> SUFFICES ASSUME page' # {}
             PROVE  offset' + Cardinality(page') <= Cardinality(Ever')
  BY DEF PagesWithinRows, MaxOffset, Ever
<1>1. CASE Query
  <2>1. PICK rank \in Orders : page' = Answer(rank, limit, offset)
    BY <1>1 DEF Query
  <2>2. PICK l \in Nat \ {0} : page' = Between(rank, l, offset)
    BY <2>1, AnswerIsBetween
  <2>3. IsFiniteSet(Listed) /\ rank \in Bijection(Listed, 0..(Cardinality(Listed) - 1))
    BY ListedFinite DEF FiniteLists, Orders
  <2>4. offset + Cardinality(page') <= Cardinality(Listed)
    BY <2>2, <2>3, PageWithin DEF TypeOK
  <2>5. Listed \in SUBSET (Ever') /\ offset' = offset
    BY <1>1 DEF Query, table, Listed, Ever
  <2>6. Cardinality(Listed) <= Cardinality(Ever') /\ Cardinality(Listed) \in Nat
    BY <2>3, <2>5, EverGrows, FS_Subset, FS_CardinalityType
  <2>7. offset \in Nat /\ Cardinality(page') \in Nat
    BY <2>2, <2>3, PageBound DEF TypeOK
  <2>8. QED
    BY <2>4, <2>5, <2>6, <2>7, EverGrows
<1>2. CASE ~Query
  <2>1. page' = page /\ offset' = offset
    BY <1>2 DEF Next, BeginInsert, CommitInsert, Remove, Tick, BeginWalk,
                LoseAnswer, Receive, EndWalk, NoWalk, vars, walk, table
  <2>2. offset + Cardinality(page) <= Cardinality(Ever)
    BY <2>1 DEF PagesWithinRows, MaxOffset, Ever
  <2>3. offset + Cardinality(page) \in Nat
    BY MissedFinite
  <2>4. QED
    BY <2>1, <2>2, <2>3, EverGrows
<1>3. QED
  BY <1>1, <1>2

(* A page with rows never ends beyond the rows there ever were: MaxOffset, *)
(* which stands in Receive's guard to bound the walk, refuses no page that *)
(* the server can give, so that the bounded walk is the walk.              *)
THEOREM WalksStayWithinRows == Spec => []PagesWithinRows
<1>1. Init => PagesWithinRows
  BY DEF Init, PagesWithinRows
<1>2. TypeOK /\ PagesWithinRows /\ [Next]_vars => PagesWithinRows'
  BY TypeOKNext, PagesNext
<1>3. QED
  BY <1>1, <1>2, ListingTypes, PTL DEF Spec
=============================================================================
