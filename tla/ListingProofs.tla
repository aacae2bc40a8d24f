--------------------------- MODULE ListingProofs ---------------------------
(***************************************************************************)
(* Proofs about what the user is shown: the recommendation is the head of  *)
(* the ranking the design describes, its message loses and repeats no item *)
(* and fits into Telegram's limit, and the arrows of a list show every     *)
(* item of it once; whatever the tables, the limits and the date.          *)
(***************************************************************************)
EXTENDS Listing, OrdersProofs

\* A recommendation has no arrows, which would turn it into a list.
ScreenInv ==
    screen.kind \notin {"list", "history"} => ~screen.next /\ screen.page = 0

\* Every row is one that Telegram takes in a message of its own.
TextInv ==
    \A i \in DOMAIN items :
        items[i].runes <= items[i].units /\ Overhead + items[i].units <= MaxUnits

\* While nothing changes, the pages of a walk are those of the list as it is.
WalkInv ==
    fresh /\ screen.kind \in {"list", "history"} /\ begun \notin ListFilters =>
        /\ screen.filter = begun
        /\ screen.kind = "list" => begun = NoFilter
        /\ walk = [p \in 1..screen.page + 1 |-> ListItemsPage(begun, p - 1)]
        /\ screen.next <=> Len(walk[screen.page + 1]) = PageSize

IInv ==
    /\ TypeOK /\ ScreenInv /\ TextInv /\ WalkInv
    /\ MostUrgentFirst /\ EveryItemOnce /\ PartsFit

-----------------------------------------------------------------------------
(* The orders. *)

LEMMA BeforeIsUrgency ==
    ASSUME NEW i, NEW j, Before(i, j)
    PROVE  MoreUrgent(i, j)
<1> DEFINE key(n) == <<DeadlineBucket(items[n].deadline), items[n].quadrant,
                       items[n].deadline, items[n].created, n>>
<1>1. PICK k \in DOMAIN key(i) :
          key(i)[k] < key(j)[k] /\ \A m \in 1..k - 1 : key(i)[m] = key(j)[m]
  BY Zenon DEF Before, Lexical
<1>2. k \in 1..5
  BY <1>1
<1>3. CASE k = 1
  BY <1>1, <1>3 DEF MoreUrgent
<1>4. CASE k = 2
  <2>1. key(i)[1] = key(j)[1]
    BY <1>1, <1>4
  <2> QED  BY <1>1, <1>4, <2>1 DEF MoreUrgent
<1>5. CASE k = 3
  <2>1. key(i)[1] = key(j)[1] /\ key(i)[2] = key(j)[2]
    BY <1>1, <1>5
  <2> QED  BY <1>1, <1>5, <2>1 DEF MoreUrgent
<1>6. CASE k = 4
  <2>1. key(i)[1] = key(j)[1] /\ key(i)[2] = key(j)[2] /\ key(i)[3] = key(j)[3]
    BY <1>1, <1>6
  <2> QED  BY <1>1, <1>6, <2>1 DEF MoreUrgent
<1>7. CASE k = 5
  <2>1. /\ key(i)[1] = key(j)[1] /\ key(i)[2] = key(j)[2]
        /\ key(i)[3] = key(j)[3] /\ key(i)[4] = key(j)[4]
    BY <1>1, <1>7
  <2> QED  BY <1>1, <1>7, <2>1 DEF MoreUrgent
<1> QED  BY <1>2, <1>3, <1>4, <1>5, <1>6, <1>7

\* The pairs of S that Before, and the pairs that Earlier, has in its order.
ByUrgency(S) == {r \in S \X S : Before(r[1], r[2])}
ByDeadline(S) == {r \in S \X S : Earlier(r[1], r[2])}

LEMMA KeysAreNumbers ==
    ASSUME items \in Seq(Row), NEW n \in DOMAIN items
    PROVE  /\ n \in Int /\ items[n].deadline \in Int /\ items[n].quadrant \in Int
           /\ items[n].created \in Int /\ DeadlineBucket(items[n].deadline) \in Int
<1>1. items[n] \in Row
  OBVIOUS
<1> QED  BY <1>1, SMTT(30) DEF Row, DeadlineBucket

LEMMA BeforeIsStrict ==
    ASSUME items \in Seq(Row), NEW S \in SUBSET DOMAIN items
    PROVE  StrictOrder(S, ByUrgency(S))
<1> DEFINE key == [n \in S |-> <<DeadlineBucket(items[n].deadline), items[n].quadrant,
                                 items[n].deadline, items[n].created, n>>]
<1>1. key \in [S -> [1..5 -> Int]]
  BY KeysAreNumbers
<1>2. \A i, j \in S : i # j => key[i] # key[j]
  <2>1. \A i \in S : key[i][5] = i
    OBVIOUS
  <2> HIDE DEF key
  <2> QED  BY <2>1
<1>3. ByUrgency(S) = {r \in S \X S : Lexical(key[r[1]], key[r[2]])}
  BY DEF ByUrgency, Before
<1> HIDE DEF key
<1>4. StrictOrder(S, {r \in S \X S : Lexical(key[r[1]], key[r[2]])})
  BY <1>1, <1>2, LexicalOrdersKeys
<1> QED  BY <1>3, <1>4

LEMMA EarlierIsStrict ==
    ASSUME items \in Seq(Row), NEW S \in SUBSET DOMAIN items
    PROVE  StrictOrder(S, ByDeadline(S))
<1> DEFINE key == [n \in S |-> <<items[n].deadline, items[n].quadrant,
                                 items[n].created, n>>]
<1>1. key \in [S -> [1..4 -> Int]]
  BY KeysAreNumbers
<1>2. \A i, j \in S : i # j => key[i] # key[j]
  <2>1. \A i \in S : key[i][4] = i
    OBVIOUS
  <2> HIDE DEF key
  <2> QED  BY <2>1
<1>3. ByDeadline(S) = {r \in S \X S : Lexical(key[r[1]], key[r[2]])}
  BY DEF ByDeadline, Earlier
<1> HIDE DEF key
<1>4. StrictOrder(S, {r \in S \X S : Lexical(key[r[1]], key[r[2]])})
  BY <1>1, <1>2, LexicalOrdersKeys
<1> QED  BY <1>3, <1>4

-----------------------------------------------------------------------------
(* The ranking. *)

LEMMA EligibleIsOpen ==
    Eligible = {i \in DOMAIN items :
                    items[i].status = "active" /\ items[i].project \notin archived}
<1> DEFINE f == [NoFilter EXCEPT !.status = "active"]
<1>1. /\ NoFilter \in [project : {NoLimit}, quadrant : {NoLimit}, status : {NoLimit},
                       bucket : {-1}, archived : {FALSE}]
  BY DEF NoFilter
<1>2. /\ f.project = NoLimit /\ f.quadrant = NoLimit /\ f.status = "active"
      /\ f.bucket = -1 /\ f.archived = FALSE
  BY <1>1
<1>3. NoLimit # "active"
  BY NoLimitAssumption DEF Statuses
<1> QED  BY <1>2, <1>3 DEF Eligible, Matches

\* What matches a filter is a finite set of items.
LEMMA MatchesAreFinite ==
    ASSUME items \in Seq(Row), NEW f
    PROVE  Matches(f) \subseteq DOMAIN items /\ IsFiniteSet(Matches(f))
<1>1. Matches(f) \in SUBSET DOMAIN items
  BY DEF Matches
<1>2. DOMAIN items = 1..Len(items) /\ Len(items) \in Nat
  OBVIOUS
<1>3. IsFiniteSet(DOMAIN items)
  BY <1>2, FS_Interval
<1> QED  BY <1>1, <1>3, FS_Subset

LEMMA RankingIsComplete ==
    ASSUME items \in Seq(Row)
    PROVE  /\ Ranking \in Seq(Eligible)
           /\ \A i \in Eligible : \E k \in DOMAIN Ranking : Ranking[k] = i
           /\ \A j, k \in DOMAIN Ranking : j < k => MoreUrgent(Ranking[j], Ranking[k])
<1> DEFINE R == ByUrgency(Eligible)
<1>1. Eligible \in SUBSET DOMAIN items /\ IsFiniteSet(Eligible)
  BY MatchesAreFinite DEF Eligible
<1>2. StrictOrder(Eligible, R)
  BY <1>1, BeforeIsStrict
<1>3. Ranking = Sorted(Eligible, R)
  BY DEF Ranking, ByUrgency
<1> HIDE DEF R
<1>4. /\ Ranking \in Seq(Eligible) /\ Increasing(Ranking, R)
      /\ \A i \in Eligible : \E k \in DOMAIN Ranking : Ranking[k] = i
  BY <1>1, <1>2, <1>3, SortedEnumerates
<1>5. \A i, j : <<i, j>> \in R => MoreUrgent(i, j)
  <2>1. \A i, j : <<i, j>> \in R => Before(i, j)
    BY DEF R, ByUrgency
  <2> QED  BY <2>1, BeforeIsUrgency
<1> QED  BY <1>4, <1>5 DEF Increasing

LEMMA LeastOfTwo ==
    ASSUME NEW a \in Nat, NEW b \in Nat
    PROVE  Min({a, b}) = IF a <= b THEN a ELSE b
<1>1. \E x \in {a, b} : \A y \in {a, b} : x =< y
  OBVIOUS
<1>2. Min({a, b}) \in {a, b} /\ \A y \in {a, b} : Min({a, b}) =< y
  BY <1>1, Zenon DEF Min
<1> HIDE DEF Min
<1> QED  BY <1>2

LEMMA HeadOfSequence ==
    ASSUME NEW S, NEW s \in Seq(S), NEW n \in Nat, n <= Len(s)
    PROVE  LET h == SubSeq(s, 1, n)
           IN  h \in Seq(S) /\ Len(h) = n /\ DOMAIN h = 1..n /\ \A k \in 1..n : h[k] = s[k]
OBVIOUS

\* The recommendation is the head of the ranking.
LEMMA SelectIsHead ==
    ASSUME NEW S, NEW s \in Seq(S)
    PROVE  \E n \in Nat :
               /\ n <= Len(s) /\ n <= Limit /\ (n = Limit \/ n = Len(s))
               /\ Select(s) \in Seq(S) /\ Len(Select(s)) = n
               /\ \A k \in 1..n : k \in DOMAIN s /\ Select(s)[k] = s[k]
<1>1. Len(s) \in Nat /\ Limit \in Nat
  BY BoundsAssumption
<1>2. PICK n \in Nat : /\ n <= Len(s) /\ n <= Limit /\ (n = Limit \/ n = Len(s))
                      /\ Select(s) = SubSeq(s, 1, n)
  <2> DEFINE m == Min({Limit, Len(s)})
  <2>1. m = IF Limit <= Len(s) THEN Limit ELSE Len(s)
    BY <1>1, LeastOfTwo
  <2>2. Select(s) = SubSeq(s, 1, m)
    BY DEF Select
  <2> HIDE DEF m
  <2> QED  BY <1>1, <2>1, <2>2
<1>3. /\ Select(s) \in Seq(S) /\ Len(Select(s)) = n
      /\ \A k \in 1..n : Select(s)[k] = s[k]
  BY <1>2, HeadOfSequence
<1>4. \A k \in 1..n : k \in DOMAIN s
  BY <1>1, <1>2
<1> QED  BY <1>2, <1>3, <1>4

LEMMA SelectIsMostUrgent ==
    ASSUME items \in Seq(Row)
    PROVE  Ranked(Select(Ranking))
<1> DEFINE rows == Select(Ranking)
           chosen == ToSet(rows)
<1>1. /\ Ranking \in Seq(Eligible)
      /\ \A i \in Eligible : \E k \in DOMAIN Ranking : Ranking[k] = i
      /\ \A j, k \in DOMAIN Ranking : j < k => MoreUrgent(Ranking[j], Ranking[k])
  BY RankingIsComplete
<1>2. PICK n \in Nat : /\ n <= Len(Ranking) /\ n <= Limit
                      /\ (n = Limit \/ n = Len(Ranking))
                      /\ rows \in Seq(Eligible) /\ Len(rows) = n
                      /\ \A k \in 1..n : k \in DOMAIN Ranking /\ rows[k] = Ranking[k]
  BY <1>1, SelectIsHead
<1> HIDE DEF rows, chosen
<1>3. DOMAIN rows = 1..n /\ Limit \in Nat
  BY <1>2, BoundsAssumption
<1>4. chosen = {Ranking[k] : k \in 1..n}
  BY <1>2, <1>3 DEF ToSet, chosen
<1>5. chosen \subseteq Eligible
  BY <1>1, <1>2, <1>4
<1>6. \A j, k \in DOMAIN rows : j < k => MoreUrgent(rows[j], rows[k])
  BY <1>1, <1>2, <1>3
<1>7. \A i \in chosen, j \in Eligible \ chosen : MoreUrgent(i, j)
  <2> SUFFICES ASSUME NEW i \in chosen, NEW j \in Eligible \ chosen
               PROVE  MoreUrgent(i, j)
    OBVIOUS
  <2>1. PICK a \in 1..n : Ranking[a] = i
    BY <1>4
  <2>2. PICK b \in DOMAIN Ranking : Ranking[b] = j
    BY <1>1
  <2>3. b \notin 1..n
    BY <1>4, <2>2
  <2>4. a \in DOMAIN Ranking /\ a < b
    <3>1. b \in Nat /\ 1 <= b
      BY <1>1
    <3> QED  BY <1>2, <2>3, <3>1
  <2> QED  BY <1>1, <2>1, <2>2, <2>4
<1>8. Len(rows) < Limit => chosen = Eligible
  <2>1. Len(rows) < Limit => n = Len(Ranking)
    BY <1>2, <1>3
  <2> QED  BY <1>1, <1>4, <1>5, <2>1
<1> QED  BY <1>5, <1>6, <1>7, <1>8, EligibleIsOpen DEF Ranked, rows, chosen

-----------------------------------------------------------------------------
(* The parts of the message, for a selection of the items. *)

\* The first ordinal of the project of ordinal k.
Best(rows, k) ==
    Min({n \in DOMAIN rows : items[rows[n]].project = items[rows[k]].project})

\* Ordinals by the best of their project, and by themselves.
ByProject(rows) ==
    {r \in (DOMAIN rows) \X (DOMAIN rows) :
        \/ Best(rows, r[1]) < Best(rows, r[2])
        \/ Best(rows, r[1]) = Best(rows, r[2]) /\ r[1] < r[2]}

LEMMA ByProjectPairs ==
    ASSUME NEW rows, NEW j \in DOMAIN rows, NEW k \in DOMAIN rows
    PROVE  <<j, k>> \in ByProject(rows) <=>
               \/ Best(rows, j) < Best(rows, k)
               \/ Best(rows, j) = Best(rows, k) /\ j < k
<1> DEFINE r == <<j, k>>
<1>1. r \in (DOMAIN rows) \X (DOMAIN rows) /\ r[1] = j /\ r[2] = k
  OBVIOUS
<1> HIDE DEF r
<1>2. r \in ByProject(rows) <=>
          \/ Best(rows, r[1]) < Best(rows, r[2])
          \/ Best(rows, r[1]) = Best(rows, r[2]) /\ r[1] < r[2]
  BY <1>1 DEF ByProject
<1> QED  BY <1>1, <1>2 DEF r

LEMMA LeastIsMin ==
    ASSUME NEW T \in SUBSET Nat, NEW x \in T, \A y \in T : x <= y
    PROVE  Min(T) = x
<1>1. Min(T) \in T /\ \A y \in T : Min(T) =< y
  BY Zenon DEF Min
<1>2. Min(T) <= x /\ x <= Min(T) /\ Min(T) \in Nat /\ x \in Nat
  BY <1>1
<1> QED  BY <1>2

LEMMA NaturalOrder ==
    ASSUME NEW D \in SUBSET Nat, NEW S \in SUBSET D
    PROVE  StrictOrder(S, {r \in D \X D : r[1] < r[2]})
<1> DEFINE R == {r \in D \X D : r[1] < r[2]}
<1>1. \A i, j \in D : <<i, j>> \in R <=> i < j
  OBVIOUS
<1> HIDE DEF R
<1>2. StrictOrder(S, R)
  BY <1>1 DEF StrictOrder
<1> QED  BY <1>2 DEF R

\* Each group holds all the ordinals of one project, ascending, and the
\* groups follow each other by their first ordinals.
LEMMA GroupsAreProjects ==
    ASSUME items \in Seq(Row), NEW rows \in Seq(DOMAIN items)
    PROVE  /\ Group(rows) \in Seq(Seq(DOMAIN rows))
           /\ \A g \in DOMAIN Group(rows) :
                 /\ Increasing(Group(rows)[g], ByProject(rows))
                 /\ \A j, k \in ToSet(Group(rows)[g]) :
                        items[rows[j]].project = items[rows[k]].project
           /\ \A g, h \in DOMAIN Group(rows) : g < h =>
                 \A x \in ToSet(Group(rows)[g]), y \in ToSet(Group(rows)[h]) :
                     <<x, y>> \in ByProject(rows)
           /\ UNION {ToSet(Group(rows)[g]) : g \in DOMAIN Group(rows)} = DOMAIN rows
           /\ rows # <<>> => Group(rows) # <<>>
<1> DEFINE D == DOMAIN rows
           project(k) == items[rows[k]].project
           P == {project(k) : k \in D}
           less == {r \in D \X D : r[1] < r[2]}
           K(p) == {k \in D : project(k) = p}
           of(p) == Sorted(K(p), less)
           first == {r \in P \X P : of(r[1])[1] < of(r[2])[1]}
           names == Sorted(P, first)
           G == Group(rows)
           R == ByProject(rows)
<1>1. D \in SUBSET Nat /\ IsFiniteSet(D)
  <2>1. D = 1..Len(rows) /\ Len(rows) \in Nat
    OBVIOUS
  <2> QED  BY <2>1, FS_Interval
<1>2. \A p \in P : /\ of(p) \in Seq(K(p)) /\ Increasing(of(p), less)
                  /\ \A k \in K(p) : \E n \in DOMAIN of(p) : of(p)[n] = k
  <2> SUFFICES ASSUME NEW p \in P
               PROVE  /\ of(p) \in Seq(K(p)) /\ Increasing(of(p), less)
                      /\ \A k \in K(p) : \E n \in DOMAIN of(p) : of(p)[n] = k
    OBVIOUS
  <2>1. K(p) \in SUBSET D
    OBVIOUS
  <2>2. IsFiniteSet(K(p)) /\ StrictOrder(K(p), less)
    <3> HIDE DEF K, D
    <3> QED  BY <1>1, <2>1, FS_Subset, NaturalOrder
  <2> HIDE DEF K, less
  <2> QED  BY <2>2, SortedEnumerates
<1>3. G = [g \in DOMAIN names |-> of(names[g])]
  BY DEF Group
<1>4. \A j, k \in D : <<j, k>> \in less <=> j < k
  OBVIOUS
<1>5. \A k \in D : /\ project(k) \in P /\ k \in K(project(k))
                  /\ Best(rows, k) = Min(K(project(k)))
  BY DEF Best
<1>6. \A p \in P : K(p) # {} /\ K(p) \subseteq D
  OBVIOUS
<1>7. \A p \in P : \A k \in K(p) : project(k) = p
  OBVIOUS
<1>8. \A j, k \in D : <<j, k>> \in R <=>
          \/ Best(rows, j) < Best(rows, k)
          \/ Best(rows, j) = Best(rows, k) /\ j < k
  BY ByProjectPairs
<1>9. \A p, q \in P : <<p, q>> \in first <=> of(p)[1] < of(q)[1]
  OBVIOUS
<1>10. IsFiniteSet(P)
  <2> DEFINE f == [k \in D |-> project(k)]
  <2>1. f \in Surjection(D, P)
    BY DEF Surjection
  <2> HIDE DEF f, D, P
  <2> QED  BY <1>1, <2>1, FS_Surjection
<1>11. names = Sorted(P, first)
  OBVIOUS
<1> HIDE DEF D, project, P, less, K, of, first, names, G, R
<1>12. \A p \in P : /\ 1 \in DOMAIN of(p) /\ of(p)[1] \in K(p)
                   /\ \A k \in K(p) : of(p)[1] <= k
  <2> SUFFICES ASSUME NEW p \in P
               PROVE  /\ 1 \in DOMAIN of(p) /\ of(p)[1] \in K(p)
                      /\ \A k \in K(p) : of(p)[1] <= k
    OBVIOUS
  <2>1. /\ of(p) \in Seq(K(p)) /\ Increasing(of(p), less)
        /\ \A k \in K(p) : \E n \in DOMAIN of(p) : of(p)[n] = k
    BY <1>2
  <2>2. K(p) # {} /\ K(p) \subseteq D
    BY <1>6
  <2>3. 1 \in DOMAIN of(p) /\ of(p)[1] \in K(p)
    BY <2>1, <2>2
  <2>4. ASSUME NEW k \in K(p)
        PROVE  of(p)[1] <= k
    <3>1. PICK n \in DOMAIN of(p) : of(p)[n] = k
      BY <2>1
    <3> of(p)[1] \in Nat /\ k \in Nat
      BY <1>1, <2>2, <2>3
    <3>2. CASE n = 1
      BY <3>1, <3>2
    <3>3. CASE n # 1
      <4>1. 1 < n
        BY <2>1, <3>3
      <4>2. <<of(p)[1], k>> \in less
        BY <2>1, <2>3, <3>1, <4>1 DEF Increasing
      <4>3. of(p)[1] \in D /\ k \in D
        BY <2>2, <2>3
      <4> QED  BY <1>4, <4>2, <4>3
    <3> QED  BY <3>2, <3>3
  <2> QED  BY <2>3, <2>4
<1>13. \A p \in P : of(p)[1] \in D /\ project(of(p)[1]) = p
  BY <1>6, <1>7, <1>12
<1>14. \A k \in D : Best(rows, k) = of(project(k))[1]
  <2> SUFFICES ASSUME NEW k \in D
               PROVE  Min(K(project(k))) = of(project(k))[1]
    BY <1>5
  <2>1. project(k) \in P
    BY <1>5
  <2>2. K(project(k)) \in SUBSET Nat
    BY <1>1, <1>6, <2>1
  <2> QED  BY <1>12, <2>1, <2>2, LeastIsMin
<1>15. StrictOrder(P, first)
  <2>1. \A p \in P : of(p)[1] \in Nat
    BY <1>1, <1>13
  <2>2. \A p, q \in P : p # q => of(p)[1] # of(q)[1]
    BY <1>13
  <2>3. \A p \in P : <<p, p>> \notin first
    BY <1>9, <2>1
  <2>4. ASSUME NEW p \in P, NEW q \in P, NEW t \in P,
               <<p, q>> \in first, <<q, t>> \in first
        PROVE  <<p, t>> \in first
    <3>1. of(p)[1] < of(q)[1] /\ of(q)[1] < of(t)[1]
      BY <1>9, <2>4
    <3>2. of(p)[1] < of(t)[1]
      BY <2>1, <3>1
    <3> QED  BY <1>9, <3>2
  <2>5. ASSUME NEW p \in P, NEW q \in P, p # q
        PROVE  <<p, q>> \in first \/ <<q, p>> \in first
    <3>1. of(p)[1] < of(q)[1] \/ of(q)[1] < of(p)[1]
      BY <2>1, <2>2, <2>5
    <3> QED  BY <1>9, <3>1
  <2> QED  BY <2>3, <2>4, <2>5 DEF StrictOrder
<1>16. /\ names \in Seq(P) /\ Increasing(names, first)
       /\ \A p \in P : \E g \in DOMAIN names : names[g] = p
  BY <1>10, <1>11, <1>15, SortedEnumerates
<1>17. DOMAIN G = DOMAIN names /\ \A g \in DOMAIN names : G[g] = of(names[g])
  BY <1>3
<1>18. \A g \in DOMAIN names : names[g] \in P
  BY <1>16
<1>19. \A p \in P : of(p) \in Seq(D) /\ ToSet(of(p)) = K(p)
  <2> SUFFICES ASSUME NEW p \in P
               PROVE  of(p) \in Seq(D) /\ ToSet(of(p)) = K(p)
    OBVIOUS
  <2>1. /\ of(p) \in Seq(K(p)) /\ K(p) \subseteq D
        /\ \A k \in K(p) : \E n \in DOMAIN of(p) : of(p)[n] = k
    BY <1>2, <1>6
  <2> QED  BY <2>1 DEF ToSet
<1>20. G \in Seq(Seq(D))
  <2>1. DOMAIN G = 1..Len(names) /\ Len(names) \in Nat
    BY <1>16, <1>17
  <2>2. \A g \in DOMAIN G : G[g] \in Seq(D)
    BY <1>17, <1>18, <1>19
  <2>3. G = [g \in 1..Len(names) |-> G[g]]
    BY <1>3, <2>1
  <2> QED  BY <2>1, <2>2, <2>3
<1>21. \A g \in DOMAIN G : ToSet(G[g]) = K(names[g]) /\ names[g] \in P
  BY <1>17, <1>18, <1>19
<1>22. ASSUME NEW g \in DOMAIN G
       PROVE  Increasing(G[g], R)
  <2>1. Increasing(G[g], less) /\ G[g] \in Seq(K(names[g])) /\ names[g] \in P
    BY <1>2, <1>17, <1>21
  <2> SUFFICES ASSUME NEW j \in DOMAIN G[g], NEW k \in DOMAIN G[g], j < k
               PROVE  <<G[g][j], G[g][k]>> \in R
    BY DEF Increasing
  <2>2. G[g][j] \in K(names[g]) /\ G[g][k] \in K(names[g])
    BY <2>1
  <2>3. G[g][j] \in D /\ G[g][k] \in D
    BY <1>6, <2>1, <2>2
  <2>4. <<G[g][j], G[g][k]>> \in less
    BY <2>1 DEF Increasing
  <2>5. Best(rows, G[g][j]) = Best(rows, G[g][k])
    BY <1>7, <1>14, <2>1, <2>2, <2>3
  <2> QED  BY <1>4, <1>8, <2>3, <2>4, <2>5
<1>23. \A g \in DOMAIN G : \A j, k \in ToSet(G[g]) : project(j) = project(k)
  BY <1>7, <1>21
<1>24. ASSUME NEW g \in DOMAIN G, NEW h \in DOMAIN G, g < h,
              NEW x \in ToSet(G[g]), NEW y \in ToSet(G[h])
       PROVE  <<x, y>> \in R
  <2>1. x \in K(names[g]) /\ y \in K(names[h]) /\ names[g] \in P /\ names[h] \in P
    BY <1>21
  <2>2. <<names[g], names[h]>> \in first
    BY <1>16, <1>17, <1>24 DEF Increasing
  <2>3. x \in D /\ y \in D /\ project(x) = names[g] /\ project(y) = names[h]
    BY <1>6, <1>7, <2>1
  <2>4. Best(rows, x) < Best(rows, y)
    BY <1>9, <1>14, <2>1, <2>2, <2>3
  <2> QED  BY <1>8, <2>3, <2>4
<1>25. UNION {ToSet(G[g]) : g \in DOMAIN G} = D
  <2>1. \A k \in D : \E g \in DOMAIN G : k \in ToSet(G[g])
    BY <1>5, <1>16, <1>17, <1>21
  <2>2. \A g \in DOMAIN G : ToSet(G[g]) \subseteq D
    BY <1>6, <1>21
  <2> QED  BY <2>1, <2>2
<1>26. rows # <<>> => G # <<>>
  <2> SUFFICES ASSUME rows # <<>>
               PROVE  DOMAIN G # {}
    BY <1>20
  <2>1. D # {}
    <3>1. Len(rows) = 0 => rows = <<>>
      OBVIOUS
    <3>2. D = 1..Len(rows) /\ Len(rows) \in Nat
      BY DEF D
    <3>3. 1 \in 1..Len(rows)
      BY <3>1, <3>2
    <3> QED  BY <3>2, <3>3
  <2> QED  BY <1>5, <1>16, <1>17, <2>1
<1> QED  BY <1>20, <1>22, <1>23, <1>24, <1>25, <1>26 DEF D, G, R, project

LEMMA LengthOfNothing == Length(<<>>) = Overhead
<1> DEFINE Sums(f) == f = [n \in 0..Len(<<>>) |->
                              IF n = 0 THEN Overhead ELSE f[n - 1] + <<>>[n]]
           sum == CHOOSE f : Sums(f)
<1>1. Sums([n \in 0..0 |-> Overhead])
  OBVIOUS
<1>2. Sums(sum)
  BY <1>1
<1>3. Length(<<>>) = sum[Len(<<>>)]
  BY Zenon DEF Length
<1> HIDE DEF sum
<1>4. sum[0] = Overhead
  BY <1>2
<1> QED  BY <1>3, <1>4

LEMMA LengthOfOne ==
    ASSUME NEW size \in Nat
    PROVE  Length(<<size>>) = Overhead + size
<1> DEFINE Sums(f) == f = [n \in 0..Len(<<size>>) |->
                              IF n = 0 THEN Overhead ELSE f[n - 1] + <<size>>[n]]
           sum == CHOOSE f : Sums(f)
           g == [n \in 0..1 |-> IF n = 0 THEN Overhead ELSE Overhead + size]
<1>1. Sums(g)
  <2>1. Len(<<size>>) = 1 /\ <<size>>[1] = size
    OBVIOUS
  <2>2. \A n \in 0..1 : g[n] = IF n = 0 THEN Overhead ELSE g[n - 1] + <<size>>[n]
    BY <2>1, BoundsAssumption
  <2>3. g = [n \in 0..1 |-> g[n]]
    OBVIOUS
  <2> HIDE DEF g
  <2> QED  BY <2>1, <2>2, <2>3
<1>2. Sums(sum)
  BY <1>1
<1>3. Length(<<size>>) = sum[Len(<<size>>)]
  BY Zenon DEF Length
<1> HIDE DEF sum
<1>4. sum[0] = Overhead /\ sum[1] = sum[0] + size
  BY <1>2
<1> QED  BY <1>3, <1>4

\* The part of a single ordinal has the length of its item.
LEMMA LengthOfItem ==
    ASSUME items \in Seq(Row), NEW rows \in Seq(DOMAIN items), NEW k \in DOMAIN rows
    PROVE  /\ Utf16Len(rows, <<k>>) = Overhead + items[rows[k]].units
           /\ Runes(rows, <<k>>) = Overhead + items[rows[k]].runes
<1>1. items[rows[k]].units \in Nat /\ items[rows[k]].runes \in Nat
  <2>1. items[rows[k]] \in Row
    OBVIOUS
  <2> QED  BY <2>1 DEF Row
<1>2. /\ [n \in DOMAIN <<k>> |-> items[rows[<<k>>[n]]].units] = <<items[rows[k]].units>>
      /\ [n \in DOMAIN <<k>> |-> items[rows[<<k>>[n]]].runes] = <<items[rows[k]].runes>>
  OBVIOUS
<1> QED BY <1>1, <1>2, LengthOfOne DEF Utf16Len, Runes

\* Parts of which every ordinal of the first precedes every one of the second.
PartOrder(rows) ==
    {r \in Seq(DOMAIN rows) \X Seq(DOMAIN rows) :
        \A x \in ToSet(r[1]), y \in ToSet(r[2]) : <<x, y>> \in ByProject(rows)}

LEMMA PartOrderPairs ==
    ASSUME NEW rows, NEW u \in Seq(DOMAIN rows), NEW v \in Seq(DOMAIN rows),
           \A x \in ToSet(u), y \in ToSet(v) : <<x, y>> \in ByProject(rows)
    PROVE  <<u, v>> \in PartOrder(rows)
<1> DEFINE r == <<u, v>>
<1>1. r \in Seq(DOMAIN rows) \X Seq(DOMAIN rows) /\ r[1] = u /\ r[2] = v
  OBVIOUS
<1> HIDE DEF r
<1>2. r \in PartOrder(rows)
  BY <1>1 DEF PartOrder
<1> QED  BY <1>2 DEF r

\* A part of one project, in rank order, that Telegram takes.
GoodPart(rows, u) ==
    /\ Increasing(u, ByProject(rows))
    /\ \A j, k \in ToSet(u) : items[rows[j]].project = items[rows[k]].project
    /\ Utf16Len(rows, u) <= MaxUnits

\* Good parts, in order, that hold these ordinals.
GoodParts(rows, parts, ordinals) ==
    /\ parts \in Seq(Seq(DOMAIN rows)) /\ Increasing(parts, PartOrder(rows))
    /\ \A u \in ToSet(parts) : GoodPart(rows, u)
    /\ UNION {ToSet(u) : u \in ToSet(parts)} = ordinals

LEMMA OnePart ==
    ASSUME NEW rows, NEW u \in Seq(DOMAIN rows), GoodPart(rows, u)
    PROVE  GoodParts(rows, <<u>>, ToSet(u))
<1>1. <<u>> \in Seq(Seq(DOMAIN rows)) /\ ToSet(<<u>>) = {u}
  BY DEF ToSet
<1>2. Increasing(<<u>>, PartOrder(rows))
  BY DEF Increasing
<1>3. UNION {ToSet(v) : v \in {u}} = ToSet(u)
  OBVIOUS
<1> QED  BY <1>1, <1>2, <1>3 DEF GoodParts

\* The message of a single item is one good part: it is not cut.
LEMMA ItemIsOnePart ==
    ASSUME items \in Seq(Row), TextInv, NEW rows \in Seq(DOMAIN items),
           NEW k \in DOMAIN rows
    PROVE  RenderItem(rows, k) = << <<k>> >> /\ GoodPart(rows, <<k>>)
<1>1. rows[k] \in DOMAIN items /\ items[rows[k]] \in Row
  OBVIOUS
<1>2. /\ items[rows[k]].runes \in Nat /\ items[rows[k]].units \in Nat
      /\ Overhead \in Nat /\ MaxUnits \in Nat
  BY <1>1, BoundsAssumption DEF Row
<1>3. /\ items[rows[k]].runes <= items[rows[k]].units
      /\ Overhead + items[rows[k]].units <= MaxUnits
  BY <1>1 DEF TextInv
<1>4. Runes(rows, <<k>>) <= MaxUnits /\ Utf16Len(rows, <<k>>) <= MaxUnits
  BY <1>2, <1>3, LengthOfItem
<1>5. RenderItem(rows, k) = << <<k>> >>
  BY <1>4 DEF RenderItem
<1>6. Increasing(<<k>>, ByProject(rows)) /\ ToSet(<<k>>) = {k}
  BY DEF Increasing, ToSet
<1> QED  BY <1>4, <1>5, <1>6 DEF GoodPart

LEMMA GroupPartsAreGood ==
    ASSUME items \in Seq(Row), TextInv, NEW rows \in Seq(DOMAIN items),
           NEW group \in Seq(DOMAIN rows), Increasing(group, ByProject(rows)),
           \A j, k \in ToSet(group) : items[rows[j]].project = items[rows[k]].project
    PROVE  GoodParts(rows, GroupParts(rows, group), ToSet(group))
<1>1. CASE Utf16Len(rows, group) <= MaxUnits
  <2>1. GroupParts(rows, group) = <<group>> /\ GoodPart(rows, group)
    BY <1>1 DEF GroupParts, GoodPart
  <2> QED  BY <2>1, OnePart
<1>2. CASE ~(Utf16Len(rows, group) <= MaxUnits)
  <2> DEFINE ss == [n \in DOMAIN group |-> << <<group[n]>> >>]
             D == DOMAIN rows
             parts == FlattenSeq(ss)
  <2>1. GroupParts(rows, group) = parts
    <3>1. \A n \in DOMAIN group : group[n] \in DOMAIN rows
      OBVIOUS
    <3>2. \A n \in DOMAIN group : RenderItem(rows, group[n]) = << <<group[n]>> >>
      BY <3>1, ItemIsOnePart
    <3>3. [n \in DOMAIN group |-> RenderItem(rows, group[n])] = ss
      BY <3>2
    <3> QED  BY <1>2, <3>3 DEF GroupParts
  <2>2. ss \in Seq(Seq(Seq(D)))
    <3>1. DOMAIN group = 1..Len(group) /\ Len(group) \in Nat
      OBVIOUS
    <3>2. \A n \in DOMAIN group : << <<group[n]>> >> \in Seq(Seq(D))
      OBVIOUS
    <3> HIDE DEF D
    <3> QED  BY <3>1, <3>2
  <2>3. /\ DOMAIN ss = DOMAIN group
        /\ \A n \in DOMAIN ss : /\ ToSet(ss[n]) = {<<group[n]>>}
                                /\ Increasing(ss[n], PartOrder(rows))
    BY DEF ToSet, Increasing
  <2>4. ASSUME NEW p \in DOMAIN ss, NEW q \in DOMAIN ss, p < q,
               NEW u \in ToSet(ss[p]), NEW v \in ToSet(ss[q])
        PROVE  <<u, v>> \in PartOrder(rows)
    <3>1. u = <<group[p]>> /\ v = <<group[q]>>
      BY <2>3
    <3>2. u \in Seq(D) /\ v \in Seq(D) /\ ToSet(u) = {group[p]} /\ ToSet(v) = {group[q]}
      BY <2>3, <3>1 DEF ToSet
    <3>3. <<group[p], group[q]>> \in ByProject(rows)
      BY <2>3, <2>4 DEF Increasing
    <3> QED  BY <3>2, <3>3, PartOrderPairs
  <2> HIDE DEF ss, D, parts
  <2>5. /\ parts \in Seq(Seq(D)) /\ Increasing(parts, PartOrder(rows))
        /\ ToSet(parts) = UNION {ToSet(ss[n]) : n \in DOMAIN ss}
    BY <2>2, <2>3, <2>4, FlattenIncreases DEF parts
  <2>6. ToSet(parts) = {<<group[n]>> : n \in DOMAIN group}
    BY <2>3, <2>5
  <2>7. \A n \in DOMAIN group : group[n] \in D /\ ToSet(<<group[n]>>) = {group[n]}
    BY DEF ToSet, D
  <2>8. \A u \in ToSet(parts) : GoodPart(rows, u)
    BY <2>6, <2>7, ItemIsOnePart DEF D
  <2>9. UNION {ToSet(u) : u \in ToSet(parts)} = ToSet(group)
    <3>1. ToSet(group) = {group[n] : n \in DOMAIN group}
      BY DEF ToSet
    <3>2. \A u \in ToSet(parts) : ToSet(u) \subseteq ToSet(group)
      BY <2>6, <2>7, <3>1
    <3>3. ASSUME NEW x \in ToSet(group)
          PROVE  x \in UNION {ToSet(u) : u \in ToSet(parts)}
      <4>1. PICK n \in DOMAIN group : x = group[n]
        BY <3>1
      <4>2. <<group[n]>> \in ToSet(parts) /\ x \in ToSet(<<group[n]>>)
        BY <2>6, <2>7, <4>1
      <4> QED  BY <4>2
    <3> QED  BY <3>2, <3>3
  <2> QED  BY <2>1, <2>5, <2>8, <2>9 DEF GoodParts, D
<1> QED  BY <1>1, <1>2

LEMMA RenderPartsAreGood ==
    ASSUME items \in Seq(Row), TextInv, NEW rows \in Seq(DOMAIN items)
    PROVE  GoodParts(rows, RenderParts(rows), DOMAIN rows)
<1> DEFINE D == DOMAIN rows
<1>1. CASE rows = <<>>
  <2>1. RenderParts(rows) = << <<>> >> /\ D = {}
    BY <1>1 DEF RenderParts
  <2>2. Utf16Len(rows, <<>>) = Overhead
    <3>1. [n \in DOMAIN <<>> |-> items[rows[<<>>[n]]].units] = <<>>
      OBVIOUS
    <3> QED  BY <3>1, LengthOfNothing DEF Utf16Len
  <2>3. GoodPart(rows, <<>>) /\ ToSet(<<>>) = {}
    BY <2>2, TextAssumption DEF GoodPart, Increasing, ToSet
  <2>4. <<>> \in Seq(D)
    OBVIOUS
  <2> QED  BY <2>1, <2>3, <2>4, OnePart
<1>2. CASE rows # <<>>
  <2> DEFINE groups == Group(rows)
             ss == [g \in DOMAIN groups |-> GroupParts(rows, groups[g])]
             parts == FlattenSeq(ss)
  <2>1. /\ groups \in Seq(Seq(D))
        /\ \A g \in DOMAIN groups :
              /\ Increasing(groups[g], ByProject(rows))
              /\ \A j, k \in ToSet(groups[g]) :
                     items[rows[j]].project = items[rows[k]].project
        /\ \A g, h \in DOMAIN groups : g < h =>
              \A x \in ToSet(groups[g]), y \in ToSet(groups[h]) :
                  <<x, y>> \in ByProject(rows)
        /\ UNION {ToSet(groups[g]) : g \in DOMAIN groups} = D
    BY GroupsAreProjects
  <2>2. RenderParts(rows) = parts
    BY <1>2 DEF RenderParts
  <2> HIDE DEF groups, D
  <2>3. \A g \in DOMAIN groups :
            groups[g] \in Seq(D) /\ GoodParts(rows, ss[g], ToSet(groups[g]))
    <3> SUFFICES ASSUME NEW g \in DOMAIN groups
                 PROVE  groups[g] \in Seq(D) /\ GoodParts(rows, ss[g], ToSet(groups[g]))
      OBVIOUS
    <3>1. groups[g] \in Seq(D)
      BY <2>1
    <3> QED  BY <2>1, <3>1, GroupPartsAreGood DEF D
  <2>4. ss \in Seq(Seq(Seq(D))) /\ DOMAIN ss = DOMAIN groups
    <3>1. DOMAIN groups = 1..Len(groups) /\ Len(groups) \in Nat
      BY <2>1
    <3>2. \A g \in DOMAIN groups : GroupParts(rows, groups[g]) \in Seq(Seq(D))
      BY <2>3 DEF GoodParts, D
    <3> QED  BY <3>1, <3>2
  <2> HIDE DEF ss, parts
  <2>5. ASSUME NEW g \in DOMAIN ss, NEW h \in DOMAIN ss, g < h,
               NEW u \in ToSet(ss[g]), NEW v \in ToSet(ss[h])
        PROVE  <<u, v>> \in PartOrder(rows)
    <3>1. /\ ss[g] \in Seq(Seq(D)) /\ ss[h] \in Seq(Seq(D))
          /\ UNION {ToSet(w) : w \in ToSet(ss[g])} = ToSet(groups[g])
          /\ UNION {ToSet(w) : w \in ToSet(ss[h])} = ToSet(groups[h])
      BY <2>3, <2>4 DEF GoodParts, D
    <3>2. u \in Seq(D) /\ v \in Seq(D)
      BY <3>1 DEF ToSet
    <3>3. ToSet(u) \subseteq ToSet(groups[g]) /\ ToSet(v) \subseteq ToSet(groups[h])
      BY <3>1
    <3>4. \A x \in ToSet(u), y \in ToSet(v) : <<x, y>> \in ByProject(rows)
      BY <2>1, <2>4, <2>5, <3>3
    <3> QED  BY <3>2, <3>4, PartOrderPairs DEF D
  <2>6. \A g \in DOMAIN ss : Increasing(ss[g], PartOrder(rows))
    BY <2>3, <2>4 DEF GoodParts
  <2>7. /\ parts \in Seq(Seq(D)) /\ Increasing(parts, PartOrder(rows))
        /\ ToSet(parts) = UNION {ToSet(ss[g]) : g \in DOMAIN ss}
    BY <2>4, <2>5, <2>6, FlattenIncreases DEF parts
  <2>8. \A u \in ToSet(parts) : GoodPart(rows, u)
    BY <2>3, <2>4, <2>7 DEF GoodParts
  <2>9. UNION {ToSet(u) : u \in ToSet(parts)} = D
    <3>1. \A g \in DOMAIN ss : UNION {ToSet(u) : u \in ToSet(ss[g])} = ToSet(groups[g])
      BY <2>3, <2>4 DEF GoodParts
    <3>2. ASSUME NEW u \in ToSet(parts)
          PROVE  ToSet(u) \subseteq D
      <4>1. PICK g \in DOMAIN ss : u \in ToSet(ss[g])
        BY <2>7
      <4>2. ToSet(u) \subseteq ToSet(groups[g])
        BY <3>1, <4>1
      <4> QED  BY <2>1, <2>4, <4>2
    <3>3. ASSUME NEW k \in D
          PROVE  k \in UNION {ToSet(u) : u \in ToSet(parts)}
      <4>1. PICK g \in DOMAIN ss : k \in ToSet(groups[g])
        BY <2>1, <2>4
      <4>2. PICK u \in ToSet(ss[g]) : k \in ToSet(u)
        BY <3>1, <4>1
      <4> QED  BY <2>7, <4>2
    <3> QED  BY <3>2, <3>3
  <2> QED  BY <2>2, <2>7, <2>8, <2>9 DEF GoodParts, D
<1> QED  BY <1>1, <1>2

LEMMA BestIsOrdinal ==
    ASSUME NEW S, NEW rows \in Seq(S), NEW k \in DOMAIN rows
    PROVE  Best(rows, k) \in Nat
<1> DEFINE T == {n \in DOMAIN rows : items[rows[n]].project = items[rows[k]].project}
<1>1. T \in SUBSET Nat /\ T # {}
  OBVIOUS
<1> HIDE DEF T
<1>2. PICK x \in T : \A y \in T : x <= y
  BY <1>1, Least
<1>3. Min(T) = x
  BY <1>1, <1>2, LeastIsMin
<1> QED  BY <1>1, <1>2, <1>3 DEF Best, T

\* Good parts of all the ordinals, one after another, list every ordinal once.
LEMMA GoodPartsListAll ==
    ASSUME NEW S, NEW rows \in Seq(S), NEW parts, GoodParts(rows, parts, DOMAIN rows)
    PROVE  LET all == FlattenSeq(parts)
           IN  /\ Len(all) = Len(rows) /\ ToSet(all) = DOMAIN rows
               /\ \A m, n \in DOMAIN all :
                      m < n => \/ Best(rows, all[m]) < Best(rows, all[n])
                               \/ Best(rows, all[m]) = Best(rows, all[n]) /\ all[m] < all[n]
<1> DEFINE D == DOMAIN rows
           all == FlattenSeq(parts)
           R == ByProject(rows)
<1>1. /\ parts \in Seq(Seq(D)) /\ Increasing(parts, PartOrder(rows))
      /\ \A u \in ToSet(parts) : Increasing(u, R)
      /\ UNION {ToSet(u) : u \in ToSet(parts)} = D
  BY DEF GoodParts, GoodPart
<1>2. \A r \in PartOrder(rows) : \A x \in ToSet(r[1]), y \in ToSet(r[2]) : <<x, y>> \in R
  BY DEF PartOrder
<1>3. \A j, k \in D : <<j, k>> \in R <=>
          \/ Best(rows, j) < Best(rows, k)
          \/ Best(rows, j) = Best(rows, k) /\ j < k
  BY ByProjectPairs
<1>4. \A k \in D : Best(rows, k) \in Nat /\ k \in Nat
  BY BestIsOrdinal
<1>5. D = 1..Len(rows) /\ Len(rows) \in Nat
  OBVIOUS
<1> HIDE DEF D, R, all
<1>6. \A p \in DOMAIN parts : Increasing(parts[p], R)
  BY <1>1 DEF ToSet
<1>7. ASSUME NEW p \in DOMAIN parts, NEW q \in DOMAIN parts, p < q,
             NEW x \in ToSet(parts[p]), NEW y \in ToSet(parts[q])
      PROVE  <<x, y>> \in R
  <2> DEFINE r == <<parts[p], parts[q]>>
  <2>1. r \in PartOrder(rows)
    BY <1>1, <1>7 DEF Increasing
  <2>2. r[1] = parts[p] /\ r[2] = parts[q]
    OBVIOUS
  <2> HIDE DEF r
  <2> QED  BY <1>2, <2>1, <2>2
<1>8. /\ all \in Seq(D) /\ Increasing(all, R)
      /\ ToSet(all) = UNION {ToSet(parts[p]) : p \in DOMAIN parts}
  BY <1>1, <1>6, <1>7, FlattenIncreases DEF all
<1>9. ToSet(all) = D
  <2>1. ToSet(parts) = {parts[p] : p \in DOMAIN parts}
    BY DEF ToSet
  <2>2. ASSUME NEW k \in D
        PROVE  k \in ToSet(all)
    <3>1. PICK u \in ToSet(parts) : k \in ToSet(u)
      BY <1>1
    <3> QED  BY <1>8, <2>1, <3>1
  <2>3. ToSet(all) \subseteq D
    <3> SUFFICES ASSUME NEW p \in DOMAIN parts
                 PROVE  ToSet(parts[p]) \subseteq D
      BY <1>8
    <3>1. parts[p] \in ToSet(parts)
      BY <2>1
    <3> QED  BY <1>1, <3>1
  <2> QED  BY <2>2, <2>3
<1>10. \A k \in D : <<k, k>> \notin R
  BY <1>3, <1>4
<1>11. Len(all) = Cardinality(D)
  BY <1>8, <1>9, <1>10, IncreasingIsInjective
<1>12. Cardinality(D) = Len(rows)
  BY <1>5, FS_Interval
<1>13. ASSUME NEW m \in DOMAIN all, NEW n \in DOMAIN all, m < n
       PROVE  \/ Best(rows, all[m]) < Best(rows, all[n])
              \/ Best(rows, all[m]) = Best(rows, all[n]) /\ all[m] < all[n]
  <2>1. all[m] \in D /\ all[n] \in D /\ <<all[m], all[n]>> \in R
    BY <1>8, <1>13 DEF Increasing
  <2> QED  BY <1>3, <2>1
<1> QED  BY <1>9, <1>11, <1>12, <1>13 DEF all, D

-----------------------------------------------------------------------------
(* The pages of a list. *)

LEMMA PagesFollow ==
    ASSUME NEW p \in Nat, NEW q \in Nat, p < q
    PROVE  p * PageSize + PageSize <= q * PageSize
<1>1. PageSize \in Nat
  BY BoundsAssumption
<1>2. PICK d \in Nat : q = p + 1 + d
  <2>1. q - p - 1 \in Nat /\ q = p + 1 + (q - p - 1)
    OBVIOUS
  <2> QED  BY <2>1
<1>3. d * PageSize >= 0 /\ d * PageSize \in Nat /\ p * PageSize \in Nat
  BY <1>1
<1>4. q * PageSize = p * PageSize + PageSize + d * PageSize
  BY <1>1, <1>2
<1> QED  BY <1>1, <1>3, <1>4

LEMMA SliceOfSequence ==
    ASSUME NEW S, NEW s \in Seq(S), NEW a \in Nat, NEW b \in Nat, b <= Len(s)
    PROVE  LET u == SubSeq(s, a + 1, b)
           IN  /\ u \in Seq(S) /\ Len(u) = IF a <= b THEN b - a ELSE 0
               /\ \A k \in 1..Len(u) : u[k] = s[a + k]
OBVIOUS

\* Page p holds the places p * PageSize + 1 to (p + 1) * PageSize of the list,
\* as far as it goes, and is short only if the list ends on it or before.
LEMMA PageIsSlice ==
    ASSUME items \in Seq(Row), NEW f, NEW p \in Nat,
           NEW s, s = Sorted(Matches(f), ByDeadline(Matches(f)))
    PROVE  LET u == ListItemsPage(f, p)
               a == p * PageSize
           IN  /\ u \in Seq(Matches(f)) /\ Len(u) <= PageSize
               /\ \A k \in 1..Len(u) : a + k \in DOMAIN s /\ u[k] = s[a + k]
               /\ \A j \in DOMAIN s : a < j /\ j <= a + PageSize => j - a \in 1..Len(u)
               /\ Len(u) # PageSize => Len(s) < a + PageSize
<1> DEFINE M == Matches(f)
           u == ListItemsPage(f, p)
           a == p * PageSize
           n == Len(s)
           b == IF a + PageSize <= n THEN a + PageSize ELSE n
<1>1. s \in Seq(M)
  <2>1. IsFiniteSet(M) /\ StrictOrder(M, ByDeadline(M))
    BY MatchesAreFinite, EarlierIsStrict
  <2> QED  BY <2>1, SortedEnumerates
<1>2. n \in Nat /\ DOMAIN s = 1..n
  BY <1>1
<1>3. a \in Nat /\ PageSize \in Nat /\ (p + 1) * PageSize = a + PageSize
  BY BoundsAssumption
<1>4. u = SubSeq(s, a + 1, Min({(p + 1) * PageSize, n}))
  BY DEF ListItemsPage, ByDeadline
<1> HIDE DEF M, u, a, n
<1>5. Min({a + PageSize, n}) = b /\ b \in Nat /\ b <= n
  BY <1>2, <1>3, LeastOfTwo
<1>6. u = SubSeq(s, a + 1, b)
  BY <1>3, <1>4, <1>5
<1>7. /\ u \in Seq(M) /\ Len(u) = IF a <= b THEN b - a ELSE 0
      /\ \A k \in 1..Len(u) : u[k] = s[a + k]
  BY <1>1, <1>3, <1>5, <1>6, SliceOfSequence DEF n
<1>8. Len(u) <= PageSize
  BY <1>2, <1>3, <1>7
<1>9. \A k \in 1..Len(u) : a + k \in DOMAIN s
  BY <1>2, <1>3, <1>7
<1>10. \A j \in DOMAIN s : a < j /\ j <= a + PageSize => j - a \in 1..Len(u)
  BY <1>2, <1>3, <1>7
<1>11. Len(u) # PageSize => n < a + PageSize
  BY <1>2, <1>3, <1>7
<1> QED  BY <1>7, <1>8, <1>9, <1>10, <1>11 DEF M, u, a, n

LEMMA PageOfPlace ==
    ASSUME NEW j \in Nat \ {0}
    PROVE  \E p \in Nat : /\ p * PageSize < j /\ j <= p * PageSize + PageSize
                          /\ \A q \in Nat : j <= q * PageSize + PageSize => p <= q
<1> DEFINE T == {q \in Nat : j <= q * PageSize + PageSize}
<1>1. PageSize \in Nat /\ PageSize >= 1
  BY BoundsAssumption
<1>2. j \in T
  <2>1. j * PageSize >= j
    BY <1>1
  <2>2. j * PageSize \in Nat
    BY <1>1
  <2> QED  BY <1>1, <2>1, <2>2
<1>3. PICK p \in T : \A q \in T : p <= q
  <2>1. T \in SUBSET Nat /\ T # {}
    BY <1>2
  <2> HIDE DEF T
  <2> QED  BY <2>1, Least
<1>4. p * PageSize < j
  <2>1. p \in Nat /\ p * PageSize \in Nat
    BY <1>1
  <2>2. CASE p = 0
    BY <1>1, <2>2
  <2>3. CASE p # 0
    <3>1. p - 1 \in Nat /\ p - 1 \notin T
      <4>1. p - 1 \in Nat /\ ~(p <= p - 1)
        BY <2>1, <2>3
      <4> QED  BY <1>3, <4>1
    <3>2. (p - 1) * PageSize + PageSize = p * PageSize
      BY <1>1, <2>1
    <3> QED  BY <2>1, <3>1, <3>2
  <2> QED  BY <2>2, <2>3
<1> QED  BY <1>3, <1>4

\* The pages up to a short one show every item of the list once.
LEMMA PagesShowAll ==
    ASSUME items \in Seq(Row), NEW f, NEW P \in Nat,
           NEW w, w = [p \in 1..P + 1 |-> ListItemsPage(f, p - 1)],
           Len(w[P + 1]) # PageSize
    PROVE  /\ ToSet(FlattenSeq(w)) = Matches(f)
           /\ Len(FlattenSeq(w)) = Cardinality(Matches(f))
<1> DEFINE M == Matches(f)
           R == ByDeadline(M)
           s == Sorted(M, R)
           a(p) == (p - 1) * PageSize
           all == FlattenSeq(w)
<1>1. IsFiniteSet(M) /\ StrictOrder(M, R)
  BY MatchesAreFinite, EarlierIsStrict
<1> HIDE DEF M, R
<1>2. /\ s \in Seq(M) /\ Increasing(s, R)
      /\ \A i \in M : \E j \in DOMAIN s : s[j] = i
  BY <1>1, SortedEnumerates
<1> HIDE DEF s
<1>3. \A p \in 1..P + 1 :
          /\ a(p) \in Nat /\ w[p] \in Seq(M) /\ Len(w[p]) <= PageSize
          /\ \A k \in 1..Len(w[p]) : a(p) + k \in DOMAIN s /\ w[p][k] = s[a(p) + k]
          /\ \A j \in DOMAIN s :
                 a(p) < j /\ j <= a(p) + PageSize => j - a(p) \in 1..Len(w[p])
          /\ Len(w[p]) # PageSize => Len(s) < a(p) + PageSize
  <2> TAKE p \in 1..P + 1
  <2> DEFINE q == p - 1
  <2>1. q \in Nat /\ w[p] = ListItemsPage(f, q)
    OBVIOUS
  <2>2. a(p) = q * PageSize /\ a(p) \in Nat
    BY <2>1, BoundsAssumption
  <2>3. s = Sorted(Matches(f), ByDeadline(Matches(f)))
    BY DEF s, M, R
  <2> HIDE DEF q, a
  <2>4. LET u == ListItemsPage(f, q)
            b == q * PageSize
        IN  /\ u \in Seq(M) /\ Len(u) <= PageSize
            /\ \A k \in 1..Len(u) : b + k \in DOMAIN s /\ u[k] = s[b + k]
            /\ \A j \in DOMAIN s : b < j /\ j <= b + PageSize => j - b \in 1..Len(u)
            /\ Len(u) # PageSize => Len(s) < b + PageSize
    BY <2>1, <2>3, PageIsSlice, SMTT(30) DEF M
  <2> QED  BY <2>1, <2>2, <2>4
<1>4. \A p, q \in 1..P + 1 : p < q => a(p) + PageSize <= a(q)
  <2> TAKE p, q \in 1..P + 1
  <2> HAVE p < q
  <2>1. p - 1 \in Nat /\ q - 1 \in Nat /\ p - 1 < q - 1
    OBVIOUS
  <2> QED  BY <2>1, PagesFollow
<1>5. w \in Seq(Seq(M)) /\ DOMAIN w = 1..P + 1
  <2>1. w = [p \in 1..P + 1 |-> w[p]] /\ DOMAIN w = 1..P + 1 /\ P + 1 \in Nat
    OBVIOUS
  <2>2. \A p \in 1..P + 1 : w[p] \in Seq(M)
    BY <1>3
  <2> HIDE DEF M, R, s, a, all
  <2>3. w \in [1..P + 1 -> Seq(M)]
    BY <2>1, <2>2, Zenon
  <2>4. \A n \in Nat : [1..n -> Seq(M)] \subseteq Seq(Seq(M))
    OBVIOUS
  <2> QED  BY <2>1, <2>3, <2>4, Zenon
<1>6. PageSize \in Nat
  BY BoundsAssumption
<1> HIDE DEF a, all
<1>7. ASSUME NEW p \in DOMAIN w
      PROVE  Increasing(w[p], R)
  <2> SUFFICES ASSUME NEW j \in DOMAIN w[p], NEW k \in DOMAIN w[p], j < k
               PROVE  <<w[p][j], w[p][k]>> \in R
    BY DEF Increasing
  <2>1. DOMAIN w[p] = 1..Len(w[p]) /\ a(p) \in Nat
    BY <1>3, <1>5
  <2>2. /\ a(p) + j \in DOMAIN s /\ w[p][j] = s[a(p) + j]
        /\ a(p) + k \in DOMAIN s /\ w[p][k] = s[a(p) + k]
    BY <1>3, <1>5, <2>1
  <2>3. a(p) + j < a(p) + k
    BY <2>1
  <2> QED  BY <1>2, <2>2, <2>3 DEF Increasing
<1>8. ASSUME NEW p \in DOMAIN w, NEW q \in DOMAIN w, p < q,
             NEW x \in ToSet(w[p]), NEW y \in ToSet(w[q])
      PROVE  <<x, y>> \in R
  <2>1. PICK j \in 1..Len(w[p]) : x = w[p][j]
    BY <1>3, <1>5, SMTT(30) DEF ToSet
  <2>2. PICK k \in 1..Len(w[q]) : y = w[q][k]
    BY <1>3, <1>5, SMTT(30) DEF ToSet
  <2>3. /\ a(p) + j \in DOMAIN s /\ x = s[a(p) + j]
        /\ a(q) + k \in DOMAIN s /\ y = s[a(q) + k]
    BY <1>3, <1>5, <2>1, <2>2
  <2>4. a(p) + j < a(q) + k
    <3>1. a(p) \in Nat /\ a(q) \in Nat /\ Len(w[p]) <= PageSize /\ Len(w[p]) \in Nat
      BY <1>3, <1>5
    <3>2. a(p) + PageSize <= a(q)
      BY <1>4, <1>5, <1>8
    <3> QED  BY <1>6, <3>1, <3>2
  <2> QED  BY <1>2, <2>3, <2>4 DEF Increasing
<1>9. /\ all \in Seq(M) /\ Increasing(all, R)
      /\ ToSet(all) = UNION {ToSet(w[p]) : p \in DOMAIN w}
  <2>1. /\ \A p \in DOMAIN w : Increasing(w[p], R)
        /\ \A p, q \in DOMAIN w : p < q =>
              \A x \in ToSet(w[p]), y \in ToSet(w[q]) : <<x, y>> \in R
    BY <1>7, <1>8
  <2>2. w \in Seq(Seq(M))
    BY <1>5
  <2>3. ASSUME NEW v \in Seq(Seq(M)),
               \A p \in DOMAIN v : Increasing(v[p], R),
               \A p, q \in DOMAIN v : p < q =>
                   \A x \in ToSet(v[p]), y \in ToSet(v[q]) : <<x, y>> \in R
        PROVE  /\ FlattenSeq(v) \in Seq(M) /\ Increasing(FlattenSeq(v), R)
               /\ ToSet(FlattenSeq(v)) = UNION {ToSet(v[p]) : p \in DOMAIN v}
    BY <2>3, FlattenIncreases
  <2> QED  BY <2>1, <2>2, <2>3, Zenon DEF all
<1>10. ASSUME NEW i \in M
       PROVE  i \in ToSet(all)
  <2>1. PICK j \in DOMAIN s : s[j] = i
    BY <1>2
  <2>2. j \in Nat \ {0} /\ Len(s) \in Nat /\ j <= Len(s)
    BY <1>2
  <2>3. PICK p \in Nat : /\ p * PageSize < j /\ j <= p * PageSize + PageSize
                        /\ \A q \in Nat : j <= q * PageSize + PageSize => p <= q
    BY <2>2, PageOfPlace
  <2>4. p + 1 \in 1..P + 1
    <3>1. P + 1 \in 1..P + 1 /\ a(P + 1) = P * PageSize
      BY DEF a
    <3>2. Len(s) < P * PageSize + PageSize /\ P * PageSize \in Nat
      BY <1>3, <3>1
    <3>3. p <= P
      BY <1>6, <2>2, <2>3, <3>2
    <3> QED  BY <3>3
  <2>5. a(p + 1) = p * PageSize
    BY DEF a
  <2>6. j - a(p + 1) \in 1..Len(w[p + 1])
    BY <1>3, <2>3, <2>4, <2>5
  <2>7. w[p + 1][j - a(p + 1)] = s[a(p + 1) + (j - a(p + 1))]
    BY <1>3, <2>4, <2>6
  <2>8. a(p + 1) + (j - a(p + 1)) = j
    BY <1>3, <2>2, <2>4
  <2>9. i \in ToSet(w[p + 1])
    BY <1>3, <2>1, <2>4, <2>6, <2>7, <2>8 DEF ToSet
  <2> QED  BY <1>5, <1>9, <2>4, <2>9
<1>11. ToSet(all) = M
  BY <1>9, <1>10 DEF ToSet
<1>12. \A i \in M : <<i, i>> \notin R
  BY <1>1 DEF StrictOrder
<1>13. Len(all) = Cardinality(M)
  BY <1>9, <1>11, <1>12, IncreasingIsInjective
<1> QED  BY <1>11, <1>13 DEF all, M

-----------------------------------------------------------------------------
(* The types. *)

LEMMA FiltersAreFilters ==
    /\ NoFilter \in Filters
    /\ \A f \in ListFilters : f \in Filters
    /\ \A p \in Projects : History(p) \in Filters
<1>1. NoFilter \in Filters
  BY DEF NoFilter, Filters
<1>2. ASSUME NEW f \in ListFilters
      PROVE  f \in Filters
  <2>1. /\ NoFilter.project = NoLimit /\ NoFilter.quadrant = NoLimit
        /\ NoFilter.status = NoLimit /\ NoFilter.bucket = -1
        /\ NoFilter.archived = FALSE
    BY DEF NoFilter
  <2>2. CASE \E p \in Projects : f = [NoFilter EXCEPT !.project = p]
    BY <1>1, <2>2 DEF Filters
  <2>3. CASE \E q \in 1..4 : f = [NoFilter EXCEPT !.quadrant = q, !.status = "active"]
    BY <1>1, <2>3 DEF Filters
  <2>4. CASE \E s \in {"active", "done"} : f = [NoFilter EXCEPT !.status = s]
    BY <1>1, <2>4 DEF Filters
  <2>5. CASE \E b \in 0..2 : f = [NoFilter EXCEPT !.bucket = b, !.status = "active"]
    <3>1. PICK b \in 0..2 : f = [NoFilter EXCEPT !.bucket = b, !.status = "active"]
      BY <2>5
    <3>2. b \in {-1, 0, 1, 2}
      OBVIOUS
    <3> QED  BY <1>1, <3>1, <3>2 DEF Filters
  <2> QED  BY <2>2, <2>3, <2>4, <2>5 DEF ListFilters
<1>3. \A p \in Projects : History(p) \in Filters
  BY <1>1 DEF History, Filters
<1> QED  BY <1>1, <1>2, <1>3

LEMMA PlacesDiffer ==
    ASSUME NEW S, NEW s \in Seq(S),
           \A j, k \in DOMAIN s : j < k => s[j] # s[k]
    PROVE  IsInjective(s)
<1> SUFFICES ASSUME NEW j \in DOMAIN s, NEW k \in DOMAIN s, s[j] = s[k]
             PROVE  j = k
  BY DEF IsInjective
<1>1. j \in Int /\ k \in Int
  OBVIOUS
<1> QED  BY <1>1

LEMMA PageIsOfItems ==
    ASSUME items \in Seq(Row), NEW f, NEW p \in Nat
    PROVE  ListItemsPage(f, p) \in Seq(DOMAIN items) /\ IsInjective(ListItemsPage(f, p))
<1> DEFINE M == Matches(f)
           R == ByDeadline(M)
           s == Sorted(M, R)
           u == ListItemsPage(f, p)
           b == p * PageSize
<1>1. /\ M \subseteq DOMAIN items /\ IsFiniteSet(M) /\ StrictOrder(M, R)
      /\ b \in Nat
  BY MatchesAreFinite, EarlierIsStrict, BoundsAssumption
<1>2. u \in Seq(M) /\ \A k \in 1..Len(u) : b + k \in DOMAIN s /\ u[k] = s[b + k]
  BY PageIsSlice
<1> HIDE DEF M, R, b, u
<1>3. s \in Seq(M) /\ Increasing(s, R)
  BY <1>1, SortedEnumerates
<1> HIDE DEF s
<1>4. ASSUME NEW j \in DOMAIN u, NEW k \in DOMAIN u, j < k
      PROVE  u[j] # u[k]
  <2>0. j \in 1..Len(u) /\ k \in 1..Len(u) /\ b + j < b + k
    <3>1. DOMAIN u = 1..Len(u) /\ Len(u) \in Nat
      BY <1>2
    <3> QED  BY <1>1, <1>4, <3>1
  <2>1. /\ b + j \in DOMAIN s /\ u[j] = s[b + j]
        /\ b + k \in DOMAIN s /\ u[k] = s[b + k] /\ b + j < b + k
    BY <1>2, <2>0
  <2>2. <<u[j], u[k]>> \in R /\ u[j] \in M
    BY <1>3, <2>1 DEF Increasing
  <2> QED  BY <1>1, <2>2 DEF StrictOrder
<1>5. IsInjective(u)
  BY <1>2, <1>4, PlacesDiffer
<1> QED  BY <1>1, <1>2, <1>5 DEF u

\* What is ranked by urgency has no item twice.
LEMMA RankedDiffer ==
    ASSUME items \in Seq(Row), NEW rows \in Seq(DOMAIN items), Ranked(rows)
    PROVE  IsInjective(rows)
<1>1. ASSUME NEW j \in DOMAIN rows, NEW k \in DOMAIN rows, j < k
      PROVE  rows[j] # rows[k]
  <2>1. MoreUrgent(rows[j], rows[k]) /\ rows[j] \in DOMAIN items
    BY <1>1 DEF Ranked
  <2>2. ASSUME NEW i \in DOMAIN items
        PROVE  ~MoreUrgent(i, i)
    BY KeysAreNumbers DEF MoreUrgent
  <2> QED  BY <2>1, <2>2
<1> QED  BY <1>1, PlacesDiffer

LEMMA RecommendationIsOfItems ==
    ASSUME items \in Seq(Row)
    PROVE  /\ Select(Ranking) \in Seq(DOMAIN items)
           /\ Len(Select(Ranking)) <= Limit
           /\ DOMAIN Select(Ranking) \subseteq 1..Limit
<1>1. Ranking \in Seq(Eligible) /\ Eligible \subseteq DOMAIN items
  BY RankingIsComplete, MatchesAreFinite DEF Eligible
<1>2. Ranking \in Seq(DOMAIN items)
  BY <1>1
<1>3. PICK n \in Nat : /\ n <= Limit /\ Select(Ranking) \in Seq(DOMAIN items)
                      /\ Len(Select(Ranking)) = n
  BY <1>2, SelectIsHead
<1> HIDE DEF Select
<1> QED  BY <1>3, BoundsAssumption

\* Lists and recommendations depend on the tables alone.
LEMMA SameTables ==
    ASSUME UNCHANGED tables
    PROVE  /\ items' = items /\ archived' = archived /\ changes' = changes
           /\ \A f, p : ListItemsPage(f, p)' = ListItemsPage(f, p)
           /\ \A f : Matches(f)' = Matches(f)
           /\ \A rows : Ranked(rows)' = Ranked(rows)
           /\ \A rows, u : Utf16Len(rows, u)' = Utf16Len(rows, u)
           /\ \A rows, k : Best(rows, k)' = Best(rows, k)
<1>1. items' = items /\ archived' = archived /\ changes' = changes
  BY DEF tables
<1>2. \A f : Matches(f)' = Matches(f)
  BY <1>1 DEF Matches
<1>3. \A f, p : ListItemsPage(f, p)' = ListItemsPage(f, p)
  BY <1>1, <1>2 DEF ListItemsPage, Earlier
<1>4. \A rows : Ranked(rows)' = Ranked(rows)
  BY <1>1 DEF Ranked, MoreUrgent
<1>5. \A rows, u : Utf16Len(rows, u)' = Utf16Len(rows, u)
  BY <1>1 DEF Utf16Len
<1>6. \A rows, k : Best(rows, k)' = Best(rows, k)
  BY <1>1 DEF Best
<1> QED  BY <1>1, <1>2, <1>3, <1>4, <1>5, <1>6

\* What the parts of a message must list, said of any selection.
Lists(rows, parts) ==
    LET all == FlattenSeq(parts)
    IN  /\ Len(all) = Len(rows) /\ ToSet(all) = DOMAIN rows
        /\ \A m, n \in DOMAIN all :
               m < n => \/ Best(rows, all[m]) < Best(rows, all[n])
                        \/ Best(rows, all[m]) = Best(rows, all[n]) /\ all[m] < all[n]
        /\ \A p \in DOMAIN parts : \A k, n \in ToSet(parts[p]) :
               items[rows[k]].project = items[rows[n]].project

LEMMA EveryItemIsListed ==
    EveryItemOnce <=> (screen.kind = "digest" => Lists(screen.rows, screen.parts))
BY DEF EveryItemOnce, Lists, Best

LEMMA RenderPartsLists ==
    ASSUME items \in Seq(Row), TextInv, NEW rows \in Seq(DOMAIN items)
    PROVE  /\ Lists(rows, RenderParts(rows)) /\ RenderParts(rows) \in Seq(Seq(DOMAIN rows))
           /\ \A p \in DOMAIN RenderParts(rows) :
                  Utf16Len(rows, RenderParts(rows)[p]) <= MaxUnits
<1> DEFINE parts == RenderParts(rows)
<1>1. GoodParts(rows, parts, DOMAIN rows)
  BY RenderPartsAreGood
<1> HIDE DEF parts
<1>2. /\ parts \in Seq(Seq(DOMAIN rows))
      /\ \A p \in DOMAIN parts : GoodPart(rows, parts[p])
  BY <1>1 DEF GoodParts, ToSet
<1>3. LET all == FlattenSeq(parts)
      IN  /\ Len(all) = Len(rows) /\ ToSet(all) = DOMAIN rows
          /\ \A m, n \in DOMAIN all :
                 m < n => \/ Best(rows, all[m]) < Best(rows, all[n])
                          \/ Best(rows, all[m]) = Best(rows, all[n]) /\ all[m] < all[n]
  BY <1>1, GoodPartsListAll
<1>4. Lists(rows, parts)
  BY <1>2, <1>3, Zenon DEF Lists, GoodPart
<1> QED  BY <1>2, <1>4 DEF parts, GoodPart

-----------------------------------------------------------------------------
(* The invariant. *)

LEMMA InitIInv == Init => IInv
<1> SUFFICES ASSUME Init
             PROVE  IInv
  OBVIOUS
<1>1. PICK m \in 0..MaxItems : items \in [1..m -> Rows]
  BY BoundsAssumption DEF Init, BoundedSeq, SeqOf
<1>2. m \in Nat
  BY BoundsAssumption
<1>3. items \in Seq(Row)
  BY <1>1, <1>2, RowsAssumption
<1>4. TextInv
  BY <1>1, TextAssumption DEF TextInv
<1>5. /\ screen.kind = "blank" /\ screen.filter = NoFilter /\ screen.page = 0
      /\ screen.rows = <<>> /\ screen.next = FALSE /\ screen.parts = <<>>
  BY DEF Init, Blank
<1>6. TypeOK
  <2>1. screen \in [kind : {"blank", "list", "history", "digest", "focus"},
                    filter : Filters, page : Nat, rows : Seq(DOMAIN items),
                    next : BOOLEAN, parts : Seq(Seq(1..Limit))]
    BY FiltersAreFilters DEF Init, Blank
  <2>2. IsInjective(screen.rows)
    BY <1>5 DEF IsInjective
  <2> QED  BY <1>3, <1>5, <2>1, <2>2, FiltersAreFilters, BoundsAssumption DEF TypeOK, Init
<1> QED  BY <1>4, <1>5, <1>6
         DEF IInv, ScreenInv, WalkInv, MostUrgentFirst, EveryItemOnce, PartsFit

LEMMA OpenIInv ==
    ASSUME IInv, NEW kind \in {"list", "history"}, NEW f \in Filters,
           kind = "list" => f = NoFilter \/ f \in ListFilters,
           Open(kind, f)
    PROVE  IInv'
<1> DEFINE rows == ListItemsPage(f, 0)
<1>1. items \in Seq(Row) /\ rows \in Seq(DOMAIN items) /\ IsInjective(rows)
  BY PageIsOfItems DEF IInv, TypeOK
<1>2. /\ screen' = [kind |-> kind, filter |-> f, page |-> 0, rows |-> rows,
                    next |-> Len(rows) = PageSize, parts |-> <<>>]
      /\ walk' = <<rows>> /\ begun' = f /\ fresh' = TRUE /\ UNCHANGED tables
  BY DEF Open, Page
<1>3. /\ items' = items /\ archived' = archived /\ changes' = changes
      /\ ListItemsPage(f, 0)' = rows
  BY <1>2, SameTables
<1> HIDE DEF rows
<1>4. /\ screen'.kind = kind /\ screen'.filter = f /\ screen'.page = 0
      /\ screen'.rows = rows /\ screen'.next = (Len(rows) = PageSize)
  BY <1>2
<1>5. TypeOK'
  <2>1. screen' \in [kind : {"blank", "list", "history", "digest", "focus"},
                     filter : Filters, page : Nat, rows : Seq(DOMAIN items),
                     next : BOOLEAN, parts : Seq(Seq(1..Limit))]
    BY <1>1, <1>2
  <2>2. walk' \in Seq(Seq(DOMAIN items)) /\ Len(walk') = 1
    BY <1>1, <1>2
  <2> QED  BY <1>1, <1>2, <1>3, <1>4, <2>1, <2>2 DEF TypeOK, IInv
<1>6. ScreenInv' /\ TextInv'
  BY <1>3, <1>4 DEF ScreenInv, TextInv, IInv
<1>7. WalkInv'
  <2>1. walk' = [p \in 1..0 + 1 |-> ListItemsPage(f, p - 1)'] /\ walk'[0 + 1] = rows
    <3>1. walk' = [p \in 1..1 |-> rows]
      BY <1>2
    <3>2. \A p \in 1..1 : ListItemsPage(f, p - 1)' = rows
      BY <1>3
    <3> QED  BY <3>1, <3>2
  <2> QED  BY <1>2, <1>4, <2>1 DEF WalkInv
<1>8. MostUrgentFirst' /\ EveryItemOnce' /\ PartsFit'
  BY <1>4 DEF MostUrgentFirst, EveryItemOnce, PartsFit
<1> QED  BY <1>5, <1>6, <1>7, <1>8 DEF IInv

LEMMA WalkGoesOn ==
    ASSUME NEW X, NEW w \in Seq(X), NEW r \in X, NEW n \in 0..Len(w)
    PROVE  /\ Append(SubSeq(w, 1, n), r) \in Seq(X)
           /\ Len(Append(SubSeq(w, 1, n), r)) = n + 1
           /\ Append(SubSeq(w, 1, n), r) = [p \in 1..n + 1 |-> IF p <= n THEN w[p] ELSE r]
OBVIOUS

LEMMA TurnIInv ==
    ASSUME IInv, screen.kind \in {"list", "history"},
           NEW page \in 0..screen.page + 1, Turn(page)
    PROVE  IInv'
<1> DEFINE f == IF screen.kind = "list" THEN NoFilter ELSE screen.filter
           rows == ListItemsPage(f, page)
<1>1. /\ items \in Seq(Row) /\ screen.page \in Nat /\ page \in Nat
      /\ walk \in Seq(Seq(DOMAIN items)) /\ Len(walk) = screen.page + 1
      /\ f \in Filters
  BY FiltersAreFilters DEF IInv, TypeOK
<1>2. rows \in Seq(DOMAIN items) /\ IsInjective(rows)
  BY <1>1, PageIsOfItems
<1>3. /\ screen' = [kind |-> screen.kind, filter |-> f, page |-> page, rows |-> rows,
                    next |-> Len(rows) = PageSize, parts |-> <<>>]
      /\ walk' = Append(SubSeq(walk, 1, page), rows)
      /\ UNCHANGED <<tables, begun, fresh>>
  BY DEF Turn, Page
<1>4. /\ items' = items /\ archived' = archived /\ changes' = changes
      /\ begun' = begun /\ fresh' = fresh
      /\ \A g, p : ListItemsPage(g, p)' = ListItemsPage(g, p)
  BY <1>3, SameTables
<1> HIDE DEF rows, f
<1>5. /\ screen'.kind = screen.kind /\ screen'.filter = f /\ screen'.page = page
      /\ screen'.rows = rows /\ screen'.next = (Len(rows) = PageSize)
  BY <1>3
<1>6. /\ walk' \in Seq(Seq(DOMAIN items)) /\ Len(walk') = page + 1
      /\ walk' = [p \in 1..page + 1 |-> IF p <= page THEN walk[p] ELSE rows]
  <2>1. page \in 0..Len(walk)
    BY <1>1
  <2> DEFINE X == Seq(DOMAIN items)
  <2>3. walk \in Seq(X) /\ rows \in X
    BY <1>1, <1>2
  <2> HIDE DEF X
  <2>4. /\ Append(SubSeq(walk, 1, page), rows) \in Seq(X)
        /\ Len(Append(SubSeq(walk, 1, page), rows)) = page + 1
        /\ Append(SubSeq(walk, 1, page), rows) =
               [p \in 1..page + 1 |-> IF p <= page THEN walk[p] ELSE rows]
    BY <2>1, <2>3, WalkGoesOn
  <2>5. walk' = Append(SubSeq(walk, 1, page), rows)
    BY <1>3
  <2> QED  BY <2>4, <2>5, Zenon DEF X
<1>7. TypeOK'
  <2>1. screen' \in [kind : {"blank", "list", "history", "digest", "focus"},
                     filter : Filters, page : Nat, rows : Seq(DOMAIN items),
                     next : BOOLEAN, parts : Seq(Seq(1..Limit))]
    BY <1>1, <1>2, <1>3
  <2> QED  BY <1>2, <1>4, <1>5, <1>6, <2>1 DEF TypeOK, IInv
<1>8. ScreenInv' /\ TextInv'
  BY <1>4, <1>5 DEF ScreenInv, TextInv, IInv
<1>9. WalkInv'
  <2> SUFFICES ASSUME fresh, begun \notin ListFilters
               PROVE  /\ f = begun
                      /\ screen.kind = "list" => begun = NoFilter
                      /\ walk' = [p \in 1..page + 1 |-> ListItemsPage(begun, p - 1)]
                      /\ walk'[page + 1] = rows
    BY <1>4, <1>5 DEF WalkInv
  <2>1. /\ screen.filter = begun
        /\ screen.kind = "list" => begun = NoFilter
        /\ walk = [p \in 1..screen.page + 1 |-> ListItemsPage(begun, p - 1)]
    BY DEF WalkInv, IInv
  <2>2. f = begun
    BY <2>1 DEF f
  <2>3. rows = ListItemsPage(begun, page)
    BY <2>2 DEF rows
  <2>4. \A p \in 1..page + 1 : IF p <= page THEN walk[p] = ListItemsPage(begun, p - 1)
                                            ELSE p - 1 = page
    BY <1>1, <2>1
  <2>5. \A p \in 1..page + 1 :
            (IF p <= page THEN walk[p] ELSE rows) = ListItemsPage(begun, p - 1)
    BY <2>3, <2>4
  <2> QED  BY <1>1, <1>6, <2>1, <2>2, <2>5
<1>10. MostUrgentFirst' /\ EveryItemOnce' /\ PartsFit'
  BY <1>5 DEF MostUrgentFirst, EveryItemOnce, PartsFit
<1> QED  BY <1>7, <1>8, <1>9, <1>10 DEF IInv

\* What the next screen must satisfy, said of the rows and parts it shows.
LEMMA ShownNext ==
    ASSUME NEW rows, NEW parts, screen'.rows = rows, screen'.parts = parts
    PROVE  /\ MostUrgentFirst' <=> (fresh' /\ screen'.kind \in {"digest", "focus"} => Ranked(rows)')
           /\ EveryItemOnce' <=> (screen'.kind = "digest" => Lists(rows, parts)')
           /\ PartsFit' <=> (screen'.kind = "digest" =>
                                \A p \in DOMAIN parts : Utf16Len(rows, parts[p])' <= MaxUnits)
<1>1. MostUrgentFirst' <=> (fresh' /\ screen'.kind \in {"digest", "focus"} => Ranked(rows)')
  BY DEF MostUrgentFirst, Ranked, MoreUrgent
<1>2. EveryItemOnce' <=> (screen'.kind = "digest" => Lists(rows, parts)')
  BY DEF EveryItemOnce, Lists, Best
<1>3. PartsFit' <=> (screen'.kind = "digest" =>
                        \A p \in DOMAIN parts : Utf16Len(rows, parts[p])' <= MaxUnits)
  BY DEF PartsFit, Utf16Len
<1> QED  BY <1>1, <1>2, <1>3

\* A message stays whole as long as its items keep their projects and lengths.
LEMMA PartsStay ==
    ASSUME NEW rows \in Seq(DOMAIN items), NEW parts \in Seq(Seq(DOMAIN rows)),
           \A i \in DOMAIN items : /\ items'[i].project = items[i].project
                                   /\ items'[i].units = items[i].units
    PROVE  /\ Lists(rows, parts) => Lists(rows, parts)'
           /\ \A p \in DOMAIN parts :
                  Utf16Len(rows, parts[p])' = Utf16Len(rows, parts[p])
<1>1. \A k \in DOMAIN rows : /\ items'[rows[k]].project = items[rows[k]].project
                             /\ items'[rows[k]].units = items[rows[k]].units
  OBVIOUS
<1>2. \A k \in DOMAIN rows : Best(rows, k)' = Best(rows, k)
  <2> TAKE k \in DOMAIN rows
  <2>1. {n \in DOMAIN rows : items'[rows[n]].project = items'[rows[k]].project}
            = {n \in DOMAIN rows : items[rows[n]].project = items[rows[k]].project}
    BY <1>1
  <2> QED  BY <2>1 DEF Best
<1>3. \A p \in DOMAIN parts : \A n \in DOMAIN parts[p] : parts[p][n] \in DOMAIN rows
  OBVIOUS
<1>4. \A p \in DOMAIN parts : ToSet(parts[p]) \subseteq DOMAIN rows
  BY <1>3 DEF ToSet
<1>5. ASSUME Lists(rows, parts)
      PROVE  Lists(rows, parts)'
  <2> DEFINE all == FlattenSeq(parts)
  <2>1. /\ Len(all) = Len(rows) /\ ToSet(all) = DOMAIN rows
        /\ \A m, n \in DOMAIN all :
               m < n => \/ Best(rows, all[m]) < Best(rows, all[n])
                        \/ Best(rows, all[m]) = Best(rows, all[n]) /\ all[m] < all[n]
        /\ \A p \in DOMAIN parts : \A k, n \in ToSet(parts[p]) :
               items[rows[k]].project = items[rows[n]].project
    BY <1>5 DEF Lists
  <2> HIDE DEF all
  <2>2. \A m \in DOMAIN all : all[m] \in DOMAIN rows
    BY <2>1 DEF ToSet
  <2>3. \A m, n \in DOMAIN all :
            m < n => \/ Best(rows, all[m])' < Best(rows, all[n])'
                     \/ Best(rows, all[m])' = Best(rows, all[n])' /\ all[m] < all[n]
    <3> TAKE m, n \in DOMAIN all
    <3>1. /\ Best(rows, all[m])' = Best(rows, all[m])
          /\ Best(rows, all[n])' = Best(rows, all[n])
      BY <1>2, <2>2
    <3> QED  BY <2>1, <3>1
  <2>4. \A p \in DOMAIN parts : \A k, n \in ToSet(parts[p]) :
            items'[rows[k]].project = items'[rows[n]].project
    BY <1>1, <1>4, <2>1
  <2> QED  BY <2>1, <2>3, <2>4 DEF Lists, all
<1>6. ASSUME NEW p \in DOMAIN parts
      PROVE  Utf16Len(rows, parts[p])' = Utf16Len(rows, parts[p])
  <2>1. \A n \in DOMAIN parts[p] : items'[rows[parts[p][n]]].units = items[rows[parts[p][n]]].units
    BY <1>1, <1>3
  <2>2. [n \in DOMAIN parts[p] |-> items'[rows[parts[p][n]]].units]
            = [n \in DOMAIN parts[p] |-> items[rows[parts[p][n]]].units]
    BY <2>1
  <2> QED  BY <2>2 DEF Utf16Len
<1> QED  BY <1>5, <1>6

LEMMA LargerSet ==
    ASSUME NEW S, NEW T, S \subseteq T, NEW s \in Seq(S)
    PROVE  s \in Seq(T)
OBVIOUS

LEMMA ShowIInv ==
    ASSUME IInv, NEW kind \in {"digest", "focus"}, NEW rows, rows = Select(Ranking),
           NEW parts, kind = "digest" => parts = RenderParts(rows),
           kind = "focus" => parts = <<>>,
           Show(kind, rows, parts)
    PROVE  IInv'
<1>1. items \in Seq(Row) /\ TextInv
  BY DEF IInv, TypeOK
<1>2. /\ rows \in Seq(DOMAIN items) /\ DOMAIN rows \subseteq 1..Limit /\ Ranked(rows)
      /\ IsInjective(rows)
  BY <1>1, RecommendationIsOfItems, SelectIsMostUrgent, RankedDiffer
<1>3. screen' = [kind |-> kind, filter |-> NoFilter, page |-> 0, rows |-> rows,
                 next |-> FALSE, parts |-> parts]
  BY DEF Show, Blank
<1>4. walk' = <<>> /\ begun' = NoFilter /\ fresh' = TRUE /\ UNCHANGED tables
  BY DEF Show
<1>5. /\ screen'.kind = kind /\ screen'.page = 0 /\ screen'.rows = rows
      /\ screen'.next = FALSE /\ screen'.parts = parts
  BY <1>3
<1>6. /\ items' = items /\ archived' = archived /\ changes' = changes
      /\ Ranked(rows)' = Ranked(rows)
  BY <1>4, SameTables
<1>7. kind = "digest" => /\ Lists(rows, parts) /\ parts \in Seq(Seq(DOMAIN rows))
                         /\ \A p \in DOMAIN parts : Utf16Len(rows, parts[p]) <= MaxUnits
  BY <1>1, <1>2, RenderPartsLists
<1>8. TypeOK'
  <2>1. parts \in Seq(Seq(1..Limit))
    <3>1. CASE kind = "digest"
      <4>1. parts \in Seq(Seq(DOMAIN rows))
        BY <1>7, <3>1
      <4>2. \A p \in DOMAIN parts : parts[p] \in Seq(1..Limit)
        <5> TAKE p \in DOMAIN parts
        <5>1. parts[p] \in Seq(DOMAIN rows)
          BY <4>1
        <5> QED  BY <1>2, <5>1, LargerSet
      <4> QED  BY <4>1, <4>2
    <3>2. CASE kind = "focus"
      BY <3>2
    <3> QED  BY <3>1, <3>2
  <2>2. screen' \in [kind : {"blank", "list", "history", "digest", "focus"},
                     filter : Filters, page : Nat, rows : Seq(DOMAIN items),
                     next : BOOLEAN, parts : Seq(Seq(1..Limit))]
    BY <1>2, <1>3, <2>1, FiltersAreFilters
  <2> QED  BY <1>2, <1>4, <1>5, <1>6, <1>7, <2>2, FiltersAreFilters DEF TypeOK, IInv
<1>9. ScreenInv' /\ TextInv' /\ WalkInv'
  BY <1>1, <1>5, <1>6, <1>7 DEF ScreenInv, TextInv, WalkInv
<1>10. kind = "digest" => /\ Lists(rows, parts)'
                          /\ \A p \in DOMAIN parts :
                                 Utf16Len(rows, parts[p])' <= MaxUnits
  BY <1>2, <1>6, <1>7, PartsStay
<1>11. MostUrgentFirst' /\ EveryItemOnce' /\ PartsFit'
  BY <1>2, <1>5, <1>6, <1>10, ShownNext
<1> QED  BY <1>8, <1>9, <1>11 DEF IInv

\* A change of the tables moves no item to another project and changes no
\* title: what was sent stays whole, though it may no longer be the most urgent.
LEMMA ChangeIInv ==
    ASSUME IInv, Change
    PROVE  IInv'
<1>1. /\ items \in Seq(Row) /\ TextInv /\ archived \subseteq Projects
      /\ changes \in 0..MaxChanges /\ MaxChanges \in Nat
  BY BoundsAssumption DEF IInv, TypeOK
<1>2. /\ fresh' = FALSE /\ changes' = changes + 1 /\ changes < MaxChanges
      /\ screen' = screen /\ walk' = walk /\ begun' = begun
  BY DEF Change
<1>3. /\ items' \in Seq(Row) /\ DOMAIN items' = DOMAIN items
      /\ archived' \subseteq Projects
      /\ \A i \in DOMAIN items : /\ items'[i].project = items[i].project
                                 /\ items'[i].units = items[i].units
                                 /\ items'[i].runes = items[i].runes
  <2>1. CASE SetStatus
    <3>1. PICK i \in DOMAIN items, s \in Statuses :
              items' = [items EXCEPT ![i].status = s] /\ archived' = archived
      BY <2>1 DEF SetStatus
    <3> DEFINE r == [items[i] EXCEPT !.status = s]
    <3>2. r \in Row /\ r.project = items[i].project /\ r.units = items[i].units
          /\ r.runes = items[i].runes
      <4>1. items[i] \in Row
        BY <1>1
      <4> QED  BY <4>1 DEF Row
    <3>3. items' = [items EXCEPT ![i] = r]
      BY <3>1
    <3> HIDE DEF r
    <3> QED  BY <1>1, <3>1, <3>2, <3>3
  <2>2. CASE SetArchived
    BY <1>1, <2>2 DEF SetArchived
  <2> QED  BY <2>1, <2>2 DEF Change
<1>4. TypeOK'
  <2>1. changes' \in 0..MaxChanges
    BY <1>1, <1>2
  <2> QED  BY <1>2, <1>3, <2>1 DEF TypeOK, IInv
<1>5. ScreenInv' /\ TextInv' /\ WalkInv' /\ MostUrgentFirst'
  BY <1>1, <1>2, <1>3 DEF ScreenInv, TextInv, WalkInv, MostUrgentFirst, IInv
<1>6. PICK rows, parts : rows = screen.rows /\ parts = screen.parts
  OBVIOUS
<1>7. screen'.rows = rows /\ screen'.parts = parts /\ screen'.kind = screen.kind
  BY <1>2, <1>6
<1>8. EveryItemOnce' /\ PartsFit'
  <2>1. CASE screen.kind # "digest"
    BY <1>7, <2>1, ShownNext
  <2>2. CASE screen.kind = "digest"
    <3>1. rows \in Seq(DOMAIN items) /\ parts \in Seq(Seq(DOMAIN rows))
      BY <1>6, <2>2 DEF IInv, TypeOK
    <3>2. /\ Lists(rows, parts)
          /\ \A p \in DOMAIN parts : Utf16Len(rows, parts[p]) <= MaxUnits
      BY <1>6, <2>2, EveryItemIsListed DEF IInv, PartsFit
    <3>3. /\ Lists(rows, parts)'
          /\ \A p \in DOMAIN parts : Utf16Len(rows, parts[p])' <= MaxUnits
      BY <1>3, <3>1, <3>2, PartsStay
    <3> QED  BY <1>7, <3>3, ShownNext
  <2> QED  BY <2>1, <2>2
<1> QED  BY <1>4, <1>5, <1>8 DEF IInv

LEMMA StutterIInv ==
    ASSUME IInv, UNCHANGED vars
    PROVE  IInv'
<1>1. /\ UNCHANGED tables /\ screen' = screen /\ walk' = walk
      /\ begun' = begun /\ fresh' = fresh
  BY DEF vars
<1>2. /\ items' = items /\ archived' = archived /\ changes' = changes
      /\ \A f, p : ListItemsPage(f, p)' = ListItemsPage(f, p)
      /\ \A rows : Ranked(rows)' = Ranked(rows)
  BY <1>1, SameTables
<1>3. TypeOK' /\ ScreenInv' /\ TextInv'
  BY <1>1, <1>2 DEF IInv, TypeOK, ScreenInv, TextInv
<1>4. WalkInv'
  <2> SUFFICES ASSUME fresh, screen.kind \in {"list", "history"},
                      begun \notin ListFilters
               PROVE  walk = [p \in 1..screen.page + 1 |-> ListItemsPage(begun, p - 1)']
    BY <1>1 DEF WalkInv, IInv
  <2>1. walk = [p \in 1..screen.page + 1 |-> ListItemsPage(begun, p - 1)]
    BY DEF WalkInv, IInv
  <2>2. \A p \in 1..screen.page + 1 :
            ListItemsPage(begun, p - 1)' = ListItemsPage(begun, p - 1)
    BY <1>1, <1>2
  <2> QED  BY <2>1, <2>2
<1>5. MostUrgentFirst' /\ EveryItemOnce' /\ PartsFit'
  <2>1. MostUrgentFirst'
    BY <1>1, <1>2 DEF IInv, MostUrgentFirst, Ranked, MoreUrgent
  <2>2. EveryItemOnce'
    BY <1>1, <1>2 DEF IInv, EveryItemOnce
  <2>3. PartsFit'
    BY <1>1, <1>2 DEF IInv, PartsFit, Utf16Len
  <2> QED  BY <2>1, <2>2, <2>3
<1> QED  BY <1>3, <1>4, <1>5 DEF IInv

LEMMA NextIInv == IInv /\ [Next]_vars => IInv'
<1> SUFFICES ASSUME IInv, [Next]_vars
             PROVE  IInv'
  OBVIOUS
<1>1. CASE OpenList
  BY <1>1, OpenIInv, FiltersAreFilters DEF OpenList
<1>2. CASE ListFilter
  BY <1>2, OpenIInv, FiltersAreFilters DEF ListFilter
<1>3. CASE ProjectItems
  BY <1>3, OpenIInv, FiltersAreFilters DEF ProjectItems
<1>4. CASE NextPage
  <2>1. screen.kind \in {"list", "history"} /\ screen.page \in Nat
    BY <1>4 DEF NextPage, IInv, TypeOK, ScreenInv
  <2>2. screen.page + 1 \in 0..screen.page + 1
    BY <2>1
  <2> QED  BY <1>4, <2>1, <2>2, TurnIInv DEF NextPage
<1>5. CASE PreviousPage
  <2>1. screen.kind \in {"list", "history"} /\ screen.page \in Nat
    BY <1>5 DEF PreviousPage, IInv, TypeOK, ScreenInv
  <2>2. screen.page - 1 \in 0..screen.page + 1
    BY <1>5, <2>1 DEF PreviousPage
  <2> QED  BY <1>5, <2>1, <2>2, TurnIInv DEF PreviousPage
<1>6. CASE Digest
  BY <1>6, ShowIInv DEF Digest
<1>7. CASE Focus
  BY <1>7, ShowIInv DEF Focus
<1>8. CASE Change
  BY <1>8, ChangeIInv
<1>9. CASE UNCHANGED vars
  BY <1>9, StutterIInv
<1> QED  BY <1>1, <1>2, <1>3, <1>4, <1>5, <1>6, <1>7, <1>8, <1>9 DEF Next

LEMMA AlwaysIInv == Spec => []IInv
BY InitIInv, NextIInv, PTL DEF Spec

-----------------------------------------------------------------------------
(* The theorems. *)

\* The screens, the pages of a walk and the tables keep their types, for any
\* backlog and any limits: no screen has an item twice, and the message of a
\* recommendation lists ordinals of what was selected for it.
THEOREM TypeCorrect == Spec => []TypeOK
BY AlwaysIInv, PTL DEF IInv

\* For any backlog and any page size, the arrows of a list or of a project's
\* history show every item of it once, when nothing changes meanwhile.
THEOREM ArrowsShowAll == Spec => []WalkShowsAll
<1>1. ASSUME IInv
      PROVE  WalkShowsAll
  <2> SUFFICES ASSUME fresh, screen.kind \in {"list", "history"}, ~screen.next,
                      begun \notin ListFilters
               PROVE  /\ ToSet(FlattenSeq(walk)) = Matches(begun)
                      /\ Len(FlattenSeq(walk)) = Cardinality(Matches(begun))
    BY DEF WalkShowsAll
  <2>1. /\ items \in Seq(Row) /\ screen.page \in Nat
        /\ walk = [p \in 1..screen.page + 1 |-> ListItemsPage(begun, p - 1)]
        /\ Len(walk[screen.page + 1]) # PageSize
    BY <1>1 DEF IInv, TypeOK, WalkInv
  <2> QED  BY <2>1, PagesShowAll
<1> QED  BY <1>1, AlwaysIInv, PTL

\* For any backlog and any limit, what is recommended is the head of the
\* ranking the design describes.
THEOREM RecommendationIsRanked == Spec => []MostUrgentFirst
BY AlwaysIInv, PTL DEF IInv

\* For any selection, grouping it by project and splitting it into parts loses
\* and repeats no item, and keeps the rank order within and between projects.
THEOREM MessageIsComplete == Spec => []EveryItemOnce
BY AlwaysIInv, PTL DEF IInv

\* For any limit that the message of a single item keeps, every part keeps it.
THEOREM PartsAreTaken == Spec => []PartsFit
BY AlwaysIInv, PTL DEF IInv
=============================================================================
