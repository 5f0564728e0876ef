--------------------------- MODULE Listings_proofs ---------------------------
(***************************************************************************)
(* What a client that reads page by page gets, for any rows, pages and     *)
(* limits.  A finite set in a strict order has places 0, 1, 2, ...; a page *)
(* of the usage is the rows at the first places behind the cursor, and a   *)
(* row of an offset list that ties with none is among the first n rows     *)
(* when fewer than n rows are ahead of it.                                 *)
(***************************************************************************)
EXTENDS Listings, Sums_proofs

-----------------------------------------------------------------------------
(* Places in an order *)

\* R orders S strictly.
Orders(R, S) ==
    /\ \A a \in S : <<a, a>> \notin R
    /\ \A a, b, c \in S : <<a, b>> \in R /\ <<b, c>> \in R => <<a, c>> \in R
    /\ \A a, b \in S : a = b \/ <<a, b>> \in R \/ <<b, a>> \in R

\* The members of S ahead of r, and how many they are.
AheadOf(R, S, r) == {t \in S : <<t, r>> \in R}
Place(R, S, r) == Cardinality(AheadOf(R, S, r))

\* The members at the first n places.
First(R, S, n) == {r \in S : Place(R, S, r) < n}

\* Every member has a place of its own, and no place is free.
LEMMA Places ==
  ASSUME NEW R, NEW S, IsFiniteSet(S), Orders(R, S)
  PROVE  /\ Cardinality(S) \in Nat
         /\ \A a, b \in S : <<a, b>> \in R => Place(R, S, a) < Place(R, S, b)
         /\ \A a \in S : Place(R, S, a) \in 0 .. Cardinality(S) - 1
         /\ \A k \in 0 .. Cardinality(S) - 1 : \E a \in S : Place(R, S, a) = k
         /\ \A a, b \in S : Place(R, S, a) = Place(R, S, b) => a = b
<1> DEFINE n == Cardinality(S)
           f == [a \in S |-> Place(R, S, a)]
<1>1. n \in Nat
  BY FS_CardinalityType
<1>2. \A a \in S : /\ AheadOf(R, S, a) \in SUBSET S /\ IsFiniteSet(AheadOf(R, S, a))
                   /\ Place(R, S, a) \in Nat
  <2> SUFFICES ASSUME NEW a \in S
               PROVE  /\ AheadOf(R, S, a) \in SUBSET S /\ IsFiniteSet(AheadOf(R, S, a))
                      /\ Place(R, S, a) \in Nat
    OBVIOUS
  <2>1. AheadOf(R, S, a) \in SUBSET S
    BY DEF AheadOf
  <2>2. IsFiniteSet(AheadOf(R, S, a))
    BY <2>1, FS_Subset
  <2>3. QED
    BY <2>1, <2>2, FS_CardinalityType DEF Place
<1>3. ASSUME NEW a \in S, NEW b \in S, <<a, b>> \in R
      PROVE  Place(R, S, a) < Place(R, S, b)
  <2>1. AheadOf(R, S, a) \in SUBSET AheadOf(R, S, b)
    BY <1>3 DEF AheadOf, Orders
  <2>2. a \in AheadOf(R, S, b) /\ a \notin AheadOf(R, S, a)
    BY <1>3 DEF AheadOf, Orders
  <2>3. Place(R, S, a) <= Place(R, S, b) /\ Place(R, S, a) # Place(R, S, b)
    BY <1>2, <2>1, <2>2, FS_Subset DEF Place
  <2>4. QED
    BY <1>2, <2>3
<1>4. ASSUME NEW a \in S
      PROVE  Place(R, S, a) \in 0 .. n - 1
  <2>1. a \notin AheadOf(R, S, a)
    BY DEF AheadOf, Orders
  <2>2. Place(R, S, a) <= n /\ Place(R, S, a) # n
    BY <1>2, <2>1, FS_Subset DEF Place
  <2> HIDE DEF n
  <2>3. QED
    BY <1>1, <1>2, <2>2
<1>5. \A a, b \in S : Place(R, S, a) = Place(R, S, b) => a = b
  <2> SUFFICES ASSUME NEW a \in S, NEW b \in S, a # b
               PROVE  Place(R, S, a) # Place(R, S, b)
    OBVIOUS
  <2>1. <<a, b>> \in R \/ <<b, a>> \in R
    BY DEF Orders
  <2>2. QED
    BY <1>2, <1>3, <2>1
<1>6. f \in Injection(S, 0 .. n - 1)
  BY <1>4, <1>5 DEF Injection, IsInjective
<1>7. IsFiniteSet(0 .. n - 1) /\ Cardinality(0 .. n - 1) = n
  <2> HIDE DEF n
  <2>1. QED
    BY <1>1, FS_Interval
<1>8. f \in Surjection(S, 0 .. n - 1)
  <2> HIDE DEF f
  <2>1. QED
    BY <1>6, <1>7, FS_Injection
<1>9. \A k \in 0 .. n - 1 : \E a \in S : Place(R, S, a) = k
  BY <1>8 DEF Surjection
<1>10. QED
  BY <1>1, <1>3, <1>4, <1>5, <1>9

\* The first n are n, or all; who is ahead of one of them is one of them.
LEMMA FirstCount ==
  ASSUME NEW R, NEW S, IsFiniteSet(S), Orders(R, S), NEW n \in Nat
  PROVE  /\ First(R, S, n) \subseteq S /\ IsFiniteSet(First(R, S, n))
         /\ Cardinality(First(R, S, n)) = IF n < Cardinality(S) THEN n ELSE Cardinality(S)
         /\ \A a \in S, b \in First(R, S, n) : <<a, b>> \in R => a \in First(R, S, n)
<1> DEFINE F == First(R, S, n)
           c == Cardinality(S)
           m == IF n < c THEN n ELSE c
           f == [a \in F |-> Place(R, S, a)]
<1>1. /\ c \in Nat
      /\ \A a, b \in S : <<a, b>> \in R => Place(R, S, a) < Place(R, S, b)
      /\ \A a \in S : Place(R, S, a) \in 0 .. c - 1
      /\ \A k \in 0 .. c - 1 : \E a \in S : Place(R, S, a) = k
      /\ \A a, b \in S : Place(R, S, a) = Place(R, S, b) => a = b
  BY Places
<1> HIDE DEF c
<1>2. F \subseteq S /\ \A a \in S : a \in F <=> Place(R, S, a) < n
  BY DEF First
<1> HIDE DEF F
<1>3. m \in Nat /\ m <= c /\ m <= n /\ \A k \in Nat : k < c /\ k < n => k < m
  BY <1>1
<1> HIDE DEF m
<1>4. \A a \in F : f[a] \in 0 .. m - 1
  <2> SUFFICES ASSUME NEW a \in F
               PROVE  Place(R, S, a) \in 0 .. m - 1
    OBVIOUS
  <2>1. Place(R, S, a) \in Nat /\ Place(R, S, a) < c /\ Place(R, S, a) < n
    BY <1>1, <1>2
  <2>2. QED
    BY <1>3, <2>1
<1>5. \A k \in 0 .. m - 1 : \E a \in F : f[a] = k
  <2> SUFFICES ASSUME NEW k \in 0 .. m - 1
               PROVE  \E a \in F : f[a] = k
    OBVIOUS
  <2>1. k \in 0 .. c - 1 /\ k < n
    BY <1>1, <1>3
  <2>2. PICK a \in S : Place(R, S, a) = k
    BY <1>1, <2>1
  <2>3. QED
    BY <1>2, <2>1, <2>2
<1>6. f \in Bijection(F, 0 .. m - 1)
  <2>1. f \in Injection(F, 0 .. m - 1)
    BY <1>1, <1>2, <1>4 DEF Injection, IsInjective
  <2>2. f \in Surjection(F, 0 .. m - 1)
    BY <1>4, <1>5 DEF Surjection
  <2>3. QED
    BY <2>1, <2>2 DEF Bijection
<1>7. IsFiniteSet(F)
  BY <1>2, FS_Subset
<1>8. Cardinality(F) = m
  <2>1. ExistsBijection(F, 0 .. m - 1)
    BY <1>6 DEF ExistsBijection
  <2>2. Cardinality(0 .. m - 1) = m
    BY <1>3, FS_Interval
  <2>3. QED
    BY <1>7, <2>1, <2>2, FS_Bijection
<1>9. \A a \in S, b \in F : <<a, b>> \in R => a \in F
  <2> SUFFICES ASSUME NEW a \in S, NEW b \in F, <<a, b>> \in R
               PROVE  a \in F
    OBVIOUS
  <2>1. Place(R, S, a) < Place(R, S, b) /\ Place(R, S, b) < n /\ b \in S
    BY <1>1, <1>2
  <2>2. Place(R, S, a) \in Int /\ Place(R, S, b) \in Int
    BY <1>1, <2>1
  <2>3. QED
    BY <1>2, <2>1, <2>2
<1>10. QED
  BY <1>2, <1>7, <1>8, <1>9 DEF F, m, c

\* A set with a member has a greatest one.
LEMMA Greatest ==
  ASSUME NEW R, NEW S, IsFiniteSet(S), S # {}, Orders(R, S)
  PROVE  \E c \in S : \A t \in S \ {c} : <<t, c>> \in R
<1> DEFINE n == Cardinality(S)
<1>1. n \in Nat /\ n # 0
  BY FS_CardinalityType, FS_EmptySet
<1>2. /\ \A a, b \in S : <<a, b>> \in R => Place(R, S, a) < Place(R, S, b)
      /\ \A a \in S : Place(R, S, a) \in 0 .. n - 1
      /\ \A k \in 0 .. n - 1 : \E a \in S : Place(R, S, a) = k
  BY Places
<1> HIDE DEF n
<1>3. n - 1 \in 0 .. n - 1
  BY <1>1
<1>4. PICK c \in S : Place(R, S, c) = n - 1
  BY <1>2, <1>3
<1>5. ASSUME NEW t \in S \ {c}
      PROVE  <<t, c>> \in R
  <2>1. <<t, c>> \in R \/ <<c, t>> \in R
    BY DEF Orders
  <2>2. ~ (<<c, t>> \in R)
    <3>1. Place(R, S, t) \in 0 .. n - 1
      BY <1>2
    <3>2. ~ (Place(R, S, c) < Place(R, S, t))
      BY <1>1, <1>4, <3>1
    <3>3. QED
      BY <1>2, <3>2
  <2>3. QED
    BY <2>1, <2>2
<1>6. QED
  BY <1>5

-----------------------------------------------------------------------------
(* The usage *)

Earlier == {p \in Row \X Row : Before(p[1], p[2])}

\* Hours and keys are numbers: ORDER BY hour_bucket, api_key_id is strict.
LEMMA EarlierOrders ==
  ASSUME NEW S, S \subseteq Row
  PROVE  /\ Orders(Earlier, S)
         /\ \A a, b \in S : <<a, b>> \in Earlier <=> Before(a, b)
<1>1. \A a, b \in S : <<a, b>> \in Earlier <=> Before(a, b)
  BY DEF Earlier
<1>2. \A a \in S : a[1] \in Int /\ a[2] \in Nat /\ a = <<a[1], a[2]>>
  BY RowAssumption
<1>3. \A a \in S : ~ Before(a, a)
  BY <1>2 DEF Before
<1>4. \A a, b, c \in S : Before(a, b) /\ Before(b, c) => Before(a, c)
  BY <1>2 DEF Before
<1>5. \A a, b \in S : a = b \/ Before(a, b) \/ Before(b, a)
  BY <1>2 DEF Before
<1>6. Orders(Earlier, S)
  BY <1>1, <1>3, <1>4, <1>5 DEF Orders
<1>7. QED
  BY <1>1, <1>6

\* LIMIT n keeps the rows at the first n places.
LEMMA FirstOfIs ==
  ASSUME NEW S, S \subseteq Row, NEW n
  PROVE  FirstOf(S, n) = First(Earlier, S, n)
<1>1. ASSUME NEW r \in S
      PROVE  {t \in S : Before(t, r)} = AheadOf(Earlier, S, r)
  BY EarlierOrders DEF AheadOf
<1>2. \A r \in S : Cardinality({t \in S : Before(t, r)}) = Place(Earlier, S, r)
  BY <1>1 DEF Place
<1>3. QED
  BY <1>2 DEF FirstOf, First

\* The row fetched beyond a page tells whether there is more: when it is there,
\* the page holds everything up to the cursor it returns, and else all there is.
LEMMA PageOf ==
  ASSUME NEW S, S \subseteq Row, IsFiniteSet(S), NEW n \in Nat \ {0},
         NEW rows, rows = FirstOf(S, n + 1), NEW page, page = FirstOf(rows, n),
         NEW c, c = LastOf(page)
  PROVE  /\ rows \subseteq S /\ page \subseteq S
         /\ Cardinality(rows) = n + 1 =>
               /\ c \in page
               /\ \A t \in page : t = c \/ Before(t, c)
               /\ \A r \in S : r = c \/ Before(r, c) => r \in page
         /\ Cardinality(rows) # n + 1 => rows = S
<1>1. /\ rows \subseteq S /\ IsFiniteSet(rows)
      /\ Cardinality(rows) = IF n + 1 < Cardinality(S) THEN n + 1 ELSE Cardinality(S)
      /\ \A a \in S, b \in rows : <<a, b>> \in Earlier => a \in rows
  <2>1. n + 1 \in Nat /\ Orders(Earlier, S) /\ rows = First(Earlier, S, n + 1)
    BY EarlierOrders, FirstOfIs
  <2>2. QED
    BY <2>1, FirstCount
<1>2. /\ page \subseteq rows /\ IsFiniteSet(page)
      /\ Cardinality(page) = IF n < Cardinality(rows) THEN n ELSE Cardinality(rows)
      /\ \A a \in rows, b \in page : <<a, b>> \in Earlier => a \in page
  <2>1. rows \subseteq Row
    BY <1>1
  <2>2. Orders(Earlier, rows) /\ page = First(Earlier, rows, n)
    BY <2>1, EarlierOrders, FirstOfIs
  <2>3. QED
    BY <1>1, <2>2, FirstCount
<1>3. Cardinality(S) \in Nat /\ Cardinality(rows) \in Nat
  BY <1>1, FS_CardinalityType
<1>4. \A a, b \in S : <<a, b>> \in Earlier <=> Before(a, b)
  BY EarlierOrders
<1>5. ASSUME Cardinality(rows) = n + 1
      PROVE  /\ c \in page
             /\ \A t \in page : t = c \/ Before(t, c)
             /\ \A r \in S : r = c \/ Before(r, c) => r \in page
  <2>1. page # {}
    <3>1. Cardinality(page) = n
      BY <1>2, <1>5
    <3>2. QED
      BY <3>1, FS_EmptySet
  <2>2. \E d \in page : \A t \in page \ {d} : Before(t, d)
    <3>1. page \subseteq Row /\ page \subseteq S
      BY <1>1, <1>2
    <3>2. Orders(Earlier, page)
      BY <3>1, EarlierOrders
    <3>3. PICK d \in page : \A t \in page \ {d} : <<t, d>> \in Earlier
      BY <1>2, <2>1, <3>2, Greatest
    <3>4. QED
      BY <1>4, <3>1, <3>3
  <2>3. c \in page /\ \A t \in page \ {c} : Before(t, c)
    BY <2>2 DEF LastOf
  <2>4. ASSUME NEW r \in S, r = c \/ Before(r, c)
        PROVE  r \in page
    <3>1. CASE r = c
      BY <2>3, <3>1
    <3>2. CASE Before(r, c)
      <4>1. c \in rows /\ c \in S
        BY <1>1, <1>2, <2>3
      <4>2. <<r, c>> \in Earlier
        BY <1>4, <3>2, <4>1
      <4>3. r \in rows
        BY <1>1, <4>1, <4>2
      <4>4. QED
        BY <1>2, <2>3, <4>2, <4>3
    <3>3. QED
      BY <2>4, <3>1, <3>2
  <2>5. QED
    BY <2>3, <2>4
<1>6. ASSUME Cardinality(rows) # n + 1
      PROVE  rows = S
  <2>1. Cardinality(rows) = Cardinality(S)
    BY <1>1, <1>3, <1>6
  <2>2. QED
    BY <1>1, <2>1, FS_Subset
<1>7. page \subseteq S
  BY <1>1, <1>2
<1>8. QED
  BY <1>1, <1>5, <1>6, <1>7

-----------------------------------------------------------------------------
(* What always holds *)

\* The rows are finitely many, the client has seen none that is not there, and
\* has nothing before it begins.
Typed == /\ table \subseteq Row /\ IsFiniteSet(table)
         /\ query \in Query
         /\ initial \subseteq table
         /\ got \in Seq(SUBSET Row) /\ Seen \subseteq table
         /\ cursor = NoCursor \/ cursor \in Row
         /\ offset \in Nat
         /\ pc \in {"idle", "reading", "done"}
         /\ pc = "idle" => got = <<>> /\ cursor = NoCursor

\* One more page.
LEMMA AnotherPage ==
  ASSUME got \in Seq(SUBSET Row), NEW P, P \subseteq Row, got' = Append(got, P)
  PROVE  /\ got' \in Seq(SUBSET Row) /\ Seen' = Seen \cup P
         /\ Len(got) \in Nat /\ DOMAIN got = 1 .. Len(got) /\ DOMAIN got' = 1 .. Len(got) + 1
         /\ \A i \in DOMAIN got : got'[i] = got[i]
         /\ got'[Len(got) + 1] = P
<1>1. /\ got' \in Seq(SUBSET Row)
      /\ Len(got) \in Nat /\ DOMAIN got = 1 .. Len(got) /\ DOMAIN got' = 1 .. Len(got) + 1
      /\ \A i \in DOMAIN got : got'[i] = got[i]
      /\ got'[Len(got) + 1] = P
  OBVIOUS
<1>2. Seen' = Seen \cup P
  <2>1. ASSUME NEW r \in Seen'
        PROVE  r \in Seen \cup P
    <3>1. PICK i \in DOMAIN got' : r \in got'[i]
      BY <2>1 DEF Seen
    <3>2. i = Len(got) + 1 \/ i \in DOMAIN got
      BY <1>1
    <3>3. QED
      BY <1>1, <3>1, <3>2 DEF Seen
  <2>2. ASSUME NEW r \in Seen
        PROVE  r \in Seen'
    <3>1. PICK i \in DOMAIN got : r \in got[i]
      BY <2>2 DEF Seen
    <3>2. i \in DOMAIN got' /\ r \in got'[i]
      BY <1>1, <3>1
    <3>3. QED
      BY <3>2 DEF Seen
  <2>3. ASSUME NEW r \in P
        PROVE  r \in Seen'
    <3>1. Len(got) + 1 \in DOMAIN got' /\ r \in got'[Len(got) + 1]
      BY <1>1
    <3>2. QED
      BY <3>1 DEF Seen
  <2>4. QED
    BY <2>1, <2>2, <2>3
<1>3. QED
  BY <1>1, <1>2

\* A page has room for a row.
LEMMA PageSizeType ==
  ASSUME query \in Query
  PROVE  PageSize(query) \in Nat \ {0}
<1>1. query.list \in List /\ query.limit \in Int
  BY QueryAssumption
<1>2. DefaultPage[query.list] \in Nat \ {0} /\ MaxPage[query.list] \in Nat \ {0}
  BY <1>1, PageAssumption
<1>3. QED
  BY <1>1, <1>2 DEF PageSize

\* The rows behind the cursor, and what a fetch does with them.
Behind == {r \in Asked(query) : AfterCursor(r)}

\* A fetch returns rows behind the cursor: up to its last row, or all of them.
LEMMA FetchEffect ==
  ASSUME Typed, FetchPage
  PROVE  \E page \in SUBSET Behind :
            /\ got' = Append(got, page)
            /\ \/ /\ pc' = pc /\ cursor' \in page
                  /\ \A t \in page : t = cursor' \/ Before(t, cursor')
                  /\ \A r \in Behind : r = cursor' \/ Before(r, cursor') => r \in page
               \/ pc' = "done" /\ cursor' = cursor /\ page = Behind
<1> DEFINE n == PageSize(query)
           rows == FirstOf(Behind, n + 1)
           page == FirstOf(rows, n)
           c == LastOf(page)
<1>1. Behind \subseteq Row /\ IsFiniteSet(Behind)
  <2>1. Behind \subseteq table
    BY DEF Behind, Asked
  <2>2. QED
    BY <2>1, FS_Subset DEF Typed
<1>2. n \in Nat \ {0}
  BY PageSizeType DEF Typed
<1>3. \/ Cardinality(rows) = n + 1 /\ got' = Append(got, page) /\ cursor' = c /\ pc' = pc
      \/ Cardinality(rows) # n + 1 /\ got' = Append(got, rows) /\ pc' = "done" /\ cursor' = cursor
  BY DEF FetchPage, Fetched, Behind
<1> HIDE DEF n, c
<1>4. /\ rows \subseteq Behind /\ page \subseteq Behind
      /\ Cardinality(rows) = n + 1 =>
            /\ c \in page
            /\ \A t \in page : t = c \/ Before(t, c)
            /\ \A r \in Behind : r = c \/ Before(r, c) => r \in page
      /\ Cardinality(rows) # n + 1 => rows = Behind
  BY <1>1, <1>2, PageOf DEF c
<1> HIDE DEF page, rows
<1>5. CASE Cardinality(rows) = n + 1
  <2>1. got' = Append(got, page) /\ cursor' = c /\ pc' = pc
    BY <1>3, <1>5
  <2>2. QED
    BY <1>4, <1>5, <2>1
<1>6. CASE Cardinality(rows) # n + 1
  <2>1. got' = Append(got, rows) /\ pc' = "done" /\ cursor' = cursor
    BY <1>3, <1>6
  <2>2. QED
    BY <1>4, <1>6, <2>1
<1>7. QED
  BY <1>5, <1>6
\* A page of an offset list is made of rows that are there.
LEMMA FetchListEffect ==
  ASSUME Typed, FetchList
  PROVE  \E skipped \in FirstRows(offset), S \in FirstRows(offset + PageSize(query)) :
            /\ skipped \subseteq S /\ S \subseteq table
            /\ IsFiniteSet(S) /\ IsFiniteSet(S \ skipped)
            /\ Cardinality(S \ skipped) = Cardinality(S) - Cardinality(skipped)
            /\ Cardinality(S) \in Nat /\ Cardinality(skipped) \in Nat
            /\ Cardinality(S \ skipped) \in Nat
            /\ got' = Append(got, S \ skipped)
            /\ offset' = offset + Cardinality(S \ skipped)
            /\ pc' = IF S = skipped THEN "done" ELSE pc
<1>1. PICK skipped \in FirstRows(offset), S \in FirstRows(offset + PageSize(query)) :
         /\ skipped \subseteq S
         /\ got' = Append(got, S \ skipped)
         /\ offset' = offset + Cardinality(S \ skipped)
         /\ pc' = IF S = skipped THEN "done" ELSE pc
  BY DEF FetchList
<1>2. S \subseteq table
  BY DEF FirstRows
<1>3. IsFiniteSet(S) /\ IsFiniteSet(skipped) /\ IsFiniteSet(S \ skipped)
  BY <1>1, <1>2, FS_Subset DEF Typed
<1>4. S \cap skipped = skipped
  BY <1>1
<1>5. Cardinality(S \ skipped) = Cardinality(S) - Cardinality(skipped)
  BY <1>3, <1>4, FS_Difference
<1>6. Cardinality(S) \in Nat /\ Cardinality(skipped) \in Nat /\ Cardinality(S \ skipped) \in Nat
  BY <1>3, FS_CardinalityType
<1>7. QED
  BY <1>1, <1>2, <1>3, <1>5, <1>6

\* Nothing is there at first.
LEMMA InitTyped ==
  ASSUME Init
  PROVE  Typed
<1>1. IsFiniteSet({})
  BY FS_EmptySet
<1>2. Seen = {}
  BY DEF Init, Seen
<1>3. got \in Seq(SUBSET Row)
  BY DEF Init
<1>4. QED
  BY <1>1, <1>2, <1>3 DEF Init, Typed

\* Rows come one by one, and a page is made of rows that are there.
LEMMA NextTyped ==
  ASSUME Typed, [Next]_vars
  PROVE  Typed'
<1> USE DEF Typed
<1>1. ASSUME NEW r \in Row, AddRow(r)
      PROVE  Typed'
  <2>1. IsFiniteSet(table')
    BY <1>1, FS_AddElement DEF AddRow
  <2>2. Seen' = Seen
    BY <1>1 DEF AddRow, Seen
  <2>3. QED
    BY <1>1, <2>1, <2>2 DEF AddRow
<1>2. CASE Begin
  <2>1. Seen' = Seen
    BY <1>2 DEF Begin, Seen
  <2>2. initial' \subseteq table'
    BY <1>2 DEF Begin, Asked
  <2>3. QED
    BY <1>2, <2>1, <2>2 DEF Begin
<1>3. CASE FetchPage
  <2>1. PICK page \in SUBSET Behind :
           /\ got' = Append(got, page)
           /\ cursor' \in page \/ cursor' = cursor
           /\ pc' \in {pc, "done"}
    BY <1>3, FetchEffect
  <2>2. page \subseteq table /\ page \subseteq Row
    BY DEF Behind, Asked
  <2>3. got' \in Seq(SUBSET Row) /\ Seen' = Seen \cup page
    BY <2>1, <2>2, AnotherPage
  <2>4. pc' # "idle" /\ UNCHANGED <<table, query, initial, offset>>
    BY <1>3, <2>1 DEF FetchPage
  <2>5. QED
    BY <2>1, <2>2, <2>3, <2>4
<1>4. CASE BeginList
  <2>1. Seen' = Seen
    BY <1>4 DEF BeginList, Seen
  <2>2. offset' \in Nat
    <3>1. query.offset \in Int
      BY <1>4, QueryAssumption DEF BeginList
    <3>2. QED
      BY <1>4, <3>1 DEF BeginList
  <2>3. QED
    BY <1>4, <2>1, <2>2 DEF BeginList
<1>5. CASE FetchList
  <2>1. PICK S, skipped : /\ S \subseteq table
                          /\ Cardinality(S \ skipped) \in Nat
                          /\ got' = Append(got, S \ skipped)
                          /\ offset' = offset + Cardinality(S \ skipped)
                          /\ pc' = IF S = skipped THEN "done" ELSE pc
    BY <1>5, FetchListEffect
  <2>2. S \ skipped \subseteq Row
    BY <2>1
  <2>3. got' \in Seq(SUBSET Row) /\ Seen' = Seen \cup (S \ skipped)
    BY <2>1, <2>2, AnotherPage
  <2>4. pc' # "idle" /\ UNCHANGED <<table, query, initial, cursor>>
    BY <1>5, <2>1 DEF FetchList
  <2>5. QED
    BY <2>1, <2>3, <2>4
<1>6. CASE UNCHANGED vars
  <2>1. Seen' = Seen
    BY <1>6 DEF vars, Seen
  <2>2. QED
    BY <1>6, <2>1 DEF vars
<1>7. QED
  BY <1>1, <1>2, <1>3, <1>4, <1>5, <1>6 DEF Next

-----------------------------------------------------------------------------
(* No window is lost *)

\* What the client asked for and has not seen is behind the cursor.
UsageInv ==
    query.list = "usage" =>
        /\ pc # "idle" => initial \subseteq Asked(query)
        /\ pc = "reading" => \A r \in initial : AfterCursor(r) \/ r \in Seen
        /\ pc = "done" => initial \subseteq Seen

\* A client that has not begun has asked for nothing.
LEMMA InitUsage == ASSUME Init PROVE UsageInv
BY DEF Init, UsageInv

\* A window stays in the range; a page takes all up to the cursor it moves to.
LEMMA NextUsage ==
  ASSUME Typed, UsageInv, [Next]_vars
  PROVE  UsageInv'
<1> SUFFICES ASSUME (query.list = "usage")'
             PROVE  /\ (pc # "idle" => initial \subseteq Asked(query))'
                    /\ (pc = "reading" => \A r \in initial : AfterCursor(r) \/ r \in Seen)'
                    /\ (pc = "done" => initial \subseteq Seen)'
  BY DEF UsageInv
<1>1. query' = query
  BY DEF Next, AddRow, Begin, FetchPage, BeginList, FetchList, vars
<1>2. ASSUME NEW r \in Row, AddRow(r)
      PROVE  /\ (pc # "idle" => initial \subseteq Asked(query))'
             /\ (pc = "reading" => \A s \in initial : AfterCursor(s) \/ s \in Seen)'
             /\ (pc = "done" => initial \subseteq Seen)'
  <2>1. Seen' = Seen /\ (\A s \in Row : (AfterCursor(s))' <=> AfterCursor(s))
    BY <1>2 DEF AddRow, Seen, AfterCursor, Before
  <2>2. Asked(query) \subseteq Asked(query)'
    BY <1>1, <1>2 DEF AddRow, Asked
  <2>3. initial' = initial /\ pc' = pc /\ initial \subseteq Row
    BY <1>2 DEF AddRow, Typed
  <2>4. QED
    BY <1>1, <2>1, <2>2, <2>3 DEF UsageInv
<1>3. CASE Begin
  <2>1. cursor' = NoCursor /\ pc' = "reading"
    BY <1>3 DEF Begin, Typed
  <2>2. initial' = Asked(query)'
    BY <1>3 DEF Begin, Asked
  <2>3. QED
    BY <2>1, <2>2 DEF AfterCursor
<1>4. CASE FetchPage
  <2>1. PICK page \in SUBSET Behind :
           /\ got' = Append(got, page)
           /\ \/ /\ pc' = pc /\ cursor' \in page
                 /\ \A r \in Behind : r = cursor' \/ Before(r, cursor') => r \in page
              \/ pc' = "done" /\ cursor' = cursor /\ page = Behind
    BY <1>4, FetchEffect
  <2>2. page \subseteq Row /\ Behind \subseteq Row
    BY DEF Typed, Behind, Asked
  <2>3. Seen' = Seen \cup page
    BY <2>1, <2>2, AnotherPage DEF Typed
  <2>4. pc = "reading" /\ initial' = initial /\ table' = table
    BY <1>4 DEF FetchPage
  <2>5. initial \subseteq Asked(query) /\ (Asked(query))' = Asked(query)
    BY <1>1, <2>4 DEF UsageInv, Asked
  <2>6. \A r \in initial : r \in Behind \/ r \in Seen
    BY <1>1, <2>4, <2>5 DEF UsageInv, Behind
  <2>7. CASE pc' = "done" /\ page = Behind
    BY <1>1, <2>3, <2>4, <2>5, <2>6, <2>7
  <2>8. CASE pc' = pc /\ cursor' \in page /\ \A r \in Behind : r = cursor' \/ Before(r, cursor') => r \in page
    <3>1. \A r \in Behind : r = cursor' \/ Before(cursor', r) \/ Before(r, cursor')
      <4>1. cursor' \in Row
        BY <2>2, <2>8
      <4>2. \A a \in Row : a[1] \in Int /\ a[2] \in Int /\ a = <<a[1], a[2]>>
        BY RowAssumption
      <4>3. QED
        BY <2>2, <4>1, <4>2 DEF Before
    <3>2. \A r \in Behind : (AfterCursor(r))' \/ r \in page
      <4>1. \A r : Before(cursor', r) => (AfterCursor(r))'
        BY DEF AfterCursor, Before
      <4>2. QED
        BY <2>8, <3>1, <4>1
    <3>3. QED
      BY <1>1, <2>3, <2>4, <2>5, <2>6, <2>8, <3>2
  <2>9. QED
    BY <2>1, <2>7, <2>8
<1>5. CASE BeginList \/ FetchList
  BY <1>1, <1>5 DEF BeginList, FetchList
<1>6. CASE UNCHANGED vars
  <2>1. Seen' = Seen /\ (\A s \in Row : (AfterCursor(s))' <=> AfterCursor(s))
    BY <1>6 DEF vars, Seen, AfterCursor, Before
  <2>2. Asked(query)' = Asked(query)
    BY <1>6 DEF vars, Asked
  <2>3. initial' = initial /\ pc' = pc /\ initial \subseteq Row
    BY <1>6 DEF vars, Typed
  <2>4. QED
    BY <1>1, <2>1, <2>2, <2>3 DEF UsageInv
<1>7. QED
  BY <1>2, <1>3, <1>4, <1>5, <1>6 DEF Next
-----------------------------------------------------------------------------
(* Pages of the usage are in order *)

\* No window is of Go's zero time: a cursor there would be read as none.
HoursAreSet == \A r \in Row : r[1] # ZeroTime

\* The cursor is the last row seen.
AscendInv ==
    query.list = "usage" =>
        /\ PagesAscend
        /\ pc # "done" => \A r \in Seen : cursor # NoCursor /\ (r = cursor \/ Before(r, cursor))

\* No page is in order.
LEMMA InitAscend == ASSUME Init PROVE AscendInv
BY DEF Init, AscendInv, PagesAscend, Seen

\* A page holds windows behind the last one seen, and moves the cursor to its own
\* last one.
LEMMA NextAscend ==
  ASSUME HoursAreSet, Typed, AscendInv, [Next]_vars
  PROVE  AscendInv'
<1> SUFFICES ASSUME (query.list = "usage")'
             PROVE  /\ PagesAscend'
                    /\ (pc # "done" =>
                          \A r \in Seen : cursor # NoCursor /\ (r = cursor \/ Before(r, cursor)))'
  BY DEF AscendInv
<1>1. query' = query
  BY DEF Next, AddRow, Begin, FetchPage, BeginList, FetchList, vars
<1>2. /\ PagesAscend
      /\ pc # "done" => \A r \in Seen : cursor # NoCursor /\ (r = cursor \/ Before(r, cursor))
  BY <1>1 DEF AscendInv
<1>3. CASE UNCHANGED <<got, cursor>> /\ (pc' = pc \/ (pc' = "reading" /\ pc = "idle"))
  BY <1>1, <1>2, <1>3 DEF PagesAscend, Seen, Before
<1>4. CASE FetchPage
  <2>1. PICK page \in SUBSET Behind :
           /\ got' = Append(got, page)
           /\ \/ /\ pc' = pc /\ cursor' \in page
                 /\ \A t \in page : t = cursor' \/ Before(t, cursor')
              \/ pc' = "done"
    BY <1>4, FetchEffect
  <2>2. page \subseteq Row /\ Behind \subseteq Row
    BY DEF Typed, Behind, Asked
  <2>3. /\ Seen' = Seen \cup page
        /\ Len(got) \in Nat /\ DOMAIN got = 1 .. Len(got) /\ DOMAIN got' = 1 .. Len(got) + 1
        /\ \A i \in DOMAIN got : got'[i] = got[i]
        /\ got'[Len(got) + 1] = page
    BY <2>1, <2>2, AnotherPage DEF Typed
  <2>4. \A a, b, c \in Row : Before(a, b) /\ Before(b, c) => Before(a, c)
    <3>1. \A a \in Row : a[1] \in Int /\ a[2] \in Int
      BY RowAssumption
    <3>2. QED
      BY <3>1 DEF Before
  <2>5. Seen \subseteq Row
    BY DEF Typed
  <2>6. \A r \in Seen, t \in page : Before(r, t)
    <3> SUFFICES ASSUME NEW r \in Seen, NEW t \in page
                 PROVE  Before(r, t)
      OBVIOUS
    <3>1. pc = "reading"
      BY <1>4 DEF FetchPage
    <3>2. cursor \in Row /\ cursor # NoCursor /\ (r = cursor \/ Before(r, cursor))
      BY <1>2, <3>1 DEF Typed
    <3>3. Before(cursor, t)
      BY <3>2 DEF Behind, AfterCursor, HoursAreSet
    <3>4. QED
      BY <2>2, <2>4, <2>5, <3>2, <3>3
  <2>7. PagesAscend'
    <3> SUFFICES ASSUME NEW i \in DOMAIN got', NEW j \in DOMAIN got', i < j,
                        NEW r \in got'[i], NEW t \in got'[j]
                 PROVE  Before(r, t)
      BY DEF PagesAscend, Before
    <3>1. i \in DOMAIN got /\ r \in got[i] /\ r \in Seen
      <4>1. i \in DOMAIN got
        BY <2>3
      <4>2. QED
        BY <2>3, <4>1 DEF Seen
    <3>2. CASE j \in DOMAIN got
      BY <1>1, <1>2, <2>3, <3>1, <3>2 DEF PagesAscend
    <3>3. CASE j = Len(got) + 1
      BY <2>3, <2>6, <3>1, <3>3
    <3>4. QED
      BY <2>3, <3>2, <3>3
  <2>8. CASE pc' = "done"
    BY <2>7, <2>8
  <2>9. CASE cursor' \in page /\ \A t \in page : t = cursor' \/ Before(t, cursor')
    <3>1. cursor' # NoCursor
      <4>1. \A a \in Row : a = <<a[1], a[2]>>
        BY RowAssumption
      <4>2. cursor' = <<cursor'[1], cursor'[2]>>
        BY <2>2, <2>9, <4>1
      <4>3. QED
        BY <4>2 DEF NoCursor
    <3>2. \A r \in Seen' : r = cursor' \/ Before(r, cursor')
      BY <2>3, <2>6, <2>9
    <3>3. QED
      BY <2>7, <3>1, <3>2 DEF Before
  <2>10. QED
    BY <2>1, <2>8, <2>9
<1>5. CASE (\E r \in Row : AddRow(r)) \/ Begin \/ UNCHANGED vars
  <2>1. CASE \E r \in Row : AddRow(r)
    <3>1. UNCHANGED <<got, cursor>> /\ pc' = pc
      BY <2>1 DEF AddRow
    <3>2. QED
      BY <1>3, <3>1
  <2>2. CASE Begin
    <3>1. UNCHANGED <<got, cursor>> /\ pc' = "reading" /\ pc = "idle"
      BY <2>2 DEF Begin
    <3>2. QED
      BY <1>3, <3>1
  <2>3. CASE UNCHANGED vars
    <3>1. UNCHANGED <<got, cursor>> /\ pc' = pc
      BY <2>3 DEF vars
    <3>2. QED
      BY <1>3, <3>1
  <2>4. QED
    BY <1>5, <2>1, <2>2, <2>3
<1>6. ~ BeginList /\ ~ FetchList
  BY <1>1 DEF BeginList, FetchList
<1>7. QED
  BY <1>4, <1>5, <1>6 DEF Next

-----------------------------------------------------------------------------
(* Lists by offset *)

Ahead(r) == Cardinality({t \in table : Precedes(t, r)})

\* A row that ties with none is among the first n exactly when fewer than n are
\* ahead of it.
LEMMA FirstRowsPlace ==
  ASSUME Typed, query.list # "usage", NEW n \in Nat, NEW S \in FirstRows(n),
         NEW r \in table, ~ Tied(r)
  PROVE  r \in S <=> Ahead(r) < n
<1> DEFINE A == {t \in table : Precedes(t, r)}
<1>1. /\ IsFiniteSet(table) /\ IsFiniteSet(A) /\ IsFiniteSet(S) /\ S \subseteq table
      /\ Cardinality(table) \in Nat /\ Cardinality(A) \in Nat /\ Cardinality(S) \in Nat
      /\ Cardinality(S) = IF n < Cardinality(table) THEN n ELSE Cardinality(table)
      /\ \A s \in S, t \in table \ S : ~ Precedes(t, s)
  <2>1. A \subseteq table /\ S \subseteq table
    BY DEF FirstRows
  <2>2. IsFiniteSet(A) /\ IsFiniteSet(S)
    BY <2>1, FS_Subset DEF Typed
  <2>3. QED
    BY <2>1, <2>2, FS_CardinalityType DEF Typed, FirstRows
<1>2. \A t \in table : t # r => (Precedes(t, r) <=> ~ Precedes(r, t))
  <2>1. \A t \in table : t[1] \in Int
    BY RowAssumption DEF Typed
  <2>2. \A t \in table : t # r => t[1] # r[1]
    BY DEF Tied
  <2>3. QED
    BY <2>1, <2>2 DEF Precedes
<1>3. ~ Precedes(r, r)
  BY RowAssumption DEF Typed, Precedes
<1>4. ASSUME r \in S
      PROVE  Cardinality(A) < n
  <2>1. A \subseteq S \ {r}
    BY <1>1, <1>3, <1>4
  <2>2. IsFiniteSet(S \ {r}) /\ Cardinality(S \ {r}) = Cardinality(S) - 1
    BY <1>1, <1>4, FS_RemoveElement
  <2>3. Cardinality(A) <= Cardinality(S) - 1
    BY <2>1, <2>2, FS_Subset
  <2>4. QED
    BY <1>1, <2>3
<1>5. ASSUME r \notin S
      PROVE  ~ (Cardinality(A) < n)
  <2>1. S \subseteq A
    BY <1>1, <1>2, <1>5
  <2>2. Cardinality(S) <= Cardinality(A)
    BY <1>1, <2>1, FS_Subset
  <2>3. Cardinality(S) # Cardinality(table)
    BY <1>1, <1>5, FS_Subset
  <2>4. QED
    BY <1>1, <2>2, <2>3
<1>6. QED
  BY <1>4, <1>5 DEF Ahead

Start == IF query.offset < 0 THEN 0 ELSE query.offset

\* The rows ahead of the offset have been seen, or left out.
ListInv ==
    query.list # "usage" =>
        /\ pc # "idle" =>
              /\ \A r \in initial : Tied(r) \/ r \in Seen \/ LeftOut(r) \/ ~ (Ahead(r) < offset)
              /\ offset = Start + Shown
              /\ offset = Start \/ offset <= Cardinality(table)
        /\ pc = "idle" => initial = {}
        /\ NothingIsSkipped
\* Pages are finite.
LEMMA ShownType ==
  ASSUME Typed
  PROVE  Shown \in Int
<1> DEFINE f == [i \in DOMAIN got |-> Cardinality(got[i])]
<1>1. DOMAIN got = 1 .. Len(got) /\ Len(got) \in Nat
  BY DEF Typed
<1>2. \A i \in DOMAIN got : f[i] \in Int
  <2> SUFFICES ASSUME NEW i \in DOMAIN got PROVE Cardinality(got[i]) \in Int
    OBVIOUS
  <2>1. got[i] \subseteq table
    BY DEF Typed, Seen
  <2>2. IsFiniteSet(got[i])
    BY <2>1, FS_Subset DEF Typed
  <2>3. QED
    BY <2>2, FS_CardinalityType
<1>3. IsFiniteSet(DOMAIN got)
  BY <1>1, FS_Interval
<1> HIDE DEF f
<1>4. SumOver(f, DOMAIN got) \in Int
  BY <1>2, <1>3, SumType
<1>5. QED
  BY <1>4 DEF Shown, f

\* What the pages show, after one more.
LEMMA ShownGrows ==
  ASSUME Typed, NEW P, P \subseteq table, got' = Append(got, P)
  PROVE  Shown \in Int /\ Shown' = Shown + Cardinality(P)
<1> DEFINE m == Len(got)
           f == [i \in DOMAIN got |-> Cardinality(got[i])]
           g == [i \in DOMAIN got' |-> Cardinality(got'[i])]
<1>1. /\ m \in Nat /\ DOMAIN got = 1 .. m /\ DOMAIN got' = 1 .. m + 1
      /\ \A i \in 1 .. m : got'[i] = got[i]
      /\ got'[m + 1] = P
  BY AnotherPage DEF Typed
<1>2. Shown = SumOver(f, 1 .. m) /\ Shown' = SumOver(g, 1 .. m + 1)
  BY <1>1 DEF Shown
<1>3. /\ \A i \in 1 .. m : g[i] = f[i] /\ f[i] \in Int /\ g[i] \in Int
      /\ g[m + 1] = Cardinality(P) /\ g[m + 1] \in Int
  <2>1. \A i \in 1 .. m : got[i] \subseteq table
    BY <1>1 DEF Typed, Seen
  <2>2. \A Q \in SUBSET table : Cardinality(Q) \in Int
    <3> SUFFICES ASSUME NEW Q \in SUBSET table PROVE Cardinality(Q) \in Int
      OBVIOUS
    <3>1. IsFiniteSet(Q)
      BY FS_Subset DEF Typed
    <3>2. QED
      BY <3>1, FS_CardinalityType
  <2>3. ASSUME NEW i \in 1 .. m
        PROVE  g[i] = f[i] /\ f[i] \in Int /\ g[i] \in Int
    <3>1. i \in DOMAIN got /\ i \in DOMAIN got' /\ got'[i] = got[i]
      BY <1>1
    <3>2. f[i] = Cardinality(got[i]) /\ g[i] = Cardinality(got[i])
      BY <3>1
    <3>3. QED
      BY <2>1, <2>2, <3>2
  <2>4. m + 1 \in DOMAIN got'
    BY <1>1
  <2>5. g[m + 1] = Cardinality(P)
    BY <1>1, <2>4
  <2>6. QED
    BY <2>2, <2>3, <2>5
<1> HIDE DEF m, f, g
<1>4. IsFiniteSet(1 .. m) /\ IsFiniteSet(1 .. m + 1)
  BY <1>1, FS_Interval
<1>5. SumOver(f, 1 .. m) \in Int
  BY <1>3, <1>4, SumType
<1>6. SumOver(g, 1 .. m + 1) = g[m + 1] + SumOver(g, (1 .. m + 1) \ {m + 1})
  <2>1. m + 1 \in 1 .. m + 1 /\ \A i \in 1 .. m + 1 : i \in 1 .. m \/ i = m + 1
    BY <1>1
  <2>2. \A i \in 1 .. m + 1 : g[i] \in Int
    BY <1>3, <2>1
  <2>3. QED
    BY <1>4, <2>1, <2>2, SumRemove
<1>7. (1 .. m + 1) \ {m + 1} = 1 .. m
  BY <1>1
<1>8. SumOver(g, 1 .. m) = SumOver(f, 1 .. m)
  BY <1>3, <1>4, SumSame
<1>9. SumOver(g, 1 .. m + 1) = Cardinality(P) + SumOver(f, 1 .. m) /\ Cardinality(P) \in Int
  BY <1>3, <1>6, <1>7, <1>8
<1>10. QED
  BY <1>2, <1>5, <1>9

\* A client that has not begun has asked for nothing.
LEMMA InitList == ASSUME Init PROVE ListInv
BY DEF Init, ListInv, NothingIsSkipped

\* A row that appears puts more rows ahead of others and ties with more.
LEMMA RowsGrow ==
  ASSUME Typed, query.list # "usage", table' \in SUBSET Row, table \subseteq table',
         IsFiniteSet(table'), UNCHANGED <<query, initial, got, offset>>
  PROVE  /\ Seen' = Seen /\ Shown' = Shown
         /\ \A r \in initial : /\ Tied(r) => Tied(r)'
                               /\ LeftOut(r)' <=> LeftOut(r)
                               /\ (Ahead(r) < offset)' => Ahead(r) < offset
         /\ Cardinality(table) \in Nat /\ Cardinality(table') \in Nat
         /\ Cardinality(table) <= Cardinality(table')
<1>1. Seen' = Seen /\ Shown' = Shown
  BY DEF Seen, Shown
<1>2. ASSUME NEW r \in initial
      PROVE  (Tied(r) => Tied(r)') /\ (LeftOut(r)' <=> LeftOut(r))
  BY DEF Tied, LeftOut, Precedes
<1>3. ASSUME NEW r \in initial
      PROVE  (Ahead(r) < offset)' => Ahead(r) < offset
  <2> DEFINE A == {t \in table : Precedes(t, r)}
             B == {t \in table' : Precedes(t, r)}
  <2>1. Ahead(r)' = Cardinality(B) /\ Ahead(r) = Cardinality(A)
    BY DEF Ahead, Precedes
  <2>2. A \subseteq B /\ B \subseteq table' /\ IsFiniteSet(B)
    BY FS_Subset
  <2>3. IsFiniteSet(A) /\ Cardinality(A) \in Nat /\ Cardinality(B) \in Nat /\ Cardinality(A) <= Cardinality(B)
    BY <2>2, FS_Subset, FS_CardinalityType
  <2>4. offset \in Nat /\ offset' = offset
    BY DEF Typed
  <2> HIDE DEF A, B
  <2>5. QED
    BY <2>1, <2>3, <2>4
<1>4. Cardinality(table) \in Nat /\ Cardinality(table') \in Nat /\ Cardinality(table) <= Cardinality(table')
  BY FS_Subset, FS_CardinalityType DEF Typed
<1>5. QED
  BY <1>1, <1>2, <1>3, <1>4

\* A page holds the rows at the places from the offset to the next one.
LEMMA NextList ==
  ASSUME Typed, Typed', ListInv, [Next]_vars
  PROVE  ListInv'
<1> SUFFICES ASSUME query.list # "usage"
             PROVE  ListInv'
  BY DEF ListInv, Next, AddRow, Begin, FetchPage, BeginList, FetchList, vars
<1>1. query' = query
  BY DEF Next, AddRow, Begin, FetchPage, BeginList, FetchList, vars
<1>2. /\ pc # "idle" =>
            /\ \A r \in initial : Tied(r) \/ r \in Seen \/ LeftOut(r) \/ ~ (Ahead(r) < offset)
            /\ offset = Start + Shown
            /\ offset = Start \/ offset <= Cardinality(table)
      /\ pc = "idle" => initial = {}
      /\ NothingIsSkipped
  BY DEF ListInv
<1>3. Start \in Nat /\ Start' = Start /\ query.offset \in Int
  <2>1. query.offset \in Int
    BY QueryAssumption DEF Typed
  <2>2. QED
    BY <1>1, <2>1 DEF Start
<1>4. CASE (\E r \in Row : AddRow(r)) \/ UNCHANGED vars
  <2>1. /\ table \subseteq table' /\ UNCHANGED <<query, initial, got, offset, pc>>
    BY <1>4 DEF AddRow, vars
  <2>2. table' \in SUBSET Row /\ IsFiniteSet(table')
    BY DEF Typed
  <2>3. /\ Seen' = Seen /\ Shown' = Shown
        /\ \A r \in initial : /\ Tied(r) => Tied(r)'
                              /\ LeftOut(r)' <=> LeftOut(r)
                              /\ (Ahead(r) < offset)' => Ahead(r) < offset
        /\ Cardinality(table) \in Nat /\ Cardinality(table') \in Nat
        /\ Cardinality(table) <= Cardinality(table')
    BY <2>1, <2>2, RowsGrow
  <2>4. NothingIsSkipped'
    BY <1>2, <2>1, <2>3 DEF NothingIsSkipped
  <2>5. offset' = offset /\ offset \in Nat
    BY <2>1 DEF Typed
  <2>6. (offset = Start \/ offset <= Cardinality(table)) => (offset = Start \/ offset <= Cardinality(table))'
    BY <1>3, <2>3, <2>5
  <2>7. ASSUME pc # "idle"
        PROVE  (\A r \in initial : Tied(r) \/ r \in Seen \/ LeftOut(r) \/ ~ (Ahead(r) < offset))'
    BY <1>2, <2>1, <2>3, <2>7
  <2>8. QED
    BY <1>2, <1>3, <2>1, <2>3, <2>4, <2>6, <2>7 DEF ListInv
<1>5. CASE BeginList
  <2>1. got = <<>> /\ got' = <<>>
    BY <1>5 DEF BeginList, Typed
  <2>2. Shown' = 0
    <3>1. DOMAIN got' = {} /\ Shown' = SumOver([i \in DOMAIN got' |-> Cardinality(got'[i])], {})
      BY <2>1 DEF Shown
    <3>2. QED
      BY <3>1, SumEmpty
  <2>3. offset' = Start /\ initial' = table /\ table' = table /\ pc' = "reading"
    BY <1>5 DEF BeginList, Start
  <2>4. ASSUME NEW r \in initial', (Ahead(r) < offset)'
        PROVE  LeftOut(r)'
    <3> DEFINE A == {t \in table' : Precedes(t, r)'}
    <3>1. IsFiniteSet(A)
      BY FS_Subset DEF Typed
    <3>2. Cardinality(A) \in Nat
      BY <3>1, FS_CardinalityType
    <3>3. Cardinality(A) < Start
      BY <2>3, <2>4 DEF Ahead
    <3>4. Cardinality(A) < query.offset
      BY <1>3, <3>2, <3>3 DEF Start
    <3>5. QED
      BY <1>1, <2>3, <3>4 DEF LeftOut
  <2>5. QED
    BY <1>3, <2>2, <2>3, <2>4 DEF ListInv, NothingIsSkipped
<1>6. CASE FetchList
  <2> DEFINE n == PageSize(query)
             c == Cardinality(table)
  <2>1. PICK skipped \in FirstRows(offset), S \in FirstRows(offset + n) :
            /\ skipped \subseteq S /\ S \subseteq table
            /\ IsFiniteSet(S) /\ IsFiniteSet(S \ skipped)
            /\ Cardinality(S \ skipped) = Cardinality(S) - Cardinality(skipped)
            /\ Cardinality(S) \in Nat /\ Cardinality(skipped) \in Nat
            /\ Cardinality(S \ skipped) \in Nat
            /\ got' = Append(got, S \ skipped)
            /\ offset' = offset + Cardinality(S \ skipped)
            /\ pc' = IF S = skipped THEN "done" ELSE pc
    BY <1>6, FetchListEffect
  <2>2. pc = "reading" /\ UNCHANGED <<table, query, initial, cursor>>
    BY <1>6 DEF FetchList
  <2>3. n \in Nat \ {0} /\ offset \in Nat /\ offset + n \in Nat /\ c \in Nat
    BY PageSizeType, FS_CardinalityType DEF Typed
  <2>4. /\ Cardinality(skipped) = IF offset < c THEN offset ELSE c
        /\ Cardinality(S) = IF offset + n < c THEN offset + n ELSE c
    BY DEF FirstRows
  <2> HIDE DEF n, c
  <2>5. Seen' = Seen \cup (S \ skipped)
    <3>1. S \ skipped \subseteq Row
      BY <2>1 DEF Typed
    <3>2. QED
      BY <2>1, <3>1, AnotherPage DEF Typed
  <2>6. Shown \in Int /\ Shown' = Shown + Cardinality(S \ skipped)
    <3>1. S \ skipped \subseteq table
      BY <2>1
    <3>2. QED
      BY <2>1, <3>1, ShownGrows
  <2>7. offset' = Start + Shown'
    BY <1>2, <1>3, <2>1, <2>2, <2>6
  <2>8. offset' = Start \/ offset' <= c
    BY <1>2, <2>1, <2>2, <2>3, <2>4 DEF c
  <2>9. offset' <= offset + n /\ offset' \in Nat
    BY <2>1, <2>3, <2>4
  <2>10. ASSUME NEW r \in initial
         PROVE  /\ Tied(r)' <=> Tied(r)
                /\ LeftOut(r)' <=> LeftOut(r)
                /\ Ahead(r)' = Ahead(r)
                /\ Ahead(r) \in Nat
    <3>1. IsFiniteSet({t \in table : Precedes(t, r)})
      BY FS_Subset DEF Typed
    <3>2. Ahead(r) \in Nat
      BY <3>1, FS_CardinalityType DEF Ahead
    <3>3. QED
      BY <2>2, <3>2 DEF Tied, LeftOut, Ahead, Precedes
  <2>11. ASSUME NEW r \in initial, ~ Tied(r)
         PROVE  r \in table /\ (r \in S <=> Ahead(r) < offset + n) /\ (r \in skipped <=> Ahead(r) < offset)
    <3>1. r \in table
      BY DEF Typed
    <3>2. r \in S <=> Ahead(r) < offset + n
      BY <2>3, <2>11, <3>1, FirstRowsPlace
    <3>3. r \in skipped <=> Ahead(r) < offset
      BY <2>3, <2>11, <3>1, FirstRowsPlace
    <3>4. QED
      BY <3>1, <3>2, <3>3
  <2>12. ASSUME NEW r \in initial, ~ Tied(r), ~ LeftOut(r), Ahead(r) < offset'
         PROVE  r \in Seen'
    <3>1. r \in S
      BY <2>3, <2>9, <2>10, <2>11, <2>12
    <3>2. CASE r \in skipped
      <4>1. Ahead(r) < offset
        BY <2>11, <2>12, <3>2
      <4>2. QED
        BY <1>2, <2>2, <2>5, <2>12, <4>1
    <3>3. QED
      BY <2>5, <3>1, <3>2
  <2>13. ASSUME pc' = "done", NEW r \in initial, ~ Tied(r), ~ LeftOut(r)
         PROVE  r \in Seen'
    <3>1. S = skipped
      BY <2>1, <2>2, <2>13
    <3>2. Cardinality(skipped) = c
      BY <2>3, <2>4, <3>1
    <3>3. skipped = table
      BY <2>1, <3>1, <3>2, FS_Subset DEF Typed, c
    <3>4. Ahead(r) < offset
      BY <2>11, <2>13, <3>3
    <3>5. QED
      BY <1>2, <2>2, <2>5, <2>13, <3>4
  <2>14. NothingIsSkipped'
    BY <2>2, <2>10, <2>13 DEF NothingIsSkipped
  <2>15. (\A r \in initial : Tied(r) \/ r \in Seen \/ LeftOut(r) \/ ~ (Ahead(r) < offset))'
    BY <2>2, <2>10, <2>12
  <2>16. (offset = Start + Shown)' /\ (offset = Start \/ offset <= Cardinality(table))'
    BY <1>3, <2>2, <2>7, <2>8 DEF c
  <2>17. pc' # "idle"
    BY <2>1, <2>2
  <2>18. QED
    BY <2>14, <2>15, <2>16, <2>17 DEF ListInv
<1>7. CASE Begin \/ FetchPage
  BY <1>7 DEF Begin, FetchPage
<1>8. QED
  BY <1>4, <1>5, <1>6, <1>7 DEF Next
-----------------------------------------------------------------------------
(* A row again only for a row that is new *)

Ordering == {p \in Row \X Row : Precedes(p[1], p[2])}

\* Rows of different first columns are in a strict order.
LEMMA OrderingOrders ==
  ASSUME query.list # "usage", NEW S, S \subseteq table, table \subseteq Row,
         \A r \in table : ~ Tied(r)
  PROVE  /\ Orders(Ordering, S)
         /\ \A r \in S : {t \in S : Precedes(t, r)} = AheadOf(Ordering, S, r)
<1>1. \A a, b \in S : <<a, b>> \in Ordering <=> Precedes(a, b)
  BY DEF Ordering
<1>2. \A a \in S : a[1] \in Int
  BY RowAssumption
<1>3. \A a, b \in S : a # b => a[1] # b[1]
  BY DEF Tied
<1>4. /\ \A a \in S : ~ Precedes(a, a)
      /\ \A a, b, c \in S : Precedes(a, b) /\ Precedes(b, c) => Precedes(a, c)
      /\ \A a, b \in S : a = b \/ Precedes(a, b) \/ Precedes(b, a)
  BY <1>2, <1>3 DEF Precedes
<1>5. Orders(Ordering, S)
  BY <1>1, <1>4 DEF Orders
<1>6. \A r \in S : {t \in S : Precedes(t, r)} = AheadOf(Ordering, S, r)
  BY <1>1 DEF AheadOf
<1>7. QED
  BY <1>5, <1>6

\* Of the rows ahead of the offset, those that are not new have been seen or left
\* out: with as many rows shown, no more are shown again than are new.
LEMMA NewRowsPay ==
  ASSUME Typed, ListInv, query.list # "usage", \A r \in table : ~ Tied(r)
  PROVE  Shown - Cardinality(Seen) <= Cardinality(table \ initial)
<1>1. /\ table \subseteq Row /\ IsFiniteSet(table) /\ initial \subseteq table /\ Seen \subseteq table
      /\ offset \in Nat /\ query.offset \in Int /\ Start \in Nat
  BY QueryAssumption DEF Typed, Start
<1>2. /\ IsFiniteSet(initial) /\ IsFiniteSet(Seen) /\ IsFiniteSet(table \ initial)
      /\ Cardinality(Seen) \in Nat /\ Cardinality(table \ initial) \in Nat
      /\ Cardinality(initial) \in Nat /\ Cardinality(table) \in Nat
  <2>1. IsFiniteSet(initial) /\ IsFiniteSet(Seen) /\ IsFiniteSet(table \ initial)
    BY <1>1, FS_Subset
  <2>2. QED
    BY <1>1, <2>1, FS_CardinalityType
<1>3. CASE pc = "idle" \/ offset = Start
  <2>1. Shown = 0
    <3>1. CASE pc = "idle"
      <4>1. DOMAIN got = {} /\ Shown = SumOver([i \in DOMAIN got |-> Cardinality(got[i])], {})
        BY <3>1 DEF Shown, Typed
      <4>2. QED
        BY <4>1, SumEmpty
    <3>2. CASE pc # "idle" /\ offset = Start
      <4>1. offset = Start + Shown
        BY <3>2 DEF ListInv
      <4>2. QED
        BY <1>1, <3>2, <4>1, ShownType
    <3>3. QED
      BY <1>3, <3>1, <3>2
  <2>2. QED
    BY <1>2, <2>1
<1>4. CASE pc # "idle" /\ offset # Start
  <2> DEFINE F == First(Ordering, table, offset)
             L == First(Ordering, initial, query.offset)
             N == table \ initial
  <2>1. /\ \A r \in initial : r \in Seen \/ LeftOut(r) \/ ~ (Ahead(r) < offset)
        /\ offset = Start + Shown /\ offset <= Cardinality(table)
    BY <1>1, <1>4 DEF ListInv
  <2>2. /\ Orders(Ordering, table)
        /\ \A r \in table : {t \in table : Precedes(t, r)} = AheadOf(Ordering, table, r)
    BY <1>1, OrderingOrders
  <2>3. /\ Orders(Ordering, initial)
        /\ \A r \in initial : {t \in initial : Precedes(t, r)} = AheadOf(Ordering, initial, r)
    BY <1>1, OrderingOrders
  <2>4. F \subseteq table /\ IsFiniteSet(F) /\ Cardinality(F) = offset
    <3>1. Cardinality(F) = IF offset < Cardinality(table) THEN offset ELSE Cardinality(table)
      BY <1>1, <2>2, FirstCount
    <3>2. F \subseteq table
      BY DEF First
    <3>3. QED
      BY <1>1, <1>2, <2>1, <3>1, <3>2, FS_Subset
  <2>5. L \subseteq initial /\ IsFiniteSet(L) /\ Cardinality(L) \in Nat /\ Cardinality(L) <= Start
    <3>1. L \subseteq initial
      BY DEF First
    <3>2. IsFiniteSet(L) /\ Cardinality(L) \in Nat
      BY <1>2, <3>1, FS_Subset, FS_CardinalityType
    <3>3. CASE query.offset < 0
      <4>1. \A r \in initial : Place(Ordering, initial, r) \in Nat
        BY <1>2, <2>3, Places
      <4>2. L = {}
        BY <1>1, <3>3, <4>1 DEF First
      <4>3. Cardinality(L) = 0
        BY <4>2, FS_EmptySet
      <4>4. QED
        BY <1>1, <3>1, <3>2, <4>3
    <3>4. CASE ~ (query.offset < 0)
      <4>1. query.offset \in Nat /\ Start = query.offset
        BY <1>1, <3>4 DEF Start
      <4>2. Cardinality(L) = IF query.offset < Cardinality(initial) THEN query.offset ELSE Cardinality(initial)
        BY <1>2, <2>3, <4>1, FirstCount
      <4>3. Cardinality(L) <= Start
        BY <1>2, <4>1, <4>2
      <4>4. QED
        BY <3>1, <3>2, <4>3
    <3>5. QED
      BY <3>3, <3>4
  <2>6. \A r \in F : r \in Seen \/ r \in L \/ r \in N
    <3> SUFFICES ASSUME NEW r \in F, r \in initial
                 PROVE  r \in Seen \/ r \in L
      BY <2>4
    <3>1. Ahead(r) < offset
      BY <1>1, <2>2 DEF First, Place, Ahead
    <3>2. LeftOut(r) => r \in L
      BY <2>3 DEF LeftOut, First, Place
    <3>3. QED
      BY <2>1, <3>1, <3>2
  <2> HIDE DEF F, L, N
  <2>7. F \subseteq (Seen \cup L) \cup N
    BY <2>6
  <2>8. /\ IsFiniteSet(N) /\ Cardinality(N) \in Nat
        /\ IsFiniteSet(Seen \cup L) /\ IsFiniteSet((Seen \cup L) \cup N)
    BY <1>2, <2>5, FS_Union DEF N
  <2>9. Cardinality(F) <= Cardinality((Seen \cup L) \cup N)
    BY <2>7, <2>8, FS_Subset
  <2>10. \A A, B : IsFiniteSet(A) /\ IsFiniteSet(B) =>
            /\ Cardinality(A \cup B) \in Nat
            /\ Cardinality(A \cup B) <= Cardinality(A) + Cardinality(B)
    <3> SUFFICES ASSUME NEW A, NEW B, IsFiniteSet(A), IsFiniteSet(B)
                 PROVE  /\ Cardinality(A \cup B) \in Nat
                        /\ Cardinality(A \cup B) <= Cardinality(A) + Cardinality(B)
      OBVIOUS
    <3>1. IsFiniteSet(A \cup B) /\ IsFiniteSet(A \cap B)
      BY FS_Union, FS_Intersection
    <3>2. Cardinality(A \cup B) = Cardinality(A) + Cardinality(B) - Cardinality(A \cap B)
      BY FS_Union
    <3>3. QED
      BY <3>1, <3>2, FS_CardinalityType
  <2>11. /\ Cardinality(Seen \cup L) \in Nat
         /\ Cardinality(Seen \cup L) <= Cardinality(Seen) + Cardinality(L)
    BY <1>2, <2>5, <2>10
  <2>12. /\ Cardinality((Seen \cup L) \cup N) \in Nat
         /\ Cardinality((Seen \cup L) \cup N) <= Cardinality(Seen \cup L) + Cardinality(N)
    BY <2>8, <2>10
  <2>13. offset <= Cardinality(Seen) + Start + Cardinality(N)
    BY <1>1, <1>2, <2>4, <2>5, <2>8, <2>9, <2>11, <2>12
  <2>14. QED
    BY <1>1, <1>2, <2>1, <2>13, ShownType DEF N
<1>5. QED
  BY <1>3, <1>4

-----------------------------------------------------------------------------
(* What holds of every run *)

\* In every state of a run.
LEMMA TypedAlways == Spec => []Typed
BY InitTyped, NextTyped, PTL DEF Spec

\* The pages of the usage are in order and show no window twice, however windows
\* appear between them (ListWindows, ListUsage).
THEOREM UsageInOrder == HoursAreSet => (Spec => []PagesAscend)
<1> SUFFICES ASSUME HoursAreSet
             PROVE  Spec => []PagesAscend
  OBVIOUS
<1>1. Spec => []AscendInv
  <2>1. Typed /\ AscendInv /\ [Next]_vars => AscendInv'
    BY NextAscend
  <2>2. QED
    BY <2>1, InitAscend, TypedAlways, PTL DEF Spec
<1>2. AscendInv => PagesAscend
  BY DEF AscendInv, PagesAscend
<1>3. QED
  BY <1>1, <1>2, PTL

\* A list that is read to its end has shown every row that was there when it
\* began, in all three lists, but for rows that tie and rows left out.
THEOREM NothingLost == Spec => []NothingIsSkipped
<1>1. Spec => []UsageInv
  BY InitUsage, NextUsage, TypedAlways, PTL DEF Spec
<1>2. Spec => []ListInv
  BY InitList, NextList, TypedAlways, PTL DEF Spec
<1>3. UsageInv /\ ListInv => NothingIsSkipped
  BY DEF UsageInv, ListInv, NothingIsSkipped
<1>4. QED
  BY <1>1, <1>2, <1>3, PTL

\* A list by offset shows no more rows again than have appeared since it began.
THEOREM ShiftsOnly == Spec => []RepeatsAreShifts
<1>1. Spec => []ListInv
  BY InitList, NextList, TypedAlways, PTL DEF Spec
<1>2. Typed /\ ListInv => RepeatsAreShifts
  BY NewRowsPay DEF RepeatsAreShifts
<1>3. QED
  BY <1>1, <1>2, TypedAlways, PTL
==============================================================================
